---------------------------- MODULE SettingsPage ----------------------------
(***************************************************************************)
(* The page's SettingsController (lib/settingsController.svelte.ts) and    *)
(* the settings of the process behind it.  The page shows its edits at     *)
(* once, saves full snapshots one after another with the revision of the   *)
(* last answer, merges the "settings-state" events of other writers, and   *)
(* reloads after a refused save.  Messages between the two are delayed;    *)
(* events are read and sent outside the locks and may overtake each other. *)
(*                                                                         *)
(* A view is the revision with two parts of the settings: what the page    *)
(* edits and what other writers change (detection, credential commands,    *)
(* accounts, the tray).  The account revision rises only together with the *)
(* settings revision, so comparing both is comparing the latter.  What     *)
(* runs in one turn of the page's event loop, microtasks included, is one  *)
(* step.                                                                   *)
(***************************************************************************)
EXTENDS Integers, Sequences, SequencesExt

CONSTANTS MaxEdits,    \* bound: edits of the page
          MaxOthers,   \* bound: changes by other writers
          MaxGestures  \* bound: resets asked for and cards dragged (drafts)

ASSUME PageAssumption ==
  {MaxEdits, MaxOthers, MaxGestures} \subseteq Nat

VARIABLES
  server,         \* the settings of the process, with their revision
  unsent,         \* a change has not been followed by its event yet
  events,         \* events on their way
  request,        \* the mutation the process is working on
  reads,          \* get_app_settings of refreshIfIdle under way
  state,          \* what the page shows
  known,          \* #serverState
  queue,          \* #mutationQueue; the head has been sent
  sequence,       \* #mutationSequence
  generation,     \* #mutationGeneration
  wanted,         \* #externalRefreshPending
  external,       \* #pendingExternalState
  draft,          \* #draftActive
  draftExternal,  \* #draftExternalState
  draftStart,     \* settings when the drag began (customizationGestureStart)
  moved,          \* the drag has moved a card
  edits, resets, drags   \* edits, resets and drags so far

pageVars == <<state, known, queue, sequence, generation, wanted, external>>
draftVars == <<draft, draftExternal, draftStart, moved>>
counters == <<edits, resets, drags>>
vars == <<server, unsent, events, request, reads, pageVars, draftVars, counters>>

Views == [rev : Int, own : Nat, other : Nat]
NoView == [rev |-> -1, own |-> 0, other |-> 0]
First == [rev |-> 0, own |-> 0, other |-> 0]

NoRequest == [at |-> "none", rev |-> 0, view |-> NoView]
Mutations == [kind : {"save", "reset"}, own : Nat, other : Nat, seq : Nat, gen : Nat]

TypeOK ==
  /\ {server, state, known} \subseteq Views
  /\ unsent \in BOOLEAN /\ events \subseteq Views
  /\ request \in [at : {"none", "sent", "stored", "answered", "refused", "reloading",
                        "reloaded"}, rev : Int, view : Views]
  /\ \A r \in reads : r \in [seq : Nat, view : Views]
  /\ queue \in Seq(Mutations)
  /\ sequence \in Nat /\ generation \in Nat
  /\ {wanted, draft, moved} \subseteq BOOLEAN
  /\ {external, draftExternal, draftStart} \subseteq Views
  /\ {edits, resets, drags} \subseteq Nat

(* After getBootstrapState() has answered.                                 *)
Init ==
  /\ server = First /\ state = First /\ known = First
  /\ unsent = FALSE /\ events = {}
  /\ request = NoRequest /\ reads = {}
  /\ queue = <<>> /\ sequence = 0 /\ generation = 0
  /\ wanted = FALSE /\ external = NoView
  /\ draft = FALSE /\ draftExternal = NoView /\ draftStart = NoView /\ moved = FALSE
  /\ edits = 0 /\ resets = 0 /\ drags = 0

DoesNotPrecede(candidate, current) == candidate.rev >= current.rev
StrictlyFollows(candidate, current) == candidate.rev > current.rev
Later(candidate, current) ==
  IF DoesNotPrecede(candidate, current) THEN candidate ELSE current

-----------------------------------------------------------------------------
(* The process                                                             *)

Rise(own, other) ==
  /\ server' = [rev |-> server.rev + 1, own |-> own, other |-> other]
  /\ unsent' = TRUE

OtherWrites ==
  /\ server.other < MaxOthers
  /\ Rise(server.own, server.other + 1)
  /\ UNCHANGED <<events, request, reads, pageVars, draftVars, counters>>

(* A settings-state event is read and sent.                                *)
Emit ==
  /\ unsent
  /\ unsent' = FALSE
  /\ events' = events \union {server}
  /\ UNCHANGED <<server, request, reads, pageVars, draftVars, counters>>

Current == Head(queue)

(* update_from_view(): save_app_settings stores the page's snapshot,       *)
(* reset_customization one made from the current settings.                 *)
Store ==
  /\ request.at = "sent" /\ request.rev = server.rev
  /\ IF Current.kind = "save" THEN Rise(Current.own, Current.other) ELSE Rise(0, server.other)
  /\ request' = [request EXCEPT !.at = "stored"]
  /\ UNCHANGED <<events, reads, pageVars, draftVars, counters>>

(* The snapshot is stale, or another step of the command fails.            *)
RefuseRequest ==
  /\ request.at = "sent"
  /\ request' = [request EXCEPT !.at = "refused"]
  /\ UNCHANGED <<server, unsent, events, reads, pageVars, draftVars, counters>>

(* The command, or get_app_settings of a reload, reads the state to return;*)
(* a save that enabled providers refreshes them before.                    *)
Answer ==
  /\ request.at \in {"stored", "reloading"}
  /\ request' = [request EXCEPT
                   !.at = IF request.at = "stored" THEN "answered" ELSE "reloaded",
                   !.view = server]
  /\ UNCHANGED <<server, unsent, events, reads, pageVars, draftVars, counters>>

AnswerRead(r) ==
  /\ r \in reads /\ r.view = NoView
  /\ reads' = (reads \ {r}) \union {[r EXCEPT !.view = server]}
  /\ UNCHANGED <<server, unsent, events, request, pageVars, draftVars, counters>>

-----------------------------------------------------------------------------
(* The page                                                                *)

(* setState(): what is shown and known when view v is offered and pending  *)
(* mutations are under way or not.                                         *)
SetState(v, pending) ==
  /\ state' = Later(v, state)
  /\ known' = IF DoesNotPrecede(v, state) /\ ~pending THEN Later(v, known) ELSE known

Ask(idle) ==
  reads' = IF idle THEN reads \union {[seq |-> sequence, view |-> NoView]} ELSE reads

(* The first mutation is sent with the revision last answered.             *)
SendFirst(q, base) ==
  request' = IF q = <<>> THEN NoRequest
             ELSE [at |-> "sent", rev |-> base.rev, view |-> NoView]

(* acceptExternalState()                                                   *)
AcceptExternal(v) ==
  IF queue = <<>>
  THEN SetState(v, FALSE) /\ UNCHANGED <<external, wanted>>
  ELSE /\ external' = Later(v, external)
       /\ wanted' = TRUE
       /\ UNCHANGED <<state, known>>

ReceiveEvent(v) ==
  /\ v \in events
  /\ events' = events \ {v}
  /\ IF draft
     THEN draftExternal' = Later(v, draftExternal) /\ UNCHANGED pageVars
     ELSE AcceptExternal(v) /\ UNCHANGED <<queue, sequence, generation, draftExternal>>
  /\ UNCHANGED <<server, unsent, request, reads, draft, draftStart, moved, counters>>

(* The window gets the focus: refreshIfIdle().                             *)
Focus ==
  /\ queue = <<>> /\ ~draft /\ reads = {}
  /\ Ask(TRUE)
  /\ UNCHANGED <<server, unsent, events, request, pageVars, draftVars, counters>>

ReceiveRead(r) ==
  /\ r \in reads /\ r.view # NoView
  /\ reads' = reads \ {r}
  /\ IF queue = <<>> /\ r.seq = sequence
     THEN SetState(r.view, FALSE) /\ UNCHANGED wanted
     ELSE wanted' = TRUE /\ UNCHANGED <<state, known>>
  /\ UNCHANGED <<server, unsent, events, request, queue, sequence, generation, external,
                 draftVars, counters>>

(* Variant: the number of the mutation before is used.                     *)
EnqueueUncounted(kind, own, other) ==
  /\ sequence' = sequence + 1
  /\ queue' = Append(queue, [kind |-> kind, own |-> own, other |-> other,
                             seq |-> sequence, gen |-> generation])
  /\ IF queue = <<>> THEN SendFirst(queue', known) ELSE UNCHANGED request

(* #enqueueMutation()                                                      *)
Enqueue(kind, own, other) ==
  /\ sequence' = sequence + 1
  /\ queue' = Append(queue, [kind |-> kind, own |-> own, other |-> other,
                             seq |-> sequence + 1, gen |-> generation])
  /\ IF queue = <<>> THEN SendFirst(queue', known) ELSE UNCHANGED request

(* save(): the edit is shown at once.                                      *)
Edit ==
  /\ edits < MaxEdits
  /\ edits' = edits + 1
  /\ state' = [state EXCEPT !.own = edits + 1]
  /\ Enqueue("save", edits + 1, state.other)
  /\ UNCHANGED <<server, unsent, events, reads, known, generation, wanted, external,
                 draftVars, resets, drags>>

(* runMutation()                                                           *)
AskReset ==
  /\ resets + drags < MaxGestures
  /\ resets' = resets + 1
  /\ Enqueue("reset", 0, 0)
  /\ UNCHANGED <<server, unsent, events, reads, state, known, generation, wanted, external,
                 draftVars, edits, drags>>

-----------------------------------------------------------------------------
(* Completion of the first mutation.  base is what is known now; the       *)
(* queued mutations of an older generation end with it.                    *)
Complete(shown, base, q) ==
  /\ queue' = q
  /\ SendFirst(q, base)
  /\ IF q = <<>> /\ wanted
     THEN /\ wanted' = FALSE /\ external' = NoView
          /\ IF StrictlyFollows(external, base)
             THEN /\ state' = Later(external, shown)
                  /\ known' = IF DoesNotPrecede(external, shown) THEN external ELSE base
             ELSE state' = shown /\ known' = base
          /\ Ask(~draft)
     ELSE state' = shown /\ known' = base /\ UNCHANGED <<wanted, external, reads>>

Saved == request.view

(* Variant: what arrived meanwhile is forgotten.                           *)
ReceiveAnswerOnly ==
  /\ request.at = "answered"
  /\ known' = Later(Saved, known)
  /\ state' = IF Current.seq = sequence THEN Later(Saved, state) ELSE state
  /\ queue' = Tail(queue)
  /\ SendFirst(queue', known')
  /\ wanted' = (IF queue' = <<>> THEN FALSE ELSE wanted)
  /\ external' = IF queue' = <<>> THEN NoView ELSE external
  /\ UNCHANGED <<server, unsent, events, reads, sequence, generation, draftVars, counters>>

(* Variant: every answer is shown.                                         *)
ReceiveAnyAnswer ==
  /\ request.at = "answered"
  /\ LET base == Later(Saved, known)
     IN Complete(Later(Saved, state), base, Tail(queue))
  /\ UNCHANGED <<server, unsent, events, sequence, generation, draftVars, counters>>

ReceiveAnswer ==
  /\ request.at = "answered"
  /\ LET base == Later(Saved, known)
         last == Current.seq = sequence /\ DoesNotPrecede(Saved, known)
     IN Complete(IF last THEN Later(Saved, state) ELSE state, base, Tail(queue))
  /\ UNCHANGED <<server, unsent, events, sequence, generation, draftVars, counters>>

(* The save failed: queued mutations are cancelled, the state is reloaded. *)
ReceiveRefusal ==
  /\ request.at = "refused"
  /\ generation' = generation + 1
  /\ request' = [at |-> "reloading", rev |-> sequence, view |-> NoView]
  /\ UNCHANGED <<server, unsent, events, reads, state, known, queue, sequence, wanted,
                 external, draftVars, counters>>

(* Variant: the queued snapshots are sent nevertheless.                    *)
ReloadKeepsQueue ==
  /\ request.at = "reloaded"
  /\ LET base == Later(Saved, known)
         last == request.rev = sequence /\ DoesNotPrecede(Saved, known)
     IN Complete(IF last THEN Later(Saved, state) ELSE state, base, Tail(queue))
  /\ UNCHANGED <<server, unsent, events, sequence, generation, draftVars, counters>>

(* Generations only rise along the queue: behind the first mutation come   *)
(* those that were cancelled with it, and then, from Live on, the others.  *)
IsLive(i) == \A j \in 2..Len(queue) : queue[j].gen = generation <=> j >= i
Live == CHOOSE i \in 2..Len(queue) + 1 : IsLive(i)

(* #reloadAfterFailure(); request.rev is latestAtFailure.                  *)
ReceiveReload ==
  /\ request.at = "reloaded"
  /\ LET base == Later(Saved, known)
         last == request.rev = sequence /\ DoesNotPrecede(Saved, known)
         left == SubSeq(queue, Live, Len(queue))
     IN Complete(IF last THEN Later(Saved, state) ELSE state, base, left)
  /\ UNCHANGED <<server, unsent, events, sequence, generation, draftVars, counters>>

-----------------------------------------------------------------------------
(* A drag on the customization screen.                                     *)

BeginDrag ==
  /\ ~draft /\ resets + drags < MaxGestures
  /\ drags' = drags + 1
  /\ draft' = TRUE
  /\ draftStart' = state
  /\ UNCHANGED <<server, unsent, events, request, reads, pageVars, draftExternal, moved,
                 edits, resets>>

(* setDraftSettings()                                                      *)
Drag ==
  /\ draft
  /\ edits < MaxEdits
  /\ edits' = edits + 1
  /\ state' = [state EXCEPT !.own = edits + 1]
  /\ moved' = TRUE
  /\ UNCHANGED <<server, unsent, events, request, reads, known, queue, sequence, generation,
                 wanted, external, draft, draftExternal, draftStart, resets, drags>>

(* A moved card is dropped: the settings are saved, then endDraft().       *)
Drop ==
  /\ draft /\ moved
  /\ draft' = FALSE /\ moved' = FALSE
  /\ draftExternal' = NoView /\ draftStart' = NoView
  /\ Enqueue("save", state.own, state.other)
  /\ IF draftExternal = NoView THEN UNCHANGED <<external, wanted>>
     ELSE external' = Later(draftExternal, external) /\ wanted' = TRUE
  /\ UNCHANGED <<server, unsent, events, reads, state, known, generation, counters>>

(* Variant: the whole view is restored.                                    *)
CancelRestoresView ==
  /\ draft
  /\ draft' = FALSE /\ moved' = FALSE
  /\ state' = draftStart
  /\ draftExternal' = NoView /\ draftStart' = NoView
  /\ UNCHANGED <<server, unsent, events, request, reads, known, queue, sequence,
                 generation, wanted, external, counters>>

(* The drag is cancelled, and the settings of its beginning are shown      *)
(* again, or it ends with nothing moved.                                   *)
CancelDrag ==
  /\ draft
  /\ draft' = FALSE /\ moved' = FALSE
  /\ draftExternal' = NoView /\ draftStart' = NoView
  /\ LET restored == IF moved THEN [draftStart EXCEPT !.rev = state.rev] ELSE state
     IN IF draftExternal = NoView
        THEN state' = restored /\ UNCHANGED <<known, external, wanted>>
        ELSE IF queue = <<>>
        THEN /\ state' = Later(draftExternal, restored)
             /\ known' = IF DoesNotPrecede(draftExternal, restored)
                         THEN Later(draftExternal, known) ELSE known
             /\ UNCHANGED <<external, wanted>>
        ELSE /\ external' = Later(draftExternal, external) /\ wanted' = TRUE
             /\ state' = restored /\ UNCHANGED known
  /\ UNCHANGED <<server, unsent, events, request, reads, queue, sequence, generation,
                 counters>>

-----------------------------------------------------------------------------
Process == OtherWrites \/ Store \/ RefuseRequest
Delivery ==
  \/ Emit \/ Answer \/ \E r \in reads : AnswerRead(r) \/ ReceiveRead(r)
  \/ \E v \in events : ReceiveEvent(v)
  \/ ReceiveAnswer \/ ReceiveRefusal \/ ReceiveReload
User == Edit \/ AskReset \/ Focus \/ BeginDrag \/ Drag \/ Drop \/ CancelDrag

Next == Process \/ Delivery \/ User

Spec == Init /\ [][Next]_vars

(* Commands are carried out, messages arrive, and nobody else interferes   *)
(* for ever.                                                               *)
FairSpec == Spec /\ WF_vars(Delivery) /\ WF_vars(Store \/ RefuseRequest)

-----------------------------------------------------------------------------
(* One mutation is with the process, the first of the queue, and what the  *)
(* page knows or shows is not ahead of the process.                        *)
QueueInv ==
  /\ TypeOK
  /\ queue = <<>> <=> request.at = "none"
  /\ \A i, j \in DOMAIN queue : i < j => queue[i].seq < queue[j].seq
  /\ \A i \in DOMAIN queue : queue[i].gen <= generation /\ queue[i].seq <= sequence
  /\ queue # <<>> => queue[Len(queue)].seq = sequence
  /\ known.rev <= server.rev /\ state.rev <= server.rev

(* The edit made last stays on the screen until its save is answered or    *)
(* refused, whatever events and answers to earlier saves arrive: only the  *)
(* user replaces it, by an edit or by ending a drag.                       *)
LastEditStays ==
  [][queue # <<>> /\ queue' # <<>> /\ Last(queue') = Last(queue)
     /\ Last(queue).kind = "save" /\ Last(queue).gen = generation'
     /\ edits' = edits /\ draft' = draft
       => state'.own = state.own]_vars

(* The page never shows or builds on an older revision than before.        *)
PageMovesForward == [][state'.rev >= state.rev /\ known'.rev >= known.rev]_vars

(* A snapshot that was queued behind a refused one never reaches the       *)
(* process.                                                                *)
CancelledNeverStored ==
  [][server' # server /\ request.at = "sent" /\ request'.at = "stored" =>
       Current.gen = generation]_vars

(* Once everybody has stopped changing settings, the page shows the        *)
(* process's settings for good, unless cards were dragged: a cancelled drag*)
(* puts back settings that may be older than what the page knows.          *)
Converges == <>[](state = server \/ drags > 0)

(* A save of the page changes what the user edited, not what others have   *)
(* changed ("settings_revision_rejects_a_stale_full_snapshot").            *)
OthersKeepTheirChanges == [][server'.other >= server.other]_vars
=============================================================================
