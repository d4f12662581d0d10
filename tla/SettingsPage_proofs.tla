------------------------ MODULE SettingsPage_proofs ------------------------
(***************************************************************************)
(* Proofs about the page and its queue of mutations (SettingsPage), for    *)
(* any number of edits, changes by others, resets and drags.               *)
(*                                                                         *)
(* The argument: every view on its way was read from the process, so none  *)
(* is ahead of it (NoneAhead).  Sequence numbers rise along the queue to   *)
(* the last one given (Numbered).  And a refusal divides the queue in two: *)
(* what was queued before has an older generation and a number up to       *)
(* latestAtFailure, what came after has the current generation and a later *)
(* number (CancelledPart); outside of a reload everything queued is of the *)
(* current generation.                                                     *)
(***************************************************************************)
EXTENDS SettingsPage, SequenceTheorems, TLAPS

Reloading == request.at \in {"reloading", "reloaded"}

(* No view is ahead of the settings of the process.                        *)
NoneAhead ==
  /\ -1 <= server.rev
  /\ state.rev <= server.rev /\ known.rev <= server.rev
  /\ request.view.rev <= server.rev
  /\ external.rev <= server.rev /\ draftExternal.rev <= server.rev
  /\ \A v \in events : v.rev <= server.rev
  /\ \A r \in reads : r.view.rev <= server.rev

(* The queue is numbered upwards, and the last number given is its last.   *)
Numbered ==
  /\ \A i, j \in 1..Len(queue) : i < j => queue[i].seq < queue[j].seq
  /\ queue # <<>> => queue[Len(queue)].seq = sequence

(* The first mutation is with the process.                                 *)
OneIsSent == queue = <<>> <=> request.at = "none"

(* Which of the queued mutations have been cancelled.                      *)
CancelledPart ==
  /\ \A i \in 1..Len(queue) : queue[i].gen <= generation
  /\ ~Reloading => \A i \in 1..Len(queue) : queue[i].gen = generation
  /\ Reloading =>
       /\ request.rev <= sequence
       /\ \E i \in 2..Len(queue) + 1 : IsLive(i)
       /\ \A i \in 2..Len(queue) : queue[i].gen = generation => request.rev < queue[i].seq

PageInv == TypeOK /\ NoneAhead /\ Numbered /\ OneIsSent /\ CancelledPart

-----------------------------------------------------------------------------
(* Views                                                                   *)

LEMMA NoViewIsOld == NoView \in Views /\ NoView.rev = -1
BY DEF NoView, Views

LEMMA LaterOfTwo ==
  ASSUME NEW v \in Views, NEW c \in Views
  PROVE  /\ Later(v, c) \in Views
         /\ Later(v, c) \in {v, c}
         /\ v.rev <= Later(v, c).rev /\ c.rev <= Later(v, c).rev
BY DEF Later, DoesNotPrecede, Views

LEMMA SetStateMoves ==
  ASSUME TypeOK, NoneAhead, NEW v \in Views, v.rev <= server.rev,
         NEW pending \in BOOLEAN, SetState(v, pending)
  PROVE  /\ state' \in Views /\ known' \in Views
         /\ state.rev <= state'.rev /\ state'.rev <= server.rev
         /\ known.rev <= known'.rev /\ known'.rev <= server.rev
BY LaterOfTwo DEF SetState, TypeOK, NoneAhead

LEMMA AskKeeps ==
  ASSUME TypeOK, NoneAhead, NEW idle \in BOOLEAN, Ask(idle)
  PROVE  /\ \A r \in reads' : r \in [seq : Nat, view : Views]
         /\ \A r \in reads' : r.view.rev <= server.rev
BY NoViewIsOld DEF Ask, TypeOK, NoneAhead

-----------------------------------------------------------------------------
(* The queue                                                               *)

QueueOK == Numbered /\ OneIsSent /\ CancelledPart

LEMMA EnqueueKeeps ==
  ASSUME PageInv, NEW kind \in {"save", "reset"}, NEW own \in Nat, NEW other \in Nat,
         Enqueue(kind, own, other), UNCHANGED <<server, known, generation>>
  PROVE  /\ queue' \in Seq(Mutations) /\ sequence' \in Nat
         /\ request' \in [at : {"none", "sent", "stored", "answered", "refused", "reloading",
                                "reloaded"}, rev : Int, view : Views]
         /\ request'.view.rev <= server.rev
         /\ QueueOK'
<1>. DEFINE m == [kind |-> kind, own |-> own, other |-> other,
                  seq |-> sequence + 1, gen |-> generation]
<1>1. m \in Mutations /\ queue \in Seq(Mutations) /\ sequence \in Nat /\ generation \in Nat
  BY DEF PageInv, TypeOK, Mutations
<1>2. /\ queue' = Append(queue, m) /\ sequence' = sequence + 1
      /\ queue' \in Seq(Mutations) /\ Len(queue') = Len(queue) + 1
      /\ \A i \in 1..Len(queue) : queue'[i] = queue[i] /\ queue[i] \in Mutations
      /\ queue'[Len(queue) + 1] = m /\ Len(queue) \in Nat /\ queue' # <<>>
  BY <1>1 DEF Enqueue
<1>3. request' \in [at : {"none", "sent", "stored", "answered", "refused", "reloading",
                         "reloaded"}, rev : Int, view : Views]
      /\ request'.view.rev <= server.rev
  <2>1. known.rev \in Int /\ -1 <= server.rev
    BY DEF PageInv, TypeOK, NoneAhead, Views
  <2>2. request' = request \/ request' = [at |-> "sent", rev |-> known.rev, view |-> NoView]
    BY <1>2 DEF Enqueue, SendFirst
  <2>. QED  BY <2>1, <2>2, NoViewIsOld DEF PageInv, TypeOK, NoneAhead
<1>4. /\ queue = <<>> => request'.at = "sent" /\ request.at = "none" /\ Len(queue) = 0
      /\ queue # <<>> => request' = request /\ request.at # "none"
  BY <1>2 DEF PageInv, OneIsSent, Enqueue, SendFirst
<1>5. \A i \in 1..Len(queue) : queue[i].seq \in Nat /\ queue[i].seq <= sequence
  <2>1. \A i \in 1..Len(queue) : queue[i].seq \in Nat
    BY <1>2 DEF Mutations
  <2>2. ASSUME NEW i \in 1..Len(queue) PROVE queue[i].seq <= sequence
    <3>1. queue # <<>> /\ queue[Len(queue)].seq = sequence
      BY <1>1 DEF PageInv, Numbered
    <3>2. i = Len(queue) \/ queue[i].seq < queue[Len(queue)].seq
      BY <1>2 DEF PageInv, Numbered
    <3>. QED  BY <2>1, <3>1, <3>2, <1>1
  <2>. QED  BY <2>1, <2>2
<1>6. Numbered'
  <2>1. ASSUME NEW i \in 1..Len(queue'), NEW j \in 1..Len(queue'), i < j
        PROVE  queue'[i].seq < queue'[j].seq
    <3>1. i \in 1..Len(queue)
      BY <1>2, <2>1
    <3>2. CASE j \in 1..Len(queue)
      BY <1>2, <2>1, <3>1, <3>2 DEF PageInv, Numbered
    <3>3. CASE j = Len(queue) + 1
      BY <1>1, <1>2, <1>5, <3>1, <3>3
    <3>. QED  BY <1>2, <3>2, <3>3
  <2>2. queue'[Len(queue')].seq = sequence'
    BY <1>2
  <2>. QED  BY <2>1, <2>2 DEF Numbered
<1>7. OneIsSent'
  BY <1>2, <1>4 DEF OneIsSent
<1>8. CancelledPart'
  <2>1. \A i \in 1..Len(queue') : i \in 1..Len(queue) \/ i = Len(queue) + 1
    BY <1>2
  <2>2. \A i \in 1..Len(queue') : queue'[i].gen <= generation'
    BY <1>1, <1>2, <2>1 DEF PageInv, CancelledPart
  <2>3. CASE ~Reloading
    <3>1. ~Reloading'
      BY <1>4, <2>3 DEF Reloading
    <3>2. \A i \in 1..Len(queue') : queue'[i].gen = generation'
      BY <1>1, <1>2, <2>1, <2>3 DEF PageInv, CancelledPart
    <3>. QED  BY <2>2, <3>1, <3>2 DEF CancelledPart
  <2>4. CASE Reloading
    <3>1. request' = request /\ Reloading' /\ queue # <<>> /\ Len(queue) >= 1
      BY <1>1, <1>2, <1>4, <2>4 DEF Reloading
    <3>2. PICK i \in 2..Len(queue) + 1 : IsLive(i)
      BY <2>4 DEF PageInv, CancelledPart
    <3>3. i \in 2..Len(queue') + 1 /\ IsLive(i)'
      <4>1. ASSUME NEW j \in 2..Len(queue')
            PROVE  queue'[j].gen = generation' <=> j >= i
        <5>1. CASE j \in 2..Len(queue)
          BY <1>2, <3>2, <5>1 DEF IsLive
        <5>2. CASE j = Len(queue) + 1
          BY <1>2, <3>2, <5>2
        <5>. QED  BY <1>2, <5>1, <5>2
      <4>. QED  BY <1>2, <4>1 DEF IsLive
    <3>4. ASSUME NEW j \in 2..Len(queue'), queue'[j].gen = generation'
          PROVE  request'.rev < queue'[j].seq
      <4>1. CASE j \in 2..Len(queue)
        BY <1>2, <2>4, <3>1, <3>4, <4>1 DEF PageInv, CancelledPart
      <4>2. CASE j = Len(queue) + 1
        <5>1. request.rev <= sequence
          BY <2>4 DEF PageInv, CancelledPart
        <5>2. request.rev \in Int
          BY DEF PageInv, TypeOK
        <5>. QED  BY <1>1, <1>2, <3>1, <4>2, <5>1, <5>2
      <4>. QED  BY <1>2, <4>1, <4>2
    <3>5. request'.rev <= sequence'
      <4>1. request.rev <= sequence /\ request.rev \in Int
        BY <2>4 DEF PageInv, CancelledPart, TypeOK
      <4>. QED  BY <1>1, <1>2, <3>1, <4>1
    <3>6. \E k \in 2..Len(queue') + 1 : IsLive(k)'
      BY <3>3
    <3>. QED  BY <2>2, <3>1, <3>4, <3>5, <3>6 DEF CancelledPart
  <2>. QED  BY <2>3, <2>4
<1>. QED  BY <1>1, <1>2, <1>3, <1>6, <1>7, <1>8 DEF QueueOK

(* What is left of the queue when its first mutation ends.                 *)
IsLeft(q) ==
  \E k \in 2..Len(queue) + 1 :
     /\ q = SubSeq(queue, k, Len(queue))
     /\ \A i \in k..Len(queue) : queue[i].gen = generation

LEMMA LeftShape ==
  ASSUME PageInv, NEW q, IsLeft(q), queue # <<>>
  PROVE  /\ q \in Seq(Mutations)
         /\ \A i \in 1..Len(q) : q[i].gen = generation
         /\ \A i, j \in 1..Len(q) : i < j => q[i].seq < q[j].seq
         /\ q # <<>> => /\ q[Len(q)] = queue[Len(queue)] /\ Len(queue) >= 2
                        /\ queue[1].seq < sequence /\ queue[Len(queue)].gen = generation
<1>1. queue \in Seq(Mutations) /\ Len(queue) \in Nat /\ Len(queue) >= 1
  BY DEF PageInv, TypeOK
<1>2. PICK k \in 2..Len(queue) + 1 :
        /\ q = SubSeq(queue, k, Len(queue))
        /\ \A i \in k..Len(queue) : queue[i].gen = generation
  BY DEF IsLeft
<1>3. /\ Len(q) = Len(queue) - k + 1 /\ q \in Seq(Mutations)
      /\ \A i \in 1..Len(q) : q[i] = queue[k + i - 1]
  BY <1>1, <1>2
<1>4. \A i \in 1..Len(q) : k + i - 1 \in k..Len(queue)
  BY <1>1, <1>2, <1>3
<1>5. \A i \in 1..Len(q) : q[i].gen = generation
  BY <1>2, <1>3, <1>4
<1>6. ASSUME NEW i \in 1..Len(q), NEW j \in 1..Len(q), i < j
      PROVE  q[i].seq < q[j].seq
  <2>1. /\ k + i - 1 \in 1..Len(queue) /\ k + j - 1 \in 1..Len(queue) /\ k + i - 1 < k + j - 1
    BY <1>1, <1>2, <1>3, <1>6
  <2>. QED  BY <1>3, <2>1 DEF PageInv, Numbered
<1>7. ASSUME q # <<>>
      PROVE  /\ q[Len(q)] = queue[Len(queue)] /\ Len(queue) >= 2
             /\ queue[1].seq < sequence /\ queue[Len(queue)].gen = generation
  <2>1. Len(q) >= 1 /\ Len(q) \in Nat
    BY <1>3, <1>7
  <2>2. Len(queue) >= 2 /\ k + Len(q) - 1 = Len(queue) /\ Len(queue) \in k..Len(queue)
    BY <1>1, <1>2, <1>3, <2>1
  <2>3. queue[1].seq < queue[Len(queue)].seq /\ queue[Len(queue)].seq = sequence
    BY <1>1, <2>2 DEF PageInv, Numbered
  <2>. QED  BY <1>2, <1>3, <2>1, <2>2, <2>3
<1>. QED  BY <1>3, <1>5, <1>6, <1>7

LEMMA CompleteKeeps ==
  ASSUME PageInv, queue # <<>>, NEW q, IsLeft(q),
         NEW shown \in Views, shown.rev <= server.rev, state.rev <= shown.rev,
         NEW base \in Views, base.rev <= server.rev, known.rev <= base.rev,
         Complete(shown, base, q),
         UNCHANGED <<server, unsent, events, sequence, generation, draftVars, counters>>
  PROVE  /\ PageInv'
         /\ state.rev <= state'.rev /\ known.rev <= known'.rev
         /\ queue' # <<>> => /\ state' = shown /\ queue' = q
<1>. USE DEF PageInv
<1>1. queue' = q /\ q \in Seq(Mutations)
  BY LeftShape DEF Complete
<1>2. /\ request' = IF q = <<>> THEN NoRequest
                    ELSE [at |-> "sent", rev |-> base.rev, view |-> NoView]
      /\ request' \in [at : {"none", "sent", "stored", "answered", "refused", "reloading",
                            "reloaded"}, rev : Int, view : Views]
      /\ request'.view.rev <= server.rev
      /\ request'.at = "none" <=> q = <<>>
      /\ ~Reloading'
  <2>1. base.rev \in Int /\ -1 <= server.rev
    BY DEF NoneAhead, Views
  <2>. QED  BY <2>1, NoViewIsOld DEF Complete, SendFirst, NoRequest, Reloading
<1>3. QueueOK'
  <2>1. Numbered'
    BY <1>1, LeftShape DEF Numbered
  <2>2. OneIsSent'
    BY <1>1, <1>2 DEF OneIsSent
  <2>3. CancelledPart'
    <3>1. generation \in Nat
      BY DEF TypeOK
    <3>. QED  BY <1>1, <1>2, <3>1, LeftShape DEF CancelledPart
  <2>. QED  BY <2>1, <2>2, <2>3 DEF QueueOK
<1>4. /\ state' \in Views /\ known' \in Views
      /\ shown.rev <= state'.rev /\ state'.rev <= server.rev
      /\ base.rev <= known'.rev /\ known'.rev <= server.rev
      /\ q # <<>> => state' = shown
  <2>1. external \in Views /\ external.rev <= server.rev
    BY DEF TypeOK, NoneAhead
  <2>2. CASE q = <<>> /\ wanted /\ StrictlyFollows(external, base)
    <3>1. state' = Later(external, shown)
          /\ known' = IF DoesNotPrecede(external, shown) THEN external ELSE base
      BY <2>2 DEF Complete
    <3>. QED  BY <2>1, <2>2, <3>1, LaterOfTwo DEF StrictlyFollows, Views
  <2>3. CASE ~(q = <<>> /\ wanted /\ StrictlyFollows(external, base))
    <3>1. state' = shown /\ known' = base
      BY <2>3 DEF Complete
    <3>. QED  BY <3>1 DEF Views
  <2>. QED  BY <2>2, <2>3
<1>5. /\ external' \in Views /\ external'.rev <= server.rev /\ wanted' \in BOOLEAN
      /\ \A r \in reads' : r \in [seq : Nat, view : Views]
      /\ \A r \in reads' : r.view.rev <= server.rev
  <2>1. CASE q = <<>> /\ wanted
    <3>1. wanted' = FALSE /\ external' = NoView /\ Ask(~draft)
      BY <2>1, Zenon DEF Complete
    <3>. QED  BY <3>1, AskKeeps, NoViewIsOld DEF NoneAhead
  <2>2. CASE ~(q = <<>> /\ wanted)
    BY <2>2 DEF Complete, TypeOK, NoneAhead
  <2>. QED  BY <2>1, <2>2
<1>6. TypeOK' /\ NoneAhead'
  BY <1>1, <1>2, <1>4, <1>5 DEF TypeOK, NoneAhead, draftVars, counters
<1>7. state.rev <= state'.rev /\ known.rev <= known'.rev
  <2>1. {state.rev, shown.rev, state'.rev, known.rev, base.rev, known'.rev} \subseteq Int
    BY <1>4 DEF TypeOK, Views
  <2>. QED  BY <1>4, <2>1
<1>. QED  BY <1>1, <1>3, <1>4, <1>6, <1>7 DEF QueueOK

-----------------------------------------------------------------------------
(* The steps                                                               *)

Forward == state.rev <= state'.rev /\ known.rev <= known'.rev

LEMMA ViewRevisions == ASSUME NEW v \in Views PROVE v.rev \in Int /\ v.own \in Nat /\ v.other \in Nat
BY DEF Views

(* The queue, its numbers and the cancellations are as before.             *)
LEMMA QueueUnchanged ==
  ASSUME PageInv, UNCHANGED <<queue, sequence, generation>>,
         request'.rev = request.rev, Reloading' <=> Reloading,
         request'.at = "none" <=> request.at = "none"
  PROVE  QueueOK'
<1>1. \A i : IsLive(i)' <=> IsLive(i)
  BY DEF IsLive
<1>. QED  BY <1>1 DEF PageInv, QueueOK, Numbered, OneIsSent, CancelledPart

LEMMA Stays == ASSUME TypeOK, UNCHANGED <<state, known>> PROVE Forward
BY ViewRevisions DEF TypeOK, Forward

LEMMA RiseKeeps ==
  ASSUME PageInv, NEW own \in Nat, NEW other \in Nat, Rise(own, other)
  PROVE  server' \in Views /\ server.rev <= server'.rev /\ unsent' \in BOOLEAN
<1>1. server.rev \in Int
  BY ViewRevisions DEF PageInv, TypeOK
<1>2. server' = [rev |-> server.rev + 1, own |-> own, other |-> other] /\ unsent' = TRUE
  BY Zenon DEF Rise
<1>. QED  BY <1>1, <1>2 DEF Views

LEMMA SettingsRise ==
  ASSUME PageInv, OtherWrites \/ Store
  PROVE  PageInv' /\ Forward
<1>. USE DEF PageInv
<1>1. /\ server' \in Views /\ server.rev <= server'.rev /\ unsent' \in BOOLEAN
      /\ UNCHANGED <<events, reads, pageVars, draftVars, counters>>
  <2>1. CASE OtherWrites
    <3>1. server.own \in Nat /\ server.other + 1 \in Nat
      BY ViewRevisions DEF TypeOK
    <3>2. Rise(server.own, server.other + 1)
      BY <2>1, Zenon DEF OtherWrites
    <3>. QED  BY <2>1, <3>1, <3>2, RiseKeeps DEF OtherWrites
  <2>2. CASE Store
    <3>1. Current \in Mutations
      BY <2>2 DEF Store, OneIsSent, TypeOK, Current
    <3>2. Rise(Current.own, Current.other) \/ Rise(0, server.other)
      BY <2>2 DEF Store
    <3>. QED  BY <2>2, <3>1, <3>2, RiseKeeps DEF Store, TypeOK, Views, Mutations
  <2>. QED  BY <2>1, <2>2
<1>2. \/ request' = request
      \/ request.at = "sent" /\ request' = [request EXCEPT !.at = "stored"]
  BY DEF OtherWrites, Store
<1>3. QueueOK' /\ Forward
  BY <1>1, <1>2, QueueUnchanged, Stays DEF TypeOK, pageVars, Reloading
<1>4. TypeOK'
  BY <1>1, <1>2 DEF TypeOK, pageVars, draftVars, counters
<1>5. NoneAhead'
  <2>1. server'.rev \in Int /\ server.rev \in Int
    BY <1>1, ViewRevisions DEF TypeOK
  <2>2. \A v \in Views : v.rev <= server.rev => v.rev <= server'.rev
    BY <1>1, <2>1, ViewRevisions
  <2>3. request'.view = request.view
    BY <1>2 DEF TypeOK
  <2>. QED  BY <1>1, <2>1, <2>2, <2>3 DEF TypeOK, NoneAhead, pageVars, draftVars
<1>. QED  BY <1>3, <1>4, <1>5 DEF QueueOK

(* What is read from the process is not ahead of it.                       *)
LEMMA AnswersKeep ==
  ASSUME PageInv, RefuseRequest \/ Emit \/ Answer \/ \E r \in reads : AnswerRead(r)
  PROVE  PageInv' /\ Forward
<1>. USE DEF PageInv
<1>1. UNCHANGED <<server, pageVars, draftVars, counters>>
  BY DEF RefuseRequest, Emit, Answer, AnswerRead
<1>0. server \in Views /\ server.rev <= server.rev
  BY ViewRevisions DEF TypeOK
<1>2. /\ request' \in [at : {"none", "sent", "stored", "answered", "refused", "reloading",
                            "reloaded"}, rev : Int, view : Views]
      /\ request'.rev = request.rev /\ request'.view \in {request.view, server}
      /\ request'.at = "none" <=> request.at = "none"
      /\ Reloading' <=> Reloading
  BY <1>0, <1>1 DEF RefuseRequest, Emit, Answer, AnswerRead, TypeOK, Reloading
<1>3. /\ unsent' \in BOOLEAN /\ events' \subseteq events \union {server}
      /\ \A r \in reads' : r \in reads \/ (r \in [seq : Nat, view : Views] /\ r.view = server)
  BY <1>0, <1>1 DEF RefuseRequest, Emit, Answer, AnswerRead, TypeOK
<1>4. QueueOK' /\ Forward
  BY <1>1, <1>2, QueueUnchanged, Stays DEF pageVars
<1>5. TypeOK'
  BY <1>0, <1>1, <1>2, <1>3 DEF TypeOK, pageVars, draftVars, counters
<1>6. NoneAhead'
  BY <1>0, <1>1, <1>2, <1>3 DEF NoneAhead, pageVars, draftVars
<1>. QED  BY <1>4, <1>5, <1>6 DEF QueueOK

(* What another view, offered or put aside, changes.                       *)
LEMMA ViewsReplaced ==
  ASSUME PageInv, UNCHANGED <<server, unsent, queue, sequence, generation, request, counters>>,
         {state', known', external', draftExternal', draftStart'} \subseteq Views,
         {wanted', draft', moved'} \subseteq BOOLEAN,
         events' \subseteq events, \A r \in reads' : r \in [seq : Nat, view : Views],
         Forward, state'.rev <= server.rev, known'.rev <= server.rev,
         external'.rev <= server.rev, draftExternal'.rev <= server.rev,
         \A r \in reads' : r.view.rev <= server.rev
  PROVE  PageInv' /\ Forward
<1>1. QueueOK'
  BY QueueUnchanged DEF Reloading
<1>2. TypeOK' /\ NoneAhead'
  BY DEF PageInv, TypeOK, NoneAhead, counters
<1>. QED  BY <1>1, <1>2 DEF PageInv, QueueOK

LEMMA ReceiveEventKeeps ==
  ASSUME PageInv, NEW v \in events, ReceiveEvent(v)
  PROVE  PageInv' /\ Forward
<1>1. /\ TypeOK /\ NoneAhead /\ v \in Views /\ v.rev <= server.rev
      /\ {external, draftExternal} \subseteq Views
  BY DEF PageInv, TypeOK, NoneAhead
<1>2. /\ {external', draftExternal'} \subseteq Views /\ wanted' \in BOOLEAN
      /\ external'.rev <= server.rev /\ draftExternal'.rev <= server.rev
      /\ {state', known'} \subseteq Views /\ Forward
      /\ state'.rev <= server.rev /\ known'.rev <= server.rev
  <2>1. CASE draft
    BY <1>1, <2>1, LaterOfTwo, Stays DEF ReceiveEvent, pageVars, TypeOK, NoneAhead
  <2>2. CASE ~draft /\ queue = <<>>
    <3>1. SetState(v, FALSE) /\ UNCHANGED <<external, wanted, draftExternal>>
      BY <2>2 DEF ReceiveEvent, AcceptExternal
    <3>. QED  BY <1>1, <3>1, SetStateMoves DEF TypeOK, NoneAhead, Forward
  <2>3. CASE ~draft /\ queue # <<>>
    <3>1. /\ external' = Later(v, external) /\ wanted' = TRUE
          /\ UNCHANGED <<state, known, draftExternal>>
      BY <2>3 DEF ReceiveEvent, AcceptExternal
    <3>. QED  BY <1>1, <3>1, LaterOfTwo, Stays DEF TypeOK, NoneAhead
  <2>. QED  BY <2>1, <2>2, <2>3
<1>3. UNCHANGED <<server, unsent, queue, sequence, generation, request, reads, counters,
                  draft, draftStart, moved>> /\ events' \subseteq events
  BY DEF ReceiveEvent, pageVars
<1>. QED  BY <1>1, <1>2, <1>3, ViewsReplaced DEF TypeOK, NoneAhead

LEMMA FocusKeeps ==
  ASSUME PageInv, Focus \/ \E r \in reads : ReceiveRead(r)
  PROVE  PageInv' /\ Forward
<1>1. TypeOK /\ NoneAhead
  BY DEF PageInv
<1>2. /\ UNCHANGED <<server, unsent, queue, sequence, generation, request, external, events,
                     draftVars, counters>>
      /\ \A r \in reads' : r \in [seq : Nat, view : Views] /\ r.view.rev <= server.rev
  <2>1. CASE Focus
    BY <1>1, <2>1, AskKeeps DEF Focus, pageVars
  <2>2. CASE \E r \in reads : ReceiveRead(r)
    BY <1>1, <2>2 DEF ReceiveRead, TypeOK, NoneAhead
  <2>. QED  BY <2>1, <2>2
<1>3. /\ {state', known'} \subseteq Views /\ wanted' \in BOOLEAN /\ Forward
      /\ state'.rev <= server.rev /\ known'.rev <= server.rev
  <2>1. ASSUME NEW r \in reads, SetState(r.view, FALSE), wanted' = wanted
        PROVE  /\ {state', known'} \subseteq Views /\ wanted' \in BOOLEAN /\ Forward
               /\ state'.rev <= server.rev /\ known'.rev <= server.rev
    <3>1. r.view \in Views /\ r.view.rev <= server.rev
      BY <1>1 DEF TypeOK, NoneAhead
    <3>. QED  BY <1>1, <2>1, <3>1, SetStateMoves DEF TypeOK, Forward
  <2>2. CASE UNCHANGED <<state, known>> /\ (wanted' = wanted \/ wanted' = TRUE)
    BY <1>1, <2>2, Stays DEF TypeOK, NoneAhead
  <2>. QED  BY <2>1, <2>2 DEF Focus, ReceiveRead, pageVars
<1>. QED  BY <1>1, <1>2, <1>3, ViewsReplaced DEF TypeOK, NoneAhead, draftVars

LEMMA EditsKeep ==
  ASSUME PageInv, Edit \/ AskReset
  PROVE  PageInv' /\ Forward
<1>1. TypeOK /\ NoneAhead /\ state \in Views /\ edits \in Nat /\ resets \in Nat
  BY DEF PageInv, TypeOK, NoneAhead
<1>2. UNCHANGED <<server, unsent, events, reads, known, generation, wanted, external,
                  draftVars, drags>>
  BY DEF Edit, AskReset
<1>3. /\ queue' \in Seq(Mutations) /\ sequence' \in Nat
      /\ request' \in [at : {"none", "sent", "stored", "answered", "refused", "reloading",
                             "reloaded"}, rev : Int, view : Views]
      /\ request'.view.rev <= server.rev
      /\ QueueOK' /\ {edits', resets'} \subseteq Nat
  <2>1. CASE Edit
    <3>1. Enqueue("save", edits + 1, state.other) /\ edits' = edits + 1 /\ resets' = resets
      BY <2>1, Zenon DEF Edit
    <3>. QED  BY <1>1, <1>2, <3>1, EnqueueKeeps, ViewRevisions
  <2>2. CASE AskReset
    <3>1. Enqueue("reset", 0, 0) /\ edits' = edits /\ resets' = resets + 1
      BY <2>2, Zenon DEF AskReset
    <3>. QED  BY <1>1, <1>2, <3>1, EnqueueKeeps
  <2>. QED  BY <2>1, <2>2
<1>4. state' \in Views /\ state'.rev = state.rev
  BY <1>1 DEF Edit, AskReset, Views
<1>5. TypeOK' /\ NoneAhead'
  BY <1>1, <1>2, <1>3, <1>4 DEF TypeOK, NoneAhead, draftVars
<1>6. Forward
  BY <1>1, <1>2, <1>4, ViewRevisions DEF Forward, TypeOK
<1>. QED  BY <1>3, <1>5, <1>6 DEF PageInv, QueueOK

LEMMA TailIsLeft ==
  ASSUME PageInv, queue # <<>>, ~Reloading
  PROVE  IsLeft(Tail(queue))
<1>1. queue \in Seq(Mutations) /\ Len(queue) \in Nat /\ Len(queue) >= 1
  BY DEF PageInv, TypeOK
<1>2. Tail(queue) = SubSeq(queue, 2, Len(queue))
  BY <1>1
<1>3. 2 \in 2..Len(queue) + 1 /\ \A i \in 2..Len(queue) : queue[i].gen = generation
  BY <1>1 DEF PageInv, CancelledPart
<1>. QED  BY <1>2, <1>3 DEF IsLeft

LEMMA LiveIsLeft ==
  ASSUME PageInv, queue # <<>>, Reloading
  PROVE  IsLeft(SubSeq(queue, Live, Len(queue)))
<1>1. queue \in Seq(Mutations) /\ Len(queue) \in Nat /\ Len(queue) >= 1
  BY DEF PageInv, TypeOK
<1>2. Live \in 2..Len(queue) + 1 /\ IsLive(Live)
  BY DEF Live, PageInv, CancelledPart
<1>3. \A i \in Live..Len(queue) : queue[i].gen = generation
  BY <1>1, <1>2 DEF IsLive
<1>. QED  BY <1>2, <1>3 DEF IsLeft

(* The first mutation has been answered: what becomes of the queue.        *)
LEMMA AnswerShape ==
  ASSUME PageInv, ReceiveAnswer \/ ReceiveReload
  PROVE  /\ PageInv' /\ Forward
         /\ UNCHANGED <<server, generation>>
         /\ IsLeft(queue') /\ queue # <<>>
         /\ queue' # <<>> => state' = state
<1>1. /\ TypeOK /\ NoneAhead /\ queue # <<>> /\ Saved \in Views /\ Saved.rev <= server.rev
      /\ state \in Views /\ known \in Views
      /\ state.rev <= server.rev /\ known.rev <= server.rev
      /\ UNCHANGED <<server, unsent, events, sequence, generation, draftVars, counters>>
  BY DEF PageInv, TypeOK, NoneAhead, OneIsSent, Saved, ReceiveAnswer, ReceiveReload
<1>2. PICK last, q :
        /\ last \in BOOLEAN /\ IsLeft(q)
        /\ Complete(IF last THEN Later(Saved, state) ELSE state, Later(Saved, known), q)
        /\ q # <<>> => ~last
  <2>1. CASE ReceiveAnswer
    <3>. DEFINE last == Current.seq = sequence /\ DoesNotPrecede(Saved, known)
    <3>1. Complete(IF last THEN Later(Saved, state) ELSE state, Later(Saved, known), Tail(queue))
          /\ request.at = "answered"
      BY <2>1 DEF ReceiveAnswer
    <3>2. IsLeft(Tail(queue))
      BY <1>1, <3>1, TailIsLeft DEF Reloading
    <3>3. Tail(queue) # <<>> => ~last
      <4>1. ASSUME Tail(queue) # <<>> PROVE queue[1].seq < sequence
        BY <1>1, <3>2, <4>1, LeftShape
      <4>2. sequence \in Nat /\ queue[1] = Current
        BY <1>1 DEF TypeOK, Current
      <4>. QED  BY <4>1, <4>2
    <3>. QED  BY <3>1, <3>2, <3>3
  <2>2. CASE ReceiveReload
    <3>. DEFINE last == request.rev = sequence /\ DoesNotPrecede(Saved, known)
                left == SubSeq(queue, Live, Len(queue))
    <3>1. Complete(IF last THEN Later(Saved, state) ELSE state, Later(Saved, known), left)
          /\ Reloading
      BY <2>2 DEF ReceiveReload, Reloading
    <3>2. IsLeft(left)
      BY <1>1, <3>1, LiveIsLeft
    <3>3. left # <<>> => ~last
      <4>1. ASSUME left # <<>> PROVE request.rev < sequence
        <5>. HIDE DEF left
        <5>1. Len(queue) >= 2 /\ queue[Len(queue)].gen = generation
          BY <1>1, <3>2, <4>1, LeftShape
        <5>2. queue[Len(queue)].seq = sequence /\ Len(queue) \in Nat
          BY <1>1 DEF PageInv, Numbered, TypeOK
        <5>. QED  BY <3>1, <5>1, <5>2 DEF PageInv, CancelledPart
      <4>2. sequence \in Nat
        BY <1>1 DEF TypeOK
      <4>. QED  BY <4>1, <4>2
    <3>. QED  BY <3>1, <3>2, <3>3
  <2>. QED  BY <2>1, <2>2
<1>. DEFINE shown == IF last THEN Later(Saved, state) ELSE state
            base == Later(Saved, known)
<1>3. /\ shown \in Views /\ shown.rev <= server.rev /\ state.rev <= shown.rev
      /\ base \in Views /\ base.rev <= server.rev /\ known.rev <= base.rev
  BY <1>1, LaterOfTwo, ViewRevisions
<1>4. Complete(shown, base, q) /\ (q # <<>> => shown = state)
  BY <1>2
<1>. HIDE DEF shown, base
<1>5. /\ PageInv' /\ state.rev <= state'.rev /\ known.rev <= known'.rev
      /\ queue' # <<>> => state' = shown /\ queue' = q
  BY <1>1, <1>2, <1>3, <1>4, CompleteKeeps
<1>6. queue' = q
  BY <1>4 DEF Complete
<1>. QED  BY <1>1, <1>2, <1>4, <1>5, <1>6 DEF Forward

LEMMA RefusalKeeps ==
  ASSUME PageInv, ReceiveRefusal
  PROVE  PageInv' /\ Forward
<1>. USE DEF PageInv, ReceiveRefusal
<1>1. generation \in Nat /\ sequence \in Nat /\ queue \in Seq(Mutations) /\ Len(queue) \in Nat
      /\ queue # <<>> /\ Len(queue) >= 1
  BY DEF TypeOK, OneIsSent
<1>2. /\ request' = [at |-> "reloading", rev |-> sequence, view |-> NoView]
      /\ Reloading' /\ ~Reloading /\ generation' = generation + 1
      /\ UNCHANGED <<queue, sequence>>
  BY DEF Reloading
<1>3. \A i \in 1..Len(queue) : queue'[i].gen = generation /\ queue'[i].gen # generation'
  BY <1>1, <1>2 DEF CancelledPart
<1>4. IsLive(Len(queue) + 1)'
  BY <1>1, <1>2, <1>3 DEF IsLive
<1>5. CancelledPart'
  <2>1. \E i \in 2..Len(queue') + 1 : IsLive(i)'
    BY <1>1, <1>2, <1>4
  <2>. QED  BY <1>1, <1>2, <1>3, <2>1 DEF CancelledPart
<1>6. Numbered' /\ OneIsSent'
  BY <1>1, <1>2 DEF Numbered, OneIsSent
<1>7. TypeOK' /\ NoneAhead'
  BY <1>1, <1>2, NoViewIsOld DEF TypeOK, NoneAhead, draftVars, counters
<1>. QED  BY <1>5, <1>6, <1>7, Stays

-----------------------------------------------------------------------------
(* Drags                                                                   *)

LEMMA DragKeeps ==
  ASSUME PageInv, BeginDrag \/ Drag
  PROVE  PageInv' /\ Forward
<1>1. TypeOK /\ NoneAhead /\ state \in Views /\ {edits, drags} \subseteq Nat
      /\ {draft, moved} \subseteq BOOLEAN /\ draftStart \in Views
  BY DEF PageInv, TypeOK, NoneAhead
<1>2. UNCHANGED <<server, unsent, events, request, reads, known, queue, sequence, generation,
                  wanted, external, draftExternal, resets>>
  BY DEF BeginDrag, Drag, pageVars
<1>3. /\ state' \in Views /\ state'.rev = state.rev /\ draftStart' \in Views
      /\ {draft', moved'} \subseteq BOOLEAN /\ {edits', drags'} \subseteq Nat
  <2>1. CASE BeginDrag
    BY <1>1, <2>1 DEF BeginDrag, pageVars
  <2>2. CASE Drag
    BY <1>1, <2>2 DEF Drag, Views
  <2>. QED  BY <2>1, <2>2
<1>4. QueueOK'
  BY <1>2, QueueUnchanged DEF Reloading
<1>5. TypeOK' /\ NoneAhead'
  BY <1>1, <1>2, <1>3 DEF TypeOK, NoneAhead
<1>6. Forward
  BY <1>1, <1>2, <1>3, ViewRevisions DEF Forward, TypeOK
<1>. QED  BY <1>4, <1>5, <1>6 DEF PageInv, QueueOK

LEMMA DropKeeps ==
  ASSUME PageInv, Drop
  PROVE  PageInv' /\ Forward
<1>1. TypeOK /\ NoneAhead /\ state \in Views /\ {external, draftExternal} \subseteq Views
  BY DEF PageInv, TypeOK
<1>2. UNCHANGED <<server, unsent, events, reads, state, known, generation, counters>>
      /\ draft' = FALSE /\ moved' = FALSE /\ draftExternal' = NoView /\ draftStart' = NoView
  BY Zenon DEF Drop
<1>3. Enqueue("save", state.own, state.other)
  BY Zenon DEF Drop
<1>4. /\ queue' \in Seq(Mutations) /\ sequence' \in Nat
      /\ request' \in [at : {"none", "sent", "stored", "answered", "refused", "reloading",
                             "reloaded"}, rev : Int, view : Views]
      /\ request'.view.rev <= server.rev /\ QueueOK'
  BY <1>1, <1>2, <1>3, EnqueueKeeps, ViewRevisions
<1>5. external' \in Views /\ external'.rev <= server.rev /\ wanted' \in BOOLEAN
  <2>1. \/ UNCHANGED <<external, wanted>>
        \/ external' = Later(draftExternal, external) /\ wanted' = TRUE
    BY Zenon DEF Drop
  <2>. QED  BY <1>1, <2>1, LaterOfTwo DEF TypeOK, NoneAhead
<1>6. TypeOK' /\ NoneAhead'
  BY <1>1, <1>2, <1>4, <1>5, NoViewIsOld DEF TypeOK, NoneAhead, counters
<1>. QED  BY <1>1, <1>2, <1>4, <1>6, Stays DEF PageInv, QueueOK

LEMMA CancelDragKeeps ==
  ASSUME PageInv, CancelDrag
  PROVE  PageInv' /\ Forward
<1>. DEFINE restored == IF moved THEN [draftStart EXCEPT !.rev = state.rev] ELSE state
<1>1. /\ TypeOK /\ NoneAhead /\ restored \in Views /\ restored.rev = state.rev
      /\ {external, draftExternal, known, state} \subseteq Views
      /\ state.rev <= server.rev /\ known.rev <= server.rev
      /\ external.rev <= server.rev /\ draftExternal.rev <= server.rev
  BY DEF PageInv, TypeOK, NoneAhead, Views
<1>2. /\ UNCHANGED <<server, unsent, events, request, reads, queue, sequence, generation, counters>>
      /\ draft' = FALSE /\ moved' = FALSE /\ draftExternal' = NoView /\ draftStart' = NoView
  BY DEF CancelDrag
<1>3. \/ state' = restored /\ UNCHANGED <<known, external, wanted>>
      \/ /\ state' = Later(draftExternal, restored)
         /\ known' = IF DoesNotPrecede(draftExternal, restored)
                     THEN Later(draftExternal, known) ELSE known
         /\ UNCHANGED <<external, wanted>>
      \/ /\ external' = Later(draftExternal, external) /\ wanted' = TRUE
         /\ state' = restored /\ UNCHANGED known
  BY DEF CancelDrag
<1>. HIDE DEF restored
<1>4. /\ {state', known', external'} \subseteq Views /\ wanted' \in BOOLEAN
      /\ state'.rev <= server.rev /\ known'.rev <= server.rev /\ external'.rev <= server.rev
      /\ state.rev <= state'.rev /\ known.rev <= known'.rev
  <2>. DEFINE shown == Later(draftExternal, restored)
              built == Later(draftExternal, known)
              aside == Later(draftExternal, external)
  <2>1. /\ {shown, built, aside} \subseteq Views
        /\ {shown.rev, built.rev, aside.rev, state.rev, known.rev, external.rev, server.rev}
             \subseteq Int
        /\ shown.rev <= server.rev /\ built.rev <= server.rev /\ aside.rev <= server.rev
        /\ state.rev <= shown.rev /\ known.rev <= built.rev
    <3>1. shown \in Views /\ shown.rev <= server.rev /\ state.rev <= shown.rev
      BY <1>1, LaterOfTwo
    <3>2. built \in Views /\ built.rev <= server.rev /\ known.rev <= built.rev
      BY <1>1, LaterOfTwo
    <3>3. aside \in Views /\ aside.rev <= server.rev
      BY <1>1, LaterOfTwo
    <3>. HIDE DEF shown, built, aside
    <3>4. server \in Views
      BY <1>1 DEF TypeOK
    <3>. QED  BY <1>1, <3>1, <3>2, <3>3, <3>4, ViewRevisions
  <2>. HIDE DEF shown, built, aside
  <2>2. known' \in {known, built} /\ state' \in {restored, shown} /\ external' \in {external, aside}
        /\ wanted' \in BOOLEAN
    BY <1>1, <1>3 DEF shown, built, aside, TypeOK
  <2>. QED  BY <1>1, <2>1, <2>2
<1>5. Forward /\ NoView.rev <= server.rev
  BY <1>1, <1>4, NoViewIsOld DEF Forward, NoneAhead
<1>. QED  BY <1>1, <1>2, <1>4, <1>5, NoViewIsOld, ViewsReplaced DEF TypeOK, NoneAhead

-----------------------------------------------------------------------------
LEMMA PageStepKeeps ==
  ASSUME PageInv, [Next]_vars
  PROVE  PageInv' /\ Forward
<1>1. CASE UNCHANGED vars
  <2>1. UNCHANGED <<server, unsent, events, request, reads, state, known, queue, sequence,
                    generation, wanted, external, draft, draftExternal, draftStart, moved,
                    edits, resets, drags>>
    BY <1>1 DEF vars, pageVars, draftVars, counters
  <2>2. QueueOK'
    BY <2>1, QueueUnchanged DEF Reloading
  <2>. QED  BY <2>1, <2>2, Stays DEF PageInv, QueueOK, TypeOK, NoneAhead
<1>2. CASE Process
  BY <1>2, SettingsRise, AnswersKeep DEF Process
<1>3. CASE Delivery
  BY <1>3, AnswersKeep, ReceiveEventKeeps, FocusKeeps, AnswerShape, RefusalKeeps DEF Delivery
<1>4. CASE User
  BY <1>4, EditsKeep, FocusKeeps, DragKeeps, DropKeeps, CancelDragKeeps DEF User
<1>. QED  BY <1>1, <1>2, <1>3, <1>4 DEF Next

(* No view is ahead of the process, the queue is numbered, and a refusal   *)
(* cancels exactly what was queued before it (settingsController.svelte.ts,*)
(* #enqueueMutation and #reloadAfterFailure).                              *)
THEOREM PageInvariant == Spec => []PageInv
<1>1. Init => PageInv
  <2>. SUFFICES ASSUME Init PROVE PageInv
    OBVIOUS
  <2>1. First \in Views /\ First.rev = 0
    BY DEF First, Views
  <2>2. TypeOK
    <3>1. queue \in Seq(Mutations) /\ Len(queue) = 0
      BY DEF Init
    <3>2. request \in [at : {"none", "sent", "stored", "answered", "refused", "reloading",
                           "reloaded"}, rev : Int, view : Views]
      BY NoViewIsOld DEF Init, NoRequest
    <3>3. unsent \in BOOLEAN /\ {wanted, draft, moved} \subseteq BOOLEAN
      BY DEF Init
    <3>4. /\ {server, state, known} \subseteq Views /\ events \subseteq Views
          /\ \A r \in reads : r \in [seq : Nat, view : Views]
          /\ {external, draftExternal, draftStart} \subseteq Views
      BY <2>1, NoViewIsOld DEF Init
    <3>5. sequence \in Nat /\ generation \in Nat /\ {edits, resets, drags} \subseteq Nat
      BY DEF Init
    <3>. QED  BY <3>1, <3>2, <3>3, <3>4, <3>5 DEF TypeOK
  <2>3. NoneAhead
    BY <2>1, NoViewIsOld DEF Init, NoneAhead, NoRequest
  <2>4. Numbered /\ OneIsSent /\ CancelledPart
    BY DEF Init, Numbered, OneIsSent, CancelledPart, NoRequest, Reloading
  <2>. QED  BY <2>2, <2>3, <2>4 DEF PageInv
<1>. QED  BY <1>1, PageStepKeeps, PTL DEF Spec

(* One mutation is with the process, the first of the queue, and what the  *)
(* page knows or shows is not ahead of the process.                        *)
THEOREM QueueIsSound == Spec => []QueueInv
<1>1. PageInv => QueueInv
  <2>. SUFFICES ASSUME PageInv PROVE QueueInv
    OBVIOUS
  <2>1. /\ queue \in Seq(Mutations) /\ Len(queue) \in Nat /\ sequence \in Nat
        /\ \A i, j \in 1..Len(queue) : i < j => queue[i].seq < queue[j].seq
        /\ \A i \in 1..Len(queue) : queue[i].gen <= generation
        /\ queue # <<>> => queue[Len(queue)].seq = sequence
    BY DEF PageInv, TypeOK, Numbered, CancelledPart
  <2>2. ASSUME NEW i \in 1..Len(queue) PROVE queue[i].seq <= sequence
    <3>1. queue # <<>> /\ Len(queue) \in 1..Len(queue)
      BY <2>1
    <3>2. queue[i].seq \in Nat
      <4>1. queue[i] \in Mutations
        BY <2>1
      <4>. QED  BY <4>1 DEF Mutations
    <3>3. CASE i = Len(queue)
      BY <2>1, <3>1, <3>2, <3>3
    <3>4. CASE i < Len(queue)
      <4>1. queue[i].seq < queue[Len(queue)].seq
        BY <2>1, <3>1, <3>4
      <4>. QED  BY <2>1, <3>1, <3>2, <4>1
    <3>. QED  BY <2>1, <3>3, <3>4
  <2>3. DOMAIN queue = 1..Len(queue)
    BY <2>1
  <2>. QED  BY <2>1, <2>2, <2>3 DEF PageInv, QueueInv, OneIsSent, NoneAhead
<1>. QED  BY <1>1, PageInvariant, PTL

(* Answers, events and reloads that arrive in any order never take the     *)
(* page back to an older revision (setState, #recordServerState, finally). *)
THEOREM PageNeverGoesBack == Spec => PageMovesForward
<1>1. PageInv /\ PageInv' /\ [Next]_vars => [state'.rev >= state.rev /\ known'.rev >= known.rev]_vars
  <2>. SUFFICES ASSUME PageInv, PageInv', [Next]_vars
                PROVE  state'.rev >= state.rev /\ known'.rev >= known.rev
    OBVIOUS
  <2>. QED  BY PageStepKeeps, ViewRevisions DEF Forward, PageInv, TypeOK
<1>. QED  BY <1>1, PageInvariant, PTL DEF PageMovesForward, Spec

(* A snapshot that was queued behind a refused one is never stored: only   *)
(* the first of the queue is with the process, and it is of the current    *)
(* generation (#enqueueMutation).                                          *)
THEOREM CancelledSnapshotsStay == Spec => CancelledNeverStored
<1>1. PageInv => [server' # server /\ request.at = "sent" /\ request'.at = "stored" =>
                    Current.gen = generation]_vars
  <2>. SUFFICES ASSUME PageInv, request.at = "sent"
                PROVE  Current.gen = generation
    OBVIOUS
  <2>1. queue \in Seq(Mutations) /\ queue # <<>> /\ Len(queue) >= 1 /\ Len(queue) \in Nat
        /\ ~Reloading
    BY DEF PageInv, TypeOK, OneIsSent, Reloading
  <2>. QED  BY <2>1 DEF PageInv, CancelledPart, Current
<1>. QED  BY <1>1, PageInvariant, PTL DEF CancelledNeverStored, Spec

LEMMA ShownEditStays ==
  ASSUME PageInv, Next, queue' # <<>>, queue # <<>>, edits' = edits, draft' = draft
  PROVE  state'.own = state.own
<1>1. CASE ReceiveAnswer \/ ReceiveReload
  BY <1>1, AnswerShape
<1>2. CASE Process \/ Emit \/ Answer \/ (\E r \in reads : AnswerRead(r)) \/ ReceiveRefusal
           \/ Focus \/ AskReset
  BY <1>2 DEF Process, OtherWrites, Store, RefuseRequest, Emit, Answer, AnswerRead, ReceiveRefusal,
              Focus, AskReset, pageVars
<1>3. ASSUME NEW r \in reads, ReceiveRead(r)
      PROVE  state'.own = state.own
  BY <1>3 DEF ReceiveRead
<1>4. ASSUME NEW v \in events, ReceiveEvent(v)
      PROVE  state'.own = state.own
  BY <1>4 DEF ReceiveEvent, AcceptExternal, pageVars
<1>5. edits \in Nat /\ draft \in BOOLEAN
  BY DEF PageInv, TypeOK
<1>6. CASE Edit \/ Drag
  BY <1>5, <1>6 DEF Edit, Drag
<1>7. CASE BeginDrag \/ Drop \/ CancelDrag
  BY <1>5, <1>7 DEF BeginDrag, Drop, CancelDrag
<1>. QED  BY <1>1, <1>2, <1>3, <1>4, <1>6, <1>7 DEF Next, Delivery, User

(* The edit made last stays on the screen until its save is answered or    *)
(* refused: an answer to an earlier mutation, an event or a reload leaves  *)
(* it (the comparison of the sequence numbers in #enqueueMutation).        *)
THEOREM LastEditIsKept == Spec => LastEditStays
<1>1. PageInv /\ [Next]_vars =>
        [queue # <<>> /\ queue' # <<>> /\ Last(queue') = Last(queue)
         /\ Last(queue).kind = "save" /\ Last(queue).gen = generation'
         /\ edits' = edits /\ draft' = draft
           => state'.own = state.own]_vars
  BY ShownEditStays DEF vars, pageVars
<1>. QED  BY <1>1, PageInvariant, PTL DEF LastEditStays, Spec
=============================================================================
