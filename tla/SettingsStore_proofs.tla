------------------------ MODULE SettingsStore_proofs ------------------------
(***************************************************************************)
(* Proofs about SettingsStore for every set of fields, values, accounts    *)
(* and writers: what the revision check guarantees to the page, and that   *)
(* the names follow the accounts.                                          *)
(*                                                                         *)
(* The argument: every change of the settings raises the revision, so the  *)
(* stamp of a view with the current revision is that of the current state  *)
(* (StampsAreTrue).  A snapshot of the page is what it showed: if that     *)
(* lacks no change made elsewhere, it is the settings of the process with  *)
(* the user's edits (SnapshotsAreViews), also after earlier snapshots of   *)
(* the queue were stored, since later ones hold their edits                *)
(* (EditsAccumulate).  Names follow accounts because activation projects   *)
(* the recorded name and a save records the projected one, both under the  *)
(* write lock.                                                             *)
(***************************************************************************)
EXTENDS SettingsStore, TLAPS

USE StoreAssumption
USE DEF storeVars, pageVars, Stages, Writers

(* Settings and patches keep their shape under the edits of the actions.   *)
LEMMA EditedSettings ==
  ASSUME NEW s \in Settings, NEW f \in Fields, NEW v \in Values
  PROVE  /\ [s EXCEPT ![f] = v] \in Settings
         /\ s["name"] \in Values
         /\ f # "name" => [s EXCEPT ![f] = v]["name"] = s["name"]
         /\ [s EXCEPT ![f] = v][f] = v
         /\ \A g \in Fields : g # f => [s EXCEPT ![f] = v][g] = s[g]
  BY DEF Settings

LEMMA PatchShape ==
  ASSUME NEW p \in Patches
  PROVE  /\ DOMAIN p \subseteq Fields
         /\ \A f \in DOMAIN p : p[f] \in Values
         /\ p = [f \in DOMAIN p |-> p[f]]
  BY DEF Patches

LEMMA IsPatch ==
  ASSUME NEW F \in SUBSET Fields, NEW p \in [F -> Values]
  PROVE  p \in Patches
  BY DEF Patches

LEMMA ConstantShapes ==
  /\ Defaults \in Settings /\ Defaults \in Patches /\ DOMAIN Defaults = Fields
  /\ NoPatch \in Patches /\ DOMAIN NoPatch = {}
  /\ NoStamp \in Stamps /\ NoRecord \in Records /\ NoRequest \in Requests
  /\ \A f \in Fields : Defaults[f] = Default
  /\ \A f \in Fields : [g \in {f} |-> Default] \in Patches
<1>1. Defaults \in Settings /\ DOMAIN Defaults = Fields /\ \A f \in Fields : Defaults[f] = Default
  BY DEF Defaults, Settings
<1>2. Defaults \in Patches
  BY <1>1, IsPatch DEF Settings
<1>3. NoPatch \in Patches /\ DOMAIN NoPatch = {}
  <2>1. NoPatch \in [{} -> Values] /\ DOMAIN NoPatch = {}
    BY DEF NoPatch
  <2>. QED  BY <2>1, IsPatch
<1>4. ASSUME NEW f \in Fields PROVE [g \in {f} |-> Default] \in Patches
  <2>1. [g \in {f} |-> Default] \in [{f} -> Values]
    OBVIOUS
  <2>. QED  BY <2>1, IsPatch
<1>5. NoStamp \in Stamps /\ NoRecord \in Records
  BY DEF NoStamp, Stamps, NoRecord, Records
<1>6. NoRequest \in Requests
  BY <1>1, <1>3, <1>5 DEF NoRequest, Requests
<1>. QED  BY <1>1, <1>2, <1>3, <1>4, <1>5, <1>6

LEMMA OverShape ==
  ASSUME NEW s \in Settings, NEW p \in Patches
  PROVE  /\ Over(s, p) \in Settings
         /\ \A f \in DOMAIN p : Over(s, p)[f] = p[f]
         /\ \A f \in Fields \ DOMAIN p : Over(s, p)[f] = s[f]
  BY PatchShape DEF Over, Settings

LEMMA OverNothing ==
  ASSUME NEW s \in Settings
  PROVE  Over(s, NoPatch) = s
<1>1. \A f \in Fields : f \notin DOMAIN NoPatch
  BY ConstantShapes
<1>2. Over(s, NoPatch) = [f \in Fields |-> s[f]]
  BY <1>1 DEF Over
<1>. QED  BY <1>2 DEF Settings

(* What a smaller patch has given does not matter to a larger one.         *)
LEMMA OverAgain ==
  ASSUME NEW s \in Settings, NEW p \in Patches, NEW q \in Patches,
         DOMAIN p \subseteq DOMAIN q
  PROVE  Over(Over(s, p), q) = Over(s, q)
<1>1. \A f \in Fields : f \notin DOMAIN q => Over(s, p)[f] = s[f]
  BY DEF Over
<1>. QED  BY <1>1 DEF Over

LEMMA WithShape ==
  ASSUME NEW p \in Patches, NEW f \in Fields, NEW v \in Values
  PROVE  /\ With(p, f, v) \in Patches
         /\ DOMAIN With(p, f, v) = DOMAIN p \union {f}
         /\ With(p, f, v)[f] = v
         /\ \A g \in DOMAIN p : g # f => With(p, f, v)[g] = p[g]
<1>1. DOMAIN p \union {f} \in SUBSET Fields
  BY PatchShape
<1>2. With(p, f, v) \in [DOMAIN p \union {f} -> Values]
  BY PatchShape DEF With
<1>3. With(p, f, v) \in Patches
  BY <1>1, <1>2, IsPatch
<1>. QED  BY <1>3 DEF With

(* Editing what is shown and adding the edit to the patch is the same.     *)
LEMMA OverWith ==
  ASSUME NEW s \in Settings, NEW p \in Patches, NEW f \in Fields, NEW v \in Values
  PROVE  [Over(s, p) EXCEPT ![f] = v] = Over(s, With(p, f, v))
<1>1. DOMAIN With(p, f, v) = DOMAIN p \union {f}
  BY DEF With
<1>2. \A g \in Fields : [Over(s, p) EXCEPT ![f] = v][g] = Over(s, With(p, f, v))[g]
  BY <1>1 DEF Over, With
<1>3. /\ DOMAIN Over(s, With(p, f, v)) = Fields /\ DOMAIN [Over(s, p) EXCEPT ![f] = v] = Fields
      /\ Over(s, With(p, f, v)) = [g \in Fields |-> Over(s, With(p, f, v))[g]]
      /\ [Over(s, p) EXCEPT ![f] = v] = [g \in Fields |-> [Over(s, p) EXCEPT ![f] = v][g]]
  BY DEF Over
<1>. QED  BY <1>2, <1>3

LEMMA RecordShapes ==
  ASSUME TypeOK, NEW a \in Accounts
  PROVE  /\ records[a] \in Records
         /\ records[a].name \in Values
         /\ AccountRecord(a) \in Records
         /\ AdoptedName(a) \in Values
         /\ [id |-> AccountRecord(a).id, name |-> AdoptedName(a)] \in Records
         /\ KeptRecord(a) \in Records
         /\ [records[a] EXCEPT !.name = Default] \in Records
         /\ [records[a] EXCEPT !.name = Default].name = Default
<1>1. records[a] \in Records /\ settings["name"] \in Values
  BY DEF TypeOK, Settings
<1>2. AccountRecord(a) \in Records
  BY <1>1 DEF AccountRecord, Records
<1>3. AdoptedName(a) \in Values
  BY <1>1, <1>2 DEF AdoptedName, Records
<1>4. KeptRecord(a) \in Records
  BY <1>1 DEF KeptRecord, Records
<1>. QED  BY <1>1, <1>2, <1>3, <1>4 DEF Records

LEMMA RequestShape ==
  ASSUME TypeOK, NEW w \in Writers
  PROVE  /\ req[w] \in Requests
         /\ req[w].patch \in Patches /\ req[w].base \in Settings
         /\ req[w].sent \in Stamps /\ req[w].kind \in {"save", "part", "all"}
         /\ Current \in Stamps
  BY DEF TypeOK, Requests, Current, Stamps

(* The effect of a stored snapshot, field by field.                        *)
LEMMA SaveShapes ==
  ASSUME TypeOK, NEW w \in Writers, SaveEffect(w)
  PROVE  /\ Accepted(w) \in Settings
         /\ settings' = Accepted(w)
         /\ settings'["name"] \in Values
         /\ \A a \in Accounts :
              /\ records'[a] \in Records
              /\ records'[a].id = records[a].id
              /\ req[w].kind = "all" => records'[a].name = Default
              /\ req[w].kind # "all" /\ a = active => records'[a].name = settings'["name"]
              /\ req[w].kind # "all" /\ a # active => records'[a] = records[a]
<1>1. req[w].base \in Settings /\ settings["name"] \in Values
  BY RequestShape DEF TypeOK, Settings
<1>2. Accepted(w) \in Settings
  BY <1>1, EditedSettings DEF Accepted
<1>3. settings' = Accepted(w) /\ settings'["name"] \in Values
  BY <1>2, EditedSettings DEF SaveEffect, Settings
<1>4. ASSUME NEW a \in Accounts
      PROVE  /\ records'[a] \in Records
             /\ records'[a].id = records[a].id
             /\ req[w].kind = "all" => records'[a].name = Default
             /\ req[w].kind # "all" /\ a = active => records'[a].name = settings'["name"]
             /\ req[w].kind # "all" /\ a # active => records'[a] = records[a]
  <2>1. records[a] \in Records
    BY DEF TypeOK
  <2>2. records'[a] = IF req[w].kind = "all" THEN [records[a] EXCEPT !.name = Default]
                      ELSE IF a = active THEN [records[a] EXCEPT !.name = settings'["name"]]
                      ELSE records[a]
    BY DEF SaveEffect
  <2>. QED  BY <1>3, <2>1, <2>2 DEF Records
<1>. QED  BY <1>2, <1>3, <1>4

-----------------------------------------------------------------------------
(* The initial states.                                                     *)
LEMMA InitEstablishes == Init => StoreInv
<1>. SUFFICES ASSUME Init PROVE StoreInv
  OBVIOUS
<1>1. TypeOK
  <2>1. records \in [Accounts -> Records] /\ given \in [Accounts -> Values]
    BY ConstantShapes DEF Init
  <2>2. pc \in [Writers -> Stages] /\ req \in [Writers -> Requests]
    BY ConstantShapes DEF Init, NothingAsked
  <2>3. queue \in Seq(Pages) /\ shownAt \in Nat /\ unsaved \in Patches /\ known \in Stamps
    BY ConstantShapes DEF Init, NothingAsked
  <2>. QED  BY <2>1, <2>2, <2>3, ConstantShapes DEF Init, TypeOK
<1>2. QueueOrdered /\ EditsAccumulate /\ ResetsAreExact
  BY DEF Init, NothingAsked, QueueOrdered, EditsAccumulate, ResetsAreExact, Pending
<1>3. StampsAreTrue
  BY DEF Init, NothingAsked, StampsAreTrue, IsStamp, Pending, NoStamp
<1>4. SnapshotsAreViews
  <2>1. shown = Over(settings, unsaved)
    BY ConstantShapes, OverNothing DEF Init, NothingAsked
  <2>. QED  BY <2>1, ConstantShapes DEF Init, NothingAsked, SnapshotsAreViews, Pending
<1>5. TrayKeepsToItsFields /\ NameOfActive /\ Durable
  BY ConstantShapes
  DEF Init, NothingAsked, TrayKeepsToItsFields, NameOfActive, Durable, NoRequest
<1>6. NamelessAtFirst /\ GivenNamesRecorded /\ OnlyKnownRecorded
  BY ConstantShapes
  DEF Init, NothingAsked, NamelessAtFirst, GivenNamesRecorded, OnlyKnownRecorded, Known, NoRecord,
      NoRequest
<1>7. launches >= 1
  BY DEF Init
<1>. QED  BY <1>1, <1>2, <1>3, <1>4, <1>5, <1>6, <1>7 DEF StoreInv
-----------------------------------------------------------------------------
(* Type correctness.                                                       *)
LEMMA EnqueueTyped ==
  ASSUME TypeOK, NEW w \in Writers, NEW kind \in {"save", "part", "all"},
         NEW patch \in Patches, NEW b \in Settings, Enqueue(w, kind, patch, b)
  PROVE  /\ queue' \in Seq(Pages)
         /\ pc' \in [Writers -> Stages]
         /\ req' \in [Writers -> Requests]
<1>1. [kind |-> kind, patch |-> patch, base |-> b, sent |-> known] \in Requests
  BY DEF TypeOK, Requests
<1>2. req' \in [Writers -> Requests]
  BY <1>1 DEF Enqueue, TypeOK
<1>3. queue' \in Seq(Pages) /\ pc' \in [Writers -> Stages]
  BY DEF Enqueue, TypeOK
<1>. QED  BY <1>2, <1>3

LEMMA TakeTyped ==
  ASSUME TypeOK, Take
  PROVE  shown' \in Settings /\ shownAt' \in Nat /\ unsaved' \in Patches
  BY ConstantShapes DEF Take, TypeOK

LEMMA CompleteTyped ==
  ASSUME TypeOK, NEW w \in Writers, queue # <<>>, Complete(w)
  PROVE  TypeOK'
<1>1. queue' \in Seq(Pages)
  BY DEF Complete, TypeOK
<1>2. pc' \in [Writers -> Stages]
  BY DEF Complete, TypeOK
<1>3. ASSUME NEW v \in Writers PROVE req'[v] \in Requests
  <2>1. req[v] \in Requests /\ NoRequest \in Requests /\ Current \in Stamps
    BY ConstantShapes, RequestShape
  <2>2. [req[v] EXCEPT !.sent = Current] \in Requests
    BY <2>1 DEF Requests
  <2>. QED  BY <2>1, <2>2 DEF Complete
<1>4. req' \in [Writers -> Requests]
  <2>1. req' = [v \in Writers |-> req'[v]]
    BY DEF Complete
  <2>. QED  BY <1>3, <2>1
<1>5. shown' \in Settings /\ shownAt' \in Nat /\ unsaved' \in Patches
  BY TakeTyped DEF Complete, TypeOK
<1>6. known' \in Stamps
  BY DEF Complete, Current, Stamps, TypeOK
<1>. QED  BY <1>1, <1>2, <1>4, <1>5, <1>6 DEF Complete, TypeOK

(* The first request of the queue is the one that has been sent.           *)
LEMMA SentIsFirst ==
  ASSUME TypeOK, QueueOrdered, NEW w \in Pages, pc[w] \notin {"idle", "queued"}
  PROVE  queue # <<>> /\ queue[1] = w
<1>1. PICK i \in DOMAIN queue : queue[i] = w
  BY DEF QueueOrdered
<1>2. i \in Nat /\ ~ (i > 1)
  BY <1>1 DEF QueueOrdered, TypeOK
<1>3. i \in 1 .. Len(queue) /\ Len(queue) \in Nat
  BY <1>1 DEF TypeOK
<1>. QED  BY <1>1, <1>2, <1>3

LEMMA TypePreserved ==
  ASSUME TypeOK, QueueOrdered, TrayKeepsToItsFields, [Next]_vars
  PROVE  TypeOK'
<1>1. ASSUME NEW a \in Accounts, Activate(a) PROVE TypeOK'
  <2>1. settings' \in Settings /\ disk' \in Settings
    BY <1>1, RecordShapes, EditedSettings DEF Activate, TypeOK
  <2>2. records' \in [Accounts -> Records]
    BY <1>1, RecordShapes DEF Activate
  <2>. QED  BY <1>1, <2>1, <2>2 DEF Activate, TypeOK
<1>2. ASSUME NEW f \in Fields, NEW v \in Values, EditInPlace(f, v) PROVE TypeOK'
  <2>1. [settings EXCEPT ![f] = v] \in Settings
    BY EditedSettings DEF TypeOK
  <2>. QED  BY <1>2, <2>1 DEF EditInPlace, TypeOK
<1>3. ASSUME NEW w \in Writers, NEW f \in Fields, NEW v \in Values, PageAsks(w, f, v)
      PROVE  TypeOK'
  <2>1. shown' \in Settings /\ unsaved' \in Patches
    BY <1>3, EditedSettings, WithShape DEF PageAsks, TypeOK
  <2>2. Enqueue(w, "save", unsaved', shown')
    BY <1>3 DEF PageAsks
  <2>3. queue' \in Seq(Pages) /\ pc' \in [Writers -> Stages] /\ req' \in [Writers -> Requests]
    BY <2>1, <2>2, EnqueueTyped
  <2>. QED  BY <2>1, <2>2, <2>3 DEF Enqueue, TypeOK
<1>4. ASSUME NEW w \in Writers, NEW f \in Fields, PageAsksReset(w, f) PROVE TypeOK'
  <2>1. Enqueue(w, "part", [g \in {f} |-> Default], Defaults)
    BY <1>4 DEF PageAsksReset
  <2>2. [g \in {f} |-> Default] \in Patches /\ Defaults \in Settings
    BY ConstantShapes
  <2>3. queue' \in Seq(Pages) /\ pc' \in [Writers -> Stages] /\ req' \in [Writers -> Requests]
    BY <2>1, <2>2, EnqueueTyped
  <2>. QED  BY <1>4, <2>1, <2>3 DEF PageAsksReset, Enqueue, TypeOK
<1>5. ASSUME NEW w \in Writers, PageAsksResetAll(w) PROVE TypeOK'
  <2>1. Enqueue(w, "all", Defaults, Defaults)
    BY <1>5 DEF PageAsksResetAll
  <2>2. Defaults \in Patches /\ Defaults \in Settings
    BY ConstantShapes
  <2>3. queue' \in Seq(Pages) /\ pc' \in [Writers -> Stages] /\ req' \in [Writers -> Requests]
    BY <2>1, <2>2, EnqueueTyped
  <2>. QED  BY <1>5, <2>1, <2>3 DEF PageAsksResetAll, Enqueue, TypeOK
<1>6. ASSUME NEW w \in Writers, NEW f \in Fields, NEW v \in Values, TrayReads(w, f, v)
      PROVE  TypeOK'
  <2>1. [g \in {f} |-> v] \in Patches
    <3>1. [g \in {f} |-> v] \in [{f} -> Values]
      OBVIOUS
    <3>. QED  BY <3>1, IsPatch
  <2>2. [settings EXCEPT ![f] = v] \in Settings
    BY EditedSettings DEF TypeOK
  <2>3. [kind |-> "save", patch |-> [g \in {f} |-> v], base |-> [settings EXCEPT ![f] = v],
         sent |-> NoStamp] \in Requests
    BY <2>1, <2>2, ConstantShapes DEF Requests
  <2>. QED  BY <1>6, <2>3 DEF TrayReads, TypeOK
<1>7. ASSUME NEW w \in Writers, TrayReadsSettingsRevision(w) PROVE TypeOK'
  <2>1. [req[w] EXCEPT !.sent.rev = settingsRev] \in Requests
    BY RequestShape DEF Requests, Stamps, TypeOK
  <2>2. req' \in [Writers -> Requests]
    BY <1>7, <2>1 DEF TrayReadsSettingsRevision, TypeOK
  <2>. QED  BY <1>7, <2>2 DEF TrayReadsSettingsRevision, TypeOK
<1>8. ASSUME NEW w \in Writers, TrayReadsAccountRevision(w) PROVE TypeOK'
  <2>1. [req[w] EXCEPT !.sent.acc = accountRev] \in Requests
    BY RequestShape DEF Requests, Stamps, TypeOK
  <2>2. req' \in [Writers -> Requests]
    BY <1>8, <2>1 DEF TrayReadsAccountRevision, TypeOK
  <2>. QED  BY <1>8, <2>2 DEF TrayReadsAccountRevision, TypeOK
<1>9. ASSUME NEW w \in Writers, TrayEnds(w) PROVE TypeOK'
  BY <1>9, ConstantShapes DEF TrayEnds, TypeOK
<1>10. ASSUME NEW w \in Writers, LockCommands(w) PROVE TypeOK'
  BY <1>10 DEF LockCommands, TypeOK
<1>11. ASSUME NEW w \in Writers, ReadAgain(w) PROVE TypeOK'
  <2>1. Over(settings, req[w].patch) \in Settings
    BY RequestShape, OverShape DEF TypeOK
  <2>2. [req[w] EXCEPT !.base = Over(settings, req[w].patch)] \in Requests
    BY <2>1, RequestShape DEF Requests
  <2>3. req' \in [Writers -> Requests]
    BY <1>11, <2>2 DEF ReadAgain, TypeOK
  <2>. QED  BY <1>11, <2>3 DEF ReadAgain, TypeOK
<1>12. ASSUME NEW w \in Writers, Save(w) PROVE TypeOK'
  <2>1. SaveEffect(w)
    BY <1>12 DEF Save
  <2>2. settings' \in Settings /\ disk' \in Settings
    BY <2>1, SaveShapes DEF SaveEffect
  <2>3. records' \in [Accounts -> Records]
    <3>1. records' = [a \in Accounts |-> records'[a]]
      BY <2>1 DEF SaveEffect
    <3>. QED  BY <2>1, <3>1, SaveShapes
  <2>4. given' \in [Accounts -> Values]
    BY <2>1, RequestShape, PatchShape DEF SaveEffect, TypeOK
  <2>5. pc' \in [Writers -> Stages] /\ faithful' \in BOOLEAN /\ changes' \in Nat
    BY <2>1 DEF SaveEffect, TypeOK
  <2>. QED  BY <2>1, <2>2, <2>3, <2>4, <2>5 DEF SaveEffect, TypeOK
<1>13. ASSUME NEW w \in Writers, Refuse(w) PROVE TypeOK'
  <2>1. queue' \in Seq(Pages)
    BY <1>13 DEF Refuse, TypeOK
  <2>2. pc' \in [Writers -> Stages] /\ req' \in [Writers -> Requests]
    BY <1>13, ConstantShapes DEF Refuse, TypeOK
  <2>. QED  BY <1>13, <2>1, <2>2 DEF Refuse, TypeOK
<1>14. ASSUME NEW w \in Writers, Answered(w) \/ Reload(w) PROVE TypeOK'
  <2>1. w \in Pages /\ pc[w] \notin {"idle", "queued"} /\ Complete(w)
    BY <1>14 DEF Answered, Reload, TrayKeepsToItsFields
  <2>. QED  BY <2>1, SentIsFirst, CompleteTyped
<1>15. CASE PageLearns
  <2>1. known' \in Stamps
    BY <1>15 DEF PageLearns, Current, Stamps, TypeOK
  <2>2. shown' \in Settings /\ shownAt' \in Nat /\ unsaved' \in Patches
    BY <1>15, TakeTyped DEF PageLearns
  <2>. QED  BY <1>15, <2>1, <2>2 DEF PageLearns, TypeOK
<1>16. CASE Restart
  BY <1>16, ConstantShapes DEF Restart, TypeOK
<1>17. CASE UNCHANGED vars
  BY <1>17 DEF vars, TypeOK
<1>. QED  BY <1>1, <1>2, <1>3, <1>4, <1>5, <1>6, <1>7, <1>8, <1>9, <1>10, <1>11, <1>12,
             <1>13, <1>14, <1>15, <1>16, <1>17 DEF Next, WriterStep
-----------------------------------------------------------------------------
(* The queue of the page.                                                  *)
LEMMA QueueMoves ==
  ASSUME TypeOK, QueueOrdered, queue' = queue,
         \A v \in Pages : \/ pc'[v] = pc[v]
                          \/ pc[v] \notin {"idle", "queued"} /\ pc'[v] # "idle"
  PROVE  QueueOrdered'
<1>1. \A i \in DOMAIN queue : queue[i] \in Pages
  BY DEF TypeOK
<1>. QED  BY <1>1 DEF QueueOrdered

LEMMA EnqueueOrdered ==
  ASSUME TypeOK, QueueOrdered, NEW w \in Writers, NEW kind, NEW patch, NEW b,
         Enqueue(w, kind, patch, b)
  PROVE  /\ QueueOrdered'
         /\ DOMAIN queue \subseteq DOMAIN queue'
         /\ \A i \in DOMAIN queue : queue'[i] = queue[i] /\ queue[i] # w
         /\ \A j \in DOMAIN queue' : j \notin DOMAIN queue => queue'[j] = w /\ j = Len(queue) + 1
<1>1. w \in Pages /\ pc[w] = "idle" /\ queue' = Append(queue, w)
  BY DEF Enqueue
<1>2. Len(queue) \in Nat /\ DOMAIN queue = 1 .. Len(queue)
      /\ DOMAIN queue' = 1 .. (Len(queue) + 1)
  BY <1>1 DEF TypeOK
<1>3. \A i \in DOMAIN queue : queue'[i] = queue[i] /\ queue[i] \in Pages /\ queue[i] # w
  BY <1>1, <1>2 DEF TypeOK, QueueOrdered
<1>4. queue'[Len(queue) + 1] = w
  BY <1>1, <1>2 DEF TypeOK
<1>5. \A j \in DOMAIN queue' : j \notin DOMAIN queue => j = Len(queue) + 1
  BY <1>2
<1>6. \A v \in Writers : pc'[v] = IF v = w THEN IF queue = <<>> THEN "asked" ELSE "queued"
                                  ELSE pc[v]
  BY DEF Enqueue, TypeOK
<1>7. \A v \in Pages : pc'[v] # "idle" => \E i \in DOMAIN queue' : queue'[i] = v
  <2>. SUFFICES ASSUME NEW v \in Pages, pc'[v] # "idle"
                PROVE  \E i \in DOMAIN queue' : queue'[i] = v
    OBVIOUS
  <2>1. CASE v = w
    BY <2>1, <1>2, <1>4
  <2>2. CASE v # w
    <3>1. PICK i \in DOMAIN queue : queue[i] = v
      BY <2>2, <1>6 DEF QueueOrdered
    <3>. QED  BY <3>1, <1>2, <1>3
  <2>. QED  BY <2>1, <2>2
<1>8. \A i, j \in DOMAIN queue' : i # j => queue'[i] # queue'[j]
  BY <1>3, <1>4, <1>5 DEF QueueOrdered
<1>9. \A i \in DOMAIN queue' : pc'[queue'[i]] # "idle"
  BY <1>1, <1>3, <1>4, <1>5, <1>6 DEF QueueOrdered
<1>10. \A i \in DOMAIN queue' : i > 1 => pc'[queue'[i]] = "queued"
  <2>. SUFFICES ASSUME NEW i \in DOMAIN queue', i > 1 PROVE pc'[queue'[i]] = "queued"
    OBVIOUS
  <2>1. CASE i \in DOMAIN queue
    BY <2>1, <1>3, <1>6 DEF QueueOrdered
  <2>2. CASE i \notin DOMAIN queue
    <3>1. Len(queue) > 0 /\ queue # <<>>
      BY <2>2, <1>5, <1>2
    <3>. QED  BY <2>2, <3>1, <1>1, <1>4, <1>5, <1>6
  <2>. QED  BY <2>1, <2>2
<1>11. QueueOrdered'
  BY <1>7, <1>8, <1>9, <1>10 DEF QueueOrdered
<1>. QED  BY <1>2, <1>3, <1>4, <1>5, <1>11

(* What the page does when its first request is over.                      *)
LEMMA CompleteOrdered ==
  ASSUME TypeOK, QueueOrdered, NEW w \in Pages, pc[w] \notin {"idle", "queued"}, Complete(w)
  PROVE  /\ QueueOrdered'
         /\ Len(queue) \in Nat /\ DOMAIN queue = 1 .. Len(queue)
         /\ DOMAIN queue' = 1 .. (Len(queue) - 1)
         /\ \A i \in DOMAIN queue' : i + 1 \in DOMAIN queue /\ queue'[i] = queue[i + 1]
         /\ \A v \in Pages : pc'[v] # "idle" => v # w /\ pc[v] = "queued"
         /\ \A v \in Pages : pc'[v] # "idle" =>
              /\ req'[v].kind = req[v].kind /\ req'[v].patch = req[v].patch
              /\ req'[v].base = req[v].base
              /\ req'[v].sent \in {req[v].sent, Current}
              /\ pc'[v] # "ready" /\ pc'[v] # "locked"
<1>1. queue # <<>> /\ queue[1] = w /\ queue \in Seq(Pages)
  BY SentIsFirst DEF TypeOK
<1>2. Len(queue) \in Nat /\ Len(queue) >= 1 /\ DOMAIN queue = 1 .. Len(queue)
  BY <1>1
<1>3. queue' = Tail(queue)
  BY DEF Complete
<1>4. DOMAIN queue' = 1 .. (Len(queue) - 1)
  BY <1>1, <1>2, <1>3
<1>5. \A i \in DOMAIN queue' : i + 1 \in DOMAIN queue /\ queue'[i] = queue[i + 1]
  BY <1>1, <1>2, <1>3, <1>4
<1>6. \A v \in Writers :
        /\ pc'[v] = IF v = w THEN "idle"
                    ELSE IF queue' # <<>> /\ v = Head(queue') THEN "asked" ELSE pc[v]
        /\ req'[v] = IF v = w THEN NoRequest
                     ELSE IF queue' # <<>> /\ v = Head(queue')
                          THEN [req[v] EXCEPT !.sent = Current]
                     ELSE req[v]
  BY DEF Complete
<1>7. queue' # <<>> => 1 \in DOMAIN queue' /\ Head(queue') = queue[2] /\ 2 \in DOMAIN queue
  BY <1>1, <1>2, <1>3, <1>4, <1>5
<1>8. \A i \in DOMAIN queue : i > 1 => pc[queue[i]] = "queued" /\ queue[i] # w /\ queue[i] \in Pages
  BY <1>1, <1>2 DEF QueueOrdered
<1>9. \A v \in Pages : pc'[v] # "idle" => v # w /\ pc[v] = "queued"
  <2>. SUFFICES ASSUME NEW v \in Pages, pc'[v] # "idle"
                PROVE  v # w /\ pc[v] = "queued"
    OBVIOUS
  <2>1. v # w
    BY <1>6
  <2>2. CASE queue' # <<>> /\ v = Head(queue')
    BY <2>1, <2>2, <1>7, <1>8
  <2>3. CASE ~ (queue' # <<>> /\ v = Head(queue'))
    <3>1. pc[v] # "idle"
      BY <2>1, <2>3, <1>6
    <3>2. PICK i \in DOMAIN queue : queue[i] = v
      BY <3>1 DEF QueueOrdered
    <3>3. i > 1
      BY <3>2, <2>1, <1>1, <1>2
    <3>. QED  BY <3>2, <3>3, <2>1, <1>8
  <2>. QED  BY <2>2, <2>3
<1>10. \A v \in Pages : pc'[v] # "idle" => \E i \in DOMAIN queue' : queue'[i] = v
  <2>. SUFFICES ASSUME NEW v \in Pages, pc'[v] # "idle"
                PROVE  \E i \in DOMAIN queue' : queue'[i] = v
    OBVIOUS
  <2>1. v # w /\ pc[v] = "queued"
    BY <1>9
  <2>2. PICK i \in DOMAIN queue : queue[i] = v
    BY <2>1 DEF QueueOrdered
  <2>3. i - 1 \in DOMAIN queue' /\ (i - 1) + 1 = i
    BY <2>1, <2>2, <1>1, <1>2, <1>4
  <2>. QED  BY <2>2, <2>3, <1>5
<1>11. \A i, j \in DOMAIN queue' : i # j => queue'[i] # queue'[j]
  BY <1>2, <1>4, <1>5 DEF QueueOrdered
<1>12. \A i \in DOMAIN queue' : pc'[queue'[i]] # "idle"
  <2>. SUFFICES ASSUME NEW i \in DOMAIN queue' PROVE pc'[queue'[i]] # "idle"
    OBVIOUS
  <2>1. i + 1 \in DOMAIN queue /\ i + 1 > 1 /\ queue'[i] = queue[i + 1]
    BY <1>2, <1>4, <1>5
  <2>2. pc[queue[i + 1]] = "queued" /\ queue[i + 1] # w /\ queue[i + 1] \in Pages
    BY <2>1, <1>8
  <2>3. \A v \in Pages : pc[v] = "queued" /\ v # w => pc'[v] # "idle"
    BY <1>6
  <2>4. pc'[queue[i + 1]] # "idle"
    BY <2>2, <2>3
  <2>. QED  BY <2>1, <2>4
<1>13. \A i \in DOMAIN queue' : i > 1 => pc'[queue'[i]] = "queued"
  <2>. SUFFICES ASSUME NEW i \in DOMAIN queue', i > 1 PROVE pc'[queue'[i]] = "queued"
    OBVIOUS
  <2>1. i + 1 \in DOMAIN queue /\ i + 1 > 2 /\ i + 1 > 1 /\ queue'[i] = queue[i + 1]
    BY <1>2, <1>4, <1>5
  <2>2. queue' # <<>> => queue[i + 1] # Head(queue')
    BY <2>1, <1>7 DEF QueueOrdered
  <2>3. pc[queue[i + 1]] = "queued" /\ queue[i + 1] # w /\ queue[i + 1] \in Pages
    BY <2>1, <1>8
  <2>4. \A v \in Pages : pc[v] = "queued" /\ v # w /\ (queue' # <<>> => v # Head(queue'))
                         => pc'[v] = "queued"
    BY <1>6
  <2>5. pc'[queue[i + 1]] = "queued"
    BY <2>2, <2>3, <2>4
  <2>. QED  BY <2>1, <2>5
<1>14. QueueOrdered'
  BY <1>10, <1>11, <1>12, <1>13 DEF QueueOrdered
<1>15. ASSUME NEW v \in Pages, pc'[v] # "idle"
       PROVE  /\ req'[v].kind = req[v].kind /\ req'[v].patch = req[v].patch
              /\ req'[v].base = req[v].base
              /\ req'[v].sent \in {req[v].sent, Current}
              /\ pc'[v] # "ready" /\ pc'[v] # "locked"
  <2>1. v # w /\ pc[v] = "queued" /\ req[v] \in Requests
    BY <1>9, <1>15, RequestShape
  <2>2. pc'[v] \in {"asked", "queued"} /\ req'[v] \in {req[v], [req[v] EXCEPT !.sent = Current]}
    BY <2>1, <1>6
  <2>. QED  BY <2>1, <2>2 DEF Requests
<1>. QED  BY <1>2, <1>4, <1>5, <1>9, <1>14, <1>15

LEMMA QueuePreserved ==
  ASSUME TypeOK, QueueOrdered, TrayKeepsToItsFields, [Next]_vars
  PROVE  QueueOrdered'
<1>1. CASE \/ \E a \in Accounts : Activate(a)
           \/ \E f \in Fields, v \in Values : EditInPlace(f, v)
           \/ PageLearns
           \/ UNCHANGED vars
  <2>1. queue' = queue /\ pc' = pc
    BY <1>1 DEF Activate, EditInPlace, PageLearns, vars
  <2>. QED  BY <2>1, QueueMoves
<1>2. ASSUME NEW w \in Writers,
             \/ \E f \in Fields, v \in Values : PageAsks(w, f, v)
             \/ \E f \in Fields : PageAsksReset(w, f)
             \/ PageAsksResetAll(w)
      PROVE  QueueOrdered'
  <2>1. \/ Enqueue(w, "save", unsaved', shown')
        \/ \E f \in Fields : Enqueue(w, "part", [g \in {f} |-> Default], Defaults)
        \/ Enqueue(w, "all", Defaults, Defaults)
    BY <1>2 DEF PageAsks, PageAsksReset, PageAsksResetAll
  <2>. QED  BY <2>1, EnqueueOrdered
<1>3. ASSUME NEW w \in Writers,
             \/ \E f \in Fields, v \in Values : TrayReads(w, f, v)
             \/ TrayReadsSettingsRevision(w) \/ TrayReadsAccountRevision(w) \/ TrayEnds(w)
      PROVE  QueueOrdered'
  <2>1. queue' = queue /\ \A u \in Pages : pc'[u] = pc[u]
    BY <1>3 DEF TrayReads, TrayReadsSettingsRevision, TrayReadsAccountRevision, TrayEnds, TypeOK
  <2>. QED  BY <2>1, QueueMoves
<1>4. ASSUME NEW w \in Writers, LockCommands(w) \/ ReadAgain(w) \/ Save(w)
      PROVE  QueueOrdered'
  <2>1. queue' = queue
        /\ \A u \in Pages : \/ pc'[u] = pc[u]
                            \/ pc[u] \notin {"idle", "queued"} /\ pc'[u] # "idle"
    BY <1>4 DEF LockCommands, ReadAgain, Save, SaveEffect, TypeOK
  <2>. QED  BY <2>1, QueueMoves
<1>5. ASSUME NEW w \in Writers, Refuse(w) PROVE QueueOrdered'
  <2>1. CASE w \in Trays
    <3>1. queue' = queue /\ \A u \in Pages : pc'[u] = pc[u]
      BY <1>5, <2>1 DEF Refuse, TypeOK
    <3>. QED  BY <3>1, QueueMoves
  <2>2. CASE w \in Pages
    <3>1. queue' = <<w>> /\ \A u \in Pages : pc'[u] = IF u = w THEN "reloading" ELSE "idle"
      BY <1>5, <2>2 DEF Refuse, TypeOK
    <3>2. DOMAIN queue' = {1} /\ queue'[1] = w
      BY <3>1
    <3>. QED  BY <3>1, <3>2, <2>2 DEF QueueOrdered
  <2>. QED  BY <2>1, <2>2
<1>6. ASSUME NEW w \in Writers, Answered(w) \/ Reload(w) PROVE QueueOrdered'
  <2>1. w \in Pages /\ pc[w] \notin {"idle", "queued"} /\ Complete(w)
    BY <1>6 DEF Answered, Reload, TrayKeepsToItsFields
  <2>. QED  BY <2>1, CompleteOrdered
<1>7. CASE Restart
  <2>1. DOMAIN queue' = {} /\ \A u \in Pages : pc'[u] = "idle"
    BY <1>7 DEF Restart
  <2>. QED  BY <2>1 DEF QueueOrdered
<1>. QED  BY <1>1, <1>2, <1>3, <1>4, <1>5, <1>6, <1>7 DEF Next, WriterStep
-----------------------------------------------------------------------------
(* Stamps, snapshots and resets.  A request that waits keeps its snapshot, *)
(* or has just been asked.                                                 *)
LEMMA TrayPreserved ==
  ASSUME TypeOK, TrayKeepsToItsFields, [Next]_vars
  PROVE  TrayKeepsToItsFields'
<1>1. CASE \/ \E a \in Accounts : Activate(a)
           \/ \E f \in Fields, v \in Values : EditInPlace(f, v)
           \/ PageLearns
           \/ UNCHANGED vars
  BY <1>1 DEF Activate, EditInPlace, PageLearns, vars, TrayKeepsToItsFields
<1>2. ASSUME NEW w \in Writers,
             \/ \E f \in Fields, v \in Values : PageAsks(w, f, v)
             \/ \E f \in Fields : PageAsksReset(w, f)
             \/ PageAsksResetAll(w)
      PROVE  TrayKeepsToItsFields'
  <2>1. w \in Pages /\ \A u \in Trays : pc'[u] = pc[u] /\ req'[u] = req[u]
    BY <1>2 DEF PageAsks, PageAsksReset, PageAsksResetAll, Enqueue, TypeOK
  <2>. QED  BY <2>1 DEF TrayKeepsToItsFields
<1>3. ASSUME NEW w \in Writers, \E f \in Fields, v \in Values : TrayReads(w, f, v)
      PROVE  TrayKeepsToItsFields'
  <2>1. PICK f \in Fields, v \in Values : TrayReads(w, f, v)
    BY <1>3
  <2>2. req'[w].kind = "save" /\ DOMAIN req'[w].patch = {f} /\ f # "name" /\ pc'[w] = "read"
    BY <2>1 DEF TrayReads, TypeOK
  <2>3. \A u \in Trays : u # w => pc'[u] = pc[u] /\ req'[u] = req[u]
    BY <2>1 DEF TrayReads, TypeOK
  <2>. QED  BY <2>2, <2>3 DEF TrayKeepsToItsFields
<1>4. ASSUME NEW w \in Writers,
             TrayReadsSettingsRevision(w) \/ TrayReadsAccountRevision(w)
      PROVE  TrayKeepsToItsFields'
  <2>1. /\ pc'[w] \in {"revRead", "asked"}
        /\ req'[w].kind = req[w].kind /\ req'[w].patch = req[w].patch
    BY <1>4, RequestShape
    DEF TrayReadsSettingsRevision, TrayReadsAccountRevision, TypeOK, Requests
  <2>2. \A u \in Trays : u # w => pc'[u] = pc[u] /\ req'[u] = req[u]
    BY <1>4 DEF TrayReadsSettingsRevision, TrayReadsAccountRevision, TypeOK
  <2>. QED  BY <2>1, <2>2 DEF TrayKeepsToItsFields
<1>5. ASSUME NEW w \in Writers, TrayEnds(w) PROVE TrayKeepsToItsFields'
  BY <1>5, ConstantShapes DEF TrayEnds, TrayKeepsToItsFields, TypeOK, NoRequest
<1>6. ASSUME NEW w \in Writers, LockCommands(w) \/ Save(w) PROVE TrayKeepsToItsFields'
  BY <1>6 DEF LockCommands, Save, SaveEffect, TrayKeepsToItsFields, TypeOK
<1>7. ASSUME NEW w \in Writers, ReadAgain(w) PROVE TrayKeepsToItsFields'
  BY <1>7 DEF ReadAgain, TrayKeepsToItsFields, TypeOK
<1>8. ASSUME NEW w \in Writers, Refuse(w) PROVE TrayKeepsToItsFields'
  <2>1. \A u \in Trays : /\ pc'[u] \in {pc[u], "idle"}
                         /\ req'[u] \in {req[u], NoRequest}
    BY <1>8 DEF Refuse, TypeOK
  <2>. QED  BY <2>1, ConstantShapes DEF TrayKeepsToItsFields, NoRequest
<1>9. ASSUME NEW w \in Writers, Answered(w) \/ Reload(w) PROVE TrayKeepsToItsFields'
  <2>1. w \in Pages /\ Complete(w)
    BY <1>9 DEF Answered, Reload, TrayKeepsToItsFields
  <2>2. queue' # <<>> => Head(queue') \in Pages
    <3>1. queue # <<>> => queue' \in Seq(Pages)
      BY <2>1 DEF Complete, TypeOK
    <3>2. queue = <<>> => queue' = <<>>
      BY <2>1 DEF Complete, TypeOK
    <3>. QED  BY <3>1, <3>2
  <2>3. \A u \in Trays : pc'[u] = pc[u] /\ req'[u] = req[u]
    BY <2>1, <2>2 DEF Complete
  <2>. QED  BY <2>3 DEF TrayKeepsToItsFields
<1>10. CASE Restart
  BY <1>10, ConstantShapes DEF Restart, TrayKeepsToItsFields, NoRequest
<1>. QED  BY <1>1, <1>2, <1>3, <1>4, <1>5, <1>6, <1>7, <1>8, <1>9, <1>10 DEF Next, WriterStep

(* A stamp of now is true, and a change of the settings makes every stamp  *)
(* one of the past.                                                        *)
LEMMA CurrentIsStamp == TypeOK => IsStamp(Current)
  BY DEF TypeOK, IsStamp, Current

LEMMA StampsAge ==
  ASSUME TypeOK, settingsRev' = settingsRev + 1, NEW s \in Stamps, IsStamp(s)
  PROVE  IsStamp(s)'
  BY DEF TypeOK, Stamps, IsStamp

LEMMA StampsStay ==
  ASSUME UNCHANGED <<settingsRev, accountRev, changes>>, NEW s, IsStamp(s)
  PROVE  IsStamp(s)'
  BY DEF IsStamp
LEMMA StampsPreserved ==
  ASSUME TypeOK, TypeOK', QueueOrdered, TrayKeepsToItsFields, StampsAreTrue, [Next]_vars
  PROVE  StampsAreTrue'
<1>s. known \in Stamps /\ \A v \in Pages : req[v].sent \in Stamps
  BY RequestShape DEF TypeOK
<1>1. ASSUME settingsRev' = settingsRev + 1, known' = known,
             \A v \in Pages : Pending(v)' => Pending(v) /\ req'[v].sent = req[v].sent
      PROVE  StampsAreTrue'
  <2>1. IsStamp(known)' /\ \A v \in Pages : Pending(v) => IsStamp(req[v].sent)
    BY <1>1, <1>s, StampsAge DEF StampsAreTrue, IsStamp
  <2>2. ASSUME NEW v \in Pages, Pending(v)' PROVE IsStamp(req[v].sent)'
    <3>1. Pending(v) /\ req'[v].sent = req[v].sent /\ IsStamp(req[v].sent)
      BY <1>1, <2>1, <2>2
    <3>2. req[v].sent \in Stamps
      BY <1>s
    <3>. QED  BY <1>1, <3>1, <3>2 DEF IsStamp, TypeOK, Stamps
  <2>. QED  BY <2>1, <2>2 DEF StampsAreTrue
<1>2. ASSUME UNCHANGED <<settingsRev, accountRev, changes>>,
             known' = known,
             \A v \in Pages : Pending(v)' => \/ Pending(v) /\ req'[v].sent = req[v].sent
                                             \/ req'[v].sent = known
      PROVE  StampsAreTrue'
  BY <1>2 DEF StampsAreTrue, IsStamp
<1>3. CASE \/ \E a \in Accounts : Activate(a)
           \/ \E f \in Fields, v \in Values : EditInPlace(f, v)
  BY <1>1, <1>3 DEF Activate, EditInPlace, Pending
<1>4. ASSUME NEW w \in Writers, Save(w) PROVE StampsAreTrue'
  <2>1. \A v \in Pages : Pending(v)' => Pending(v) /\ req'[v].sent = req[v].sent
    BY <1>4 DEF Save, SaveEffect, Pending, TypeOK
  <2>. QED  BY <1>1, <1>4, <2>1 DEF Save, SaveEffect
<1>5. ASSUME NEW w \in Writers,
             \/ \E f \in Fields, v \in Values : PageAsks(w, f, v)
             \/ \E f \in Fields : PageAsksReset(w, f)
             \/ PageAsksResetAll(w)
      PROVE  StampsAreTrue'
  <2>1. \E kind, patch, b : Enqueue(w, kind, patch, b)
    BY <1>5 DEF PageAsks, PageAsksReset, PageAsksResetAll
  <2>2. PICK kind, patch, b : Enqueue(w, kind, patch, b)
    BY <2>1
  <2>3. w \in Pages /\ req'[w].sent = known
    BY <2>2 DEF Enqueue, TypeOK
  <2>4. \A v \in Pages : v # w => pc'[v] = pc[v] /\ req'[v] = req[v]
    BY <2>2 DEF Enqueue, TypeOK
  <2>. QED  BY <1>2, <2>2, <2>3, <2>4 DEF Enqueue, Pending
<1>6. ASSUME NEW w \in Writers,
             \/ \E f \in Fields, v \in Values : TrayReads(w, f, v)
             \/ TrayReadsSettingsRevision(w) \/ TrayReadsAccountRevision(w) \/ TrayEnds(w)
      PROVE  StampsAreTrue'
  <2>1. \A v \in Pages : pc'[v] = pc[v] /\ req'[v] = req[v]
    BY <1>6 DEF TrayReads, TrayReadsSettingsRevision, TrayReadsAccountRevision, TrayEnds, TypeOK
  <2>. QED  BY <1>2, <1>6, <2>1
       DEF TrayReads, TrayReadsSettingsRevision, TrayReadsAccountRevision, TrayEnds, Pending
<1>7. ASSUME NEW w \in Writers, LockCommands(w) PROVE StampsAreTrue'
  <2>1. \A v \in Pages : Pending(v)' => Pending(v) /\ req'[v].sent = req[v].sent
    BY <1>7 DEF LockCommands, Pending, TypeOK
  <2>. QED  BY <1>2, <1>7, <2>1 DEF LockCommands
<1>8. ASSUME NEW w \in Writers, ReadAgain(w) PROVE StampsAreTrue'
  <2>1. req'[w].sent = req[w].sent /\ \A v \in Writers : v # w => req'[v] = req[v]
    BY <1>8, RequestShape DEF ReadAgain, TypeOK, Requests
  <2>2. \A v \in Pages : Pending(v)' => Pending(v)
    BY <1>8 DEF ReadAgain, Pending, TypeOK
  <2>. QED  BY <1>2, <1>8, <2>1, <2>2 DEF ReadAgain
<1>9. ASSUME NEW w \in Writers, Refuse(w) PROVE StampsAreTrue'
  <2>1. \A v \in Pages : Pending(v)' => Pending(v) /\ req'[v].sent = req[v].sent
    BY <1>9 DEF Refuse, Pending, TypeOK
  <2>. QED  BY <1>2, <1>9, <2>1 DEF Refuse
<1>10. ASSUME NEW w \in Writers, Answered(w) \/ Reload(w) PROVE StampsAreTrue'
  <2>1. w \in Pages /\ pc[w] \notin {"idle", "queued"} /\ Complete(w)
    BY <1>10 DEF Answered, Reload, TrayKeepsToItsFields
  <2>2. \A v \in Pages : Pending(v)' => Pending(v) /\ req'[v].sent \in {req[v].sent, Current}
    BY <2>1, CompleteOrdered DEF Pending
  <2>3. IsStamp(Current) /\ UNCHANGED <<settingsRev, accountRev, changes>> /\ known' = Current
    BY <2>1, CurrentIsStamp DEF Complete
  <2>. QED  BY <2>2, <2>3 DEF StampsAreTrue, IsStamp
<1>11. CASE PageLearns
  <2>1. IsStamp(Current) /\ UNCHANGED <<settingsRev, accountRev, changes>> /\ known' = Current
    BY <1>11, CurrentIsStamp DEF PageLearns
  <2>2. UNCHANGED <<pc, req>>
    BY <1>11 DEF PageLearns
  <2>. QED  BY <2>1, <2>2 DEF StampsAreTrue, IsStamp, Pending
<1>12. CASE Restart
  BY <1>12, ConstantShapes DEF Restart, StampsAreTrue, IsStamp, Pending, NoStamp
<1>13. CASE UNCHANGED vars
  BY <1>2, <1>13 DEF vars, Pending
<1>. QED  BY <1>3, <1>4, <1>5, <1>6, <1>7, <1>8, <1>9, <1>10, <1>11, <1>12, <1>13
          DEF Next, WriterStep

(* A save of the page under the current revision stores its snapshot as it *)
(* is; if that lacks no change, it is the settings with the edits.         *)
LEMMA SaveExact ==
  ASSUME TypeOK, QueueOrdered, StampsAreTrue, SnapshotsAreViews, ResetsAreExact,
         NEW w \in Pages, Save(w)
  PROVE  /\ settings' = req[w].base
         /\ Aware(w) => settings' = Over(settings, req[w].patch)
<1>1. Pending(w) /\ req[w].sent.rev = settingsRev /\ IsStamp(req[w].sent)
  BY DEF Save, Pending, StampsAreTrue
<1>2. req[w].sent.acc = accountRev /\ req[w].sent.at = changes
  BY <1>1 DEF IsStamp
<1>3. settings' = req[w].base
  BY <1>2 DEF Save, SaveEffect, Accepted
<1>4. CASE req[w].kind = "save"
  BY <1>1, <1>2, <1>3, <1>4 DEF Aware, SnapshotsAreViews
<1>5. CASE req[w].kind = "part"
  BY <1>1, <1>3, <1>5 DEF ResetsAreExact, Save
<1>6. CASE req[w].kind = "all"
  <2>1. req[w].base = Defaults /\ req[w].patch = Defaults
    BY <1>1, <1>6 DEF ResetsAreExact
  <2>2. Over(settings, Defaults) = Defaults
    BY ConstantShapes DEF Over, Defaults
  <2>. QED  BY <1>3, <2>1, <2>2
<1>. QED  BY <1>3, <1>4, <1>5, <1>6, RequestShape

LEMMA ResetsPreserved ==
  ASSUME TypeOK, QueueOrdered, TrayKeepsToItsFields, StampsAreTrue, ResetsAreExact,
         [Next]_vars
  PROVE  ResetsAreExact'
<1>1. ASSUME \A v \in Pages :
               Pending(v)' => /\ Pending(v) /\ req'[v].kind = req[v].kind
                              /\ req'[v].patch = req[v].patch
                              /\ req'[v].base = req[v].base
                              /\ pc'[v] = "locked" => pc[v] = "locked"
                              /\ pc'[v] = "ready" => pc[v] = "ready" /\ req'[v].sent = req[v].sent,
             settingsRev' = settingsRev + 1 \/ UNCHANGED <<settings, settingsRev>>
      PROVE  ResetsAreExact'
  <2>. SUFFICES ASSUME NEW v \in Pages
                PROVE  /\ Pending(v)' /\ req'[v].kind = "all" =>
                            req'[v].base = Defaults /\ req'[v].patch = Defaults
                       /\ Pending(v)' /\ req'[v].kind = "part" =>
                            "name" \notin DOMAIN req'[v].patch
                       /\ pc'[v] = "locked" => req'[v].kind = "part"
                       /\ /\ pc'[v] = "ready" /\ req'[v].kind = "part"
                          /\ req'[v].sent.rev = settingsRev'
                          => req'[v].base = Over(settings', req'[v].patch)
    BY DEF ResetsAreExact
  <2>1. pc'[v] \in {"locked", "ready"} => Pending(v)'
    BY DEF Pending
  <2>2. pc'[v] = "ready" /\ settingsRev' = settingsRev + 1 => req'[v].sent.rev # settingsRev'
    <3>1. Pending(v) => req[v].sent.rev <= settingsRev
      BY DEF StampsAreTrue, IsStamp
    <3>2. req[v].sent.rev \in Nat
      BY RequestShape DEF Stamps
    <3>. QED  BY <1>1, <2>1, <3>1, <3>2 DEF TypeOK
  <2>. QED  BY <1>1, <2>1, <2>2 DEF ResetsAreExact
<1>2. CASE \/ \E a \in Accounts : Activate(a)
           \/ \E f \in Fields, v \in Values : EditInPlace(f, v)
           \/ PageLearns
           \/ UNCHANGED vars
  BY <1>1, <1>2 DEF Activate, EditInPlace, PageLearns, vars, Pending
<1>3. ASSUME NEW w \in Writers, Save(w) PROVE ResetsAreExact'
  <2>1. /\ settingsRev' = settingsRev + 1 /\ req' = req
        /\ \A v \in Pages : Pending(v)' => pc'[v] = pc[v] /\ Pending(v)
    BY <1>3 DEF Save, SaveEffect, Pending, TypeOK
  <2>. QED  BY <1>1, <2>1
<1>4. ASSUME NEW w \in Writers, NEW kind, NEW patch, NEW b, Enqueue(w, kind, patch, b),
             kind = "all" => b = Defaults /\ patch = Defaults,
             kind = "part" => "name" \notin DOMAIN patch
      PROVE  ResetsAreExact'
  <2>1. /\ w \in Pages /\ pc'[w] \in {"asked", "queued"}
        /\ req'[w].kind = kind /\ req'[w].patch = patch /\ req'[w].base = b
    BY <1>4 DEF Enqueue, TypeOK
  <2>2. \A v \in Pages : v # w => pc'[v] = pc[v] /\ req'[v] = req[v]
    BY <1>4 DEF Enqueue, TypeOK
  <2>3. UNCHANGED <<settings, settingsRev>>
    BY <1>4 DEF Enqueue
  <2>. QED  BY <1>4, <2>1, <2>2, <2>3 DEF ResetsAreExact, Pending
<1>5. ASSUME NEW w \in Writers,
             \/ \E f \in Fields, v \in Values : PageAsks(w, f, v)
             \/ \E f \in Fields : PageAsksReset(w, f)
             \/ PageAsksResetAll(w)
      PROVE  ResetsAreExact'
  <2>1. CASE \E f \in Fields, v \in Values : PageAsks(w, f, v)
    <3>1. Enqueue(w, "save", unsaved', shown')
      BY <2>1 DEF PageAsks
    <3>. QED  BY <1>4, <3>1
  <2>2. CASE \E f \in Fields : PageAsksReset(w, f)
    <3>1. PICK f \in Fields : PageAsksReset(w, f)
      BY <2>2
    <3>2. Enqueue(w, "part", [g \in {f} |-> Default], Defaults) /\ f # "name"
      BY <3>1 DEF PageAsksReset
    <3>. QED  BY <1>4, <3>2
  <2>3. CASE PageAsksResetAll(w)
    BY <1>4, <2>3 DEF PageAsksResetAll
  <2>. QED  BY <1>5, <2>1, <2>2, <2>3
<1>6. ASSUME NEW w \in Writers,
             \/ \E f \in Fields, v \in Values : TrayReads(w, f, v)
             \/ TrayReadsSettingsRevision(w) \/ TrayReadsAccountRevision(w) \/ TrayEnds(w)
      PROVE  ResetsAreExact'
  <2>1. \A v \in Pages : pc'[v] = pc[v] /\ req'[v] = req[v]
    BY <1>6 DEF TrayReads, TrayReadsSettingsRevision, TrayReadsAccountRevision, TrayEnds, TypeOK
  <2>2. UNCHANGED <<settings, settingsRev>>
    BY <1>6 DEF TrayReads, TrayReadsSettingsRevision, TrayReadsAccountRevision, TrayEnds
  <2>. QED  BY <1>1, <2>1, <2>2 DEF Pending
<1>7. ASSUME NEW w \in Writers, LockCommands(w) PROVE ResetsAreExact'
  <2>1. /\ pc'[w] = IF req[w].kind = "part" THEN "locked" ELSE "ready"
        /\ pc[w] = "asked" /\ \A v \in Writers : v # w => pc'[v] = pc[v]
        /\ UNCHANGED <<settings, settingsRev, req>>
    BY <1>7 DEF LockCommands, TypeOK
  <2>. QED  BY <2>1 DEF ResetsAreExact, Pending
<1>8. ASSUME NEW w \in Writers, ReadAgain(w) PROVE ResetsAreExact'
  <2>1. /\ req'[w].base = Over(settings, req[w].patch) /\ req'[w].kind = req[w].kind
        /\ req'[w].patch = req[w].patch /\ req'[w].sent = req[w].sent
        /\ \A v \in Writers : v # w => pc'[v] = pc[v] /\ req'[v] = req[v]
        /\ pc'[w] = "ready" /\ pc[w] = "locked"
        /\ UNCHANGED <<settings, settingsRev>>
    BY <1>8, RequestShape DEF ReadAgain, TypeOK, Requests
  <2>. QED  BY <2>1 DEF ResetsAreExact, Pending
<1>9. ASSUME NEW w \in Writers, Refuse(w) PROVE ResetsAreExact'
  <2>1. \A v \in Pages : Pending(v)' => Pending(v) /\ pc'[v] = pc[v] /\ req'[v] = req[v]
    BY <1>9 DEF Refuse, Pending, TypeOK
  <2>2. UNCHANGED <<settings, settingsRev>>
    BY <1>9 DEF Refuse
  <2>. QED  BY <1>1, <2>1, <2>2
<1>10. ASSUME NEW w \in Writers, Answered(w) \/ Reload(w) PROVE ResetsAreExact'
  <2>1. w \in Pages /\ pc[w] \notin {"idle", "queued"} /\ Complete(w)
    BY <1>10 DEF Answered, Reload, TrayKeepsToItsFields
  <2>2. \A v \in Pages : Pending(v)' => /\ Pending(v) /\ req'[v].kind = req[v].kind
                                        /\ req'[v].patch = req[v].patch
                                        /\ req'[v].base = req[v].base
                                        /\ pc'[v] # "locked" /\ pc'[v] # "ready"
    BY <2>1, CompleteOrdered DEF Pending
  <2>3. UNCHANGED <<settings, settingsRev>>
    BY <2>1 DEF Complete
  <2>. QED  BY <1>1, <2>2, <2>3
<1>11. CASE Restart
  BY <1>11 DEF Restart, ResetsAreExact, Pending
<1>. QED  BY <1>2, <1>3, <1>5, <1>6, <1>7, <1>8, <1>9, <1>10, <1>11 DEF Next, WriterStep
LEMMA EditsPreserved ==
  ASSUME TypeOK, QueueOrdered, TrayKeepsToItsFields, SnapshotsAreViews, EditsAccumulate,
         [Next]_vars
  PROVE  EditsAccumulate'
<1>q. \A i \in DOMAIN queue : queue[i] \in Pages
  BY DEF TypeOK
<1>1. ASSUME queue' = queue,
             \A v \in Pages : /\ pc'[v] # "idle" =>
                                   req'[v].kind = req[v].kind /\ req'[v].patch = req[v].patch
                              /\ Pending(v)' => Pending(v)
                              /\ pc[v] # "idle" => pc'[v] # "idle"
      PROVE  EditsAccumulate'
  <2>1. \A i \in DOMAIN queue : pc'[queue[i]] # "idle"
    BY <1>1, <1>q DEF QueueOrdered
  <2>2. \A i \in DOMAIN queue : /\ req'[queue[i]].kind = req[queue[i]].kind
                                /\ req'[queue[i]].patch = req[queue[i]].patch
                                /\ Pending(queue[i])' => Pending(queue[i])
    BY <1>1, <1>q, <2>1
  <2>. QED  BY <1>1, <2>2 DEF EditsAccumulate
<1>2. CASE \/ \E a \in Accounts : Activate(a)
           \/ \E f \in Fields, v \in Values : EditInPlace(f, v)
           \/ PageLearns
           \/ UNCHANGED vars
  BY <1>1, <1>2 DEF Activate, EditInPlace, PageLearns, vars, Pending
<1>3. ASSUME NEW w \in Writers, LockCommands(w) \/ Save(w) PROVE EditsAccumulate'
  <2>1. /\ queue' = queue /\ req' = req
        /\ \A v \in Pages : /\ Pending(v)' => Pending(v)
                            /\ pc[v] # "idle" => pc'[v] # "idle"
    BY <1>3 DEF LockCommands, Save, SaveEffect, Pending, TypeOK
  <2>. QED  BY <1>1, <2>1
<1>4. ASSUME NEW w \in Writers, ReadAgain(w) PROVE EditsAccumulate'
  <2>1. /\ queue' = queue
        /\ req'[w].kind = req[w].kind /\ req'[w].patch = req[w].patch
        /\ \A v \in Writers : v # w => req'[v] = req[v]
        /\ \A v \in Pages : /\ Pending(v)' => Pending(v)
                            /\ pc[v] # "idle" => pc'[v] # "idle"
    BY <1>4, RequestShape DEF ReadAgain, Pending, TypeOK, Requests
  <2>. QED  BY <1>1, <2>1
<1>5. ASSUME NEW w \in Writers, NEW kind, NEW patch, NEW b, Enqueue(w, kind, patch, b),
             kind = "save" => DOMAIN unsaved \subseteq DOMAIN patch
      PROVE  EditsAccumulate'
  <2>1. w \in Pages /\ req'[w].kind = kind /\ req'[w].patch = patch
        /\ \A v \in Pages : v # w => pc'[v] = pc[v] /\ req'[v] = req[v]
    BY <1>5 DEF Enqueue, TypeOK
  <2>2. /\ DOMAIN queue \subseteq DOMAIN queue'
        /\ \A i \in DOMAIN queue : queue'[i] = queue[i] /\ queue[i] # w
        /\ \A j \in DOMAIN queue' : j \notin DOMAIN queue => queue'[j] = w /\ j = Len(queue) + 1
        /\ DOMAIN queue = 1 .. Len(queue) /\ Len(queue) \in Nat
    BY <1>5, EnqueueOrdered DEF TypeOK
  <2>3. ASSUME NEW i \in DOMAIN queue', NEW j \in DOMAIN queue', i < j,
               Pending(queue[i])', req'[queue'[i]].kind = "save", req'[queue'[j]].kind = "save"
        PROVE  DOMAIN req'[queue'[i]].patch \subseteq DOMAIN req'[queue'[j]].patch
    <3>1. i \in DOMAIN queue
      BY <2>2, <2>3
    <3>2. /\ queue'[i] = queue[i] /\ queue[i] \in Pages /\ queue[i] # w
          /\ req'[queue[i]] = req[queue[i]] /\ pc'[queue[i]] = pc[queue[i]]
      BY <2>1, <2>2, <3>1, <1>q
    <3>3. Pending(queue[i]) /\ req[queue[i]].kind = "save"
      BY <2>3, <3>2 DEF Pending
    <3>4. CASE j \in DOMAIN queue
      <4>1. queue'[j] = queue[j] /\ req'[queue[j]] = req[queue[j]]
        BY <2>1, <2>2, <3>4, <1>q
      <4>2. DOMAIN req[queue[i]].patch \subseteq DOMAIN req[queue[j]].patch
        BY <2>3, <3>1, <3>3, <3>4, <4>1 DEF EditsAccumulate
      <4>. QED  BY <3>2, <4>1, <4>2
    <3>5. CASE j \notin DOMAIN queue
      <4>1. queue'[j] = w /\ kind = "save"
        BY <2>1, <2>2, <2>3, <3>5
      <4>2. DOMAIN req[queue[i]].patch \subseteq DOMAIN unsaved
        BY <3>2, <3>3 DEF SnapshotsAreViews
      <4>. QED  BY <1>5, <2>1, <3>2, <4>1, <4>2
    <3>. QED  BY <3>4, <3>5
  <2>. QED  BY <2>3 DEF EditsAccumulate
<1>6. ASSUME NEW w \in Writers,
             \/ \E f \in Fields, v \in Values : PageAsks(w, f, v)
             \/ \E f \in Fields : PageAsksReset(w, f)
             \/ PageAsksResetAll(w)
      PROVE  EditsAccumulate'
  <2>1. CASE \E f \in Fields, v \in Values : PageAsks(w, f, v)
    <3>1. PICK f \in Fields, v \in Values : PageAsks(w, f, v)
      BY <2>1
    <3>2. Enqueue(w, "save", unsaved', shown') /\ unsaved' = With(unsaved, f, v)
      BY <3>1 DEF PageAsks
    <3>3. DOMAIN unsaved \subseteq DOMAIN unsaved'
      BY <3>2 DEF With
    <3>. QED  BY <1>5, <3>2, <3>3
  <2>2. CASE \E f \in Fields : PageAsksReset(w, f)
    BY <1>5, <2>2 DEF PageAsksReset
  <2>3. CASE PageAsksResetAll(w)
    BY <1>5, <2>3 DEF PageAsksResetAll
  <2>. QED  BY <1>6, <2>1, <2>2, <2>3
<1>7. ASSUME NEW w \in Writers,
             \/ \E f \in Fields, v \in Values : TrayReads(w, f, v)
             \/ TrayReadsSettingsRevision(w) \/ TrayReadsAccountRevision(w) \/ TrayEnds(w)
      PROVE  EditsAccumulate'
  <2>1. queue' = queue /\ \A v \in Pages : pc'[v] = pc[v] /\ req'[v] = req[v]
    BY <1>7 DEF TrayReads, TrayReadsSettingsRevision, TrayReadsAccountRevision, TrayEnds, TypeOK
  <2>. QED  BY <1>1, <2>1 DEF Pending
<1>8. ASSUME NEW w \in Writers, Refuse(w) PROVE EditsAccumulate'
  <2>1. CASE w \in Pages
    <3>1. DOMAIN queue' = {1}
      BY <1>8, <2>1 DEF Refuse
    <3>. QED  BY <3>1 DEF EditsAccumulate
  <2>2. CASE w \in Trays
    <3>1. queue' = queue /\ \A v \in Pages : pc'[v] = pc[v] /\ req'[v] = req[v]
      BY <1>8, <2>2 DEF Refuse, TypeOK
    <3>. QED  BY <1>1, <3>1 DEF Pending
  <2>. QED  BY <2>1, <2>2
<1>9. ASSUME NEW w \in Writers, Answered(w) \/ Reload(w) PROVE EditsAccumulate'
  <2>1. w \in Pages /\ pc[w] \notin {"idle", "queued"} /\ Complete(w)
    BY <1>9 DEF Answered, Reload, TrayKeepsToItsFields
  <2>2. /\ QueueOrdered'
        /\ Len(queue) \in Nat /\ DOMAIN queue = 1 .. Len(queue)
        /\ DOMAIN queue' = 1 .. (Len(queue) - 1)
        /\ \A i \in DOMAIN queue' : i + 1 \in DOMAIN queue /\ queue'[i] = queue[i + 1]
        /\ \A v \in Pages : pc'[v] # "idle" => v # w /\ pc[v] = "queued"
        /\ \A v \in Pages : pc'[v] # "idle" =>
             req'[v].kind = req[v].kind /\ req'[v].patch = req[v].patch
    BY <2>1, CompleteOrdered
  <2>3. ASSUME NEW i \in DOMAIN queue', NEW j \in DOMAIN queue', i < j,
               Pending(queue[i])', req'[queue'[i]].kind = "save", req'[queue'[j]].kind = "save"
        PROVE  DOMAIN req'[queue'[i]].patch \subseteq DOMAIN req'[queue'[j]].patch
    <3>1. /\ i + 1 \in DOMAIN queue /\ j + 1 \in DOMAIN queue /\ i + 1 < j + 1
          /\ queue'[i] = queue[i + 1] /\ queue'[j] = queue[j + 1]
          /\ queue[i + 1] \in Pages /\ queue[j + 1] \in Pages
      BY <2>2, <2>3, <1>q
    <3>2. pc'[queue[i + 1]] # "idle" /\ pc'[queue[j + 1]] # "idle"
      BY <2>2, <2>3, <3>1 DEF QueueOrdered
    <3>3. /\ req'[queue[i + 1]].kind = req[queue[i + 1]].kind
          /\ req'[queue[i + 1]].patch = req[queue[i + 1]].patch
          /\ req'[queue[j + 1]].kind = req[queue[j + 1]].kind
          /\ req'[queue[j + 1]].patch = req[queue[j + 1]].patch
          /\ pc[queue[i + 1]] = "queued"
      BY <2>2, <3>1, <3>2
    <3>4. Pending(queue[i + 1])
      BY <3>1, <3>3 DEF Pending
    <3>5. DOMAIN req[queue[i + 1]].patch \subseteq DOMAIN req[queue[j + 1]].patch
      BY <2>3, <3>1, <3>3, <3>4 DEF EditsAccumulate
    <3>. QED  BY <3>1, <3>3, <3>5
  <2>. QED  BY <2>3 DEF EditsAccumulate
<1>10. CASE Restart
  <2>1. DOMAIN queue' = {}
    BY <1>10 DEF Restart
  <2>. QED  BY <2>1 DEF EditsAccumulate
<1>. QED  BY <1>2, <1>3, <1>4, <1>6, <1>7, <1>8, <1>9, <1>10 DEF Next, WriterStep

LEMMA SnapshotsPreserved ==
  ASSUME TypeOK, TypeOK', QueueOrdered, QueueOrdered', TrayKeepsToItsFields, StampsAreTrue,
         SnapshotsAreViews, EditsAccumulate, ResetsAreExact, [Next]_vars
  PROVE  SnapshotsAreViews'
<1>1. ASSUME UNCHANGED <<shown, shownAt, unsaved>>,
             \A v \in Pages : Pending(v)' => /\ Pending(v) /\ req'[v].kind = req[v].kind
                                             /\ req'[v].patch = req[v].patch
                                             /\ req[v].kind = "save" => req'[v].base = req[v].base,
             changes' = changes + 1 \/ UNCHANGED <<settings, changes>>
      PROVE  SnapshotsAreViews'
  <2>1. shownAt' <= changes' /\ (shownAt' = changes' => UNCHANGED <<settings, changes>>)
    BY <1>1 DEF TypeOK, SnapshotsAreViews
  <2>2. shownAt' = changes' => shown' = Over(settings', unsaved')
    BY <1>1, <2>1 DEF SnapshotsAreViews
  <2>3. ASSUME NEW v \in Pages, Pending(v)', req'[v].kind = "save"
        PROVE  /\ DOMAIN req'[v].patch \subseteq DOMAIN unsaved'
               /\ \A f \in DOMAIN req'[v].patch : req'[v].base[f] = req'[v].patch[f]
               /\ shownAt' = changes' => req'[v].base = Over(settings', req'[v].patch)
    <3>1. /\ Pending(v) /\ req[v].kind = "save" /\ req'[v].patch = req[v].patch
          /\ req'[v].base = req[v].base
      BY <1>1, <2>3
    <3>. QED  BY <1>1, <2>1, <3>1 DEF SnapshotsAreViews
  <2>. QED  BY <1>1, <2>1, <2>2, <2>3 DEF SnapshotsAreViews
<1>2. CASE \/ \E a \in Accounts : Activate(a)
           \/ \E f \in Fields, v \in Values : EditInPlace(f, v)
           \/ UNCHANGED vars
  BY <1>1, <1>2 DEF Activate, EditInPlace, vars, Pending
<1>3. ASSUME NEW w \in Writers, LockCommands(w) PROVE SnapshotsAreViews'
  <2>1. \A v \in Pages : Pending(v)' => Pending(v)
    BY <1>3 DEF LockCommands, Pending, TypeOK
  <2>. QED  BY <1>1, <1>3, <2>1 DEF LockCommands
<1>4. ASSUME NEW w \in Writers, ReadAgain(w) PROVE SnapshotsAreViews'
  <2>1. /\ req'[w].kind = req[w].kind /\ req'[w].patch = req[w].patch
        /\ \A v \in Writers : v # w => req'[v] = req[v]
        /\ \A v \in Pages : Pending(v)' => Pending(v)
        /\ w \in Pages => req[w].kind = "part"
        /\ UNCHANGED <<shown, shownAt, unsaved, settings, changes>>
    BY <1>4, RequestShape DEF ReadAgain, Pending, TypeOK, Requests, ResetsAreExact
  <2>. QED  BY <1>1, <2>1
<1>5. ASSUME NEW w \in Writers, Save(w), ~ (w \in Pages /\ req[w].kind = "save")
      PROVE  SnapshotsAreViews'
  <2>1. /\ changes' = changes + 1 /\ UNCHANGED <<shown, shownAt, unsaved, req>>
        /\ \A v \in Pages : Pending(v)' => Pending(v)
    BY <1>5 DEF Save, SaveEffect, Pending, TypeOK
  <2>. QED  BY <1>1, <2>1
<1>6. ASSUME NEW w \in Pages, Save(w), req[w].kind = "save" PROVE SnapshotsAreViews'
  <2>1. /\ UNCHANGED <<changes, shown, shownAt, unsaved, req>>
        /\ \A v \in Pages : Pending(v)' => Pending(v) /\ v # w
        /\ pc[w] = "ready" /\ req[w].sent.rev = settingsRev
    BY <1>6 DEF Save, SaveEffect, Pending, TypeOK
  <2>2. Pending(w) /\ IsStamp(req[w].sent)
    BY <2>1 DEF Pending, StampsAreTrue
  <2>3. ASSUME shownAt = changes
        PROVE  /\ settings' = Over(settings, req[w].patch)
               /\ settings \in Settings /\ req[w].patch \in Patches
    <3>1. Aware(w)
      BY <2>1, <2>2, <2>3 DEF Aware, IsStamp
    <3>. QED  BY <3>1, <1>6, SaveExact, RequestShape DEF TypeOK
  <2>4. shownAt' = changes' => shown' = Over(settings', unsaved')
    <3>1. DOMAIN req[w].patch \subseteq DOMAIN unsaved /\ unsaved \in Patches
      BY <1>6, <2>2 DEF SnapshotsAreViews, TypeOK
    <3>2. shownAt = changes => Over(settings', unsaved) = Over(settings, unsaved)
      BY <2>3, <3>1, OverAgain
    <3>. QED  BY <2>1, <3>2 DEF SnapshotsAreViews
  <2>5. ASSUME NEW v \in Pages, Pending(v)', req'[v].kind = "save"
        PROVE  /\ DOMAIN req'[v].patch \subseteq DOMAIN unsaved'
               /\ \A f \in DOMAIN req'[v].patch : req'[v].base[f] = req'[v].patch[f]
               /\ shownAt' = changes' => req'[v].base = Over(settings', req'[v].patch)
    <3>1. Pending(v) /\ v # w /\ req[v].kind = "save" /\ req' = req
      BY <2>1, <2>5
    <3>2. DOMAIN req[w].patch \subseteq DOMAIN req[v].patch
      <4>1. queue # <<>> /\ queue[1] = w
        BY <2>1, SentIsFirst
      <4>2. PICK j \in DOMAIN queue : queue[j] = v
        BY <3>1 DEF QueueOrdered, Pending
      <4>3. 1 \in DOMAIN queue /\ 1 < j
        BY <4>1, <4>2, <3>1 DEF TypeOK
      <4>. QED  BY <1>6, <2>2, <3>1, <4>1, <4>2, <4>3 DEF EditsAccumulate
    <3>3. req[v].patch \in Patches
      BY RequestShape
    <3>4. shownAt = changes => Over(settings', req[v].patch) = Over(settings, req[v].patch)
      BY <2>3, <3>2, <3>3, OverAgain
    <3>. QED  BY <2>1, <3>1, <3>4 DEF SnapshotsAreViews
  <2>. QED  BY <2>1, <2>4, <2>5 DEF SnapshotsAreViews
<1>7. ASSUME NEW w \in Writers, NEW f \in Fields, NEW v \in Values, PageAsks(w, f, v)
      PROVE  SnapshotsAreViews'
  <2>1. /\ w \in Pages /\ UNCHANGED <<settings, changes, shownAt>>
        /\ shown' = [shown EXCEPT ![f] = v] /\ unsaved' = With(unsaved, f, v)
        /\ req'[w].patch = unsaved' /\ req'[w].base = shown'
        /\ \A u \in Pages : u # w => pc'[u] = pc[u] /\ req'[u] = req[u]
    BY <1>7 DEF PageAsks, Enqueue, TypeOK
  <2>2. shown \in Settings /\ unsaved \in Patches /\ settings \in Settings
    BY DEF TypeOK
  <2>w. /\ DOMAIN unsaved' = DOMAIN unsaved \union {f} /\ unsaved'[f] = v
        /\ \A g \in DOMAIN unsaved : g # f => unsaved'[g] = unsaved[g]
    BY <2>1, <2>2, WithShape
  <2>s. shown'[f] = v /\ \A g \in Fields : g # f => shown'[g] = shown[g]
    BY <2>1, <2>2, EditedSettings
  <2>3. \A g \in DOMAIN unsaved' : shown'[g] = unsaved'[g]
    <3>. SUFFICES ASSUME NEW g \in DOMAIN unsaved' PROVE shown'[g] = unsaved'[g]
      OBVIOUS
    <3>1. CASE g = f
      BY <2>w, <2>s, <3>1
    <3>2. CASE g # f
      <4>1. g \in DOMAIN unsaved /\ g \in Fields /\ shown[g] = unsaved[g]
        BY <2>w, <2>2, <3>2, PatchShape DEF SnapshotsAreViews
      <4>. QED  BY <2>w, <2>s, <3>2, <4>1
    <3>. QED  BY <3>1, <3>2
  <2>4. shownAt' = changes' => shown' = Over(settings', unsaved')
    BY <2>1, <2>2, OverWith DEF SnapshotsAreViews
  <2>5. ASSUME NEW u \in Pages, Pending(u)', req'[u].kind = "save"
        PROVE  /\ DOMAIN req'[u].patch \subseteq DOMAIN unsaved'
               /\ \A g \in DOMAIN req'[u].patch : req'[u].base[g] = req'[u].patch[g]
               /\ shownAt' = changes' => req'[u].base = Over(settings', req'[u].patch)
    <3>1. CASE u = w
      BY <2>1, <2>3, <2>4, <3>1
    <3>2. CASE u # w
      <4>1. Pending(u) /\ req'[u] = req[u]
        BY <2>1, <2>5, <3>2 DEF Pending
      <4>2. DOMAIN unsaved \subseteq DOMAIN unsaved'
        BY <2>w
      <4>. QED  BY <2>1, <2>5, <4>1, <4>2 DEF SnapshotsAreViews
    <3>. QED  BY <3>1, <3>2
  <2>. QED  BY <2>1, <2>3, <2>4, <2>5 DEF SnapshotsAreViews
<1>8. ASSUME NEW w \in Writers,
             \/ \E f \in Fields : PageAsksReset(w, f)
             \/ PageAsksResetAll(w)
      PROVE  SnapshotsAreViews'
  <2>1. /\ UNCHANGED <<settings, changes, shownAt, shown, unsaved>>
        /\ \E kind, patch, b : kind # "save" /\ Enqueue(w, kind, patch, b)
    BY <1>8 DEF PageAsksReset, PageAsksResetAll, Enqueue
  <2>2. PICK kind, patch, b : kind # "save" /\ Enqueue(w, kind, patch, b)
    BY <2>1
  <2>3. /\ req'[w].kind # "save"
        /\ \A u \in Pages : u # w => pc'[u] = pc[u] /\ req'[u] = req[u]
    BY <2>2 DEF Enqueue, TypeOK
  <2>. QED  BY <2>1, <2>3 DEF SnapshotsAreViews, Pending
<1>9. ASSUME NEW w \in Writers,
             \/ \E f \in Fields, v \in Values : TrayReads(w, f, v)
             \/ TrayReadsSettingsRevision(w) \/ TrayReadsAccountRevision(w) \/ TrayEnds(w)
      PROVE  SnapshotsAreViews'
  <2>1. /\ \A v \in Pages : pc'[v] = pc[v] /\ req'[v] = req[v]
        /\ UNCHANGED <<settings, changes, shownAt, shown, unsaved>>
    BY <1>9 DEF TrayReads, TrayReadsSettingsRevision, TrayReadsAccountRevision, TrayEnds, TypeOK
  <2>. QED  BY <1>1, <2>1 DEF Pending
<1>10. ASSUME NEW w \in Writers, Refuse(w) PROVE SnapshotsAreViews'
  <2>1. /\ \A v \in Pages : Pending(v)' => Pending(v) /\ req'[v] = req[v]
        /\ UNCHANGED <<settings, changes, shownAt, shown, unsaved>>
    BY <1>10 DEF Refuse, Pending, TypeOK
  <2>. QED  BY <1>1, <2>1
<1>11. ASSUME NEW w \in Writers, Answered(w) \/ Reload(w) PROVE SnapshotsAreViews'
  <2>1. w \in Pages /\ pc[w] \notin {"idle", "queued"} /\ Complete(w)
    BY <1>11 DEF Answered, Reload, TrayKeepsToItsFields
  <2>2. CASE queue' = <<>>
    <3>1. shown' = settings /\ shownAt' = changes /\ unsaved' = NoPatch
          /\ UNCHANGED <<settings, changes>>
      BY <2>1, <2>2 DEF Complete, Take
    <3>2. \A v \in Pages : ~ Pending(v)'
      BY <2>2 DEF QueueOrdered, Pending
    <3>3. Over(settings, NoPatch) = settings
      BY OverNothing DEF TypeOK
    <3>. QED  BY <3>1, <3>2, <3>3, ConstantShapes DEF SnapshotsAreViews, TypeOK
  <2>3. CASE queue' # <<>>
    <3>1. UNCHANGED <<settings, changes, shownAt, shown, unsaved>>
      BY <2>1, <2>3 DEF Complete
    <3>2. \A v \in Pages : Pending(v)' => /\ Pending(v) /\ req'[v].kind = req[v].kind
                                          /\ req'[v].patch = req[v].patch
                                          /\ req'[v].base = req[v].base
      BY <2>1, CompleteOrdered DEF Pending
    <3>. QED  BY <1>1, <3>1, <3>2
  <2>. QED  BY <2>2, <2>3
<1>12. CASE PageLearns
  <2>1. shown' = settings /\ shownAt' = changes /\ unsaved' = NoPatch
        /\ UNCHANGED <<settings, changes>> /\ queue' = <<>>
    BY <1>12 DEF PageLearns, Take
  <2>2. \A v \in Pages : ~ Pending(v)'
    BY <2>1 DEF QueueOrdered, Pending
  <2>3. Over(settings, NoPatch) = settings
    BY OverNothing DEF TypeOK
  <2>. QED  BY <2>1, <2>2, <2>3, ConstantShapes DEF SnapshotsAreViews, TypeOK
<1>13. CASE Restart
  <2>1. Over(disk, NoPatch) = disk
    BY OverNothing DEF TypeOK
  <2>. QED  BY <1>13, <2>1, ConstantShapes DEF Restart, SnapshotsAreViews, Pending
<1>. QED  BY <1>2, <1>3, <1>4, <1>5, <1>6, <1>7, <1>8, <1>9, <1>10, <1>11, <1>12, <1>13
          DEF Next, WriterStep
-----------------------------------------------------------------------------
(* Names.                                                                  *)
LEMMA QuietSteps ==
  ASSUME [Next]_vars,
         ~ \E a \in Accounts : Activate(a),
         ~ \E f \in Fields, v \in Values : EditInPlace(f, v),
         ~ \E w \in Writers : Save(w),
         ~ Restart
  PROVE  UNCHANGED <<storeVars, launches>>
<1>1. CASE \E w \in Writers :
             \/ \E f \in Fields, v \in Values : PageAsks(w, f, v) \/ TrayReads(w, f, v)
             \/ \E f \in Fields : PageAsksReset(w, f)
             \/ PageAsksResetAll(w)
             \/ TrayReadsSettingsRevision(w) \/ TrayReadsAccountRevision(w) \/ TrayEnds(w)
  BY <1>1 DEF PageAsks, PageAsksReset, PageAsksResetAll, Enqueue, TrayReads,
              TrayReadsSettingsRevision, TrayReadsAccountRevision, TrayEnds
<1>2. CASE \E w \in Writers :
             LockCommands(w) \/ ReadAgain(w) \/ Refuse(w) \/ Answered(w) \/ Reload(w)
  BY <1>2 DEF LockCommands, ReadAgain, Refuse, Answered, Reload, Complete
<1>3. CASE PageLearns \/ UNCHANGED vars
  BY <1>3 DEF PageLearns, vars
<1>. QED  BY <1>1, <1>2, <1>3 DEF Next, WriterStep

(* An activation, record by record.                                        *)
LEMMA ActivateShapes ==
  ASSUME TypeOK, NEW a \in Accounts, Activate(a)
  PROVE  /\ active' = a /\ settings'["name"] = AdoptedName(a)
         /\ records'[a].id = AccountRecord(a).id /\ records'[a].id # "none"
         /\ records'[a].name = AdoptedName(a)
         /\ \A b \in Accounts : b # a => records'[b] = KeptRecord(b) /\ records'[b].id = records[b].id
         /\ AccountRecord(a).name = IF a \in Known THEN records[a].name ELSE Default
<1>1. active' = a /\ settings'["name"] = AdoptedName(a)
  BY DEF Activate, TypeOK, Settings
<1>2. records'[a] = [id |-> AccountRecord(a).id, name |-> AdoptedName(a)]
  BY DEF Activate
<1>3. \A b \in Accounts : b # a => records'[b] = KeptRecord(b)
  BY DEF Activate
<1>4. \A b \in Accounts : KeptRecord(b).id = records[b].id
  BY DEF KeptRecord, Bare
<1>5. AccountRecord(a).id # "none"
  BY DEF AccountRecord, Known
<1>6. AccountRecord(a).name = IF a \in Known THEN records[a].name ELSE Default
  BY DEF AccountRecord
<1>. QED  BY <1>1, <1>2, <1>3, <1>4, <1>5, <1>6

(* A reset of everything leaves no name.                                   *)
LEMMA ResetAllNames ==
  ASSUME StoreInv, NEW w \in Writers, Save(w), req[w].kind = "all"
  PROVE  w \in Pages /\ settings'["name"] = Default
<1>1. w \in Pages
  BY DEF StoreInv, TrayKeepsToItsFields
<1>2. settings' = req[w].base
  BY <1>1, SaveExact DEF StoreInv
<1>3. req[w].base = Defaults
  BY <1>1 DEF Save, StoreInv, ResetsAreExact, Pending
<1>4. Defaults["name"] = Default
  BY ConstantShapes
<1>. QED  BY <1>1, <1>2, <1>3, <1>4

LEMMA NamePreserved ==
  ASSUME StoreInv, [Next]_vars
  PROVE  NameOfActive' /\ OnlyKnownRecorded'
<1>t. TypeOK /\ NameOfActive /\ OnlyKnownRecorded
  BY DEF StoreInv
<1>1. ASSUME NEW a \in Accounts, Activate(a) PROVE NameOfActive' /\ OnlyKnownRecorded'
  <2>1. NameOfActive'
    BY <1>t, <1>1, ActivateShapes DEF NameOfActive, Known
  <2>2. ASSUME NEW b \in Accounts, records'[b].id = "none" PROVE records'[b] = NoRecord
    <3>1. b # a /\ records'[b] = KeptRecord(b) /\ records[b].id = "none"
      BY <1>t, <1>1, <2>2, ActivateShapes
    <3>2. KeptRecord(b) = records[b]
      BY <3>1 DEF KeptRecord, Bare
    <3>. QED  BY <1>t, <3>1, <3>2 DEF OnlyKnownRecorded, Known
  <2>. QED  BY <2>1, <2>2 DEF OnlyKnownRecorded, Known
<1>2. ASSUME NEW f \in Fields, NEW v \in Values, EditInPlace(f, v)
      PROVE  NameOfActive' /\ OnlyKnownRecorded'
  <2>1. settings'["name"] = settings["name"] /\ UNCHANGED <<records, active>>
    BY <1>t, <1>2, EditedSettings DEF EditInPlace, TypeOK
  <2>. QED  BY <1>t, <2>1 DEF NameOfActive, OnlyKnownRecorded, Known
<1>3. ASSUME NEW w \in Writers, Save(w) PROVE NameOfActive' /\ OnlyKnownRecorded'
  <2>1. SaveEffect(w) /\ active' = active
    BY <1>3 DEF Save, SaveEffect
  <2>2. \A a \in Accounts :
          /\ records'[a].id = records[a].id
          /\ req[w].kind = "all" => records'[a].name = Default
          /\ req[w].kind # "all" /\ a = active => records'[a].name = settings'["name"]
          /\ req[w].kind # "all" /\ a # active => records'[a] = records[a]
    BY <1>t, <2>1, SaveShapes
  <2>3. req[w].kind = "all" => settings'["name"] = Default
    BY <1>3, ResetAllNames
  <2>4. NameOfActive'
    <3>1. ASSUME active' # NoAccount
          PROVE  active' \in Known' /\ records'[active'].name = settings'["name"]
      <4>1. active' = active /\ active \in Accounts /\ active \in Known
        BY <1>t, <2>1, <3>1 DEF NameOfActive, TypeOK
      <4>. QED  BY <4>1, <2>2, <2>3 DEF Known
    <3>. QED  BY <3>1 DEF NameOfActive
  <2>5. ASSUME NEW a \in Accounts, records'[a].id = "none" PROVE records'[a] = NoRecord
    <3>1. records[a] = NoRecord /\ a # active
      BY <1>t, <2>2, <2>5 DEF OnlyKnownRecorded, Known, NameOfActive
    <3>2. records'[a] = IF req[w].kind = "all" THEN [records[a] EXCEPT !.name = Default]
                        ELSE records[a]
      BY <2>1, <3>1 DEF SaveEffect
    <3>. QED  BY <3>1, <3>2 DEF NoRecord
  <2>. QED  BY <2>4, <2>5 DEF OnlyKnownRecorded, Known
<1>4. CASE Restart
  BY <1>t, <1>4 DEF Restart, NameOfActive, OnlyKnownRecorded, Known
<1>5. CASE UNCHANGED <<storeVars, launches>>
  BY <1>t, <1>5 DEF NameOfActive, OnlyKnownRecorded, Known
<1>. QED  BY <1>1, <1>2, <1>3, <1>4, <1>5, QuietSteps

LEMMA DurablePreserved ==
  ASSUME Durable, launches >= 1, TypeOK, [Next]_vars
  PROVE  Durable' /\ launches' >= 1
<1>1. CASE \/ \E a \in Accounts : Activate(a)
           \/ \E f \in Fields, v \in Values : EditInPlace(f, v)
           \/ Restart
  BY <1>1 DEF Activate, EditInPlace, Restart, Durable, TypeOK
<1>2. CASE \E w \in Writers : Save(w)
  BY <1>2 DEF Save, SaveEffect, Durable
<1>3. CASE UNCHANGED <<storeVars, launches>>
  BY <1>3 DEF Durable
<1>. QED  BY <1>1, <1>2, <1>3, QuietSteps

(* What a writer sends before an account is active has no name.            *)
LEMMA NamelessPreserved ==
  ASSUME StoreInv, [Next]_vars
  PROVE  NamelessAtFirst'
<1>. SUFFICES ASSUME active' = NoAccount, launches' = 1
              PROVE  /\ Known' = {}
                     /\ settings'["name"] = Default /\ shown'["name"] = Default
                     /\ \A u \in Writers : req'[u].base["name"] = Default
  BY DEF NamelessAtFirst
<1>t. TypeOK /\ settings \in Settings /\ shown \in Settings
  BY DEF StoreInv, TypeOK
<1>d. NoRequest.base["name"] = Default /\ Defaults["name"] = Default
  BY ConstantShapes DEF NoRequest
<1>n. ~ Restart /\ ~ \E a \in Accounts : Activate(a)
  BY DEF Restart, Activate, StoreInv, TypeOK
<1>a. active = NoAccount /\ launches = 1
  <2>1. CASE \E f \in Fields, v \in Values : EditInPlace(f, v)
    BY <2>1 DEF EditInPlace
  <2>2. CASE \E w \in Writers : Save(w)
    BY <2>2 DEF Save, SaveEffect
  <2>3. CASE UNCHANGED <<storeVars, launches>>
    BY <2>3
  <2>. QED  BY <1>n, <2>1, <2>2, <2>3, QuietSteps
<1>k. /\ Known = {} /\ settings["name"] = Default /\ shown["name"] = Default
      /\ \A u \in Writers : req[u].base["name"] = Default
  BY <1>a DEF StoreInv, NamelessAtFirst
<1>1. ASSUME NEW f \in Fields, NEW v \in Values, EditInPlace(f, v)
      PROVE  /\ Known' = {}
             /\ settings'["name"] = Default /\ shown'["name"] = Default
             /\ \A u \in Writers : req'[u].base["name"] = Default
  BY <1>t, <1>k, <1>1, EditedSettings DEF EditInPlace, Known
<1>2. ASSUME NEW w \in Writers, Save(w)
      PROVE  /\ Known' = {}
             /\ settings'["name"] = Default /\ shown'["name"] = Default
             /\ \A u \in Writers : req'[u].base["name"] = Default
  <2>1. settings' = req[w].base /\ UNCHANGED <<shown, req>>
    BY <1>a, <1>2 DEF Save, SaveEffect, Accepted
  <2>2. \A a \in Accounts : records'[a].id = records[a].id
    BY <1>t, <1>2, SaveShapes DEF Save
  <2>. QED  BY <1>k, <2>1, <2>2 DEF Known
<1>3. ASSUME ~ \E f \in Fields, v \in Values : EditInPlace(f, v),
             ~ \E w \in Writers : Save(w)
      PROVE  Known' = {} /\ settings'["name"] = Default
  BY <1>3, <1>n, <1>k, QuietSteps DEF Known
<1>4. ASSUME NEW w \in Writers, NEW f \in Fields, NEW v \in Values, PageAsks(w, f, v)
      PROVE  shown'["name"] = Default /\ \A u \in Writers : req'[u].base["name"] = Default
  <2>1. f # "name"
    BY <1>k, <1>4 DEF PageAsks, Renamable
  <2>2. shown'["name"] = Default
    BY <1>t, <1>k, <1>4, <2>1, EditedSettings DEF PageAsks
  <2>3. Enqueue(w, "save", unsaved', shown')
    BY <1>4 DEF PageAsks
  <2>4. \A u \in Writers : req'[u].base = IF u = w THEN shown' ELSE req[u].base
    BY <1>t, <2>3 DEF Enqueue, TypeOK
  <2>. QED  BY <1>k, <2>2, <2>4
<1>5. ASSUME NEW w \in Writers,
             \/ \E f \in Fields : PageAsksReset(w, f)
             \/ PageAsksResetAll(w)
      PROVE  shown'["name"] = Default /\ \A u \in Writers : req'[u].base["name"] = Default
  <2>1. shown' = shown /\ \E kind, patch : Enqueue(w, kind, patch, Defaults)
    BY <1>5 DEF PageAsksReset, PageAsksResetAll
  <2>2. PICK kind, patch : Enqueue(w, kind, patch, Defaults)
    BY <2>1
  <2>3. \A u \in Writers : req'[u].base = IF u = w THEN Defaults ELSE req[u].base
    BY <1>t, <2>2 DEF Enqueue, TypeOK
  <2>. QED  BY <1>k, <1>d, <2>1, <2>3
<1>6. ASSUME NEW w \in Writers, NEW f \in Fields, NEW v \in Values, TrayReads(w, f, v)
      PROVE  shown'["name"] = Default /\ \A u \in Writers : req'[u].base["name"] = Default
  <2>1. \A u \in Writers : req'[u].base = IF u = w THEN [settings EXCEPT ![f] = v]
                                          ELSE req[u].base
    BY <1>t, <1>6 DEF TrayReads, TypeOK
  <2>2. [settings EXCEPT ![f] = v]["name"] = Default /\ shown' = shown
    BY <1>t, <1>k, <1>6, EditedSettings DEF TrayReads
  <2>. QED  BY <1>k, <2>1, <2>2
<1>7. ASSUME NEW w \in Writers,
             \/ TrayReadsSettingsRevision(w) \/ TrayReadsAccountRevision(w) \/ TrayEnds(w)
             \/ LockCommands(w) \/ Refuse(w)
      PROVE  shown'["name"] = Default /\ \A u \in Writers : req'[u].base["name"] = Default
  <2>1. shown' = shown
    BY <1>7 DEF TrayReadsSettingsRevision, TrayReadsAccountRevision, TrayEnds, LockCommands, Refuse
  <2>2. \A u \in Writers : req'[u].base \in {req[u].base, NoRequest.base}
    BY <1>7, <1>t, RequestShape
    DEF TrayReadsSettingsRevision, TrayReadsAccountRevision, TrayEnds, LockCommands, Refuse, TypeOK,
        Requests
  <2>. QED  BY <1>k, <1>d, <2>1, <2>2
<1>8. ASSUME NEW w \in Writers, ReadAgain(w)
      PROVE  shown'["name"] = Default /\ \A u \in Writers : req'[u].base["name"] = Default
  <2>1. w \in Pages /\ req[w].patch \in Patches
    BY <1>8, <1>t, RequestShape DEF ReadAgain, StoreInv, TrayKeepsToItsFields
  <2>2. "name" \notin DOMAIN req[w].patch
    BY <1>8, <2>1 DEF ReadAgain, StoreInv, ResetsAreExact, Pending
  <2>3. Over(settings, req[w].patch)["name"] = Default
    BY <1>k, <2>2 DEF Over
  <2>4. \A u \in Writers : req'[u].base = IF u = w THEN Over(settings, req[w].patch)
                                          ELSE req[u].base
    BY <1>8, <1>t, RequestShape DEF ReadAgain, TypeOK, Requests
  <2>. QED  BY <1>8, <1>k, <2>3, <2>4 DEF ReadAgain
<1>9. ASSUME NEW w \in Writers, Answered(w) \/ Reload(w)
      PROVE  shown'["name"] = Default /\ \A u \in Writers : req'[u].base["name"] = Default
  <2>1. Complete(w)
    BY <1>9 DEF Answered, Reload
  <2>2. shown'["name"] = Default
    BY <2>1, <1>k DEF Complete, Take
  <2>3. \A u \in Writers : req'[u].base \in {req[u].base, NoRequest.base}
    BY <2>1, <1>t, RequestShape DEF Complete, Requests
  <2>. QED  BY <1>k, <1>d, <2>2, <2>3
<1>10. CASE PageLearns \/ UNCHANGED vars
  BY <1>10, <1>k DEF PageLearns, Take, vars, Known
<1>. QED  BY <1>n, <1>1, <1>2, <1>3, <1>4, <1>5, <1>6, <1>7, <1>8, <1>9, <1>10
          DEF Next, WriterStep
(* Activation and saving keep every record at the name last given.         *)
LEMMA GivenPreserved ==
  ASSUME StoreInv, faithful', [Next]_vars
  PROVE  GivenNamesRecorded'
<1>t. TypeOK /\ NameOfActive /\ faithful \in BOOLEAN
  BY DEF StoreInv, TypeOK
<1>f. faithful
  <2>1. CASE \E a \in Accounts : Activate(a)
    BY <2>1 DEF Activate
  <2>2. CASE \E f \in Fields, v \in Values : EditInPlace(f, v)
    BY <2>2 DEF EditInPlace
  <2>3. CASE \E w \in Writers : Save(w)
    BY <2>3 DEF Save, SaveEffect
  <2>4. CASE Restart
    BY <2>4 DEF Restart
  <2>5. CASE UNCHANGED <<storeVars, launches>>
    BY <2>5
  <2>. QED  BY <2>1, <2>2, <2>3, <2>4, <2>5, QuietSteps
<1>g. \A a \in Accounts : launches = 1 \/ given[a] # Default => records[a].name = given[a]
  BY <1>f DEF StoreInv, GivenNamesRecorded
<1>1. ASSUME NEW a \in Accounts, Activate(a) PROVE GivenNamesRecorded'
  <2>1. given' = given /\ launches' = launches
    BY <1>1 DEF Activate
  <2>2. ASSUME active = NoAccount, launches = 1 PROVE settings["name"] = Default
    BY <2>2 DEF StoreInv, NamelessAtFirst
  <2>3. ASSUME NEW b \in Accounts, launches = 1 \/ given[b] # Default
        PROVE  records'[b].name = given[b]
    <3>1. records[b].name = given[b]
      BY <1>g, <2>3
    <3>2. CASE b = a
      <4>1. records'[a].name = AdoptedName(a)
            /\ AccountRecord(a).name = IF a \in Known THEN records[a].name ELSE Default
        BY <1>t, <1>1, ActivateShapes
      <4>2. a \notin Known => records[a].name = Default
        BY DEF StoreInv, OnlyKnownRecorded, NoRecord
      <4>3. AccountRecord(a).name = given[a]
        BY <3>1, <3>2, <4>1, <4>2
      <4>4. AdoptedName(a) = given[a]
        BY <2>2, <2>3, <3>2, <4>3 DEF AdoptedName
      <4>. QED  BY <3>2, <4>1, <4>4
    <3>3. CASE b # a
      <4>1. records'[b] = KeptRecord(b)
        BY <1>t, <1>1, <3>3, ActivateShapes
      <4>2. KeptRecord(b).name = given[b]
        BY <2>2, <2>3, <3>1 DEF KeptRecord
      <4>. QED  BY <4>1, <4>2
    <3>. QED  BY <3>2, <3>3
  <2>. QED  BY <2>1, <2>3 DEF GivenNamesRecorded
<1>2. ASSUME NEW w \in Writers, Save(w) PROVE GivenNamesRecorded'
  <2>1. /\ SaveEffect(w) /\ launches' = launches
        /\ Aware(w) \/ settings'["name"] = settings["name"]
    BY <1>2 DEF Save, SaveEffect
  <2>2. \A a \in Accounts :
          /\ req[w].kind = "all" => records'[a].name = Default
          /\ req[w].kind # "all" /\ a = active => records'[a].name = settings'["name"]
          /\ req[w].kind # "all" /\ a # active => records'[a] = records[a]
    BY <1>t, <2>1, SaveShapes
  <2>3. \A a \in Accounts :
          given'[a] = IF req[w].kind = "all" THEN Default
                      ELSE IF a = active /\ "name" \in DOMAIN req[w].patch
                           THEN req[w].patch["name"]
                      ELSE given[a]
    BY <2>1 DEF SaveEffect
  <2>4. CASE req[w].kind = "all"
    BY <2>2, <2>3, <2>4 DEF GivenNamesRecorded
  <2>5. ASSUME req[w].kind # "all", "name" \in DOMAIN req[w].patch
        PROVE  settings'["name"] = req[w].patch["name"]
    <3>1. w \in Pages
      BY <2>5 DEF StoreInv, TrayKeepsToItsFields
    <3>2. Pending(w)
      BY <1>2, <3>1 DEF Save, Pending
    <3>3. req[w].kind = "save"
      BY <2>5, <3>1, <3>2, <1>t, RequestShape DEF StoreInv, ResetsAreExact
    <3>4. settings' = req[w].base
      BY <1>2, <3>1, SaveExact DEF StoreInv
    <3>. QED  BY <2>5, <3>1, <3>2, <3>3, <3>4 DEF StoreInv, SnapshotsAreViews
  <2>6. ASSUME "name" \notin DOMAIN req[w].patch
        PROVE  settings'["name"] = settings["name"]
    <3>1. CASE Aware(w)
      <4>1. settings' = Over(settings, req[w].patch)
        BY <1>2, <3>1, SaveExact DEF StoreInv, Aware
      <4>. QED  BY <2>6, <4>1 DEF Over
    <3>. QED  BY <2>1, <3>1
  <2>7. ASSUME req[w].kind # "all", NEW a \in Accounts, launches = 1 \/ given'[a] # Default
        PROVE  records'[a].name = given'[a]
    <3>1. CASE a = active /\ "name" \in DOMAIN req[w].patch
      BY <2>2, <2>3, <2>5, <2>7, <3>1
    <3>2. CASE a = active /\ "name" \notin DOMAIN req[w].patch
      <4>1. records'[a].name = settings["name"] /\ given'[a] = given[a]
        BY <2>2, <2>3, <2>6, <2>7, <3>2
      <4>2. records[a].name = settings["name"]
        BY <1>t, <3>2 DEF NameOfActive
      <4>. QED  BY <1>g, <2>7, <4>1, <4>2
    <3>3. CASE a # active
      BY <1>g, <2>2, <2>3, <2>7, <3>3
    <3>. QED  BY <3>1, <3>2, <3>3
  <2>. QED  BY <2>1, <2>4, <2>7 DEF GivenNamesRecorded
<1>3. CASE Restart
  BY <1>3, <1>g DEF Restart, GivenNamesRecorded, StoreInv, TypeOK
<1>4. CASE \E f \in Fields, v \in Values : EditInPlace(f, v)
  BY <1>4, <1>g DEF EditInPlace, GivenNamesRecorded
<1>5. CASE UNCHANGED <<storeVars, launches>>
  BY <1>5, <1>g DEF GivenNamesRecorded
<1>. QED  BY <1>1, <1>2, <1>3, <1>4, <1>5, QuietSteps

-----------------------------------------------------------------------------
(* The theorems.                                                           *)

LEMMA StorePreserved == StoreInv /\ [Next]_vars => StoreInv'
<1>. SUFFICES ASSUME StoreInv, [Next]_vars PROVE StoreInv'
  OBVIOUS
<1>1. TypeOK' /\ QueueOrdered' /\ TrayKeepsToItsFields'
  BY TypePreserved, QueuePreserved, TrayPreserved DEF StoreInv
<1>2. StampsAreTrue' /\ ResetsAreExact' /\ EditsAccumulate'
  BY <1>1, StampsPreserved, ResetsPreserved, EditsPreserved DEF StoreInv
<1>3. SnapshotsAreViews'
  BY <1>1, SnapshotsPreserved DEF StoreInv
<1>4. NameOfActive' /\ OnlyKnownRecorded' /\ NamelessAtFirst'
  BY NamePreserved, NamelessPreserved
<1>5. Durable' /\ launches' >= 1
  BY DurablePreserved DEF StoreInv
<1>6. faithful' => GivenNamesRecorded'
  BY GivenPreserved
<1>. QED  BY <1>1, <1>2, <1>3, <1>4, <1>5, <1>6 DEF StoreInv

(* The types, the queue and the stamps of the page are right, snapshots    *)
(* that lack no change are the settings with the user's edits, memory      *)
(* never holds what a crash would lose, the shown name is the recorded     *)
(* one, and records hold the names last given.                             *)
THEOREM StoreInvariant == Spec => []StoreInv
<1>. QED  BY InitEstablishes, StorePreserved, PTL DEF Spec

(* The name on the card is the one recorded for the account shown          *)
(* (activate_account and active_account_name_updates).                     *)
THEOREM ShownNameIsRecorded == Spec => []NameOfActive
<1>1. StoreInv => NameOfActive
  BY DEF StoreInv
<1>. QED  BY <1>1, StoreInvariant, PTL

(* Settings in memory are on disk (update_internal saves before it changes *)
(* memory).                                                                *)
THEOREM SettingsAreDurable == Spec => []Durable
<1>1. StoreInv => Durable
  BY DEF StoreInv
<1>. QED  BY <1>1, StoreInvariant, PTL

(* A save of the page that is accepted under a view telling of nothing its *)
(* snapshot lacks applies the edits made since the page last took the      *)
(* settings, to the settings of that moment, and nothing else: edits are   *)
(* lost only by a snapshot that waited in the queue during a change        *)
(* (update_internal, #enqueueMutation).                                    *)
THEOREM AwareSavesLoseNothing == Spec => PageSavesApplyTheirEdits
<1>1. StoreInv /\ [Next]_vars =>
        [\A w \in Pages : Stored(w) /\ Aware(w) => settings' = Over(settings, req[w].patch)]_vars
  <2>. SUFFICES ASSUME StoreInv, [Next]_vars, NEW w \in Pages, Stored(w), Aware(w)
                PROVE  settings' = Over(settings, req[w].patch)
    OBVIOUS
  <2>1. \E v \in Writers : Save(v) /\ v = w
    <3>1. CASE \E v \in Writers : Save(v)
      <4>1. PICK v \in Writers : Save(v)
        BY <3>1
      <4>2. v = w
        BY <4>1 DEF Save, SaveEffect, Stored, StoreInv, TypeOK
      <4>. QED  BY <4>1, <4>2
    <3>2. CASE \E v \in Writers :
                 \/ \E f \in Fields, x \in Values : PageAsks(v, f, x)
                 \/ \E f \in Fields : PageAsksReset(v, f)
                 \/ PageAsksResetAll(v)
      <4>1. \E v \in Writers : \E kind, patch, b : Enqueue(v, kind, patch, b)
        BY <3>2 DEF PageAsks, PageAsksReset, PageAsksResetAll
      <4>2. PICK v \in Writers : \E kind, patch, b : Enqueue(v, kind, patch, b)
        BY <4>1
      <4>. QED  BY <4>2 DEF Enqueue, Stored, StoreInv, TypeOK
    <3>3. CASE \E v \in Writers :
                 \/ \E f \in Fields, x \in Values : TrayReads(v, f, x)
                 \/ TrayReadsSettingsRevision(v) \/ TrayReadsAccountRevision(v) \/ TrayEnds(v)
      BY <3>3
      DEF TrayReads, TrayReadsSettingsRevision, TrayReadsAccountRevision, TrayEnds, Stored,
          StoreInv, TypeOK
    <3>4. CASE \E v \in Writers : LockCommands(v) \/ ReadAgain(v) \/ Refuse(v)
      BY <3>4 DEF LockCommands, ReadAgain, Refuse, Stored, StoreInv, TypeOK
    <3>5. CASE \E v \in Writers : Answered(v) \/ Reload(v)
      BY <3>5 DEF Answered, Reload, Complete, Stored, StoreInv, TypeOK
    <3>6. CASE \/ \E a \in Accounts : Activate(a)
               \/ \E f \in Fields, x \in Values : EditInPlace(f, x)
               \/ PageLearns \/ Restart \/ UNCHANGED vars
      BY <3>6 DEF Activate, EditInPlace, PageLearns, Restart, vars, Stored
    <3>. QED  BY <3>1, <3>2, <3>3, <3>4, <3>5, <3>6 DEF Next, WriterStep
  <2>. QED  BY <2>1, SaveExact DEF StoreInv
<1>. QED  BY <1>1, StoreInvariant, PTL DEF Spec, PageSavesApplyTheirEdits

(* The name shown for the active account is the one last given to it, also *)
(* after restarts, as long as no snapshot with an outdated name is stored  *)
(* by the tray, or by the page under a view that tells of changes the      *)
(* snapshot lacks (activate_account, update_internal).                     *)
THEOREM NamesFollow == Spec => []NamesFollowAccounts
<1>1. StoreInv => NamesFollowAccounts
  BY DEF StoreInv, NamesFollowAccounts, NameOfActive, GivenNamesRecorded, TypeOK
<1>. QED  BY <1>1, StoreInvariant, PTL
=============================================================================
