---------------------------- MODULE Launch_proofs ----------------------------
(***************************************************************************)
(* Proofs about what the process makes of what it finds: detected          *)
(* credentials, for every set of providers and plans, and the logs of      *)
(* clients, for any number of sessions, forks, scans and lines.            *)
(*                                                                         *)
(* Detection: while one runs, its plan's revisions are the current ones    *)
(* exactly as long as nobody has begun to change credentials (respectively,*)
(* only if the user has switched nothing).  Every action that changes what *)
(* a revision guards raises it in the same step.                           *)
(*                                                                         *)
(* Copies of a message: the places of what is kept are known by key and by *)
(* message, what a side chain alone tells is kept once, and every event    *)
(* that was read has one that speaks for it (KeptRight).                   *)
(*                                                                         *)
(* Logs that are written while they are read: the events that all files    *)
(* say are as many as the tokens spent; a fork whose gate is closed says   *)
(* nothing of its own, and knows the totals it goes on from; a row of the  *)
(* size of its file holds what the file says; and in a quiet scan whatever *)
(* a session says has been found or is to be found (LogInv).               *)
(***************************************************************************)
EXTENDS MCLaunch, SequenceTheorems, FiniteSetTheorems, WellFoundedInduction, TLAPS

-----------------------------------------------------------------------------
(* The detection of credentials                                            *)

USE DetectionAssumption
USE DEF shownVars, planVars, historyVars

(* The revision of the enabled set only grows.                             *)
LEMMA BumpGrows ==
  ASSUME enRev \in Nat, Bump(enabled)
  PROVE  enRev' \in Nat /\ enRev' >= enRev /\ (enabled' # enabled => enRev' > enRev)
  BY DEF Bump

LEMMA InitEstablishes == Init => DetectionInv
<1>. SUFFICES ASSUME Init PROVE DetectionInv
  OBVIOUS
<1>1. PICK replace \in BOOLEAN, auto \in SUBSET Providers : Launch(replace, auto)
  BY DEF Init
<1>2. EmptyPlan \in PlanRecords
  BY DEF EmptyPlan, PlanRecords
<1>3. [EmptyPlan EXCEPT !.replace = replace, !.auto = auto] \in PlanRecords
  BY DEF EmptyPlan, PlanRecords
<1>4. plan \in [Plans -> PlanRecords]
  BY <1>1, <1>2, <1>3 DEF Launch
<1>5. \A d \in Plans : plan[d].credRev = 0 /\ plan[d].enRev = 0
  BY <1>1 DEF Launch, EmptyPlan
<1>6. enabled \subseteq Providers /\ detected \subseteq Providers
  BY <1>1 DEF Launch
<1>7. TypeOK
  <2>1. present \subseteq Providers
    BY DEF Init
  <2>2. results \in [Plans -> [Providers -> Statuses]]
    BY DEF Init, Pending, Statuses
  <2>. QED  BY <1>4, <1>6, <2>1, <2>2 DEF Init, TypeOK
<1>8. PlansAreTaken
  BY DEF Init, PlansAreTaken
<1>9. RevisionsTellChanges
  BY <1>5 DEF Init, RevisionsTellChanges
<1>. QED  BY <1>7, <1>8, <1>9 DEF DetectionInv

-----------------------------------------------------------------------------
(* Steps that leave the detections and both revisions alone, except that   *)
(* something may have happened to a provider meanwhile.                    *)
LEMMA NotesShape ==
  ASSUME NEW history \in [Plans -> SUBSET Providers], NEW p \in Providers, TypeOK
  PROVE  /\ Note(history, p) \in [Plans -> SUBSET Providers]
         /\ \A d \in Plans :
              Note(history, p)[d] = IF stage[d] = "probing" THEN history[d] \union {p}
                                    ELSE history[d]
  BY DEF Note, TypeOK

LEMMA SwitchKeeps ==
  ASSUME DetectionInv, NEW p \in Providers, Switch(p)
  PROVE  DetectionInv'
<1>. USE DEF DetectionInv
<1>1. enRev' \in Nat /\ enRev' > enRev /\ enabled' \subseteq Providers
  BY BumpGrows DEF Switch, TypeOK
<1>2. /\ chosen' \in [Plans -> SUBSET Providers]
      /\ \A d \in Plans : stage[d] # "probing" => chosen'[d] = chosen[d]
  <2>1. chosen \in [Plans -> SUBSET Providers]
    BY DEF TypeOK
  <2>2. chosen' = Note(chosen, p)
    BY DEF Switch
  <2>. QED  BY <2>1, <2>2, NotesShape
<1>3. TypeOK'
  BY <1>1, <1>2 DEF Switch, TypeOK
<1>4. PlansAreTaken'
  BY <1>2 DEF Switch, PlansAreTaken
<1>5. RevisionsTellChanges'
  <2>. SUFFICES ASSUME NEW d \in Plans, stage[d] = "probing"
                PROVE  /\ plan[d].credRev <= credRev /\ plan[d].enRev <= enRev'
                       /\ plan[d].credRev < credRev <=> begun[d] # {} \/ d \in overtaken
                       /\ plan[d].enRev < enRev'
    BY DEF Switch, RevisionsTellChanges
  <2>1. plan[d].enRev \in Nat /\ enRev \in Nat
    BY DEF TypeOK, PlanRecords
  <2>. QED  BY <1>1, <2>1 DEF RevisionsTellChanges
<1>. QED  BY <1>3, <1>4, <1>5

LEMMA ResetKeeps ==
  ASSUME DetectionInv, NEW d \in Plans, Reset(d)
  PROVE  DetectionInv'
<1>. USE DEF DetectionInv
<1>1. enRev' \in Nat /\ enRev' >= enRev
  BY BumpGrows DEF Reset, TypeOK
<1>2. enabled' \subseteq Providers
  BY DEF Reset, TypeOK, Defaults
<1>3. TypeOK'
  BY <1>1, <1>2 DEF Reset, TypeOK
<1>4. PlansAreTaken'
  BY DEF Reset, PlansAreTaken, TypeOK
<1>5. RevisionsTellChanges'
  <2>. SUFFICES ASSUME NEW e \in Plans, stage'[e] = "probing"
                PROVE  /\ plan[e].credRev <= credRev /\ plan[e].enRev <= enRev'
                       /\ plan[e].credRev < credRev <=> begun[e] # {} \/ e \in overtaken
                       /\ chosen[e] # {} => plan[e].enRev < enRev'
    BY DEF Reset, RevisionsTellChanges
  <2>1. stage[e] = "probing" /\ plan[e].enRev \in Nat /\ enRev \in Nat
    BY DEF TypeOK, PlanRecords, Reset
  <2>. QED  BY <1>1, <2>1 DEF RevisionsTellChanges
<1>. QED  BY <1>3, <1>4, <1>5

LEMMA TakePlanKeeps ==
  ASSUME DetectionInv, NEW d \in Plans, TakePlan(d)
  PROVE  DetectionInv'
<1>. USE DEF DetectionInv
<1>. DEFINE new == [replace |-> TRUE, auto |-> {}, enRev |-> enRev, credRev |-> credRev]
<1>1. new \in PlanRecords
  BY DEF TypeOK, PlanRecords
<1>2. TypeOK'
  <2>1. plan' \in [Plans -> PlanRecords]
    BY <1>1 DEF TypeOK, TakePlan
  <2>. QED  BY <2>1 DEF TypeOK, TakePlan
<1>3. stage[d] = "resetting" /\ begun[d] = {} /\ chosen[d] = {} /\ d \notin overtaken
  BY DEF TakePlan, PlansAreTaken, TypeOK
<1>4. PlansAreTaken'
  BY <1>3 DEF TakePlan, PlansAreTaken, TypeOK
<1>5. RevisionsTellChanges'
  <2>. SUFFICES ASSUME NEW e \in Plans, stage'[e] = "probing"
                PROVE  /\ plan'[e].credRev <= credRev /\ plan'[e].enRev <= enRev
                       /\ plan'[e].credRev < credRev <=> begun[e] # {} \/ e \in overtaken
                       /\ chosen[e] # {} => plan'[e].enRev < enRev
    BY DEF TakePlan, RevisionsTellChanges
  <2>1. CASE e = d
    BY <1>3, <2>1 DEF TakePlan, TypeOK
  <2>2. CASE e # d
    BY <2>2 DEF TakePlan, RevisionsTellChanges, TypeOK
  <2>. QED  BY <2>1, <2>2
<1>. QED  BY <1>2, <1>4, <1>5

LEMMA ProbeKeeps ==
  ASSUME DetectionInv, NEW d \in Plans, NEW p \in Providers, Probe(d, p) \/ ProbeFails(d, p)
  PROVE  DetectionInv'
<1>. USE DEF DetectionInv
<1>1. PICK status \in Statuses :
        results' = [results EXCEPT ![d] = [results[d] EXCEPT ![p] = status]]
  BY DEF Probe, ProbeFails, Statuses
<1>2. results' \in [Plans -> [Providers -> Statuses]]
  <2>1. results[d] \in [Providers -> Statuses]
    BY DEF TypeOK
  <2>2. [results[d] EXCEPT ![p] = status] \in [Providers -> Statuses]
    BY <2>1
  <2>. QED  BY <1>1, <2>2 DEF TypeOK
<1>3. UNCHANGED <<present, shownVars, credRev, resetter, stage, plan, command, historyVars>>
  BY DEF Probe, ProbeFails
<1>. QED  BY <1>2, <1>3 DEF TypeOK, PlansAreTaken, RevisionsTellChanges

(* A task that ends.                                                       *)
LEMMA EndShape ==
  ASSUME DetectionInv, NEW d \in Plans, stage[d] = "probing",
         NEW how \in {"done", "failed"}, NEW late \in SUBSET Running, End(d, how, late)
  PROVE  /\ stage' \in [Plans -> {"none", "resetting", "probing", "done", "failed"}]
         /\ plan' \in [Plans -> PlanRecords]
         /\ results' \in [Plans -> [Providers -> Statuses]]
         /\ begun' \in [Plans -> SUBSET Providers]
         /\ chosen' \in [Plans -> SUBSET Providers] /\ overtaken' \subseteq Plans
         /\ PlansAreTaken' \/ resetter' # resetter
         /\ \A e \in Plans : stage'[e] = "probing" =>
              /\ e # d /\ stage[e] = "probing" /\ plan'[e] = plan[e]
              /\ begun'[e] = begun[e] /\ chosen'[e] = chosen[e]
              /\ e \in overtaken' <=> e \in overtaken \union late
<1>. USE DEF DetectionInv
<1>1. EmptyPlan \in PlanRecords /\ EmptyPlan.replace
  BY DEF EmptyPlan, PlanRecords
<1>2. Pending \in [Providers -> Statuses]
  BY DEF Pending, Statuses
<1>3. plan' \in [Plans -> PlanRecords] /\ results' \in [Plans -> [Providers -> Statuses]]
  BY <1>1, <1>2 DEF End, TypeOK
<1>4. \A e \in Plans : /\ stage'[e] = IF e = d THEN how ELSE stage[e]
                       /\ plan'[e] = IF e = d THEN EmptyPlan ELSE plan[e]
                       /\ begun'[e] = IF e = d THEN {} ELSE begun[e]
                       /\ chosen'[e] = IF e = d THEN {} ELSE chosen[e]
                       /\ e \in overtaken' <=> e # d /\ e \in overtaken \union late
  BY DEF End, TypeOK
<1>5. ASSUME resetter' = resetter
      PROVE  PlansAreTaken'
  BY <1>1, <1>4, <1>5 DEF PlansAreTaken, Running
<1>. QED  BY <1>3, <1>4, <1>5 DEF End, TypeOK, Running

LEMMA SeededInProviders ==
  ASSUME TypeOK, NEW d \in Plans
  PROVE  Seeded(d) \subseteq Providers /\ Found(d) \subseteq Providers
<1>1. plan[d].auto \subseteq Providers
  BY DEF TypeOK, PlanRecords
<1>. QED  BY <1>1 DEF TypeOK, Seeded, Found, With

LEMMA ApplyKeeps ==
  ASSUME DetectionInv, NEW d \in Plans, Apply(d)
  PROVE  DetectionInv'
<1>. USE DEF DetectionInv
<1>1. enRev' \in Nat /\ enRev' >= enRev
  BY BumpGrows DEF Apply, TypeOK
<1>2. credRev' \in Nat /\ credRev' = IF detected' # detected THEN credRev + 1 ELSE credRev
  BY DEF Apply, TypeOK
<1>3. enabled' \subseteq Providers /\ detected' \subseteq Providers
  BY SeededInProviders DEF Apply
<1>4. stage[d] = "probing" /\ End(d, "done", Overtaken) /\ resetter' = resetter
  BY DEF Apply, Ready
<1>5. Overtaken \in SUBSET Running
  BY DEF Overtaken
<1>6. TypeOK'
  BY <1>1, <1>2, <1>3, <1>4, <1>5, EndShape DEF TypeOK, Apply
<1>7. PlansAreTaken'
  BY <1>4, <1>5, EndShape
<1>8. RevisionsTellChanges'
  <2>. SUFFICES ASSUME NEW e \in Plans, stage'[e] = "probing"
                PROVE  /\ plan'[e].credRev <= credRev' /\ plan'[e].enRev <= enRev'
                       /\ plan'[e].credRev < credRev' <=> begun'[e] # {} \/ e \in overtaken'
                       /\ chosen'[e] # {} => plan'[e].enRev < enRev'
    BY DEF RevisionsTellChanges
  <2>1. /\ stage[e] = "probing" /\ plan'[e] = plan[e]
        /\ begun'[e] = begun[e] /\ chosen'[e] = chosen[e]
        /\ e \in overtaken' <=> e \in overtaken \/ detected' # detected
    <3>1. /\ stage[e] = "probing" /\ plan'[e] = plan[e]
          /\ begun'[e] = begun[e] /\ chosen'[e] = chosen[e]
          /\ e \in overtaken' <=> e \in overtaken \union Overtaken
      BY <1>4, <1>5, EndShape
    <3>2. e \in Overtaken <=> detected' # detected
      BY <3>1 DEF Overtaken, Running
    <3>. QED  BY <3>1, <3>2
  <2>2. /\ plan[e].credRev \in Nat /\ plan[e].enRev \in Nat
        /\ credRev \in Nat /\ enRev \in Nat
    BY DEF TypeOK, PlanRecords
  <2>. QED  BY <1>1, <1>2, <2>1, <2>2 DEF RevisionsTellChanges
<1>. QED  BY <1>6, <1>7, <1>8

LEMMA ApplyFailsKeeps ==
  ASSUME DetectionInv, NEW d \in Plans, ApplyFails(d)
  PROVE  DetectionInv'
<1>. USE DEF DetectionInv
<1>1. stage[d] = "probing" /\ End(d, "failed", {}) /\ resetter' = resetter
  BY DEF ApplyFails, Ready
<1>2. TypeOK'
  BY <1>1, EndShape DEF TypeOK, ApplyFails
<1>3. PlansAreTaken'
  BY <1>1, EndShape
<1>4. RevisionsTellChanges'
  BY <1>1, EndShape DEF RevisionsTellChanges, ApplyFails
<1>. QED  BY <1>2, <1>3, <1>4

-----------------------------------------------------------------------------
(* Credential commands.                                                    *)
LEMMA BeginKeeps ==
  ASSUME DetectionInv, NEW kind \in Kinds, NEW p \in Providers, Begin(kind, p)
  PROVE  DetectionInv'
<1>. USE DEF DetectionInv
<1>1. /\ begun' \in [Plans -> SUBSET Providers]
      /\ \A d \in Plans : begun'[d] = IF stage[d] = "probing" THEN begun[d] \union {p}
                                      ELSE begun[d]
  <2>1. begun \in [Plans -> SUBSET Providers]
    BY DEF TypeOK
  <2>2. begun' = Note(begun, p)
    BY DEF Begin
  <2>. QED  BY <2>1, <2>2, NotesShape
<1>2. credRev \in Nat /\ credRev' = credRev + 1
  BY DEF Begin, TypeOK
<1>3. command' \in Commands
  BY DEF Begin, Commands
<1>4. TypeOK'
  BY <1>1, <1>2, <1>3 DEF Begin, TypeOK
<1>5. PlansAreTaken'
  BY <1>1 DEF Begin, PlansAreTaken
<1>6. RevisionsTellChanges'
  <2>. SUFFICES ASSUME NEW d \in Plans, stage[d] = "probing"
                PROVE  /\ plan[d].credRev < credRev' /\ plan[d].enRev <= enRev
                       /\ begun'[d] # {}
                       /\ chosen[d] # {} => plan[d].enRev < enRev
    <3>1. credRev' \in Nat /\ \A d \in Plans : plan[d].credRev \in Nat
      BY <1>2 DEF TypeOK, PlanRecords
    <3>. QED  BY <3>1 DEF Begin, RevisionsTellChanges
  <2>1. plan[d].credRev \in Nat
    BY DEF TypeOK, PlanRecords
  <2>2. plan[d].credRev <= credRev /\ plan[d].enRev <= enRev
        /\ (chosen[d] # {} => plan[d].enRev < enRev)
    BY DEF RevisionsTellChanges
  <2>3. begun'[d] # {}
    BY <1>1
  <2>. QED  BY <1>2, <2>1, <2>2, <2>3
<1>. QED  BY <1>4, <1>5, <1>6

LEMMA WriteKeeps == DetectionInv /\ Write => DetectionInv'
<1>. SUFFICES ASSUME DetectionInv, Write PROVE DetectionInv'
  OBVIOUS
<1>. USE DEF DetectionInv
<1>1. command \in Commands
  BY DEF Write, TypeOK
<1>2. command' \in Commands /\ present' \subseteq Providers
  BY <1>1 DEF Write, TypeOK, Commands
<1>. QED  BY <1>2 DEF Write, TypeOK, PlansAreTaken, RevisionsTellChanges

LEMMA ReconcileKeeps == DetectionInv /\ Reconcile => DetectionInv'
<1>. SUFFICES ASSUME DetectionInv, Reconcile PROVE DetectionInv'
  OBVIOUS
<1>. USE DEF DetectionInv
<1>1. command.provider \in Providers
  BY DEF Reconcile, TypeOK, Commands
<1>2. enRev' \in Nat /\ enRev' >= enRev
  BY BumpGrows DEF Reconcile, TypeOK
<1>3. detected' \subseteq Providers
  BY <1>1 DEF Reconcile, TypeOK
<1>4. enabled' \subseteq Providers
  BY <1>1 DEF Reconcile, TypeOK
<1>5. TypeOK'
  BY <1>2, <1>3, <1>4 DEF Reconcile, TypeOK
<1>6. PlansAreTaken'
  BY DEF Reconcile, PlansAreTaken
<1>7. RevisionsTellChanges'
  <2>. SUFFICES ASSUME NEW d \in Plans, stage[d] = "probing"
                PROVE  /\ plan[d].credRev <= credRev /\ plan[d].enRev <= enRev'
                       /\ plan[d].credRev < credRev <=> begun[d] # {} \/ d \in overtaken
                       /\ chosen[d] # {} => plan[d].enRev < enRev'
    BY DEF Reconcile, RevisionsTellChanges
  <2>1. plan[d].enRev \in Nat /\ enRev \in Nat
    BY DEF TypeOK, PlanRecords
  <2>. QED  BY <1>2, <2>1 DEF RevisionsTellChanges
<1>. QED  BY <1>5, <1>6, <1>7

LEMMA OthersKeep == DetectionInv /\ (GiveUp \/ UNCHANGED vars) => DetectionInv'
  BY DEF GiveUp, vars, DetectionInv, TypeOK, PlansAreTaken, RevisionsTellChanges

LEMMA StepKeeps == DetectionInv /\ [Next]_vars => DetectionInv'
<1>. SUFFICES ASSUME DetectionInv, [Next]_vars PROVE DetectionInv'
  OBVIOUS
<1>1. ASSUME NEW p \in Providers, Switch(p) PROVE DetectionInv'
  BY <1>1, SwitchKeeps
<1>2. ASSUME NEW d \in Plans, Reset(d) \/ TakePlan(d) \/ Apply(d) \/ ApplyFails(d)
      PROVE  DetectionInv'
  BY <1>2, ResetKeeps, TakePlanKeeps, ApplyKeeps, ApplyFailsKeeps
<1>3. ASSUME NEW d \in Plans, NEW p \in Providers, Probe(d, p) \/ ProbeFails(d, p)
      PROVE  DetectionInv'
  BY <1>3, ProbeKeeps
<1>4. ASSUME NEW kind \in Kinds, NEW p \in Providers, Begin(kind, p) PROVE DetectionInv'
  BY <1>4, BeginKeeps
<1>5. CASE Write \/ Reconcile \/ GiveUp \/ UNCHANGED vars
  BY <1>5, WriteKeeps, ReconcileKeeps, OthersKeep
<1>. QED  BY <1>1, <1>2, <1>3, <1>4, <1>5 DEF Next

(* The inductive invariant: types, and what the revisions of a running     *)
(* detection tell about the changes made since its plan was taken.         *)
THEOREM DetectionInvariant == Spec => []DetectionInv
  BY InitEstablishes, StepKeeps, PTL DEF Spec

-----------------------------------------------------------------------------
(* Only the application of its results makes a running detection done.     *)
LEMMA OnlyApplyEnds ==
  ASSUME DetectionInv, [Next]_vars, NEW d \in Plans, Applied(d)
  PROVE  Apply(d)
<1>. USE DEF DetectionInv, Applied
<1>1. ASSUME NEW e \in Plans, Reset(e) \/ TakePlan(e) \/ ApplyFails(e) PROVE FALSE
  BY <1>1 DEF Reset, TakePlan, ApplyFails, End, TypeOK
<1>2. ASSUME NEW e \in Plans, Apply(e) PROVE e = d
  BY <1>2 DEF Apply, End, TypeOK
<1>3. ASSUME stage' = stage PROVE FALSE
  BY <1>3
<1>4. ASSUME NEW e \in Plans, NEW p \in Providers, Probe(e, p) \/ ProbeFails(e, p)
      PROVE  stage' = stage
  BY <1>4 DEF Probe, ProbeFails
<1>5. ASSUME NEW p \in Providers, Switch(p) PROVE stage' = stage
  BY <1>5 DEF Switch
<1>6. ASSUME NEW kind \in Kinds, NEW p \in Providers, Begin(kind, p) PROVE stage' = stage
  BY <1>6 DEF Begin
<1>7. ASSUME Write \/ Reconcile \/ GiveUp \/ UNCHANGED vars PROVE stage' = stage
  BY <1>7 DEF Write, Reconcile, GiveUp, vars
<1>. QED  BY <1>1, <1>2, <1>3, <1>4, <1>5, <1>6, <1>7 DEF Next

(* A credential command that began after the plan was taken is never       *)
(* undone by the detection.                                                *)
THEOREM CommandsWin == Spec => LaterCommandsWin
<1>1. ASSUME DetectionInv, [Next]_vars, NEW d \in Plans, Applied(d), NEW p \in begun[d]
      PROVE  Untouched(p)
  <2>1. Apply(d) /\ stage[d] = "probing"
    BY <1>1, OnlyApplyEnds DEF Applied
  <2>2. ~CredentialsMatch(d)
    <3>1. plan[d].credRev < credRev /\ credRev \in Nat /\ plan[d].credRev \in Nat
      BY <1>1, <2>1 DEF DetectionInv, RevisionsTellChanges, TypeOK, PlanRecords
    <3>. QED  BY <3>1 DEF CredentialsMatch
  <2>. QED  BY <2>1, <2>2 DEF Apply, Seeded, Found, Untouched
<1>. DEFINE Step == \A d \in Plans : Applied(d) => \A p \in begun[d] : Untouched(p)
<1>2. DetectionInv /\ [Next]_vars => [Step]_vars
  BY <1>1
<1>. QED  BY <1>2, DetectionInvariant, PTL DEF Spec, LaterCommandsWin

(* A provider switched by the user after a reset is not switched back by   *)
(* the reseeding detection of that reset.                                  *)
THEOREM ChoicesPrevail == Spec => ChoicesWinOverReseeding
<1>1. ASSUME DetectionInv, [Next]_vars, NEW d \in Plans, Applied(d), plan[d].replace,
             chosen[d] # {}
      PROVE  enabled' = enabled
  <2>1. Apply(d) /\ stage[d] = "probing"
    BY <1>1, OnlyApplyEnds DEF Applied
  <2>2. ~EnablementMatches(d)
    <3>1. plan[d].enRev < enRev /\ enRev \in Nat /\ plan[d].enRev \in Nat
      BY <1>1, <2>1 DEF DetectionInv, RevisionsTellChanges, TypeOK, PlanRecords
    <3>. QED  BY <3>1 DEF EnablementMatches
  <2>. QED  BY <1>1, <2>1, <2>2 DEF Apply, Seeded
<1>. DEFINE Step == \A d \in Plans : Applied(d) /\ plan[d].replace /\ chosen[d] # {} =>
                      enabled' = enabled
<1>2. DetectionInv /\ [Next]_vars => [Step]_vars
  BY <1>1
<1>. QED  BY <1>2, DetectionInvariant, PTL DEF Spec, ChoicesWinOverReseeding

(* Definite results are dropped only when a command, or another detection, *)
(* has changed the credentials meanwhile.                                  *)
THEOREM ResultsCount == Spec => DroppedOnlyWhenOvertaken
<1>1. ASSUME DetectionInv, [Next]_vars, NEW d \in Plans, Applied(d), begun[d] = {},
             d \notin overtaken
      PROVE  /\ With(d, "detected") \subseteq detected'
             /\ With(d, "absent") \intersect detected' = {}
  <2>1. Apply(d) /\ stage[d] = "probing"
    BY <1>1, OnlyApplyEnds DEF Applied
  <2>2. CredentialsMatch(d)
    <3>1. ~(plan[d].credRev < credRev) /\ plan[d].credRev <= credRev
      BY <1>1, <2>1 DEF DetectionInv, RevisionsTellChanges
    <3>2. credRev \in Nat /\ plan[d].credRev \in Nat
      BY <1>1 DEF DetectionInv, TypeOK, PlanRecords
    <3>. QED  BY <3>1, <3>2 DEF CredentialsMatch
  <2>3. detected' = (detected \union With(d, "detected")) \ With(d, "absent")
    BY <2>1, <2>2 DEF Apply, Found
  <2>. QED  BY <2>3 DEF With
<1>. DEFINE Step == \A d \in Plans : Applied(d) /\ begun[d] = {} /\ d \notin overtaken =>
                      /\ With(d, "detected") \subseteq detected'
                      /\ With(d, "absent") \intersect detected' = {}
<1>2. DetectionInv /\ [Next]_vars => [Step]_vars
  BY <1>1
<1>. QED  BY <1>2, DetectionInvariant, PTL DEF Spec, DroppedOnlyWhenOvertaken

HIDE DetectionAssumption
HIDE DEF shownVars, planVars, historyVars

-----------------------------------------------------------------------------
(* Sets of places and of messages                                          *)

(* Every set of places has a first one.                                    *)
LEMMA LeastPlace ==
  ASSUME NEW S \in SUBSET Nat, S # {}
  PROVE  \E n \in S : \A m \in S : n <= m
<1>. DEFINE R == OpToRel(<, Nat)
<1>1. \A m, n \in Nat : <<m, n>> \in R <=> m < n
  BY DEF OpToRel
<1>2. \E n \in S : \A m \in S : ~(<<m, n>> \in R)
  BY NatLessThanWellFounded, WFMin
<1>. HIDE DEF R
<1>3. PICK n \in S : \A m \in S : ~(<<m, n>> \in R)
  BY <1>2
<1>4. n \in Nat /\ \A m \in S : m \in Nat
  OBVIOUS
<1>5. \A m \in S : ~(m < n)
  BY <1>1, <1>3, <1>4
<1>. QED  BY <1>4, <1>5

-----------------------------------------------------------------------------
(* Copies of a message: what deduplicate() keeps                           *)

Messages == {ClaudeLogs!Message, ClaudeLogs!Advised}

ClaudeEvents ==
  [message : Messages \union {ClaudeLogs!None}, request : Requests, side : BOOLEAN,
   tokens : Nat, speed : BOOLEAN]

(* An event that is kept speaks for one that was read.                     *)
Covers(kept, event) ==
  /\ kept.message = event.message
  /\ \/ ~kept.side /\ event.side
     \/ /\ kept.side = event.side /\ (~event.side => kept.request = event.request)
        /\ ~ClaudeLogs!Replaces(event, kept)

(* The places are known by key and by message; what speaks for a side      *)
(* chain alone is alone; and every event has one that speaks for it.       *)
KeptRight(d, events) ==
  /\ d \in [output : Seq(ClaudeEvents), exact : [Messages \X Requests -> Nat],
            byMessage : [Messages -> SUBSET Nat]]
  /\ events \subseteq ClaudeEvents
  /\ \A i \in DOMAIN d.output : d.output[i] \in events
  /\ \A m \in Messages : d.byMessage[m] = {i \in DOMAIN d.output : d.output[i].message = m}
  /\ \A m \in Messages, r \in Requests : d.exact[<<m, r>>] # 0 =>
       /\ d.exact[<<m, r>>] \in DOMAIN d.output
       /\ d.output[d.exact[<<m, r>>]].message = m /\ d.output[d.exact[<<m, r>>]].request = r
  /\ \A i \in DOMAIN d.output : d.output[i].message \in Messages =>
       d.exact[<<d.output[i].message, d.output[i].request>>] = i
  /\ \A i, j \in DOMAIN d.output :
       /\ d.output[i].message = d.output[j].message /\ d.output[i].message \in Messages
       /\ d.output[i].side
       => i = j
  /\ \A e \in events : e.message \in Messages =>
       \E i \in DOMAIN d.output : Covers(d.output[i], e)

(* What is no message, and what is no place.                               *)
LEMMA NoneIsNoMessage == ClaudeLogs!None \notin Messages /\ ClaudeLogs!Nowhere = 0
BY DEF Messages, ClaudeLogs!None, ClaudeLogs!Message, ClaudeLogs!Advised, ClaudeLogs!Nowhere

(* What replaces goes on speaking for what its predecessor spoke for.      *)
LEMMA ReplacesAndCovers ==
  ASSUME NEW k \in ClaudeEvents, NEW e \in ClaudeEvents, NEW f \in ClaudeEvents,
         k.message = e.message, Covers(k, f), ClaudeLogs!Replaces(e, k),
         k.request = e.request \/ k.side \/ e.side
  PROVE  Covers(e, f) /\ (e.side => k.side)
BY DEF Covers, ClaudeLogs!Replaces, ClaudeEvents

(* An event speaks for itself.                                             *)
LEMMA CoversItself ==
  ASSUME NEW e \in ClaudeEvents
  PROVE  Covers(e, e)
BY DEF Covers, ClaudeLogs!Replaces, ClaudeEvents

(* Where a copy is looked for.                                             *)
LEMMA CollisionFinds ==
  ASSUME NEW d, NEW events, KeptRight(d, events),
         NEW event \in ClaudeEvents, event.message \in Messages,
         NEW i, i = ClaudeLogs!Collision(d, event)
  PROVE  \/ /\ i = 0 /\ d.exact[<<event.message, event.request>>] = 0
            /\ \A j \in DOMAIN d.output : d.output[j].message = event.message =>
                 ~event.side /\ ~d.output[j].side
         \/ /\ i \in DOMAIN d.output /\ i # 0 /\ d.output[i].message = event.message
            /\ \/ /\ d.output[i].request = event.request
                  /\ d.exact[<<event.message, event.request>>] = i
               \/ /\ event.side \/ d.output[i].side
                  /\ d.exact[<<event.message, event.request>>] = 0
<1>. DEFINE key == <<event.message, event.request>>
            beside == {j \in d.byMessage[event.message] : event.side \/ d.output[j].side}
<1>1. ClaudeLogs!Key(event) = key
  BY DEF ClaudeLogs!Key
<1>2. event.request \in Requests /\ event.message \in Messages
  BY DEF ClaudeEvents
<1>3. /\ d.byMessage[event.message] = {j \in DOMAIN d.output : d.output[j].message = event.message}
      /\ DOMAIN d.output \subseteq Nat \ {0}
  BY <1>2 DEF KeptRight
<1>4. CASE d.exact[key] # 0
  <2>1. i = d.exact[key]
    BY <1>1, <1>4, NoneIsNoMessage DEF ClaudeLogs!Collision
  <2>. QED  BY <1>2, <1>3, <1>4, <2>1 DEF KeptRight
<1>5. CASE d.exact[key] = 0 /\ beside # {}
  <2>1. i = CHOOSE j \in beside : \A l \in beside : j <= l
    BY <1>1, <1>5, NoneIsNoMessage DEF ClaudeLogs!Collision
  <2>2. beside \in SUBSET Nat
    BY <1>3
  <2>3. \E j \in beside : \A l \in beside : j <= l
    <3>. HIDE DEF beside
    <3>. QED  BY <1>5, <2>2, LeastPlace
  <2>4. i \in beside
    <3>. HIDE DEF beside
    <3>. QED  BY <2>1, <2>3, Zenon
  <2>. QED  BY <1>3, <1>5, <2>4
<1>6. CASE d.exact[key] = 0 /\ beside = {}
  <2>1. i = 0
    BY <1>1, <1>6, NoneIsNoMessage DEF ClaudeLogs!Collision
  <2>. QED  BY <1>3, <1>6, <2>1
<1>. QED  BY <1>4, <1>5, <1>6

(* A round of deduplicate(), by what becomes of the event.                 *)
LEMMA AddKeeps ==
  ASSUME NEW d, NEW events, KeptRight(d, events),
         NEW event \in ClaudeEvents, event.message \in Messages,
         d.exact[<<event.message, event.request>>] = 0,
         \A j \in DOMAIN d.output : d.output[j].message = event.message =>
           ~event.side /\ ~d.output[j].side
  PROVE  KeptRight(ClaudeLogs!Add(d, event), events \union {event})
<1>. DEFINE i == Len(d.output) + 1
            output2 == Append(d.output, event)
            exact2 == [d.exact EXCEPT ![<<event.message, event.request>>] = i]
            byMessage2 == [d.byMessage EXCEPT ![event.message] = @ \union {i}]
            new == [output |-> output2, exact |-> exact2, byMessage |-> byMessage2]
            all == events \union {event}
<1>1. ClaudeLogs!Add(d, event) = new
  BY DEF ClaudeLogs!Add, ClaudeLogs!Key
<1>2. /\ d.output \in Seq(ClaudeEvents) /\ d.exact \in [Messages \X Requests -> Nat]
      /\ d.byMessage \in [Messages -> SUBSET Nat]
  BY DEF KeptRight
<1>3. event.request \in Requests /\ i \in Nat \ {0} /\ i \notin DOMAIN d.output
  BY <1>2 DEF ClaudeEvents
<1>4. /\ output2 \in Seq(ClaudeEvents) /\ DOMAIN output2 = DOMAIN d.output \union {i}
      /\ output2[i] = event /\ \A j \in DOMAIN d.output : output2[j] = d.output[j] /\ j # i
  BY <1>2
<1>5. /\ exact2 \in [Messages \X Requests -> Nat]
      /\ \A m \in Messages, r \in Requests :
           exact2[<<m, r>>] = IF m = event.message /\ r = event.request THEN i ELSE d.exact[<<m, r>>]
  BY <1>2, <1>3
<1>6. /\ byMessage2 \in [Messages -> SUBSET Nat]
      /\ \A m \in Messages :
           byMessage2[m] = IF m = event.message THEN d.byMessage[m] \union {i} ELSE d.byMessage[m]
  BY <1>2, <1>3
<1>. HIDE DEF i, output2, exact2, byMessage2
<1>7. \A m \in Messages : byMessage2[m] = {j \in DOMAIN output2 : output2[j].message = m}
  <2>. TAKE m \in Messages
  <2>1. d.byMessage[m] = {j \in DOMAIN d.output : d.output[j].message = m}
    BY DEF KeptRight
  <2>. QED  BY <1>4, <1>6, <2>1
<1>8. \A m \in Messages, r \in Requests : exact2[<<m, r>>] # 0 =>
        /\ exact2[<<m, r>>] \in DOMAIN output2
        /\ output2[exact2[<<m, r>>]].message = m /\ output2[exact2[<<m, r>>]].request = r
  BY <1>4, <1>5 DEF KeptRight
<1>9. \A j \in DOMAIN output2 : output2[j].message \in Messages =>
        exact2[<<output2[j].message, output2[j].request>>] = j
  <2>. SUFFICES ASSUME NEW j \in DOMAIN output2, output2[j].message \in Messages
                PROVE  exact2[<<output2[j].message, output2[j].request>>] = j
    OBVIOUS
  <2>1. CASE j = i
    BY <1>3, <1>4, <1>5, <2>1
  <2>2. CASE j \in DOMAIN d.output
    <3>1. output2[j] = d.output[j] /\ d.output[j] \in ClaudeEvents /\ j # 0
      BY <1>2, <1>4, <2>2
    <3>2. d.exact[<<d.output[j].message, d.output[j].request>>] = j
      BY <2>2, <3>1 DEF KeptRight
    <3>3. d.output[j].request \in Requests
      BY <3>1 DEF ClaudeEvents
    <3>. QED  BY <1>5, <3>1, <3>2, <3>3
  <2>. QED  BY <1>4, <2>1, <2>2
<1>10. \A j, k \in DOMAIN output2 :
         /\ output2[j].message = output2[k].message /\ output2[j].message \in Messages
         /\ output2[j].side
         => j = k
  BY <1>4 DEF KeptRight
<1>11. \A e \in all : e.message \in Messages => \E j \in DOMAIN output2 : Covers(output2[j], e)
  BY <1>4, CoversItself DEF KeptRight
<1>12. all \subseteq ClaudeEvents /\ \A j \in DOMAIN output2 : output2[j] \in all
  BY <1>4 DEF KeptRight
<1>. QED
  <2>. HIDE DEF all
  <2>1. KeptRight(new, all)
    BY <1>4, <1>5, <1>6, <1>7, <1>8, <1>9, <1>10, <1>11, <1>12 DEF KeptRight
  <2>. QED  BY <1>1, <2>1 DEF all

(* An event takes the place of the one it replaces, and of its key.         *)
LEMMA ReplaceKeeps ==
  ASSUME NEW d, NEW events, KeptRight(d, events),
         NEW event \in ClaudeEvents, event.message \in Messages,
         NEW i \in DOMAIN d.output, d.output[i].message = event.message,
         ClaudeLogs!Replaces(event, d.output[i]),
         \/ /\ d.output[i].request = event.request
            /\ d.exact[<<event.message, event.request>>] = i
         \/ /\ event.side \/ d.output[i].side
            /\ d.exact[<<event.message, event.request>>] = 0
  PROVE  KeptRight(ClaudeLogs!Replace(d, i, event), events \union {event})
<1>. DEFINE old == d.output[i]
            output2 == [d.output EXCEPT ![i] = event]
            exact1 == [d.exact EXCEPT ![<<old.message, old.request>>] = 0]
            exact2 == [exact1 EXCEPT ![<<event.message, event.request>>] = i]
            new == [output |-> output2, exact |-> exact2, byMessage |-> d.byMessage]
            all == events \union {event}
<1>1. /\ d.output \in Seq(ClaudeEvents) /\ d.exact \in [Messages \X Requests -> Nat]
      /\ d.byMessage \in [Messages -> SUBSET Nat]
      /\ d = [output |-> d.output, exact |-> d.exact, byMessage |-> d.byMessage]
  BY DEF KeptRight
<1>2. ClaudeLogs!Replace(d, i, event) = new
  <2>1. ClaudeLogs!Replace(d, i, event) =
          [d EXCEPT !.output[i] = event,
                    !.exact = [[@ EXCEPT ![<<old.message, old.request>>] = 0]
                                 EXCEPT ![<<event.message, event.request>>] = i]]
    BY NoneIsNoMessage DEF ClaudeLogs!Replace, ClaudeLogs!Key
  <2>. QED  BY <1>1, <2>1
<1>3. /\ event.request \in Requests /\ old \in ClaudeEvents /\ old.request \in Requests
      /\ old.message = event.message /\ i \in Nat \ {0}
  <2>1. old \in ClaudeEvents /\ i \in Nat \ {0}
    BY <1>1
  <2>. QED  BY <2>1 DEF ClaudeEvents
<1>4. /\ output2 \in Seq(ClaudeEvents) /\ DOMAIN output2 = DOMAIN d.output
      /\ output2[i] = event /\ \A j \in DOMAIN d.output : j # i => output2[j] = d.output[j]
  BY <1>1
<1>5. exact1 \in [Messages \X Requests -> Nat] /\ exact2 \in [Messages \X Requests -> Nat]
  BY <1>1, <1>3
<1>6. \A m \in Messages, r \in Requests :
        exact2[<<m, r>>] = IF m = event.message /\ r = event.request THEN i
                           ELSE IF m = old.message /\ r = old.request THEN 0
                           ELSE d.exact[<<m, r>>]
  BY <1>1, <1>3, <1>5
<1>. HIDE DEF output2, exact1, exact2
<1>7. \A m \in Messages : d.byMessage[m] = {j \in DOMAIN output2 : output2[j].message = m}
  <2>. TAKE m \in Messages
  <2>1. d.byMessage[m] = {j \in DOMAIN d.output : d.output[j].message = m}
    BY DEF KeptRight
  <2>. QED  BY <1>3, <1>4, <2>1
<1>8. \A m \in Messages, r \in Requests : exact2[<<m, r>>] # 0 =>
        /\ exact2[<<m, r>>] \in DOMAIN output2
        /\ output2[exact2[<<m, r>>]].message = m /\ output2[exact2[<<m, r>>]].request = r
  <2>. TAKE m \in Messages, r \in Requests
  <2>1. d.exact[<<m, r>>] # 0 =>
          /\ d.exact[<<m, r>>] \in DOMAIN d.output
          /\ d.output[d.exact[<<m, r>>]].message = m /\ d.output[d.exact[<<m, r>>]].request = r
    BY DEF KeptRight
  <2>2. CASE m = event.message /\ r = event.request
    BY <1>4, <1>6, <2>2
  <2>3. CASE ~(m = event.message /\ r = event.request) /\ ~(m = old.message /\ r = old.request)
    BY <1>4, <1>6, <2>1, <2>3
  <2>. QED  BY <1>6, <2>2, <2>3
<1>9. \A j \in DOMAIN output2 : output2[j].message \in Messages =>
        exact2[<<output2[j].message, output2[j].request>>] = j
  <2>. SUFFICES ASSUME NEW j \in DOMAIN output2, output2[j].message \in Messages
                PROVE  exact2[<<output2[j].message, output2[j].request>>] = j
    OBVIOUS
  <2>1. CASE j = i
    BY <1>3, <1>4, <1>6, <2>1
  <2>2. CASE j # i
    <3>1. /\ j \in DOMAIN d.output /\ output2[j] = d.output[j] /\ d.output[j] \in ClaudeEvents
          /\ j # 0
      BY <1>1, <1>4, <2>2
    <3>2. /\ d.exact[<<d.output[j].message, d.output[j].request>>] = j
          /\ d.exact[<<old.message, old.request>>] = i
      BY <1>3, <3>1 DEF KeptRight
    <3>3. d.output[j].request \in Requests
      BY <3>1 DEF ClaudeEvents
    <3>4. /\ ~(d.output[j].message = event.message /\ d.output[j].request = event.request)
          /\ ~(d.output[j].message = old.message /\ d.output[j].request = old.request)
      BY <1>3, <2>2, <3>1, <3>2
    <3>. QED  BY <1>6, <3>1, <3>2, <3>3, <3>4
  <2>. QED  BY <2>1, <2>2
<1>10. (event.side => old.side)
       /\ \A e \in events : e.message \in Messages => \E j \in DOMAIN output2 : Covers(output2[j], e)
  <2>1. \A f \in ClaudeEvents : Covers(old, f) => Covers(event, f) /\ (event.side => old.side)
    BY <1>3, ReplacesAndCovers
  <2>2. Covers(old, old)
    BY <1>3, CoversItself
  <2>3. ASSUME NEW e \in events, e.message \in Messages
        PROVE  \E j \in DOMAIN output2 : Covers(output2[j], e)
    <3>1. PICK j \in DOMAIN d.output : Covers(d.output[j], e)
      BY <2>3 DEF KeptRight
    <3>2. e \in ClaudeEvents
      BY DEF KeptRight
    <3>. QED  BY <1>4, <2>1, <3>1, <3>2
  <2>. QED  BY <1>3, <2>1, <2>2, <2>3
<1>11. \A j, k \in DOMAIN output2 :
         /\ output2[j].message = output2[k].message /\ output2[j].message \in Messages
         /\ output2[j].side
         => j = k
  <2>1. \A j, k \in DOMAIN d.output :
          /\ d.output[j].message = d.output[k].message /\ d.output[j].message \in Messages
          /\ d.output[j].side
          => j = k
    BY DEF KeptRight
  <2>. QED  BY <1>3, <1>4, <1>10, <2>1
<1>12. all \subseteq ClaudeEvents /\ \A j \in DOMAIN output2 : output2[j] \in all
  BY <1>4 DEF KeptRight
<1>13. \A e \in all : e.message \in Messages => \E j \in DOMAIN output2 : Covers(output2[j], e)
  BY <1>4, <1>10, CoversItself
<1>. QED
  <2>. HIDE DEF all
  <2>1. KeptRight(new, all)
    BY <1>1, <1>4, <1>5, <1>7, <1>8, <1>9, <1>11, <1>12, <1>13 DEF KeptRight
  <2>. QED  BY <1>2, <2>1 DEF all

(* A round keeps what was right, and takes the event in.                   *)
LEMMA DeduplicateKeeps ==
  ASSUME NEW d, NEW events, KeptRight(d, events), NEW event \in ClaudeEvents
  PROVE  KeptRight(ClaudeLogs!Deduplicate(d, event), events \union {event})
<1>. DEFINE i == ClaudeLogs!Collision(d, event)
            all == events \union {event}
<1>1. CASE event.message = ClaudeLogs!None
  <2>. DEFINE output2 == Append(d.output, event)
              new == [d EXCEPT !.output = output2]
  <2>1. ClaudeLogs!Deduplicate(d, event) = new
    BY <1>1 DEF ClaudeLogs!Deduplicate
  <2>2. /\ d.output \in Seq(ClaudeEvents) /\ d.exact \in [Messages \X Requests -> Nat]
        /\ d.byMessage \in [Messages -> SUBSET Nat]
        /\ d = [output |-> d.output, exact |-> d.exact, byMessage |-> d.byMessage]
    BY DEF KeptRight
  <2>3. new = [output |-> output2, exact |-> d.exact, byMessage |-> d.byMessage]
    <3>. HIDE DEF output2
    <3>. QED  BY <2>2
  <2>4. PICK n \in Nat \ {0} :
          /\ output2 \in Seq(ClaudeEvents) /\ DOMAIN output2 = DOMAIN d.output \union {n}
          /\ output2[n] = event /\ n \notin DOMAIN d.output
          /\ \A j \in DOMAIN d.output : output2[j] = d.output[j]
    <3>1. Len(d.output) + 1 \in Nat \ {0}
      BY <2>2
    <3>. QED  BY <2>2, <3>1
  <2>5. event.message \notin Messages
    BY <1>1, NoneIsNoMessage
  <2>. HIDE DEF output2, new
  <2>6. \A m \in Messages : d.byMessage[m] = {j \in DOMAIN output2 : output2[j].message = m}
    <3>. TAKE m \in Messages
    <3>1. d.byMessage[m] = {j \in DOMAIN d.output : d.output[j].message = m}
      BY DEF KeptRight
    <3>. QED  BY <2>4, <2>5, <3>1
  <2>7. /\ all \subseteq ClaudeEvents /\ \A j \in DOMAIN output2 : output2[j] \in all
        /\ \A e \in all : e.message \in Messages => \E j \in DOMAIN output2 : Covers(output2[j], e)
    BY <2>4, <2>5 DEF KeptRight
  <2>8. /\ \A m \in Messages, r \in Requests : d.exact[<<m, r>>] # 0 =>
             /\ d.exact[<<m, r>>] \in DOMAIN output2
             /\ output2[d.exact[<<m, r>>]].message = m /\ output2[d.exact[<<m, r>>]].request = r
        /\ \A j \in DOMAIN output2 : output2[j].message \in Messages =>
             d.exact[<<output2[j].message, output2[j].request>>] = j
        /\ \A j, k \in DOMAIN output2 :
             /\ output2[j].message = output2[k].message /\ output2[j].message \in Messages
             /\ output2[j].side
             => j = k
    BY <2>4, <2>5 DEF KeptRight
  <2>. HIDE DEF all
  <2>9. KeptRight(new, all)
    BY <2>2, <2>3, <2>4, <2>6, <2>7, <2>8 DEF KeptRight
  <2>. QED  BY <2>1, <2>9 DEF all
<1>2. CASE event.message # ClaudeLogs!None
  <2>1. event.message \in Messages
    BY <1>2 DEF ClaudeEvents
  <2>2. \/ /\ i = 0 /\ d.exact[<<event.message, event.request>>] = 0
           /\ \A j \in DOMAIN d.output : d.output[j].message = event.message =>
                ~event.side /\ ~d.output[j].side
        \/ /\ i \in DOMAIN d.output /\ i # 0 /\ d.output[i].message = event.message
           /\ \/ /\ d.output[i].request = event.request
                 /\ d.exact[<<event.message, event.request>>] = i
              \/ /\ event.side \/ d.output[i].side
                 /\ d.exact[<<event.message, event.request>>] = 0
    BY <2>1, CollisionFinds
  <2>3. ClaudeLogs!Deduplicate(d, event) =
          IF i = 0 THEN ClaudeLogs!Add(d, event)
          ELSE IF ClaudeLogs!Replaces(event, d.output[i]) THEN ClaudeLogs!Replace(d, i, event)
          ELSE d
    BY <1>2, NoneIsNoMessage, Zenon DEF ClaudeLogs!Deduplicate
  <2>. HIDE DEF i
  <2>4. CASE i = 0
    <3>1. KeptRight(d, events) /\ 0 \notin DOMAIN d.output
      BY DEF KeptRight
    <3>2. KeptRight(ClaudeLogs!Add(d, event), events \union {event})
      BY <2>1, <2>2, <2>4, <3>1, AddKeeps
    <3>. QED  BY <2>3, <2>4, <3>2
  <2>5. CASE i # 0 /\ ClaudeLogs!Replaces(event, d.output[i])
    <3>1. KeptRight(ClaudeLogs!Replace(d, i, event), events \union {event})
      BY <2>1, <2>2, <2>5, ReplaceKeeps
    <3>. QED  BY <2>3, <2>5, <3>1
  <2>6. CASE i # 0 /\ ~ClaudeLogs!Replaces(event, d.output[i])
    <3>1. i \in DOMAIN d.output /\ d.output[i] \in ClaudeEvents
      BY <2>2, <2>6 DEF KeptRight
    <3>2. Covers(d.output[i], event)
      BY <2>2, <2>6, <3>1 DEF Covers, ClaudeLogs!Replaces, ClaudeEvents
    <3>3. KeptRight(d, all)
      BY <3>1, <3>2 DEF KeptRight
    <3>. QED  BY <2>3, <2>6, <3>3
  <2>. QED  BY <2>4, <2>5, <2>6
<1>. QED  BY <1>1, <1>2

(* The number of members is what it is outside the instance.               *)
LEMMA CardinalityOfClaudeLogs == \A S : ClaudeLogs!Cardinality(S) = Cardinality(S)
BY Zenon DEF ClaudeLogs!Cardinality, Cardinality

(* Sets whose members are paired are as large as each other.               *)
LEMMA PairedSets ==
  ASSUME NEW S, NEW T, IsFiniteSet(S), NEW f \in [S -> T],
         \A x, y \in S : f[x] = f[y] => x = y, \A t \in T : \E x \in S : f[x] = t
  PROVE  IsFiniteSet(T) /\ Cardinality(T) = Cardinality(S)
<1>1. f \in Surjection(S, T)
  BY DEF Surjection
<1>2. f \in Injection(S, T)
  BY DEF Injection, IsInjective
<1>. QED  BY <1>1, <1>2, FS_Surjection

(* What is right counts each message once.                                 *)
LEMMA RightCountsOnce ==
  ASSUME KeptRight(ClaudeLogs!Kept, written)
  PROVE  ClaudeLogs!MessagesCountedOnce
<1>. SUFFICES ASSUME NEW m \in Messages
              PROVE  LET counted == {i \in DOMAIN output : output[i].message = m}
                     IN /\ Cardinality(counted) = Cardinality(ClaudeLogs!Expected(m))
                        /\ \A best \in ClaudeLogs!Expected(m) : \E i \in counted : output[i] \in best
  BY CardinalityOfClaudeLogs, Zenon DEF ClaudeLogs!MessagesCountedOnce, Messages
<1>. DEFINE all == {e \in written : e.message = m}
            own == {e \in all : ~e.side}
            Own(r) == {e \in own : e.request = r}
            Most(S) == {e \in S : \A f \in S : ~ClaudeLogs!Replaces(f, e)}
            counted == {i \in DOMAIN output : output[i].message = m}
            Alike(i) == IF output[i].side THEN all ELSE Own(output[i].request)
            expected == ClaudeLogs!Expected(m)
<1>1. /\ own # {} => expected = {Most(Own(r)) : r \in Requests} \ {{}}
      /\ own = {} => expected = {Most(all)} \ {{}}
  BY Zenon DEF ClaudeLogs!Expected
<1>2. /\ output \in Seq(ClaudeEvents) /\ written \subseteq ClaudeEvents
      /\ \A i \in DOMAIN output : output[i] \in written
      /\ \A i, j \in DOMAIN output :
           /\ output[i].message = output[j].message /\ output[i].message \in Messages
           /\ output[i].side
           => i = j
      /\ \A e \in written : e.message \in Messages =>
           \E i \in DOMAIN output : Covers(output[i], e)
  BY DEF KeptRight, ClaudeLogs!Kept
<1>3. \A i, j \in counted : output[i].request = output[j].request => i = j
  <2>1. \A i \in DOMAIN output : output[i].message \in Messages =>
          exact[<<output[i].message, output[i].request>>] = i
    BY DEF KeptRight, ClaudeLogs!Kept
  <2>. QED  BY <2>1
<1>4. /\ \A i, j \in counted : output[i].side => i = j
      /\ \A i \in counted : output[i] \in all /\ output[i].side \in BOOLEAN
      /\ \A e \in all : \E i \in counted : Covers(output[i], e)
  <2>1. \A i \in counted : output[i] \in all /\ output[i].side \in BOOLEAN
    BY <1>2 DEF ClaudeEvents
  <2>2. \A e \in all : \E i \in counted : Covers(output[i], e)
    BY <1>2 DEF Covers
  <2>. QED  BY <1>2, <2>1, <2>2
<1>. HIDE DEF expected
<1>5. ASSUME NEW i \in counted
      PROVE  output[i] \in Most(Alike(i))
  <2>1. ASSUME NEW f \in Alike(i) PROVE ~ClaudeLogs!Replaces(f, output[i])
    <3>1. f \in all
      OBVIOUS
    <3>2. PICK j \in counted : Covers(output[j], f)
      BY <1>4, <3>1
    <3>3. CASE output[i].side
      <4>1. j = i
        BY <1>4, <3>3
      <4>. QED  BY <3>2, <3>3, <4>1 DEF Covers
    <3>4. CASE ~output[i].side
      <4>1. ~f.side /\ f.request = output[i].request
        BY <3>4
      <4>2. output[j].request = f.request /\ ~ClaudeLogs!Replaces(f, output[j])
        BY <3>2, <4>1 DEF Covers
      <4>3. j = i
        BY <1>3, <4>1, <4>2
      <4>. QED  BY <4>2, <4>3
    <3>. QED  BY <3>3, <3>4
  <2>2. output[i] \in Alike(i)
    BY <1>4
  <2>. QED  BY <2>1, <2>2, Zenon
<1>6. ASSUME NEW i \in counted
      PROVE  Most(Alike(i)) \in expected
  <2>1. Most(Alike(i)) # {}
    BY <1>5, Zenon
  <2>2. CASE output[i].side
    <3>1. ASSUME NEW e \in own PROVE FALSE
      <4>1. PICK j \in counted : Covers(output[j], e)
        BY <1>4
      <4>2. j = i
        BY <1>4, <2>2
      <4>. QED  BY <2>2, <4>1, <4>2 DEF Covers
    <3>2. own = {}
      BY <3>1, Zenon
    <3>3. Alike(i) = all
      BY <2>2, Zenon
    <3>. HIDE DEF all, own, Most, Alike
    <3>. QED  BY <1>1, <2>1, <3>2, <3>3
  <2>3. CASE ~output[i].side
    <3>1. own # {} /\ output[i].request \in Requests
      BY <1>2, <1>4, <2>3 DEF ClaudeEvents
    <3>2. Alike(i) = Own(output[i].request)
      BY <2>3, Zenon
    <3>. HIDE DEF all, own, Own, Most, Alike
    <3>. QED  BY <1>1, <2>1, <3>1, <3>2
  <2>. QED  BY <2>2, <2>3
<1>7. ASSUME NEW best \in expected
      PROVE  \E i \in counted : Most(Alike(i)) = best
  <2>1. CASE own # {}
    <3>1. PICK r \in Requests : best = Most(Own(r)) /\ best # {}
      <4>. HIDE DEF own, Own, Most
      <4>. QED  BY <1>1, <2>1
    <3>2. PICK e \in Own(r) : TRUE
      BY <3>1
    <3>3. PICK i \in counted : Covers(output[i], e)
      BY <1>4
    <3>4. ~output[i].side /\ output[i].request = r
      BY <3>2, <3>3 DEF Covers
    <3>5. Alike(i) = Own(r)
      BY <3>4
    <3>. HIDE DEF Alike, Own, Most
    <3>. QED  BY <3>1, <3>5
  <2>2. CASE own = {}
    <3>1. best = Most(all) /\ best # {}
      <4>. HIDE DEF own, all, Most
      <4>. QED  BY <1>1, <2>2
    <3>2. PICK e \in all : TRUE
      BY <3>1
    <3>3. PICK i \in counted : Covers(output[i], e)
      BY <1>4
    <3>4. output[i].side
      BY <1>4, <2>2
    <3>5. Alike(i) = all
      BY <3>4, Zenon
    <3>. HIDE DEF Alike, all, Most
    <3>. QED  BY <3>1, <3>5
  <2>. QED  BY <2>1, <2>2
<1>8. ASSUME NEW i \in counted, NEW j \in counted, Most(Alike(i)) = Most(Alike(j))
      PROVE  i = j
  <2>1. output[i] \in Alike(j)
    BY <1>5, <1>8, Zenon
  <2>2. CASE output[i].side \/ output[j].side
    BY <1>4, <2>2
  <2>3. CASE ~output[i].side /\ ~output[j].side
    <3>1. output[i].request = output[j].request
      BY <2>1, <2>3
    <3>. QED  BY <1>3, <3>1
  <2>. QED  BY <2>2, <2>3
<1>9. IsFiniteSet(counted)
  <2>1. DOMAIN output = 1 .. Len(output) /\ Len(output) \in Nat
    BY <1>2
  <2>2. counted \in SUBSET (1 .. Len(output))
    BY <2>1
  <2>3. IsFiniteSet(1 .. Len(output))
    BY <2>1, FS_Interval
  <2>. HIDE DEF counted
  <2>. QED  BY <2>2, <2>3, FS_Subset
<1>10. Cardinality(counted) = Cardinality(expected)
  <2>. DEFINE best == [i \in counted |-> Most(Alike(i))]
  <2>1. best \in [counted -> expected] /\ \A i \in counted : best[i] = Most(Alike(i))
    <3>. HIDE DEF counted, Most, Alike
    <3>. QED  BY <1>6
  <2>. HIDE DEF best, counted, Most, Alike
  <2>2. \A i, j \in counted : best[i] = best[j] => i = j
    BY <1>8, <2>1
  <2>3. \A b \in expected : \E i \in counted : best[i] = b
    BY <1>7, <2>1
  <2>. QED  BY <1>9, <2>1, <2>2, <2>3, PairedSets
<1>11. \A best \in expected : \E i \in counted : output[i] \in best
  <2>. HIDE DEF Most, Alike, counted
  <2>. QED  BY <1>5, <1>7
<1>. QED  BY <1>10, <1>11 DEF expected

(* Before the first line nothing is kept.                                  *)
LEMMA NothingKept == ClaudeLogs!ClaudeLogInit => KeptRight(ClaudeLogs!Kept, written)
<1>. SUFFICES ASSUME ClaudeLogs!ClaudeLogInit PROVE KeptRight(ClaudeLogs!Kept, written)
  OBVIOUS
<1>1. /\ written = {} /\ output = <<>> /\ exact = [key \in Messages \X Requests |-> 0]
      /\ byMessage = [m \in Messages |-> {}]
  BY NoneIsNoMessage DEF ClaudeLogs!ClaudeLogInit, Messages
<1>2. output \in Seq(ClaudeEvents) /\ DOMAIN output = {}
  BY <1>1
<1>3. \A m \in Messages, r \in Requests : exact[<<m, r>>] = 0
  BY <1>1
<1>. QED  BY <1>1, <1>2, <1>3 DEF KeptRight, ClaudeLogs!Kept

(* A line is a message, and perhaps an advisor's.                          *)
LEMMA ReadLineKeeps ==
  KeptRight(ClaudeLogs!Kept, written) /\ ClaudeLogs!ReadLine
    => KeptRight(ClaudeLogs!Kept, written)'
<1>. SUFFICES ASSUME KeptRight(ClaudeLogs!Kept, written), ClaudeLogs!ReadLine
              PROVE  KeptRight(ClaudeLogs!Kept, written)'
  OBVIOUS
<1>. DEFINE Entries(line) == ClaudeLogs!ParseEntries(line)
            First(line) == ClaudeLogs!Deduplicate(ClaudeLogs!Kept, Entries(line)[1])
            Last2(line) == IF Len(Entries(line)) = 1 THEN First(line)
                           ELSE ClaudeLogs!Deduplicate(First(line), Entries(line)[2])
<1>1. PICK line \in ClaudeLogs!Lines :
        /\ written' = written \union {Entries(line)[i] : i \in DOMAIN Entries(line)}
        /\ output' = Last2(line).output /\ exact' = Last2(line).exact
        /\ byMessage' = Last2(line).byMessage
  BY Zenon DEF ClaudeLogs!ReadLine
<1>. DEFINE entries == Entries(line)
            kept == Last2(line)
<1>2. \/ \E a \in ClaudeEvents : entries = <<a>>
      \/ \E a, b \in ClaudeEvents : entries = <<a, b>>
  <2>. DEFINE a == ClaudeLogs!Event(line.message, line.request, line.side, line.tokens, line.speed)
              b == ClaudeLogs!Event(ClaudeLogs!Advised, line.request, line.side, 1, FALSE)
  <2>1. /\ line.message \in Messages \union {ClaudeLogs!None} /\ line.request \in Requests
        /\ line.side \in BOOLEAN /\ line.tokens \in Nat /\ line.speed \in BOOLEAN
    <3>1. \/ line \in [message : {ClaudeLogs!Message}, request : Requests, side : BOOLEAN,
                        tokens : 1 .. MaxTokens, speed : BOOLEAN, advised : BOOLEAN]
          \/ line \in [message : {ClaudeLogs!None}, request : Requests, side : {FALSE},
                        tokens : {1}, speed : {FALSE}, advised : {FALSE}]
      BY Zenon DEF ClaudeLogs!Lines
    <3>2. \A n \in 1 .. MaxTokens : n \in Nat
      BY LaunchAssumption
    <3>3. \/ /\ line.message = ClaudeLogs!Message /\ line.request \in Requests
             /\ line.side \in BOOLEAN /\ line.tokens \in 1 .. MaxTokens /\ line.speed \in BOOLEAN
          \/ /\ line.message = ClaudeLogs!None /\ line.request \in Requests
             /\ line.side = FALSE /\ line.tokens = 1 /\ line.speed = FALSE
      BY <3>1
    <3>4. ClaudeLogs!Message \in Messages /\ 1 \in Nat
      BY DEF Messages
    <3>. QED  BY <3>2, <3>3, <3>4, Zenon
  <2>2. a \in ClaudeEvents /\ b \in ClaudeEvents
    BY <2>1 DEF ClaudeLogs!Event, ClaudeEvents, Messages
  <2>3. entries = <<a>> \o IF line.advised THEN <<b>> ELSE <<>>
    BY DEF ClaudeLogs!ParseEntries
  <2>. HIDE DEF a, b, entries
  <2>4. CASE line.advised
    <3>1. entries = <<a>> \o <<b>>
      BY <2>3, <2>4
    <3>2. <<a>> \o <<b>> = <<a, b>>
      <4>1. /\ <<a>> \in Seq(ClaudeEvents) /\ Len(<<a>>) = 1 /\ <<a>>[1] = a
            /\ <<b>> \in Seq(ClaudeEvents) /\ Len(<<b>>) = 1 /\ <<b>>[1] = b
            /\ <<a, b>> \in Seq(ClaudeEvents) /\ Len(<<a, b>>) = 2
            /\ <<a, b>>[1] = a /\ <<a, b>>[2] = b
        BY <2>2
      <4>. DEFINE s == <<a>>
                  t == <<b>>
                  u == <<a, b>>
      <4>2. /\ s \in Seq(ClaudeEvents) /\ t \in Seq(ClaudeEvents) /\ u \in Seq(ClaudeEvents)
            /\ Len(s) = 1 /\ Len(t) = 1 /\ Len(u) = 2
            /\ s[1] = u[1] /\ t[1] = u[2]
        BY <4>1
      <4>. HIDE DEF s, t, u
      <4>3. /\ s \o t \in Seq(ClaudeEvents) /\ Len(s \o t) = Len(s) + Len(t)
            /\ \A i \in 1 .. Len(s) + Len(t) :
                 (s \o t)[i] = IF i <= Len(s) THEN s[i] ELSE t[i - Len(s)]
        BY <4>2, ConcatProperties
      <4>4. Len(s \o t) = Len(u) /\ \A i \in 1 .. Len(u) : (s \o t)[i] = u[i]
        BY <4>2, <4>3
      <4>. HIDE DEF s, t, u
      <4>5. s \o t = u
        BY <4>2, <4>3, <4>4, SeqEqual
      <4>. QED  BY <4>5 DEF s, t, u
    <3>. QED  BY <2>2, <3>1, <3>2
  <2>5. CASE ~line.advised
    <3>1. entries = <<a>>
      BY <2>3, <2>5
    <3>. QED  BY <2>2, <3>1
  <2>. QED  BY <2>4, <2>5
<1>3. KeptRight(kept, written')
  <2>1. CASE \E a \in ClaudeEvents : entries = <<a>>
    <3>1. PICK a \in ClaudeEvents : entries = <<a>>
      BY <2>1
    <3>2. entries[1] = a /\ Len(entries) = 1 /\ written' = written \union {a}
      BY <1>1, <3>1
    <3>3. kept = ClaudeLogs!Deduplicate(ClaudeLogs!Kept, a)
      BY <3>2, Zenon
    <3>4. KeptRight(ClaudeLogs!Deduplicate(ClaudeLogs!Kept, a), written \union {a})
      BY DeduplicateKeeps
    <3>. QED  BY <3>2, <3>3, <3>4
  <2>2. CASE \E a, b \in ClaudeEvents : entries = <<a, b>>
    <3>1. PICK a, b \in ClaudeEvents : entries = <<a, b>>
      BY <2>2
    <3>2. entries[1] = a /\ entries[2] = b /\ Len(entries) = 2 /\ DOMAIN entries = {1, 2}
      <4>. HIDE DEF entries
      <4>. QED  BY <3>1
    <3>3. written' = (written \union {a}) \union {b}
      <4>. HIDE DEF entries
      <4>1. written' = written \union {entries[i] : i \in DOMAIN entries}
        BY <1>1 DEF entries
      <4>. QED  BY <3>2, <4>1
    <3>. DEFINE first == ClaudeLogs!Deduplicate(ClaudeLogs!Kept, a)
    <3>4. kept = ClaudeLogs!Deduplicate(first, b)
      <4>1. Len(entries) # 1
        BY <3>2
      <4>. QED  BY <3>2, <4>1, Zenon
    <3>5. KeptRight(first, written \union {a})
      BY DeduplicateKeeps
    <3>. HIDE DEF first
    <3>6. KeptRight(ClaudeLogs!Deduplicate(first, b), (written \union {a}) \union {b})
      BY <3>5, DeduplicateKeeps
    <3>. QED  BY <3>3, <3>4, <3>6
  <2>. QED  BY <1>2, <2>1, <2>2
<1>4. ClaudeLogs!Kept' = kept
  <2>1. kept = [output |-> kept.output, exact |-> kept.exact, byMessage |-> kept.byMessage]
    <3>. HIDE DEF kept
    <3>. QED  BY <1>3 DEF KeptRight
  <2>. QED  BY <1>1, <2>1 DEF ClaudeLogs!Kept
<1>. QED  BY <1>3, <1>4

-----------------------------------------------------------------------------
(* The logs of a client that goes on writing: the inductive invariant      *)

Stamps == [second : Int, n : Nat]

LogLines ==
  [kind : {"session_meta"}, child : BOOLEAN, at : Stamps]
    \union [kind : {"task_started"}, at : Stamps, started : Nat]
    \union [kind : {"token_count"}, at : Stamps, total : Int, last : Int]

LogEvents == [at : Stamps, usage : {1}]

Parsed == [sawMeta : BOOLEAN, gate : Int, previous : Int, events : SUBSET LogEvents]

(* What the lines of a session say; and what they say when they are found  *)
(* in a fork whose first line has no time.                                 *)
Replaying(gate) == [sawMeta |-> TRUE, gate |-> gate, previous |-> Logs!None, events |-> {}]
Told(s) == Logs!ParseFrom(Logs!Unparsed, file[s])
Retold(s) == Logs!ParseFrom(Replaying(Logs!SelfTimed), file[s])

Said == UNION {Told(s).events : s \in Logs!Sessions}

ClientTypes ==
  /\ second \in Nat /\ writes \in Nat /\ reports \in Reports
  /\ file \in [Logs!Sessions -> Seq(LogLines)]
  /\ place \in [Logs!Sessions -> SUBSET Logs!Places]
  /\ used \in [Logs!Sessions -> Nat] /\ task \in [Logs!Sessions -> BOOLEAN]
  /\ spent \in Nat

ScanTypes ==
  /\ row = [path \in Logs!Paths |-> row[path]]
  /\ \A path \in Logs!Paths : row[path] \in [size : Int, modified : Int, events : SUBSET LogEvents]
  /\ scan \in [at : {"idle", "stat", "read"}, todo : SUBSET Logs!Paths, seen : SUBSET Logs!Paths,
               stamp : [size : Int, modified : Int, events : {{}}] \union [size : Int, modified : Int],
               events : SUBSET LogEvents]
  /\ sum \in Nat /\ quiet \in BOOLEAN

(* A session that is nowhere has no lines; no task begins in the future.   *)
LinesFit(s) ==
  /\ place[s] = {} => file[s] = <<>> /\ ~task[s]
  /\ place[s] # {} => Len(file[s]) > 0
  /\ \A i \in DOMAIN file[s] : file[s][i].kind = "task_started" => file[s][i].started <= second

(* What is known after the lines of a session: the totals so far, a gate   *)
(* that its next task opens, and nothing that no session said.             *)
ParseFits(s, parsed) ==
  /\ parsed \in Parsed /\ parsed.sawMeta
  /\ parsed.previous = IF reports = "last" THEN Logs!None ELSE used[s]
  /\ parsed.gate \in {Logs!Open, Logs!SelfTimed} \union 0 .. second
  /\ task[s] => parsed.gate = Logs!Open
  /\ parsed.events \subseteq Said

SaidOnce ==
  /\ \A s \in Logs!Sessions : place[s] # {} => ParseFits(s, Told(s)) /\ ParseFits(s, Retold(s))
  /\ \A event \in Said : event.at.n <= writes
  /\ IsFiniteSet(Said) /\ Cardinality(Said) = spent

(* A row of the size of the file holds what the file says.                 *)
RowFits(path) ==
  /\ row[path].size <= Len(file[path[1]]) /\ row[path].events \subseteq Said
  /\ row[path].size = Len(file[path[1]]) => row[path].events = Told(path[1]).events

(* In a quiet scan what a session says has been found or is to be found.   *)
ScanFits ==
  /\ scan.events \subseteq Said
  /\ scan.at = "read" => /\ scan.todo # {} /\ scan.stamp.size <= Len(file[Logs!Path[1]])
  /\ scan.at # "idle" /\ quiet => \A s \in Logs!Sessions : place[s] # {} =>
       \/ Told(s).events \subseteq scan.events
       \/ \E directory \in place[s] : <<s, directory>> \in scan.todo
  /\ sum <= spent
  /\ scan.at = "idle" /\ quiet => sum = spent

(* The whole invariant while no fork is blurred.                           *)
LogFits ==
  /\ ClientTypes /\ ScanTypes
  /\ \A s \in Logs!Sessions : LinesFit(s)
  /\ SaidOnce
  /\ \A path \in Logs!Paths : RowFits(path)
  /\ ScanFits

LogInv == blurred \in BOOLEAN /\ (~blurred => LogFits)

-----------------------------------------------------------------------------
(* Line by line: the recursion of ParseFrom                                *)

(* What is known before the first line and after each.                     *)
Chain(start, list, n, known) ==
  known = [i \in 0 .. n |-> IF i = 0 THEN start ELSE Logs!ReadLine(known[i - 1], list[i])]

(* There is such a chain: one more line after the last.                    *)
LEMMA ChainExists ==
  ASSUME NEW start, NEW list, NEW n \in Nat
  PROVE  \E known : Chain(start, list, n, known)
<1>. DEFINE broken == {k \in Nat : ~\E known : Chain(start, list, k, known)}
<1>1. SUFFICES ASSUME broken # {} PROVE FALSE
  OBVIOUS
<1>2. PICK k \in broken : \A l \in broken : k <= l
  <2>1. broken \in SUBSET Nat
    OBVIOUS
  <2>. HIDE DEF broken
  <2>. QED  BY <1>1, <2>1, LeastPlace
<1>3. k \in Nat /\ ~\E known : Chain(start, list, k, known)
  OBVIOUS
<1>4. k # 0
  <2>. SUFFICES ASSUME k = 0 PROVE FALSE
    OBVIOUS
  <2>. DEFINE known == [i \in 0 .. 0 |-> start]
  <2>1. known = [i \in 0 .. 0 |-> IF i = 0 THEN start ELSE Logs!ReadLine(known[i - 1], list[i])]
    OBVIOUS
  <2>. HIDE DEF known
  <2>2. Chain(start, list, k, known)
    BY <2>1 DEF Chain
  <2>. QED  BY <1>3, <2>2
<1>5. PICK before : Chain(start, list, k - 1, before)
  <2>1. k - 1 \in Nat /\ ~(k <= k - 1)
    BY <1>3, <1>4
  <2>. QED  BY <1>2, <2>1
<1>6. \E known : Chain(start, list, k, known)
  <2>. DEFINE known == [i \in 0 .. k |-> IF i = k THEN Logs!ReadLine(before[k - 1], list[k])
                                         ELSE before[i]]
  <2>1. ASSUME NEW i \in 0 .. k
        PROVE  known[i] = IF i = 0 THEN start ELSE Logs!ReadLine(known[i - 1], list[i])
    <3>1. CASE i = k
      <4>1. i - 1 \in 0 .. k /\ i - 1 # k /\ i # 0
        BY <1>3, <1>4, <3>1
      <4>2. known[i - 1] = before[i - 1]
        BY <4>1
      <4>. QED  BY <3>1, <4>1, <4>2
    <3>2. CASE i # k
      <4>1. i \in 0 .. k - 1
        BY <1>3, <3>2
      <4>2. known[i] = before[i]
        BY <3>2
      <4>3. before[i] = IF i = 0 THEN start ELSE Logs!ReadLine(before[i - 1], list[i])
        BY <1>5, <4>1 DEF Chain
      <4>4. CASE i = 0
        BY <4>2, <4>3, <4>4
      <4>5. CASE i # 0
        <5>1. i - 1 \in 0 .. k /\ i - 1 # k
          BY <1>3, <4>1, <4>5
        <5>2. known[i - 1] = before[i - 1]
          BY <5>1
        <5>. QED  BY <4>2, <4>3, <4>5, <5>2
      <4>. QED  BY <4>4, <4>5
    <3>. QED  BY <3>1, <3>2
  <2>2. DOMAIN known = 0 .. k /\ known = [i \in 0 .. k |-> known[i]]
    OBVIOUS
  <2>. HIDE DEF known
  <2>3. Chain(start, list, k, known)
    BY <2>1, <2>2 DEF Chain
  <2>. QED  BY <2>3
<1>. QED  BY <1>3, <1>6

(* There is one chain, as each line tells the next from the last.          *)
LEMMA ChainIsUnique ==
  ASSUME NEW start, NEW list, NEW n \in Nat,
         NEW known, Chain(start, list, n, known), NEW other, Chain(start, list, n, other)
  PROVE  known = other
<1>. DEFINE apart == {i \in 0 .. n : known[i] # other[i]}
<1>1. ASSUME apart # {} PROVE FALSE
  <2>1. apart \in SUBSET Nat
    OBVIOUS
  <2>2. PICK i \in apart : \A j \in apart : i <= j
    <3>. HIDE DEF apart
    <3>. QED  BY <1>1, <2>1, LeastPlace
  <2>3. i \in 0 .. n /\ known[i] # other[i]
    OBVIOUS
  <2>4. /\ known[i] = IF i = 0 THEN start ELSE Logs!ReadLine(known[i - 1], list[i])
        /\ other[i] = IF i = 0 THEN start ELSE Logs!ReadLine(other[i - 1], list[i])
    BY <2>3 DEF Chain
  <2>5. i # 0
    BY <2>3, <2>4
  <2>6. i - 1 \in 0 .. n /\ ~(i <= i - 1)
    BY <2>3, <2>5
  <2>7. known[i - 1] = other[i - 1]
    BY <2>2, <2>6
  <2>. QED  BY <2>3, <2>4, <2>5, <2>7
<1>2. \A i \in 0 .. n : known[i] = other[i]
  BY <1>1
<1>3. /\ known = [i \in 0 .. n |-> known[i]] /\ other = [i \in 0 .. n |-> other[i]]
  BY DEF Chain
<1>. QED  BY <1>2, <1>3, Zenon

(* What is known in the end is the last of the chain.                      *)
LEMMA ParseIsChain ==
  ASSUME NEW start, NEW S, NEW list \in Seq(S),
         NEW known, Chain(start, list, Len(list), known)
  PROVE  Logs!ParseFrom(start, list) = known[Len(list)]
<1>1. Len(list) \in Nat
  OBVIOUS
<1>. DEFINE made == CHOOSE parsed : parsed =
              [i \in 0 .. Len(list) |-> IF i = 0 THEN start ELSE Logs!ReadLine(parsed[i - 1], list[i])]
<1>2. Logs!ParseFrom(start, list) = made[Len(list)]
  BY DEF Logs!ParseFrom
<1>3. made = [i \in 0 .. Len(list) |-> IF i = 0 THEN start ELSE Logs!ReadLine(made[i - 1], list[i])]
  BY Zenon DEF Chain
<1>4. Chain(start, list, Len(list), made)
  BY <1>3, Zenon DEF Chain
<1>. HIDE DEF made
<1>5. made = known
  BY <1>1, <1>4, ChainIsUnique
<1>. QED  BY <1>2, <1>5

(* No lines say nothing new.                                               *)
LEMMA ParseNothing ==
  ASSUME NEW start
  PROVE  Logs!ParseFrom(start, <<>>) = start
<1>1. <<>> \in Seq({}) /\ Len(<<>>) = 0 /\ 0 \in Nat
  OBVIOUS
<1>2. PICK known : Chain(start, <<>>, 0, known)
  BY <1>1, ChainExists
<1>3. Logs!ParseFrom(start, <<>>) = known[0]
  BY <1>1, <1>2, ParseIsChain
<1>4. known[0] = start
  BY <1>2 DEF Chain
<1>. QED  BY <1>3, <1>4

(* One more line at the end.                                               *)
LEMMA ParseLast ==
  ASSUME NEW start, NEW list \in Seq(LogLines), NEW line \in LogLines
  PROVE  Logs!ParseFrom(start, list \o <<line>>) = Logs!ReadLine(Logs!ParseFrom(start, list), line)
<1>. DEFINE longer == list \o <<line>>
            n == Len(list)
<1>1. n \in Nat
  OBVIOUS
<1>2. /\ longer \in Seq(LogLines) /\ Len(longer) = n + 1 /\ longer[n + 1] = line
      /\ \A i \in 1 .. n : longer[i] = list[i]
  <2>. DEFINE one == <<line>>
  <2>1. one \in Seq(LogLines) /\ Len(one) = 1 /\ one[1] = line
    OBVIOUS
  <2>. HIDE DEF one
  <2>2. /\ list \o one \in Seq(LogLines) /\ Len(list \o one) = Len(list) + Len(one)
        /\ \A i \in 1 .. Len(list) + Len(one) :
             (list \o one)[i] = IF i <= Len(list) THEN list[i] ELSE one[i - Len(list)]
    BY <2>1, ConcatProperties
  <2>3. \A i \in 1 .. n : (list \o one)[i] = list[i]
    BY <2>1, <2>2
  <2>4. (list \o one)[n + 1] = line
    BY <1>1, <2>1, <2>2
  <2>. QED  BY <2>1, <2>2, <2>3, <2>4 DEF one
<1>. HIDE DEF longer, n
<1>3. PICK known : Chain(start, longer, n + 1, known)
  <2>1. n + 1 \in Nat
    BY <1>1
  <2>. QED  BY <2>1, ChainExists
<1>. DEFINE before == [i \in 0 .. n |-> known[i]]
<1>4. Chain(start, list, n, before)
  <2>1. ASSUME NEW i \in 0 .. n
        PROVE  before[i] = IF i = 0 THEN start ELSE Logs!ReadLine(before[i - 1], list[i])
    <3>1. known[i] = IF i = 0 THEN start ELSE Logs!ReadLine(known[i - 1], longer[i])
      BY <1>1, <1>3 DEF Chain
    <3>2. CASE i = 0
      BY <3>1, <3>2
    <3>3. CASE i # 0
      <4>1. i - 1 \in 0 .. n /\ i \in 1 .. n
        BY <1>1, <3>3
      <4>. QED  BY <1>2, <3>1, <3>3, <4>1
    <3>. QED  BY <3>2, <3>3
  <2>2. before = [i \in 0 .. n |-> before[i]]
    OBVIOUS
  <2>. HIDE DEF before
  <2>. QED  BY <2>1, <2>2 DEF Chain
<1>5. Logs!ParseFrom(start, list) = known[n]
  <2>1. before[n] = known[n]
    BY <1>1
  <2>. HIDE DEF before
  <2>2. Chain(start, list, Len(list), before)
    BY <1>4 DEF n
  <2>3. Logs!ParseFrom(start, list) = before[Len(list)]
    BY <2>2, ParseIsChain
  <2>. QED  BY <2>1, <2>3 DEF n
<1>6. Logs!ParseFrom(start, longer) = known[n + 1]
  BY <1>2, <1>3, ParseIsChain
<1>7. known[n + 1] = Logs!ReadLine(known[n], line)
  <2>1. n + 1 \in 0 .. n + 1 /\ n + 1 # 0 /\ (n + 1) - 1 = n
    BY <1>1
  <2>2. known[n + 1] = IF n + 1 = 0 THEN start ELSE Logs!ReadLine(known[(n + 1) - 1], longer[n + 1])
    BY <1>3, <2>1 DEF Chain
  <2>. QED  BY <1>2, <2>1, <2>2
<1>. QED  BY <1>5, <1>6, <1>7 DEF longer

(* One line before the others.                                             *)
LEMMA ParseFirst ==
  ASSUME NEW start, NEW list \in Seq(LogLines), NEW line \in LogLines
  PROVE  Logs!ParseFrom(start, <<line>> \o list) = Logs!ParseFrom(Logs!ReadLine(start, line), list)
<1>. DEFINE longer == <<line>> \o list
            n == Len(list)
            next == Logs!ReadLine(start, line)
<1>1. n \in Nat
  OBVIOUS
<1>2. /\ longer \in Seq(LogLines) /\ Len(longer) = n + 1 /\ longer[1] = line
      /\ \A i \in 1 .. n : longer[i + 1] = list[i]
  <2>. DEFINE one == <<line>>
  <2>1. one \in Seq(LogLines) /\ Len(one) = 1 /\ one[1] = line
    OBVIOUS
  <2>. HIDE DEF one
  <2>2. /\ one \o list \in Seq(LogLines) /\ Len(one \o list) = Len(one) + Len(list)
        /\ \A i \in 1 .. Len(one) + Len(list) :
             (one \o list)[i] = IF i <= Len(one) THEN one[i] ELSE list[i - Len(one)]
    BY <2>1, ConcatProperties
  <2>3. ASSUME NEW i \in 1 .. n PROVE (one \o list)[i + 1] = list[i]
    <3>1. i + 1 \in 1 .. Len(one) + Len(list) /\ ~(i + 1 <= Len(one)) /\ (i + 1) - Len(one) = i
      BY <1>1, <2>1
    <3>. QED  BY <2>2, <3>1
  <2>4. (one \o list)[1] = line
    BY <1>1, <2>1, <2>2
  <2>. QED  BY <1>1, <2>1, <2>2, <2>3, <2>4 DEF one
<1>. HIDE DEF longer, n, next
<1>3. PICK rest : Chain(next, list, n, rest)
  BY <1>1, ChainExists
<1>. DEFINE known == [i \in 0 .. n + 1 |-> IF i = 0 THEN start ELSE rest[i - 1]]
<1>4. Chain(start, longer, n + 1, known)
  <2>1. ASSUME NEW i \in 0 .. n + 1
        PROVE  known[i] = IF i = 0 THEN start ELSE Logs!ReadLine(known[i - 1], longer[i])
    <3>1. CASE i = 0
      BY <3>1
    <3>2. CASE i = 1
      <4>1. known[1] = rest[0] /\ known[0] = start
        BY <1>1
      <4>2. rest[0] = next
        BY <1>1, <1>3 DEF Chain
      <4>. QED  BY <1>2, <3>2, <4>1, <4>2 DEF next
    <3>3. CASE i # 0 /\ i # 1
      <4>1. i - 1 \in 1 .. n /\ (i - 1) + 1 = i /\ i - 1 \in 0 .. n + 1 /\ i - 1 # 0
            /\ i - 1 \in 0 .. n
        BY <1>1, <3>3
      <4>2. known[i] = rest[i - 1] /\ known[i - 1] = rest[(i - 1) - 1]
        BY <3>3, <4>1
      <4>3. rest[i - 1] = Logs!ReadLine(rest[(i - 1) - 1], list[i - 1])
        BY <1>3, <4>1 DEF Chain
      <4>4. list[i - 1] = longer[i]
        BY <1>2, <4>1
      <4>. QED  BY <3>3, <4>2, <4>3, <4>4
    <3>. QED  BY <3>1, <3>2, <3>3
  <2>2. known = [i \in 0 .. n + 1 |-> known[i]]
    OBVIOUS
  <2>. HIDE DEF known
  <2>. QED  BY <2>1, <2>2 DEF Chain
<1>5. known[n + 1] = rest[n]
  BY <1>1
<1>. HIDE DEF known
<1>6. Logs!ParseFrom(start, longer) = known[n + 1]
  BY <1>2, <1>4, ParseIsChain
<1>7. Logs!ParseFrom(next, list) = rest[n]
  BY <1>3, ParseIsChain DEF n
<1>. QED  BY <1>5, <1>6, <1>7 DEF longer, next

(* What each kind of line adds.                                            *)
LEMMA LineKinds ==
  ASSUME NEW line \in LogLines, NEW p
  PROVE  \/ /\ line.kind = "session_meta" /\ line.child \in BOOLEAN
            /\ Logs!ReadLine(p, line) = Logs!ReadMeta(p, line)
         \/ /\ line.kind = "task_started" /\ line.started \in Nat
            /\ Logs!ReadLine(p, line) = Logs!ReadStarted(p, line)
         \/ /\ line.kind = "token_count" /\ line.total \in Int /\ line.last \in Int
            /\ Logs!ReadLine(p, line) = Logs!ReadCount(p, line)
<1>1. \/ line.kind = "session_meta" /\ line.child \in BOOLEAN
      \/ line.kind = "task_started" /\ line.started \in Nat
      \/ line.kind = "token_count" /\ line.total \in Int /\ line.last \in Int
  BY DEF LogLines
<1>2. Logs!ReadLine(p, line) =
        CASE line.kind = "session_meta" -> Logs!ReadMeta(p, line)
          [] line.kind = "task_started" -> Logs!ReadStarted(p, line)
          [] line.kind = "token_count"  -> Logs!ReadCount(p, line)
  BY DEF Logs!ReadLine
<1>3. CASE line.kind = "session_meta"
  BY <1>1, <1>2, <1>3
<1>4. CASE line.kind = "task_started"
  BY <1>1, <1>2, <1>4
<1>5. CASE line.kind = "token_count"
  BY <1>1, <1>2, <1>5
<1>. QED  BY <1>1, <1>3, <1>4, <1>5

(* A field of what is known.                                               *)
Shaped(p) ==
  p = [sawMeta |-> p.sawMeta, gate |-> p.gate, previous |-> p.previous, events |-> p.events]

(* Whatever the gate, only a count says what the totals were.              *)
LEMMA PreviousRead ==
  ASSUME NEW line \in LogLines, NEW p, Shaped(p)
  PROVE  /\ Shaped(Logs!ReadLine(p, line))
         /\ Logs!ReadLine(p, line).previous =
              IF line.kind = "token_count" /\ line.total # Logs!None THEN line.total ELSE p.previous
<1>. DEFINE q == Logs!ReadLine(p, line)
<1>. PICK a, b, c, d : p = [sawMeta |-> a, gate |-> b, previous |-> c, events |-> d]
  BY DEF Shaped
<1>1. CASE line.kind = "session_meta" /\ q = Logs!ReadMeta(p, line)
  BY <1>1 DEF Logs!ReadMeta, Shaped
<1>2. CASE line.kind = "task_started" /\ q = Logs!ReadStarted(p, line)
  BY <1>2 DEF Logs!ReadStarted, Shaped
<1>3. CASE line.kind = "token_count" /\ q = Logs!ReadCount(p, line)
  <2>. DEFINE told == IF line.total = Logs!None THEN p
                      ELSE [sawMeta |-> a, gate |-> b, previous |-> line.total, events |-> d]
  <2>1. Logs!WithTotals(p, line) = told
    BY DEF Logs!WithTotals
  <2>2. \/ q = told
        \/ q = p /\ line.total # Logs!None /\ line.total = p.previous
        \/ q = [told EXCEPT !.events = @ \union {[at |-> line.at, usage |-> Logs!Usage(p, line)]}]
    BY <1>3, <2>1, Zenon DEF Logs!ReadCount
  <2>. QED  BY <1>3, <2>2 DEF Shaped
<1>. QED  BY <1>1, <1>2, <1>3, LineKinds

(* Behind a gate that no line opens nothing is counted.                    *)
LEMMA ClosedRead ==
  ASSUME NEW line \in LogLines, NEW gate, gate # Logs!Open, NEW previous,
         line.kind = "task_started" => ~Logs!IsCleared(gate, line),
         NEW p, p = [sawMeta |-> TRUE, gate |-> gate, previous |-> previous, events |-> {}]
  PROVE  Logs!ReadLine(p, line) =
           [sawMeta |-> TRUE, gate |-> gate,
            previous |-> IF line.kind = "token_count" /\ line.total # Logs!None
                         THEN line.total ELSE previous,
            events |-> {}]
<1>. DEFINE q == Logs!ReadLine(p, line)
<1>1. CASE line.kind = "session_meta" /\ q = Logs!ReadMeta(p, line)
  BY <1>1 DEF Logs!ReadMeta
<1>2. CASE line.kind = "task_started" /\ q = Logs!ReadStarted(p, line)
  BY <1>2 DEF Logs!ReadStarted
<1>3. CASE line.kind = "token_count" /\ q = Logs!ReadCount(p, line)
  BY <1>3 DEF Logs!ReadCount, Logs!WithTotals
<1>. QED  BY <1>1, <1>2, <1>3, LineKinds

(* The lines of the parent, as a fork holds them.                          *)
LEMMA LinesReplayed ==
  ASSUME NEW list \in Seq(LogLines), NEW rewritten \in BOOLEAN, NEW at \in Stamps,
         NEW copy, copy = Logs!Replayed(list, rewritten, at)
  PROVE  /\ copy \in Seq(LogLines) /\ Len(copy) = Len(list) /\ DOMAIN copy = DOMAIN list
         /\ \A i \in DOMAIN list :
              /\ copy[i] \in LogLines /\ list[i] \in LogLines /\ copy[i].kind = list[i].kind
              /\ list[i].kind = "token_count" => copy[i].total = list[i].total
              /\ list[i].kind = "task_started" => copy[i].started = list[i].started
              /\ rewritten => copy[i].at = at
         /\ ~rewritten => copy = list
<1>. DEFINE n == Len(list)
<1>1. n \in Nat /\ DOMAIN list = 1 .. n /\ list = [i \in 1 .. n |-> list[i]]
  OBVIOUS
<1>2. copy = [i \in 1 .. n |-> IF rewritten THEN [list[i] EXCEPT !.at = at] ELSE list[i]]
  BY <1>1 DEF Logs!Replayed
<1>3. \A line \in LogLines : LET other == [line EXCEPT !.at = at]
                             IN /\ other \in LogLines /\ other.kind = line.kind /\ other.at = at
                                /\ line.kind = "token_count" => other.total = line.total
                                /\ line.kind = "task_started" => other.started = line.started
  BY DEF LogLines
<1>4. ASSUME NEW i \in 1 .. n
      PROVE  /\ copy[i] \in LogLines /\ list[i] \in LogLines /\ copy[i].kind = list[i].kind
             /\ list[i].kind = "token_count" => copy[i].total = list[i].total
             /\ list[i].kind = "task_started" => copy[i].started = list[i].started
             /\ rewritten => copy[i].at = at
  <2>1. list[i] \in LogLines /\ copy[i] = IF rewritten THEN [list[i] EXCEPT !.at = at] ELSE list[i]
    BY <1>1, <1>2
  <2>. QED  BY <1>3, <2>1
<1>5. copy \in [1 .. n -> LogLines]
  <2>1. copy = [i \in 1 .. n |-> copy[i]]
    BY <1>2
  <2>. QED  BY <1>4, <2>1
<1>6. ~rewritten => copy = list
  <2>1. ~rewritten => copy = [i \in 1 .. n |-> list[i]]
    BY <1>2
  <2>. QED  BY <1>1, <2>1
<1>. HIDE DEF n
<1>7. copy \in Seq(LogLines) /\ Len(copy) = n /\ DOMAIN copy = 1 .. n
  BY <1>1, <1>5
<1>. QED  BY <1>1, <1>4, <1>6, <1>7 DEF n

(* A fork whose gate no replayed task opens has counted nothing, and knows *)
(* the totals of its parent.                                               *)
LEMMA ClosedReplay ==
  ASSUME NEW list \in Seq(LogLines), NEW gate, gate # Logs!Open,
         NEW rewritten \in BOOLEAN, NEW at \in Stamps,
         NEW copy, copy = Logs!Replayed(list, rewritten, at),
         \A i \in DOMAIN list : list[i].kind = "task_started" => ~Logs!IsCleared(gate, copy[i])
  PROVE  Logs!ParseFrom(Replaying(gate), copy) =
           [sawMeta |-> TRUE, gate |-> gate,
            previous |-> Logs!ParseFrom(Logs!Unparsed, list).previous, events |-> {}]
<1>. DEFINE n == Len(list)
            Closed(previous) ==
              [sawMeta |-> TRUE, gate |-> gate, previous |-> previous, events |-> {}]
<1>1. n \in Nat /\ DOMAIN list = 1 .. n
  OBVIOUS
<1>2. /\ copy \in Seq(LogLines) /\ Len(copy) = n
      /\ \A i \in 1 .. n : /\ copy[i] \in LogLines /\ list[i] \in LogLines
                           /\ copy[i].kind = list[i].kind
                           /\ list[i].kind = "token_count" => copy[i].total = list[i].total
  BY <1>1, LinesReplayed
<1>. HIDE DEF n
<1>3. PICK p : Chain(Logs!Unparsed, list, n, p)
  BY <1>1, ChainExists
<1>4. PICK q : Chain(Replaying(gate), copy, n, q)
  BY <1>1, ChainExists
<1>. DEFINE wrong == {i \in 0 .. n : ~(Shaped(p[i]) /\ q[i] = Closed(p[i].previous))}
<1>5. ASSUME wrong # {} PROVE FALSE
  <2>1. wrong \in SUBSET Nat
    BY <1>1
  <2>2. PICK i \in wrong : \A j \in wrong : i <= j
    <3>. HIDE DEF wrong
    <3>. QED  BY <1>5, <2>1, LeastPlace
  <2>3. i \in 0 .. n /\ ~(Shaped(p[i]) /\ q[i] = Closed(p[i].previous))
    OBVIOUS
  <2>4. /\ p[i] = IF i = 0 THEN Logs!Unparsed ELSE Logs!ReadLine(p[i - 1], list[i])
        /\ q[i] = IF i = 0 THEN Replaying(gate) ELSE Logs!ReadLine(q[i - 1], copy[i])
    BY <1>3, <1>4, <2>3 DEF Chain
  <2>5. CASE i = 0
    BY <2>3, <2>4, <2>5 DEF Logs!Unparsed, Replaying, Shaped
  <2>6. CASE i # 0
    <3>1. i - 1 \in 0 .. n /\ ~(i <= i - 1) /\ i \in 1 .. n
      BY <1>1, <2>3, <2>6
    <3>2. Shaped(p[i - 1]) /\ q[i - 1] = Closed(p[i - 1].previous)
      BY <2>2, <3>1
    <3>3. /\ list[i] \in LogLines /\ copy[i] \in LogLines /\ copy[i].kind = list[i].kind
          /\ list[i].kind = "token_count" => copy[i].total = list[i].total
          /\ copy[i].kind = "task_started" => ~Logs!IsCleared(gate, copy[i])
      BY <1>1, <1>2, <3>1
    <3>4. /\ Shaped(Logs!ReadLine(p[i - 1], list[i]))
          /\ Logs!ReadLine(p[i - 1], list[i]).previous =
               IF list[i].kind = "token_count" /\ list[i].total # Logs!None
               THEN list[i].total ELSE p[i - 1].previous
      BY <3>2, <3>3, PreviousRead
    <3>5. Logs!ReadLine(q[i - 1], copy[i]) =
            Closed(IF copy[i].kind = "token_count" /\ copy[i].total # Logs!None
                   THEN copy[i].total ELSE p[i - 1].previous)
      BY <3>2, <3>3, ClosedRead
    <3>. QED  BY <2>3, <2>4, <2>6, <3>3, <3>4, <3>5
  <2>. QED  BY <2>5, <2>6
<1>6. q[n] = Closed(p[n].previous)
  <2>1. n \in 0 .. n /\ n \notin wrong
    <3>. HIDE DEF wrong
    <3>. QED  BY <1>1, <1>5
  <2>. HIDE DEF Closed
  <2>. QED  BY <2>1
<1>7. Logs!ParseFrom(Logs!Unparsed, list) = p[n]
  BY <1>3, ParseIsChain DEF n
<1>8. Logs!ParseFrom(Replaying(gate), copy) = q[n]
  BY <1>2, <1>4, ParseIsChain
<1>. QED  BY <1>6, <1>7, <1>8

-----------------------------------------------------------------------------
(* The client writes                                                       *)

(* The numbers that stand for nothing, and the bounds.                     *)
LEMMA LogNumbers ==
  /\ Logs!None = -1 /\ Logs!SelfTimed = -1 /\ Logs!Open = -2
  /\ NumSessions \in Nat \ {0} /\ MaxSecond \in Nat
  /\ Reports \subseteq {"both", "totals", "last"}
BY LaunchAssumption DEF Logs!None, Logs!SelfTimed, Logs!Open

(* The path whose turn it is is one of those that were listed.             *)
LEMMA PathIsListed ==
  ASSUME scan.todo \subseteq Logs!Paths, scan.todo # {}
  PROVE  Logs!Path \in scan.todo /\ Logs!Path[1] \in Logs!Sessions
           /\ Logs!Path = <<Logs!Path[1], Logs!Path[2]>>
<1>. DEFINE turns == {Logs!Turn(path) : path \in scan.todo}
<1>1. \A path \in Logs!Paths : /\ path[1] \in Logs!Sessions /\ path = <<path[1], path[2]>>
                               /\ Logs!Turn(path) \in Nat
  BY LogNumbers DEF Logs!Paths, Logs!Sessions, Logs!Turn
<1>2. turns \in SUBSET Nat /\ turns # {}
  BY <1>1
<1>3. PICK turn \in turns : \A other \in turns : turn <= other
  <2>. HIDE DEF turns
  <2>. QED  BY <1>2, LeastPlace
<1>4. \E path \in scan.todo : \A other \in scan.todo : Logs!Turn(path) <= Logs!Turn(other)
  BY <1>3
<1>5. Logs!Path \in scan.todo
  BY <1>4, Zenon DEF Logs!Path
<1>. QED  BY <1>1, <1>5

(* One more line of a session.                                             *)
LEMMA LineWritten ==
  ASSUME ClientTypes, NEW s \in Logs!Sessions, NEW line \in LogLines,
         file' = [file EXCEPT ![s] = @ \o <<line>>]
  PROVE  /\ file' \in [Logs!Sessions -> Seq(LogLines)]
         /\ Told(s)' = Logs!ReadLine(Told(s), line) /\ Retold(s)' = Logs!ReadLine(Retold(s), line)
         /\ Len(file'[s]) = Len(file[s]) + 1
         /\ \A i \in DOMAIN file'[s] : file'[s][i] = line \/ (i \in DOMAIN file[s] /\ file'[s][i] = file[s][i])
         /\ \A t \in Logs!Sessions : t # s =>
              file'[t] = file[t] /\ Told(t)' = Told(t) /\ Retold(t)' = Retold(t)
<1>1. file \in [Logs!Sessions -> Seq(LogLines)] /\ file[s] \in Seq(LogLines)
  BY DEF ClientTypes
<1>2. file'[s] = file[s] \o <<line>> /\ \A t \in Logs!Sessions : t # s => file'[t] = file[t]
  BY <1>1
<1>3. /\ file'[s] \in Seq(LogLines) /\ Len(file'[s]) = Len(file[s]) + 1
      /\ \A i \in DOMAIN file'[s] : file'[s][i] = line \/ (i \in DOMAIN file[s] /\ file'[s][i] = file[s][i])
  <2>. DEFINE one == <<line>>
              list == file[s]
  <2>1. one \in Seq(LogLines) /\ Len(one) = 1 /\ one[1] = line
    OBVIOUS
  <2>. HIDE DEF one, list
  <2>2. /\ list \o one \in Seq(LogLines) /\ Len(list \o one) = Len(list) + Len(one)
        /\ \A i \in 1 .. Len(list) + Len(one) :
             (list \o one)[i] = IF i <= Len(list) THEN list[i] ELSE one[i - Len(list)]
    BY <1>1, <2>1, ConcatProperties DEF list
  <2>3. Len(list) \in Nat /\ DOMAIN list = 1 .. Len(list)
    BY <1>1 DEF list
  <2>4. DOMAIN (list \o one) = 1 .. Len(list) + 1
    BY <2>1, <2>2, <2>3
  <2>5. ASSUME NEW i \in 1 .. Len(list) + 1
        PROVE  (list \o one)[i] = line \/ (i \in DOMAIN list /\ (list \o one)[i] = list[i])
    BY <2>1, <2>2, <2>3
  <2>6. file'[s] = list \o one
    BY <1>2 DEF list, one
  <2>7. list = file[s]
    BY DEF list
  <2>. QED  BY <2>1, <2>2, <2>4, <2>5, <2>6, <2>7
<1>4. Told(s)' = Logs!ReadLine(Told(s), line)
  <2>1. Told(s)' = Logs!ParseFrom(Logs!Unparsed, file'[s])
    BY DEF Told
  <2>2. Logs!ParseFrom(Logs!Unparsed, file[s] \o <<line>>)
          = Logs!ReadLine(Logs!ParseFrom(Logs!Unparsed, file[s]), line)
    BY <1>1, ParseLast
  <2>. QED  BY <1>2, <2>1, <2>2, Zenon DEF Told
<1>5. Retold(s)' = Logs!ReadLine(Retold(s), line)
  <2>1. Retold(s)' = Logs!ParseFrom(Replaying(Logs!SelfTimed), file'[s])
    BY DEF Retold
  <2>2. Logs!ParseFrom(Replaying(Logs!SelfTimed), file[s] \o <<line>>)
          = Logs!ReadLine(Logs!ParseFrom(Replaying(Logs!SelfTimed), file[s]), line)
    BY <1>1, ParseLast
  <2>. QED  BY <1>2, <2>1, <2>2, Zenon DEF Retold
<1>6. \A t \in Logs!Sessions : t # s => Told(t)' = Told(t) /\ Retold(t)' = Retold(t)
  BY <1>2 DEF Told, Retold
<1>7. file' \in [Logs!Sessions -> Seq(LogLines)]
  BY <1>1, <1>2, <1>3
<1>. QED  BY <1>2, <1>3, <1>4, <1>5, <1>6, <1>7

(* What has been cached and found holds on while the client writes.        *)
LEMMA FoundHoldsOn ==
  ASSUME ClientTypes, ScanTypes, ScanFits, \A path \in Logs!Paths : RowFits(path),
         Said \subseteq Said', spent' \in Nat, spent' >= spent, UNCHANGED <<row, scan, sum>>, ~quiet',
         quiet' \in BOOLEAN,
         \A t \in Logs!Sessions :
           /\ Len(file'[t]) \in Nat /\ Len(file[t]) <= Len(file'[t])
           /\ Len(file[t]) = Len(file'[t]) => Told(t).events' = Told(t).events
  PROVE  /\ ScanTypes' /\ ScanFits' /\ \A path \in Logs!Paths : RowFits(path)'
<1>1. ScanTypes'
  BY DEF ScanTypes
<1>2. \A t \in Logs!Sessions : Len(file[t]) \in Nat
  BY DEF ClientTypes
<1>3. ASSUME NEW path \in Logs!Paths PROVE RowFits(path)'
  <2>1. path[1] \in Logs!Sessions
    BY DEF Logs!Paths
  <2>2. row[path].size \in Int
    BY DEF ScanTypes
  <2>3. RowFits(path)
    OBVIOUS
  <2>. QED  BY <1>2, <2>1, <2>2, <2>3 DEF RowFits
<1>4. ScanFits'
  <2>1. scan.at = "read" => scan.todo # {} /\ scan.stamp.size <= Len(file'[Logs!Path[1]])
    <3>. SUFFICES ASSUME scan.at = "read"
                  PROVE  scan.todo # {} /\ scan.stamp.size <= Len(file'[Logs!Path[1]])
      OBVIOUS
    <3>1. scan.todo # {} /\ scan.stamp.size <= Len(file[Logs!Path[1]]) /\ scan.stamp.size \in Int
      BY DEF ScanFits, ScanTypes
    <3>2. Logs!Path[1] \in Logs!Sessions
      BY <3>1, PathIsListed DEF ScanTypes
    <3>. QED  BY <1>2, <3>1, <3>2
  <2>2. Logs!Path' = Logs!Path
    BY DEF Logs!Path
  <2>3. scan.events \subseteq Said' /\ sum <= spent'
    <3>1. sum \in Nat /\ spent \in Nat /\ sum <= spent
      BY DEF ScanFits, ScanTypes, ClientTypes
    <3>2. scan.events \subseteq Said
      BY DEF ScanFits
    <3>. QED  BY <3>1, <3>2
  <2>. QED  BY <2>1, <2>2, <2>3 DEF ScanFits
<1>. QED  BY <1>1, <1>3, <1>4

(* A token used: one event more, with the time of its line.                *)
LEMMA UseRead ==
  ASSUME NEW p \in Parsed, p.gate = Logs!Open, NEW before \in Nat, NEW at \in Stamps,
         reports \in Reports, p.previous = (IF reports = "last" THEN Logs!None ELSE before),
         NEW line, line = Logs!Counted(at, before + 1)
  PROVE  /\ line \in LogLines /\ line.kind = "token_count"
         /\ Logs!ReadLine(p, line) =
              [sawMeta |-> p.sawMeta, gate |-> Logs!Open,
               previous |-> IF reports = "last" THEN Logs!None ELSE before + 1,
               events |-> p.events \union {[at |-> at, usage |-> 1]}]
<1>1. line = [kind |-> "token_count", at |-> at,
              total |-> IF reports = "last" THEN Logs!None ELSE before + 1,
              last |-> IF reports = "totals" THEN Logs!None ELSE 1]
  BY DEF Logs!Counted, Logs!Count
<1>2. line \in LogLines /\ line.kind = "token_count" /\ line.at = at
  BY <1>1, LogNumbers DEF LogLines
<1>3. PICK a \in BOOLEAN, c \in Int, d \in SUBSET LogEvents :
        p = [sawMeta |-> a, gate |-> Logs!Open, previous |-> c, events |-> d]
  BY DEF Parsed
<1>4. Logs!ReadLine(p, line) = Logs!ReadCount(p, line)
  BY <1>2, LineKinds
<1>5. reports \in {"both", "totals", "last"}
  BY LogNumbers
<1>6. Logs!Usage(p, line) = 1
  BY <1>1, <1>3, <1>5, LogNumbers DEF Logs!Usage, Logs!Subtracting
<1>7. ~(line.total # Logs!None /\ line.total = p.previous)
  BY <1>1, <1>5, LogNumbers
<1>8. Logs!WithTotals(p, line) =
        [p EXCEPT !.previous = IF reports = "last" THEN Logs!None ELSE before + 1]
  BY <1>1, <1>3, <1>5, LogNumbers DEF Logs!WithTotals
<1>9. Logs!ReadLine(p, line) =
        [Logs!WithTotals(p, line) EXCEPT !.events = @ \union {[at |-> at, usage |-> 1]}]
  BY <1>2, <1>4, <1>6, <1>7 DEF Logs!ReadCount
<1>. QED  BY <1>2, <1>3, <1>8, <1>9

(* The same usage once more: nothing.                                      *)
LEMMA RepeatRead ==
  ASSUME NEW p \in Parsed, p.gate = Logs!Open, NEW before \in Nat, NEW at \in Stamps,
         reports \in Reports, reports # "last", p.previous = before,
         NEW line, line = Logs!Counted(at, before)
  PROVE  line \in LogLines /\ line.kind = "token_count" /\ Logs!ReadLine(p, line) = p
<1>1. line = [kind |-> "token_count", at |-> at, total |-> before,
              last |-> IF reports = "totals" THEN Logs!None ELSE 1]
  BY DEF Logs!Counted, Logs!Count
<1>2. line \in LogLines /\ line.kind = "token_count" /\ line.at = at
  BY <1>1, LogNumbers DEF LogLines
<1>3. Logs!ReadLine(p, line) = Logs!ReadCount(p, line)
  BY <1>2, LineKinds
<1>4. line.total # Logs!None /\ line.total = p.previous
  BY <1>1, LogNumbers
<1>. QED  BY <1>2, <1>3, <1>4 DEF Logs!ReadCount

(* A task of its own opens the gate of a fork.                             *)
LEMMA StartedRead ==
  ASSUME NEW p \in Parsed, NEW t \in Nat, p.gate \in {Logs!Open, Logs!SelfTimed} \union 0 .. t,
         NEW at \in Stamps, at.second = t, NEW line, line = Logs!Started(at)
  PROVE  /\ line \in LogLines /\ line.kind = "task_started" /\ line.started = t
         /\ Logs!ReadLine(p, line) = [p EXCEPT !.gate = Logs!Open]
<1>1. line = [kind |-> "task_started", at |-> at, started |-> t]
  BY DEF Logs!Started
<1>2. line \in LogLines /\ line.kind = "task_started" /\ line.started = t /\ line.at.second = t
  BY <1>1 DEF LogLines
<1>3. Logs!ReadLine(p, line) = Logs!ReadStarted(p, line)
  BY <1>2, LineKinds
<1>4. p.gate # Logs!Open => Logs!IsCleared(p.gate, line)
  BY <1>2, LogNumbers DEF Logs!IsCleared
<1>5. PICK a, b, c, d : p = [sawMeta |-> a, gate |-> b, previous |-> c, events |-> d]
  BY DEF Parsed
<1>. QED  BY <1>2, <1>3, <1>4, <1>5 DEF Logs!ReadStarted

(* A token is used: it is said once, and spent once.                       *)
LEMMA UseKeeps ==
  ASSUME LogFits, NEW s \in Logs!Sessions, Logs!Use(s)
  PROVE  LogFits'
<1>. DEFINE at == [second |-> second, n |-> writes + 1]
            line == Logs!Counted(at, used[s] + 1)
            event == [at |-> at, usage |-> 1]
<1>1. /\ place[s] = {"sessions"} /\ task[s] /\ used' = [used EXCEPT ![s] = @ + 1]
      /\ spent' = spent + 1 /\ writes' = writes + 1 /\ file' = [file EXCEPT ![s] = @ \o <<line>>]
      /\ quiet' = FALSE /\ UNCHANGED <<second, reports, place, task, row, scan, scans, sum>>
  BY DEF Logs!Use, Logs!Active, Logs!Writes, Logs!At
<1>2. ClientTypes /\ ScanTypes /\ SaidOnce
  BY DEF LogFits
<1>3. /\ at \in Stamps /\ used[s] \in Nat /\ event \in LogEvents /\ reports \in Reports
      /\ place[s] # {}
  BY <1>1, <1>2 DEF ClientTypes, Stamps, LogEvents
<1>4. /\ Told(s) \in Parsed /\ Told(s).gate = Logs!Open
      /\ Told(s).previous = (IF reports = "last" THEN Logs!None ELSE used[s])
      /\ Retold(s) \in Parsed /\ Retold(s).gate = Logs!Open
      /\ Retold(s).previous = (IF reports = "last" THEN Logs!None ELSE used[s])
      /\ ParseFits(s, Told(s)) /\ ParseFits(s, Retold(s))
  BY <1>1, <1>2, <1>3 DEF SaidOnce, ParseFits
<1>. HIDE DEF at, line
<1>5. ASSUME NEW p \in Parsed, p.gate = Logs!Open,
             p.previous = (IF reports = "last" THEN Logs!None ELSE used[s])
      PROVE  /\ line \in LogLines /\ line.kind = "token_count"
             /\ Logs!ReadLine(p, line) =
                  [sawMeta |-> p.sawMeta, gate |-> Logs!Open,
                   previous |-> IF reports = "last" THEN Logs!None ELSE used[s] + 1,
                   events |-> p.events \union {event}]
  <2>1. line = Logs!Counted(at, used[s] + 1)
    BY DEF line
  <2>. QED  BY <1>3, <1>5, <2>1, UseRead, Zenon
<1>6. /\ line \in LogLines /\ line.kind = "token_count"
      /\ Logs!ReadLine(Told(s), line) =
           [sawMeta |-> Told(s).sawMeta, gate |-> Logs!Open,
            previous |-> IF reports = "last" THEN Logs!None ELSE used[s] + 1,
            events |-> Told(s).events \union {event}]
      /\ Logs!ReadLine(Retold(s), line) =
           [sawMeta |-> Retold(s).sawMeta, gate |-> Logs!Open,
            previous |-> IF reports = "last" THEN Logs!None ELSE used[s] + 1,
            events |-> Retold(s).events \union {event}]
  BY <1>4, <1>5, Zenon
<1>7. /\ file' \in [Logs!Sessions -> Seq(LogLines)]
      /\ Told(s)' = Logs!ReadLine(Told(s), line) /\ Retold(s)' = Logs!ReadLine(Retold(s), line)
      /\ Len(file'[s]) = Len(file[s]) + 1
      /\ \A i \in DOMAIN file'[s] : file'[s][i] = line \/ (i \in DOMAIN file[s] /\ file'[s][i] = file[s][i])
      /\ \A t \in Logs!Sessions : t # s =>
           file'[t] = file[t] /\ Told(t)' = Told(t) /\ Retold(t)' = Retold(t)
  BY <1>1, <1>2, <1>6, LineWritten
<1>8. Told(s).events' = Told(s).events \union {event}
      /\ Retold(s).events' = Retold(s).events \union {event}
  BY <1>4, <1>6, <1>7 DEF Parsed
<1>9. Said' = Said \union {event}
  <2>1. \A t \in Logs!Sessions : t # s => Told(t).events' = Told(t).events
    BY <1>7
  <2>2. Said' = UNION {Told(t).events' : t \in Logs!Sessions}
    BY DEF Said
  <2>. QED  BY <1>8, <2>1, <2>2 DEF Said
<1>10. ClientTypes'
  BY <1>1, <1>2, <1>7 DEF ClientTypes
<1>11. ASSUME NEW t \in Logs!Sessions PROVE LinesFit(t)'
  <2>1. LinesFit(t)
    BY DEF LogFits
  <2>2. Len(file[s]) \in Nat
    BY <1>2 DEF ClientTypes
  <2>3. CASE t = s
    <3>1. \A i \in DOMAIN file'[s] : file'[s][i].kind = "task_started" => file'[s][i].started <= second
      BY <1>6, <1>7, <2>1, <2>3 DEF LinesFit
    <3>2. Len(file'[s]) > 0
      <4>. DEFINE n == Len(file[s])
      <4>1. n \in Nat /\ Len(file'[s]) = n + 1
        BY <1>7, <2>2
      <4>. HIDE DEF n
      <4>. QED  BY <4>1
    <3>3. place'[s] # {} /\ second' = second
      BY <1>1, <1>3
    <3>. QED  BY <2>3, <3>1, <3>2, <3>3 DEF LinesFit
  <2>4. CASE t # s
    BY <1>1, <1>7, <2>1, <2>4 DEF LinesFit
  <2>. QED  BY <2>3, <2>4
<1>12. SaidOnce'
  <2>1. ASSUME NEW t \in Logs!Sessions, place[t] # {}
        PROVE  ParseFits(t, Told(t))' /\ ParseFits(t, Retold(t))'
    <3>1. ParseFits(t, Told(t)) /\ ParseFits(t, Retold(t))
      BY <1>2, <2>1 DEF SaidOnce
    <3>2. CASE t = s
      <4>1. used'[s] = used[s] + 1
        BY <1>1, <1>2 DEF ClientTypes
      <4>2. Told(s)' \in Parsed /\ Retold(s)' \in Parsed
        <5>1. \A p \in Parsed, n \in Int :
                [sawMeta |-> p.sawMeta, gate |-> Logs!Open, previous |-> n,
                 events |-> p.events \union {event}] \in Parsed
          BY <1>3, LogNumbers DEF Parsed
        <5>2. (IF reports = "last" THEN Logs!None ELSE used[s] + 1) \in Int
          BY <1>3, LogNumbers
        <5>. QED  BY <1>4, <1>6, <1>7, <5>1, <5>2
      <4>3. /\ Told(s)'.sawMeta /\ Told(s)'.gate = Logs!Open
            /\ Told(s)'.previous = (IF reports = "last" THEN Logs!None ELSE used[s] + 1)
            /\ Retold(s)'.sawMeta /\ Retold(s)'.gate = Logs!Open
            /\ Retold(s)'.previous = (IF reports = "last" THEN Logs!None ELSE used[s] + 1)
        BY <1>4, <1>6, <1>7 DEF Parsed, ParseFits
      <4>4. Told(s)'.events \subseteq Said' /\ Retold(s)'.events \subseteq Said'
        BY <1>8, <1>9, <3>1, <3>2 DEF ParseFits
      <4>. QED  BY <1>1, <3>2, <4>1, <4>2, <4>3, <4>4 DEF ParseFits
    <3>3. CASE t # s
      <4>1. Told(t)' = Told(t) /\ Retold(t)' = Retold(t) /\ used'[t] = used[t]
        BY <1>1, <1>2, <1>7, <3>3 DEF ClientTypes
      <4>. QED  BY <1>1, <1>9, <3>1, <4>1 DEF ParseFits
    <3>. QED  BY <3>2, <3>3
  <2>2. /\ \A e \in Said : e.at.n <= writes
        /\ IsFiniteSet(Said) /\ Cardinality(Said) = spent
    BY <1>2 DEF SaidOnce
  <2>3. event.at.n = writes + 1 /\ writes \in Nat /\ spent \in Nat
    BY <1>2 DEF ClientTypes, at
  <2>4. Said \subseteq LogEvents
    <3>1. \A t \in Logs!Sessions : Told(t).events \subseteq LogEvents
      <4>. TAKE t \in Logs!Sessions
      <4>1. CASE place[t] # {}
        BY <1>2, <4>1 DEF SaidOnce, ParseFits, Parsed
      <4>2. CASE place[t] = {}
        <5>1. file[t] = <<>>
          BY <4>2 DEF LogFits, LinesFit
        <5>. QED  BY <5>1, ParseNothing DEF Told, Logs!Unparsed
      <4>. QED  BY <4>1, <4>2
    <3>. QED  BY <3>1 DEF Said
  <2>5. \A e \in Said : e.at.n \in Nat
    BY <2>4 DEF LogEvents, Stamps
  <2>6. \A e \in Said' : e.at.n <= writes'
    BY <1>1, <1>9, <2>2, <2>3, <2>5
  <2>7. event \notin Said
    BY <2>2, <2>3, <2>5
  <2>8. IsFiniteSet(Said') /\ Cardinality(Said') = spent'
    BY <1>1, <1>9, <2>2, <2>3, <2>7, FS_AddElement
  <2>. QED  BY <1>1, <2>1, <2>6, <2>8 DEF SaidOnce
<1>13. /\ ScanTypes' /\ ScanFits' /\ \A path \in Logs!Paths : RowFits(path)'
  <2>1. ScanFits /\ \A path \in Logs!Paths : RowFits(path)
    BY DEF LogFits
  <2>2. Said \subseteq Said' /\ spent' \in Nat /\ spent' >= spent
    BY <1>1, <1>2, <1>9 DEF ClientTypes
  <2>3. \A t \in Logs!Sessions :
          /\ Len(file'[t]) \in Nat /\ Len(file[t]) <= Len(file'[t])
          /\ Len(file[t]) = Len(file'[t]) => Told(t).events' = Told(t).events
    <3>1. \A t \in Logs!Sessions : Len(file[t]) \in Nat
      BY <1>2 DEF ClientTypes
    <3>2. \A t \in Logs!Sessions : t # s => Told(t).events' = Told(t).events
      BY <1>7
    <3>. QED  BY <1>7, <3>1, <3>2
  <2>4. UNCHANGED <<row, scan, sum>> /\ ~quiet' /\ quiet' \in BOOLEAN
    BY <1>1
  <2>. QED  BY <1>2, <2>1, <2>2, <2>3, <2>4, FoundHoldsOn
<1>. QED  BY <1>10, <1>11, <1>12, <1>13 DEF LogFits

(* What is said are events of one token; who has no file says nothing.     *)
LEMMA SaidAreEvents ==
  ASSUME LogFits
  PROVE  /\ Said \subseteq LogEvents
         /\ \A t \in Logs!Sessions : place[t] = {} => Told(t).events = {} /\ Retold(t).events = {}
<1>1. ASSUME NEW t \in Logs!Sessions, place[t] = {}
      PROVE  Told(t).events = {} /\ Retold(t).events = {}
  <2>1. file[t] = <<>>
    BY <1>1 DEF LogFits, LinesFit
  <2>. QED  BY <2>1, ParseNothing DEF Told, Retold, Logs!Unparsed, Replaying
<1>2. \A t \in Logs!Sessions : Told(t).events \subseteq LogEvents
  <2>. TAKE t \in Logs!Sessions
  <2>1. CASE place[t] # {}
    BY <2>1 DEF LogFits, SaidOnce, ParseFits, Parsed
  <2>. QED  BY <1>1, <2>1
<1>. QED  BY <1>1, <1>2 DEF Said

(* A line of a running session that adds no event: a report of what was    *)
(* reported before, or the task that opens the gate.                       *)
LEMMA SilentLineKeeps ==
  ASSUME LogFits, NEW s \in Logs!Sessions, place[s] # {}, NEW line \in LogLines,
         \A p \in {Told(s), Retold(s)} : Logs!ReadLine(p, line) =
           [sawMeta |-> p.sawMeta, gate |-> Logs!Open, previous |-> p.previous, events |-> p.events],
         file' = [file EXCEPT ![s] = @ \o <<line>>],
         second' \in Nat, second <= second',
         line.kind = "task_started" => line.started <= second',
         writes' = writes + 1, quiet' = FALSE,
         task' \in [Logs!Sessions -> BOOLEAN],
         \A t \in Logs!Sessions : t # s => task'[t] = task[t],
         UNCHANGED <<reports, place, used, spent, row, scan, sum>>
  PROVE  LogFits'
<1>1. ClientTypes /\ ScanTypes /\ SaidOnce
  BY DEF LogFits
<1>2. /\ Logs!ReadLine(Told(s), line) =
           [sawMeta |-> Told(s).sawMeta, gate |-> Logs!Open, previous |-> Told(s).previous,
            events |-> Told(s).events]
      /\ Logs!ReadLine(Retold(s), line) =
           [sawMeta |-> Retold(s).sawMeta, gate |-> Logs!Open, previous |-> Retold(s).previous,
            events |-> Retold(s).events]
  OBVIOUS
<1>3. /\ file' \in [Logs!Sessions -> Seq(LogLines)]
      /\ Told(s)' = Logs!ReadLine(Told(s), line) /\ Retold(s)' = Logs!ReadLine(Retold(s), line)
      /\ Len(file'[s]) = Len(file[s]) + 1
      /\ \A i \in DOMAIN file'[s] : file'[s][i] = line \/ (i \in DOMAIN file[s] /\ file'[s][i] = file[s][i])
      /\ \A t \in Logs!Sessions : t # s =>
           file'[t] = file[t] /\ Told(t)' = Told(t) /\ Retold(t)' = Retold(t)
  BY <1>1, LineWritten
<1>4. /\ Told(s)'.sawMeta = Told(s).sawMeta /\ Told(s)'.gate = Logs!Open
      /\ Told(s)'.previous = Told(s).previous /\ Told(s)'.events = Told(s).events
      /\ Retold(s)'.sawMeta = Retold(s).sawMeta /\ Retold(s)'.gate = Logs!Open
      /\ Retold(s)'.previous = Retold(s).previous /\ Retold(s)'.events = Retold(s).events
  BY <1>2, <1>3
<1>5. \A t \in Logs!Sessions : Told(t).events' = Told(t).events
  BY <1>3, <1>4
<1>6. Said' = Said
  <2>1. Said' = UNION {Told(t).events' : t \in Logs!Sessions}
    BY DEF Said
  <2>. QED  BY <1>5, <2>1 DEF Said
<1>7. ClientTypes'
  BY <1>1, <1>3 DEF ClientTypes
<1>8. \A t \in Logs!Sessions : Len(file[t]) \in Nat /\ Len(file'[t]) \in Nat
  BY <1>1, <1>3 DEF ClientTypes
<1>9. ASSUME NEW t \in Logs!Sessions PROVE LinesFit(t)'
  <2>1. LinesFit(t)
    BY DEF LogFits
  <2>2. \A i \in DOMAIN file[t] : file[t][i].kind = "task_started" => file[t][i].started <= second'
    <3>. SUFFICES ASSUME NEW i \in DOMAIN file[t], file[t][i].kind = "task_started"
                  PROVE  file[t][i].started <= second'
      OBVIOUS
    <3>1. file[t][i] \in LogLines /\ second \in Nat
      BY <1>1 DEF ClientTypes
    <3>2. file[t][i].started \in Nat
      BY <3>1 DEF LogLines
    <3>3. file[t][i].started <= second
      BY <2>1 DEF LinesFit
    <3>. QED  BY <3>1, <3>2, <3>3
  <2>3. CASE t = s
    <3>1. \A i \in DOMAIN file'[s] : file'[s][i].kind = "task_started" => file'[s][i].started <= second'
      BY <1>3, <2>2, <2>3
    <3>2. Len(file'[s]) > 0
      <4>. DEFINE n == Len(file[s])
      <4>1. n \in Nat /\ Len(file'[s]) = n + 1
        BY <1>3, <1>8
      <4>. HIDE DEF n
      <4>. QED  BY <4>1
    <3>. QED  BY <2>3, <3>1, <3>2 DEF LinesFit
  <2>4. CASE t # s
    <3>1. file'[t] = file[t] /\ task'[t] = task[t] /\ place' = place
      BY <1>3, <2>4
    <3>. QED  BY <2>1, <2>2, <3>1 DEF LinesFit
  <2>. QED  BY <2>3, <2>4
<1>10. SaidOnce'
  <2>1. ASSUME NEW t \in Logs!Sessions, place[t] # {}
        PROVE  ParseFits(t, Told(t))' /\ ParseFits(t, Retold(t))'
    <3>1. ParseFits(t, Told(t)) /\ ParseFits(t, Retold(t)) /\ second \in Nat
      BY <1>1, <2>1 DEF SaidOnce, ClientTypes
    <3>2. 0 .. second \subseteq 0 .. second'
      BY <3>1
    <3>3. CASE t = s
      <4>1. Told(s)' \in Parsed /\ Retold(s)' \in Parsed
        BY <1>2, <1>3, <3>1, <3>3, LogNumbers DEF ParseFits, Parsed
      <4>. QED  BY <1>4, <1>6, <3>1, <3>3, <4>1 DEF ParseFits
    <3>4. CASE t # s
      <4>1. Told(t)' = Told(t) /\ Retold(t)' = Retold(t) /\ task'[t] = task[t]
        BY <1>3, <3>4
      <4>. QED  BY <1>6, <3>1, <3>2, <4>1 DEF ParseFits
    <3>. QED  BY <3>3, <3>4
  <2>2. \A e \in Said' : e.at.n <= writes'
    <3>1. \A e \in Said : e.at.n \in Nat
      BY SaidAreEvents DEF LogEvents, Stamps
    <3>2. writes \in Nat /\ \A e \in Said : e.at.n <= writes
      BY <1>1 DEF SaidOnce, ClientTypes
    <3>. QED  BY <1>6, <3>1, <3>2
  <2>. QED  BY <1>1, <1>6, <2>1, <2>2 DEF SaidOnce
<1>11. /\ ScanTypes' /\ ScanFits' /\ \A path \in Logs!Paths : RowFits(path)'
  <2>1. ScanFits /\ \A path \in Logs!Paths : RowFits(path)
    BY DEF LogFits
  <2>2. Said \subseteq Said' /\ spent' \in Nat /\ spent' >= spent
    BY <1>1, <1>6 DEF ClientTypes
  <2>3. \A t \in Logs!Sessions :
          /\ Len(file'[t]) \in Nat /\ Len(file[t]) <= Len(file'[t])
          /\ Len(file[t]) = Len(file'[t]) => Told(t).events' = Told(t).events
    BY <1>3, <1>5, <1>8
  <2>4. UNCHANGED <<row, scan, sum>> /\ ~quiet' /\ quiet' \in BOOLEAN
    OBVIOUS
  <2>. QED  BY <1>1, <2>1, <2>2, <2>3, <2>4, FoundHoldsOn
<1>. QED  BY <1>7, <1>9, <1>10, <1>11 DEF LogFits

(* Usage is reported again: nothing is said that was not said before.      *)
LEMMA RepeatKeeps ==
  ASSUME LogFits, NEW s \in Logs!Sessions, Logs!Repeat(s)
  PROVE  LogFits'
<1>. DEFINE at == [second |-> second, n |-> writes + 1]
            line == Logs!Counted(at, used[s])
<1>1. /\ place[s] = {"sessions"} /\ task[s] /\ reports # "last"
      /\ writes' = writes + 1 /\ file' = [file EXCEPT ![s] = @ \o <<line>>] /\ quiet' = FALSE
      /\ UNCHANGED <<second, reports, place, used, task, spent, row, scan, sum>>
  BY DEF Logs!Repeat, Logs!Active, Logs!Writes, Logs!At
<1>2. ClientTypes /\ SaidOnce
  BY DEF LogFits
<1>3. /\ at \in Stamps /\ used[s] \in Nat /\ reports \in Reports /\ second \in Nat /\ place[s] # {}
      /\ task \in [Logs!Sessions -> BOOLEAN]
  BY <1>1, <1>2 DEF ClientTypes, Stamps
<1>. HIDE DEF at, line
<1>4. ASSUME NEW p \in {Told(s), Retold(s)}
      PROVE  /\ line \in LogLines /\ line.kind = "token_count"
             /\ Logs!ReadLine(p, line) =
                  [sawMeta |-> p.sawMeta, gate |-> Logs!Open, previous |-> p.previous,
                   events |-> p.events]
  <2>1. ParseFits(s, p)
    BY <1>2, <1>3 DEF SaidOnce
  <2>2. p \in Parsed /\ p.gate = Logs!Open /\ p.previous = used[s]
    BY <1>1, <2>1 DEF ParseFits
  <2>3. line \in LogLines /\ line.kind = "token_count" /\ Logs!ReadLine(p, line) = p
    BY <1>1, <1>3, <2>2, RepeatRead DEF line
  <2>4. p = [sawMeta |-> p.sawMeta, gate |-> p.gate, previous |-> p.previous, events |-> p.events]
    BY <2>2 DEF Parsed
  <2>. QED  BY <2>2, <2>3, <2>4
<1>5. line \in LogLines /\ line.kind = "token_count"
  BY <1>4
<1>6. \A p \in {Told(s), Retold(s)} : Logs!ReadLine(p, line) =
        [sawMeta |-> p.sawMeta, gate |-> Logs!Open, previous |-> p.previous, events |-> p.events]
  BY <1>4
<1>7. /\ second' \in Nat /\ second <= second'
      /\ line.kind = "task_started" => line.started <= second'
      /\ task' \in [Logs!Sessions -> BOOLEAN]
      /\ \A t \in Logs!Sessions : t # s => task'[t] = task[t]
  BY <1>1, <1>3, <1>5
<1>. QED  BY <1>1, <1>3, <1>5, <1>6, <1>7, SilentLineKeeps

(* A task begins: the gate of a fork is open from here on.                 *)
LEMMA NewTaskKeeps ==
  ASSUME LogFits, NEW s \in Logs!Sessions, NEW t \in second .. MaxSecond, Logs!NewTask(s, t)
  PROVE  LogFits'
<1>. DEFINE at == [second |-> t, n |-> writes + 1]
            line == Logs!Started(at)
<1>1. /\ place[s] = {"sessions"} /\ task' = [task EXCEPT ![s] = TRUE] /\ second' = t
      /\ writes' = writes + 1 /\ file' = [file EXCEPT ![s] = @ \o <<line>>] /\ quiet' = FALSE
      /\ UNCHANGED <<reports, place, used, spent, row, scan, sum>>
  BY DEF Logs!NewTask, Logs!Active, Logs!Writes, Logs!At
<1>2. ClientTypes /\ SaidOnce
  BY DEF LogFits
<1>3. /\ second \in Nat /\ t \in Nat /\ second <= t /\ at \in Stamps /\ at.second = t
      /\ place[s] # {}
      /\ task' \in [Logs!Sessions -> BOOLEAN]
      /\ \A u \in Logs!Sessions : u # s => task'[u] = task[u]
  BY <1>1, <1>2, LogNumbers DEF ClientTypes, Stamps
<1>. HIDE DEF at, line
<1>4. ASSUME NEW p \in {Told(s), Retold(s)}
      PROVE  /\ line \in LogLines /\ line.started = t
             /\ Logs!ReadLine(p, line) =
                  [sawMeta |-> p.sawMeta, gate |-> Logs!Open, previous |-> p.previous,
                   events |-> p.events]
  <2>1. ParseFits(s, p)
    BY <1>2, <1>3 DEF SaidOnce
  <2>2. p \in Parsed /\ p.gate \in {Logs!Open, Logs!SelfTimed} \union 0 .. t
    BY <1>3, <2>1 DEF ParseFits
  <2>3. line \in LogLines /\ line.started = t /\ Logs!ReadLine(p, line) = [p EXCEPT !.gate = Logs!Open]
    BY <1>3, <2>2, StartedRead DEF line
  <2>4. p = [sawMeta |-> p.sawMeta, gate |-> p.gate, previous |-> p.previous, events |-> p.events]
    BY <2>2 DEF Parsed
  <2>. QED  BY <2>3, <2>4
<1>5. line \in LogLines /\ line.started <= second'
  BY <1>1, <1>3, <1>4
<1>6. \A p \in {Told(s), Retold(s)} : Logs!ReadLine(p, line) =
        [sawMeta |-> p.sawMeta, gate |-> Logs!Open, previous |-> p.previous, events |-> p.events]
  BY <1>4
<1>. QED  BY <1>1, <1>3, <1>5, <1>6, SilentLineKeeps

(* What a fork says of the lines it holds of its parent: no event that is   *)
(* new, and the totals it goes on from.                                    *)
LEMMA ForkRead ==
  ASSUME LogFits, NEW p \in Logs!Sessions, place[p] # {},
         NEW t \in Nat, second <= t,
         \A i \in DOMAIN file[p] : file[p][i].kind = "task_started" => file[p][i].started # t,
         NEW rewritten \in BOOLEAN, NEW at \in Stamps, at.second = t,
         NEW gate \in {t, Logs!SelfTimed}
  PROVE  LET parsed == Logs!ParseFrom(Replaying(gate), Logs!Replayed(file[p], rewritten, at))
         IN  /\ parsed \in Parsed /\ parsed.sawMeta
             /\ parsed.previous = IF reports = "last" THEN Logs!None ELSE used[p]
             /\ parsed.gate \in {Logs!Open, Logs!SelfTimed} \union 0 .. t
             /\ parsed.events \subseteq Said
<1>. SUFFICES ASSUME NEW copy, copy = Logs!Replayed(file[p], rewritten, at),
                     NEW parsed, parsed = Logs!ParseFrom(Replaying(gate), copy)
              PROVE  /\ parsed \in Parsed /\ parsed.sawMeta
                     /\ parsed.previous = IF reports = "last" THEN Logs!None ELSE used[p]
                     /\ parsed.gate \in {Logs!Open, Logs!SelfTimed} \union 0 .. t
                     /\ parsed.events \subseteq Said
  OBVIOUS
<1>1. /\ file[p] \in Seq(LogLines) /\ second \in Nat /\ ParseFits(p, Told(p)) /\ ParseFits(p, Retold(p))
      /\ LinesFit(p) /\ used[p] \in Nat
  BY DEF LogFits, SaidOnce, ClientTypes
<1>2. /\ copy \in Seq(LogLines)
      /\ \A i \in DOMAIN file[p] :
           /\ copy[i].kind = file[p][i].kind /\ file[p][i] \in LogLines
           /\ file[p][i].kind = "task_started" => copy[i].started = file[p][i].started
           /\ rewritten => copy[i].at = at
      /\ ~rewritten => copy = file[p]
  BY <1>1, LinesReplayed
<1>3. \A i \in DOMAIN file[p] : file[p][i].kind = "task_started" =>
        file[p][i].started \in Nat /\ file[p][i].started < t
  <2>. TAKE i \in DOMAIN file[p]
  <2>. HAVE file[p][i].kind = "task_started"
  <2>1. file[p][i].started \in Nat
    BY <1>2 DEF LogLines
  <2>2. file[p][i].started <= second /\ file[p][i].started # t
    BY <1>1 DEF LinesFit
  <2>. QED  BY <1>1, <2>1, <2>2
<1>4. CASE gate = t \/ rewritten
  <2>1. \A i \in DOMAIN file[p] : file[p][i].kind = "task_started" => ~Logs!IsCleared(gate, copy[i])
    <3>. TAKE i \in DOMAIN file[p]
    <3>. HAVE file[p][i].kind = "task_started"
    <3>1. copy[i].started \in Nat /\ copy[i].started < t /\ (rewritten => copy[i].at.second = t)
      BY <1>2, <1>3
    <3>. QED  BY <1>4, <3>1, LogNumbers DEF Logs!IsCleared
  <2>2. gate # Logs!Open
    BY LogNumbers
  <2>3. parsed = [sawMeta |-> TRUE, gate |-> gate,
                  previous |-> Logs!ParseFrom(Logs!Unparsed, file[p]).previous, events |-> {}]
    <3>. DEFINE list == file[p]
    <3>1. /\ list \in Seq(LogLines) /\ copy = Logs!Replayed(list, rewritten, at)
          /\ \A i \in DOMAIN list : list[i].kind = "task_started" => ~Logs!IsCleared(gate, copy[i])
      BY <1>1, <2>1
    <3>. HIDE DEF list
    <3>2. Logs!ParseFrom(Replaying(gate), copy) =
            [sawMeta |-> TRUE, gate |-> gate,
             previous |-> Logs!ParseFrom(Logs!Unparsed, list).previous, events |-> {}]
      BY <2>2, <3>1, ClosedReplay
    <3>. QED  BY <3>2 DEF list
  <2>4. Logs!ParseFrom(Logs!Unparsed, file[p]).previous = Told(p).previous
    BY DEF Told
  <2>5. Told(p).previous = (IF reports = "last" THEN Logs!None ELSE used[p]) /\ Told(p).previous \in Int
    BY <1>1 DEF ParseFits, Parsed
  <2>6. gate \in Int /\ gate \in {Logs!Open, Logs!SelfTimed} \union 0 .. t
    BY LogNumbers
  <2>. QED  BY <2>3, <2>4, <2>5, <2>6 DEF Parsed
<1>5. CASE gate # t /\ ~rewritten
  <2>1. parsed = Retold(p)
    BY <1>2, <1>5 DEF Retold
  <2>2. 0 .. second \subseteq 0 .. t
    BY <1>1
  <2>. QED  BY <1>1, <2>1, <2>2 DEF ParseFits
<1>. QED  BY <1>4, <1>5

(* A session is forked: nothing is said that was not said before.          *)
LEMMA ForkKeeps ==
  ASSUME LogFits, NEW p \in Logs!Sessions, NEW s \in Logs!Sessions,
         NEW t \in second .. MaxSecond, NEW rewritten \in BOOLEAN, NEW timed \in BOOLEAN,
         Logs!Fork(p, s, t, rewritten, timed), ~blurred'
  PROVE  LogFits'
<1>. DEFINE at == [second |-> t, n |-> writes + 1]
            gate == IF timed THEN t ELSE Logs!SelfTimed
            meta == [kind |-> "session_meta", child |-> TRUE,
                     at |-> [second |-> gate, n |-> writes + 1]]
            copy == Logs!Replayed(file[p], rewritten, at)
<1>1. /\ place[p] = {"sessions"} /\ place[s] = {} /\ second' = t /\ writes' = writes + 1
      /\ quiet' = FALSE /\ place' = [place EXCEPT ![s] = {"sessions"}]
      /\ used' = [used EXCEPT ![s] = used[p]] /\ task' = [task EXCEPT ![s] = FALSE]
      /\ UNCHANGED <<reports, spent, row, scan, sum>>
  BY DEF Logs!Fork, Logs!Active, Logs!Writes
<1>2. \A i \in DOMAIN file[p] : file[p][i].kind = "task_started" => file[p][i].started # t
  BY DEF Logs!Fork
<1>3. file' = [file EXCEPT ![s] = @ \o (<<meta>> \o copy)]
  <2>1. [at EXCEPT !.second = IF timed THEN t ELSE Logs!SelfTimed] = [second |-> gate, n |-> writes + 1]
    OBVIOUS
  <2>2. Logs!Meta(TRUE, [at EXCEPT !.second = IF timed THEN t ELSE Logs!SelfTimed]) = meta
    BY <2>1, Zenon DEF Logs!Meta
  <2>. HIDE DEF meta
  <2>. QED  BY <2>2, Zenon DEF Logs!Fork, Logs!Writes, Logs!At
<1>4. /\ ClientTypes /\ ScanTypes /\ SaidOnce /\ LinesFit(s) /\ place[p] # {} /\ s # p
      /\ file[s] = <<>> /\ file[p] \in Seq(LogLines)
  BY <1>1 DEF LogFits, LinesFit, ClientTypes
<1>5. /\ second \in Nat /\ t \in Nat /\ second <= t /\ at \in Stamps /\ at.second = t
      /\ gate \in {t, Logs!SelfTimed} /\ gate \in Int /\ meta \in LogLines /\ used[p] \in Nat
  BY <1>4, LogNumbers DEF ClientTypes, Stamps, LogLines
<1>6. /\ copy \in Seq(LogLines) /\ Len(copy) = Len(file[p]) /\ DOMAIN copy = DOMAIN file[p]
      /\ \A i \in DOMAIN file[p] :
           /\ copy[i].kind = file[p][i].kind
           /\ file[p][i].kind = "task_started" => copy[i].started = file[p][i].started
  <2>. HIDE DEF at
  <2>. QED  BY <1>4, <1>5, LinesReplayed
<1>. DEFINE list == <<meta>> \o copy
<1>7. file' = [file EXCEPT ![s] = list] /\ list \in Seq(LogLines)
  <2>. HIDE DEF meta, copy
  <2>1. <<>> \o list = list /\ list \in Seq(LogLines)
    BY <1>5, <1>6
  <2>. HIDE DEF list
  <2>2. file' = [file EXCEPT ![s] = file[s] \o list]
    BY <1>3 DEF list
  <2>. QED  BY <1>4, <2>1, <2>2
<1>8. /\ Logs!ReadLine(Logs!Unparsed, meta) = Replaying(gate)
      /\ Logs!ReadLine(Replaying(Logs!SelfTimed), meta) = Replaying(Logs!SelfTimed)
  <2>1. meta.kind = "session_meta" /\ meta.child = TRUE /\ meta.at.second = gate
    OBVIOUS
  <2>2. \A q : Logs!ReadLine(q, meta) = Logs!ReadMeta(q, meta)
    BY <1>5, <2>1, LineKinds
  <2>. HIDE DEF meta, gate
  <2>3. Logs!ReadMeta(Logs!Unparsed, meta) = Replaying(gate)
    BY <2>1 DEF Logs!ReadMeta, Logs!Unparsed, Replaying
  <2>4. Logs!ReadMeta(Replaying(Logs!SelfTimed), meta) = Replaying(Logs!SelfTimed)
    BY DEF Logs!ReadMeta, Replaying
  <2>. QED  BY <2>2, <2>3, <2>4
<1>9. /\ Told(s)' = Logs!ParseFrom(Replaying(gate), copy)
      /\ Retold(s)' = Logs!ParseFrom(Replaying(Logs!SelfTimed), copy)
  <2>1. file'[s] = list
    BY <1>4, <1>7 DEF ClientTypes
  <2>. HIDE DEF meta, copy, gate
  <2>2. /\ Logs!ParseFrom(Logs!Unparsed, list) = Logs!ParseFrom(Replaying(gate), copy)
        /\ Logs!ParseFrom(Replaying(Logs!SelfTimed), list)
             = Logs!ParseFrom(Replaying(Logs!SelfTimed), copy)
    BY <1>5, <1>6, <1>8, ParseFirst
  <2>. HIDE DEF list
  <2>. QED  BY <2>1, <2>2 DEF Told, Retold
<1>10. ASSUME NEW parsed \in {Told(s)', Retold(s)'}
       PROVE  /\ parsed \in Parsed /\ parsed.sawMeta
              /\ parsed.previous = (IF reports = "last" THEN Logs!None ELSE used[p])
              /\ parsed.gate \in {Logs!Open, Logs!SelfTimed} \union 0 .. t
              /\ parsed.events \subseteq Said
  <2>1. PICK g \in {t, Logs!SelfTimed} : parsed = Logs!ParseFrom(Replaying(g), copy)
    BY <1>5, <1>9
  <2>2. copy = Logs!Replayed(file[p], rewritten, at)
    OBVIOUS
  <2>. HIDE DEF gate, at, copy
  <2>3. /\ LogFits /\ place[p] # {} /\ t \in Nat /\ second <= t /\ at \in Stamps /\ at.second = t
        /\ \A i \in DOMAIN file[p] : file[p][i].kind = "task_started" => file[p][i].started # t
    BY <1>2, <1>4, <1>5
  <2>4. parsed = Logs!ParseFrom(Replaying(g), Logs!Replayed(file[p], rewritten, at))
    BY <2>1, <2>2
  <2>. QED  BY <2>3, <2>4, ForkRead
<1>11. \A u \in Logs!Sessions : u # s =>
         file'[u] = file[u] /\ Told(u)' = Told(u) /\ Retold(u)' = Retold(u)
           /\ place'[u] = place[u] /\ used'[u] = used[u] /\ task'[u] = task[u]
  <2>. HIDE DEF list
  <2>. QED  BY <1>1, <1>4, <1>7 DEF ClientTypes, Told, Retold
<1>12. /\ file'[s] = list /\ place'[s] = {"sessions"} /\ used'[s] = used[p] /\ task'[s] = FALSE
  <2>. HIDE DEF list
  <2>. QED  BY <1>1, <1>4, <1>7 DEF ClientTypes
<1>13. Len(list) \in Nat /\ Len(list) > 0 /\ Len(file[s]) = 0 /\ \A i \in DOMAIN list :
         list[i].kind = "task_started" => list[i].started <= t
  <2>. DEFINE one == <<meta>>
  <2>1. one \in Seq(LogLines) /\ Len(one) = 1 /\ one[1] = meta
    BY <1>5
  <2>2. meta.kind # "task_started"
    OBVIOUS
  <2>3. ASSUME NEW i \in DOMAIN copy, copy[i].kind = "task_started" PROVE copy[i].started <= t
    <3>1. file[p][i] \in LogLines /\ file[p][i].kind = "task_started"
          /\ copy[i].started = file[p][i].started
      BY <1>4, <1>6, <2>3
    <3>2. file[p][i].started \in Nat /\ file[p][i].started <= second
      BY <1>6, <3>1 DEF LogFits, LinesFit, LogLines
    <3>. QED  BY <1>5, <3>1, <3>2
  <2>. HIDE DEF one, meta, copy, at, gate
  <2>4. /\ one \o copy \in Seq(LogLines) /\ Len(one \o copy) = Len(one) + Len(copy)
        /\ \A i \in 1 .. Len(one) + Len(copy) :
             (one \o copy)[i] = IF i <= Len(one) THEN one[i] ELSE copy[i - Len(one)]
    <3>1. copy \in Seq(LogLines)
      BY <1>6
    <3>. QED  BY <2>1, <3>1, ConcatProperties, Zenon
  <2>5. Len(copy) \in Nat /\ DOMAIN copy = 1 .. Len(copy)
    BY <1>6
  <2>6. DOMAIN (one \o copy) = 1 .. Len(copy) + 1 /\ Len(one \o copy) = Len(copy) + 1
    BY <2>1, <2>4, <2>5
  <2>7. ASSUME NEW i \in 1 .. Len(copy) + 1, (one \o copy)[i].kind = "task_started"
        PROVE  (one \o copy)[i].started <= t
    <3>1. CASE i = 1
      BY <2>1, <2>2, <2>4, <2>5, <2>7, <3>1
    <3>2. CASE i # 1
      <4>1. i - 1 \in 1 .. Len(copy) /\ ~(i <= 1)
        BY <2>5, <3>2
      <4>2. (one \o copy)[i] = copy[i - 1]
        BY <2>1, <2>4, <2>5, <4>1
      <4>. QED  BY <2>3, <2>5, <2>7, <4>1, <4>2
    <3>. QED  BY <3>1, <3>2
  <2>8. list = one \o copy
    BY DEF one
  <2>9. Len(file[s]) = 0
    BY <1>4
  <2>. QED  BY <2>5, <2>6, <2>7, <2>8, <2>9
<1>. HIDE DEF list, copy, meta, gate, at
<1>14. Said' = Said
  <2>1. Told(s).events = {}
    BY <1>1, SaidAreEvents
  <2>2. Told(s)'.events \subseteq Said
    BY <1>10
  <2>3. Said' = UNION {Told(u).events' : u \in Logs!Sessions}
    BY DEF Said
  <2>4. Said' \subseteq Said
    BY <1>11, <2>2, <2>3 DEF Said
  <2>5. Said \subseteq Said'
    BY <1>11, <2>1, <2>3 DEF Said
  <2>. QED  BY <2>4, <2>5
<1>15. ClientTypes'
  <2>1. writes' \in Nat /\ reports' \in Reports /\ spent' \in Nat /\ second' \in Nat
    BY <1>1, <1>4, <1>5 DEF ClientTypes
  <2>2. file' \in [Logs!Sessions -> Seq(LogLines)]
    BY <1>4, <1>7 DEF ClientTypes
  <2>3. place' \in [Logs!Sessions -> SUBSET Logs!Places]
    BY <1>1, <1>4 DEF ClientTypes, Logs!Places
  <2>4. used' \in [Logs!Sessions -> Nat] /\ task' \in [Logs!Sessions -> BOOLEAN]
    BY <1>1, <1>4, <1>5 DEF ClientTypes
  <2>. QED  BY <2>1, <2>2, <2>3, <2>4 DEF ClientTypes
<1>16. ASSUME NEW u \in Logs!Sessions PROVE LinesFit(u)'
  <2>1. CASE u = s
    BY <1>1, <1>12, <1>13, <2>1 DEF LinesFit
  <2>2. CASE u # s
    <3>1. LinesFit(u) /\ file[u] \in Seq(LogLines)
      BY <1>4 DEF LogFits, ClientTypes
    <3>2. \A i \in DOMAIN file[u] : file[u][i].kind = "task_started" => file[u][i].started <= t
      <4>. SUFFICES ASSUME NEW i \in DOMAIN file[u], file[u][i].kind = "task_started"
                    PROVE  file[u][i].started <= t
        OBVIOUS
      <4>1. file[u][i] \in LogLines
        BY <3>1
      <4>2. file[u][i].started \in Nat /\ file[u][i].started <= second
        BY <3>1, <4>1 DEF LinesFit, LogLines
      <4>. QED  BY <1>5, <4>2
    <3>. QED  BY <1>1, <1>11, <2>2, <3>1, <3>2 DEF LinesFit
  <2>. QED  BY <2>1, <2>2
<1>17. SaidOnce'
  <2>1. ASSUME NEW u \in Logs!Sessions, place'[u] # {}
        PROVE  ParseFits(u, Told(u))' /\ ParseFits(u, Retold(u))'
    <3>1. CASE u = s
      BY <1>1, <1>10, <1>12, <1>14, <3>1 DEF ParseFits
    <3>2. CASE u # s
      <4>1. ParseFits(u, Told(u)) /\ ParseFits(u, Retold(u))
        BY <1>4, <1>11, <2>1, <3>2 DEF SaidOnce
      <4>2. 0 .. second \subseteq 0 .. t
        BY <1>5
      <4>. QED  BY <1>1, <1>11, <1>14, <3>2, <4>1, <4>2 DEF ParseFits
    <3>. QED  BY <3>1, <3>2
  <2>2. \A e \in Said' : e.at.n <= writes'
    <3>1. \A e \in Said : e.at.n \in Nat
      BY SaidAreEvents DEF LogEvents, Stamps
    <3>2. writes \in Nat /\ \A e \in Said : e.at.n <= writes
      BY <1>4 DEF SaidOnce, ClientTypes
    <3>. QED  BY <1>1, <1>14, <3>1, <3>2
  <2>. QED  BY <1>1, <1>4, <1>14, <2>1, <2>2 DEF SaidOnce
<1>18. /\ ScanTypes' /\ ScanFits' /\ \A path \in Logs!Paths : RowFits(path)'
  <2>1. ScanFits /\ \A path \in Logs!Paths : RowFits(path)
    BY DEF LogFits
  <2>2. Said \subseteq Said' /\ spent' \in Nat /\ spent' >= spent
    BY <1>1, <1>4, <1>14 DEF ClientTypes
  <2>3. \A u \in Logs!Sessions :
          /\ Len(file'[u]) \in Nat /\ Len(file[u]) <= Len(file'[u])
          /\ Len(file[u]) = Len(file'[u]) => Told(u).events' = Told(u).events
    <3>1. \A u \in Logs!Sessions : Len(file[u]) \in Nat
      BY <1>4 DEF ClientTypes
    <3>. QED  BY <1>11, <1>12, <1>13, <3>1
  <2>4. UNCHANGED <<row, scan, sum>> /\ ~quiet' /\ quiet' \in BOOLEAN
    BY <1>1
  <2>. QED  BY <1>4, <2>1, <2>2, <2>3, <2>4, FoundHoldsOn
<1>. QED  BY <1>15, <1>16, <1>17, <1>18 DEF LogFits

(* A session is closed: its file is found elsewhere, and says the same.    *)
LEMMA ArchiveKeeps ==
  ASSUME LogFits, NEW s \in Logs!Sessions, NEW places \in {{"archived_sessions"}, Logs!Places},
         Logs!Archive(s, places)
  PROVE  LogFits'
<1>1. /\ place[s] = {"sessions"} /\ place' = [place EXCEPT ![s] = places] /\ quiet' = FALSE
      /\ UNCHANGED <<second, writes, reports, file, used, task, spent, row, scan, sum>>
  BY DEF Logs!Archive, Logs!Active
<1>2. ClientTypes /\ ScanTypes /\ SaidOnce
  BY DEF LogFits
<1>3. \A t : Told(t)' = Told(t) /\ Retold(t)' = Retold(t)
  BY <1>1 DEF Told, Retold
<1>4. Said' = Said
  BY <1>3 DEF Said
<1>5. /\ place' \in [Logs!Sessions -> SUBSET Logs!Places]
      /\ \A t \in Logs!Sessions : place'[t] = {} <=> place[t] = {}
  BY <1>1, <1>2 DEF ClientTypes, Logs!Places
<1>6. ClientTypes'
  BY <1>1, <1>2, <1>5 DEF ClientTypes
<1>7. \A t \in Logs!Sessions : LinesFit(t)'
  BY <1>1, <1>5 DEF LogFits, LinesFit
<1>8. SaidOnce'
  BY <1>1, <1>2, <1>3, <1>4, <1>5 DEF SaidOnce, ParseFits
<1>9. /\ ScanTypes' /\ ScanFits' /\ \A path \in Logs!Paths : RowFits(path)'
  <2>1. ScanFits /\ \A path \in Logs!Paths : RowFits(path)
    BY DEF LogFits
  <2>2. Said \subseteq Said' /\ spent' \in Nat /\ spent' >= spent
    BY <1>1, <1>2, <1>4 DEF ClientTypes
  <2>3. \A t \in Logs!Sessions :
          /\ Len(file'[t]) \in Nat /\ Len(file[t]) <= Len(file'[t])
          /\ Len(file[t]) = Len(file'[t]) => Told(t).events' = Told(t).events
    <3>1. \A t \in Logs!Sessions : Len(file[t]) \in Nat
      BY <1>2 DEF ClientTypes
    <3>. QED  BY <1>1, <1>3, <3>1
  <2>4. UNCHANGED <<row, scan, sum>> /\ ~quiet' /\ quiet' \in BOOLEAN
    BY <1>1
  <2>. QED  BY <1>2, <2>1, <2>2, <2>3, <2>4, FoundHoldsOn
<1>. QED  BY <1>6, <1>7, <1>8, <1>9 DEF LogFits

-----------------------------------------------------------------------------
(* The scanner reads                                                       *)

(* The number of members is what it is outside the instance.               *)
LEMMA CardinalityOfLogs == \A S : Logs!Cardinality(S) = Cardinality(S)
BY Zenon DEF Logs!Cardinality, Cardinality

(* The sum of events of one token each is their number.                    *)
LEMMA OneTokenEach ==
  ASSUME NEW events \in SUBSET LogEvents, IsFiniteSet(events)
  PROVE  Logs!Aggregated(events) = Cardinality(events)
<1>. DEFINE tokens == UNION {{event} \X (1 .. event.usage) : event \in events}
            f == [event \in events |-> <<event, 1>>]
<1>1. \A event \in events : event.usage = 1
  BY DEF LogEvents
<1>2. \A event \in events : {event} \X (1 .. event.usage) = {<<event, 1>>}
  <2>. TAKE event \in events
  <2>1. event.usage = 1 /\ 1 .. 1 = {1}
    BY <1>1
  <2>2. {event} \X {1} = {<<event, 1>>}
    OBVIOUS
  <2>. QED  BY <2>1, <2>2
<1>3. tokens = {<<event, 1>> : event \in events}
  BY <1>2
<1>4. /\ f \in [events -> tokens]
      /\ \A x, y \in events : f[x] = f[y] => x = y
      /\ \A token \in tokens : \E x \in events : f[x] = token
  <2>. HIDE DEF tokens
  <2>. QED  BY <1>3
<1>. HIDE DEF f, tokens
<1>5. Cardinality(tokens) = Cardinality(events)
  BY <1>4, PairedSets
<1>. QED  BY <1>5, CardinalityOfLogs DEF Logs!Aggregated, tokens

(* While the client is at rest its files say what they said.               *)
LEMMA ClientRests ==
  ASSUME LogFits, UNCHANGED <<second, writes, reports, file, place, used, task, spent>>
  PROVE  /\ ClientTypes' /\ SaidOnce' /\ \A s \in Logs!Sessions : LinesFit(s)'
         /\ Said' = Said /\ \A s \in Logs!Sessions : Told(s)' = Told(s)
<1>1. \A s : Told(s)' = Told(s) /\ Retold(s)' = Retold(s)
  BY DEF Told, Retold
<1>2. Said' = Said
  BY <1>1 DEF Said
<1>3. ClientTypes'
  BY DEF LogFits, ClientTypes
<1>4. SaidOnce'
  BY <1>1, <1>2 DEF LogFits, SaidOnce, ParseFits
<1>5. \A s \in Logs!Sessions : LinesFit(s)'
  BY DEF LogFits, LinesFit
<1>. QED  BY <1>1, <1>2, <1>3, <1>4, <1>5

(* A file has been dealt with: its row holds what it says, or nothing, and *)
(* what it says has been found unless it is gone or could not be read.     *)
LEMMA DoneKeeps ==
  ASSUME LogFits, UNCHANGED <<second, writes, reports, file, place, used, task, spent, sum>>,
         scan.todo # {}, scan.at # "idle",
         NEW events, events \subseteq Said, scan' = Logs!Done(events),
         NEW stored \in [size : Int, modified : Int, events : SUBSET LogEvents],
         row' = [row EXCEPT ![Logs!Path] = stored],
         stored.size <= Len(file[Logs!Path[1]]), stored.events \subseteq Said,
         stored.size = Len(file[Logs!Path[1]]) => stored.events = Told(Logs!Path[1]).events,
         quiet' \in BOOLEAN,
         quiet' => quiet /\ (Logs!Path[2] \in place[Logs!Path[1]] =>
                               Told(Logs!Path[1]).events \subseteq events)
  PROVE  LogFits'
<1>1. ScanTypes /\ ScanFits /\ \A path \in Logs!Paths : RowFits(path)
  BY DEF LogFits
<1>2. /\ ClientTypes' /\ SaidOnce' /\ \A s \in Logs!Sessions : LinesFit(s)'
      /\ Said' = Said /\ \A s \in Logs!Sessions : Told(s)' = Told(s)
  BY ClientRests
<1>. PICK now : now = Logs!Path
  OBVIOUS
<1>3. now \in scan.todo /\ now \in Logs!Paths /\ now[1] \in Logs!Sessions /\ now = <<now[1], now[2]>>
  BY <1>1, PathIsListed DEF ScanTypes
<1>4. scan' = [at |-> "stat", todo |-> scan.todo \ {now}, seen |-> scan.seen, stamp |-> Logs!NoRow,
               events |-> scan.events \union events]
  <2>1. \E a, b, c, d, e : scan = [at |-> a, todo |-> b, seen |-> c, stamp |-> d, events |-> e]
    BY <1>1 DEF ScanTypes
  <2>. QED  BY <2>1 DEF Logs!Done
<1>5. Said \subseteq LogEvents
  BY SaidAreEvents
<1>6. /\ scan.seen \subseteq Logs!Paths /\ scan.todo \subseteq Logs!Paths
      /\ scan.events \subseteq Said
  BY <1>1 DEF ScanTypes, ScanFits
<1>7. ScanTypes'
  <2>1. scan' \in [at : {"idle", "stat", "read"}, todo : SUBSET Logs!Paths, seen : SUBSET Logs!Paths,
                   stamp : [size : Int, modified : Int, events : {{}}] \union [size : Int, modified : Int],
                   events : SUBSET LogEvents]
    BY <1>4, <1>5, <1>6, LogNumbers DEF Logs!NoRow
  <2>2. row' = [path \in Logs!Paths |-> row'[path]]
        /\ \A path \in Logs!Paths : row'[path] \in [size : Int, modified : Int, events : SUBSET LogEvents]
    BY <1>1 DEF ScanTypes
  <2>. QED  BY <1>1, <2>1, <2>2 DEF ScanTypes
<1>8. ASSUME NEW path \in Logs!Paths PROVE RowFits(path)'
  <2>1. RowFits(path) /\ path[1] \in Logs!Sessions
    BY <1>1 DEF Logs!Paths
  <2>2. CASE path = now
    <3>1. row'[path] = stored
      BY <1>1, <2>2 DEF ScanTypes
    <3>. QED  BY <1>2, <2>1, <2>2, <3>1 DEF RowFits
  <2>3. CASE path # now
    <3>1. row'[path] = row[path]
      BY <1>1, <2>3 DEF ScanTypes
    <3>. QED  BY <1>2, <2>1, <3>1 DEF RowFits
  <2>. QED  BY <2>2, <2>3
<1>9. ScanFits'
  <2>1. scan'.at = "stat" /\ scan'.todo = scan.todo \ {now} /\ scan'.events = scan.events \union events
    BY <1>4
  <2>2. ASSUME quiet', NEW s \in Logs!Sessions, place[s] # {}
        PROVE  \/ Told(s).events \subseteq scan'.events
               \/ \E directory \in place[s] : <<s, directory>> \in scan'.todo
    <3>1. CASE Told(s).events \subseteq scan.events
      BY <2>1, <3>1
    <3>2. CASE \E directory \in place[s] : <<s, directory>> \in scan.todo
      <4>1. PICK directory \in place[s] : <<s, directory>> \in scan.todo
        BY <3>2
      <4>2. CASE <<s, directory>> = now
        BY <2>1, <2>2, <4>2
      <4>3. CASE <<s, directory>> # now
        BY <2>1, <4>1, <4>3
      <4>. QED  BY <4>2, <4>3
    <3>. QED  BY <1>1, <2>2, <3>1, <3>2 DEF ScanFits
  <2>3. scan'.events \subseteq Said' /\ sum' <= spent'
    BY <1>1, <1>2, <1>6, <2>1 DEF ScanFits
  <2>. QED  BY <1>2, <2>1, <2>2, <2>3 DEF ScanFits
<1>. QED  BY <1>2, <1>7, <1>8, <1>9 DEF LogFits

(* A scan begins with every file there is.                                 *)
LEMMA StartScanKeeps ==
  ASSUME LogFits, Logs!StartScan
  PROVE  LogFits'
<1>1. ScanTypes /\ ScanFits /\ \A path \in Logs!Paths : RowFits(path)
  BY DEF LogFits
<1>2. UNCHANGED <<second, writes, reports, file, place, used, task, spent, row, sum>> /\ quiet' = TRUE
  BY DEF Logs!StartScan, Logs!clientVars
<1>3. /\ ClientTypes' /\ SaidOnce' /\ \A s \in Logs!Sessions : LinesFit(s)'
      /\ Said' = Said /\ \A s \in Logs!Sessions : Told(s)' = Told(s)
  BY <1>2, ClientRests
<1>4. scan' = [at |-> "stat", todo |-> Logs!Listing, seen |-> Logs!Listing, stamp |-> Logs!NoRow,
               events |-> {}]
  BY DEF Logs!StartScan, Logs!Idle
<1>5. Logs!Listing \subseteq Logs!Paths
  BY DEF Logs!Listing
<1>6. ScanTypes'
  <2>1. scan' \in [at : {"idle", "stat", "read"}, todo : SUBSET Logs!Paths, seen : SUBSET Logs!Paths,
                   stamp : [size : Int, modified : Int, events : {{}}] \union [size : Int, modified : Int],
                   events : SUBSET LogEvents]
    BY <1>4, <1>5, LogNumbers DEF Logs!NoRow
  <2>. QED  BY <1>1, <1>2, <2>1 DEF ScanTypes
<1>7. \A path \in Logs!Paths : RowFits(path)'
  <2>. SUFFICES ASSUME NEW path \in Logs!Paths PROVE RowFits(path)'
    OBVIOUS
  <2>1. RowFits(path) /\ path[1] \in Logs!Sessions
    BY <1>1 DEF Logs!Paths
  <2>. QED  BY <1>2, <1>3, <2>1 DEF RowFits
<1>8. \A s \in Logs!Sessions : place[s] # {} => \E directory \in place[s] : <<s, directory>> \in scan'.todo
  <2>. SUFFICES ASSUME NEW s \in Logs!Sessions, place[s] # {}
                PROVE  \E directory \in place[s] : <<s, directory>> \in Logs!Listing
    BY <1>4
  <2>1. PICK directory \in place[s] : directory = "sessions" \/ "sessions" \notin place[s]
    OBVIOUS
  <2>2. directory \in Logs!Places
    BY DEF LogFits, ClientTypes
  <2>. QED  BY <2>1, <2>2 DEF Logs!Listing, Logs!Paths
<1>9. ScanFits'
  BY <1>1, <1>2, <1>3, <1>4, <1>8 DEF ScanFits
<1>. QED  BY <1>3, <1>6, <1>7, <1>9 DEF LogFits

(* Numbers of a file that is looked at.                                    *)
LEMMA Looked ==
  ASSUME LogFits, scan.todo # {}, Logs!Exists(Logs!Path)
  PROVE  /\ Logs!Fingerprint(Logs!Path) \in [size : Int, modified : Int]
         /\ Logs!Fingerprint(Logs!Path).size = Len(file[Logs!Path[1]])
<1>. PICK now : now = Logs!Path
  OBVIOUS
<1>1. now \in Logs!Paths /\ now[1] \in Logs!Sessions
  BY PathIsListed DEF LogFits, ScanTypes
<1>. DEFINE list == file[now[1]]
            n == Len(list)
<1>2. list \in Seq(LogLines) /\ n > 0
  <2>1. place[now[1]] # {}
    BY DEF Logs!Exists
  <2>. QED  BY <1>1, <2>1 DEF LogFits, LinesFit, ClientTypes
<1>3. Logs!Fingerprint(now) = [size |-> n, modified |-> list[n].at.n]
  BY DEF Logs!Fingerprint, Logs!Lines, Logs!Last
<1>. HIDE DEF list
<1>4. n \in Nat /\ list[n] \in LogLines
  BY <1>2
<1>5. list[n].at.n \in Int
  BY <1>4 DEF LogLines, Stamps
<1>. HIDE DEF n
<1>. QED  BY <1>3, <1>4, <1>5 DEF n, list

(* A file that is gone, one that is cached, and one that is to be read.    *)
LEMMA MissingKeeps ==
  ASSUME LogFits, Logs!Missing
  PROVE  LogFits'
<1>. PICK now : now = Logs!Path
  OBVIOUS
<1>1. /\ scan.at = "stat" /\ scan.todo # {} /\ now[2] \notin place[now[1]]
      /\ row' = [row EXCEPT ![Logs!Path] = Logs!NoRow] /\ scan' = Logs!Done({})
      /\ UNCHANGED <<second, writes, reports, file, place, used, task, spent, sum, quiet>>
  BY DEF Logs!Missing, Logs!Reading, Logs!Exists, Logs!clientVars
<1>2. now[1] \in Logs!Sessions /\ Len(file[now[1]]) \in Nat /\ quiet \in BOOLEAN
  BY <1>1, PathIsListed DEF LogFits, ScanTypes, ClientTypes
<1>3. /\ Logs!NoRow \in [size : Int, modified : Int, events : SUBSET LogEvents]
      /\ Logs!NoRow.size = -1 /\ Logs!NoRow.events = {}
  BY LogNumbers DEF Logs!NoRow
<1>4. Logs!NoRow.size <= Len(file[now[1]]) /\ Logs!NoRow.size # Len(file[now[1]])
  BY <1>2, <1>3
<1>. QED  BY <1>1, <1>2, <1>3, <1>4, DoneKeeps

(* A row of the size and time of its file is what the file says.           *)
LEMMA HitKeeps ==
  ASSUME LogFits, Logs!Hit
  PROVE  LogFits'
<1>. PICK now : now = Logs!Path
  OBVIOUS
<1>1. /\ scan.at = "stat" /\ scan.todo # {} /\ Logs!Exists(now)
      /\ row[now].size = Logs!Fingerprint(now).size /\ scan' = Logs!Done(row[now].events)
      /\ UNCHANGED <<second, writes, reports, file, place, used, task, spent, row, sum, quiet>>
  BY DEF Logs!Hit, Logs!Reading, Logs!SameStamp, Logs!clientVars
<1>2. now \in Logs!Paths /\ now[1] \in Logs!Sessions
  BY <1>1, PathIsListed DEF LogFits, ScanTypes
<1>3. /\ RowFits(now) /\ DOMAIN row = Logs!Paths /\ quiet \in BOOLEAN
      /\ row[now] \in [size : Int, modified : Int, events : SUBSET LogEvents]
  BY <1>2 DEF LogFits, ScanTypes
<1>4. row[now].size = Len(file[now[1]])
  BY <1>1, Looked
<1>5. row[now].events = Told(now[1]).events /\ row[now].events \subseteq Said
      /\ row[now].size <= Len(file[now[1]])
  BY <1>3, <1>4 DEF RowFits
<1>6. row' = [row EXCEPT ![now] = row[now]]
  <2>1. row = [path \in Logs!Paths |-> row[path]]
    BY DEF LogFits, ScanTypes
  <2>. QED  BY <1>1, <1>2, <2>1
<1>. QED  BY <1>1, <1>3, <1>4, <1>5, <1>6, DoneKeeps

(* A file that has changed is to be read.                                  *)
LEMMA MissKeeps ==
  ASSUME LogFits, Logs!Miss
  PROVE  LogFits'
<1>1. /\ scan.at = "stat" /\ scan.todo # {} /\ Logs!Exists(Logs!Path)
      /\ scan' = [scan EXCEPT !.at = "read", !.stamp = Logs!Fingerprint(Logs!Path)]
      /\ UNCHANGED <<second, writes, reports, file, place, used, task, spent, row, sum, quiet>>
  BY DEF Logs!Miss, Logs!Reading, Logs!clientVars
<1>2. ScanTypes /\ ScanFits /\ \A path \in Logs!Paths : RowFits(path)
  BY DEF LogFits
<1>3. /\ ClientTypes' /\ SaidOnce' /\ \A s \in Logs!Sessions : LinesFit(s)'
      /\ Said' = Said /\ \A s \in Logs!Sessions : Told(s)' = Told(s)
  BY <1>1, ClientRests
<1>. DEFINE stamp == Logs!Fingerprint(Logs!Path)
<1>4. stamp \in [size : Int, modified : Int] /\ stamp.size = Len(file[Logs!Path[1]])
  BY <1>1, Looked
<1>. HIDE DEF stamp
<1>5. scan' = [at |-> "read", todo |-> scan.todo, seen |-> scan.seen, stamp |-> stamp,
               events |-> scan.events]
  <2>1. \E a, b, c, d, e : scan = [at |-> a, todo |-> b, seen |-> c, stamp |-> d, events |-> e]
    BY <1>2 DEF ScanTypes
  <2>. QED  BY <1>1, <2>1 DEF stamp
<1>6. /\ scan.seen \subseteq Logs!Paths /\ scan.todo \subseteq Logs!Paths
      /\ scan.events \subseteq LogEvents
  BY <1>2 DEF ScanTypes
<1>7. ScanTypes'
  <2>1. scan' \in [at : {"idle", "stat", "read"}, todo : SUBSET Logs!Paths, seen : SUBSET Logs!Paths,
                   stamp : [size : Int, modified : Int, events : {{}}] \union [size : Int, modified : Int],
                   events : SUBSET LogEvents]
    BY <1>4, <1>5, <1>6
  <2>. QED  BY <1>1, <1>2, <2>1 DEF ScanTypes
<1>8. \A path \in Logs!Paths : RowFits(path)'
  <2>. SUFFICES ASSUME NEW path \in Logs!Paths PROVE RowFits(path)'
    OBVIOUS
  <2>1. RowFits(path) /\ path[1] \in Logs!Sessions
    BY <1>2 DEF Logs!Paths
  <2>. QED  BY <1>1, <1>3, <2>1 DEF RowFits
<1>9. ScanFits'
  <2>1. scan'.todo = scan.todo /\ scan'.events = scan.events /\ scan'.at = "read" /\ scan'.stamp = stamp
    BY <1>5
  <2>2. Logs!Path' = Logs!Path
    BY <2>1 DEF Logs!Path
  <2>3. scan'.stamp.size <= Len(file'[Logs!Path'[1]])
    <3>1. Logs!Path[1] \in Logs!Sessions
      BY <1>1, <1>6, PathIsListed
    <3>2. Len(file[Logs!Path[1]]) \in Nat
      BY <3>1 DEF LogFits, ClientTypes
    <3>. QED  BY <1>1, <1>4, <2>1, <2>2, <3>2
  <2>. QED  BY <1>1, <1>2, <1>3, <2>1, <2>3 DEF ScanFits
<1>. QED  BY <1>3, <1>7, <1>8, <1>9 DEF LogFits

(* What is read now is stored under the size seen before: a row that is    *)
(* too short for the file is looked at again.                              *)
LEMMA ReadKeeps ==
  ASSUME LogFits, Logs!Read
  PROVE  LogFits'
<1>. PICK now : now = Logs!Path
  OBVIOUS
<1>. DEFINE found == Told(now[1]).events
            stored == Logs!Row(scan.stamp, found)
<1>1. ScanTypes /\ ScanFits /\ quiet \in BOOLEAN
  BY DEF LogFits, ScanTypes
<1>2. Logs!ParseJsonl(Logs!Lines(now)) = found
  BY Zenon DEF Logs!ParseJsonl, Logs!Lines, Told
<1>3. /\ scan.at = "read" /\ row' = [row EXCEPT ![now] = stored] /\ scan' = Logs!Done(found)
      /\ UNCHANGED <<second, writes, reports, file, place, used, task, spent, sum, quiet>>
  BY <1>2 DEF Logs!Read, Logs!clientVars
<1>4. scan.todo # {} /\ scan.stamp.size <= Len(file[now[1]]) /\ scan.stamp.size \in Int
      /\ scan.stamp.modified \in Int
  BY <1>1, <1>3 DEF ScanFits, ScanTypes
<1>5. now[1] \in Logs!Sessions
  BY <1>1, <1>4, PathIsListed DEF ScanTypes
<1>6. found \subseteq Said /\ found \subseteq LogEvents
  BY <1>5, SaidAreEvents DEF Said
<1>7. /\ stored = [size |-> scan.stamp.size, modified |-> scan.stamp.modified, events |-> found]
      /\ stored \in [size : Int, modified : Int, events : SUBSET LogEvents]
  BY <1>4, <1>6 DEF Logs!Row
<1>8. stored.size = scan.stamp.size /\ stored.events = found
  BY <1>7
<1>. HIDE DEF stored, found
<1>9. found = Told(now[1]).events
  BY DEF found
<1>. QED  BY <1>1, <1>3, <1>4, <1>6, <1>7, <1>8, <1>9, DoneKeeps

(* What could not be read is not counted, and the scan is not quiet.       *)
LEMMA ReadFailsKeeps ==
  ASSUME LogFits, Logs!ReadFails
  PROVE  LogFits'
<1>. PICK now : now = Logs!Path
  OBVIOUS
<1>1. /\ scan.at = "read" /\ row' = [row EXCEPT ![Logs!Path] = Logs!NoRow] /\ scan' = Logs!Done({})
      /\ quiet' = FALSE
      /\ UNCHANGED <<second, writes, reports, file, place, used, task, spent, sum>>
  BY DEF Logs!ReadFails, Logs!clientVars
<1>2. scan.todo # {}
  BY <1>1 DEF LogFits, ScanFits
<1>3. now[1] \in Logs!Sessions /\ Len(file[now[1]]) \in Nat
  BY <1>2, PathIsListed DEF LogFits, ScanTypes, ClientTypes
<1>4. /\ Logs!NoRow \in [size : Int, modified : Int, events : SUBSET LogEvents]
      /\ Logs!NoRow.size = -1 /\ Logs!NoRow.events = {}
  BY LogNumbers DEF Logs!NoRow
<1>5. Logs!NoRow.size <= Len(file[now[1]]) /\ Logs!NoRow.size # Len(file[now[1]])
  BY <1>3, <1>4
<1>. QED  BY <1>1, <1>2, <1>4, <1>5, DoneKeeps

(* A quiet scan has found what was said; no scan has found more.           *)
LEMMA FinishKeeps ==
  ASSUME LogFits, Logs!Finish
  PROVE  LogFits'
<1>1. /\ scan.at = "stat" /\ scan.todo = {}
      /\ row' = [path \in Logs!Paths |-> IF path \in scan.seen THEN row[path] ELSE Logs!NoRow]
      /\ sum' = Logs!Aggregated(scan.events) /\ scan' = Logs!Idle
      /\ UNCHANGED <<second, writes, reports, file, place, used, task, spent, quiet>>
  BY DEF Logs!Finish, Logs!clientVars
<1>2. ClientTypes /\ ScanTypes /\ ScanFits /\ SaidOnce /\ \A path \in Logs!Paths : RowFits(path)
  BY DEF LogFits
<1>3. /\ ClientTypes' /\ SaidOnce' /\ \A s \in Logs!Sessions : LinesFit(s)'
      /\ Said' = Said /\ \A s \in Logs!Sessions : Told(s)' = Told(s)
  BY <1>1, ClientRests
<1>4. /\ Said \subseteq LogEvents /\ scan.events \subseteq Said
      /\ \A t \in Logs!Sessions : place[t] = {} => Told(t).events = {}
  BY <1>2, SaidAreEvents DEF ScanFits
<1>5. /\ IsFiniteSet(Said) /\ Cardinality(Said) = spent /\ spent \in Nat
      /\ IsFiniteSet(scan.events) /\ Cardinality(scan.events) <= spent
      /\ Cardinality(scan.events) \in Nat
  BY <1>2, <1>4, FS_Subset, FS_CardinalityType DEF SaidOnce, ClientTypes
<1>6. sum' = Cardinality(scan.events)
  <2>1. scan.events \in SUBSET LogEvents
    BY <1>4
  <2>. QED  BY <1>1, <1>5, <2>1, OneTokenEach
<1>7. quiet => scan.events = Said
  <2>1. \A s \in Logs!Sessions : quiet => Told(s).events \subseteq scan.events
    BY <1>1, <1>2, <1>4 DEF ScanFits
  <2>. QED  BY <1>4, <2>1 DEF Said
<1>8. scan' = [at |-> "idle", todo |-> {}, seen |-> {}, stamp |-> Logs!NoRow, events |-> {}]
  BY <1>1 DEF Logs!Idle
<1>9. /\ Logs!NoRow \in [size : Int, modified : Int, events : SUBSET LogEvents]
      /\ Logs!NoRow.size = -1 /\ Logs!NoRow.events = {}
  BY LogNumbers DEF Logs!NoRow
<1>10. ScanTypes'
  <2>1. scan' \in [at : {"idle", "stat", "read"}, todo : SUBSET Logs!Paths, seen : SUBSET Logs!Paths,
                   stamp : [size : Int, modified : Int, events : {{}}] \union [size : Int, modified : Int],
                   events : SUBSET LogEvents]
    BY <1>8, LogNumbers DEF Logs!NoRow
  <2>2. row' = [path \in Logs!Paths |-> row'[path]]
        /\ \A path \in Logs!Paths : row'[path] \in [size : Int, modified : Int, events : SUBSET LogEvents]
    BY <1>1, <1>2, <1>9 DEF ScanTypes
  <2>3. sum' \in Nat /\ quiet' \in BOOLEAN
    BY <1>1, <1>2, <1>5, <1>6 DEF ScanTypes
  <2>. QED  BY <2>1, <2>2, <2>3 DEF ScanTypes
<1>11. ASSUME NEW path \in Logs!Paths PROVE RowFits(path)'
  <2>1. RowFits(path) /\ path[1] \in Logs!Sessions
    BY <1>2 DEF Logs!Paths
  <2>2. Len(file[path[1]]) \in Nat
    BY <1>2, <2>1 DEF ClientTypes
  <2>3. CASE path \in scan.seen
    <3>1. row'[path] = row[path]
      BY <1>1, <2>3
    <3>. QED  BY <1>1, <1>3, <2>1, <3>1 DEF RowFits
  <2>4. CASE path \notin scan.seen
    <3>1. row'[path] = Logs!NoRow
      BY <1>1, <2>4
    <3>2. -1 <= Len(file[path[1]]) /\ -1 # Len(file[path[1]])
      BY <2>2
    <3>. QED  BY <1>1, <1>3, <1>9, <3>1, <3>2 DEF RowFits
  <2>. QED  BY <2>3, <2>4
<1>12. ScanFits'
  <2>1. sum' <= spent' /\ (quiet' => sum' = spent')
    BY <1>1, <1>5, <1>6, <1>7
  <2>. QED  BY <1>8, <2>1 DEF ScanFits
<1>. QED  BY <1>3, <1>10, <1>11, <1>12 DEF LogFits

-----------------------------------------------------------------------------
(* From the first line on                                                  *)

(* Three lines, one after the other.                                       *)
LEMMA ParseThree ==
  ASSUME NEW start, NEW a \in LogLines, NEW b \in LogLines, NEW c \in LogLines
  PROVE  Logs!ParseFrom(start, <<a, b, c>>)
           = Logs!ReadLine(Logs!ReadLine(Logs!ReadLine(start, a), b), c)
<1>. DEFINE list == <<a, b, c>>
<1>1. /\ list \in Seq(LogLines) /\ Len(list) = 3 /\ 3 \in Nat
      /\ list[1] = a /\ list[2] = b /\ list[3] = c
  OBVIOUS
<1>. HIDE DEF list
<1>2. PICK known : Chain(start, list, 3, known)
  BY <1>1, ChainExists
<1>3. Logs!ParseFrom(start, list) = known[3]
  BY <1>1, <1>2, ParseIsChain
<1>4. \A i \in 0 .. 3 : known[i] = IF i = 0 THEN start ELSE Logs!ReadLine(known[i - 1], list[i])
  BY <1>2 DEF Chain
<1>5. /\ known[0] = start /\ known[1] = Logs!ReadLine(known[0], list[1])
      /\ known[2] = Logs!ReadLine(known[1], list[2]) /\ known[3] = Logs!ReadLine(known[2], list[3])
  BY <1>4
<1>6. known[3] = Logs!ReadLine(Logs!ReadLine(Logs!ReadLine(start, a), b), c)
  BY <1>1, <1>5
<1>. QED  BY <1>3, <1>6 DEF list

(* What is known of a session that has begun a task.                       *)
Opened == [sawMeta |-> TRUE, gate |-> Logs!Open, previous |-> Logs!None, events |-> {}]

(* Its first lines open it; in a fork the first is no longer the first.    *)
LEMMA FirstLines ==
  ASSUME NEW a \in LogLines, a.kind = "session_meta", a.child = FALSE,
         NEW b \in LogLines, b.kind = "task_started", b.started = 0, b.at.second = 0
  PROVE  /\ Logs!ReadLine(Logs!Unparsed, a) = Opened
         /\ Logs!ReadLine(Opened, b) = Opened
         /\ Logs!ReadLine(Replaying(Logs!SelfTimed), a) = Replaying(Logs!SelfTimed)
         /\ Logs!ReadLine(Replaying(Logs!SelfTimed), b) = Opened
<1>1. \A p : /\ Logs!ReadLine(p, a) = Logs!ReadMeta(p, a)
            /\ Logs!ReadLine(p, b) = Logs!ReadStarted(p, b)
  BY LineKinds
<1>2. Logs!ReadMeta(Logs!Unparsed, a) = Opened
  BY DEF Logs!ReadMeta, Logs!Unparsed, Opened
<1>3. Logs!ReadStarted(Opened, b) = Opened
  BY DEF Logs!ReadStarted, Opened
<1>4. Logs!ReadMeta(Replaying(Logs!SelfTimed), a) = Replaying(Logs!SelfTimed)
  BY DEF Logs!ReadMeta, Replaying
<1>5. Logs!ReadStarted(Replaying(Logs!SelfTimed), b) = Opened
  <2>1. Logs!IsCleared(Logs!SelfTimed, b)
    BY DEF Logs!IsCleared
  <2>2. Replaying(Logs!SelfTimed).gate = Logs!SelfTimed /\ Logs!SelfTimed # Logs!Open
    BY LogNumbers DEF Replaying
  <2>3. Logs!ReadStarted(Replaying(Logs!SelfTimed), b)
          = [Replaying(Logs!SelfTimed) EXCEPT !.gate = Logs!Open]
    BY <2>1, <2>2, Zenon DEF Logs!ReadStarted
  <2>. QED  BY <2>3 DEF Replaying, Opened
<1>. QED  BY <1>1, <1>2, <1>3, <1>4, <1>5

(* Its first count is an event of one token.                               *)
LEMMA FirstCount ==
  ASSUME reports \in Reports, NEW c \in LogLines, c.kind = "token_count",
         c.total = (IF reports = "last" THEN Logs!None ELSE 1),
         c.last = (IF reports = "totals" THEN Logs!None ELSE 1),
         NEW event \in LogEvents, event.at = c.at, event.usage = 1
  PROVE  Logs!ReadLine(Opened, c) =
           [sawMeta |-> TRUE, gate |-> Logs!Open,
            previous |-> IF reports = "last" THEN Logs!None ELSE 1, events |-> {event}]
<1>1. Logs!ReadLine(Opened, c) = Logs!ReadCount(Opened, c)
  BY LineKinds
<1>2. Opened.previous = Logs!None /\ Opened.gate = Logs!Open
  BY DEF Opened
<1>3. Logs!Usage(Opened, c) = 1
  BY <1>2, LogNumbers DEF Logs!Usage, Logs!Subtracting
<1>4. Logs!WithTotals(Opened, c) =
        [sawMeta |-> TRUE, gate |-> Logs!Open,
         previous |-> IF reports = "last" THEN Logs!None ELSE 1, events |-> {}]
  BY LogNumbers DEF Logs!WithTotals, Opened
<1>5. [at |-> c.at, usage |-> Logs!Usage(Opened, c)] = event
  BY <1>3 DEF LogEvents
<1>6. ~(Logs!Usage(Opened, c) = 0) /\ ~(c.total # Logs!None /\ c.total = Opened.previous)
  BY <1>2, <1>3
<1>. DEFINE old == Logs!WithTotals(Opened, c)
            all == old.events \union {event}
<1>7. Logs!ReadCount(Opened, c) = [old EXCEPT !.events = all]
  BY <1>2, <1>5, <1>6, Zenon DEF Logs!ReadCount
<1>8. all = {event}
  BY <1>4
<1>. HIDE DEF old, all
<1>9. [old EXCEPT !.events = all] =
        [sawMeta |-> TRUE, gate |-> Logs!Open,
         previous |-> IF reports = "last" THEN Logs!None ELSE 1, events |-> all]
  <2>. DEFINE total == IF reports = "last" THEN Logs!None ELSE 1
  <2>1. old = [sawMeta |-> TRUE, gate |-> Logs!Open, previous |-> total, events |-> {}]
    BY <1>4 DEF old
  <2>. HIDE DEF total
  <2>2. [old EXCEPT !.events = all] =
          [sawMeta |-> TRUE, gate |-> Logs!Open, previous |-> total, events |-> all]
    <3>1. PICK yes : yes = TRUE
      OBVIOUS
    <3>2. old = [sawMeta |-> yes, gate |-> Logs!Open, previous |-> total, events |-> {}]
      BY <2>1, <3>1, Zenon
    <3>3. [old EXCEPT !.events = all] =
            [sawMeta |-> yes, gate |-> Logs!Open, previous |-> total, events |-> all]
      BY <3>2
    <3>. QED  BY <3>1, <3>3, Zenon
  <2>. QED  BY <2>2 DEF total
<1>. QED  BY <1>1, <1>7, <1>8, <1>9

(* The session that is there has said one event.                           *)
LEMMA LogsBegin == Logs!LogInit => LogInv
<1>. SUFFICES ASSUME Logs!LogInit PROVE LogInv
  OBVIOUS
<1>. DEFINE at(n) == [second |-> 0, n |-> n]
            a == [kind |-> "session_meta", child |-> FALSE, at |-> at(1)]
            b == [kind |-> "task_started", at |-> at(1), started |-> 0]
            c == [kind |-> "token_count", at |-> at(2),
                  total |-> IF reports = "last" THEN Logs!None ELSE 1,
                  last |-> IF reports = "totals" THEN Logs!None ELSE 1]
            event == [at |-> at(2), usage |-> 1]
            known == [sawMeta |-> TRUE, gate |-> Logs!Open,
                      previous |-> IF reports = "last" THEN Logs!None ELSE 1, events |-> {event}]
<1>1. /\ second = 1 /\ writes = 2 /\ reports \in Reports
      /\ place = [s \in Logs!Sessions |-> IF s = 1 THEN {"sessions"} ELSE {}]
      /\ used = [s \in Logs!Sessions |-> IF s = 1 THEN 1 ELSE 0]
      /\ task = [s \in Logs!Sessions |-> s = 1]
      /\ spent = 1 /\ blurred = FALSE /\ row = [path \in Logs!Paths |-> Logs!NoRow]
      /\ scan = Logs!Idle /\ sum = 0 /\ quiet = FALSE
  BY DEF Logs!LogInit
<1>2. file = [s \in Logs!Sessions |-> IF s = 1 THEN <<a, b, c>> ELSE <<>>]
  <2>1. Logs!Meta(FALSE, at(1)) = a /\ Logs!Counted(at(2), 1) = c
    BY Zenon DEF Logs!Meta, Logs!Counted, Logs!Count
  <2>2. Logs!Started(at(1)) = b
    BY DEF Logs!Started
  <2>3. file = [s \in Logs!Sessions |->
                  IF s = 1 THEN <<Logs!Meta(FALSE, at(1)), Logs!Started(at(1)), Logs!Counted(at(2), 1)>>
                  ELSE <<>>]
    BY Zenon DEF Logs!LogInit
  <2>. HIDE DEF a, b, c, at
  <2>. QED  BY <2>1, <2>2, <2>3
<1>3. /\ at(1) \in Stamps /\ at(2) \in Stamps /\ event \in LogEvents /\ event.at.n = 2
      /\ reports \in {"both", "totals", "last"} /\ 1 \in Logs!Sessions
  BY <1>1, LogNumbers DEF Stamps, LogEvents, Logs!Sessions
<1>4. /\ a \in LogLines /\ a.kind = "session_meta" /\ a.child = FALSE
      /\ b \in LogLines /\ b.kind = "task_started" /\ b.started = 0 /\ b.at.second = 0
      /\ c \in LogLines /\ c.kind = "token_count" /\ c.at = at(2)
      /\ c.total = (IF reports = "last" THEN Logs!None ELSE 1)
      /\ c.last = (IF reports = "totals" THEN Logs!None ELSE 1)
  BY <1>3, LogNumbers DEF LogLines
<1>. HIDE DEF at, a, b, c
<1>5. c.at = event.at /\ event.usage = 1
  BY <1>4
<1>6. Logs!ParseFrom(Logs!Unparsed, <<a, b, c>>) = known
  <2>1. Logs!ReadLine(Logs!Unparsed, a) = Opened
    BY <1>4, FirstLines
  <2>2. Logs!ReadLine(Opened, b) = Opened
    BY <1>4, FirstLines
  <2>3. Logs!ReadLine(Opened, c) = known
    <3>1. /\ c \in LogLines /\ c.kind = "token_count" /\ reports \in Reports
          /\ c.total = (IF reports = "last" THEN Logs!None ELSE 1)
          /\ c.last = (IF reports = "totals" THEN Logs!None ELSE 1)
          /\ event \in LogEvents /\ event.at = c.at /\ event.usage = 1
      BY <1>1, <1>3, <1>4, <1>5
    <3>. HIDE DEF event
    <3>. QED  BY <3>1, FirstCount
  <2>. HIDE DEF known
  <2>. QED  BY <1>4, <2>1, <2>2, <2>3, ParseThree
<1>7. Logs!ParseFrom(Replaying(Logs!SelfTimed), <<a, b, c>>) = known
  <2>1. Logs!ReadLine(Replaying(Logs!SelfTimed), a) = Replaying(Logs!SelfTimed)
    BY <1>4, FirstLines
  <2>2. Logs!ReadLine(Replaying(Logs!SelfTimed), b) = Opened
    BY <1>4, FirstLines
  <2>3. Logs!ReadLine(Opened, c) = known
    <3>1. /\ c \in LogLines /\ c.kind = "token_count" /\ reports \in Reports
          /\ c.total = (IF reports = "last" THEN Logs!None ELSE 1)
          /\ c.last = (IF reports = "totals" THEN Logs!None ELSE 1)
          /\ event \in LogEvents /\ event.at = c.at /\ event.usage = 1
      BY <1>1, <1>3, <1>4, <1>5
    <3>. HIDE DEF event
    <3>. QED  BY <3>1, FirstCount
  <2>. HIDE DEF known
  <2>. QED  BY <1>4, <2>1, <2>2, <2>3, ParseThree
<1>8. Told(1) = known /\ Retold(1) = known
  <2>1. file[1] = <<a, b, c>>
    BY <1>2, <1>3
  <2>. QED  BY <1>6, <1>7, <2>1 DEF Told, Retold
<1>9. \A s \in Logs!Sessions : s # 1 => Told(s).events = {}
  <2>. TAKE s \in Logs!Sessions
  <2>. HAVE s # 1
  <2>1. file[s] = <<>>
    BY <1>2
  <2>. QED  BY <2>1, ParseNothing DEF Told, Logs!Unparsed
<1>10. Said = {event}
  <2>1. Told(1).events = {event}
    BY <1>8
  <2>. HIDE DEF event, known
  <2>. QED  BY <1>3, <1>9, <2>1 DEF Said
<1>. HIDE DEF known
<1>11. ClientTypes
  <2>1. <<a, b, c>> \in Seq(LogLines) /\ <<>> \in Seq(LogLines)
    BY <1>4
  <2>2. file \in [Logs!Sessions -> Seq(LogLines)]
    BY <1>2, <2>1
  <2>. QED  BY <1>1, <2>2 DEF ClientTypes, Logs!Places
<1>12. ScanTypes
  <2>1. /\ Logs!NoRow \in [size : Int, modified : Int, events : {{}}]
        /\ Logs!NoRow \in [size : Int, modified : Int, events : SUBSET LogEvents]
    BY LogNumbers DEF Logs!NoRow
  <2>. QED  BY <1>1, <2>1 DEF ScanTypes, Logs!Idle
<1>13. \A s \in Logs!Sessions : LinesFit(s)
  <2>. TAKE s \in Logs!Sessions
  <2>1. CASE s = 1
    <3>. DEFINE list == <<a, b, c>>
    <3>1. Len(list) = 3 /\ DOMAIN list = 1 .. 3 /\ list[1] = a /\ list[2] = b /\ list[3] = c
      BY <1>4
    <3>. HIDE DEF list
    <3>2. file[s] = list /\ place[s] = {"sessions"}
      BY <1>1, <1>2, <2>1 DEF list
    <3>3. \A i \in DOMAIN list : list[i].kind = "task_started" => list[i].started <= second
      BY <1>1, <1>4, <3>1
    <3>. QED  BY <3>1, <3>2, <3>3 DEF LinesFit
  <2>2. CASE s # 1
    <3>1. file[s] = <<>> /\ place[s] = {} /\ task[s] = FALSE
      BY <1>1, <1>2, <2>2
    <3>. QED  BY <3>1 DEF LinesFit
  <2>. QED  BY <2>1, <2>2
<1>14. SaidOnce
  <2>1. ParseFits(1, known)
    BY <1>1, <1>3, <1>10, LogNumbers DEF ParseFits, Parsed, known
  <2>2. \A s \in Logs!Sessions : place[s] # {} => s = 1
    BY <1>1
  <2>3. IsFiniteSet({event}) /\ Cardinality({event}) = 1
    BY FS_Singleton
  <2>. QED  BY <1>1, <1>3, <1>8, <1>10, <2>1, <2>2, <2>3 DEF SaidOnce
<1>15. \A path \in Logs!Paths : RowFits(path)
  <2>. TAKE path \in Logs!Paths
  <2>1. path[1] \in Logs!Sessions
    BY DEF Logs!Paths
  <2>2. Len(file[path[1]]) \in Nat
    BY <1>11, <2>1 DEF ClientTypes
  <2>3. row[path].size = -1 /\ row[path].events = {}
    BY <1>1, LogNumbers DEF Logs!NoRow
  <2>. QED  BY <2>2, <2>3 DEF RowFits
<1>16. ScanFits
  BY <1>1 DEF ScanFits, Logs!Idle
<1>. QED  BY <1>1, <1>11, <1>12, <1>13, <1>14, <1>15, <1>16 DEF LogInv, LogFits

(* Nothing moves.                                                          *)
LEMMA RestKeeps ==
  ASSUME LogFits, UNCHANGED <<second, writes, reports, file, place, used, task, spent,
                              row, scan, sum, quiet>>
  PROVE  LogFits'
<1>1. /\ ClientTypes' /\ SaidOnce' /\ \A s \in Logs!Sessions : LinesFit(s)'
      /\ Said' = Said /\ \A s \in Logs!Sessions : Told(s)' = Told(s)
  BY ClientRests
<1>2. ScanTypes'
  BY DEF LogFits, ScanTypes
<1>3. \A path \in Logs!Paths : RowFits(path)'
  <2>. SUFFICES ASSUME NEW path \in Logs!Paths PROVE RowFits(path)'
    OBVIOUS
  <2>1. RowFits(path) /\ path[1] \in Logs!Sessions
    BY DEF LogFits, Logs!Paths
  <2>. QED  BY <1>1, <2>1 DEF RowFits
<1>4. ScanFits'
  <2>1. Logs!Path' = Logs!Path
    BY DEF Logs!Path
  <2>. QED  BY <1>1, <2>1 DEF LogFits, ScanFits
<1>. QED  BY <1>1, <1>2, <1>3, <1>4 DEF LogFits

(* Every step of the client and of the scanner.                            *)
LEMMA LogsGoOn == LogInv /\ Logs!LogNext => LogInv'
<1>. SUFFICES ASSUME LogInv, Logs!LogNext PROVE LogInv'
  OBVIOUS
<1>1. ASSUME NEW s \in Logs!Sessions, Logs!Use(s) PROVE LogInv'
  <2>1. blurred' = blurred
    BY <1>1 DEF Logs!Use
  <2>. QED  BY <1>1, <2>1, UseKeeps DEF LogInv
<1>2. ASSUME NEW s \in Logs!Sessions, Logs!Repeat(s) PROVE LogInv'
  <2>1. blurred' = blurred
    BY <1>2 DEF Logs!Repeat
  <2>. QED  BY <1>2, <2>1, RepeatKeeps DEF LogInv
<1>3. ASSUME NEW s \in Logs!Sessions, NEW t \in second .. MaxSecond, Logs!NewTask(s, t) PROVE LogInv'
  <2>1. blurred' = blurred
    BY <1>3 DEF Logs!NewTask
  <2>. QED  BY <1>3, <2>1, NewTaskKeeps DEF LogInv
<1>4. ASSUME NEW s \in Logs!Sessions, NEW t \in second .. MaxSecond, NEW p \in Logs!Sessions,
             NEW rewritten \in BOOLEAN, NEW timed \in BOOLEAN, Logs!Fork(p, s, t, rewritten, timed)
      PROVE  LogInv'
  <2>1. blurred' \in BOOLEAN /\ (blurred => blurred')
    BY <1>4 DEF LogInv, Logs!Fork
  <2>2. ~blurred' => LogFits'
    BY <1>4, <2>1, ForkKeeps DEF LogInv
  <2>. QED  BY <2>1, <2>2 DEF LogInv
<1>5. ASSUME NEW s \in Logs!Sessions, NEW places \in {{"archived_sessions"}, Logs!Places},
             Logs!Archive(s, places)
      PROVE  LogInv'
  <2>1. blurred' = blurred
    BY <1>5 DEF Logs!Archive
  <2>. QED  BY <1>5, <2>1, ArchiveKeeps DEF LogInv
<1>6. CASE Logs!Client
  BY <1>1, <1>2, <1>3, <1>4, <1>5, <1>6 DEF Logs!Client
<1>7. CASE Logs!Scanner
  <2>1. blurred' = blurred
    BY <1>7 DEF Logs!Scanner, Logs!StartScan, Logs!Missing, Logs!Hit, Logs!Miss, Logs!Read,
                Logs!ReadFails, Logs!Finish, Logs!clientVars
  <2>2. LogFits => LogFits'
    BY <1>7, StartScanKeeps, MissingKeeps, HitKeeps, MissKeeps, ReadKeeps, ReadFailsKeeps, FinishKeeps
       DEF Logs!Scanner
  <2>. QED  BY <2>1, <2>2 DEF LogInv
<1>. QED  BY <1>6, <1>7 DEF Logs!LogNext

-----------------------------------------------------------------------------
(* Each part on its own, as the process is explored.                       *)
CountedInv ==
  /\ part = "logs" => LogInv
  /\ part = "claude" => KeptRight(ClaudeLogs!Kept, written)

(* A token that a client used is counted once, whatever was forked, copied, *)
(* moved, cached or written while it was read (parse_jsonl,                *)
(* load_or_parse_log); and so is a message with all its copies, in whatever *)
(* order they are found (deduplicate).                                     *)
THEOREM TokensAreCountedOnce == LaunchSpec => []TokensCountedOnce
<1>1. LaunchInit => CountedInv
  <2>. SUFFICES ASSUME LaunchInit PROVE CountedInv
    OBVIOUS
  <2>1. part = "logs" => LogInv
    BY LogsBegin DEF LaunchInit
  <2>2. part = "claude" => KeptRight(ClaudeLogs!Kept, written)
    BY NothingKept DEF LaunchInit
  <2>. QED  BY <2>1, <2>2 DEF CountedInv
<1>2. CountedInv /\ [LaunchNext]_launchVars => CountedInv'
  <2>. SUFFICES ASSUME CountedInv, [LaunchNext]_launchVars PROVE CountedInv'
    OBVIOUS
  <2>1. UNCHANGED logVars => (LogInv => LogInv')
    <3>. SUFFICES ASSUME UNCHANGED logVars, LogInv PROVE LogInv'
      OBVIOUS
    <3>1. UNCHANGED <<second, writes, reports, file, place, used, task, spent, blurred,
                      row, scan, sum, quiet>>
      BY DEF logVars
    <3>2. CASE blurred
      BY <3>1, <3>2 DEF LogInv
    <3>3. CASE ~blurred
      BY <3>1, <3>3, RestKeeps DEF LogInv
    <3>. QED  BY <3>2, <3>3
  <2>2. UNCHANGED claudeLogVars =>
          (KeptRight(ClaudeLogs!Kept, written) => KeptRight(ClaudeLogs!Kept, written)')
    BY DEF claudeLogVars, ClaudeLogs!Kept
  <2>3. CASE DetectionPart
    BY <2>3 DEF DetectionPart, CountedInv
  <2>4. CASE LogsPart
    BY <2>4, LogsGoOn DEF LogsPart, CountedInv
  <2>5. CASE ClaudePart
    BY <2>5, ReadLineKeeps DEF ClaudePart, CountedInv, ClaudeLogs!ClaudeLogNext
  <2>6. CASE UNCHANGED launchVars
    BY <2>1, <2>2, <2>6 DEF launchVars, CountedInv
  <2>. QED  BY <2>3, <2>4, <2>5, <2>6 DEF LaunchNext
<1>3. CountedInv => TokensCountedOnce
  <2>. SUFFICES ASSUME CountedInv PROVE TokensCountedOnce
    OBVIOUS
  <2>1. part = "logs" => Logs!TokensCountedOnce
    BY DEF CountedInv, LogInv, LogFits, ScanFits, Logs!TokensCountedOnce
  <2>2. part = "claude" => ClaudeLogs!MessagesCountedOnce
    BY RightCountsOnce DEF CountedInv
  <2>. QED  BY <2>1, <2>2 DEF TokensCountedOnce
<1>. QED  BY <1>1, <1>2, <1>3, PTL DEF LaunchSpec
=============================================================================
