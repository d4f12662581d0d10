---------------------------- MODULE PaceNotices ----------------------------
(***************************************************************************)
(* The notices on the pace of one quota (NotificationEvaluator in          *)
(* pacing.rs) and their delivery (notifications.rs).  Every refresh ends   *)
(* in finish_refresh: what the quota has crossed is noted as fired under   *)
(* the lock of the evaluator, the notices are delivered without it, and    *)
(* those that could not be delivered are taken back.                       *)
(*                                                                         *)
(* Rounds of the loop, refreshes of the page and commands finish beside    *)
(* each other, and may do so with a view older than the one another has    *)
(* evaluated.  Usage is counted in tenths of a percent, the period in      *)
(* thousandths.                                                            *)
(***************************************************************************)
EXTENDS Integers, FiniteSets

CONSTANTS Finishers,    \* calls of finish_refresh that run at a time
          Usages,       \* used_percent, in tenths
          Elapsed,      \* elapsed part of the period, in thousandths
          Resets,       \* reset times a quota may have, 0 for none
          Preferences   \* sets of notices that are switched on

Untracked == 0  Healthy == 1  CloseToLimit == 2  RunningOut == 3  Spent == 4
NoSeverity == -1
Nobody == "nobody"

ASSUME PaceAssumption == Resets \subseteq Nat /\ Nobody \notin Finishers

Milestones == {"AlmostOut", "FullyUsed", "UsageReset", "CuttingItClose", "WillRunOut"}

VARIABLES
  entry,      \* the NotificationState of the quota
  finisher,   \* per finisher: where it is, its alerts, those that failed
  told,       \* notices delivered since they were last noted (history)
  missed,     \* notices taken back before anybody else evaluated (history)
  forgotten,  \* of these, what the next evaluation failed to offer (history)
  owner       \* who evaluated last, in the period of before (history)

paceVars == <<entry, finisher, told, missed, forgotten, owner>>

Default == [resets |-> 0, fired |-> {}, previous |-> NoSeverity, underTen |-> FALSE,
            primed |-> FALSE, exhausted |-> FALSE, pendingReset |-> FALSE]
Resting == [at |-> "idle", alerts |-> {}, failed |-> {},
            previous |-> NoSeverity, underTen |-> FALSE]

Severities == NoSeverity .. RunningOut
PaceTypeOK ==
  /\ entry \in [resets : Resets \union {0}, fired : SUBSET Milestones,
                previous : Severities, underTen : BOOLEAN, primed : BOOLEAN,
                exhausted : BOOLEAN, pendingReset : BOOLEAN]
  /\ finisher \in [Finishers -> [at : {"idle", "deliver", "rollback"},
                                 alerts : SUBSET Milestones, failed : SUBSET Milestones,
                                 previous : Severities, underTen : BOOLEAN]]
  /\ {told, missed, forgotten} \subseteq SUBSET Milestones
  /\ owner \in Finishers \union {Nobody}

PaceInit ==
  /\ entry = Default /\ finisher = [f \in Finishers |-> Resting]
  /\ told = {} /\ missed = {} /\ forgotten = {} /\ owner = Nobody

-----------------------------------------------------------------------------
(* project(): the severity of the use at this point of the period.  Below  *)
(* 0.5 % left counts as spent; the first hundredth of a period says        *)
(* nothing; used / elapsed is the use at its end.                          *)
Projected(used, elapsed) ==
  IF 1000 - used < 5 THEN Spent
  ELSE IF used = 0 \/ elapsed < 10 THEN Untracked
  ELSE IF used * 1000 <= 900 * elapsed THEN Healthy
  ELSE IF used < 50 THEN Untracked
  ELSE IF used * 1000 > 1000 * elapsed THEN RunningOut
  ELSE IF 1000 * elapsed - used * 1000 >= 5 * elapsed THEN CloseToLimit ELSE RunningOut

(* What an evaluation sees of a quota; without a reset time, or when it    *)
(* has passed, there is no pace.                                           *)
Observations ==
  {[severity |-> IF resets = 0 /\ Projected(used, elapsed) # Spent THEN Untracked
                 ELSE Projected(used, elapsed),
    spent |-> used = 1000, underTen |-> used > 900, resets |-> resets] :
      used \in Usages, elapsed \in Elapsed, resets \in Resets \union {0}}

(* transition(), first part: recovery of an exhausted quota, and a reset   *)
(* time that moved on.                                                     *)
Recovered(e, o, on) ==
  IF e.exhausted /\ ~o.spent
  THEN [e EXCEPT !.pendingReset = "UsageReset" \in on, !.exhausted = FALSE,
                 !.fired = @ \ {"FullyUsed", "UsageReset"}]
  ELSE IF o.spent THEN [e EXCEPT !.exhausted = TRUE, !.pendingReset = FALSE] ELSE e

NextPeriod(e, o) ==
  LET moved == o.resets # 0 /\ (e.resets = 0 \/ o.resets > e.resets)
      kept == [e EXCEPT !.resets = IF o.resets = 0 THEN @ ELSE o.resets]
  IN IF moved THEN [kept EXCEPT !.fired = {}, !.previous = NoSeverity, !.underTen = FALSE]
     ELSE kept

Level(o) == IF o.severity = Spent THEN RunningOut ELSE o.severity

(* The first observation only sets the baseline.                           *)
Primed(e, o) ==
  [e EXCEPT !.primed = TRUE,
            !.previous = IF Level(o) = Untracked THEN NoSeverity ELSE Level(o),
            !.underTen = o.underTen,
            !.fired = IF o.spent THEN @ \union {"FullyUsed"} ELSE @]

Paces(e, o, on) ==
  {m \in on \ e.fired :
     \/ m = "CuttingItClose" /\ Level(o) = CloseToLimit /\ e.previous < CloseToLimit
     \/ m = "WillRunOut" /\ Level(o) = RunningOut /\ e.previous < RunningOut}

Eased(e, o) ==
  IF Level(o) = Untracked \/ Level(o) >= e.previous THEN {}
  ELSE {m \in {"CuttingItClose", "WillRunOut"} :
          m = "CuttingItClose" => Level(o) <= Healthy}

Reached(e, o, on) ==
  Paces(e, o, on)
    \union {m \in on :
       \/ m = "FullyUsed" /\ o.spent /\ m \notin e.fired
       \/ m = "UsageReset" /\ e.pendingReset
       \/ m = "AlmostOut" /\ o.underTen /\ ~e.underTen /\ m \notin e.fired}

Advanced(e, o, on) ==
  LET paces == Paces(e, o, on)
      alerts == Reached(e, o, on)
  IN [e EXCEPT
       !.previous = IF Level(o) # Untracked /\ (Level(o) <= @ \/ paces # {})
                    THEN Level(o) ELSE @,
       !.pendingReset = FALSE,
       !.underTen = IF ~o.underTen \/ "AlmostOut" \in alerts THEN o.underTen ELSE @,
       !.fired = ((@ \ Eased(e, o)) \ (IF o.underTen THEN {} ELSE {"AlmostOut"}))
                   \union alerts]

(* The condition of a notice is there.                                     *)
Holds(m, o) ==
  \/ m = "WillRunOut" /\ Level(o) = RunningOut
  \/ m = "CuttingItClose" /\ Level(o) = CloseToLimit
  \/ m = "AlmostOut" /\ o.underTen
  \/ m = "FullyUsed" /\ o.spent
  \/ m = "UsageReset" /\ ~o.spent

-----------------------------------------------------------------------------
(* finish_refresh.                                                         *)

(* evaluate(), under the lock.                                             *)
Evaluate(f, o, on) ==
  LET e == NextPeriod(Recovered(entry, o, on), o)
      alerts == IF e.primed THEN Reached(e, o, on) ELSE {}
  IN /\ finisher[f].at = "idle"
     /\ entry' = IF e.primed THEN Advanced(e, o, on) ELSE Primed(e, o)
     /\ finisher' = [finisher EXCEPT ![f] =
                       IF alerts = {} THEN Resting
                       ELSE [at |-> "deliver", alerts |-> alerts, failed |-> {},
                             previous |-> entry.previous, underTen |-> entry.underTen]]
     /\ told' = (told \intersect e.fired) \ alerts
     /\ forgotten' = {m \in missed \intersect on : Holds(m, o)} \ alerts
     /\ missed' = {} /\ owner' = IF e.resets = entry.resets THEN f ELSE Nobody

EvaluateSome(f) ==
  \E o \in Observations, on \in Preferences : Evaluate(f, o, on)

(* The quota is switched off, or its account is gone: prune().             *)
Prune(f) ==
  /\ finisher[f].at = "idle" /\ entry # Default
  /\ entry' = Default /\ told' = {} /\ missed' = {} /\ owner' = Nobody
  /\ UNCHANGED <<finisher, forgotten>>

(* deliver(): without the permission none is shown.                        *)
Deliver(f) ==
  /\ finisher[f].at = "deliver"
  /\ \E failed \in SUBSET finisher[f].alerts :
       /\ finisher' = [finisher EXCEPT ![f] =
                         IF failed = {} THEN Resting
                         ELSE [@ EXCEPT !.at = "rollback", !.failed = failed]]
       /\ told' = told \union (finisher[f].alerts \ failed)
  /\ UNCHANGED <<entry, missed, forgotten, owner>>

(* Variant: the severity of before is not restored.                        *)
TakenBackHalf(e, failed, f) ==
  [e EXCEPT
     !.fired = @ \ failed,
     !.underTen = IF "AlmostOut" \in failed THEN finisher[f].underTen ELSE @,
     !.pendingReset = @ \/ "UsageReset" \in failed]

(* Variant: what failed stays noted as fired. *)
TakenBackFired(e, failed, f) ==
  [e EXCEPT
     !.underTen = IF "AlmostOut" \in failed THEN finisher[f].underTen ELSE @,
     !.pendingReset = @ \/ "UsageReset" \in failed,
     !.previous = IF failed \intersect {"CuttingItClose", "WillRunOut"} # {}
                  THEN finisher[f].previous ELSE @]

(* rollback(), under the lock; the quota may have been forgotten.          *)
TakenBack(e, failed, f) ==
  [e EXCEPT
     !.fired = @ \ failed,
     !.underTen = IF "AlmostOut" \in failed THEN finisher[f].underTen ELSE @,
     !.pendingReset = @ \/ "UsageReset" \in failed,
     !.previous = IF failed \intersect {"CuttingItClose", "WillRunOut"} # {}
                  THEN finisher[f].previous ELSE @]

RollBackFailed(f) ==
  /\ finisher[f].at = "rollback"
  /\ entry' = IF entry = Default THEN entry ELSE TakenBack(entry, finisher[f].failed, f)
  /\ missed' = IF owner = f THEN finisher[f].failed ELSE {}
  /\ finisher' = [finisher EXCEPT ![f] = Resting]
  /\ UNCHANGED <<told, forgotten, owner>>

PaceNext ==
  \E f \in Finishers : EvaluateSome(f) \/ Prune(f) \/ Deliver(f) \/ RollBackFailed(f)

PaceSpec == PaceInit /\ [][PaceNext]_paceVars

-----------------------------------------------------------------------------
(* A notice counts as fired only if the user was told, or somebody is      *)
(* about to tell, or the quota was found exhausted to begin with, however  *)
(* evaluations and what they take back overlap (rollback).                 *)
FiredIsTold ==
  \A m \in entry.fired :
    \/ m \in told
    \/ \E f \in Finishers : m \in finisher[f].alerts
    \/ m = "FullyUsed" /\ entry.exhausted

(* A notice that could not be delivered is offered again by the next       *)
(* evaluation that finds its condition, unless another evaluation, or what *)
(* another takes back, came between, or the first had also begun a new     *)
(* period.                                                                 *)
NothingForgotten == forgotten = {}

(* No notice stays noted as fired of which nobody told; and one that could *)
(* not be delivered is offered again when nothing came in between.         *)
NoticesAreTold == FiredIsTold /\ NothingForgotten
=============================================================================
