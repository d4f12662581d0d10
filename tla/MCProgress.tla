----------------------------- MODULE MCProgress -----------------------------
(* What must happen: in the flight of a refresh, and in the loop that asks *)
(* for refreshes.  The two share no state here, so each is explored on its *)
(* own: part says which one, and it stays the same.                        *)
EXTENDS RefreshFlight, RefreshLoop

VARIABLE part

progressVars == <<part, vars, loopVars>>

ProgressInit ==
  /\ part \in {"flight", "loop"}
  /\ Init /\ LoopInit
  /\ part # "flight" => ~fresh
  /\ part # "loop" => frequency = "adaptive"

InFlight(A) == part = "flight" /\ A /\ UNCHANGED <<part, loopVars>>
InLoop(A) == part = "loop" /\ A /\ UNCHANGED <<part, vars>>

FlightPart == InFlight(Next)
LoopPart == InLoop(LoopNext)

ProgressNext == FlightPart \/ LoopPart

(* The fairness of HangingSpec and of LoopFairSpec.                        *)
ProgressSpec ==
  /\ ProgressInit /\ [][ProgressNext]_progressVars
  /\ \A c \in Callers : WF_progressVars(InFlight(CallerStep(c)))
  /\ \A r \in Runners : WF_progressVars(InFlight(RunnerStep(r)))
  /\ WF_progressVars(InLoop(LoopProgress)) /\ WF_progressVars(InLoop(CommandProgress))
=============================================================================
