--------------------------- MODULE CoalescedCalls ---------------------------
(***************************************************************************)
(* What the refresh flight promises, without generations, runners or       *)
(* queues: calls of a provider do not overlap, the published value only    *)
(* moves forward, and whoever asks for a forced refresh is answered from a *)
(* call that began after the question, or is told that it failed or is     *)
(* still busy with such a call.                                            *)
(***************************************************************************)
EXTENDS Integers

CONSTANT Callers

VARIABLES now,      \* version of the remote account
          calling,  \* a provider call is running
          status,   \* "ok", "failed" or "busy"
          began,    \* version when the attempt shown as busy began
          value,    \* version published, 0 before the first
          phase,    \* of each forced caller: "idle", "asked" or "answered"
          asked     \* version when the caller asked

vars == <<now, calling, status, began, value, phase, asked>>

TypeOK ==
  /\ now \in Nat \ {0}
  /\ calling \in BOOLEAN
  /\ status \in {"ok", "failed", "busy"}
  /\ began \in Nat
  /\ value \in Nat
  /\ phase \in [Callers -> {"idle", "asked", "answered"}]
  /\ asked \in [Callers -> Nat]

Init ==
  /\ now = 1
  /\ calling = FALSE
  /\ status = "ok"
  /\ began = 0
  /\ value = 0
  /\ phase = [c \in Callers |-> "idle"]
  /\ asked = [c \in Callers |-> 0]

(* The state a caller may be answered with.                                *)
Admissible(v) ==
  \/ status = "failed"
  \/ status = "busy" /\ began >= v
  \/ status = "ok" /\ value >= v

Advance ==
  /\ now' = now + 1
  /\ UNCHANGED <<calling, status, began, value, phase, asked>>

Ask(c) ==
  /\ phase[c] = "idle"
  /\ phase' = [phase EXCEPT ![c] = "asked"]
  /\ asked' = [asked EXCEPT ![c] = now]
  /\ UNCHANGED <<now, calling, status, began, value>>

Answer(c) ==
  /\ phase[c] = "asked"
  /\ Admissible(asked[c])
  /\ phase' = [phase EXCEPT ![c] = "answered"]
  /\ UNCHANGED <<now, calling, status, began, value, asked>>

(* The caller takes its answer, or goes away without one.                  *)
Leave(c) ==
  /\ phase[c] # "idle"
  /\ phase' = [phase EXCEPT ![c] = "idle"]
  /\ asked' = [asked EXCEPT ![c] = 0]
  /\ UNCHANGED <<now, calling, status, began, value>>

BeginCall ==
  /\ ~calling
  /\ status # "busy"
  /\ calling' = TRUE
  /\ status' = "busy"
  /\ began' = now
  /\ UNCHANGED <<now, value, phase, asked>>

EndCall ==
  /\ calling
  /\ calling' = FALSE
  /\ UNCHANGED <<now, status, began, value, phase, asked>>

(* The answer of a finished call is published; saving it may have failed.  *)
Publish ==
  /\ status = "busy" /\ ~calling
  /\ value' \in began .. now
  /\ status' \in {"ok", "failed"}
  /\ began' = 0
  /\ UNCHANGED <<now, calling, phase, asked>>

(* The attempt is given up: its call failed, or is too late to be used.    *)
Fail ==
  /\ status = "busy"
  /\ status' = "failed"
  /\ began' = 0
  /\ UNCHANGED <<now, calling, value, phase, asked>>

Next ==
  \/ Advance \/ BeginCall \/ EndCall \/ Publish \/ Fail
  \/ \E c \in Callers : Ask(c) \/ Answer(c) \/ Leave(c)

Spec == Init /\ [][Next]_vars
=============================================================================
