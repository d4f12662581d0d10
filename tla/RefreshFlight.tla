--------------------------- MODULE RefreshFlight ---------------------------
(***************************************************************************)
(* One provider of ProviderService (service.rs): the refresh flight that   *)
(* joins concurrent refresh requests into provider calls made one at a     *)
(* time, the worker thread with its 120 s timeout, and the provider state  *)
(* every caller reads back.                                                *)
(*                                                                         *)
(* A caller is one execution of refresh(); a runner is one task that       *)
(* refresh() spawned to execute run_refresh_flight().  A runner that has   *)
(* given up the flight (runner_active = false) still has its last          *)
(* send_replace() to do, so several runners may exist at one time.         *)
(*                                                                         *)
(* Time is not counted: the two Instant comparisons are flags that expire, *)
(* and the timeout may fire whenever the worker has not answered.  The     *)
(* remote account is a version number that grows; a provider call returns  *)
(* a version that was current at some instant of the call.  Mutexes are    *)
(* never poisoned, the watch sender is never dropped while a caller waits, *)
(* and a u64 generation does not reach its maximum.                        *)
(***************************************************************************)
EXTENDS Integers, FiniteSets

CONSTANTS Callers,        \* executions of refresh()
          Runners,        \* executions of run_refresh_flight()
          MaxGeneration,  \* bound: generations requested
          MaxWorld        \* bound: versions of the remote account

ASSUME FlightAssumption ==
  /\ Callers # {} /\ Runners # {}
  /\ MaxGeneration \in Nat \ {0}
  /\ MaxWorld \in Nat \ {0}

VARIABLES
  world,         \* current version of the remote account
  runnerActive,  \* RefreshFlightState.runner_active
  attempt,       \* RefreshFlightState.attempt_generation (0 = None)
  requested,     \* RefreshFlightState.requested_generation
  completed,     \* RefreshFlightState.completed_generation
  watch,         \* value of the watch channel completed_tx
  view,          \* ProviderViewState: snapshot version (0 = None), refreshing, error
  fresh,         \* last_live_refresh is younger than the refresh interval
  backoff,       \* last_failed_refresh is younger than FAILURE_RETRY_BACKOFF
  rpc,           \* where each runner is
  gen,           \* local variable `generation` of each runner
  since,         \* version of the account when the runner's attempt began
  worker,        \* the blocking worker thread of the runner
  result,        \* what the runner holds: a version, or 0 for an error
  late,          \* late_worker.is_some()
  cpc,           \* where each caller is
  force,         \* the caller's argument
  target,        \* local variable target_generation of each caller
  wanted         \* version of the account when the caller called

flightVars == <<runnerActive, attempt, requested, completed>>
runnerVars == <<rpc, gen, since, worker, result, late>>
callerVars == <<cpc, force, target, wanted>>
vars == <<world, flightVars, watch, view, fresh, backoff, runnerVars, callerVars>>

RunnerStages == {"free", "start", "awaiting", "apply", "stamp", "settle",
                 "send", "lastSend", "lateSend", "draining"}
CallerStages == {"idle", "backoffCheck", "join", "waiting", "return"}

(* The runner owns the flight: it is the one runner_active speaks of.      *)
Owns(r) == rpc[r] \notin {"free", "lastSend"}
(* The runner's attempt is shown in the provider state as `refreshing`.    *)
Attempting(r) == rpc[r] \in {"awaiting", "apply"}

TypeOK ==
  /\ world \in Nat \ {0}
  /\ runnerActive \in BOOLEAN
  /\ attempt \in Nat /\ requested \in Nat /\ completed \in Nat /\ watch \in Nat
  /\ view \in [snapshot : Nat, refreshing : BOOLEAN, error : BOOLEAN]
  /\ fresh \in BOOLEAN /\ backoff \in BOOLEAN
  /\ rpc \in [Runners -> RunnerStages]
  /\ gen \in [Runners -> Nat]
  /\ since \in [Runners -> Nat]
  /\ worker \in [Runners -> {"none", "running", "answered"}]
  /\ result \in [Runners -> Nat]
  /\ late \in [Runners -> BOOLEAN]
  /\ cpc \in [Callers -> CallerStages]
  /\ force \in [Callers -> BOOLEAN]
  /\ target \in [Callers -> Nat]
  /\ wanted \in [Callers -> Nat]

Init ==
  /\ world = 1
  /\ runnerActive = FALSE
  /\ attempt = 0 /\ requested = 0 /\ completed = 0 /\ watch = 0
  /\ view = [snapshot |-> 0, refreshing |-> FALSE, error |-> FALSE]
  /\ fresh = FALSE /\ backoff = FALSE
  /\ rpc = [r \in Runners |-> "free"]
  /\ gen = [r \in Runners |-> 0]
  /\ since = [r \in Runners |-> 0]
  /\ worker = [r \in Runners |-> "none"]
  /\ result = [r \in Runners |-> 0]
  /\ late = [r \in Runners |-> FALSE]
  /\ cpc = [c \in Callers |-> "idle"]
  /\ force = [c \in Callers |-> FALSE]
  /\ target = [c \in Callers |-> 0]
  /\ wanted = [c \in Callers |-> 0]

-----------------------------------------------------------------------------
(* The environment: the remote account changes; the two windows pass.      *)

AccountChanges ==
  /\ world < MaxWorld
  /\ world' = world + 1
  /\ UNCHANGED <<flightVars, watch, view, fresh, backoff, runnerVars, callerVars>>

FreshnessExpires ==
  /\ fresh
  /\ fresh' = FALSE
  /\ UNCHANGED <<world, flightVars, watch, view, backoff, runnerVars, callerVars>>

BackoffExpires ==
  /\ backoff
  /\ backoff' = FALSE
  /\ UNCHANGED <<world, flightVars, watch, view, fresh, runnerVars, callerVars>>

-----------------------------------------------------------------------------
(* refresh()                                                               *)

(* Callers that may still raise requested_generation by one each.          *)
Joining == {c \in Callers : cpc[c] \in {"backoffCheck", "join"}}

Call(c, f) ==
  /\ cpc[c] = "idle"
  /\ requested + Cardinality(Joining) < MaxGeneration
  /\ cpc' = [cpc EXCEPT ![c] = IF f THEN "join" ELSE IF fresh THEN "return"
                                ELSE "backoffCheck"]
  /\ force' = [force EXCEPT ![c] = f]
  /\ wanted' = [wanted EXCEPT ![c] = world]
  /\ UNCHANGED <<world, flightVars, watch, view, fresh, backoff, runnerVars, target>>

CheckBackoff(c) ==
  /\ cpc[c] = "backoffCheck"
  /\ cpc' = [cpc EXCEPT ![c] = IF backoff THEN "return" ELSE "join"]
  /\ UNCHANGED <<world, flightVars, watch, view, fresh, backoff, runnerVars,
                 force, target, wanted>>

(* The critical section of refresh(), its three ways through.              *)
JoinAsFirst(c, r) ==
  /\ cpc[c] = "join"
  /\ ~runnerActive
  /\ rpc[r] = "free"
  /\ runnerActive' = TRUE
  /\ attempt' = completed + 1
  /\ requested' = completed + 1
  /\ target' = [target EXCEPT ![c] = completed + 1]
  /\ cpc' = [cpc EXCEPT ![c] = "waiting"]
  /\ rpc' = [rpc EXCEPT ![r] = "start"]
  /\ UNCHANGED <<world, completed, watch, view, fresh, backoff, gen, since, worker,
                 result, late, force, wanted>>

JoinWhileDraining(c) ==
  /\ cpc[c] = "join"
  /\ runnerActive /\ attempt = 0
  /\ cpc' = [cpc EXCEPT ![c] = "return"]
  /\ UNCHANGED <<world, flightVars, watch, view, fresh, backoff, runnerVars,
                 force, target, wanted>>

(* Variant: a forced caller is content with the attempt already running.   *)
JoinAttemptNoFollowUp(c) ==
  /\ cpc[c] = "join"
  /\ runnerActive /\ attempt # 0
  /\ target' = [target EXCEPT ![c] = attempt]
  /\ cpc' = [cpc EXCEPT ![c] = "waiting"]
  /\ UNCHANGED <<world, flightVars, watch, view, fresh, backoff, runnerVars, force, wanted>>

JoinAttempt(c) ==
  /\ cpc[c] = "join"
  /\ runnerActive /\ attempt # 0
  /\ requested' = IF force[c] /\ requested < attempt + 1 THEN attempt + 1 ELSE requested
  /\ target' = [target EXCEPT ![c] = IF force[c] THEN requested' ELSE attempt]
  /\ cpc' = [cpc EXCEPT ![c] = "waiting"]
  /\ UNCHANGED <<world, runnerActive, attempt, completed, watch, view, fresh, backoff,
                 runnerVars, force, wanted>>

Join(c) == \/ \E r \in Runners : JoinAsFirst(c, r)
           \/ JoinWhileDraining(c)
           \/ JoinAttempt(c)

(* Variant: woken one generation early.                                    *)
WakeUpEarly(c) ==
  /\ cpc[c] = "waiting"
  /\ watch + 1 >= target[c]
  /\ cpc' = [cpc EXCEPT ![c] = "return"]
  /\ UNCHANGED <<world, flightVars, watch, view, fresh, backoff, runnerVars,
                 force, target, wanted>>

(* `while *completed.borrow_and_update() < target_generation` ends.        *)
WakeUp(c) ==
  /\ cpc[c] = "waiting"
  /\ watch >= target[c]
  /\ cpc' = [cpc EXCEPT ![c] = "return"]
  /\ UNCHANGED <<world, flightVars, watch, view, fresh, backoff, runnerVars,
                 force, target, wanted>>

LeaveCall(c) ==
  /\ cpc' = [cpc EXCEPT ![c] = "idle"]
  /\ force' = [force EXCEPT ![c] = FALSE]
  /\ target' = [target EXCEPT ![c] = 0]
  /\ wanted' = [wanted EXCEPT ![c] = 0]

(* The future of a waiting caller is dropped; its runner goes on.          *)
Abandon(c) ==
  /\ cpc[c] = "waiting"
  /\ LeaveCall(c)
  /\ UNCHANGED <<world, flightVars, watch, view, fresh, backoff, runnerVars>>

(* provider_state() is read and given to the caller.                       *)
Return(c) ==
  /\ cpc[c] = "return"
  /\ LeaveCall(c)
  /\ UNCHANGED <<world, flightVars, watch, view, fresh, backoff, runnerVars>>

-----------------------------------------------------------------------------
(* run_refresh_flight()                                                    *)

(* Reads the attempt's generation, shows `refreshing`, spawns the worker.  *)
StartAttempt(r) ==
  /\ rpc[r] = "start"
  /\ gen' = [gen EXCEPT ![r] = attempt]
  /\ view' = [snapshot |-> view.snapshot, refreshing |-> TRUE, error |-> FALSE]
  /\ worker' = [worker EXCEPT ![r] = "running"]
  /\ since' = [since EXCEPT ![r] = world]
  /\ late' = [late EXCEPT ![r] = FALSE]
  /\ rpc' = [rpc EXCEPT ![r] = "awaiting"]
  /\ UNCHANGED <<world, flightVars, watch, fresh, backoff, result, callerVars>>

(* The provider call ends on its thread, in time or not: a validated       *)
(* snapshot of a version it saw, or an error or panic (0).                 *)
WorkerAnswers(r) ==
  /\ worker[r] = "running"
  /\ \E v \in {0} \union (since[r] .. world) : result' = [result EXCEPT ![r] = v]
  /\ worker' = [worker EXCEPT ![r] = "answered"]
  /\ UNCHANGED <<world, flightVars, watch, view, fresh, backoff, rpc, gen, since, late,
                 callerVars>>

TakeAnswer(r) ==
  /\ rpc[r] = "awaiting"
  /\ worker[r] = "answered"
  /\ worker' = [worker EXCEPT ![r] = "none"]
  /\ rpc' = [rpc EXCEPT ![r] = "apply"]
  /\ UNCHANGED <<world, flightVars, watch, view, fresh, backoff, gen, since, result,
                 late, callerVars>>

TimeOut(r) ==
  /\ rpc[r] = "awaiting"
  /\ worker[r] = "running"
  /\ late' = [late EXCEPT ![r] = TRUE]
  /\ rpc' = [rpc EXCEPT ![r] = "apply"]
  /\ UNCHANGED <<world, flightVars, watch, view, fresh, backoff, gen, since, worker,
                 result, callerVars>>

DropAnswer(r) ==
  /\ since' = [since EXCEPT ![r] = 0]
  /\ result' = [result EXCEPT ![r] = 0]

(* apply_refresh_result() of a success: the account or the cache may fail. *)
ApplySuccess(r) ==
  /\ rpc[r] = "apply"
  /\ ~late[r] /\ result[r] # 0
  /\ \E cacheError \in BOOLEAN :
       view' = [snapshot |-> result[r], refreshing |-> FALSE, error |-> cacheError]
  /\ DropAnswer(r)
  /\ rpc' = [rpc EXCEPT ![r] = "stamp"]
  /\ UNCHANGED <<world, flightVars, watch, fresh, backoff, gen, worker, late, callerVars>>

(* Variant: a failure also drops the last successful snapshot.             *)
ApplyFailureDropsSnapshot(r) ==
  /\ rpc[r] = "apply"
  /\ view' = [snapshot |-> 0, refreshing |-> FALSE, error |-> TRUE]
  /\ IF late[r] THEN UNCHANGED <<since, result>> ELSE DropAnswer(r)
  /\ rpc' = [rpc EXCEPT ![r] = "stamp"]
  /\ UNCHANGED <<world, flightVars, watch, fresh, backoff, gen, worker, late, callerVars>>

ApplyFailure(r) ==
  /\ rpc[r] = "apply"
  /\ view' = [snapshot |-> view.snapshot, refreshing |-> FALSE, error |-> TRUE]
  /\ IF late[r] THEN UNCHANGED <<since, result>> ELSE DropAnswer(r)
  /\ rpc' = [rpc EXCEPT ![r] = "stamp"]
  /\ UNCHANGED <<world, flightVars, watch, fresh, backoff, gen, worker, late, callerVars>>

(* last_live_refresh and last_failed_refresh.                              *)
Stamp(r) ==
  /\ rpc[r] = "stamp"
  /\ IF view.error
       THEN backoff' = TRUE /\ UNCHANGED fresh
       ELSE fresh' = TRUE /\ backoff' = FALSE
  /\ rpc' = [rpc EXCEPT ![r] = "settle"]
  /\ UNCHANGED <<world, flightVars, watch, view, gen, since, worker, result, late,
                 callerVars>>

(* settle_completed_generation(), under the lock.                          *)
SettleAndFollowUp(r) ==
  /\ rpc[r] = "settle" /\ ~late[r]
  /\ requested > gen[r]
  /\ completed' = gen[r]
  /\ attempt' = gen[r] + 1
  /\ rpc' = [rpc EXCEPT ![r] = "send"]
  /\ UNCHANGED <<world, runnerActive, requested, watch, view, fresh, backoff, gen, since,
                 worker, result, late, callerVars>>

(* Variants: the queued request is overlooked; the attempt is not cleared. *)
SettleOverlooksQueued(r) ==
  /\ rpc[r] = "settle" /\ ~late[r]
  /\ completed' = gen[r]
  /\ attempt' = 0
  /\ runnerActive' = FALSE
  /\ rpc' = [rpc EXCEPT ![r] = "lastSend"]
  /\ UNCHANGED <<world, requested, watch, view, fresh, backoff, gen, since, worker, result,
                 late, callerVars>>

SettleKeepsAttempt(r) ==
  /\ rpc[r] = "settle" /\ ~late[r]
  /\ requested <= gen[r]
  /\ completed' = gen[r]
  /\ runnerActive' = FALSE
  /\ rpc' = [rpc EXCEPT ![r] = "lastSend"]
  /\ UNCHANGED <<world, attempt, requested, watch, view, fresh, backoff, gen, since, worker,
                 result, late, callerVars>>

SettleAndRelease(r) ==
  /\ rpc[r] = "settle" /\ ~late[r]
  /\ requested <= gen[r]
  /\ completed' = gen[r]
  /\ attempt' = 0
  /\ runnerActive' = FALSE
  /\ rpc' = [rpc EXCEPT ![r] = "lastSend"]
  /\ UNCHANGED <<world, requested, watch, view, fresh, backoff, gen, since, worker, result,
                 late, callerVars>>

(* completed_tx.send_replace(generation), after the lock is released.      *)
Send(r) ==
  /\ rpc[r] \in {"send", "lastSend"}
  /\ watch' = gen[r]
  /\ gen' = [gen EXCEPT ![r] = 0]
  /\ rpc' = [rpc EXCEPT ![r] = IF rpc[r] = "send" THEN "start" ELSE "free"]
  /\ UNCHANGED <<world, flightVars, view, fresh, backoff, since, worker, result,
                 late, callerVars>>

(* Variants: the flight is released while the late worker still runs; only *)
(* the timed-out generation counts as completed.                           *)
SettleLateReleases(r) ==
  /\ rpc[r] = "settle" /\ late[r]
  /\ completed' = IF requested > gen[r] THEN requested ELSE gen[r]
  /\ gen' = [gen EXCEPT ![r] = completed']
  /\ attempt' = 0
  /\ runnerActive' = FALSE
  /\ rpc' = [rpc EXCEPT ![r] = "lateSend"]
  /\ UNCHANGED <<world, requested, watch, view, fresh, backoff, since, worker, result, late,
                 callerVars>>

SettleLateOwnOnly(r) ==
  /\ rpc[r] = "settle" /\ late[r]
  /\ completed' = gen[r]
  /\ attempt' = 0
  /\ rpc' = [rpc EXCEPT ![r] = "lateSend"]
  /\ UNCHANGED <<world, runnerActive, requested, watch, view, fresh, backoff, gen, since,
                 worker, result, late, callerVars>>

(* After a timeout every request so far counts as completed.               *)
SettleLate(r) ==
  /\ rpc[r] = "settle" /\ late[r]
  /\ completed' = IF requested > gen[r] THEN requested ELSE gen[r]
  /\ gen' = [gen EXCEPT ![r] = completed']
  /\ attempt' = 0
  /\ rpc' = [rpc EXCEPT ![r] = "lateSend"]
  /\ UNCHANGED <<world, runnerActive, requested, watch, view, fresh, backoff, since,
                 worker, result, late, callerVars>>

SendLate(r) ==
  /\ rpc[r] = "lateSend"
  /\ watch' = gen[r]
  /\ rpc' = [rpc EXCEPT ![r] = "draining"]
  /\ UNCHANGED <<world, flightVars, view, fresh, backoff, gen, since, worker, result,
                 late, callerVars>>

(* Variant: the flight is not released.                                    *)
DrainedKeepsFlight(r) ==
  /\ rpc[r] = "draining"
  /\ worker[r] = "answered"
  /\ worker' = [worker EXCEPT ![r] = "none"]
  /\ rpc' = [rpc EXCEPT ![r] = "free"]
  /\ UNCHANGED <<world, flightVars, watch, view, fresh, backoff, gen, since, result, late,
                 callerVars>>

(* The late worker has ended: its answer is dropped, the flight released.  *)
Drained(r) ==
  /\ rpc[r] = "draining"
  /\ worker[r] = "answered"
  /\ worker' = [worker EXCEPT ![r] = "none"]
  /\ result' = [result EXCEPT ![r] = 0]
  /\ since' = [since EXCEPT ![r] = 0]
  /\ late' = [late EXCEPT ![r] = FALSE]
  /\ gen' = [gen EXCEPT ![r] = 0]
  /\ runnerActive' = FALSE
  /\ requested' = completed
  /\ rpc' = [rpc EXCEPT ![r] = "free"]
  /\ UNCHANGED <<world, attempt, completed, watch, view, fresh, backoff, callerVars>>

-----------------------------------------------------------------------------
CallerStep(c) == CheckBackoff(c) \/ Join(c) \/ WakeUp(c) \/ Return(c)

RunnerStep(r) ==
  \/ StartAttempt(r) \/ TakeAnswer(r) \/ TimeOut(r)
  \/ ApplySuccess(r) \/ ApplyFailure(r) \/ Stamp(r)
  \/ SettleAndFollowUp(r) \/ SettleAndRelease(r) \/ Send(r)
  \/ SettleLate(r) \/ SendLate(r) \/ Drained(r)

Next ==
  \/ AccountChanges \/ FreshnessExpires \/ BackoffExpires
  \/ \E c \in Callers : CallerStep(c) \/ Abandon(c) \/ \E f \in BOOLEAN : Call(c, f)
  \/ \E r \in Runners : RunnerStep(r) \/ WorkerAnswers(r)

Spec == Init /\ [][Next]_vars

(* Tasks are polled and the timer fires; a provider call may hang for ever.*)
HangingSpec ==
  /\ Spec
  /\ \A c \in Callers : WF_vars(CallerStep(c))
  /\ \A r \in Runners : WF_vars(RunnerStep(r))

(* In addition every provider call ends: each client has its own timeouts. *)
WorkersEnd == \A r \in Runners : WF_vars(WorkerAnswers(r))
FairSpec == HangingSpec /\ WorkersEnd

-----------------------------------------------------------------------------
(* Two calls of a provider never overlap, a call that has timed out        *)
(* included (the tests count `maximum` calls in flight).                   *)
OneCallAtATime ==
  \A r, q \in Runners : worker[r] = "running" /\ worker[q] = "running" => r = q

(* What a forced caller may be shown: a snapshot no older than its call,   *)
(* unless the state says that it failed or is still refreshing.            *)
Current(v) == view.error \/ view.refreshing \/ view.snapshot >= v

(* A forced refresh is answered by an attempt that began after it was      *)
(* asked for, however it was queued behind other attempts.                 *)
ForcedAnswersAreCurrent ==
  \A c \in Callers : cpc[c] = "return" /\ force[c] => Current(wanted[c])

(* The generation a waiting caller waits for is the one being made, or the *)
(* one after it, or it is already completed: nobody waits for a generation *)
(* that no runner owes.                                                    *)
WaitersAreOwed ==
  \A c \in Callers : cpc[c] = "waiting" /\ completed < target[c] =>
     /\ runnerActive /\ attempt # 0
     /\ target[c] <= requested
     /\ requested <= attempt + 1

(* The inductive invariant behind these properties, in parts.              *)

(* At most one runner owns the flight, and runner_active says so.          *)
OneOwner ==
  /\ \A r, q \in Runners : Owns(r) /\ Owns(q) => r = q
  /\ runnerActive <=> \E r \in Runners : Owns(r)

(* A worker exists from the spawn until its answer is taken or drained.    *)
WorkerOwned ==
  \A r \in Runners :
    /\ rpc[r] \in {"free", "start", "send", "lastSend"} => worker[r] = "none" /\ ~late[r]
    /\ rpc[r] = "awaiting" => worker[r] # "none" /\ ~late[r]
    /\ rpc[r] \in {"apply", "stamp", "settle"} => (late[r] <=> worker[r] # "none")
    /\ rpc[r] \in {"lateSend", "draining"} => worker[r] # "none" /\ late[r]

(* How the three generation counters stand to each other at each stage.    *)
GenerationsAgree ==
  /\ watch <= completed
  /\ ~runnerActive => attempt = 0 /\ requested = completed
  /\ \A r \in Runners :
       /\ rpc[r] \in {"start", "awaiting", "apply", "stamp", "settle", "send"} =>
            attempt = completed + 1 /\ requested \in {attempt, attempt + 1}
       /\ rpc[r] \in {"awaiting", "apply", "stamp", "settle"} => gen[r] = attempt
       /\ rpc[r] \in {"send", "lastSend", "lateSend"} => gen[r] <= completed
       /\ rpc[r] \in {"lateSend", "draining"} => attempt = 0 /\ requested = completed

(* The versions an attempt may publish are newer than what is published.   *)
VersionsAgree ==
  /\ view.snapshot <= world
  /\ view.refreshing <=> \E r \in Runners : Attempting(r)
  /\ \A r \in Runners :
       /\ worker[r] # "none" \/ Attempting(r) => since[r] \in 1 .. world
       /\ worker[r] = "answered" \/ (rpc[r] = "apply" /\ ~late[r]) =>
            result[r] = 0 \/ result[r] \in since[r] .. world
       /\ Attempting(r) => view.snapshot <= since[r]
       /\ late[r] /\ rpc[r] # "apply" => view.error

(* Any attempt under way began late enough, and so did the published one.  *)
Answerable(v) ==
  /\ Current(v)
  /\ \A r \in Runners : Attempting(r) => since[r] >= v

(* The generation is completed, or its attempt has begun.                  *)
Reached(g) ==
  \/ g <= completed
  \/ /\ g = attempt
     /\ \E r \in Runners : rpc[r] \in {"awaiting", "apply", "stamp", "settle"}

CallersServed ==
  \A c \in Callers :
    /\ wanted[c] <= world
    /\ cpc[c] \in {"idle", "backoffCheck"} => ~force[c]
    /\ cpc[c] = "waiting" => target[c] <= requested
    /\ force[c] /\ (cpc[c] = "return" \/ (cpc[c] = "waiting" /\ Reached(target[c]))) =>
         Answerable(wanted[c])

FlightInv ==
  /\ TypeOK /\ OneOwner /\ WorkerOwned /\ GenerationsAgree /\ VersionsAgree
  /\ CallersServed

(* The flight implements the one-call-at-a-time server of CoalescedCalls:  *)
(* what its forced callers see is what that server may answer.             *)
Attempts == {r \in Runners : Attempting(r)}
AttemptBegan == IF Attempts = {} THEN 0 ELSE since[CHOOSE r \in Attempts : TRUE]

ForcedPhase(c) ==
  IF cpc[c] = "idle" \/ ~force[c] THEN "idle"
  ELSE IF cpc[c] = "return" THEN "answered" ELSE "asked"

Server == INSTANCE CoalescedCalls WITH
  now     <- world,
  calling <- \E r \in Runners : worker[r] = "running",
  status  <- IF view.refreshing THEN "busy" ELSE IF view.error THEN "failed" ELSE "ok",
  began   <- AttemptBegan,
  value   <- view.snapshot,
  phase   <- [c \in Callers |-> ForcedPhase(c)],
  asked   <- [c \in Callers |-> IF force[c] THEN wanted[c] ELSE 0]

ServerSpec == Server!Spec

(* A late answer never replaces a newer snapshot: the snapshot's version   *)
(* never goes back.                                                        *)
SnapshotNeverRegresses == [][view'.snapshot >= view.snapshot]_vars

(* Every generation a caller waits for gets completed, even when the       *)
(* provider call hangs for ever: the timeout releases the waiters.         *)
EveryGenerationCompletes ==
  \A c \in Callers :
    cpc[c] = "waiting" ~> (cpc[c] # "waiting" \/ completed >= target[c])

(* A timed-out worker does not keep the flight for ever if it ever ends.   *)
DrainingEnds ==
  WorkersEnd => (runnerActive /\ attempt = 0) ~> (~runnerActive \/ attempt # 0)

(* Every caller of refresh() returns ("refresh should not deadlock").      *)
EveryCallerReturns == \A c \in Callers : cpc[c] = "waiting" ~> cpc[c] # "waiting"
=============================================================================
