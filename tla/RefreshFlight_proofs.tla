----------------------- MODULE RefreshFlight_proofs ------------------------
(***************************************************************************)
(* Proofs about RefreshFlight for every set of callers and runners: the    *)
(* inductive invariant FlightInv, the safety properties that follow from   *)
(* it, and the refinement of CoalescedCalls; and about the way of requests *)
(* (ProxyRouting), the other part of MCRefreshes.                          *)
(*                                                                         *)
(* There is one lemma per action, with one step per part of the invariant. *)
(* The part that needs the argument is CallersServed: a caller's target is *)
(* reached only by an attempt that began after the caller joined, so what  *)
(* is published from then on is at least as new as what it wanted.         *)
(***************************************************************************)
EXTENDS MCRefreshes, TLAPS

USE DEF flightVars, runnerVars, callerVars, RunnerStages, CallerStages

THEOREM InitEstablishes == Init => FlightInv
<1>. SUFFICES ASSUME Init PROVE FlightInv
  OBVIOUS
<1>1. TypeOK
  <2>1. view \in [snapshot : Nat, refreshing : BOOLEAN, error : BOOLEAN]
    BY DEF Init
  <2>2. /\ world \in Nat \ {0} /\ attempt \in Nat /\ requested \in Nat
        /\ completed \in Nat /\ watch \in Nat
    BY DEF Init
  <2>3. /\ gen \in [Runners -> Nat] /\ since \in [Runners -> Nat]
        /\ result \in [Runners -> Nat]
        /\ target \in [Callers -> Nat] /\ wanted \in [Callers -> Nat]
    BY DEF Init
  <2>4. /\ runnerActive \in BOOLEAN /\ fresh \in BOOLEAN /\ backoff \in BOOLEAN
        /\ late \in [Runners -> BOOLEAN] /\ force \in [Callers -> BOOLEAN]
    BY DEF Init
  <2>5. /\ rpc \in [Runners -> RunnerStages] /\ cpc \in [Callers -> CallerStages]
        /\ worker \in [Runners -> {"none", "running", "answered"}]
    BY DEF Init
  <2>. QED  BY <2>1, <2>2, <2>3, <2>4, <2>5 DEF TypeOK
<1>2. OneOwner /\ WorkerOwned /\ GenerationsAgree /\ VersionsAgree
  BY <1>1 DEF Init, TypeOK, OneOwner, Owns, WorkerOwned, GenerationsAgree, VersionsAgree,
              Attempting
<1>3. CallersServed
  BY DEF Init, CallersServed
<1>. QED  BY <1>1, <1>2, <1>3 DEF FlightInv

LEMMA AccountChangesStep ==
  ASSUME FlightInv, AccountChanges
  PROVE  FlightInv'
<1>. TypeOK /\ OneOwner /\ WorkerOwned /\ GenerationsAgree /\ VersionsAgree /\ CallersServed
  BY DEF FlightInv
<1>1. TypeOK'
  BY DEF AccountChanges, TypeOK
<1>2. OneOwner'
  BY DEF AccountChanges, TypeOK, OneOwner, Owns
<1>3. WorkerOwned'
  BY DEF AccountChanges, TypeOK, WorkerOwned
<1>4. GenerationsAgree'
  BY DEF AccountChanges, TypeOK, GenerationsAgree, OneOwner, Owns, WorkerOwned
<1>5. VersionsAgree'
  BY DEF AccountChanges, TypeOK, VersionsAgree, OneOwner, Owns, Attempting,
         WorkerOwned
<1>6. CallersServed'
  BY DEF AccountChanges, TypeOK, CallersServed, Answerable, Current,
         Reached, VersionsAgree, OneOwner, Owns, Attempting, WorkerOwned, GenerationsAgree
<1>. QED  BY <1>1, <1>2, <1>3, <1>4, <1>5, <1>6 DEF FlightInv

LEMMA FreshnessExpiresStep ==
  ASSUME FlightInv, FreshnessExpires
  PROVE  FlightInv'
<1>. TypeOK /\ OneOwner /\ WorkerOwned /\ GenerationsAgree /\ VersionsAgree /\ CallersServed
  BY DEF FlightInv
<1>1. TypeOK'
  BY DEF FreshnessExpires, TypeOK
<1>2. OneOwner'
  BY DEF FreshnessExpires, TypeOK, OneOwner, Owns
<1>3. WorkerOwned'
  BY DEF FreshnessExpires, TypeOK, WorkerOwned
<1>4. GenerationsAgree'
  BY DEF FreshnessExpires, TypeOK, GenerationsAgree, OneOwner, Owns, WorkerOwned
<1>5. VersionsAgree'
  BY DEF FreshnessExpires, TypeOK, VersionsAgree, OneOwner, Owns, Attempting,
         WorkerOwned
<1>6. CallersServed'
  BY DEF FreshnessExpires, TypeOK, CallersServed, Answerable, Current,
         Reached, VersionsAgree, OneOwner, Owns, Attempting, WorkerOwned, GenerationsAgree
<1>. QED  BY <1>1, <1>2, <1>3, <1>4, <1>5, <1>6 DEF FlightInv

LEMMA BackoffExpiresStep ==
  ASSUME FlightInv, BackoffExpires
  PROVE  FlightInv'
<1>. TypeOK /\ OneOwner /\ WorkerOwned /\ GenerationsAgree /\ VersionsAgree /\ CallersServed
  BY DEF FlightInv
<1>1. TypeOK'
  BY DEF BackoffExpires, TypeOK
<1>2. OneOwner'
  BY DEF BackoffExpires, TypeOK, OneOwner, Owns
<1>3. WorkerOwned'
  BY DEF BackoffExpires, TypeOK, WorkerOwned
<1>4. GenerationsAgree'
  BY DEF BackoffExpires, TypeOK, GenerationsAgree, OneOwner, Owns, WorkerOwned
<1>5. VersionsAgree'
  BY DEF BackoffExpires, TypeOK, VersionsAgree, OneOwner, Owns, Attempting,
         WorkerOwned
<1>6. CallersServed'
  BY DEF BackoffExpires, TypeOK, CallersServed, Answerable, Current,
         Reached, VersionsAgree, OneOwner, Owns, Attempting, WorkerOwned, GenerationsAgree
<1>. QED  BY <1>1, <1>2, <1>3, <1>4, <1>5, <1>6 DEF FlightInv

LEMMA CallStep ==
  ASSUME NEW c \in Callers, NEW f \in BOOLEAN, FlightInv, Call(c, f)
  PROVE  FlightInv'
<1>. TypeOK /\ OneOwner /\ WorkerOwned /\ GenerationsAgree /\ VersionsAgree /\ CallersServed
  BY DEF FlightInv
<1>1. TypeOK'
  BY DEF Call, TypeOK
<1>2. OneOwner'
  BY DEF Call, TypeOK, OneOwner, Owns
<1>3. WorkerOwned'
  BY DEF Call, TypeOK, WorkerOwned
<1>4. GenerationsAgree'
  BY DEF Call, TypeOK, GenerationsAgree, OneOwner, Owns, WorkerOwned
<1>5. VersionsAgree'
  BY DEF Call, TypeOK, VersionsAgree, OneOwner, Owns, Attempting,
         WorkerOwned
<1>6. CallersServed'
  BY DEF Call, TypeOK, CallersServed, Answerable, Current,
         Reached, VersionsAgree, OneOwner, Owns, Attempting, WorkerOwned, GenerationsAgree
<1>. QED  BY <1>1, <1>2, <1>3, <1>4, <1>5, <1>6 DEF FlightInv

LEMMA JoinAsFirstStep ==
  ASSUME NEW c \in Callers, NEW r \in Runners, FlightInv, JoinAsFirst(c, r)
  PROVE  FlightInv'
<1>. TypeOK /\ OneOwner /\ WorkerOwned /\ GenerationsAgree /\ VersionsAgree /\ CallersServed
  BY DEF FlightInv
<1>1. TypeOK'
  BY DEF JoinAsFirst, TypeOK
<1>2. OneOwner'
  BY DEF JoinAsFirst, TypeOK, OneOwner, Owns
<1>3. WorkerOwned'
  BY DEF JoinAsFirst, TypeOK, WorkerOwned
<1>4. GenerationsAgree'
  BY DEF JoinAsFirst, TypeOK, GenerationsAgree, OneOwner, Owns, WorkerOwned
<1>5. VersionsAgree'
  BY DEF JoinAsFirst, TypeOK, VersionsAgree, OneOwner, Owns, Attempting,
         WorkerOwned
<1>6. CallersServed'
  BY DEF JoinAsFirst, TypeOK, CallersServed, Answerable, Current,
         Reached, VersionsAgree, OneOwner, Owns, Attempting, WorkerOwned, GenerationsAgree
<1>. QED  BY <1>1, <1>2, <1>3, <1>4, <1>5, <1>6 DEF FlightInv

LEMMA CheckBackoffStep ==
  ASSUME NEW c \in Callers, FlightInv, CheckBackoff(c)
  PROVE  FlightInv'
<1>. TypeOK /\ OneOwner /\ WorkerOwned /\ GenerationsAgree /\ VersionsAgree /\ CallersServed
  BY DEF FlightInv
<1>1. TypeOK'
  BY DEF CheckBackoff, TypeOK
<1>2. OneOwner'
  BY DEF CheckBackoff, TypeOK, OneOwner, Owns
<1>3. WorkerOwned'
  BY DEF CheckBackoff, TypeOK, WorkerOwned
<1>4. GenerationsAgree'
  BY DEF CheckBackoff, TypeOK, GenerationsAgree, OneOwner, Owns, WorkerOwned
<1>5. VersionsAgree'
  BY DEF CheckBackoff, TypeOK, VersionsAgree, OneOwner, Owns, Attempting,
         WorkerOwned
<1>6. CallersServed'
  <2>. SUFFICES ASSUME NEW d \in Callers
       PROVE  /\ wanted'[d] <= world'
              /\ cpc'[d] \in {"idle", "backoffCheck"} => ~force'[d]
              /\ cpc'[d] = "waiting" => target'[d] <= requested'
              /\ force'[d] /\ (cpc'[d] = "return" \/ (cpc'[d] = "waiting" /\ Reached(target[d])'))
                   => Answerable(wanted[d])'
    BY DEF CallersServed, CheckBackoff
  <2>1. /\ wanted'[d] <= world'
        /\ cpc'[d] \in {"idle", "backoffCheck"} => ~force'[d]
        /\ (cpc'[d] = "waiting" => target'[d] <= requested')
    BY DEF CheckBackoff, CallersServed, TypeOK
  <2>2. Answerable(wanted[d]) => Answerable(wanted[d])'
    BY DEF CheckBackoff, Answerable, Current, Attempting, TypeOK
  <2>3. force'[d] /\ (cpc'[d] = "return" \/ (cpc'[d] = "waiting" /\ Reached(target[d])'))
          => force[d] /\ (cpc[d] = "return" \/ (cpc[d] = "waiting" /\ Reached(target[d])))
    BY DEF CheckBackoff, Reached, TypeOK, GenerationsAgree, OneOwner, Owns,
           CallersServed
  <2>. QED  BY <2>1, <2>2, <2>3 DEF CallersServed
<1>. QED  BY <1>1, <1>2, <1>3, <1>4, <1>5, <1>6 DEF FlightInv

LEMMA JoinWhileDrainingStep ==
  ASSUME NEW c \in Callers, FlightInv, JoinWhileDraining(c)
  PROVE  FlightInv'
<1>. TypeOK /\ OneOwner /\ WorkerOwned /\ GenerationsAgree /\ VersionsAgree /\ CallersServed
  BY DEF FlightInv
<1>1. TypeOK'
  BY DEF JoinWhileDraining, TypeOK
<1>2. OneOwner'
  BY DEF JoinWhileDraining, TypeOK, OneOwner, Owns
<1>3. WorkerOwned'
  BY DEF JoinWhileDraining, TypeOK, WorkerOwned
<1>4. GenerationsAgree'
  BY DEF JoinWhileDraining, TypeOK, GenerationsAgree, OneOwner, Owns, WorkerOwned
<1>5. VersionsAgree'
  BY DEF JoinWhileDraining, TypeOK, VersionsAgree, OneOwner, Owns, Attempting,
         WorkerOwned
<1>6. CallersServed'
  BY DEF JoinWhileDraining, TypeOK, CallersServed, Answerable, Current,
         Reached, VersionsAgree, OneOwner, Owns, Attempting, WorkerOwned, GenerationsAgree
<1>. QED  BY <1>1, <1>2, <1>3, <1>4, <1>5, <1>6 DEF FlightInv

LEMMA JoinAttemptStep ==
  ASSUME NEW c \in Callers, FlightInv, JoinAttempt(c)
  PROVE  FlightInv'
<1>. TypeOK /\ OneOwner /\ WorkerOwned /\ GenerationsAgree /\ VersionsAgree /\ CallersServed
  BY DEF FlightInv
<1>1. TypeOK'
  BY DEF JoinAttempt, TypeOK
<1>2. OneOwner'
  BY DEF JoinAttempt, TypeOK, OneOwner, Owns
<1>3. WorkerOwned'
  BY DEF JoinAttempt, TypeOK, WorkerOwned
<1>4. GenerationsAgree'
  BY DEF JoinAttempt, TypeOK, GenerationsAgree, OneOwner, Owns, WorkerOwned
<1>5. VersionsAgree'
  BY DEF JoinAttempt, TypeOK, VersionsAgree, OneOwner, Owns, Attempting,
         WorkerOwned
<1>6. CallersServed'
  BY DEF JoinAttempt, TypeOK, CallersServed, Answerable, Current,
         Reached, VersionsAgree, OneOwner, Owns, Attempting, WorkerOwned, GenerationsAgree
<1>. QED  BY <1>1, <1>2, <1>3, <1>4, <1>5, <1>6 DEF FlightInv

LEMMA WakeUpStep ==
  ASSUME NEW c \in Callers, FlightInv, WakeUp(c)
  PROVE  FlightInv'
<1>. TypeOK /\ OneOwner /\ WorkerOwned /\ GenerationsAgree /\ VersionsAgree /\ CallersServed
  BY DEF FlightInv
<1>1. TypeOK'
  BY DEF WakeUp, TypeOK
<1>2. OneOwner'
  BY DEF WakeUp, TypeOK, OneOwner, Owns
<1>3. WorkerOwned'
  BY DEF WakeUp, TypeOK, WorkerOwned
<1>4. GenerationsAgree'
  BY DEF WakeUp, TypeOK, GenerationsAgree, OneOwner, Owns, WorkerOwned
<1>5. VersionsAgree'
  BY DEF WakeUp, TypeOK, VersionsAgree, OneOwner, Owns, Attempting,
         WorkerOwned
<1>6. CallersServed'
  BY DEF WakeUp, TypeOK, CallersServed, Answerable, Current,
         Reached, VersionsAgree, OneOwner, Owns, Attempting, WorkerOwned, GenerationsAgree
<1>. QED  BY <1>1, <1>2, <1>3, <1>4, <1>5, <1>6 DEF FlightInv

LEMMA AbandonStep ==
  ASSUME NEW c \in Callers, FlightInv, Abandon(c)
  PROVE  FlightInv'
<1>. TypeOK /\ OneOwner /\ WorkerOwned /\ GenerationsAgree /\ VersionsAgree /\ CallersServed
  BY DEF FlightInv
<1>1. TypeOK'
  BY DEF Abandon, LeaveCall, TypeOK
<1>2. OneOwner'
  BY DEF Abandon, LeaveCall, TypeOK, OneOwner, Owns
<1>3. WorkerOwned'
  BY DEF Abandon, LeaveCall, TypeOK, WorkerOwned
<1>4. GenerationsAgree'
  BY DEF Abandon, LeaveCall, TypeOK, GenerationsAgree, OneOwner, Owns, WorkerOwned
<1>5. VersionsAgree'
  BY DEF Abandon, LeaveCall, TypeOK, VersionsAgree, OneOwner, Owns, Attempting,
         WorkerOwned
<1>6. CallersServed'
  BY DEF Abandon, LeaveCall, TypeOK, CallersServed, Answerable, Current,
         Reached, VersionsAgree, OneOwner, Owns, Attempting, WorkerOwned, GenerationsAgree
<1>. QED  BY <1>1, <1>2, <1>3, <1>4, <1>5, <1>6 DEF FlightInv

LEMMA ReturnStep ==
  ASSUME NEW c \in Callers, FlightInv, Return(c)
  PROVE  FlightInv'
<1>. TypeOK /\ OneOwner /\ WorkerOwned /\ GenerationsAgree /\ VersionsAgree /\ CallersServed
  BY DEF FlightInv
<1>1. TypeOK'
  BY DEF Return, LeaveCall, TypeOK
<1>2. OneOwner'
  BY DEF Return, LeaveCall, TypeOK, OneOwner, Owns
<1>3. WorkerOwned'
  BY DEF Return, LeaveCall, TypeOK, WorkerOwned
<1>4. GenerationsAgree'
  BY DEF Return, LeaveCall, TypeOK, GenerationsAgree, OneOwner, Owns, WorkerOwned
<1>5. VersionsAgree'
  BY DEF Return, LeaveCall, TypeOK, VersionsAgree, OneOwner, Owns, Attempting,
         WorkerOwned
<1>6. CallersServed'
  BY DEF Return, LeaveCall, TypeOK, CallersServed, Answerable, Current,
         Reached, VersionsAgree, OneOwner, Owns, Attempting, WorkerOwned, GenerationsAgree
<1>. QED  BY <1>1, <1>2, <1>3, <1>4, <1>5, <1>6 DEF FlightInv

LEMMA StartAttemptStep ==
  ASSUME NEW r \in Runners, FlightInv, StartAttempt(r)
  PROVE  FlightInv'
<1>. TypeOK /\ OneOwner /\ WorkerOwned /\ GenerationsAgree /\ VersionsAgree /\ CallersServed
  BY DEF FlightInv
<1>1. TypeOK'
  BY DEF StartAttempt, TypeOK
<1>2. OneOwner'
  BY DEF StartAttempt, TypeOK, OneOwner, Owns
<1>3. WorkerOwned'
  BY DEF StartAttempt, TypeOK, WorkerOwned
<1>4. GenerationsAgree'
  BY DEF StartAttempt, TypeOK, GenerationsAgree, OneOwner, Owns, WorkerOwned
<1>5. VersionsAgree'
  BY DEF StartAttempt, TypeOK, VersionsAgree, OneOwner, Owns, Attempting,
         WorkerOwned
<1>6. CallersServed'
  BY DEF StartAttempt, TypeOK, CallersServed, Answerable, Current,
         Reached, VersionsAgree, OneOwner, Owns, Attempting, WorkerOwned, GenerationsAgree
<1>. QED  BY <1>1, <1>2, <1>3, <1>4, <1>5, <1>6 DEF FlightInv

LEMMA WorkerAnswersStep ==
  ASSUME NEW r \in Runners, FlightInv, WorkerAnswers(r)
  PROVE  FlightInv'
<1>. TypeOK /\ OneOwner /\ WorkerOwned /\ GenerationsAgree /\ VersionsAgree /\ CallersServed
  BY DEF FlightInv
<1>1. TypeOK'
  BY DEF WorkerAnswers, TypeOK
<1>2. OneOwner'
  BY DEF WorkerAnswers, TypeOK, OneOwner, Owns
<1>3. WorkerOwned'
  BY DEF WorkerAnswers, TypeOK, WorkerOwned
<1>4. GenerationsAgree'
  BY DEF WorkerAnswers, TypeOK, GenerationsAgree, OneOwner, Owns, WorkerOwned
<1>5. VersionsAgree'
  BY DEF WorkerAnswers, TypeOK, VersionsAgree, OneOwner, Owns, Attempting,
         WorkerOwned
<1>6. CallersServed'
  BY DEF WorkerAnswers, TypeOK, CallersServed, Answerable, Current,
         Reached, VersionsAgree, OneOwner, Owns, Attempting, WorkerOwned, GenerationsAgree
<1>. QED  BY <1>1, <1>2, <1>3, <1>4, <1>5, <1>6 DEF FlightInv

LEMMA TakeAnswerStep ==
  ASSUME NEW r \in Runners, FlightInv, TakeAnswer(r)
  PROVE  FlightInv'
<1>. TypeOK /\ OneOwner /\ WorkerOwned /\ GenerationsAgree /\ VersionsAgree /\ CallersServed
  BY DEF FlightInv
<1>1. TypeOK'
  BY DEF TakeAnswer, TypeOK
<1>2. OneOwner'
  BY DEF TakeAnswer, TypeOK, OneOwner, Owns
<1>3. WorkerOwned'
  BY DEF TakeAnswer, TypeOK, WorkerOwned
<1>4. GenerationsAgree'
  BY DEF TakeAnswer, TypeOK, GenerationsAgree, OneOwner, Owns, WorkerOwned
<1>5. VersionsAgree'
  BY DEF TakeAnswer, TypeOK, VersionsAgree, OneOwner, Owns, Attempting,
         WorkerOwned
<1>6. CallersServed'
  BY DEF TakeAnswer, TypeOK, CallersServed, Answerable, Current,
         Reached, VersionsAgree, OneOwner, Owns, Attempting, WorkerOwned, GenerationsAgree
<1>. QED  BY <1>1, <1>2, <1>3, <1>4, <1>5, <1>6 DEF FlightInv

LEMMA TimeOutStep ==
  ASSUME NEW r \in Runners, FlightInv, TimeOut(r)
  PROVE  FlightInv'
<1>. TypeOK /\ OneOwner /\ WorkerOwned /\ GenerationsAgree /\ VersionsAgree /\ CallersServed
  BY DEF FlightInv
<1>1. TypeOK'
  BY DEF TimeOut, TypeOK
<1>2. OneOwner'
  BY DEF TimeOut, TypeOK, OneOwner, Owns
<1>3. WorkerOwned'
  BY DEF TimeOut, TypeOK, WorkerOwned
<1>4. GenerationsAgree'
  BY DEF TimeOut, TypeOK, GenerationsAgree, OneOwner, Owns, WorkerOwned
<1>5. VersionsAgree'
  BY DEF TimeOut, TypeOK, VersionsAgree, OneOwner, Owns, Attempting,
         WorkerOwned
<1>6. CallersServed'
  BY DEF TimeOut, TypeOK, CallersServed, Answerable, Current,
         Reached, VersionsAgree, OneOwner, Owns, Attempting, WorkerOwned, GenerationsAgree
<1>. QED  BY <1>1, <1>2, <1>3, <1>4, <1>5, <1>6 DEF FlightInv

LEMMA ApplySuccessStep ==
  ASSUME NEW r \in Runners, FlightInv, ApplySuccess(r)
  PROVE  FlightInv'
<1>. TypeOK /\ OneOwner /\ WorkerOwned /\ GenerationsAgree /\ VersionsAgree /\ CallersServed
  BY DEF FlightInv
<1>1. TypeOK'
  BY DEF ApplySuccess, DropAnswer, TypeOK
<1>2. OneOwner'
  BY DEF ApplySuccess, DropAnswer, TypeOK, OneOwner, Owns
<1>3. WorkerOwned'
  BY DEF ApplySuccess, DropAnswer, TypeOK, WorkerOwned
<1>4. GenerationsAgree'
  BY DEF ApplySuccess, DropAnswer, TypeOK, GenerationsAgree, OneOwner, Owns, WorkerOwned
<1>5. VersionsAgree'
  BY DEF ApplySuccess, DropAnswer, TypeOK, VersionsAgree, OneOwner, Owns, Attempting,
         WorkerOwned
<1>6. CallersServed'
  BY DEF ApplySuccess, DropAnswer, TypeOK, CallersServed, Answerable, Current,
         Reached, VersionsAgree, OneOwner, Owns, Attempting, WorkerOwned, GenerationsAgree
<1>. QED  BY <1>1, <1>2, <1>3, <1>4, <1>5, <1>6 DEF FlightInv

LEMMA ApplyFailureStep ==
  ASSUME NEW r \in Runners, FlightInv, ApplyFailure(r)
  PROVE  FlightInv'
<1>. TypeOK /\ OneOwner /\ WorkerOwned /\ GenerationsAgree /\ VersionsAgree /\ CallersServed
  BY DEF FlightInv
<1>1. TypeOK'
  <2>1. CASE late[r]
    BY <2>1 DEF ApplyFailure, DropAnswer, TypeOK
  <2>2. CASE ~late[r]
    BY <2>2 DEF ApplyFailure, DropAnswer, TypeOK
  <2>. QED  BY <2>1, <2>2
<1>2. OneOwner'
  BY DEF ApplyFailure, DropAnswer, TypeOK, OneOwner, Owns
<1>3. WorkerOwned'
  BY DEF ApplyFailure, DropAnswer, TypeOK, WorkerOwned
<1>4. GenerationsAgree'
  BY DEF ApplyFailure, DropAnswer, TypeOK, GenerationsAgree, OneOwner, Owns, WorkerOwned
<1>5. VersionsAgree'
  BY DEF ApplyFailure, DropAnswer, TypeOK, VersionsAgree, OneOwner, Owns, Attempting,
         WorkerOwned
<1>6. CallersServed'
  BY DEF ApplyFailure, DropAnswer, TypeOK, CallersServed, Answerable, Current,
         Reached, VersionsAgree, OneOwner, Owns, Attempting, WorkerOwned, GenerationsAgree
<1>. QED  BY <1>1, <1>2, <1>3, <1>4, <1>5, <1>6 DEF FlightInv

LEMMA StampStep ==
  ASSUME NEW r \in Runners, FlightInv, Stamp(r)
  PROVE  FlightInv'
<1>. TypeOK /\ OneOwner /\ WorkerOwned /\ GenerationsAgree /\ VersionsAgree /\ CallersServed
  BY DEF FlightInv
<1>1. TypeOK'
  BY DEF Stamp, TypeOK
<1>2. OneOwner'
  BY DEF Stamp, TypeOK, OneOwner, Owns
<1>3. WorkerOwned'
  BY DEF Stamp, TypeOK, WorkerOwned
<1>4. GenerationsAgree'
  BY DEF Stamp, TypeOK, GenerationsAgree, OneOwner, Owns, WorkerOwned
<1>5. VersionsAgree'
  BY DEF Stamp, TypeOK, VersionsAgree, OneOwner, Owns, Attempting,
         WorkerOwned
<1>6. CallersServed'
  BY DEF Stamp, TypeOK, CallersServed, Answerable, Current,
         Reached, VersionsAgree, OneOwner, Owns, Attempting, WorkerOwned, GenerationsAgree
<1>. QED  BY <1>1, <1>2, <1>3, <1>4, <1>5, <1>6 DEF FlightInv

LEMMA SettleAndFollowUpStep ==
  ASSUME NEW r \in Runners, FlightInv, SettleAndFollowUp(r)
  PROVE  FlightInv'
<1>. TypeOK /\ OneOwner /\ WorkerOwned /\ GenerationsAgree /\ VersionsAgree /\ CallersServed
  BY DEF FlightInv
<1>1. TypeOK'
  BY DEF SettleAndFollowUp, TypeOK
<1>2. OneOwner'
  BY DEF SettleAndFollowUp, TypeOK, OneOwner, Owns
<1>3. WorkerOwned'
  BY DEF SettleAndFollowUp, TypeOK, WorkerOwned
<1>4. GenerationsAgree'
  BY DEF SettleAndFollowUp, TypeOK, GenerationsAgree, OneOwner, Owns, WorkerOwned
<1>5. VersionsAgree'
  BY DEF SettleAndFollowUp, TypeOK, VersionsAgree, OneOwner, Owns, Attempting,
         WorkerOwned
<1>6. CallersServed'
  <2>. SUFFICES ASSUME NEW d \in Callers
       PROVE  /\ wanted'[d] <= world'
              /\ cpc'[d] \in {"idle", "backoffCheck"} => ~force'[d]
              /\ cpc'[d] = "waiting" => target'[d] <= requested'
              /\ force'[d] /\ (cpc'[d] = "return" \/ (cpc'[d] = "waiting" /\ Reached(target[d])'))
                   => Answerable(wanted[d])'
    BY DEF CallersServed, SettleAndFollowUp
  <2>1. /\ wanted'[d] <= world'
        /\ cpc'[d] \in {"idle", "backoffCheck"} => ~force'[d]
        /\ (cpc'[d] = "waiting" => target'[d] <= requested')
    BY DEF SettleAndFollowUp, CallersServed, TypeOK
  <2>2. Answerable(wanted[d]) => Answerable(wanted[d])'
    BY DEF SettleAndFollowUp, Answerable, Current, Attempting, TypeOK
  <2>3. force'[d] /\ (cpc'[d] = "return" \/ (cpc'[d] = "waiting" /\ Reached(target[d])'))
          => force[d] /\ (cpc[d] = "return" \/ (cpc[d] = "waiting" /\ Reached(target[d])))
    BY DEF SettleAndFollowUp, Reached, TypeOK, GenerationsAgree, OneOwner, Owns,
           CallersServed
  <2>. QED  BY <2>1, <2>2, <2>3 DEF CallersServed
<1>. QED  BY <1>1, <1>2, <1>3, <1>4, <1>5, <1>6 DEF FlightInv

LEMMA SettleAndReleaseStep ==
  ASSUME NEW r \in Runners, FlightInv, SettleAndRelease(r)
  PROVE  FlightInv'
<1>. TypeOK /\ OneOwner /\ WorkerOwned /\ GenerationsAgree /\ VersionsAgree /\ CallersServed
  BY DEF FlightInv
<1>1. TypeOK'
  BY DEF SettleAndRelease, TypeOK
<1>2. OneOwner'
  BY DEF SettleAndRelease, TypeOK, OneOwner, Owns
<1>3. WorkerOwned'
  BY DEF SettleAndRelease, TypeOK, WorkerOwned
<1>4. GenerationsAgree'
  BY DEF SettleAndRelease, TypeOK, GenerationsAgree, OneOwner, Owns, WorkerOwned
<1>5. VersionsAgree'
  BY DEF SettleAndRelease, TypeOK, VersionsAgree, OneOwner, Owns, Attempting,
         WorkerOwned
<1>6. CallersServed'
  <2>. SUFFICES ASSUME NEW d \in Callers
       PROVE  /\ wanted'[d] <= world'
              /\ cpc'[d] \in {"idle", "backoffCheck"} => ~force'[d]
              /\ cpc'[d] = "waiting" => target'[d] <= requested'
              /\ force'[d] /\ (cpc'[d] = "return" \/ (cpc'[d] = "waiting" /\ Reached(target[d])'))
                   => Answerable(wanted[d])'
    BY DEF CallersServed, SettleAndRelease
  <2>1. /\ wanted'[d] <= world'
        /\ cpc'[d] \in {"idle", "backoffCheck"} => ~force'[d]
        /\ (cpc'[d] = "waiting" => target'[d] <= requested')
    BY DEF SettleAndRelease, CallersServed, TypeOK
  <2>2. Answerable(wanted[d]) => Answerable(wanted[d])'
    BY DEF SettleAndRelease, Answerable, Current, Attempting, TypeOK
  <2>3. force'[d] /\ (cpc'[d] = "return" \/ (cpc'[d] = "waiting" /\ Reached(target[d])'))
          => force[d] /\ (cpc[d] = "return" \/ (cpc[d] = "waiting" /\ Reached(target[d])))
    BY DEF SettleAndRelease, Reached, TypeOK, GenerationsAgree, OneOwner, Owns,
           CallersServed
  <2>. QED  BY <2>1, <2>2, <2>3 DEF CallersServed
<1>. QED  BY <1>1, <1>2, <1>3, <1>4, <1>5, <1>6 DEF FlightInv

LEMMA SendStep ==
  ASSUME NEW r \in Runners, FlightInv, Send(r)
  PROVE  FlightInv'
<1>. TypeOK /\ OneOwner /\ WorkerOwned /\ GenerationsAgree /\ VersionsAgree /\ CallersServed
  BY DEF FlightInv
<1>1. TypeOK'
  BY DEF Send, TypeOK
<1>2. OneOwner'
  BY DEF Send, TypeOK, OneOwner, Owns
<1>3. WorkerOwned'
  BY DEF Send, TypeOK, WorkerOwned
<1>4. GenerationsAgree'
  BY DEF Send, TypeOK, GenerationsAgree, OneOwner, Owns, WorkerOwned
<1>5. VersionsAgree'
  BY DEF Send, TypeOK, VersionsAgree, OneOwner, Owns, Attempting,
         WorkerOwned
<1>6. CallersServed'
  BY DEF Send, TypeOK, CallersServed, Answerable, Current,
         Reached, VersionsAgree, OneOwner, Owns, Attempting, WorkerOwned, GenerationsAgree
<1>. QED  BY <1>1, <1>2, <1>3, <1>4, <1>5, <1>6 DEF FlightInv

LEMMA SettleLateStep ==
  ASSUME NEW r \in Runners, FlightInv, SettleLate(r)
  PROVE  FlightInv'
<1>. TypeOK /\ OneOwner /\ WorkerOwned /\ GenerationsAgree /\ VersionsAgree /\ CallersServed
  BY DEF FlightInv
<1>1. TypeOK'
  BY DEF SettleLate, TypeOK
<1>2. OneOwner'
  BY DEF SettleLate, TypeOK, OneOwner, Owns
<1>3. WorkerOwned'
  BY DEF SettleLate, TypeOK, WorkerOwned
<1>4. GenerationsAgree'
  BY DEF SettleLate, TypeOK, GenerationsAgree, OneOwner, Owns, WorkerOwned
<1>5. VersionsAgree'
  BY DEF SettleLate, TypeOK, VersionsAgree, OneOwner, Owns, Attempting,
         WorkerOwned
<1>6. CallersServed'
  BY DEF SettleLate, TypeOK, CallersServed, Answerable, Current,
         Reached, VersionsAgree, OneOwner, Owns, Attempting, WorkerOwned, GenerationsAgree
<1>. QED  BY <1>1, <1>2, <1>3, <1>4, <1>5, <1>6 DEF FlightInv

LEMMA SendLateStep ==
  ASSUME NEW r \in Runners, FlightInv, SendLate(r)
  PROVE  FlightInv'
<1>. TypeOK /\ OneOwner /\ WorkerOwned /\ GenerationsAgree /\ VersionsAgree /\ CallersServed
  BY DEF FlightInv
<1>1. TypeOK'
  BY DEF SendLate, TypeOK
<1>2. OneOwner'
  BY DEF SendLate, TypeOK, OneOwner, Owns
<1>3. WorkerOwned'
  BY DEF SendLate, TypeOK, WorkerOwned
<1>4. GenerationsAgree'
  BY DEF SendLate, TypeOK, GenerationsAgree, OneOwner, Owns, WorkerOwned
<1>5. VersionsAgree'
  BY DEF SendLate, TypeOK, VersionsAgree, OneOwner, Owns, Attempting,
         WorkerOwned
<1>6. CallersServed'
  BY DEF SendLate, TypeOK, CallersServed, Answerable, Current,
         Reached, VersionsAgree, OneOwner, Owns, Attempting, WorkerOwned, GenerationsAgree
<1>. QED  BY <1>1, <1>2, <1>3, <1>4, <1>5, <1>6 DEF FlightInv

LEMMA DrainedStep ==
  ASSUME NEW r \in Runners, FlightInv, Drained(r)
  PROVE  FlightInv'
<1>. TypeOK /\ OneOwner /\ WorkerOwned /\ GenerationsAgree /\ VersionsAgree /\ CallersServed
  BY DEF FlightInv
<1>1. TypeOK'
  BY DEF Drained, TypeOK
<1>2. OneOwner'
  BY DEF Drained, TypeOK, OneOwner, Owns
<1>3. WorkerOwned'
  BY DEF Drained, TypeOK, WorkerOwned
<1>4. GenerationsAgree'
  BY DEF Drained, TypeOK, GenerationsAgree, OneOwner, Owns, WorkerOwned
<1>5. VersionsAgree'
  BY DEF Drained, TypeOK, VersionsAgree, OneOwner, Owns, Attempting,
         WorkerOwned
<1>6. CallersServed'
  BY DEF Drained, TypeOK, CallersServed, Answerable, Current,
         Reached, VersionsAgree, OneOwner, Owns, Attempting, WorkerOwned, GenerationsAgree
<1>. QED  BY <1>1, <1>2, <1>3, <1>4, <1>5, <1>6 DEF FlightInv

LEMMA StutterStep == FlightInv /\ UNCHANGED vars => FlightInv'
BY DEF vars, FlightInv, TypeOK, OneOwner, Owns, WorkerOwned, GenerationsAgree, VersionsAgree,
       Attempting, CallersServed, Answerable, Current, Reached

THEOREM NextPreserves == FlightInv /\ [Next]_vars => FlightInv'
<1>. SUFFICES ASSUME FlightInv, [Next]_vars PROVE FlightInv'
  OBVIOUS
<1>1. CASE AccountChanges \/ FreshnessExpires \/ BackoffExpires
  BY <1>1, AccountChangesStep, FreshnessExpiresStep, BackoffExpiresStep
<1>2. ASSUME NEW c \in Callers, CallerStep(c) PROVE FlightInv'
  BY <1>2, CheckBackoffStep, JoinAsFirstStep, JoinWhileDrainingStep, JoinAttemptStep,
     WakeUpStep, ReturnStep DEF CallerStep, Join
<1>3. ASSUME NEW c \in Callers, Abandon(c) \/ \E f \in BOOLEAN : Call(c, f) PROVE FlightInv'
  BY <1>3, AbandonStep, CallStep
<1>4. ASSUME NEW r \in Runners, RunnerStep(r) \/ WorkerAnswers(r) PROVE FlightInv'
  BY <1>4, StartAttemptStep, WorkerAnswersStep, TakeAnswerStep, TimeOutStep,
     ApplySuccessStep, ApplyFailureStep, StampStep, SettleAndFollowUpStep,
     SettleAndReleaseStep, SendStep, SettleLateStep, SendLateStep, DrainedStep
     DEF RunnerStep
<1>5. CASE UNCHANGED vars
  BY <1>5, StutterStep
<1>. QED  BY <1>1, <1>2, <1>3, <1>4, <1>5 DEF Next

(* FlightInv holds of every reachable state of the flight.                 *)
THEOREM FlightInvariant == Spec => []FlightInv
<1>1. Init => FlightInv
  BY InitEstablishes
<1>2. FlightInv /\ [Next]_vars => FlightInv'
  BY NextPreserves
<1>. QED  BY <1>1, <1>2, PTL DEF Spec

(* The state keeps its type.                                               *)
THEOREM TypeCorrect == Spec => []TypeOK
<1>1. FlightInv => TypeOK
  BY DEF FlightInv
<1>. QED  BY <1>1, FlightInvariant, PTL

(* Calls of one provider never overlap, timed-out calls included.          *)
THEOREM SingleFlight == Spec => []OneCallAtATime
<1>1. FlightInv => OneCallAtATime
  BY DEF FlightInv, TypeOK, OneOwner, Owns, WorkerOwned, OneCallAtATime
<1>. QED  BY <1>1, FlightInvariant, PTL

(* No forced refresh is answered with data read before it was asked for.   *)
THEOREM ForcedCurrent == Spec => []ForcedAnswersAreCurrent
<1>1. FlightInv => ForcedAnswersAreCurrent
  BY DEF FlightInv, CallersServed, Answerable, ForcedAnswersAreCurrent
<1>. QED  BY <1>1, FlightInvariant, PTL

(* Whoever waits for a generation has a runner that owes it.               *)
THEOREM Owed == Spec => []WaitersAreOwed
<1>1. FlightInv => WaitersAreOwed
  BY DEF FlightInv, TypeOK, CallersServed, GenerationsAgree, OneOwner, Owns, WaitersAreOwed
<1>. QED  BY <1>1, FlightInvariant, PTL

(* The published snapshot never goes back to an older version.             *)
THEOREM SnapshotMonotone == Spec => SnapshotNeverRegresses
<1>1. FlightInv /\ [Next]_vars => [view'.snapshot >= view.snapshot]_vars
  <2>. SUFFICES ASSUME FlightInv, [Next]_vars, view' # view
       PROVE  view'.snapshot >= view.snapshot
    BY DEF FlightInv, TypeOK
  <2>1. PICK r \in Runners : StartAttempt(r) \/ ApplySuccess(r) \/ ApplyFailure(r)
    BY DEF Next, vars, AccountChanges, FreshnessExpires, BackoffExpires, CallerStep, Call,
           CheckBackoff, Join, JoinAsFirst, JoinWhileDraining, JoinAttempt, WakeUp, Abandon,
           Return, RunnerStep, WorkerAnswers, TakeAnswer, TimeOut, Stamp, SettleAndFollowUp,
           SettleAndRelease, Send, SettleLate, SendLate, Drained
  <2>2. CASE ApplySuccess(r)
    BY <2>2 DEF ApplySuccess, FlightInv, TypeOK, VersionsAgree, Attempting
  <2>3. CASE StartAttempt(r) \/ ApplyFailure(r)
    BY <2>3 DEF StartAttempt, ApplyFailure, FlightInv, TypeOK
  <2>. QED  BY <2>1, <2>2, <2>3
<1>. QED  BY <1>1, FlightInvariant, PTL DEF Spec, SnapshotNeverRegresses

-----------------------------------------------------------------------------
(* The refinement of CoalescedCalls.                                       *)

LEMMA OneAttempt ==
  ASSUME FlightInv, NEW r \in Runners, Attempting(r)
  PROVE  Attempts = {r}
BY DEF FlightInv, OneOwner, Owns, Attempts, Attempting

LEMMA ChosenAttempt ==
  ASSUME NEW S, NEW r, S = {r}
  PROVE  (CHOOSE x \in S : TRUE) = r
OBVIOUS

USE DEF Server!vars

LEMMA InitRefines == Init => Server!Init
<1>. SUFFICES ASSUME Init PROVE Server!Init
  OBVIOUS
<1>1. Attempts = {}
  BY DEF Init, Attempts, Attempting
<1>2. \A c \in Callers : ForcedPhase(c) = "idle"
  BY DEF Init, ForcedPhase
<1>. QED  BY <1>1, <1>2 DEF Init, Server!Init, AttemptBegan

(* Steps the server does not see. *)
LEMMA SameAttempts ==
  ASSUME Attempts' = Attempts, since' = since
  PROVE  AttemptBegan' = AttemptBegan
BY DEF AttemptBegan

LEMMA CallersOnly ==
  ASSUME UNCHANGED <<world, view, rpc, since, worker>>,
         \A c \in Callers : /\ ForcedPhase(c)' = ForcedPhase(c)
                            /\ force[c]' = force[c] /\ wanted[c]' = wanted[c]
  PROVE  UNCHANGED Server!vars
<1>1. Attempts' = Attempts
  BY DEF Attempts, Attempting
<1>. QED  BY <1>1, SameAttempts

LEMMA RunnersOnly ==
  ASSUME UNCHANGED <<world, view, cpc, force, wanted>>, AttemptBegan' = AttemptBegan,
         \A r \in Runners : worker[r]' = "running" <=> worker[r] = "running"
  PROVE  UNCHANGED Server!vars
BY DEF ForcedPhase

LEMMA AnswerableIsAdmissible ==
  ASSUME FlightInv, NEW v \in Nat, Answerable(v)
  PROVE  Server!Admissible(v)
<1>1. CASE view.refreshing
  <2>1. PICK r \in Runners : Attempting(r)
    BY <1>1 DEF FlightInv, VersionsAgree
  <2>2. AttemptBegan = since[r]
    BY <2>1, OneAttempt, ChosenAttempt DEF AttemptBegan
  <2>. QED  BY <1>1, <2>1, <2>2 DEF Answerable, Server!Admissible
<1>2. CASE ~view.refreshing
  BY <1>2 DEF FlightInv, TypeOK, Answerable, Current, Server!Admissible
<1>. QED  BY <1>1, <1>2

(* A forced caller is answered: its phase goes from asked to answered.     *)
LEMMA AnswerRefines ==
  ASSUME NEW c \in Callers, FlightInv, FlightInv',
         cpc[c] \in {"join", "waiting"}, cpc' = [cpc EXCEPT ![c] = "return"],
         UNCHANGED <<world, view, rpc, since, worker, force, wanted>>
  PROVE  [Server!Next]_(Server!vars)
<1>. TypeOK
  BY DEF FlightInv
<1>1. Attempts' = Attempts
  BY DEF Attempts, Attempting
<1>2. AttemptBegan' = AttemptBegan
  BY <1>1, SameAttempts
<1>3. CASE force[c]
  <2>1. Answerable(wanted[c])'
    BY <1>3 DEF FlightInv, CallersServed, TypeOK
  <2>2. Answerable(wanted[c])
    BY <2>1 DEF Answerable, Current, Attempting
  <2>3. Server!Admissible(wanted[c])
    BY <2>2, AnswerableIsAdmissible DEF TypeOK
  <2>4. [d \in Callers |-> ForcedPhase(d)]'
          = [[d \in Callers |-> ForcedPhase(d)] EXCEPT ![c] = "answered"]
    BY <1>3 DEF ForcedPhase, TypeOK
  <2>5. Server!Answer(c)
    BY <1>2, <1>3, <2>3, <2>4 DEF Server!Answer, ForcedPhase, Server!Admissible
  <2>. QED  BY <2>5 DEF Server!Next
<1>4. CASE ~force[c]
  BY <1>4, CallersOnly DEF ForcedPhase, TypeOK
<1>. QED  BY <1>3, <1>4

LEMMA LeaveRefines ==
  ASSUME NEW c \in Callers, FlightInv, cpc[c] \in {"waiting", "return"}, LeaveCall(c),
         UNCHANGED <<world, view, rpc, since, worker>>
  PROVE  [Server!Next]_(Server!vars)
<1>. TypeOK
  BY DEF FlightInv
<1>1. Attempts' = Attempts
  BY DEF Attempts, Attempting
<1>2. AttemptBegan' = AttemptBegan
  BY <1>1, SameAttempts
<1>3. CASE force[c]
  <2>1. [d \in Callers |-> ForcedPhase(d)]'
          = [[d \in Callers |-> ForcedPhase(d)] EXCEPT ![c] = "idle"]
    BY DEF LeaveCall, ForcedPhase, TypeOK
  <2>2. [d \in Callers |-> IF force[d] THEN wanted[d] ELSE 0]'
          = [[d \in Callers |-> IF force[d] THEN wanted[d] ELSE 0] EXCEPT ![c] = 0]
    BY DEF LeaveCall, TypeOK
  <2>3. Server!Leave(c)
    BY <1>2, <1>3, <2>1, <2>2 DEF Server!Leave, ForcedPhase
  <2>. QED  BY <2>3 DEF Server!Next
<1>4. CASE ~force[c]
  <2>1. UNCHANGED <<[d \in Callers |-> ForcedPhase(d)],
                    [d \in Callers |-> IF force[d] THEN wanted[d] ELSE 0]>>
    BY <1>4 DEF LeaveCall, ForcedPhase, TypeOK
  <2>. QED  BY <1>2, <2>1
<1>. QED  BY <1>3, <1>4

LEMMA CallRefines ==
  ASSUME NEW c \in Callers, NEW f \in BOOLEAN, FlightInv, Call(c, f)
  PROVE  [Server!Next]_(Server!vars)
<1>. TypeOK /\ ~force[c]
  BY DEF FlightInv, CallersServed, Call
<1>1. Attempts' = Attempts
  BY DEF Attempts, Attempting, Call
<1>2. AttemptBegan' = AttemptBegan
  BY <1>1, SameAttempts DEF Call
<1>3. CASE f
  <2>1. [d \in Callers |-> ForcedPhase(d)]'
          = [[d \in Callers |-> ForcedPhase(d)] EXCEPT ![c] = "asked"]
    BY <1>3 DEF Call, ForcedPhase, TypeOK
  <2>2. [d \in Callers |-> IF force[d] THEN wanted[d] ELSE 0]'
          = [[d \in Callers |-> IF force[d] THEN wanted[d] ELSE 0] EXCEPT ![c] = world]
    BY <1>3 DEF Call, TypeOK
  <2>3. Server!Ask(c)
    BY <1>2, <2>1, <2>2 DEF Server!Ask, ForcedPhase, Call
  <2>. QED  BY <2>3 DEF Server!Next
<1>4. CASE ~f
  <2>1. UNCHANGED <<[d \in Callers |-> ForcedPhase(d)],
                    [d \in Callers |-> IF force[d] THEN wanted[d] ELSE 0]>>
    BY <1>4 DEF Call, ForcedPhase, TypeOK
  <2>. QED  BY <1>2, <2>1 DEF Call
<1>. QED  BY <1>3, <1>4

LEMMA CallerRefines ==
  ASSUME NEW c \in Callers, FlightInv, FlightInv', CallerStep(c) \/ Abandon(c)
  PROVE  [Server!Next]_(Server!vars)
<1>. TypeOK
  BY DEF FlightInv
<1>1. CASE CheckBackoff(c)
  <2>. ~force[c]
    BY <1>1 DEF CheckBackoff, FlightInv, CallersServed
  <2>. QED  BY <1>1, CallersOnly DEF CheckBackoff, ForcedPhase, TypeOK
<1>2. CASE \E r \in Runners : JoinAsFirst(c, r)
  <2>1. PICK r \in Runners : JoinAsFirst(c, r)
    BY <1>2
  <2>2. Attempts' = Attempts
    BY <2>1 DEF JoinAsFirst, Attempts, Attempting, TypeOK
  <2>3. AttemptBegan' = AttemptBegan
    BY <2>1, <2>2, SameAttempts DEF JoinAsFirst
  <2>4. UNCHANGED [d \in Callers |-> ForcedPhase(d)]
    BY <2>1 DEF JoinAsFirst, ForcedPhase, TypeOK
  <2>. QED  BY <2>1, <2>3, <2>4 DEF JoinAsFirst
<1>3. CASE JoinAttempt(c)
  BY <1>3, CallersOnly DEF JoinAttempt, ForcedPhase, TypeOK
<1>4. CASE JoinWhileDraining(c) \/ WakeUp(c)
  BY <1>4, AnswerRefines DEF JoinWhileDraining, WakeUp
<1>5. CASE Return(c) \/ Abandon(c)
  BY <1>5, LeaveRefines DEF Return, Abandon
<1>. QED  BY <1>1, <1>2, <1>3, <1>4, <1>5 DEF CallerStep, Join

LEMMA StartRefines ==
  ASSUME NEW r \in Runners, FlightInv, FlightInv', StartAttempt(r)
  PROVE  Server!BeginCall
<1>. TypeOK /\ OneOwner /\ WorkerOwned /\ VersionsAgree
  BY DEF FlightInv
<1>1. \A q \in Runners : worker[q] # "running" /\ ~Attempting(q)
  BY DEF StartAttempt, OneOwner, Owns, WorkerOwned, TypeOK, Attempting
<1>2. ~view.refreshing
  BY <1>1 DEF VersionsAgree
<1>3. Attempts' = {r}
  BY <1>1 DEF StartAttempt, Attempts, Attempting, TypeOK
<1>4. AttemptBegan' = world
  BY <1>3, ChosenAttempt DEF AttemptBegan, StartAttempt, TypeOK
<1>5. worker'[r] = "running"
  BY DEF StartAttempt, TypeOK
<1>6. UNCHANGED [c \in Callers |-> ForcedPhase(c)]
  BY DEF StartAttempt, ForcedPhase
<1>. QED  BY <1>1, <1>2, <1>4, <1>5, <1>6 DEF StartAttempt, Server!BeginCall

LEMMA AnswersRefines ==
  ASSUME NEW r \in Runners, FlightInv, WorkerAnswers(r)
  PROVE  Server!EndCall
<1>. TypeOK /\ OneOwner /\ WorkerOwned
  BY DEF FlightInv
<1>1. \A q \in Runners : worker'[q] # "running"
  BY DEF WorkerAnswers, OneOwner, Owns, WorkerOwned, TypeOK
<1>2. Attempts' = Attempts
  BY DEF WorkerAnswers, Attempts, Attempting
<1>3. AttemptBegan' = AttemptBegan
  BY <1>2, SameAttempts DEF WorkerAnswers
<1>4. UNCHANGED [c \in Callers |-> ForcedPhase(c)]
  BY DEF WorkerAnswers, ForcedPhase
<1>. QED  BY <1>1, <1>3, <1>4 DEF WorkerAnswers, Server!EndCall

LEMMA SuccessRefines ==
  ASSUME NEW r \in Runners, FlightInv, ApplySuccess(r)
  PROVE  Server!Publish
<1>. TypeOK /\ OneOwner /\ WorkerOwned /\ VersionsAgree
  BY DEF FlightInv
<1>1. Attempts = {r}
  BY OneAttempt DEF ApplySuccess, Attempting
<1>2. AttemptBegan = since[r]
  BY <1>1, ChosenAttempt DEF AttemptBegan
<1>3. \A q \in Runners : worker[q] # "running" /\ worker'[q] # "running"
  BY DEF ApplySuccess, OneOwner, Owns, WorkerOwned, TypeOK
<1>4. Attempts' = {}
  BY <1>1 DEF ApplySuccess, Attempts, Attempting, TypeOK
<1>5. view.refreshing
  BY DEF VersionsAgree, Attempting, ApplySuccess
<1>6. result[r] \in since[r] .. world
  BY DEF VersionsAgree, ApplySuccess
<1>7. UNCHANGED [c \in Callers |-> ForcedPhase(c)]
  BY DEF ApplySuccess, ForcedPhase
<1>. QED
  BY <1>2, <1>3, <1>4, <1>5, <1>6, <1>7
  DEF ApplySuccess, Server!Publish, AttemptBegan

LEMMA FailureRefines ==
  ASSUME NEW r \in Runners, FlightInv, ApplyFailure(r)
  PROVE  Server!Fail
<1>. TypeOK /\ OneOwner /\ VersionsAgree
  BY DEF FlightInv
<1>1. Attempts = {r}
  BY OneAttempt DEF ApplyFailure, Attempting
<1>2. Attempts' = {}
  BY <1>1 DEF ApplyFailure, Attempts, Attempting, TypeOK
<1>3. view.refreshing
  BY DEF VersionsAgree, Attempting, ApplyFailure
<1>4. UNCHANGED [c \in Callers |-> ForcedPhase(c)]
  BY DEF ApplyFailure, ForcedPhase
<1>. QED  BY <1>2, <1>3, <1>4 DEF ApplyFailure, Server!Fail, AttemptBegan

LEMMA QuietRunnerRefines ==
  ASSUME NEW r \in Runners, FlightInv,
         \/ TakeAnswer(r) \/ TimeOut(r) \/ Stamp(r) \/ SettleAndFollowUp(r)
         \/ SettleAndRelease(r) \/ Send(r) \/ SettleLate(r) \/ SendLate(r) \/ Drained(r)
  PROVE  UNCHANGED Server!vars
<1>. TypeOK /\ OneOwner /\ WorkerOwned
  BY DEF FlightInv
<1>1. Attempts' = Attempts
  BY DEF TakeAnswer, TimeOut, Stamp, SettleAndFollowUp, SettleAndRelease, Send, SettleLate,
         SendLate, Drained, Attempts, Attempting, TypeOK
<1>2. AttemptBegan' = AttemptBegan
  <2>1. CASE Drained(r)
    <3>1. Attempts = {}
      BY <2>1 DEF Drained, OneOwner, Owns, Attempts, Attempting
    <3>. QED  BY <1>1, <3>1 DEF AttemptBegan
  <2>2. CASE ~Drained(r)
    BY <1>1, <2>2, SameAttempts
    DEF TakeAnswer, TimeOut, Stamp, SettleAndFollowUp, SettleAndRelease, Send, SettleLate,
        SendLate
  <2>. QED  BY <2>1, <2>2
<1>3. UNCHANGED <<world, view, cpc, force, wanted>>
  BY DEF TakeAnswer, TimeOut, Stamp, SettleAndFollowUp, SettleAndRelease, Send, SettleLate,
         SendLate, Drained
<1>4. \A q \in Runners : worker[q]' = "running" <=> worker[q] = "running"
  BY DEF TakeAnswer, TimeOut, Stamp, SettleAndFollowUp, SettleAndRelease, Send, SettleLate,
         SendLate, Drained, TypeOK
<1>. QED  BY <1>2, <1>3, <1>4, RunnersOnly

LEMMA EnvironmentRefines ==
  ASSUME FlightInv, AccountChanges \/ FreshnessExpires \/ BackoffExpires
  PROVE  [Server!Next]_(Server!vars)
<1>1. Attempts' = Attempts
  BY DEF AccountChanges, FreshnessExpires, BackoffExpires, Attempts, Attempting
<1>2. AttemptBegan' = AttemptBegan
  BY <1>1, SameAttempts DEF AccountChanges, FreshnessExpires, BackoffExpires
<1>3. UNCHANGED [c \in Callers |-> ForcedPhase(c)]
  BY DEF AccountChanges, FreshnessExpires, BackoffExpires, ForcedPhase
<1>4. CASE AccountChanges
  BY <1>2, <1>3, <1>4 DEF AccountChanges, Server!Next, Server!Advance
<1>5. CASE FreshnessExpires \/ BackoffExpires
  BY <1>2, <1>3, <1>5 DEF FreshnessExpires, BackoffExpires
<1>. QED  BY <1>4, <1>5

(* The refresh flight implements the server of CoalescedCalls.             *)
THEOREM Refinement == Spec => ServerSpec
<1>1. Init => Server!Init
  BY InitRefines
<1>2. FlightInv /\ FlightInv' /\ [Next]_vars => [Server!Next]_(Server!vars)
  <2>. SUFFICES ASSUME FlightInv, FlightInv', [Next]_vars
       PROVE  [Server!Next]_(Server!vars)
    OBVIOUS
  <2>1. CASE AccountChanges \/ FreshnessExpires \/ BackoffExpires
    BY <2>1, EnvironmentRefines
  <2>2. ASSUME NEW c \in Callers, CallerStep(c) \/ Abandon(c)
        PROVE  [Server!Next]_(Server!vars)
    BY <2>2, CallerRefines
  <2>3. ASSUME NEW c \in Callers, NEW f \in BOOLEAN, Call(c, f)
        PROVE  [Server!Next]_(Server!vars)
    BY <2>3, CallRefines
  <2>4. ASSUME NEW r \in Runners, RunnerStep(r) \/ WorkerAnswers(r)
        PROVE  [Server!Next]_(Server!vars)
    BY <2>4, StartRefines, AnswersRefines, SuccessRefines, FailureRefines,
       QuietRunnerRefines DEF RunnerStep, Server!Next
  <2>5. CASE UNCHANGED vars
    BY <2>5 DEF vars, AttemptBegan, Attempts, Attempting, ForcedPhase
  <2>. QED  BY <2>1, <2>2, <2>3, <2>4, <2>5 DEF Next
<1>. QED  BY <1>1, <1>2, FlightInvariant, PTL DEF Spec, ServerSpec, Server!Spec

-----------------------------------------------------------------------------
(* The way of a request: what a request and the caches of the resolvers    *)
(* know, with the parser in one hand.                                      *)
Configs == Configurations \union {Routing!NoConfiguration}
Scripts == {c.pac : c \in Configs}
Caches == [due : BOOLEAN, configuration : Configs, resolver : BOOLEAN,
           pac : Scripts, failed : BOOLEAN, decided : BOOLEAN]
Clients == [proxy : Routing!Choices, resolver : Routing!Resolvers \union {Routing!NoResolver}]
Requested ==
  [at : {"idle", "asked", "chosen", "ready", "loading", "deciding", "evaluating", "sent"},
   provider : Routing!RoutedProviders \union {"none", "warm-up"},
   proxy : Routing!Choices \union {"none"},
   resolver : Routing!Resolvers \union {Routing!NoResolver},
   route : Scripts \union Routing!Choices \union {"none", "fallback", "direct"},
   choices : SUBSET Routing!Choices, configurations : SUBSET Configs, excused : BOOLEAN]

RouteTypeOK ==
  /\ proxies \in [Routing!RoutedProviders -> Routing!Choices]
  /\ client \in [Routing!RoutedProviders -> Clients]
  /\ cache \in [Routing!Resolvers -> Caches]
  /\ request \in [Requests -> Requested]
  /\ machine \in recent /\ recent \subseteq Configs

Held == {"loading", "deciding", "evaluating"}

(* A client has a resolver if nothing was chosen for its provider.         *)
ClientsMatch ==
  \A p \in Routing!RoutedProviders :
    client[p].proxy = "system" <=> client[p].resolver # Routing!NoResolver

(* So does a request, by a choice that was there while it asked.           *)
ChoiceIsTaken(r) ==
  /\ request[r].at = "asked" =>
       /\ request[r].provider \in Routing!RoutedProviders
       /\ proxies[request[r].provider] \in request[r].choices
  /\ request[r].at = "chosen" => request[r].provider \in Routing!RoutedProviders
  /\ request[r].at \in {"chosen", "ready"} \union Held => request[r].proxy \in request[r].choices
  /\ request[r].at = "ready" =>
       (request[r].proxy = "system" <=> request[r].resolver # Routing!NoResolver)
  /\ request[r].at \in Held =>
       request[r].proxy = "system" /\ request[r].resolver # Routing!NoResolver

OneHolds ==
  \A r, s \in Requests :
    request[r].at \in Held /\ request[s].at \in Held
      /\ request[r].resolver = request[s].resolver => r = s

(* A cache that is not due holds a configuration of this second, and a     *)
(* failure of it.                                                          *)
CacheIsRecent(x) ==
  ~cache[x].due => /\ cache[x].configuration \in recent
                   /\ cache[x].failed => x \in denied

(* What the cache says goes with its configuration, but for a script that  *)
(* is being loaded.                                                        *)
CacheIsWhole(x) ==
  (\A r \in Requests : ~(request[r].at = "loading" /\ request[r].resolver = x)) =>
    IF cache[x].pac = Routing!NoScript
    THEN /\ cache[x].resolver = cache[x].configuration.fallback
         /\ cache[x].configuration.pac = Routing!NoScript \/ cache[x].failed
    ELSE cache[x].pac = cache[x].configuration.pac

(* Who has the cache looks at a configuration it noted; it has the parser  *)
(* for its script alone.                                                   *)
HolderKnows(r) ==
  LET c == cache[request[r].resolver]
  IN  /\ request[r].at \in Held => c.configuration \in request[r].configurations
      /\ request[r].at = "loading" =>
           c.configuration.pac # Routing!NoScript /\ c.pac = Routing!NoScript /\ ~c.failed
      /\ request[r].at = "deciding" /\ c.failed => request[r].excused
      /\ request[r].at = "evaluating" =>
           engine.by = r /\ engine.script = c.pac /\ c.pac # Routing!NoScript

SentAsChosen(r) ==
  request[r].at = "sent" =>
    /\ request[r].proxy \in request[r].choices
    /\ IF request[r].proxy # "system" THEN request[r].route = request[r].proxy
       ELSE \E configuration \in request[r].configurations :
              Routing!Prescribes(configuration, request[r].route, request[r].excused)

RouteInv ==
  /\ RouteTypeOK /\ ClientsMatch /\ OneHolds
  /\ \A r \in Requests : ChoiceIsTaken(r) /\ HolderKnows(r) /\ SentAsChosen(r)
  /\ \A x \in Routing!Resolvers : CacheIsRecent(x) /\ CacheIsWhole(x)

LEMMA RouteNames ==
  /\ Routing!NoResolver \notin Routing!Resolvers /\ "shared" \in Routing!Resolvers
  /\ OwnResolvers \subseteq Routing!Resolvers
  /\ Routing!NoConfiguration \in Configs /\ Routing!NoScript \in Scripts
  /\ \A c \in Configs : c.pac \in Scripts /\ c.fallback \in BOOLEAN
<1>1. Routing!NoResolver # "shared"
  BY DEF Routing!NoResolver
<1>2. Routing!NoResolver \notin Routing!Resolvers /\ "shared" \in Routing!Resolvers
      /\ OwnResolvers \subseteq Routing!Resolvers
  BY <1>1, RoutingAssumption DEF Routing!Resolvers
<1>3. Routing!NoConfiguration \in Configs /\ Routing!NoConfiguration.pac = Routing!NoScript
  BY DEF Configs, Routing!NoConfiguration
<1>4. Routing!NoScript \in Scripts
  BY <1>3 DEF Scripts
<1>5. \A c \in Configs : c.fallback \in BOOLEAN
  <2>1. \A c \in Configurations : c.fallback \in BOOLEAN
    <3>. SUFFICES ASSUME NEW c \in Configurations PROVE c.fallback \in BOOLEAN
      OBVIOUS
    <3>1. CASE c = [pac |-> "pac1", fallback |-> TRUE]
      BY <3>1
    <3>2. CASE c = [pac |-> "pac2", fallback |-> FALSE]
      BY <3>2
    <3>3. CASE c = [pac |-> "no script", fallback |-> FALSE]
      BY <3>3
    <3>. QED  BY <3>1, <3>2, <3>3, Zenon DEF Configurations
  <2>2. Routing!NoConfiguration.fallback \in BOOLEAN
    BY DEF Routing!NoConfiguration
  <2>. QED  BY <2>1, <2>2 DEF Configs
<1>. QED  BY <1>2, <1>3, <1>4, <1>5 DEF Scripts

(* A request that has no cache in hand moves.                              *)
LEMMA QuietMoves ==
  ASSUME RouteInv, NEW r \in Requests, NEW q \in Requested,
         request' = [request EXCEPT ![r] = q],
         UNCHANGED <<proxies, client, cache, engine, machine, recent, denied>>,
         request[r].at \notin Held, q.at \notin Held,
         ChoiceIsTaken(r)', SentAsChosen(r)'
  PROVE  RouteInv'
<1>. USE DEF RouteInv
<1>1. /\ request'[r] = q /\ request' \in [Requests -> Requested]
      /\ \A s \in Requests \ {r} : request'[s] = request[s]
  BY DEF RouteTypeOK
<1>2. RouteTypeOK' /\ ClientsMatch'
  BY <1>1 DEF RouteTypeOK, ClientsMatch
<1>3. OneHolds'
  BY <1>1 DEF OneHolds
<1>4. \A s \in Requests : ChoiceIsTaken(s)' /\ SentAsChosen(s)'
  BY <1>1 DEF ChoiceIsTaken, SentAsChosen
<1>5. \A s \in Requests : HolderKnows(s)'
  BY <1>1 DEF HolderKnows, Held
<1>6. \A x \in Routing!Resolvers : CacheIsRecent(x)' /\ CacheIsWhole(x)'
  BY <1>1 DEF CacheIsRecent, CacheIsWhole, Held
<1>. QED  BY <1>2, <1>3, <1>4, <1>5, <1>6

(* A request that has a cache in hand, or takes it, moves.                 *)
LEMMA HolderMoves ==
  ASSUME RouteInv, NEW r \in Requests, NEW q \in Requested,
         NEW x \in Routing!Resolvers, NEW c \in Caches,
         request[r].resolver = x, q.resolver = x,
         \A s \in Requests \ {r} : ~(request[s].at \in Held /\ request[s].resolver = x),
         request' = [request EXCEPT ![r] = q], cache' = [cache EXCEPT ![x] = c],
         UNCHANGED <<proxies, client, machine, recent>>,
         denied \subseteq denied',
         engine' = engine \/ (\A s \in Requests \ {r} : request[s].at # "evaluating"),
         ChoiceIsTaken(r)', HolderKnows(r)', SentAsChosen(r)',
         CacheIsRecent(x)', CacheIsWhole(x)'
  PROVE  RouteInv'
<1>. USE DEF RouteInv
<1>1. /\ request'[r] = q /\ request' \in [Requests -> Requested]
      /\ \A s \in Requests \ {r} : request'[s] = request[s]
  BY DEF RouteTypeOK
<1>2. /\ cache' \in [Routing!Resolvers -> Caches]
      /\ \A y \in Routing!Resolvers \ {x} : cache'[y] = cache[y]
  BY DEF RouteTypeOK
<1>3. RouteTypeOK' /\ ClientsMatch'
  BY <1>1, <1>2 DEF RouteTypeOK, ClientsMatch
<1>4. OneHolds'
  BY <1>1 DEF OneHolds
<1>5. \A s \in Requests : ChoiceIsTaken(s)' /\ SentAsChosen(s)'
  BY <1>1 DEF ChoiceIsTaken, SentAsChosen
<1>6. ASSUME NEW s \in Requests \ {r} PROVE HolderKnows(s)'
  <2>1. CASE request[s].at \notin Held
    BY <1>1, <2>1 DEF HolderKnows, Held
  <2>2. CASE request[s].at \in Held
    <3>1. request[s].resolver # x /\ request[s].resolver \in Routing!Resolvers
      BY <2>2 DEF ChoiceIsTaken, RouteTypeOK, Requested
    <3>2. cache'[request[s].resolver] = cache[request[s].resolver] /\ request'[s] = request[s]
      BY <1>1, <1>2, <3>1
    <3>3. request[s].at = "evaluating" => engine' = engine
      OBVIOUS
    <3>4. HolderKnows(s)
      OBVIOUS
    <3>. QED  BY <3>2, <3>3, <3>4 DEF HolderKnows
  <2>. QED  BY <2>1, <2>2
<1>7. ASSUME NEW y \in Routing!Resolvers \ {x} PROVE CacheIsRecent(y)' /\ CacheIsWhole(y)'
  <2>1. cache'[y] = cache[y] /\ (y \in denied => y \in denied')
    BY <1>2
  <2>2. CacheIsRecent(y) /\ CacheIsWhole(y)
    OBVIOUS
  <2>3. (\A s \in Requests : ~(request'[s].at = "loading" /\ request'[s].resolver = y))
          => (\A s \in Requests : ~(request[s].at = "loading" /\ request[s].resolver = y))
    BY <1>1
  <2>. QED  BY <2>1, <2>2, <2>3 DEF CacheIsRecent, CacheIsWhole
<1>. QED  BY <1>3, <1>4, <1>5, <1>6, <1>7

LEMMA OthersHoldNot ==
  ASSUME RouteInv, NEW r \in Requests, request[r].at \in Held
  PROVE  /\ request[r].resolver \in Routing!Resolvers /\ request[r].proxy = "system"
         /\ \A s \in Requests \ {r} :
              ~(request[s].at \in Held /\ request[s].resolver = request[r].resolver)
BY DEF RouteInv, OneHolds, ChoiceIsTaken, RouteTypeOK, Requested

-----------------------------------------------------------------------------
(* A request takes its client.                                             *)

LEMMA AskKeeps ==
  ASSUME RouteInv, NEW r \in Requests, NEW p \in Routing!RoutedProviders, Routing!Ask(r, p)
  PROVE  RouteInv'
<1>1. proxies[p] \in Routing!Choices
  BY DEF RouteInv, RouteTypeOK
<1>2. PICK q : q = [Routing!NotSent EXCEPT !.at = "asked", !.provider = p, !.choices = {proxies[p]}]
  OBVIOUS
<1>3. /\ request[r].at \in {"idle", "sent"} /\ request' = [request EXCEPT ![r] = q]
      /\ UNCHANGED <<proxies, client, cache, engine, machine, recent, denied>>
  BY <1>2 DEF Routing!Ask
<1>4. q \in Requested /\ q.at = "asked" /\ q.provider = p /\ proxies[p] \in q.choices
  BY <1>1, <1>2 DEF Routing!NotSent, Requested, Routing!NoResolver
<1>5. request'[r] = q
  BY <1>3 DEF RouteInv, RouteTypeOK
<1>6. ChoiceIsTaken(r)' /\ SentAsChosen(r)'
  BY <1>3, <1>4, <1>5 DEF ChoiceIsTaken, SentAsChosen, Held
<1>7. request[r].at \notin Held /\ q.at \notin Held
  BY <1>3, <1>4 DEF Held
<1>. QED  BY <1>3, <1>4, <1>6, <1>7, QuietMoves

LEMMA ReadProxiesKeeps ==
  ASSUME RouteInv, NEW r \in Requests, Routing!ReadProxies(r)
  PROVE  RouteInv'
<1>1. request[r].at = "asked" /\ request[r] \in Requested
      /\ request[r].provider \in Routing!RoutedProviders
      /\ proxies[request[r].provider] \in request[r].choices
      /\ proxies[request[r].provider] \in Routing!Choices
  BY DEF Routing!ReadProxies, RouteInv, RouteTypeOK, ChoiceIsTaken
<1>2. PICK q : q = [request[r] EXCEPT !.at = "chosen", !.proxy = proxies[request[r].provider]]
  OBVIOUS
<1>3. /\ request' = [request EXCEPT ![r] = q]
      /\ UNCHANGED <<proxies, client, cache, engine, machine, recent, denied>>
  BY <1>2 DEF Routing!ReadProxies, Routing!Advance, RouteInv, RouteTypeOK
<1>4. /\ q \in Requested /\ q.at = "chosen" /\ q.provider = request[r].provider
      /\ q.choices = request[r].choices /\ q.proxy = proxies[request[r].provider]
  BY <1>1, <1>2 DEF Requested
<1>5. request'[r] = q
  BY <1>3 DEF RouteInv, RouteTypeOK
<1>6. ChoiceIsTaken(r)' /\ SentAsChosen(r)'
  BY <1>1, <1>4, <1>5 DEF ChoiceIsTaken, SentAsChosen, Held
<1>7. request[r].at \notin Held /\ q.at \notin Held
  BY <1>1, <1>4 DEF Held
<1>. QED  BY <1>3, <1>4, <1>6, <1>7, QuietMoves

LEMMA UseCachedKeeps ==
  ASSUME RouteInv, NEW r \in Requests, Routing!UseCached(r)
  PROVE  RouteInv'
<1>1. /\ request[r].at = "chosen" /\ request[r] \in Requested
      /\ request[r].provider \in Routing!RoutedProviders
      /\ request[r].proxy \in request[r].choices
      /\ client[request[r].provider].proxy = request[r].proxy
      /\ client[request[r].provider] \in Clients
  BY DEF Routing!UseCached, RouteInv, RouteTypeOK, ChoiceIsTaken
<1>2. PICK x : x = client[request[r].provider].resolver
  OBVIOUS
<1>3. x \in Routing!Resolvers \union {Routing!NoResolver}
      /\ (request[r].proxy = "system" <=> x # Routing!NoResolver)
  BY <1>1, <1>2 DEF RouteInv, ClientsMatch, Clients
<1>4. PICK q : q = [request[r] EXCEPT !.at = "ready", !.resolver = x]
  OBVIOUS
<1>5. /\ request' = [request EXCEPT ![r] = q]
      /\ UNCHANGED <<proxies, client, cache, engine, machine, recent, denied>>
  BY <1>2, <1>4 DEF Routing!UseCached, Routing!Advance, RouteInv, RouteTypeOK
<1>6. /\ q \in Requested /\ q.at = "ready" /\ q.provider = request[r].provider
      /\ q.choices = request[r].choices /\ q.proxy = request[r].proxy /\ q.resolver = x
  BY <1>1, <1>3, <1>4 DEF Requested
<1>7. request'[r] = q
  BY <1>5 DEF RouteInv, RouteTypeOK
<1>8. ChoiceIsTaken(r)' /\ SentAsChosen(r)'
  BY <1>1, <1>3, <1>6, <1>7 DEF ChoiceIsTaken, SentAsChosen, Held
<1>9. request[r].at \notin Held /\ q.at \notin Held
  BY <1>1, <1>6 DEF Held
<1>. QED  BY <1>5, <1>6, <1>8, <1>9, QuietMoves

LEMMA BuildFailsKeeps ==
  ASSUME RouteInv, NEW r \in Requests, Routing!BuildFails(r)
  PROVE  RouteInv'
<1>1. PICK q : q = Routing!NotSent
  OBVIOUS
<1>2. /\ request[r].at = "chosen" /\ request' = [request EXCEPT ![r] = q]
      /\ UNCHANGED <<proxies, client, cache, engine, machine, recent, denied>>
  BY <1>1 DEF Routing!BuildFails
<1>3. q \in Requested /\ q.at = "idle"
  BY <1>1 DEF Routing!NotSent, Requested, Routing!NoResolver
<1>4. request'[r] = q
  BY <1>2 DEF RouteInv, RouteTypeOK
<1>5. ChoiceIsTaken(r)' /\ SentAsChosen(r)'
  BY <1>3, <1>4 DEF ChoiceIsTaken, SentAsChosen, Held
<1>6. request[r].at \notin Held /\ q.at \notin Held
  BY <1>2, <1>3 DEF Held
<1>. QED  BY <1>2, <1>3, <1>5, <1>6, QuietMoves

LEMMA SendOverriddenKeeps ==
  ASSUME RouteInv, NEW r \in Requests, Routing!SendOverridden(r)
  PROVE  RouteInv'
<1>1. /\ request[r].at = "ready" /\ request[r] \in Requested
      /\ request[r].proxy \in request[r].choices /\ request[r].proxy # "system"
      /\ request[r].proxy \in Routing!Choices
  BY DEF Routing!SendOverridden, RouteInv, RouteTypeOK, ChoiceIsTaken, Requested
<1>2. PICK q : q = [request[r] EXCEPT !.at = "sent", !.route = request[r].proxy]
  OBVIOUS
<1>3. /\ request' = [request EXCEPT ![r] = q]
      /\ UNCHANGED <<proxies, client, cache, engine, machine, recent, denied>>
  BY <1>2 DEF Routing!SendOverridden, Routing!Routed, RouteInv, RouteTypeOK
<1>4. /\ q \in Requested /\ q.at = "sent" /\ q.route = request[r].proxy
      /\ q.choices = request[r].choices /\ q.proxy = request[r].proxy
  BY <1>1, <1>2 DEF Requested
<1>5. request'[r] = q
  BY <1>3 DEF RouteInv, RouteTypeOK
<1>6. ChoiceIsTaken(r)' /\ SentAsChosen(r)'
  BY <1>1, <1>4, <1>5 DEF ChoiceIsTaken, SentAsChosen, Held
<1>7. request[r].at \notin Held /\ q.at \notin Held
  BY <1>1, <1>4 DEF Held
<1>. QED  BY <1>3, <1>4, <1>6, <1>7, QuietMoves

-----------------------------------------------------------------------------
(* The user, the machine and time                                          *)

LEMMA SetProxiesKeeps ==
  ASSUME RouteInv, NEW p \in Routing!RoutedProviders, NEW choice \in Routing!Choices,
         Routing!SetProviderProxies(p, choice)
  PROVE  RouteInv'
<1>. USE DEF RouteInv
<1>1. /\ proxies' = [proxies EXCEPT ![p] = choice]
      /\ request' = [r \in Requests |->
           IF request[r].at = "asked" /\ request[r].provider = p
           THEN [request[r] EXCEPT !.choices = request[r].choices \union {choice}] ELSE request[r]]
      /\ UNCHANGED <<client, cache, engine, machine, recent, denied>>
  BY DEF Routing!SetProviderProxies, RouteTypeOK, Requested
<1>2. ASSUME NEW r \in Requests, request[r].at = "asked", request[r].provider = p
      PROVE  /\ request'[r] \in Requested /\ request'[r].at = "asked" /\ request'[r].provider = p
             /\ choice \in request'[r].choices
  <2>1. PICK chosen : chosen = request[r].choices \union {choice}
    OBVIOUS
  <2>2. request[r] \in Requested /\ chosen \in SUBSET Routing!Choices /\ choice \in chosen
    BY <2>1 DEF RouteTypeOK, Requested
  <2>3. request'[r] = [request[r] EXCEPT !.choices = chosen]
    BY <1>1, <1>2, <2>1
  <2>. QED  BY <1>2, <2>2, <2>3 DEF Requested
<1>3. \A r \in Requests : ~(request[r].at = "asked" /\ request[r].provider = p) => request'[r] = request[r]
  BY <1>1
<1>4. /\ proxies' \in [Routing!RoutedProviders -> Routing!Choices] /\ proxies'[p] = choice
      /\ \A o \in Routing!RoutedProviders \ {p} : proxies'[o] = proxies[o]
  BY <1>1 DEF RouteTypeOK
<1>5. \A r \in Requests : request'[r].at = request[r].at
                           /\ (request[r].at # "asked" => request'[r] = request[r])
  BY <1>2, <1>3
<1>6. request' \in [Requests -> Requested]
  <2>1. \A r \in Requests : request'[r] \in Requested
    BY <1>2, <1>3 DEF RouteTypeOK
  <2>. QED  BY <1>1, <2>1
<1>7. RouteTypeOK' /\ ClientsMatch'
  BY <1>1, <1>4, <1>6 DEF RouteTypeOK, ClientsMatch
<1>8. OneHolds'
  BY <1>5 DEF OneHolds, Held
<1>9. \A r \in Requests : ChoiceIsTaken(r)'
  <2>1. SUFFICES ASSUME NEW r \in Requests PROVE ChoiceIsTaken(r)'
    OBVIOUS
  <2>2. CASE request[r].at = "asked" /\ request[r].provider = p
    BY <1>2, <1>4, <2>2 DEF ChoiceIsTaken, Held
  <2>3. CASE request[r].at = "asked" /\ request[r].provider # p
    BY <1>3, <1>4, <2>3 DEF ChoiceIsTaken, Held
  <2>4. CASE request[r].at # "asked"
    BY <1>3, <2>4 DEF ChoiceIsTaken
  <2>. QED  BY <2>2, <2>3, <2>4
<1>10. \A r \in Requests : HolderKnows(r)' /\ SentAsChosen(r)'
  BY <1>1, <1>5 DEF HolderKnows, SentAsChosen, Held
<1>11. \A x \in Routing!Resolvers : CacheIsRecent(x)' /\ CacheIsWhole(x)'
  BY <1>1, <1>5 DEF CacheIsRecent, CacheIsWhole
<1>. QED  BY <1>7, <1>8, <1>9, <1>10, <1>11

LEMMA ReconfigureKeeps ==
  ASSUME RouteInv, NEW configuration \in Configurations, Routing!Reconfigure(configuration)
  PROVE  RouteInv'
<1>1. /\ machine' = configuration /\ recent' = recent \union {configuration}
      /\ UNCHANGED <<proxies, client, cache, engine, request, denied>>
  BY DEF Routing!Reconfigure
<1>2. RouteTypeOK'
  BY <1>1 DEF RouteInv, RouteTypeOK, Configs
<1>3. ClientsMatch' /\ OneHolds'
  BY <1>1 DEF RouteInv, ClientsMatch, OneHolds
<1>4. \A r \in Requests : ChoiceIsTaken(r)' /\ HolderKnows(r)' /\ SentAsChosen(r)'
  BY <1>1 DEF RouteInv, ChoiceIsTaken, HolderKnows, SentAsChosen
<1>5. \A x \in Routing!Resolvers : CacheIsRecent(x)' /\ CacheIsWhole(x)'
  BY <1>1 DEF RouteInv, CacheIsRecent, CacheIsWhole
<1>. QED  BY <1>2, <1>3, <1>4, <1>5 DEF RouteInv

LEMMA SecondKeeps ==
  ASSUME RouteInv, Routing!SecondPasses
  PROVE  RouteInv'
<1>. USE DEF RouteInv
<1>1. /\ cache' = [x \in Routing!Resolvers |-> [cache[x] EXCEPT !.due = TRUE]]
      /\ recent' = {machine} /\ UNCHANGED <<proxies, client, engine, machine, request>>
  BY DEF Routing!SecondPasses
<1>2. ASSUME NEW x \in Routing!Resolvers
      PROVE  /\ cache'[x] \in Caches /\ cache'[x].due
             /\ cache'[x].configuration = cache[x].configuration
             /\ cache'[x].resolver = cache[x].resolver /\ cache'[x].pac = cache[x].pac
             /\ cache'[x].failed = cache[x].failed
  <2>1. cache[x] \in Caches /\ cache'[x] = [cache[x] EXCEPT !.due = TRUE]
    BY <1>1 DEF RouteTypeOK
  <2>. QED  BY <2>1 DEF Caches
<1>3. RouteTypeOK'
  <2>1. cache' \in [Routing!Resolvers -> Caches]
    BY <1>1, <1>2
  <2>. QED  BY <1>1, <2>1 DEF RouteTypeOK
<1>4. ClientsMatch' /\ OneHolds'
  BY <1>1 DEF ClientsMatch, OneHolds
<1>5. \A r \in Requests : ChoiceIsTaken(r)' /\ SentAsChosen(r)'
  BY <1>1 DEF ChoiceIsTaken, SentAsChosen
<1>6. \A r \in Requests : HolderKnows(r)'
  <2>1. SUFFICES ASSUME NEW r \in Requests PROVE HolderKnows(r)'
    OBVIOUS
  <2>2. CASE request[r].at \notin Held
    BY <1>1, <2>2 DEF HolderKnows, Held
  <2>3. CASE request[r].at \in Held
    <3>1. request[r].resolver \in Routing!Resolvers /\ HolderKnows(r)
      BY <2>3, OthersHoldNot
    <3>. QED  BY <1>1, <1>2, <3>1 DEF HolderKnows
  <2>. QED  BY <2>2, <2>3
<1>7. \A x \in Routing!Resolvers : CacheIsRecent(x)' /\ CacheIsWhole(x)'
  BY <1>1, <1>2 DEF CacheIsRecent, CacheIsWhole
<1>. QED  BY <1>3, <1>4, <1>5, <1>6, <1>7

-----------------------------------------------------------------------------
(* A client is built: its resolver, if it is its own, is nobody's yet.     *)

LEMMA BuildClientKeeps ==
  ASSUME RouteInv, NEW r \in Requests, Routing!BuildClient(r)
  PROVE  RouteInv'
<1>. USE DEF RouteInv
<1>1. PICK p, x : p = request[r].provider /\ x = Routing!Needs(request[r].provider, request[r].proxy)
  OBVIOUS
<1>2. /\ request[r].at = "chosen" /\ p \in Routing!RoutedProviders /\ request[r] \in Requested
      /\ request[r].proxy \in request[r].choices /\ request[r].proxy \in Routing!Choices
  BY <1>1 DEF Routing!BuildClient, RouteTypeOK, ChoiceIsTaken, Requested
<1>3. /\ request[r].proxy = "system" /\ p \in OwnProviders => \E y \in OwnResolvers : Routing!Unused(y)
      /\ client' = [client EXCEPT ![p] = [proxy |-> request[r].proxy, resolver |-> x]]
      /\ cache' = IF x \in {"shared", Routing!NoResolver} THEN cache
                  ELSE [cache EXCEPT ![x] = Routing!NoCache]
      /\ denied' = denied \ ({x} \ {"shared"})
      /\ UNCHANGED <<proxies, engine, machine, recent>>
  BY <1>1 DEF Routing!BuildClient
<1>4. PICK q : q = [request[r] EXCEPT !.at = "ready", !.resolver = x]
  OBVIOUS
<1>5. request' = [request EXCEPT ![r] = q]
  BY <1>1, <1>4 DEF Routing!BuildClient, Routing!Advance, RouteTypeOK
<1>6. /\ request[r].proxy = "system" <=> x # Routing!NoResolver
      /\ x \in Routing!Resolvers \union {Routing!NoResolver}
      /\ x \notin {"shared", Routing!NoResolver} => \A s \in Requests : request[s].resolver # x
  <2>1. CASE request[r].proxy # "system"
    BY <1>1, <2>1 DEF Routing!Needs
  <2>2. CASE request[r].proxy = "system" /\ p \notin OwnProviders
    BY <1>1, <2>2, RouteNames DEF Routing!Needs
  <2>3. CASE request[r].proxy = "system" /\ p \in OwnProviders
    <3>1. x = CHOOSE y \in OwnResolvers : Routing!Unused(y)
      BY <1>1, <2>3 DEF Routing!Needs, Routing!NewResolver
    <3>2. x \in OwnResolvers /\ Routing!Unused(x)
      BY <1>3, <2>3, <3>1
    <3>. QED  BY <2>3, <3>2, RouteNames DEF Routing!Unused
  <2>. QED  BY <2>1, <2>2, <2>3
<1>7. /\ q \in Requested /\ q.at = "ready" /\ q.provider = request[r].provider
      /\ q.choices = request[r].choices /\ q.proxy = request[r].proxy /\ q.resolver = x
  BY <1>2, <1>4, <1>6 DEF Requested
<1>8. /\ request'[r] = q /\ request' \in [Requests -> Requested]
      /\ \A s \in Requests \ {r} : request'[s] = request[s]
  BY <1>5, <1>7 DEF RouteTypeOK
<1>9. \A s \in Requests : request[s].resolver \in Routing!Resolvers =>
        cache'[request[s].resolver] = cache[request[s].resolver]
  BY <1>3, <1>6 DEF RouteTypeOK
<1>10. \A y \in Routing!Resolvers \ {x} : cache'[y] = cache[y] /\ (y \in denied => y \in denied')
  BY <1>3 DEF RouteTypeOK
<1>11. /\ Routing!NoCache \in Caches /\ Routing!NoCache.due /\ Routing!NoCache.pac = Routing!NoScript
       /\ Routing!NoCache.resolver = Routing!NoCache.configuration.fallback
       /\ Routing!NoCache.configuration.pac = Routing!NoScript
  <2>1. /\ Routing!NoConfiguration.fallback = FALSE
        /\ Routing!NoConfiguration.pac = Routing!NoScript
    BY DEF Routing!NoConfiguration
  <2>. QED  BY <2>1, RouteNames DEF Routing!NoCache, Caches
<1>12. RouteTypeOK' /\ ClientsMatch'
  <2>1. PICK new : new = [proxy |-> request[r].proxy, resolver |-> x]
    OBVIOUS
  <2>2. new \in Clients /\ (new.proxy = "system" <=> new.resolver # Routing!NoResolver)
    BY <1>2, <1>6, <2>1 DEF Clients
  <2>3. client' = [client EXCEPT ![p] = new]
    BY <1>3, <2>1
  <2>4. client' \in [Routing!RoutedProviders -> Clients] /\ ClientsMatch'
    BY <1>2, <2>2, <2>3 DEF RouteTypeOK, ClientsMatch
  <2>5. cache' \in [Routing!Resolvers -> Caches]
    BY <1>3, <1>6, <1>11 DEF RouteTypeOK
  <2>. QED  BY <1>3, <1>8, <2>4, <2>5 DEF RouteTypeOK
<1>13. OneHolds'
  BY <1>7, <1>8 DEF OneHolds, Held
<1>14. ASSUME NEW s \in Requests PROVE ChoiceIsTaken(s)' /\ HolderKnows(s)' /\ SentAsChosen(s)'
  <2>1. CASE s = r
    BY <1>1, <1>2, <1>6, <1>7, <1>8, <2>1 DEF ChoiceIsTaken, HolderKnows, SentAsChosen, Held
  <2>2. CASE s # r
    <3>1. request'[s] = request[s] /\ ChoiceIsTaken(s) /\ HolderKnows(s) /\ SentAsChosen(s)
      BY <1>8, <2>2
    <3>2. CASE request[s].at \in Held
      BY <1>3, <1>9, <3>1, <3>2, OthersHoldNot DEF ChoiceIsTaken, HolderKnows, SentAsChosen
    <3>3. CASE request[s].at \notin Held
      BY <1>3, <3>1, <3>3 DEF ChoiceIsTaken, HolderKnows, SentAsChosen, Held
    <3>. QED  BY <3>2, <3>3
  <2>. QED  BY <2>1, <2>2
<1>15. ASSUME NEW y \in Routing!Resolvers PROVE CacheIsRecent(y)' /\ CacheIsWhole(y)'
  <2>1. CASE y = x /\ x # "shared"
    <3>1. cache'[y] = Routing!NoCache
      BY <1>3, <2>1, RouteNames DEF RouteTypeOK
    <3>. QED  BY <1>11, <3>1 DEF CacheIsRecent, CacheIsWhole
  <2>2. CASE y # x \/ x = "shared"
    <3>1. cache'[y] = cache[y] /\ (y \in denied => y \in denied')
      BY <1>3, <1>10, <2>2
    <3>2. (\A s \in Requests : ~(request'[s].at = "loading" /\ request'[s].resolver = y))
            => (\A s \in Requests : ~(request[s].at = "loading" /\ request[s].resolver = y))
      BY <1>2, <1>8
    <3>3. CacheIsRecent(y) /\ CacheIsWhole(y)
      OBVIOUS
    <3>. QED  BY <1>3, <3>1, <3>2, <3>3 DEF CacheIsRecent, CacheIsWhole
  <2>. QED  BY <2>1, <2>2
<1>. QED  BY <1>12, <1>13, <1>14, <1>15

-----------------------------------------------------------------------------
(* The resolver, with its cache in hand.                                   *)

(* What holds of the request that goes on with cache c.                    *)
LEMMA RequestInHand ==
  ASSUME RouteInv, NEW r \in Requests, request[r].at \in {"ready"} \union Held,
         request[r].resolver # Routing!NoResolver
  PROVE  /\ request[r] \in Requested /\ request[r].resolver \in Routing!Resolvers
         /\ cache[request[r].resolver] \in Caches
         /\ request[r].proxy = "system"
         /\ request[r].proxy \in request[r].choices
BY DEF RouteInv, RouteTypeOK, ChoiceIsTaken, Held, Requested

LEMMA LookKeeps ==
  ASSUME RouteInv, NEW r \in Requests, Routing!Look(r)
  PROVE  RouteInv'
<1>1. /\ request[r].at = "ready" /\ request[r].resolver # Routing!NoResolver
      /\ UNCHANGED <<proxies, client, cache, engine, machine, recent, denied>>
  BY DEF Routing!Look, Routing!Free
<1>2. PICK x : x = request[r].resolver
  OBVIOUS
<1>3. /\ request[r] \in Requested /\ x \in Routing!Resolvers /\ cache[x] \in Caches
      /\ request[r].proxy = "system"
      /\ request[r].proxy \in request[r].choices
  BY <1>1, <1>2, RequestInHand
<1>4. PICK c : c = cache[x]
  OBVIOUS
<1>5. /\ c \in Caches /\ ~c.due /\ c.configuration \in recent /\ (c.failed => x \in denied)
      /\ \A s \in Requests : ~(request[s].at \in Held /\ request[s].resolver = x)
  BY <1>2, <1>3, <1>4 DEF Routing!Look, Routing!Free, Routing!Locked, Held, RouteInv, CacheIsRecent
<1>6. PICK excused : excused = (x \in denied)
  OBVIOUS
<1>7. PICK q : q = [request[r] EXCEPT !.at = "deciding", !.configurations = recent, !.excused = excused]
  OBVIOUS
<1>8. request' = [request EXCEPT ![r] = q]
  BY <1>2, <1>3, <1>6, <1>7 DEF Routing!Look, Routing!Noted, Routing!Advance, RouteInv, RouteTypeOK, Requested
<1>9. /\ q \in Requested /\ q.at = "deciding" /\ q.configurations = recent /\ q.excused = excused
      /\ q.provider = request[r].provider /\ q.resolver = x
      /\ q.choices = request[r].choices /\ q.proxy = request[r].proxy
  <2>1. excused \in BOOLEAN /\ recent \in SUBSET Configs
    BY <1>6 DEF RouteInv, RouteTypeOK
  <2>. QED  BY <1>2, <1>3, <1>7, <2>1 DEF Requested
<1>10. request'[r] = q /\ cache' = [cache EXCEPT ![x] = c] /\ cache'[x] = c
  BY <1>1, <1>3, <1>4, <1>8 DEF RouteInv, RouteTypeOK
<1>11. ChoiceIsTaken(r)' /\ HolderKnows(r)' /\ SentAsChosen(r)'
  BY <1>1, <1>3, <1>5, <1>6, <1>9, <1>10, RouteNames DEF ChoiceIsTaken, HolderKnows, SentAsChosen, Held
<1>12. CacheIsRecent(x)'
  BY <1>1, <1>5, <1>10 DEF CacheIsRecent
<1>13. CacheIsWhole(x)'
  <2>1. CacheIsWhole(x) /\ (\A s \in Requests : ~(request[s].at = "loading" /\ request[s].resolver = x))
    BY <1>3, <1>5 DEF RouteInv, Held
  <2>. QED  BY <1>4, <1>10, <2>1 DEF CacheIsWhole
<1>. QED  BY <1>1, <1>2, <1>3, <1>5, <1>8, <1>9, <1>10, <1>11, <1>12, <1>13, HolderMoves

LEMMA LookAgainKeeps ==
  ASSUME RouteInv, NEW r \in Requests, Routing!LookAgain(r)
  PROVE  RouteInv'
<1>1. PICK x : x = request[r].resolver
  OBVIOUS
<1>2. PICK same : same = (cache[x].configuration = machine /\ ~cache[x].failed)
  OBVIOUS
<1>3. PICK loads : loads = (~same /\ machine.pac # Routing!NoScript)
  OBVIOUS
<1>4. same \in BOOLEAN /\ loads \in BOOLEAN
  BY <1>2, <1>3
<1>5. PICK due, c :
        /\ due = (Routing!Warms(r) /\ cache[x].due)
        /\ c = IF same THEN [cache[x] EXCEPT !.due = due]
               ELSE [Routing!NoCache EXCEPT !.due = due, !.configuration = machine,
                                            !.resolver = ~loads /\ machine.fallback]
  OBVIOUS
<1>6. PICK at : at = IF loads THEN "loading" ELSE "deciding"
  OBVIOUS
<1>7. PICK excused : excused = (x \in denied)
  OBVIOUS
<1>8. PICK q : q = [request[r] EXCEPT !.at = at, !.configurations = recent, !.excused = excused]
  OBVIOUS
<1>9. /\ request[r].at = "ready" /\ x # Routing!NoResolver
      /\ ~Routing!Locked(x)
      /\ UNCHANGED <<proxies, client, engine, machine, recent, denied>>
  BY <1>1 DEF Routing!LookAgain, Routing!Free
<1>10. /\ request[r] \in Requested /\ x \in Routing!Resolvers /\ cache[x] \in Caches
       /\ request[r].proxy = "system"
       /\ request[r].proxy \in request[r].choices
  BY <1>1, <1>9, RequestInHand
<1>11. cache' = [cache EXCEPT ![x] = c]
  BY <1>1, <1>2, <1>3, <1>5, <1>10 DEF Routing!LookAgain, Routing!UpToDate, RouteInv, RouteTypeOK
<1>12. request' = [request EXCEPT ![r] = q]
  BY <1>1, <1>2, <1>3, <1>6, <1>7, <1>8, <1>10
     DEF Routing!LookAgain, Routing!UpToDate, Routing!Noted, Routing!Advance,
         RouteInv, RouteTypeOK, Requested
<1>13. machine \in Configs /\ machine \in recent /\ recent \in SUBSET Configs
       /\ machine.fallback \in BOOLEAN /\ machine.pac \in Scripts
  BY RouteNames DEF RouteInv, RouteTypeOK
<1>14. /\ c \in Caches /\ ~c.failed /\ c.configuration = machine
       /\ same => c.pac = cache[x].pac /\ c.resolver = cache[x].resolver
       /\ ~same => c.pac = Routing!NoScript /\ c.resolver = (~loads /\ machine.fallback)
  <2>. due \in BOOLEAN
    BY <1>5
  <2>1. CASE same
    <3>1. c = [cache[x] EXCEPT !.due = due] /\ cache[x].configuration = machine /\ ~cache[x].failed
      BY <1>2, <1>5, <2>1
    <3>. QED  BY <1>10, <2>1, <3>1 DEF Caches
  <2>2. CASE ~same
    <3>1. PICK b : b = (~loads /\ machine.fallback)
      OBVIOUS
    <3>2. c = [due |-> due, configuration |-> machine, resolver |-> b,
               pac |-> Routing!NoScript, failed |-> FALSE, decided |-> FALSE]
      BY <1>5, <2>2, <3>1 DEF Routing!NoCache
    <3>3. b \in BOOLEAN
      BY <3>1
    <3>. QED  BY <1>13, <2>2, <3>1, <3>2, <3>3, RouteNames DEF Caches
  <2>. QED  BY <2>1, <2>2, <1>4
<1>15. /\ q \in Requested /\ q.at = at /\ q.configurations = recent /\ q.excused = excused
       /\ q.provider = request[r].provider /\ q.resolver = x
       /\ q.choices = request[r].choices /\ q.proxy = request[r].proxy
  <2>1. excused \in BOOLEAN /\ at \in {"loading", "deciding"}
    BY <1>6, <1>7
  <2>. QED  BY <1>1, <1>8, <1>10, <1>13, <2>1 DEF Requested
<1>16. request'[r] = q /\ cache'[x] = c
  BY <1>10, <1>11, <1>12 DEF RouteInv, RouteTypeOK
<1>17. \A s \in Requests : ~(request[s].at \in Held /\ request[s].resolver = x)
  BY <1>9 DEF Routing!Locked, Held
<1>18. ChoiceIsTaken(r)' /\ SentAsChosen(r)'
  BY <1>1, <1>6, <1>9, <1>10, <1>15, <1>16, RouteNames DEF ChoiceIsTaken, SentAsChosen, Held
<1>19. HolderKnows(r)'
  <2>1. loads => ~same /\ machine.pac # Routing!NoScript
    BY <1>3
  <2>. QED  BY <1>4, <1>6, <1>13, <1>14, <1>15, <1>16, <2>1 DEF HolderKnows, Held
<1>20. CacheIsRecent(x)'
  BY <1>9, <1>13, <1>14, <1>16 DEF CacheIsRecent
<1>21. CacheIsWhole(x)'
  <2>1. CASE loads
    BY <1>6, <1>15, <1>16, <2>1 DEF CacheIsWhole
  <2>2. CASE ~loads /\ ~same
    <3>1. c.resolver = machine.fallback /\ machine.pac = Routing!NoScript /\ c.pac = Routing!NoScript
      BY <1>3, <1>13, <1>14, <2>2
    <3>. QED  BY <1>14, <1>16, <3>1 DEF CacheIsWhole
  <2>3. CASE same
    <3>1. CacheIsWhole(x) /\ (\A s \in Requests : ~(request[s].at = "loading" /\ request[s].resolver = x))
      BY <1>10, <1>17 DEF RouteInv, Held
    <3>2. cache[x].configuration = machine /\ ~cache[x].failed
      BY <1>2, <2>3
    <3>. QED  BY <1>14, <1>16, <2>3, <3>1, <3>2 DEF CacheIsWhole
  <2>. QED  BY <1>4, <2>1, <2>2, <2>3
<1>. QED  BY <1>1, <1>9, <1>10, <1>11, <1>12, <1>14, <1>15, <1>17, <1>18, <1>19, <1>20, <1>21,
             HolderMoves

LEMMA LoadKeeps ==
  ASSUME RouteInv, NEW r \in Requests, Routing!LoadScript(r) \/ Routing!LoadFails(r)
  PROVE  RouteInv'
<1>1. PICK x : x = request[r].resolver
  OBVIOUS
<1>2. request[r].at = "loading" /\ request[r].at \in Held
  BY DEF Routing!LoadScript, Routing!LoadFails, Held
<1>3. /\ request[r] \in Requested /\ x \in Routing!Resolvers /\ cache[x] \in Caches
      /\ request[r].proxy = "system"
      /\ request[r].proxy \in request[r].choices
      /\ \A s \in Requests \ {r} : ~(request[s].at \in Held /\ request[s].resolver = x)
      /\ x # Routing!NoResolver
  <2>1. request[r].resolver # Routing!NoResolver
    BY <1>2, OthersHoldNot, RouteNames
  <2>. QED  BY <1>1, <1>2, <2>1, RequestInHand, OthersHoldNot
<1>4. /\ cache[x].configuration \in request[r].configurations /\ cache[x].configuration \in Configs
      /\ cache[x].configuration.pac # Routing!NoScript
      /\ cache[x].pac = Routing!NoScript /\ ~cache[x].failed
  <2>1. HolderKnows(r)
    BY DEF RouteInv
  <2>. QED  BY <1>1, <1>2, <1>3, <2>1 DEF HolderKnows, Caches
<1>5. CASE Routing!LoadScript(r)
  <2>1. PICK script : script = cache[x].configuration.pac
    OBVIOUS
  <2>2. PICK c : c = [cache[x] EXCEPT !.resolver = TRUE, !.pac = script]
    OBVIOUS
  <2>3. PICK q : q = [request[r] EXCEPT !.at = "deciding"]
    OBVIOUS
  <2>4. /\ cache' = [cache EXCEPT ![x] = c] /\ request' = [request EXCEPT ![r] = q]
        /\ UNCHANGED <<proxies, client, engine, machine, recent, denied>>
    BY <1>1, <1>3, <1>5, <2>1, <2>2, <2>3 DEF Routing!LoadScript, Routing!Advance, RouteInv, RouteTypeOK
  <2>5. /\ c \in Caches /\ c.pac = script /\ c.configuration = cache[x].configuration
        /\ ~c.failed /\ c.due = cache[x].due
    BY <1>3, <1>4, <2>1, <2>2, RouteNames DEF Caches
  <2>6. /\ q \in Requested /\ q.at = "deciding" /\ q.configurations = request[r].configurations
        /\ q.provider = request[r].provider /\ q.resolver = x
        /\ q.choices = request[r].choices /\ q.proxy = request[r].proxy
    BY <1>1, <1>3, <2>3 DEF Requested
  <2>7. request'[r] = q /\ cache'[x] = c
    BY <1>3, <2>4 DEF RouteInv, RouteTypeOK
  <2>8. ChoiceIsTaken(r)' /\ HolderKnows(r)' /\ SentAsChosen(r)'
    BY <1>3, <1>4, <2>5, <2>6, <2>7 DEF ChoiceIsTaken, HolderKnows, SentAsChosen, Held
  <2>9. CacheIsRecent(x)' /\ CacheIsWhole(x)'
    BY <1>3, <1>4, <2>1, <2>4, <2>5, <2>7 DEF CacheIsRecent, CacheIsWhole, RouteInv
  <2>. QED  BY <1>1, <1>3, <2>4, <2>5, <2>6, <2>8, <2>9, HolderMoves
<1>6. CASE Routing!LoadFails(r)
  <2>1. PICK fallback : fallback = cache[x].configuration.fallback
    OBVIOUS
  <2>2. PICK c : c = [cache[x] EXCEPT !.resolver = fallback, !.failed = TRUE]
    OBVIOUS
  <2>3. PICK q : q = [request[r] EXCEPT !.at = "deciding", !.excused = TRUE]
    OBVIOUS
  <2>4. /\ cache' = [cache EXCEPT ![x] = c] /\ request' = [request EXCEPT ![r] = q]
        /\ denied' = denied \union {x} /\ UNCHANGED <<proxies, client, engine, machine, recent>>
    BY <1>1, <1>3, <1>6, <2>1, <2>2, <2>3
       DEF Routing!LoadFails, Routing!Advance, RouteInv, RouteTypeOK, Requested
  <2>5. /\ c \in Caches /\ c.pac = Routing!NoScript /\ c.configuration = cache[x].configuration
        /\ c.failed /\ c.due = cache[x].due /\ c.resolver = fallback
    BY <1>3, <1>4, <2>1, <2>2, RouteNames DEF Caches
  <2>6. /\ q \in Requested /\ q.at = "deciding" /\ q.configurations = request[r].configurations
        /\ q.provider = request[r].provider /\ q.resolver = x /\ q.excused
        /\ q.choices = request[r].choices /\ q.proxy = request[r].proxy
    BY <1>1, <1>3, <2>3 DEF Requested
  <2>7. request'[r] = q /\ cache'[x] = c
    BY <1>3, <2>4 DEF RouteInv, RouteTypeOK
  <2>8. ChoiceIsTaken(r)' /\ HolderKnows(r)' /\ SentAsChosen(r)'
    BY <1>3, <1>4, <2>5, <2>6, <2>7 DEF ChoiceIsTaken, HolderKnows, SentAsChosen, Held
  <2>9. CacheIsRecent(x)' /\ CacheIsWhole(x)'
    BY <1>3, <1>4, <2>1, <2>4, <2>5, <2>7 DEF CacheIsRecent, CacheIsWhole, RouteInv
  <2>. QED  BY <1>1, <1>3, <2>4, <2>5, <2>6, <2>8, <2>9, HolderMoves
<1>. QED  BY <1>5, <1>6

(* What the one who decides may rely on.                                   *)
LEMMA DecisionIsSound ==
  ASSUME RouteInv, NEW r \in Requests, request[r].at \in {"deciding", "evaluating"},
         NEW x, x = request[r].resolver
  PROVE  /\ request[r] \in Requested /\ x \in Routing!Resolvers /\ cache[x] \in Caches
         /\ request[r].proxy = "system"
         /\ request[r].proxy \in request[r].choices /\ x # Routing!NoResolver
         /\ \A s \in Requests \ {r} : ~(request[s].at \in Held /\ request[s].resolver = x)
         /\ \A s \in Requests : ~(request[s].at = "loading" /\ request[s].resolver = x)
         /\ cache[x].configuration \in request[r].configurations
         /\ cache[x].configuration.fallback \in BOOLEAN
         /\ IF cache[x].pac = Routing!NoScript
            THEN /\ cache[x].resolver = cache[x].configuration.fallback
                 /\ cache[x].configuration.pac = Routing!NoScript \/ cache[x].failed
            ELSE cache[x].pac = cache[x].configuration.pac
         /\ request[r].at = "deciding" /\ cache[x].failed => request[r].excused
<1>1. request[r].at \in Held
  BY DEF Held
<1>2. x \in Routing!Resolvers /\ x # Routing!NoResolver
      /\ \A s \in Requests \ {r} : ~(request[s].at \in Held /\ request[s].resolver = x)
  BY <1>1, OthersHoldNot, RouteNames
<1>3. /\ request[r] \in Requested /\ cache[x] \in Caches
      /\ request[r].proxy = "system"
      /\ request[r].proxy \in request[r].choices
  BY <1>1, <1>2, RequestInHand
<1>4. \A s \in Requests : ~(request[s].at = "loading" /\ request[s].resolver = x)
  BY <1>2 DEF Held
<1>5. HolderKnows(r) /\ CacheIsWhole(x)
  BY <1>2 DEF RouteInv
<1>6. cache[x].configuration.fallback \in BOOLEAN
  BY <1>3, RouteNames DEF Caches
<1>. QED  BY <1>1, <1>2, <1>3, <1>4, <1>5, <1>6 DEF HolderKnows, CacheIsWhole

(* It is sent by a way that was prescribed.                                *)
LEMMA SentKeeps ==
  ASSUME RouteInv, NEW r \in Requests, request[r].at \in {"deciding", "evaluating"},
         NEW x, x = request[r].resolver, NEW c \in Caches,
         c.configuration = cache[x].configuration, c.pac = cache[x].pac,
         c.resolver = cache[x].resolver, c.failed = cache[x].failed, c.due = cache[x].due,
         NEW excused \in BOOLEAN, request[r].excused => excused,
         NEW route \in Scripts \union {"fallback", "direct"},
         Routing!Prescribes(cache[x].configuration, route, excused),
         request' = [request EXCEPT ![r] = [request[r] EXCEPT !.at = "sent", !.route = route,
                                                              !.excused = excused]],
         cache' = [cache EXCEPT ![x] = c],
         engine' = engine \/ request[r].at = "evaluating",
         UNCHANGED <<proxies, client, machine, recent, denied>>
  PROVE  RouteInv'
<1>1. /\ request[r] \in Requested /\ x \in Routing!Resolvers /\ cache[x] \in Caches
      /\ request[r].proxy = "system"
      /\ request[r].proxy \in request[r].choices
      /\ \A s \in Requests \ {r} : ~(request[s].at \in Held /\ request[s].resolver = x)
      /\ \A s \in Requests : ~(request[s].at = "loading" /\ request[s].resolver = x)
      /\ cache[x].configuration \in request[r].configurations
  BY DecisionIsSound
<1>2. PICK q : q = [request[r] EXCEPT !.at = "sent", !.route = route, !.excused = excused]
  OBVIOUS
<1>3. request' = [request EXCEPT ![r] = q]
  BY <1>2
<1>4. /\ q \in Requested /\ q.at = "sent" /\ q.configurations = request[r].configurations
      /\ q.provider = request[r].provider /\ q.resolver = x
      /\ q.excused = excused /\ q.route = route
      /\ q.choices = request[r].choices /\ q.proxy = request[r].proxy
  BY <1>1, <1>2 DEF Requested
<1>5. request'[r] = q /\ cache'[x] = c
  BY <1>1, <1>3 DEF RouteInv, RouteTypeOK
<1>6. PICK configuration : configuration = cache[x].configuration
  OBVIOUS
<1>7. Routing!Prescribes(configuration, route, excused)
  BY <1>6 DEF Routing!Prescribes
<1>8. SentAsChosen(r)'
  <2>1. \E k \in request'[r].configurations :
          Routing!Prescribes(k, request'[r].route, request'[r].excused)
    BY <1>1, <1>4, <1>5, <1>6, <1>7 DEF Routing!Prescribes
  <2>. QED  BY <1>1, <1>4, <1>5, <2>1 DEF SentAsChosen
<1>9. ChoiceIsTaken(r)' /\ HolderKnows(r)'
  BY <1>1, <1>4, <1>5 DEF ChoiceIsTaken, HolderKnows, Held
<1>10. CacheIsRecent(x)'
  BY <1>1, <1>5 DEF RouteInv, CacheIsRecent
<1>11. CacheIsWhole(x)'
  <2>1. CacheIsWhole(x)
    BY <1>1 DEF RouteInv
  <2>. QED  BY <1>1, <1>5, <2>1 DEF CacheIsWhole
<1>12. engine' = engine \/ (\A s \in Requests \ {r} : request[s].at # "evaluating")
  <2>1. \A s \in Requests : request[s].at = "evaluating" => engine.by = s
    BY DEF RouteInv, HolderKnows
  <2>. QED  BY <2>1
<1>. QED  BY <1>1, <1>3, <1>4, <1>8, <1>9, <1>10, <1>11, <1>12, HolderMoves

LEMMA DecideKeeps ==
  ASSUME RouteInv, NEW r \in Requests, Routing!DecideAtOnce(r)
  PROVE  RouteInv'
<1>1. PICK x : x = request[r].resolver
  OBVIOUS
<1>2. /\ request[r].at = "deciding" /\ (cache[x].pac = Routing!NoScript \/ cache[x].decided)
      /\ UNCHANGED <<proxies, client, cache, engine, machine, recent, denied>>
  BY <1>1 DEF Routing!DecideAtOnce
<1>3. /\ request[r] \in Requested /\ x \in Routing!Resolvers /\ cache[x] \in Caches
      /\ cache[x].configuration.fallback \in BOOLEAN
      /\ IF cache[x].pac = Routing!NoScript
         THEN /\ cache[x].resolver = cache[x].configuration.fallback
              /\ cache[x].configuration.pac = Routing!NoScript \/ cache[x].failed
         ELSE cache[x].pac = cache[x].configuration.pac
      /\ cache[x].failed => request[r].excused
  BY <1>1, <1>2, DecisionIsSound
<1>4. PICK route : route = IF cache[x].pac # Routing!NoScript THEN cache[x].pac
                           ELSE IF cache[x].resolver
                                THEN IF cache[x].configuration.fallback THEN "fallback" ELSE "direct"
                                ELSE "direct"
  OBVIOUS
<1>5. route \in Scripts \union {"fallback", "direct"}
  BY <1>3, <1>4 DEF Caches
<1>6. PICK excused \in BOOLEAN : excused = request[r].excused
  BY <1>3 DEF Requested
<1>7. Routing!Prescribes(cache[x].configuration, route, excused)
  BY <1>3, <1>4, <1>6 DEF Routing!Prescribes
<1>8. request' = [request EXCEPT ![r] = [request[r] EXCEPT !.at = "sent", !.route = route]]
  BY <1>1, <1>3, <1>4 DEF Routing!DecideAtOnce, Routing!Routed, Routing!Fallback, RouteInv, RouteTypeOK
<1>9. [request[r] EXCEPT !.at = "sent", !.route = route]
        = [request[r] EXCEPT !.at = "sent", !.route = route, !.excused = excused]
  BY <1>3, <1>6 DEF Requested
<1>10. PICK c \in Caches : c = cache[x]
  BY <1>3
<1>11. cache' = [cache EXCEPT ![x] = c]
  BY <1>2, <1>3, <1>10 DEF RouteInv, RouteTypeOK
<1>12. request' = [request EXCEPT ![r] = [request[r] EXCEPT !.at = "sent", !.route = route,
                                                            !.excused = excused]]
  BY <1>8, <1>9
<1>13. /\ c.configuration = cache[x].configuration /\ c.pac = cache[x].pac
       /\ c.resolver = cache[x].resolver /\ c.failed = cache[x].failed /\ c.due = cache[x].due
       /\ request[r].excused => excused
  BY <1>6, <1>10
<1>14. /\ request[r].at \in {"deciding", "evaluating"} /\ engine' = engine
       /\ UNCHANGED <<proxies, client, machine, recent, denied>>
  BY <1>2
<1>. QED  BY <1>1, <1>5, <1>7, <1>11, <1>12, <1>13, <1>14, SentKeeps, Zenon

LEMMA EvaluationKeeps ==
  ASSUME RouteInv, NEW r \in Requests, Routing!Evaluate(r) \/ Routing!EvaluationFails(r)
  PROVE  RouteInv'
<1>1. PICK x : x = request[r].resolver
  OBVIOUS
<1>2. /\ request[r].at = "evaluating" /\ UNCHANGED <<proxies, client, machine, recent, denied>>
  BY DEF Routing!Evaluate, Routing!EvaluationFails
<1>3. /\ request[r] \in Requested /\ x \in Routing!Resolvers /\ cache[x] \in Caches
      /\ cache[x].configuration.fallback \in BOOLEAN
      /\ cache[x].pac # Routing!NoScript => cache[x].pac = cache[x].configuration.pac
  BY <1>1, <1>2, DecisionIsSound
<1>4. engine.script = cache[x].pac /\ cache[x].pac # Routing!NoScript
  BY <1>1, <1>2 DEF RouteInv, HolderKnows
<1>5. CASE Routing!Evaluate(r)
  <2>1. PICK c : c = [cache[x] EXCEPT !.decided = TRUE]
    OBVIOUS
  <2>2. PICK route, excused : route = cache[x].pac /\ excused = request[r].excused
    OBVIOUS
  <2>3. /\ c \in Caches /\ c.configuration = cache[x].configuration /\ c.pac = cache[x].pac
        /\ c.resolver = cache[x].resolver /\ c.failed = cache[x].failed /\ c.due = cache[x].due
    BY <1>3, <2>1 DEF Caches
  <2>4. cache' = [cache EXCEPT ![x] = c]
    BY <1>1, <1>3, <1>5, <2>1 DEF Routing!Evaluate, RouteInv, RouteTypeOK
  <2>5. request' = [request EXCEPT ![r] = [request[r] EXCEPT !.at = "sent", !.route = route]]
    BY <1>3, <1>4, <1>5, <2>2 DEF Routing!Evaluate, Routing!Routed, RouteInv, RouteTypeOK
  <2>6. [request[r] EXCEPT !.at = "sent", !.route = route]
          = [request[r] EXCEPT !.at = "sent", !.route = route, !.excused = excused]
    BY <1>3, <2>2 DEF Requested
  <2>7. route \in Scripts \union {"fallback", "direct"} /\ excused \in BOOLEAN
    BY <1>3, <2>2 DEF Caches, Requested
  <2>8. Routing!Prescribes(cache[x].configuration, route, excused)
    BY <1>3, <1>4, <2>2 DEF Routing!Prescribes
  <2>9. request' = [request EXCEPT ![r] = [request[r] EXCEPT !.at = "sent", !.route = route,
                                                             !.excused = excused]]
    BY <2>5, <2>6
  <2>. QED  BY <1>1, <1>2, <2>2, <2>3, <2>4, <2>7, <2>8, <2>9, SentKeeps
<1>6. CASE Routing!EvaluationFails(r)
  <2>1. PICK c \in Caches : c = cache[x]
    BY <1>3
  <2>2. PICK route : route = IF cache[x].configuration.fallback THEN "fallback" ELSE "direct"
    OBVIOUS
  <2>3. cache' = [cache EXCEPT ![x] = c]
    BY <1>3, <1>6, <2>1 DEF Routing!EvaluationFails, RouteInv, RouteTypeOK
  <2>4. request' = [request EXCEPT ![r] = [request[r] EXCEPT !.at = "sent", !.route = route,
                                                             !.excused = TRUE]]
    BY <1>1, <1>3, <1>6, <2>2
       DEF Routing!EvaluationFails, Routing!Routed, Routing!Fallback, RouteInv, RouteTypeOK, Requested
  <2>5. route \in Scripts \union {"fallback", "direct"} /\ TRUE \in BOOLEAN
    BY <2>2
  <2>6. Routing!Prescribes(cache[x].configuration, route, TRUE)
    BY <1>3, <2>2 DEF Routing!Prescribes
  <2>. QED  BY <1>1, <1>2, <2>1, <2>3, <2>4, <2>5, <2>6, SentKeeps
<1>. QED  BY <1>5, <1>6

LEMMA EnterEngineKeeps ==
  ASSUME RouteInv, NEW r \in Requests, Routing!EnterEngine(r)
  PROVE  RouteInv'
<1>1. PICK x : x = request[r].resolver
  OBVIOUS
<1>2. PICK script : script = cache[x].pac
  OBVIOUS
<1>3. /\ request[r].at = "deciding" /\ engine.by = Routing!NoRequest
      /\ script # Routing!NoScript /\ engine' = [by |-> r, script |-> script]
      /\ UNCHANGED <<proxies, client, cache, machine, recent, denied>>
  BY <1>1, <1>2 DEF Routing!EnterEngine
<1>4. /\ request[r] \in Requested /\ x \in Routing!Resolvers /\ cache[x] \in Caches
      /\ request[r].proxy = "system"
      /\ request[r].proxy \in request[r].choices /\ x # Routing!NoResolver
      /\ \A s \in Requests \ {r} : ~(request[s].at \in Held /\ request[s].resolver = x)
      /\ \A s \in Requests : ~(request[s].at = "loading" /\ request[s].resolver = x)
      /\ cache[x].configuration \in request[r].configurations
  BY <1>1, <1>3, DecisionIsSound
<1>5. PICK q : q = [request[r] EXCEPT !.at = "evaluating"]
  OBVIOUS
<1>6. request' = [request EXCEPT ![r] = q]
  BY <1>4, <1>5 DEF Routing!EnterEngine, Routing!Advance, RouteInv, RouteTypeOK
<1>7. /\ q \in Requested /\ q.at = "evaluating" /\ q.configurations = request[r].configurations
      /\ q.provider = request[r].provider /\ q.resolver = x
      /\ q.choices = request[r].choices /\ q.proxy = request[r].proxy
  BY <1>1, <1>4, <1>5 DEF Requested
<1>8. PICK c \in Caches : c = cache[x]
  BY <1>4
<1>9. request'[r] = q /\ cache'[x] = c /\ cache' = [cache EXCEPT ![x] = c]
  BY <1>3, <1>4, <1>6, <1>8 DEF RouteInv, RouteTypeOK
<1>10. ChoiceIsTaken(r)' /\ SentAsChosen(r)'
  BY <1>4, <1>7, <1>9 DEF ChoiceIsTaken, SentAsChosen, Held
<1>11. HolderKnows(r)'
  BY <1>2, <1>3, <1>4, <1>7, <1>8, <1>9 DEF HolderKnows, Held
<1>12. CacheIsRecent(x)' /\ CacheIsWhole(x)'
  <2>1. CacheIsRecent(x) /\ CacheIsWhole(x)
    BY <1>4 DEF RouteInv
  <2>. QED  BY <1>3, <1>4, <1>8, <1>9, <2>1 DEF CacheIsRecent, CacheIsWhole
<1>13. \A s \in Requests \ {r} : request[s].at # "evaluating"
  <2>1. \A s \in Requests : request[s].at = "evaluating" => engine.by = s
    BY DEF RouteInv, HolderKnows
  <2>. QED  BY <1>3, <2>1, RoutingAssumption
<1>. QED  BY <1>1, <1>3, <1>4, <1>6, <1>7, <1>9, <1>10, <1>11, <1>12, <1>13, HolderMoves

-----------------------------------------------------------------------------
(* The whole                                                               *)

LEMMA RouteStepKeeps ==
  ASSUME RouteInv, [Routing!RouteNext]_routeVars
  PROVE  RouteInv'
<1>1. CASE UNCHANGED routeVars
  BY <1>1 DEF routeVars, RouteInv, RouteTypeOK, ClientsMatch, OneHolds, ChoiceIsTaken, HolderKnows,
              SentAsChosen, CacheIsRecent, CacheIsWhole
<1>. QED  BY <1>1, SetProxiesKeeps, ReconfigureKeeps, SecondKeeps, AskKeeps, ReadProxiesKeeps,
             UseCachedKeeps, BuildClientKeeps, BuildFailsKeeps, SendOverriddenKeeps, LookKeeps,
             LookAgainKeeps, LoadKeeps, DecideKeeps, EnterEngineKeeps, EvaluationKeeps
          DEF Routing!RouteNext

LEMMA RoutesBegin ==
  ASSUME Routing!RouteInit
  PROVE  RouteInv
<1>1. /\ proxies \in [Routing!RoutedProviders -> Routing!Choices]
      /\ client = [p \in Routing!RoutedProviders |->
           [proxy |-> "system", resolver |-> IF p \in OwnProviders THEN Routing!FirstResolvers[p]
                                             ELSE "shared"]]
      /\ cache = [x \in Routing!Resolvers |-> Routing!NoCache]
      /\ machine \in Configurations /\ recent = {machine} /\ denied = {}
  BY DEF Routing!RouteInit
<1>2. Routing!FirstResolvers \in [OwnProviders -> OwnResolvers]
  BY RoutingAssumption DEF Routing!FirstResolvers
<1>3. ASSUME NEW p \in Routing!RoutedProviders
      PROVE  client[p] \in Clients /\ client[p].proxy = "system"
             /\ client[p].resolver # Routing!NoResolver
  <2>1. PICK x : x = IF p \in OwnProviders THEN Routing!FirstResolvers[p] ELSE "shared"
    OBVIOUS
  <2>2. x \in Routing!Resolvers
    BY <1>2, <2>1, RouteNames
  <2>3. client[p] = [proxy |-> "system", resolver |-> x]
    BY <1>1, <2>1
  <2>4. "system" \in Routing!Choices
    BY DEF Routing!Choices
  <2>. QED  BY <2>2, <2>3, <2>4, RouteNames DEF Clients
<1>4. /\ Routing!NoCache \in Caches /\ Routing!NoCache.due /\ Routing!NoCache.pac = Routing!NoScript
      /\ Routing!NoCache.resolver = Routing!NoCache.configuration.fallback
      /\ Routing!NoCache.configuration.pac = Routing!NoScript
  <2>1. /\ Routing!NoConfiguration.fallback = FALSE
        /\ Routing!NoConfiguration.pac = Routing!NoScript
    BY DEF Routing!NoConfiguration
  <2>. QED  BY <2>1, RouteNames DEF Routing!NoCache, Caches
<1>5. /\ request \in [Requests -> Requested]
      /\ \A r \in Requests :
           \/ request[r].at = "idle"
           \/ /\ request[r].at = "ready" /\ request[r].proxy = "system"
              /\ request[r].proxy \in request[r].choices
              /\ request[r].resolver # Routing!NoResolver
  <2>1. PICK warming : request = [r \in Requests |->
          IF r \in warming THEN Routing!WarmUp ELSE Routing!NotSent]
    BY DEF Routing!RouteInit
  <2>2. Routing!NotSent \in Requested /\ Routing!NotSent.at = "idle"
    BY DEF Routing!NotSent, Requested, Routing!NoResolver
  <2>3. "system" \in Routing!Choices
    BY DEF Routing!Choices
  <2>4. Routing!WarmUp = [at |-> "ready", provider |-> "warm-up", proxy |-> "system",
                          resolver |-> "shared", route |-> "none", choices |-> {"system"},
                          configurations |-> {}, excused |-> FALSE]
    <3>1. PICK idle : idle = Routing!NotSent
      OBVIOUS
    <3>2. idle = [at |-> "idle", provider |-> "none", proxy |-> "none",
                  resolver |-> Routing!NoResolver, route |-> "none",
                  choices |-> {}, configurations |-> {}, excused |-> FALSE]
      BY <3>1 DEF Routing!NotSent
    <3>3. Routing!WarmUp = [idle EXCEPT !.at = "ready", !.provider = "warm-up", !.proxy = "system",
                                        !.resolver = "shared", !.choices = {"system"}]
      BY <3>1, Zenon DEF Routing!WarmUp
    <3>. QED  BY <3>2, <3>3
  <2>5. /\ Routing!WarmUp \in Requested /\ Routing!WarmUp.at = "ready"
        /\ Routing!WarmUp.proxy = "system" /\ Routing!WarmUp.choices = {"system"}
        /\ Routing!WarmUp.resolver # Routing!NoResolver
    BY <2>3, <2>4, RouteNames DEF Requested
  <2>. QED  BY <2>1, <2>2, <2>5
<1>6. RouteTypeOK
  BY <1>1, <1>3, <1>4, <1>5 DEF RouteTypeOK, Configs
<1>7. ClientsMatch
  BY <1>3 DEF ClientsMatch
<1>8. OneHolds
  BY <1>1, <1>5 DEF OneHolds, Held
<1>9. \A r \in Requests : ChoiceIsTaken(r) /\ HolderKnows(r) /\ SentAsChosen(r)
  BY <1>1, <1>5 DEF ChoiceIsTaken, HolderKnows, SentAsChosen, Held
<1>10. \A x \in Routing!Resolvers : CacheIsRecent(x) /\ CacheIsWhole(x)
  BY <1>1, <1>4 DEF CacheIsRecent, CacheIsWhole
<1>. QED  BY <1>6, <1>7, <1>8, <1>9, <1>10 DEF RouteInv

(* A request goes the way that was chosen for its provider while it took   *)
(* its client, or the one the machine had within the last second, by that  *)
(* script and no other, and past a script only if it was tried and failed  *)
(* (http_client.rs).                                                       *)
THEOREM RequestsGoAsChosen == RefreshSpec => []RoutesAsChosen
<1>. DEFINE I == part = "routing" => RouteInv
<1>1. RefreshInit => I
  BY RoutesBegin DEF RefreshInit
<1>2. I /\ [RefreshNext]_refreshVars => I'
  <2>. SUFFICES ASSUME I, [RefreshNext]_refreshVars, part' = "routing" PROVE RouteInv'
    OBVIOUS
  <2>1. part = "routing" /\ [Routing!RouteNext]_routeVars
    BY DEF RefreshNext, refreshVars, FlightPart, RoutingPart
  <2>. QED  BY <2>1, RouteStepKeeps
<1>3. I => RoutesAsChosen
  BY DEF RoutesAsChosen, Routing!RoutesAsChosen, RouteInv, SentAsChosen
<1>. QED  BY <1>1, <1>2, <1>3, PTL DEF RefreshSpec
=============================================================================
