---------------------------- MODULE RefreshLoop ----------------------------
(***************************************************************************)
(* The loop that refreshes all enabled providers (refresh_loop.rs) and the *)
(* interval it waits (service.rs): fast, slow, or adapted to whether the   *)
(* usage still changes.                                                    *)
(*                                                                         *)
(* The loop, a refresh asked for by the page, and the command that stores  *)
(* another frequency run beside each other and share the interval, the     *)
(* count of unchanged rounds and the permit of a tokio Notify, which wakes *)
(* the loop, or spares it the next wait.                                   *)
(***************************************************************************)
EXTENDS Integers

CONSTANTS UnchangedRounds, \* FAST_REFRESH_UNCHANGED_ROUNDS
          MaxChanges       \* bound: changes of the frequency

Fast == "fast"   \* FAST_REFRESH_INTERVAL
Slow == "slow"   \* REFRESH_INTERVAL
Frequencies == {"oneMinute", "fiveMinutes", "adaptive"}
Refreshers == {"loop", "page"}

VARIABLES
  frequency,   \* update_frequency of the settings
  dynamic,     \* refresh_interval of the service
  unchanged,   \* unchanged_refreshes
  permit,      \* the permit of refresh_frequency_wakeup
  change,      \* where the command is that changes the frequency
  at, computed,  \* where each refresher is, the interval it has computed
  wait,        \* the interval the loop waits or is about to
  idle,        \* its last round had no provider
  changes      \* changes so far

loopVars == <<frequency, dynamic, unchanged, permit, change, at, computed, wait, idle, changes>>

LoopTypeOK ==
  /\ frequency \in Frequencies /\ {dynamic, wait} \subseteq {Fast, Slow}
  /\ unchanged \in 0 .. UnchangedRounds /\ permit \in BOOLEAN /\ idle \in BOOLEAN
  /\ change \in {"none", "stored", "reset"}
  /\ at \in [Refreshers -> {"start", "round", "counted", "set", "finishing", "waiting"}]
  /\ computed \in [Refreshers -> {Fast, Slow}]
  /\ changes \in 0 .. MaxChanges

LoopInit ==
  /\ frequency \in Frequencies /\ dynamic = Slow /\ unchanged = 0
  /\ permit = FALSE /\ change = "none"
  /\ at = [r \in Refreshers |-> IF r = "loop" THEN "start" ELSE "waiting"]
  /\ computed = [r \in Refreshers |-> Slow] /\ wait = Slow /\ idle = FALSE
  /\ changes = 0

-----------------------------------------------------------------------------
(* One round of a refresher.                                               *)

Move(r, to) == at' = [at EXCEPT ![r] = to]

(* refresh_interval(): what the frequency in force asks for.               *)
RefreshInterval ==
  IF frequency = "oneMinute" THEN Fast
  ELSE IF frequency = "fiveMinutes" THEN Slow ELSE dynamic

(* Without an enabled provider the loop waits the slow interval.           *)
NothingToRefresh ==
  /\ at["loop"] = "start" /\ Move("loop", "waiting")
  /\ wait' = Slow /\ idle' = TRUE
  /\ UNCHANGED <<frequency, dynamic, unchanged, permit, change, computed, changes>>

StartRound(r) ==
  /\ at[r] = IF r = "loop" THEN "start" ELSE "waiting"
  /\ Move(r, "round")
  /\ idle' = (idle /\ r # "loop")
  /\ UNCHANGED <<frequency, dynamic, unchanged, permit, change, computed, wait, changes>>

(* refresh_interval_for: fast while the usage changes and for the next     *)
(* rounds without a change, then slow.                                     *)
Adapted(changed) ==
  IF changed THEN [interval |-> Fast, unchanged |-> 0]
  ELSE IF dynamic = Fast /\ unchanged + 1 < UnchangedRounds
       THEN [interval |-> Fast, unchanged |-> unchanged + 1]
       ELSE [interval |-> Slow, unchanged |-> 0]

(* update_refresh_interval reads the frequency and counts the round ...    *)
ComputeInterval(r) ==
  /\ at[r] = "round" /\ Move(r, "counted")
  /\ \E changed \in BOOLEAN :
       LET next == IF frequency = "adaptive" THEN Adapted(changed)
                   ELSE [interval |-> RefreshInterval, unchanged |-> 0]
       IN computed' = [computed EXCEPT ![r] = next.interval] /\ unchanged' = next.unchanged
  /\ UNCHANGED <<frequency, dynamic, permit, change, wait, idle, changes>>

(* ... and then stores the interval.                                       *)
SetInterval(r) ==
  /\ at[r] = "counted" /\ Move(r, "set")
  /\ dynamic' = computed[r]
  /\ UNCHANGED <<frequency, unchanged, permit, change, computed, wait, idle, changes>>

(* state(): the loop is going to wait what the frequency of this moment    *)
(* asks for.                                                               *)
EndRound(r) ==
  /\ at[r] = "set" /\ Move(r, IF r = "loop" THEN "finishing" ELSE "waiting")
  /\ wait' = IF r = "loop" THEN RefreshInterval ELSE wait
  /\ UNCHANGED <<frequency, dynamic, unchanged, permit, change, computed, idle, changes>>

(* finish_refresh, and the select on the timer and the Notify.             *)
BeginWait ==
  /\ at["loop"] = "finishing" /\ Move("loop", "waiting")
  /\ UNCHANGED <<frequency, dynamic, unchanged, permit, change, computed, wait, idle, changes>>

TimerFires ==
  /\ at["loop"] = "waiting" /\ Move("loop", "start")
  /\ UNCHANGED <<frequency, dynamic, unchanged, permit, change, computed, wait, idle, changes>>

Woken ==
  /\ at["loop"] = "waiting" /\ permit
  /\ permit' = FALSE /\ Move("loop", "start")
  /\ UNCHANGED <<frequency, dynamic, unchanged, change, computed, wait, idle, changes>>

-----------------------------------------------------------------------------
(* save_app_settings_inner with another frequency.                         *)

StoreFrequency ==
  /\ change = "none" /\ changes < MaxChanges
  /\ frequency' \in Frequencies \ {frequency}
  /\ change' = "stored" /\ changes' = changes + 1
  /\ UNCHANGED <<dynamic, unchanged, permit, at, computed, wait, idle>>

ResetUnchanged ==
  /\ change = "stored" /\ change' = "reset"
  /\ unchanged' = 0
  /\ UNCHANGED <<frequency, dynamic, permit, at, computed, wait, idle, changes>>

(* Variant: notify_waiters wakes a loop that waits and leaves no permit.   *)
NotifyWaiters ==
  /\ change = "reset" /\ change' = "none"
  /\ dynamic' = Slow /\ permit' = (at["loop"] = "waiting")
  /\ UNCHANGED <<frequency, unchanged, at, computed, wait, idle, changes>>

NotifyOne ==
  /\ change = "reset" /\ change' = "none"
  /\ dynamic' = Slow /\ permit' = TRUE
  /\ UNCHANGED <<frequency, unchanged, at, computed, wait, idle, changes>>

Round(r) == StartRound(r) \/ ComputeInterval(r) \/ SetInterval(r) \/ EndRound(r)

LoopNext ==
  \/ NothingToRefresh \/ BeginWait \/ TimerFires \/ Woken
  \/ \E r \in Refreshers : Round(r)
  \/ StoreFrequency \/ ResetUnchanged \/ NotifyOne

(* The runtime goes on with a task that can go on; nothing says the timer  *)
(* fires soon, nor that the page asks for a refresh.                       *)
LoopProgress == Woken \/ NothingToRefresh \/ Round("loop") \/ BeginWait
CommandProgress == ResetUnchanged \/ NotifyOne

LoopFairSpec ==
  /\ LoopInit /\ [][LoopNext]_loopVars
  /\ WF_loopVars(LoopProgress) /\ WF_loopVars(CommandProgress)

-----------------------------------------------------------------------------
(* A loop that waits and has not been woken waits as long as the frequency *)
(* in force says, wherever in its round the frequency was changed.         *)
WaitsAsAsked ==
  at["loop"] = "waiting" /\ ~permit /\ change = "none" /\ ~idle =>
    /\ frequency = "oneMinute" => wait = Fast
    /\ frequency = "fiveMinutes" => wait = Slow

(* A new frequency is taken up without waiting for the old interval to run *)
(* out: sooner or later the loop waits as it says, or has no provider, or  *)
(* the frequency is changed again.                                         *)
FrequencyTakenUp ==
  \A f \in Frequencies \ {"adaptive"} :
    frequency = f ~>
      \/ frequency # f
      \/ at["loop"] = "waiting" /\ (idle \/ wait = RefreshInterval)
=============================================================================
