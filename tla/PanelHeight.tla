---------------------------- MODULE PanelHeight ----------------------------
(***************************************************************************)
(* PanelResizeSession (window.rs): the height of the panel is automatic,   *)
(* or the one of the last resize, which is stored for the next launch.     *)
(*                                                                         *)
(* Three threads meet: the main thread (resize events and synchronous      *)
(* commands, one after another), the command reset_all_settings, which     *)
(* makes the panel automatic first and takes that back when the settings   *)
(* cannot be saved, and a worker that stores the heights of a drag after   *)
(* 120 ms of quiet.  What a thread does under the persistence lock is one  *)
(* step; the atomics read outside of it have steps of their own.           *)
(***************************************************************************)
EXTENDS Integers, Sequences

CONSTANTS Heights, NoHeight,
          MaxGeneration,  \* bound: changes of the generation in one launch
          MaxPending      \* bound: heights waiting in the channel

ASSUME HeightAssumption ==
  /\ NoHeight \notin Heights
  /\ MaxGeneration \in Nat /\ MaxPending \in Nat

VARIABLES
  stored,      \* panel height on disk
  automatic, active, generation,
  latest,      \* latest_height
  channel,     \* heights on their way to the worker
  pending,     \* the height the worker is about to store, or Nothing
  main,        \* what the main thread is in the middle of
  reset,       \* the PanelResetToken of reset_all_settings, or NoReset
  last         \* height last chosen (history)

sessionVars == <<stored, automatic, active, generation, latest>>
vars == <<sessionVars, channel, pending, main, reset, last>>

Maybe == Heights \union {NoHeight}
Nothing == [gen |-> -1, height |-> NoHeight]
Pendings == [gen : Nat, height : Heights]
Idle == [at |-> "idle", height |-> NoHeight]
Stages == {"beginning", "recording", "sending", "finishing", "saving"}
NoReset == [gen |-> -1, previous |-> NoHeight]

TypeOK ==
  /\ {stored, latest, last} \subseteq Maybe
  /\ automatic \in BOOLEAN /\ active \in BOOLEAN
  /\ generation \in Nat
  /\ channel \in Seq(Pendings)
  /\ pending \in Pendings \union {Nothing}
  /\ main \in [at : Stages, height : Maybe] \union {Idle}
  /\ reset \in [gen : Nat, previous : Maybe] \union {NoReset}

(* new(), when height h is found on disk.                                  *)
Open(h) ==
  /\ stored = h /\ automatic = (h = NoHeight) /\ active = FALSE
  /\ generation = 0 /\ latest = NoHeight
  /\ channel = <<>> /\ pending = Nothing
  /\ main = Idle /\ reset = NoReset
  /\ last = h

Init == \E h \in Maybe : Open(h)

Growing == generation < MaxGeneration

-----------------------------------------------------------------------------
(* The main thread                                                         *)

(* begin(): the drag of a border starts at height h.                       *)
Begin(h) ==
  /\ main = Idle
  /\ active' = TRUE
  /\ latest' = NoHeight
  /\ main' = [at |-> "beginning", height |-> h]
  /\ UNCHANGED <<stored, automatic, generation, channel, pending, reset, last>>

Manual(h) ==
  /\ Growing
  /\ stored' = h
  /\ generation' = generation + 1
  /\ automatic' = FALSE
  /\ last' = h

BeginManual ==
  /\ main.at = "beginning"
  /\ Manual(main.height)
  /\ main' = Idle
  /\ UNCHANGED <<active, latest, channel, pending, reset>>

BeginFails ==
  /\ main.at = "beginning"
  /\ active' = FALSE
  /\ main' = Idle
  /\ UNCHANGED <<stored, automatic, generation, latest, channel, pending, reset, last>>

(* set_manual() as a command; when the disk refuses, nothing changes.      *)
SetManual(h) ==
  /\ main = Idle
  /\ Manual(h)
  /\ UNCHANGED <<active, latest, channel, pending, main, reset>>

(* record(): the window was resized.                                       *)
Record(h) ==
  /\ main = Idle /\ active
  /\ Len(channel) < MaxPending
  /\ main' = [at |-> "recording", height |-> h]
  /\ UNCHANGED <<sessionVars, channel, pending, reset, last>>

RecordLatest ==
  /\ main.at = "recording"
  /\ latest' = main.height
  /\ main' = [main EXCEPT !.at = "sending"]
  /\ UNCHANGED <<stored, automatic, active, generation, channel, pending, reset, last>>

RecordSend ==
  /\ main.at = "sending"
  /\ channel' = Append(channel, [gen |-> generation, height |-> main.height])
  /\ last' = IF automatic THEN last ELSE main.height
  /\ main' = Idle
  /\ UNCHANGED <<sessionVars, pending, reset>>

(* finish(): the drag ends, or the panel is hidden; the height of the      *)
(* window may not be available.                                            *)
Finish(current) ==
  /\ main = Idle
  /\ active' = FALSE
  /\ main' = IF active THEN [at |-> "finishing", height |-> current]
             ELSE [at |-> "saving", height |-> NoHeight]
  /\ UNCHANGED <<stored, automatic, generation, latest, channel, pending, reset, last>>

FinishTake ==
  /\ main.at = "finishing"
  /\ latest' = NoHeight
  /\ main' = [at |-> "saving",
              height |-> IF main.height # NoHeight THEN main.height ELSE latest]
  /\ UNCHANGED <<stored, automatic, active, generation, channel, pending, reset, last>>

(* Variant: what is on its way to the worker stays valid.                  *)
FinishSaveOnly ==
  /\ main.at = "saving"
  /\ IF main.height # NoHeight /\ ~automatic
     THEN stored' = main.height /\ last' = main.height
     ELSE UNCHANGED <<stored, last>>
  /\ main' = Idle
  /\ UNCHANGED <<automatic, active, generation, latest, channel, pending, reset>>

FinishSave ==
  /\ main.at = "saving"
  /\ IF main.height # NoHeight /\ ~automatic
     THEN /\ Growing
          /\ stored' = main.height /\ last' = main.height
          /\ generation' = generation + 1
     ELSE UNCHANGED <<stored, last, generation>>
  /\ main' = Idle
  /\ UNCHANGED <<automatic, active, latest, channel, pending, reset>>

BecomeAutomatic ==
  /\ Growing
  /\ stored' = NoHeight /\ last' = NoHeight
  /\ active' = FALSE /\ latest' = NoHeight
  /\ generation' = generation + 1
  /\ automatic' = TRUE

(* set_automatic(), a command of the main thread.                          *)
SetAutomatic ==
  /\ main = Idle
  /\ BecomeAutomatic
  /\ UNCHANGED <<channel, pending, main, reset>>

-----------------------------------------------------------------------------
(* reset_all_settings                                                      *)

BeginReset ==
  /\ reset = NoReset
  /\ BecomeAutomatic
  /\ reset' = [gen |-> generation + 1, previous |-> stored]
  /\ UNCHANGED <<channel, pending, main>>

ResetSaved ==
  /\ reset # NoReset
  /\ reset' = NoReset
  /\ UNCHANGED <<sessionVars, channel, pending, main, last>>

(* Variant: the mode alone tells whether somebody has chosen since.        *)
RollbackUnlessManual ==
  /\ reset # NoReset
  /\ Growing
  /\ reset' = NoReset
  /\ IF ~automatic THEN UNCHANGED <<stored, automatic, generation, last>>
     ELSE /\ stored' = reset.previous /\ last' = reset.previous
          /\ automatic' = (reset.previous = NoHeight)
          /\ generation' = generation + 1
  /\ UNCHANGED <<active, latest, channel, pending, main>>

(* rollback_automatic_reset(), after the settings could not be saved.      *)
Rollback ==
  /\ reset # NoReset
  /\ reset' = NoReset
  /\ IF generation # reset.gen \/ ~automatic
     THEN UNCHANGED <<stored, automatic, generation, last>>
     ELSE /\ Growing
          /\ stored' = reset.previous /\ last' = reset.previous
          /\ automatic' = (reset.previous = NoHeight)
          /\ generation' = generation + 1
  /\ UNCHANGED <<active, latest, channel, pending, main>>

-----------------------------------------------------------------------------
(* The worker                                                              *)

(* A height is received; an earlier one still waiting for quiet is dropped.*)
Receive ==
  /\ channel # <<>>
  /\ pending' = Head(channel)
  /\ channel' = Tail(channel)
  /\ UNCHANGED <<sessionVars, main, reset, last>>

(* Variant: only the generation is compared.                               *)
WorkerTrustsGeneration ==
  /\ pending # Nothing
  /\ stored' = IF pending.gen = generation THEN pending.height ELSE stored
  /\ pending' = Nothing
  /\ UNCHANGED <<automatic, active, generation, latest, channel, main, reset, last>>

WorkerSave ==
  /\ pending # Nothing
  /\ stored' = IF pending.gen = generation /\ ~automatic THEN pending.height ELSE stored
  /\ pending' = Nothing
  /\ UNCHANGED <<automatic, active, generation, latest, channel, main, reset, last>>

(* The process ends and is started again.                                  *)
Restart ==
  /\ generation > 0
  /\ automatic' = (stored = NoHeight) /\ active' = FALSE
  /\ generation' = 0 /\ latest' = NoHeight
  /\ channel' = <<>> /\ pending' = Nothing
  /\ main' = Idle /\ reset' = NoReset
  /\ last' = stored
  /\ UNCHANGED stored

-----------------------------------------------------------------------------
Main ==
  \/ \E h \in Heights : Begin(h) \/ SetManual(h) \/ Record(h)
  \/ \E h \in Maybe : Finish(h)
  \/ BeginManual \/ BeginFails \/ RecordLatest \/ RecordSend
  \/ FinishTake \/ FinishSave \/ SetAutomatic

Next == Main \/ BeginReset \/ ResetSaved \/ Rollback \/ Receive \/ WorkerSave \/ Restart

Spec == Init /\ [][Next]_vars

-----------------------------------------------------------------------------
(* The panel is automatic exactly when no height is stored: a reset is     *)
(* never undone by a height that a drag had left on its way to the disk,   *)
(* and a restart finds the mode the user saw.                              *)
HeightInv ==
  /\ TypeOK
  /\ automatic <=> stored = NoHeight
  /\ \A i \in DOMAIN channel : channel[i].gen <= generation
  /\ pending.gen <= generation /\ reset.gen <= generation

Quiet == channel = <<>> /\ pending = Nothing /\ main = Idle

(* When nothing is on its way the height stored is the one chosen last     *)
(* ("a_real_resize_owns_the_height_until_automatic_mode_is_restored").     *)
LastChoiceIsStored == Quiet => stored = last

(* A reset that fails puts back the height that was stored before it,      *)
(* unless somebody chose a mode since: then it changes nothing             *)
(* (window.rs: "assert!(!session.rollback_automatic_reset(stale_reset)").  *)
RollbackRespectsChoices ==
  [][reset # NoReset /\ reset' = NoReset /\ generation # reset.gen
       => <<stored, automatic>>' = <<stored, automatic>>]_vars
=============================================================================
