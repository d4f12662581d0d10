-------------------------- MODULE Sub2ApiConnection --------------------------
(***************************************************************************)
(* One Sub2API slot: the connection in the keychain, its marker file, the  *)
(* cached snapshot on disk and the provider view, changed by the commands  *)
(* that save, clear and delete the connection (commands/provider.rs) while *)
(* refreshes of the slot go on (service.rs, providers/sub2api/mod.rs).     *)
(*                                                                         *)
(* Commands exclude each other by the credential mutex and end early when  *)
(* one of their steps fails; nothing is taken back.  A connection is the   *)
(* number of the save that made it.  The flight is RefreshFlight seen from *)
(* its provider: an attempt and at most one follow-up, or a worker that is *)
(* still draining after the timeout; applying an answer to the view and    *)
(* settling the generation are one step.  The refresh windows are left     *)
(* out: a refresh that is not forced may begin whenever no flight is out.  *)
(***************************************************************************)
EXTENDS Integers

CONSTANTS MaxSaves,     \* bound: connections ever saved
          MaxRefreshes, \* bound: forced refreshes of commands not begun yet
          MaxLaunches   \* bound: launches of the program

ASSUME ConnectionAssumption == {MaxSaves, MaxRefreshes, MaxLaunches} \subseteq Nat \ {0}

VARIABLES
  keychain,    \* the stored connection, 0 when there is none
  saves,       \* connections saved so far
  marker,      \* configured_marker exists
  configured,  \* Sub2ApiProvider.configured
  enabled,     \* the slot is enabled in the settings
  row,         \* row of provider_snapshots: its connection and identity_key
  view,        \* ProviderViewState: whose snapshot, whether Live, error
  command,     \* the command that holds the credential mutex
  refreshes,   \* forced refreshes that ended commands have still to begin
  flight,      \* the refresh under way, what its worker holds, its follow-up
  launches,
  broken,      \* a command ended early and no attempt began since (history)
  clean        \* cleared while no answer was on its way, unsaved since (history)

storedVars == <<keychain, saves, marker, configured, enabled>>
history == <<launches, broken, clean>>
vars == <<storedVars, row, view, command, refreshes, flight, history>>

NoKey == "none"
Unconfigured == "sub2api-unconfigured"
NoRow == [of |-> 0, key |-> NoKey]
EmptyView == [of |-> 0, live |-> FALSE, error |-> FALSE]
NoCommand == [kind |-> "none", at |-> "none"]
NoFlight == [at |-> "idle", of |-> 0, key |-> NoKey, failed |-> FALSE, followUp |-> FALSE]

Rows == [of : Nat, key : {NoKey, Unconfigured}]
Views == [of : Nat, live : BOOLEAN, error : BOOLEAN]
Commands == [kind : {"save", "clear", "delete"},
             at : {"keychain", "marker", "settings", "row", "view"}] \union {NoCommand}
Flights == [at : {"idle", "load", "fetch", "cache", "show", "draining"}, of : Nat,
            key : {NoKey, Unconfigured}, failed : BOOLEAN, followUp : BOOLEAN]

TypeOK ==
  /\ keychain \in Nat /\ saves \in Nat
  /\ marker \in BOOLEAN /\ configured \in BOOLEAN /\ enabled \in BOOLEAN
  /\ row \in Rows /\ view \in Views
  /\ command \in Commands /\ refreshes \in Nat
  /\ flight \in Flights
  /\ launches \in Nat /\ broken \in BOOLEAN /\ clean \in BOOLEAN

(* A slot that was never configured.                                       *)
Init ==
  /\ keychain = 0 /\ saves = 0
  /\ marker = FALSE /\ configured = FALSE
  /\ enabled \in BOOLEAN
  /\ row = NoRow /\ view = EmptyView
  /\ command = NoCommand /\ refreshes = 0 /\ flight = NoFlight
  /\ launches = 1 /\ broken = FALSE /\ clean = FALSE

-----------------------------------------------------------------------------
(* save_sub2api_config, clear_sub2api_config, delete_sub2api_config        *)

At(step) == command.at = step
Proceed(step) == command' = [command EXCEPT !.at = step]

StartCommand(kind) ==
  /\ command = NoCommand
  /\ refreshes < MaxRefreshes
  /\ kind = "save" => saves < MaxSaves
  /\ command' = [kind |-> kind, at |-> "keychain"]
  /\ UNCHANGED <<storedVars, row, view, refreshes, flight, history>>

(* write_config(), delete_owned_password().                                *)
ChangeKeychain ==
  /\ At("keychain")
  /\ IF command.kind = "save"
       THEN /\ saves' = saves + 1 /\ keychain' = saves'
            /\ clean' = FALSE
       ELSE /\ keychain' = 0
            /\ UNCHANGED <<saves, clean>>
  /\ Proceed("marker")
  /\ UNCHANGED <<marker, configured, enabled, row, view, refreshes, flight, launches, broken>>

(* set_configured(): the file, then the flag.                              *)
SetConfigured ==
  /\ At("marker")
  /\ marker' = (command.kind = "save")
  /\ configured' = marker'
  /\ Proceed("settings")
  /\ UNCHANGED <<keychain, saves, enabled, row, view, refreshes, flight, history>>

(* reconcile_provider_credential_state(), remove_dynamic_provider().       *)
Reconcile ==
  /\ At("settings")
  /\ enabled' = (command.kind # "delete")
  /\ Proceed("row")
  /\ UNCHANGED <<keychain, saves, marker, configured, row, view, refreshes, flight, history>>

(* Variant: clear_provider_data() keeps the snapshot on disk.              *)
KeepSnapshot ==
  /\ At("row")
  /\ clean' = (command.kind # "save" /\ flight.of = 0)
  /\ Proceed("view")
  /\ UNCHANGED <<storedVars, row, view, refreshes, flight, launches, broken>>

(* clear_provider_data(): the snapshot on disk, then the view.             *)
DeleteSnapshot ==
  /\ At("row")
  /\ row' = NoRow
  /\ clean' = (command.kind # "save" /\ flight.of = 0)
  /\ Proceed("view")
  /\ UNCHANGED <<storedVars, view, refreshes, flight, launches, broken>>

(* The command releases its mutexes and, unless the slot was deleted, goes *)
(* on to refresh it by force.                                              *)
ResetView ==
  /\ At("view")
  /\ view' = EmptyView
  /\ refreshes' = IF command.kind = "delete" THEN refreshes ELSE refreshes + 1
  /\ command' = NoCommand
  /\ UNCHANGED <<storedVars, row, flight, history>>

(* A step fails and the command returns; the last one cannot fail.         *)
CommandFails ==
  /\ command # NoCommand /\ ~At("view")
  /\ broken' = (broken \/ ~At("keychain"))
  /\ command' = NoCommand
  /\ UNCHANGED <<storedVars, row, view, refreshes, flight, launches, clean>>

-----------------------------------------------------------------------------
(* refresh() and run_refresh_flight()                                      *)

StartAttempt ==
  /\ flight' = [NoFlight EXCEPT !.at = "load"]
  /\ view' = [view EXCEPT !.error = FALSE]

JoinOrStart ==
  \/ flight.at = "idle" /\ StartAttempt
  \/ flight.at = "draining" /\ UNCHANGED <<flight, view>>
  \/ /\ flight.at \notin {"idle", "draining"}
     /\ flight' = [flight EXCEPT !.followUp = TRUE]
     /\ UNCHANGED view

(* Variant: the refresh of a command is not forced.                        *)
RefreshUnforced ==
  /\ refreshes > 0
  /\ refreshes' = refreshes - 1
  /\ IF flight.at = "idle" THEN StartAttempt ELSE UNCHANGED <<flight, view>>
  /\ UNCHANGED <<storedVars, row, command, history>>

(* The forced refresh that follows a command.                              *)
RefreshAfterCommand ==
  /\ refreshes > 0
  /\ refreshes' = refreshes - 1
  /\ JoinOrStart
  /\ UNCHANGED <<storedVars, row, command, history>>

(* A refresh of the loop, or one the user asks for.  Its caller found the  *)
(* slot enabled some time before; it may begin after a deletion.           *)
Refresh(forced) ==
  /\ flight.at = "idle" \/ forced
  /\ JoinOrStart
  /\ UNCHANGED <<storedVars, row, command, refreshes, history>>

(* load_config() on the worker.                                            *)
LoadConfig ==
  /\ flight.at = "load"
  /\ flight' = [flight EXCEPT !.at = IF keychain = 0 THEN "show" ELSE "fetch",
                              !.of = keychain, !.failed = (keychain = 0)]
  /\ broken' = (command # NoCommand /\ broken)
  /\ UNCHANGED <<storedVars, row, view, command, refreshes, launches, clean>>

(* The keychain, the login or a request fails.                             *)
FetchFails ==
  /\ flight.at \in {"load", "fetch"}
  /\ flight' = [flight EXCEPT !.at = "show", !.of = 0, !.failed = TRUE]
  /\ broken' = (broken /\ (flight.at = "fetch" \/ command # NoCommand))
  /\ UNCHANGED <<storedVars, row, view, command, refreshes, launches, clean>>

(* refresh_for_service(): cache_identity() is asked after the answer came. *)
Fetched ==
  /\ flight.at = "fetch"
  /\ flight' = [flight EXCEPT !.at = "cache",
                              !.key = IF configured THEN NoKey ELSE Unconfigured]
  /\ UNCHANGED <<storedVars, row, view, command, refreshes, history>>

(* save_snapshot_for_identity(), which may fail.                           *)
CacheSnapshot ==
  /\ flight.at = "cache"
  /\ \/ /\ row' = [of |-> flight.of, key |-> flight.key]
        /\ flight' = [flight EXCEPT !.at = "show"]
     \/ /\ flight' = [flight EXCEPT !.at = "show", !.failed = TRUE]
        /\ UNCHANGED row
  /\ UNCHANGED <<storedVars, view, command, refreshes, history>>

(* merge_refresh_result(): an error keeps the snapshot that is shown; an   *)
(* answer that could not be cached is shown with an error.  Then the       *)
(* generation settles.                                                     *)
ShowResult ==
  /\ flight.at = "show"
  /\ LET shown == IF flight.of = 0 THEN [view EXCEPT !.error = TRUE]
                  ELSE [of |-> flight.of, live |-> TRUE, error |-> flight.failed]
     IN IF flight.followUp
          THEN /\ flight' = [NoFlight EXCEPT !.at = "load"]
               /\ view' = [shown EXCEPT !.error = FALSE]
          ELSE flight' = NoFlight /\ view' = shown
  /\ UNCHANGED <<storedVars, row, command, refreshes, history>>

(* Variant: the timeout counts the waiting requests as done without error. *)
TimeOutSilently ==
  /\ flight.at \in {"load", "fetch"}
  /\ flight' = [NoFlight EXCEPT !.at = "draining"]
  /\ UNCHANGED <<storedVars, row, view, command, refreshes, history>>

(* After 120 s: an error is shown, follow-ups count as done, and the late  *)
(* answer will be dropped.                                                 *)
TimeOut ==
  /\ flight.at \in {"load", "fetch"}
  /\ flight' = [NoFlight EXCEPT !.at = "draining"]
  /\ view' = [view EXCEPT !.error = TRUE]
  /\ UNCHANGED <<storedVars, row, command, refreshes, history>>

Drained ==
  /\ flight.at = "draining"
  /\ flight' = NoFlight
  /\ UNCHANGED <<storedVars, row, view, command, refreshes, history>>

-----------------------------------------------------------------------------
(* cache_identity() at the launch and load_snapshot_for_identity().        *)
LoadedAtLaunch(found) ==
  IF found # NoRow /\ found.key = IF marker THEN NoKey ELSE Unconfigured
    THEN [of |-> found.of, live |-> FALSE, error |-> FALSE]
    ELSE EmptyView

(* The program ends or crashes at any point and is launched again.         *)
Restart ==
  /\ launches < MaxLaunches
  /\ launches' = launches + 1
  /\ configured' = marker
  /\ view' = LoadedAtLaunch(row)
  /\ command' = NoCommand /\ refreshes' = 0 /\ flight' = NoFlight
  /\ UNCHANGED <<keychain, saves, marker, enabled, row, broken, clean>>

Command ==
  \/ \E kind \in {"save", "clear", "delete"} : StartCommand(kind)
  \/ ChangeKeychain \/ SetConfigured \/ Reconcile \/ DeleteSnapshot \/ ResetView
  \/ CommandFails

Flight ==
  \/ RefreshAfterCommand \/ \E forced \in BOOLEAN : Refresh(forced)
  \/ LoadConfig \/ FetchFails \/ Fetched \/ CacheSnapshot \/ ShowResult
  \/ TimeOut \/ Drained

Next == Command \/ Flight \/ Restart

Spec == Init /\ [][Next]_vars

(* The same while no command ends half way.                                *)
UndisturbedSpec == Init /\ [][Next /\ ~broken']_vars

-----------------------------------------------------------------------------
(* When no command and no refresh is under way, live data of another       *)
(* connection than the stored one is shown under an error message only:    *)
(* the refresh that follows a save or a clear cannot be satisfied by a     *)
(* call that read the connection before (refresh() of service.rs).  Not of *)
(* a deleted slot, nor after a command that ended half way.                *)
Quiet == command = NoCommand /\ refreshes = 0 /\ flight.at \in {"idle", "draining"}
OldDataOnlyUnderError ==
  Quiet /\ enabled /\ ~broken /\ view.live => view.of = keychain \/ view.error

(* A slot cleared or deleted while no answer was on its way stays empty,   *)
(* on the screen and on disk, until a connection is saved, whatever is     *)
(* refreshed and however often the program starts (clear_provider_data()   *)
(* runs after the keychain changed).                                       *)
ClearedStaysEmpty ==
  clean => row = NoRow /\ (At("view") \/ view.of = 0)

(* What the two rest on: a command that is past the keychain of a slot it  *)
(* empties has emptied it; a worker asks the network for a connection it   *)
(* has; one that drains left an error or nothing; an attempt under way is  *)
(* current or will be followed by one that is.                             *)
Unchanged == command = NoCommand \/ At("keychain")

CommandsProgress ==
  /\ command.kind \in {"clear", "delete"} /\ ~At("keychain") => keychain = 0
  /\ command.kind = "delete" /\ command.at \in {"row", "view"} => ~enabled

WorkerHoldsConnection == flight.at \in {"fetch", "cache"} => flight.of # 0

CleanSlot ==
  clean => /\ keychain = 0 /\ flight.of = 0
           /\ command.kind = "save" => At("keychain")

DrainingShowsNothing == flight.at = "draining" => view.error \/ view = EmptyView

Current ==
  \/ flight.at = "load" \/ flight.of = keychain
  \/ flight.at = "show" /\ flight.of = 0

AnswersAreAwaited ==
  Unchanged /\ refreshes = 0 /\ enabled /\ ~broken =>
    \/ Current \/ flight.followUp
    \/ flight.at \in {"idle", "draining"}

OldDataWhileIdle ==
  Unchanged /\ refreshes = 0 /\ enabled /\ ~broken /\ flight.at = "idle" /\ view.live =>
    view.of = keychain \/ view.error

ConnectionInv ==
  /\ TypeOK /\ ClearedStaysEmpty
  /\ CommandsProgress /\ WorkerHoldsConnection /\ CleanSlot /\ DrainingShowsNothing
  /\ AnswersAreAwaited /\ OldDataWhileIdle

(* A launch shows nothing of a slot whose connection a command has cleared *)
(* (unconfigured_slots_never_load_old_quota_snapshots of sub2api/mod.rs).  *)
(* The code fails it: an answer that arrives after the flag was cleared is *)
(* saved under the very identity an unconfigured slot loads.               *)
UnconfiguredStartsEmpty ==
  [][launches' # launches /\ keychain = 0 /\ ~marker /\ command = NoCommand
       => view'.of = 0]_vars
=============================================================================
