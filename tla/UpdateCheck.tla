----------------------------- MODULE UpdateCheck -----------------------------
(***************************************************************************)
(* Looking for updates and installing them (updates.rs, App.svelte,        *)
(* updateController.svelte.ts, updateSchedule.ts).  The page has one timer, *)
(* set anew whenever its settings are replaced; the time of the last check *)
(* is one of the settings, so it outlives the program if it was saved.     *)
(*                                                                         *)
(* A tick is a part of the interval between two checks; the delay after a  *)
(* launch is none.  Timers fire in time.  The build can install updates.   *)
(***************************************************************************)
EXTENDS Integers

CONSTANTS Interval,   \* UPDATE_CHECK_INTERVAL_MS
          MaxTime     \* bound: what the clock may show

VARIABLES
  clock,
  saved,      \* last_update_check_at on disk
  page,       \* UpdateController, and of the settings what matters here
  saving,     \* the page's save of the time is on its way
  operation,  \* what holds UpdateCoordinator.operation
  newer,      \* there is a newer release
  since,      \* ticks since an answered check whose time was not lost (history)
  tried,      \* what the clock showed when something was tried last (history)
  early       \* an automatic check came too early (history)

updateVars == <<clock, saved, page, saving, operation, newer, since, tried, early>>

Never == -1
Off == -1
Long == Interval + 1   \* where since stops counting

(* automaticUpdateDelay(); a clock that was set back is taken for the time *)
(* of the check.                                                           *)
Delay(checkedAt) ==
  IF checkedAt = Never \/ clock - checkedAt >= Interval THEN 0
  ELSE IF clock < checkedAt THEN Interval ELSE Interval - (clock - checkedAt)

(* The effect of the page on its settings.                                 *)
Replaced(p, auto, checkedAt) ==
  [p EXCEPT !.auto = auto, !.checkedAt = checkedAt,
            !.timer = IF auto THEN Delay(checkedAt) ELSE Off]

Loaded(auto, checkedAt) ==
  Replaced([auto |-> auto, checkedAt |-> checkedAt, timer |-> Off, checking |-> "no",
            installing |-> FALSE, offered |-> FALSE, error |-> "none"], auto, checkedAt)

UpdateInit ==
  /\ clock = 0 /\ saved = Never /\ page = Loaded(TRUE, Never) /\ saving = FALSE
  /\ operation = "none" /\ newer \in BOOLEAN
  /\ since = Long /\ tried = 0 /\ early = FALSE

-----------------------------------------------------------------------------
(* The clock, the releases, and the settings.                              *)
Tick ==
  /\ clock < MaxTime /\ page.timer # 0
  /\ clock' = clock + 1
  /\ page' = [page EXCEPT !.timer = IF @ = Off THEN Off ELSE @ - 1]
  /\ since' = IF since = Long THEN Long ELSE since + 1
  /\ UNCHANGED <<saved, saving, operation, newer, tried, early>>

SetBack ==
  /\ \E t \in 0 .. clock - 1 : clock' = t
  /\ UNCHANGED <<saved, page, saving, operation, newer, since, tried, early>>

Release ==
  /\ ~newer /\ newer' = TRUE
  /\ UNCHANGED <<clock, saved, page, saving, operation, since, tried, early>>

(* Any change of the settings, of the page or of others.                   *)
ChangeSettings ==
  /\ \E auto \in BOOLEAN :
       /\ page' = Replaced(page, auto, page.checkedAt)
       /\ tried' = IF auto /\ ~page.auto THEN clock ELSE tried
  /\ UNCHANGED <<clock, saved, saving, operation, newer, since, early>>

ResetSettings ==
  /\ ~saving
  /\ saved' = Never /\ page' = Replaced(page, TRUE, Never)
  /\ since' = Long /\ tried' = IF page.auto THEN tried ELSE clock
  /\ UNCHANGED <<clock, saving, operation, newer, early>>

(* The time of the check is saved, or refused and read again.              *)
SaveEnds ==
  /\ saving /\ saving' = FALSE
  /\ \/ saved' = page.checkedAt /\ page' = Replaced(page, page.auto, page.checkedAt)
        /\ UNCHANGED since
     \/ page' = Replaced(page, page.auto, saved) /\ since' = Long /\ UNCHANGED saved
  /\ UNCHANGED <<clock, operation, newer, tried, early>>

-----------------------------------------------------------------------------
(* Checks.                                                                 *)
Busy == page.checking # "no" \/ page.installing

(* The command is refused while another one runs; only the user is told.   *)
Asking(p, kind) ==
  IF operation = "none"
    THEN [p EXCEPT !.checking = kind, !.error = IF kind = "manual" THEN "none" ELSE @]
    ELSE [p EXCEPT !.error = IF kind = "manual" THEN "busy" ELSE @]

(* Variant: the timer fires once.                                          *)
FireOnce ==
  /\ page.timer = 0
  /\ LET next == [page EXCEPT !.timer = Off]
     IN page' = IF Busy THEN next ELSE Asking(next, "automatic")
  /\ operation' = IF ~Busy /\ operation = "none" THEN "check" ELSE operation
  /\ tried' = IF Busy THEN tried ELSE clock
  /\ early' = (early \/ (~Busy /\ since < Interval))
  /\ UNCHANGED <<clock, saved, saving, newer, since>>

(* The first time it is a timeout that starts the interval.                *)
Fire ==
  /\ page.timer = 0
  /\ LET next == [page EXCEPT !.timer = Interval]
     IN page' = IF Busy THEN next ELSE Asking(next, "automatic")
  /\ operation' = IF ~Busy /\ operation = "none" THEN "check" ELSE operation
  /\ tried' = IF Busy THEN tried ELSE clock
  /\ early' = (early \/ (~Busy /\ since < Interval))
  /\ UNCHANGED <<clock, saved, saving, newer, since>>

CheckNow ==
  /\ ~Busy
  /\ page' = Asking(page, "manual")
  /\ operation' = IF operation = "none" THEN "check" ELSE operation
  /\ tried' = clock
  /\ UNCHANGED <<clock, saved, saving, newer, since, early>>

(* Variant: the time is noted of checks of the user only.                  *)
AnsweredUnnoted ==
  /\ operation = "check" /\ operation' = "none"
  /\ page' = [Replaced(page, page.auto, IF page.checking = "manual" THEN clock ELSE page.checkedAt)
                EXCEPT !.checking = "no", !.offered = newer]
  /\ saving' = TRUE /\ since' = 0 /\ tried' = clock
  /\ UNCHANGED <<clock, saved, newer, early>>

Answered ==
  /\ operation = "check" /\ operation' = "none"
  /\ page' = [Replaced(page, page.auto, clock) EXCEPT !.checking = "no", !.offered = newer]
  /\ saving' = TRUE /\ since' = 0 /\ tried' = clock
  /\ UNCHANGED <<clock, saved, newer, early>>

CheckFails ==
  /\ operation = "check" /\ operation' = "none"
  /\ page' = [page EXCEPT !.checking = "no",
                          !.error = IF page.checking = "manual" THEN "check" ELSE @]
  /\ tried' = clock
  /\ UNCHANGED <<clock, saved, saving, newer, since, early>>

-----------------------------------------------------------------------------
(* Installing: install_update().                                           *)

(* Variant: the button works while a check runs.                           *)
InstallAnyway ==
  /\ page.offered /\ ~page.installing
  /\ page' = IF operation = "none" THEN [page EXCEPT !.installing = TRUE, !.error = "none"]
             ELSE [page EXCEPT !.error = "busy"]
  /\ operation' = IF operation = "none" THEN "look" ELSE operation
  /\ tried' = clock
  /\ UNCHANGED <<clock, saved, saving, newer, since, early>>

Install ==
  /\ page.offered /\ ~Busy
  /\ page' = IF operation = "none" THEN [page EXCEPT !.installing = TRUE, !.error = "none"]
             ELSE [page EXCEPT !.error = "busy"]
  /\ operation' = IF operation = "none" THEN "look" ELSE operation
  /\ tried' = clock
  /\ UNCHANGED <<clock, saved, saving, newer, since, early>>

InstallFails(error) ==
  /\ operation' = "none"
  /\ page' = [page EXCEPT !.installing = FALSE, !.error = error]
  /\ tried' = clock
  /\ UNCHANGED <<clock, saved, saving, newer, since, early>>

Advance(step) ==
  /\ operation' = step
  /\ UNCHANGED <<clock, saved, page, saving, newer, since, tried, early>>

LookAgain ==
  /\ operation = "look"
  /\ \/ newer /\ Advance("download")
     \/ ~newer /\ InstallFails("up to date")
     \/ InstallFails("network")

(* The program begins anew: a time that was not saved is lost.             *)
Restart ==
  /\ page' = Loaded(page.auto, saved)
  /\ saving' = FALSE /\ operation' = "none"
  /\ since' = IF saving THEN Long ELSE since
  /\ tried' = clock
  /\ UNCHANGED <<clock, saved, early>>

(* download_and_install_once(): a failure that may pass is met once more.  *)
Download ==
  /\ operation \in {"download", "again"}
  /\ \/ Restart /\ newer' = FALSE
     \/ operation = "download" /\ Advance("again")
     \/ InstallFails("install")

Quit == Restart /\ newer' = newer

UpdateNext ==
  \/ Tick \/ SetBack \/ Release \/ ChangeSettings \/ ResetSettings \/ SaveEnds
  \/ Fire \/ CheckNow \/ Answered \/ CheckFails
  \/ Install \/ LookAgain \/ Download \/ Quit

UpdateSpec == UpdateInit /\ [][UpdateNext]_updateVars

-----------------------------------------------------------------------------
(* No automatic check comes within the interval after one that was         *)
(* answered and noted, through changes of the settings, launches and a     *)
(* clock set back; none stays out for longer than the interval while they  *)
(* are on, as the clock shows it; and what runs in the process is what the *)
(* page shows, so nothing is refused because something else runs.          *)
ChecksWhenDue ==
  /\ ~early
  /\ page.auto /\ ~Busy /\ page.timer # 0 =>
       \E t \in {tried, page.checkedAt} : clock - t <= Interval
  /\ page.error # "busy"
  /\ page.checking # "no" <=> operation = "check"
  /\ page.installing <=> operation \in {"look", "download", "again"}
=============================================================================
