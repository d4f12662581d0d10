--------------------------- MODULE DesktopWindow ---------------------------
(***************************************************************************)
(* The panel as a popup of the tray or as a floating window (window.rs,    *)
(* popup.rs, desktop_integration.rs, the tray in lib.rs).  A popup that    *)
(* loses the focus is dismissed 100 ms later, unless somebody asked for    *)
(* it in the meantime (PopupDismissGuard).                                 *)
(*                                                                         *)
(* The main thread handles events, clicks and dismissals one at a time.    *)
(* A change of the window mode runs in a command on another thread: its    *)
(* calls to the window interleave with the events, and it is taken back    *)
(* when the settings cannot be saved.  The loss of the tray makes the      *)
(* window floating whatever the settings say.                              *)
(***************************************************************************)
EXTENDS Integers, Sequences, SequencesExt

CONSTANTS MaxGuard,       \* bound: generations of the guard
          MaxDismissals   \* bound: dismissals that sleep at a time

VARIABLES
  shown, focused,   \* the window is visible and not minimized; it has the focus
  floating, tray,   \* DesktopIntegration
  guard,            \* generation of PopupDismissGuard
  dismissals,       \* the dismissals that sleep: their token, and asks (history)
  losing,           \* the main thread has seen Focused(false) of a popup
  mode,             \* window_mode of the settings
  job,              \* the command that changes the mode
  asks,             \* requests to show the window so far (history)
  crossed           \* the tray went away during a change of the mode (history)

windowVars == <<shown, focused, floating, tray, guard, dismissals, losing,
                mode, job, asks, crossed>>

Modes == {"popup", "floating"}
NoJob == [at |-> "none", to |-> "popup", was |-> FALSE, undo |-> FALSE]

WindowTypeOK ==
  /\ {shown, focused, floating, tray, losing, crossed} \subseteq BOOLEAN
  /\ guard \in 0 .. MaxGuard /\ asks \in 0 .. MaxGuard
  /\ dismissals \in Seq([token : 0 .. MaxGuard, asks : 0 .. MaxGuard])
  /\ mode \in Modes
  /\ job \in [at : {"none", "chrome", "set", "show", "persist"}, to : Modes,
              was : BOOLEAN, undo : BOOLEAN]

WindowInit ==
  /\ tray = TRUE /\ mode \in Modes /\ floating = (mode = "floating")
  /\ shown = floating /\ focused = shown
  /\ guard = 0 /\ dismissals = <<>> /\ losing = FALSE
  /\ job = NoJob /\ asks = 0 /\ crossed = FALSE

-----------------------------------------------------------------------------
(* The main thread.                                                        *)

CancelPending == guard < MaxGuard /\ guard' = guard + 1

(* The window is presented; whether it gets the focus is up to the desktop *)
(* (a menu session of macOS presents it without).                          *)
Present == shown' = TRUE /\ focused' \in BOOLEAN

(* "open", open_screen, a click on a notification or a second launch.      *)
OpenWindow ==
  /\ ~losing
  /\ CancelPending /\ Present /\ asks' = asks + 1
  /\ UNCHANGED <<floating, tray, dismissals, losing, mode, job, crossed>>

(* Variant: a click that finds the window hidden leaves the dismissals.    *)
ToggleWithoutCancel ==
  /\ ~losing /\ guard < MaxGuard
  /\ \/ /\ shown
        /\ shown' = FALSE /\ focused' = FALSE /\ asks' = asks /\ guard' = guard + 1
     \/ /\ ~shown
        /\ Present /\ asks' = asks + 1 /\ guard' = guard
  /\ UNCHANGED <<floating, tray, dismissals, losing, mode, job, crossed>>

(* A click on the tray icon, or the global shortcut.                       *)
Toggle ==
  /\ ~losing
  /\ CancelPending
  /\ \/ /\ shown
        /\ shown' = FALSE /\ focused' = FALSE /\ asks' = asks
     \/ /\ ~shown
        /\ Present /\ asks' = asks + 1
  /\ UNCHANGED <<floating, tray, dismissals, losing, mode, job, crossed>>

(* CloseRequested: the program ends when nothing else can bring the window *)
(* back, which is no step of this module.                                  *)
Close ==
  /\ ~losing /\ shown /\ ~(floating /\ ~tray)
  /\ CancelPending /\ shown' = FALSE /\ focused' = FALSE
  /\ UNCHANGED <<floating, tray, dismissals, losing, mode, job, asks, crossed>>

(* dismiss_main_window of the page.                                        *)
DismissByPage ==
  /\ ~losing /\ shown /\ ~(floating /\ ~tray)
  /\ shown' = FALSE /\ focused' = FALSE
  /\ UNCHANGED <<floating, tray, guard, dismissals, losing, mode, job, asks, crossed>>

(* Focused(false): a popup is about to be dismissed ...                    *)
LoseFocus ==
  /\ ~losing /\ shown /\ focused /\ focused' = FALSE
  /\ Len(dismissals) < MaxDismissals
  /\ losing' = ~floating
  /\ UNCHANGED <<shown, floating, tray, guard, dismissals, mode, job, asks, crossed>>

(* ... with the token of this moment.                                      *)
ScheduleDismissal ==
  /\ losing
  /\ losing' = FALSE
  /\ dismissals' = Append(dismissals, [token |-> guard, asks |-> asks])
  /\ UNCHANGED <<shown, focused, floating, tray, guard, mode, job, asks, crossed>>

GainFocus ==
  /\ ~losing /\ shown /\ ~focused /\ focused' = TRUE
  /\ UNCHANGED <<shown, floating, tray, guard, dismissals, losing, mode, job, asks, crossed>>

(* The threads that slept wake up in any order.                            *)
Dismissal(i) ==
  /\ ~losing
  /\ dismissals' = RemoveAt(dismissals, i)
  /\ shown' = (shown /\ (focused \/ dismissals[i].token # guard))
  /\ UNCHANGED <<focused, floating, tray, guard, losing, mode, job, asks, crossed>>

Dismiss == \E i \in DOMAIN dismissals : Dismissal(i)

(* The tray disappears: apply_linux_tray_fallback.                         *)
LoseTray ==
  /\ ~losing /\ tray
  /\ tray' = FALSE /\ floating' = TRUE
  /\ CancelPending /\ Present /\ asks' = asks + 1
  /\ crossed' = (job.at \in {"set", "show"})
  /\ UNCHANGED <<dismissals, losing, mode, job>>

-----------------------------------------------------------------------------
(* A change of the mode, on the thread of the command.                     *)

Floats(to) == ~tray \/ to = "floating"

ChangeMode ==
  /\ job = NoJob
  /\ \E to \in Modes \ {mode} :
       job' = [at |-> "chrome", to |-> to, was |-> floating, undo |-> FALSE]
  /\ UNCHANGED <<shown, focused, floating, tray, guard, dismissals, losing, mode, asks, crossed>>

(* How a failed apply_window_mode goes on: the command gives up, and so    *)
(* does the rollback.                                                      *)
ApplyChrome ==
  /\ job.at = "chrome" /\ CancelPending /\ asks' = asks + 1
  /\ job' \in {[job EXCEPT !.at = "set", !.was = floating], NoJob}
  /\ UNCHANGED <<shown, focused, floating, tray, dismissals, losing, mode, crossed>>

(* Variant: the mode decides alone, whether there is a tray or not.        *)
SetFloatingByMode ==
  /\ job.at = "set" /\ CancelPending
  /\ floating' = (job.to = "floating")
  /\ job' = [job EXCEPT !.at = "show"]
  /\ UNCHANGED <<shown, focused, tray, dismissals, losing, mode, asks, crossed>>

SetFloating ==
  /\ job.at = "set" /\ CancelPending
  /\ floating' = Floats(job.to)
  /\ job' = [job EXCEPT !.at = "show"]
  /\ UNCHANGED <<shown, focused, tray, dismissals, losing, mode, asks, crossed>>

ShowAfterChange ==
  /\ job.at = "show" /\ Present
  /\ job' = IF job.undo THEN NoJob ELSE [job EXCEPT !.at = "persist"]
  /\ UNCHANGED <<floating, tray, guard, dismissals, losing, mode, asks, crossed>>

ShowFails ==
  /\ job.at = "show"
  /\ floating' = job.was /\ job' = NoJob
  /\ UNCHANGED <<shown, focused, tray, guard, dismissals, losing, mode, asks, crossed>>

(* save_app_settings_inner stores the settings, or applies the mode of     *)
(* before once more.                                                       *)
PersistMode ==
  /\ job.at = "persist"
  /\ \/ mode' = job.to /\ job' = NoJob
     \/ mode' = mode /\ job' = [job EXCEPT !.at = "chrome", !.to = mode, !.undo = TRUE]
  /\ UNCHANGED <<shown, focused, floating, tray, guard, dismissals, losing, asks, crossed>>

ModeJob ==
  \/ ChangeMode \/ ApplyChrome \/ SetFloating \/ ShowAfterChange \/ ShowFails
  \/ PersistMode

WindowNext ==
  \/ OpenWindow \/ Toggle \/ Close \/ DismissByPage
  \/ LoseFocus \/ ScheduleDismissal \/ GainFocus \/ Dismiss \/ LoseTray
  \/ ModeJob

WindowSpec == WindowInit /\ [][WindowNext]_windowVars

-----------------------------------------------------------------------------
(* A dismissal never undoes a request that came after the loss of focus it *)
(* stems from: the click on the tray that took the focus away wins.        *)
DismissalSpares ==
  [][ \A i \in DOMAIN dismissals :
        Dismissal(i) /\ shown /\ ~shown' => dismissals[i].asks = asks ]_windowVars

(* Without a tray the window is never hidden as a popup would be: it stays *)
(* floating through changes of the mode and their rollbacks, unless the    *)
(* tray went away between the calls of one change.                         *)
WithoutTrayFloating == ~tray /\ ~crossed => floating
=============================================================================
