-------------------------- MODULE SettingsEffects --------------------------
(***************************************************************************)
(* What a save of the settings does to the desktop before it is stored     *)
(* (save_app_settings_inner in commands/settings.rs): the global shortcut, *)
(* the autostart entry and the window mode, in this order.  A step that    *)
(* fails, or a save that the settings refuse, takes the earlier steps      *)
(* back; a step of that rollback may fail too and is then given up.        *)
(*                                                                         *)
(* Saves hold the lock of mutating commands from end to end.  The program  *)
(* may end between two steps: the autostart entry survives it, the         *)
(* registered shortcut and the mode are set up again at the next launch.   *)
(***************************************************************************)
EXTENDS Integers, FiniteSets

CONSTANTS Shortcuts,   \* global shortcuts one can choose
          NoShortcut,
          MaxSaves     \* bound: saves and launches

VARIABLES
  registered,   \* shortcuts registered with the desktop
  autostart,    \* the entry that launches the program at login exists
  applied,      \* the mode the window is in
  settings,     \* the stored settings: shortcut, login, mode
  save,         \* the save under way
  spoilt,       \* parts of the desktop whose rollback or set-up failed (history)
  saves         \* saves and launches so far

effectVars == <<registered, autostart, applied, settings, save, spoilt, saves>>

WindowModes == {"popup", "floating"}
Settings == [shortcut : Shortcuts \union {NoShortcut}, login : BOOLEAN, mode : WindowModes]
Parts == {"shortcut", "login", "mode"}
NoSave == [at |-> "none"]

EffectsTypeOK ==
  /\ registered \subseteq Shortcuts
  /\ autostart \in BOOLEAN /\ applied \in WindowModes
  /\ settings \in Settings /\ spoilt \subseteq Parts
  /\ saves \in 0 .. MaxSaves
  /\ save = NoSave \/ /\ save.at \in {"shortcut", "login", "mode", "store",
                                      "undoLogin", "undoShortcut", "undoMode"}
                      /\ save.next \in Settings /\ save.late \in BOOLEAN

Wanted(shortcut) == {shortcut} \ {NoShortcut}

EffectsInit ==
  /\ settings \in [shortcut : {NoShortcut}, login : {FALSE}, mode : {"popup"}]
  /\ registered = {} /\ autostart = FALSE /\ applied = "popup"
  /\ save = NoSave /\ spoilt = {} /\ saves = 0

-----------------------------------------------------------------------------

At(step) == save.at = step
Goto(step) == save' = [save EXCEPT !.at = step]

StartSave ==
  /\ save = NoSave /\ saves < MaxSaves
  /\ saves' = saves + 1
  /\ \E next \in Settings : save' = [at |-> "shortcut", next |-> next, late |-> FALSE]
  /\ UNCHANGED <<registered, autostart, applied, settings, spoilt>>

(* apply_shortcut_change: the old one goes, which may fail unnoticed; the  *)
(* new one is registered, or the old one is again if that works.           *)
Left(old) == {registered \ {old}, registered}

Changed(old, new) ==
  IF old = new THEN {[set |-> registered, clean |-> TRUE]}
  ELSE {[set |-> left \union Wanted(new), clean |-> old \notin left] : left \in Left(old)}

Refused(old, new) ==
  IF old = new \/ new = NoShortcut THEN {}
  ELSE {[set |-> left \union (IF again THEN Wanted(old) ELSE {}), clean |-> again] :
          left \in Left(old), again \in BOOLEAN \ (IF old = NoShortcut THEN {FALSE} ELSE {})}

Register(outcome, dirty) ==
  /\ registered' = outcome.set
  /\ spoilt' = IF outcome.clean /\ ~dirty THEN spoilt ELSE spoilt \union {"shortcut"}

ApplyShortcut ==
  /\ At("shortcut")
  /\ \/ /\ \E o \in Changed(settings.shortcut, save.next.shortcut) : Register(o, FALSE)
        /\ Goto("login")
     \/ /\ \E o \in Refused(settings.shortcut, save.next.shortcut) : Register(o, FALSE)
        /\ save' = NoSave
  /\ UNCHANGED <<autostart, applied, settings, saves>>

(* set_autostart, and the first rollback.                                  *)
ApplyLogin ==
  /\ At("login")
  /\ \/ autostart' = save.next.login /\ Goto("mode") /\ save.next.login # settings.login
     \/ autostart' = autostart /\ Goto("mode") /\ save.next.login = settings.login
     \/ autostart' = autostart /\ Goto("undoShortcut") /\ save.next.login # settings.login
  /\ UNCHANGED <<registered, applied, settings, spoilt, saves>>

(* apply_window_mode leaves the mode of before when it fails.              *)
ApplyMode ==
  /\ At("mode")
  /\ \/ applied' = save.next.mode /\ Goto("store") /\ save.next.mode # settings.mode
     \/ applied' = applied /\ Goto("store") /\ save.next.mode = settings.mode
     \/ applied' = applied /\ Goto("undoLogin") /\ save.next.mode # settings.mode
  /\ UNCHANGED <<registered, autostart, settings, spoilt, saves>>

(* update_from_view: stored, or refused because the revision is old or the *)
(* database fails.                                                         *)
Store ==
  /\ At("store")
  /\ \/ settings' = save.next /\ save' = NoSave
     \/ settings' = settings /\ save' = [save EXCEPT !.at = "undoLogin", !.late = TRUE]
  /\ UNCHANGED <<registered, autostart, applied, spoilt, saves>>

(* Variant: the entry of the refused save is left behind.                  *)
ForgetLogin ==
  /\ At("undoLogin") /\ Goto("undoShortcut")
  /\ UNCHANGED <<registered, autostart, applied, settings, spoilt, saves>>

UndoLogin ==
  /\ At("undoLogin") /\ Goto("undoShortcut")
  /\ \/ /\ autostart' = IF save.next.login # settings.login THEN settings.login ELSE autostart
        /\ spoilt' = spoilt
     \/ /\ save.next.login # settings.login
        /\ autostart' = autostart /\ spoilt' = spoilt \union {"login"}
  /\ UNCHANGED <<registered, applied, settings, saves>>

UndoShortcut ==
  /\ At("undoShortcut")
  /\ \/ \E o \in Changed(save.next.shortcut, settings.shortcut) : Register(o, FALSE)
     \/ \E o \in Refused(save.next.shortcut, settings.shortcut) : Register(o, TRUE)
  /\ IF save.late /\ save.next.mode # settings.mode THEN Goto("undoMode") ELSE save' = NoSave
  /\ UNCHANGED <<autostart, applied, settings, saves>>

UndoMode ==
  /\ At("undoMode") /\ save' = NoSave
  /\ \/ applied' = settings.mode /\ spoilt' = spoilt
     \/ applied' = applied /\ spoilt' = spoilt \union {"mode"}
  /\ UNCHANGED <<registered, autostart, settings, saves>>

(* The program ends, possibly in the middle of a save, and starts again:   *)
(* the shortcut is registered if it can be, the entry stays as it was      *)
(* found, the window takes the mode.                                       *)
Relaunch ==
  /\ saves < MaxSaves /\ saves' = saves + 1
  /\ LET kept == (spoilt \ {"shortcut", "mode"}) \union
                 {part \in {"login"} : save # NoSave /\ save.next.login # settings.login}
     IN \/ registered' = Wanted(settings.shortcut) /\ spoilt' = kept
        \/ /\ settings.shortcut # NoShortcut
           /\ registered' = {} /\ spoilt' = kept \union {"shortcut"}
  /\ applied' = settings.mode /\ save' = NoSave
  /\ UNCHANGED <<autostart, settings>>

EffectsNext ==
  \/ StartSave \/ ApplyShortcut \/ ApplyLogin \/ ApplyMode \/ Store
  \/ UndoLogin \/ UndoShortcut \/ UndoMode \/ Relaunch

EffectsSpec == EffectsInit /\ [][EffectsNext]_effectVars

-----------------------------------------------------------------------------
(* Between saves the desktop is as the settings say, except for the parts  *)
(* whose rollback or set-up itself failed: a refused or half-failed save   *)
(* leaves no shortcut, no autostart entry and no window mode behind.       *)
DesktopFollowsSettings ==
  save = NoSave =>
    /\ "shortcut" \in spoilt \/ registered = Wanted(settings.shortcut)
    /\ "login" \in spoilt \/ autostart = settings.login
    /\ "mode" \in spoilt \/ applied = settings.mode
=============================================================================
