--------------------------- MODULE Desktop_proofs ---------------------------
(***************************************************************************)
(* Proofs about the desktop: the dismissals of the panel and its tray      *)
(* (DesktopWindow), what a save leaves behind (SettingsEffects), the       *)
(* checks for updates (UpdateCheck), the notices (PaceNotices), the layout *)
(* through releases (Layouts) and the height of the panel (PanelHeight),   *)
(* for any shortcuts, heights, releases and any bounds.                    *)
(*                                                                         *)
(* A dismissal that sleeps has a token no newer than the guard, and with   *)
(* the token of the guard it has seen every request (TokensAreOld).  A     *)
(* save has at each of its steps brought some parts of the desktop to the  *)
(* new settings and left the others with the stored ones; the three        *)
(* conjuncts of FollowsSteps say which.                                    *)
(*                                                                         *)
(* The layout is always the release's (LayoutFits), and a choice is always *)
(* about something that the program knows and no probe may turn on         *)
(* (SwitchesOutlast); a star only about a metric that may have one         *)
(* (StarsOutlast).                                                         *)
(*                                                                         *)
(* The heights on their way to the worker are ordered by generation        *)
(* (InOrder), so the last of them that was sent decides: if it is still    *)
(* valid it is the height chosen last, and if it is not, no other is, and  *)
(* the disk has the last choice already (NewestDecides).                   *)
(***************************************************************************)
EXTENDS MCDesktop, SequenceTheorems, FiniteSetTheorems, WellFoundedInduction, TLAPS

-----------------------------------------------------------------------------
(* The panel                                                               *)

Sleepers == [token : Int, asks : Int]

TokensAreOld ==
  /\ guard \in Int /\ asks \in Int /\ dismissals \in Seq(Sleepers)
  /\ \A i \in 1 .. Len(dismissals) :
       /\ dismissals[i].token <= guard
       /\ dismissals[i].token = guard => dismissals[i].asks = asks

LEMMA RemovalKeepsElements ==
  ASSUME NEW S, NEW s \in Seq(S), NEW i \in 1 .. Len(s)
  PROVE  /\ RemoveAt(s, i) \in Seq(S)
         /\ \A j \in 1 .. Len(RemoveAt(s, i)) : \E k \in 1 .. Len(s) : RemoveAt(s, i)[j] = s[k]
<1>. DEFINE left == SubSeq(s, 1, i - 1)
            right == SubSeq(s, i + 1, Len(s))
<1>1. Len(s) \in Nat /\ \A k \in 1 .. Len(s) : s[k] \in S
  BY LenProperties, ElementOfSeq
<1>2. left \in Seq(S) /\ Len(left) = i - 1 /\ \A j \in 1 .. i - 1 : left[j] = s[j]
  <2>1. 1 \in Int /\ i - 1 \in Int /\ \A k \in 1 .. i - 1 : s[k] \in S
    BY <1>1
  <2>2. /\ left \in Seq(S) /\ Len(left) = IF 1 <= i - 1 THEN (i - 1) - 1 + 1 ELSE 0
        /\ \A j \in 1 .. (i - 1) - 1 + 1 : left[j] = s[1 + j - 1]
    BY <2>1, SubSeqProperties
  <2>. HIDE DEF left
  <2>. QED  BY <1>1, <2>2
<1>3. right \in Seq(S) /\ Len(right) = Len(s) - i
      /\ \A j \in 1 .. Len(s) - i : right[j] = s[i + j]
  <2>1. i + 1 \in Int /\ Len(s) \in Int /\ \A k \in i + 1 .. Len(s) : s[k] \in S
    BY <1>1
  <2>2. /\ right \in Seq(S)
        /\ Len(right) = IF i + 1 <= Len(s) THEN Len(s) - (i + 1) + 1 ELSE 0
        /\ \A j \in 1 .. Len(s) - (i + 1) + 1 : right[j] = s[(i + 1) + j - 1]
    BY <2>1, SubSeqProperties
  <2>. HIDE DEF right
  <2>. QED  BY <1>1, <2>2
<1>4. RemoveAt(s, i) = left \o right
  BY DEF RemoveAt
<1>. HIDE DEF left, right
<1>5. /\ left \o right \in Seq(S) /\ Len(left \o right) = Len(left) + Len(right)
      /\ \A j \in 1 .. Len(left) + Len(right) :
           (left \o right)[j] = IF j <= Len(left) THEN left[j] ELSE right[j - Len(left)]
  BY <1>2, <1>3, ConcatProperties
<1>6. ASSUME NEW j \in 1 .. Len(left \o right)
      PROVE  \E k \in 1 .. Len(s) : (left \o right)[j] = s[k]
  <2>1. CASE j <= i - 1
    <3>1. j \in 1 .. Len(s) /\ (left \o right)[j] = s[j]
      BY <1>1, <1>2, <1>3, <1>5, <1>6, <2>1
    <3>. QED  BY <3>1
  <2>2. CASE ~(j <= i - 1)
    <3>1. j + 1 \in 1 .. Len(s) /\ j - (i - 1) \in 1 .. Len(s) - i
      BY <1>1, <1>2, <1>3, <1>5, <1>6, <2>2
    <3>2. (left \o right)[j] = right[j - (i - 1)] /\ right[j - (i - 1)] = s[i + (j - (i - 1))]
      BY <1>1, <1>2, <1>3, <1>5, <1>6, <2>2, <3>1
    <3>3. i + (j - (i - 1)) = j + 1
      BY <1>1, <3>1
    <3>. QED  BY <3>1, <3>2, <3>3
  <2>. QED  BY <2>1, <2>2
<1>. QED  BY <1>4, <1>5, <1>6

(* A step that cancels the dismissals, whatever it asks for.               *)
LEMMA CancelsKeep ==
  ASSUME TokensAreOld, CancelPending, asks' \in {asks, asks + 1}, dismissals' = dismissals
  PROVE  TokensAreOld'
<1>1. \A i \in 1 .. Len(dismissals) : dismissals[i] \in Sleepers /\ dismissals[i].token \in Int
  <2>1. \A i \in 1 .. Len(dismissals) : dismissals[i] \in Sleepers
    BY ElementOfSeq DEF TokensAreOld
  <2>. QED  BY <2>1 DEF Sleepers
<1>. QED  BY <1>1 DEF TokensAreOld, CancelPending

LEMMA ScheduleKeeps ==
  ASSUME TokensAreOld, ScheduleDismissal
  PROVE  TokensAreOld'
<1>. DEFINE new == [token |-> guard, asks |-> asks]
<1>1. new \in Sleepers /\ new.token = guard /\ new.asks = asks
  BY DEF TokensAreOld, Sleepers
<1>2. dismissals' = Append(dismissals, new) /\ guard' = guard /\ asks' = asks
  BY DEF ScheduleDismissal
<1>3. dismissals \in Seq(Sleepers) /\ Len(dismissals) \in Nat
  BY LenProperties DEF TokensAreOld
<1>. HIDE DEF new
<1>4. /\ dismissals' \in Seq(Sleepers) /\ Len(dismissals') = Len(dismissals) + 1
      /\ \A i \in 1 .. Len(dismissals) : dismissals'[i] = dismissals[i]
      /\ dismissals'[Len(dismissals) + 1] = new
  BY <1>1, <1>2, <1>3, AppendProperties
<1>5. \A i \in 1 .. Len(dismissals') : i \in 1 .. Len(dismissals) \/ i = Len(dismissals) + 1
  BY <1>3, <1>4
<1>. QED  BY <1>1, <1>2, <1>4, <1>5 DEF TokensAreOld

LEMMA DismissKeeps ==
  ASSUME TokensAreOld, Dismiss
  PROVE  TokensAreOld'
<1>1. dismissals \in Seq(Sleepers) /\ DOMAIN dismissals = 1 .. Len(dismissals)
  BY LenProperties DEF TokensAreOld
<1>2. PICK i \in 1 .. Len(dismissals) : Dismissal(i)
  BY <1>1 DEF Dismiss
<1>3. dismissals' = RemoveAt(dismissals, i) /\ guard' = guard /\ asks' = asks
  BY <1>2 DEF Dismissal
<1>4. dismissals' \in Seq(Sleepers)
      /\ \A j \in 1 .. Len(dismissals') : \E k \in 1 .. Len(dismissals) : dismissals'[j] = dismissals[k]
  BY <1>1, <1>3, RemovalKeepsElements
<1>. QED  BY <1>3, <1>4 DEF TokensAreOld

LEMMA WindowStepKeeps ==
  ASSUME TokensAreOld, [WindowNext]_windowVars
  PROVE  TokensAreOld'
<1>1. CASE OpenWindow \/ Toggle \/ Close \/ LoseTray \/ ApplyChrome \/ SetFloating
  BY <1>1, CancelsKeep DEF OpenWindow, Toggle, Close, LoseTray, ApplyChrome, SetFloating
<1>2. CASE DismissByPage \/ LoseFocus \/ GainFocus \/ ChangeMode \/ ShowAfterChange \/ ShowFails
           \/ PersistMode \/ UNCHANGED windowVars
  <2>1. UNCHANGED <<guard, asks, dismissals>>
    BY <1>2 DEF DismissByPage, LoseFocus, GainFocus, ChangeMode, ShowAfterChange, ShowFails,
                PersistMode, windowVars
  <2>. QED  BY <2>1 DEF TokensAreOld
<1>. QED  BY <1>1, <1>2, ScheduleKeeps, DismissKeeps DEF WindowNext, ModeJob

(* A dismissal never undoes a request that came after the loss of focus    *)
(* it stems from (PopupDismissGuard in popup.rs, schedule_popup_dismiss in *)
(* window.rs).                                                             *)
THEOREM RequestsWin == WindowSpec => DismissalSpares
<1>1. WindowInit => TokensAreOld
  <2>1. <<>> \in Seq(Sleepers) /\ Len(<<>>) = 0
    BY EmptySeq
  <2>. QED  BY <2>1 DEF WindowInit, TokensAreOld
<1>2. TokensAreOld
        => [\A i \in DOMAIN dismissals :
              Dismissal(i) /\ shown /\ ~shown' => dismissals[i].asks = asks]_windowVars
  <2>. SUFFICES ASSUME TokensAreOld, NEW i \in DOMAIN dismissals, Dismissal(i), shown, ~shown'
                PROVE  dismissals[i].asks = asks
    OBVIOUS
  <2>1. dismissals[i].token = guard
    BY DEF Dismissal
  <2>2. i \in 1 .. Len(dismissals)
    BY LenProperties DEF TokensAreOld
  <2>. QED  BY <2>1, <2>2 DEF TokensAreOld
<1>. QED  BY <1>1, <1>2, WindowStepKeeps, PTL DEF WindowSpec, DismissalSpares

(* Between two calls of a change of the mode the window floats already.    *)
FloatsBetweenCalls ==
  ~tray /\ ~crossed => floating /\ (job.at \in {"set", "show"} => job.was)

Jobs == [at : {"none", "chrome", "set", "show", "persist"}, to : Modes,
         was : BOOLEAN, undo : BOOLEAN]

FloatsThroughout ==
  /\ floating \in BOOLEAN /\ mode \in Modes /\ job \in Jobs
  /\ FloatsBetweenCalls

LEMMA FloatingStepKeeps ==
  ASSUME FloatsThroughout, [WindowNext]_windowVars
  PROVE  FloatsThroughout'
<1>. USE DEF FloatsThroughout, FloatsBetweenCalls, Jobs, Modes
<1>1. CASE OpenWindow \/ Toggle \/ Close \/ DismissByPage \/ LoseFocus \/ ScheduleDismissal
           \/ GainFocus \/ Dismiss \/ UNCHANGED windowVars
  <2>1. UNCHANGED <<tray, crossed, floating, job, mode>>
    BY <1>1 DEF OpenWindow, Toggle, Close, DismissByPage, LoseFocus, ScheduleDismissal,
                GainFocus, Dismiss, Dismissal, windowVars
  <2>. QED  BY <2>1
<1>2. CASE LoseTray
  BY <1>2 DEF LoseTray
<1>3. CASE ChangeMode
  BY <1>3 DEF ChangeMode
<1>4. CASE ApplyChrome
  <2>1. CASE job' = NoJob
    BY <1>4, <2>1 DEF ApplyChrome, NoJob
  <2>2. CASE job' # NoJob
    <3>1. job' = [job EXCEPT !.at = "set", !.was = floating]
      BY <1>4, <2>2 DEF ApplyChrome
    <3>2. job' \in Jobs /\ job'.was = floating
      BY <3>1
    <3>. QED  BY <1>4, <3>2 DEF ApplyChrome
  <2>. QED  BY <2>1, <2>2
<1>5. CASE SetFloating
  <2>1. floating' = (~tray \/ job.to = "floating") /\ UNCHANGED <<tray, crossed, mode>>
    BY <1>5 DEF SetFloating, Floats
  <2>2. job.at = "set" /\ job' \in Jobs /\ job'.was = job.was
    BY <1>5 DEF SetFloating
  <2>3. floating' \in BOOLEAN /\ (~tray => floating')
    BY <2>1
  <2>. QED  BY <2>1, <2>2, <2>3
<1>6. CASE ShowAfterChange
  BY <1>6 DEF ShowAfterChange, NoJob
<1>7. CASE ShowFails
  BY <1>7 DEF ShowFails, NoJob
<1>8. CASE PersistMode
  <2>1. CASE job' = NoJob /\ mode' = job.to
    BY <1>8, <2>1 DEF PersistMode, NoJob
  <2>2. CASE job' = [job EXCEPT !.at = "chrome", !.to = mode, !.undo = TRUE] /\ mode' = mode
    <3>1. job' \in Jobs /\ job'.at = "chrome"
      BY <2>2
    <3>. QED  BY <1>8, <2>2, <3>1 DEF PersistMode
  <2>. QED  BY <1>8, <2>1, <2>2 DEF PersistMode
<1>. QED  BY <1>1, <1>2, <1>3, <1>4, <1>5, <1>6, <1>7, <1>8 DEF WindowNext, ModeJob

(* Without a tray the window stays floating (apply_window_mode and         *)
(* apply_linux_tray_fallback in window.rs).                                *)
THEOREM StaysFloating == WindowSpec => []WithoutTrayFloating
<1>1. WindowInit => FloatsThroughout
  BY DEF WindowInit, FloatsThroughout, FloatsBetweenCalls, Jobs, Modes, NoJob
<1>2. FloatsThroughout => WithoutTrayFloating
  BY DEF FloatsThroughout, FloatsBetweenCalls, WithoutTrayFloating
<1>. QED  BY <1>1, <1>2, FloatingStepKeeps, PTL DEF WindowSpec

-----------------------------------------------------------------------------
(* A save of the settings                                                  *)

Saves == [at : {"shortcut", "login", "mode", "store", "undoLogin", "undoShortcut", "undoMode"},
          next : Settings, late : BOOLEAN]

Undoing == {"undoLogin", "undoShortcut", "undoMode"}

ShortcutNow ==
  IF save.at \in {"login", "mode", "store", "undoLogin", "undoShortcut"}
  THEN save.next.shortcut ELSE settings.shortcut

LoginNow ==
  IF save.at \in {"mode", "store", "undoLogin"} THEN save.next.login ELSE settings.login

ModeNow ==
  IF save.at = "store" \/ (save.at \in Undoing /\ save.late = TRUE)
  THEN save.next.mode ELSE settings.mode

(* Each part of the desktop is as the step of the save has left it, unless *)
(* its rollback or set-up failed.                                          *)
ShortcutFollows == "shortcut" \in spoilt \/ registered = Wanted(ShortcutNow)
LoginFollows == "login" \in spoilt \/ autostart = LoginNow
ModeFollows == "mode" \in spoilt \/ applied = ModeNow

SaveTypeOK == settings \in Settings /\ (save = NoSave \/ save \in Saves)

(* Only a save that the settings refuse goes back from the mode.           *)
LateWhenRefused == save.at \in {"shortcut", "login", "mode", "store"} => save.late = FALSE

FollowsSteps ==
  SaveTypeOK /\ LateWhenRefused /\ ShortcutFollows /\ LoginFollows /\ ModeFollows

LEMMA NoSaveIsAtNone ==
  /\ NoSave.at = "none"
  /\ \A s \in Saves : s # NoSave /\ s.at # "none"
BY DEF NoSave, Saves

LEMMA SaveUnderWay ==
  ASSUME SaveTypeOK, NEW step, save.at = step, step # "none"
  PROVE  save \in Saves /\ save.next \in Settings
BY NoSaveIsAtNone DEF SaveTypeOK, Saves

LEMMA GotoIsASave ==
  ASSUME save \in Saves,
         NEW step \in {"login", "mode", "store", "undoLogin", "undoShortcut", "undoMode"},
         Goto(step)
  PROVE  save' \in Saves /\ save'.at = step /\ save'.next = save.next /\ save'.late = save.late
BY DEF Goto, Saves

(* A changed shortcut is the only one registered, unless the old one could *)
(* not be removed.                                                         *)
LEMMA ChangedIsWanted ==
  ASSUME NEW old, NEW new, "shortcut" \in spoilt \/ registered = Wanted(old),
         NEW dirty \in BOOLEAN, NEW o \in Changed(old, new), Register(o, dirty)
  PROVE  /\ "shortcut" \in spoilt' \/ registered' = Wanted(new)
         /\ "login" \in spoilt' <=> "login" \in spoilt
         /\ "mode" \in spoilt' <=> "mode" \in spoilt
<1>. USE DEF Register
<1>1. CASE old = new
  BY <1>1 DEF Changed
<1>2. CASE old # new
  <2>1. PICK left \in Left(old) : o = [set |-> left \union Wanted(new), clean |-> old \notin left]
    BY <1>2 DEF Changed
  <2>2. CASE old \in left
    BY <2>1, <2>2
  <2>3. CASE old \notin left /\ registered = Wanted(old)
    BY <2>1, <2>3 DEF Left, Wanted
  <2>4. CASE "shortcut" \in spoilt
    BY <2>4
  <2>. QED  BY <2>2, <2>3, <2>4
<1>. QED  BY <1>1, <1>2

LEMMA RefusedIsAsBefore ==
  ASSUME NEW old, NEW new, "shortcut" \in spoilt \/ registered = Wanted(old),
         NEW dirty \in BOOLEAN, NEW o \in Refused(old, new), Register(o, dirty)
  PROVE  /\ "shortcut" \in spoilt' \/ (registered' = Wanted(old) /\ dirty = FALSE)
         /\ "login" \in spoilt' <=> "login" \in spoilt
         /\ "mode" \in spoilt' <=> "mode" \in spoilt
<1>. USE DEF Register
<1>1. PICK left \in Left(old), again \in BOOLEAN :
        o = [set |-> left \union (IF again THEN Wanted(old) ELSE {}), clean |-> again]
  <2>. DEFINE Mistakes == BOOLEAN \ (IF old = NoShortcut THEN {FALSE} ELSE {})
              Kept(left, again) == left \union (IF again THEN Wanted(old) ELSE {})
              Outcomes == {[set |-> Kept(left, again), clean |-> again] :
                             left \in Left(old), again \in Mistakes}
  <2>1. Refused(old, new) = IF old = new \/ new = NoShortcut THEN {} ELSE Outcomes
    BY DEF Refused
  <2>. HIDE DEF Outcomes
  <2>3. o \in Outcomes
    BY <2>1
  <2>. HIDE DEF Kept, Mistakes
  <2>2. PICK left \in Left(old), again \in Mistakes :
          o = [set |-> Kept(left, again), clean |-> again]
    BY <2>3 DEF Outcomes
  <2>4. again \in BOOLEAN
    BY DEF Mistakes
  <2>. QED  BY <2>2, <2>4 DEF Kept
<1>2. CASE again = FALSE
  BY <1>1, <1>2
<1>3. CASE again = TRUE /\ registered = Wanted(old)
  BY <1>1, <1>3 DEF Left, Wanted
<1>4. CASE "shortcut" \in spoilt
  BY <1>4
<1>. QED  BY <1>2, <1>3, <1>4

LEMMA StartSaveKeeps ==
  ASSUME FollowsSteps, StartSave
  PROVE  FollowsSteps'
<1>1. PICK next \in Settings : save' = [at |-> "shortcut", next |-> next, late |-> FALSE]
  BY DEF StartSave
<1>2. save' \in Saves /\ save'.at = "shortcut" /\ save.at = "none"
  BY <1>1 DEF Saves, StartSave, NoSave
<1>3. UNCHANGED <<ShortcutNow, LoginNow, ModeNow>>
  BY <1>2 DEF ShortcutNow, LoginNow, ModeNow, Undoing, StartSave
<1>. QED  BY <1>2, <1>3 DEF FollowsSteps, SaveTypeOK, ShortcutFollows, LoginFollows, ModeFollows,
                            LateWhenRefused, StartSave

LEMMA ApplyShortcutKeeps ==
  ASSUME FollowsSteps, ApplyShortcut
  PROVE  FollowsSteps'
<1>. USE DEF FollowsSteps, SaveTypeOK, ShortcutFollows, LoginFollows, ModeFollows,
             LateWhenRefused, ShortcutNow, LoginNow, ModeNow, Undoing
<1>1. save.at = "shortcut" /\ save \in Saves
  BY SaveUnderWay DEF ApplyShortcut, At
<1>2. CASE Goto("login")
  <2>1. save' \in Saves /\ save'.at = "login" /\ save'.next = save.next /\ save'.late = save.late
    BY <1>1, <1>2, GotoIsASave
  <2>2. PICK o \in Changed(settings.shortcut, save.next.shortcut) : Register(o, FALSE)
    BY <1>1, <2>1, NoSaveIsAtNone DEF ApplyShortcut
  <2>3. /\ "shortcut" \in spoilt' \/ registered' = Wanted(save.next.shortcut)
        /\ "login" \in spoilt' <=> "login" \in spoilt
        /\ "mode" \in spoilt' <=> "mode" \in spoilt
    BY <1>1, <2>2, ChangedIsWanted
  <2>. QED  BY <1>1, <2>1, <2>3 DEF ApplyShortcut
<1>3. CASE ~Goto("login")
  <2>1. PICK o \in Refused(settings.shortcut, save.next.shortcut) : Register(o, FALSE)
    BY <1>3 DEF ApplyShortcut
  <2>2. /\ "shortcut" \in spoilt' \/ registered' = Wanted(settings.shortcut)
        /\ "login" \in spoilt' <=> "login" \in spoilt
        /\ "mode" \in spoilt' <=> "mode" \in spoilt
    BY <1>1, <2>1, RefusedIsAsBefore
  <2>3. save' = NoSave /\ save'.at = "none"
    BY <1>3, NoSaveIsAtNone DEF ApplyShortcut
  <2>. QED  BY <1>1, <2>2, <2>3 DEF ApplyShortcut
<1>. QED  BY <1>2, <1>3

LEMMA ApplyLoginKeeps ==
  ASSUME FollowsSteps, ApplyLogin
  PROVE  FollowsSteps'
<1>. USE DEF FollowsSteps, SaveTypeOK, ShortcutFollows, LoginFollows, ModeFollows,
             LateWhenRefused, ShortcutNow, LoginNow, ModeNow, Undoing
<1>1. save.at = "login" /\ save \in Saves
  BY SaveUnderWay DEF ApplyLogin, At
<1>2. CASE Goto("mode") /\ autostart' = save.next.login
  <2>1. save' \in Saves /\ save'.at = "mode" /\ save'.next = save.next /\ save'.late = save.late
    BY <1>1, <1>2, GotoIsASave
  <2>. QED  BY <1>1, <1>2, <2>1 DEF ApplyLogin
<1>3. CASE Goto("mode") /\ autostart' = autostart /\ save.next.login = settings.login
  <2>1. save' \in Saves /\ save'.at = "mode" /\ save'.next = save.next /\ save'.late = save.late
    BY <1>1, <1>3, GotoIsASave
  <2>. QED  BY <1>1, <1>3, <2>1 DEF ApplyLogin
<1>4. CASE Goto("undoShortcut") /\ autostart' = autostart
  <2>1. save' \in Saves /\ save'.at = "undoShortcut" /\ save'.next = save.next
        /\ save'.late = save.late
    BY <1>1, <1>4, GotoIsASave
  <2>. QED  BY <1>1, <1>4, <2>1 DEF ApplyLogin
<1>. QED  BY <1>2, <1>3, <1>4 DEF ApplyLogin

LEMMA ApplyModeKeeps ==
  ASSUME FollowsSteps, ApplyMode
  PROVE  FollowsSteps'
<1>. USE DEF FollowsSteps, SaveTypeOK, ShortcutFollows, LoginFollows, ModeFollows,
             LateWhenRefused, ShortcutNow, LoginNow, ModeNow, Undoing
<1>1. save.at = "mode" /\ save \in Saves
  BY SaveUnderWay DEF ApplyMode, At
<1>2. CASE Goto("store") /\ applied' = save.next.mode
  <2>1. save' \in Saves /\ save'.at = "store" /\ save'.next = save.next /\ save'.late = save.late
    BY <1>1, <1>2, GotoIsASave
  <2>. QED  BY <1>1, <1>2, <2>1 DEF ApplyMode
<1>3. CASE Goto("store") /\ applied' = applied /\ save.next.mode = settings.mode
  <2>1. save' \in Saves /\ save'.at = "store" /\ save'.next = save.next /\ save'.late = save.late
    BY <1>1, <1>3, GotoIsASave
  <2>. QED  BY <1>1, <1>3, <2>1 DEF ApplyMode
<1>4. CASE Goto("undoLogin") /\ applied' = applied
  <2>1. save' \in Saves /\ save'.at = "undoLogin" /\ save'.next = save.next
        /\ save'.late = save.late
    BY <1>1, <1>4, GotoIsASave
  <2>. QED  BY <1>1, <1>4, <2>1 DEF ApplyMode
<1>. QED  BY <1>2, <1>3, <1>4 DEF ApplyMode

LEMMA StoreKeeps ==
  ASSUME FollowsSteps, Store
  PROVE  FollowsSteps'
<1>. USE DEF FollowsSteps, SaveTypeOK, ShortcutFollows, LoginFollows, ModeFollows,
             LateWhenRefused, ShortcutNow, LoginNow, ModeNow, Undoing
<1>1. save.at = "store" /\ save \in Saves /\ save.next \in Settings
  BY SaveUnderWay DEF Store, At
<1>2. CASE settings' = save.next /\ save' = NoSave
  <2>1. save'.at = "none"
    BY <1>2, NoSaveIsAtNone
  <2>. QED  BY <1>1, <1>2, <2>1 DEF Store
<1>3. CASE settings' = settings /\ save' = [save EXCEPT !.at = "undoLogin", !.late = TRUE]
  <2>1. save' \in Saves /\ save'.at = "undoLogin" /\ save'.next = save.next /\ save'.late = TRUE
    BY <1>1, <1>3 DEF Saves
  <2>. QED  BY <1>1, <1>3, <2>1 DEF Store
<1>. QED  BY <1>2, <1>3 DEF Store

LEMMA UndoLoginKeeps ==
  ASSUME FollowsSteps, UndoLogin
  PROVE  FollowsSteps'
<1>. USE DEF FollowsSteps, SaveTypeOK, ShortcutFollows, LoginFollows, ModeFollows,
             LateWhenRefused, ShortcutNow, LoginNow, ModeNow, Undoing
<1>1. save.at = "undoLogin" /\ save \in Saves
  BY SaveUnderWay DEF UndoLogin, At
<1>2. save' \in Saves /\ save'.at = "undoShortcut" /\ save'.next = save.next /\ save'.late = save.late
  BY <1>1, GotoIsASave DEF UndoLogin
<1>3. "login" \in spoilt' \/ autostart' = settings.login
  BY <1>1 DEF UndoLogin
<1>4. ("shortcut" \in spoilt' <=> "shortcut" \in spoilt) /\ ("mode" \in spoilt' <=> "mode" \in spoilt)
  BY DEF UndoLogin
<1>. QED  BY <1>1, <1>2, <1>3, <1>4 DEF UndoLogin

LEMMA UndoModeKeeps ==
  ASSUME FollowsSteps, UndoMode
  PROVE  FollowsSteps'
<1>. USE DEF FollowsSteps, SaveTypeOK, ShortcutFollows, LoginFollows, ModeFollows,
             LateWhenRefused, ShortcutNow, LoginNow, ModeNow, Undoing
<1>1. save.at = "undoMode" /\ save' = NoSave /\ save'.at = "none"
  BY NoSaveIsAtNone DEF UndoMode, At
<1>2. "mode" \in spoilt' \/ applied' = settings.mode
  BY DEF UndoMode
<1>3. ("shortcut" \in spoilt' <=> "shortcut" \in spoilt) /\ ("login" \in spoilt' <=> "login" \in spoilt)
  BY DEF UndoMode
<1>. QED  BY <1>1, <1>2, <1>3 DEF UndoMode

LEMMA RelaunchKeeps ==
  ASSUME FollowsSteps, Relaunch
  PROVE  FollowsSteps'
<1>. USE DEF FollowsSteps, SaveTypeOK, ShortcutFollows, LoginFollows, ModeFollows,
             LateWhenRefused, ShortcutNow, LoginNow, ModeNow, Undoing
<1>1. save' = NoSave /\ save'.at = "none" /\ UNCHANGED <<autostart, settings>> /\ applied' = settings.mode
  BY NoSaveIsAtNone DEF Relaunch
<1>2. "shortcut" \in spoilt' \/ registered' = Wanted(settings.shortcut)
  BY DEF Relaunch
<1>3. "login" \in spoilt' \/ autostart = settings.login
  <2>1. CASE "login" \in spoilt
    BY <2>1 DEF Relaunch
  <2>2. CASE save # NoSave /\ save.next.login # settings.login
    BY <2>2 DEF Relaunch
  <2>3. CASE "login" \notin spoilt /\ ~(save # NoSave /\ save.next.login # settings.login)
    BY <2>3, NoSaveIsAtNone
  <2>. QED  BY <2>1, <2>2, <2>3
<1>. QED  BY <1>1, <1>2, <1>3

LEMMA UndoShortcutKeeps ==
  ASSUME FollowsSteps, UndoShortcut
  PROVE  FollowsSteps'
<1>. USE DEF FollowsSteps, SaveTypeOK, ShortcutFollows, LoginFollows, ModeFollows,
             LateWhenRefused, ShortcutNow, LoginNow, ModeNow, Undoing
<1>1. save.at = "undoShortcut" /\ save \in Saves
  BY SaveUnderWay DEF UndoShortcut, At
<1>2. /\ "shortcut" \in spoilt' \/ registered' = Wanted(settings.shortcut)
      /\ "login" \in spoilt' <=> "login" \in spoilt
      /\ "mode" \in spoilt' <=> "mode" \in spoilt
  <2>1. ASSUME NEW o \in Changed(save.next.shortcut, settings.shortcut), Register(o, FALSE)
        PROVE  <1>2!1 /\ <1>2!2 /\ <1>2!3
    BY <1>1, <2>1, ChangedIsWanted
  <2>2. ASSUME NEW o \in Refused(save.next.shortcut, settings.shortcut), Register(o, TRUE)
        PROVE  <1>2!1 /\ <1>2!2 /\ <1>2!3
    BY <1>1, <2>2, RefusedIsAsBefore
  <2>. QED  BY <2>1, <2>2 DEF UndoShortcut
<1>3. CASE save.late /\ save.next.mode # settings.mode
  <2>1. save' \in Saves /\ save'.at = "undoMode" /\ save'.next = save.next /\ save'.late = save.late
    BY <1>1, <1>3, GotoIsASave DEF UndoShortcut
  <2>. QED  BY <1>1, <1>2, <1>3, <2>1 DEF UndoShortcut
<1>4. CASE ~(save.late /\ save.next.mode # settings.mode)
  <2>1. save' = NoSave /\ save'.at = "none"
    BY <1>4, NoSaveIsAtNone DEF UndoShortcut
  <2>2. "mode" \in spoilt \/ applied = settings.mode
    BY <1>1, <1>4 DEF Saves
  <2>. QED  BY <1>1, <1>2, <2>1, <2>2 DEF UndoShortcut
<1>. QED  BY <1>3, <1>4

LEMMA EffectStepKeeps ==
  ASSUME FollowsSteps, [EffectsNext]_effectVars
  PROVE  FollowsSteps'
<1>1. CASE UNCHANGED effectVars
  BY <1>1 DEF effectVars, FollowsSteps, SaveTypeOK, LateWhenRefused, ShortcutFollows, LoginFollows,
              ModeFollows, ShortcutNow, LoginNow, ModeNow
<1>. QED  BY <1>1, StartSaveKeeps, ApplyShortcutKeeps, ApplyLoginKeeps, ApplyModeKeeps, StoreKeeps,
             UndoLoginKeeps, UndoShortcutKeeps, UndoModeKeeps, RelaunchKeeps DEF EffectsNext

(* Between saves the desktop is as the settings say, except for a part     *)
(* whose rollback or set-up failed (save_app_settings_inner in             *)
(* commands/settings.rs).                                                  *)
THEOREM NothingLeftBehind == EffectsSpec => []DesktopFollowsSettings
<1>1. EffectsInit => FollowsSteps
  <2>. SUFFICES ASSUME EffectsInit PROVE FollowsSteps
    OBVIOUS
  <2>1. settings = [shortcut |-> NoShortcut, login |-> FALSE, mode |-> "popup"]
        /\ save = NoSave /\ save.at = "none"
    BY NoSaveIsAtNone DEF EffectsInit
  <2>2. SaveTypeOK /\ LateWhenRefused
    BY <2>1 DEF SaveTypeOK, LateWhenRefused, Settings, WindowModes
  <2>3. registered = Wanted(NoShortcut) /\ autostart = FALSE /\ applied = "popup"
    BY DEF EffectsInit, Wanted
  <2>. QED  BY <2>1, <2>2, <2>3 DEF FollowsSteps, ShortcutFollows, LoginFollows, ModeFollows,
                                    ShortcutNow, LoginNow, ModeNow, Undoing
<1>2. FollowsSteps => DesktopFollowsSettings
  BY NoSaveIsAtNone DEF FollowsSteps, ShortcutFollows, LoginFollows, ModeFollows, ShortcutNow,
     LoginNow, ModeNow, Undoing, DesktopFollowsSettings
<1>. QED  BY <1>1, <1>2, EffectStepKeeps, PTL DEF EffectsSpec

-----------------------------------------------------------------------------
(* Updates                                                                 *)

Pages == [auto : BOOLEAN, checkedAt : Int, timer : -1 .. Interval,
          checking : {"no", "automatic", "manual"}, installing : BOOLEAN, offered : BOOLEAN,
          error : {"none", "busy", "check", "up to date", "network", "install"}]

UpdateTypeOK ==
  /\ clock \in Nat /\ saved \in Int /\ page \in Pages /\ saving \in BOOLEAN
  /\ operation \in {"none", "check", "look", "download", "again"} /\ newer \in BOOLEAN
  /\ since \in 0 .. Interval + 1 /\ tried \in Int /\ early = FALSE

(* What runs in the process is what the page shows.                        *)
PageShowsOperation ==
  /\ page.error # "busy"
  /\ page.checking # "no" <=> operation = "check"
  /\ page.installing <=> operation \in {"look", "download", "again"}

(* The time of a check that was not lost is remembered, and no more ticks  *)
(* have passed than it tells.                                              *)
TimeIsKept ==
  /\ ~saving => saved = page.checkedAt
  /\ since <= Interval => page.checkedAt # -1 /\ clock - page.checkedAt <= since

(* The timer, while there is one, runs out no earlier than the interval    *)
(* after the check, and no later than it after something was tried.        *)
TimerIsDue ==
  /\ page.timer # -1 => since + page.timer >= Interval
  /\ page.auto => page.timer # -1
  /\ page.auto /\ operation = "none" /\ page.timer > 0 =>
       \E t \in {tried, page.checkedAt} : clock - t + page.timer <= Interval

UpdateInv == UpdateTypeOK /\ PageShowsOperation /\ TimeIsKept /\ TimerIsDue

LEMMA PageFields ==
  ASSUME NEW p \in Pages
  PROVE  /\ p.auto \in BOOLEAN /\ p.installing \in BOOLEAN /\ p.offered \in BOOLEAN
         /\ p.checkedAt \in Int /\ p.timer \in Int /\ -1 <= p.timer /\ p.timer <= Interval
<1>1. p.timer \in -1 .. Interval
  BY DEF Pages
<1>2. p.timer \in Int /\ -1 <= p.timer /\ p.timer <= Interval
  BY <1>1, IntervalAssumption
<1>. QED  BY <1>2 DEF Pages

LEMMA DelayIsDue ==
  ASSUME clock \in Nat, NEW t \in Int
  PROVE  /\ Updates!Delay(t) \in Int
         /\ Updates!Delay(t) \in 0 .. Interval
         /\ t = -1 \/ Updates!Delay(t) = Interval \/ clock - t >= Interval - Updates!Delay(t)
         /\ Updates!Delay(t) > 0 => clock - t + Updates!Delay(t) <= Interval
BY IntervalAssumption DEF Updates!Delay, Updates!Never

(* The settings of the page are replaced, with the time of a check that    *)
(* holds for the ticks counted.                                            *)
LEMMA TimerIsSet ==
  ASSUME clock \in Nat, NEW auto \in BOOLEAN, NEW t \in Int,
         page'.auto = auto, page'.checkedAt = t, page'.timer \in Int,
         page'.timer = (IF auto THEN Updates!Delay(t) ELSE -1), clock' = clock,
         since' \in 0 .. Interval + 1, since' <= Interval => t # -1 /\ clock - t <= since',
         saved' \in Int, ~saving' => saved' = t
  PROVE  TimeIsKept' /\ TimerIsDue'
<1>1. /\ clock \in Nat /\ Updates!Delay(t) \in Int /\ Interval \in Int
      /\ 0 <= Updates!Delay(t) /\ Updates!Delay(t) <= Interval
      /\ t = -1 \/ Updates!Delay(t) = Interval \/ clock - t >= Interval - Updates!Delay(t)
      /\ Updates!Delay(t) > 0 => clock - t + Updates!Delay(t) <= Interval
  BY DelayIsDue, IntervalAssumption DEF UpdateInv, UpdateTypeOK
<1>2. since' \in Int /\ 0 <= since' /\ since' <= Interval + 1
  BY IntervalAssumption
<1>3. TimeIsKept'
  BY <1>1 DEF TimeIsKept
<1>4. page'.timer # -1 => since' + page'.timer >= Interval
  <2>1. page'.timer # -1 => page'.timer = Updates!Delay(t)
    BY Zenon
  <2>2. since' + Updates!Delay(t) >= Interval
    BY <1>1, <1>2
  <2>. QED  BY <2>1, <2>2
<1>5. page'.timer > 0 => \E u \in {tried', page'.checkedAt} : clock' - u + page'.timer <= Interval
  <2>1. page'.timer > 0 => clock' - t + page'.timer <= Interval
    BY <1>1
  <2>. QED  BY <2>1
<1>6. page'.auto => page'.timer # -1
  BY <1>1
<1>. QED  BY <1>3, <1>4, <1>5, <1>6 DEF TimerIsDue

LEMMA ReplacedKeeps ==
  ASSUME UpdateInv, NEW auto \in BOOLEAN, NEW t \in Int,
         page' = Updates!Replaced(page, auto, t),
         UNCHANGED <<clock, operation, newer, early>>,
         since' \in 0 .. Interval + 1, since' <= Interval => t # -1 /\ clock - t <= since',
         tried' \in Int, saved' \in Int, saving' \in BOOLEAN, ~saving' => saved' = t
  PROVE  UpdateInv'
<1>1. /\ page' \in Pages /\ page'.auto = auto /\ page'.checkedAt = t
      /\ page'.checking = page.checking /\ page'.installing = page.installing
      /\ page'.error = page.error
      /\ page'.timer = IF auto THEN Updates!Delay(t) ELSE -1
  <2>1. clock \in Nat /\ page \in Pages
    BY DEF UpdateInv, UpdateTypeOK
  <2>2. PICK d : d = IF auto THEN Updates!Delay(t) ELSE -1
    OBVIOUS
  <2>3. page' = [page EXCEPT !.auto = auto, !.checkedAt = t, !.timer = d]
    BY <2>2 DEF Updates!Replaced, Updates!Off
  <2>4. d \in -1 .. Interval
    BY <2>1, <2>2, DelayIsDue, IntervalAssumption
  <2>5. /\ page' \in Pages /\ page'.auto = auto /\ page'.checkedAt = t
        /\ page'.checking = page.checking /\ page'.installing = page.installing
        /\ page'.error = page.error /\ page'.timer = d
    BY <2>1, <2>3, <2>4 DEF Pages
  <2>. QED  BY <2>2, <2>5, Zenon
<1>2. UpdateTypeOK' /\ PageShowsOperation'
  BY <1>1 DEF UpdateInv, UpdateTypeOK, PageShowsOperation
<1>3. page'.timer \in Int /\ clock \in Nat
  BY <1>1, DelayIsDue DEF UpdateInv, UpdateTypeOK
<1>. QED  BY <1>1, <1>2, <1>3, TimerIsSet DEF UpdateInv

LEMMA ClockKeeps ==
  ASSUME UpdateInv, Updates!Tick \/ Updates!SetBack \/ Updates!Release
  PROVE  UpdateInv'
<1>. USE IntervalAssumption DEF UpdateInv, UpdateTypeOK
<1>1. CASE Updates!Tick
  <2>1. /\ clock' = clock + 1 /\ page.timer # 0
        /\ page' = [page EXCEPT !.timer = IF @ = -1 THEN -1 ELSE @ - 1]
        /\ since' = IF since = Interval + 1 THEN Interval + 1 ELSE since + 1
        /\ UNCHANGED <<saved, saving, operation, newer, tried, early>>
    BY <1>1 DEF Updates!Tick, Updates!Off, Updates!Long
  <2>. DEFINE next == IF page.timer = -1 THEN -1 ELSE page.timer - 1
  <2>2. next \in -1 .. Interval
    BY <2>1, PageFields
  <2>3. page' = [page EXCEPT !.timer = next]
    BY <2>1 DEF Pages
  <2>. HIDE DEF next
  <2>4. /\ page' \in Pages /\ page'.timer = next
        /\ page'.auto = page.auto /\ page'.checkedAt = page.checkedAt
        /\ page'.checking = page.checking /\ page'.installing = page.installing
        /\ page'.error = page.error
    BY <2>2, <2>3 DEF Pages
  <2>. QED  BY <2>1, <2>4, PageFields DEF next, PageShowsOperation, TimeIsKept, TimerIsDue
<1>2. CASE Updates!SetBack
  <2>1. /\ clock' \in Nat /\ clock' < clock
        /\ UNCHANGED <<saved, page, saving, operation, newer, since, tried, early>>
    BY <1>2 DEF Updates!SetBack
  <2>. QED  BY <2>1, PageFields DEF PageShowsOperation, TimeIsKept, TimerIsDue
<1>3. CASE Updates!Release
  BY <1>3 DEF Updates!Release, PageShowsOperation, TimeIsKept, TimerIsDue
<1>. QED  BY <1>1, <1>2, <1>3

LEMMA SettingsKeep ==
  ASSUME UpdateInv, Updates!ChangeSettings \/ Updates!ResetSettings \/ Updates!SaveEnds
  PROVE  UpdateInv'
<1>1. /\ clock \in Nat /\ saved \in Int /\ saving \in BOOLEAN /\ tried \in Int
      /\ page.auto \in BOOLEAN /\ page.checkedAt \in Int
      /\ since \in 0 .. Interval + 1 /\ Interval + 1 \in 0 .. Interval + 1
      /\ ~(Interval + 1 <= Interval)
      /\ since <= Interval => page.checkedAt # -1 /\ clock - page.checkedAt <= since
      /\ ~saving => saved = page.checkedAt
  BY PageFields, IntervalAssumption DEF UpdateInv, UpdateTypeOK, TimeIsKept
<1>2. CASE Updates!ChangeSettings
  <2>1. PICK auto \in BOOLEAN :
          /\ page' = Updates!Replaced(page, auto, page.checkedAt)
          /\ tried' = IF auto /\ ~page.auto THEN clock ELSE tried
    BY <1>2 DEF Updates!ChangeSettings
  <2>2. UNCHANGED <<clock, saved, saving, operation, newer, since, early>>
    BY <1>2 DEF Updates!ChangeSettings
  <2>3. tried' \in Int
    BY <1>1, <2>1
  <2>. QED  BY <1>1, <2>1, <2>2, <2>3, ReplacedKeeps
<1>3. CASE Updates!ResetSettings
  <2>1. /\ saved' = -1 /\ page' = Updates!Replaced(page, TRUE, -1)
        /\ since' = Interval + 1 /\ tried' \in Int
        /\ UNCHANGED <<clock, saving, operation, newer, early>>
    BY <1>1, <1>3 DEF Updates!ResetSettings, Updates!Never, Updates!Long
  <2>2. /\ TRUE \in BOOLEAN /\ -1 \in Int /\ saving' \in BOOLEAN /\ saved' \in Int
        /\ since' \in 0 .. Interval + 1 /\ ~(since' <= Interval)
    BY <1>1, <2>1
  <2>. QED  BY <2>1, <2>2, ReplacedKeeps
<1>4. CASE Updates!SaveEnds
  <2>1. saving' = FALSE /\ UNCHANGED <<clock, operation, newer, tried, early>>
    BY <1>4, Zenon DEF Updates!SaveEnds
  <2>2. \/ /\ saved' = page.checkedAt /\ since' = since
           /\ page' = Updates!Replaced(page, page.auto, page.checkedAt)
        \/ /\ page' = Updates!Replaced(page, page.auto, saved)
           /\ since' = Interval + 1 /\ saved' = saved
    BY <1>4, Zenon DEF Updates!SaveEnds, Updates!Long
  <2>. QED  BY <1>1, <2>1, <2>2, ReplacedKeeps
<1>. QED  BY <1>2, <1>3, <1>4

(* A check or an installation ends, or could not be begun.                 *)
LEMMA UpdateEnds ==
  ASSUME UpdateInv, page' \in Pages, page'.error # "busy",
         page'.timer = page.timer, page'.auto = page.auto, page'.checkedAt = page.checkedAt,
         operation' = "none", page'.checking = "no", page'.installing = FALSE,
         tried' = clock, UNCHANGED <<clock, saved, saving, newer, since, early>>
  PROVE  UpdateInv'
<1>1. clock \in Nat /\ clock - clock + page.timer <= Interval
  BY PageFields, IntervalAssumption DEF UpdateInv, UpdateTypeOK
<1>2. UpdateTypeOK' /\ PageShowsOperation' /\ TimeIsKept'
  BY DEF UpdateInv, UpdateTypeOK, PageShowsOperation, TimeIsKept
<1>3. TimerIsDue'
  BY <1>1 DEF UpdateInv, TimerIsDue
<1>. QED  BY <1>2, <1>3 DEF UpdateInv

(* A check or an installation begins, or goes on.                          *)
LEMMA UpdateBegins ==
  ASSUME UpdateInv, page' \in Pages, page'.error # "busy",
         page'.timer = page.timer, page'.auto = page.auto, page'.checkedAt = page.checkedAt,
         operation' \in {"check", "look", "download", "again"},
         page'.checking # "no" <=> operation' = "check",
         page'.installing <=> operation' # "check",
         tried' \in Int, UNCHANGED <<clock, saved, saving, newer, since, early>>
  PROVE  UpdateInv'
<1>0. UpdateTypeOK'
  <2>1. operation' \in {"none", "check", "look", "download", "again"}
    OBVIOUS
  <2>. QED  BY <2>1 DEF UpdateInv, UpdateTypeOK
<1>1. TimeIsKept'
  BY DEF UpdateInv, TimeIsKept
<1>2. PageShowsOperation'
  BY DEF UpdateInv, PageShowsOperation
<1>3. TimerIsDue'
  BY DEF UpdateInv, TimerIsDue
<1>. QED  BY <1>0, <1>1, <1>2, <1>3 DEF UpdateInv

LEMMA BusyIsShown ==
  ASSUME UpdateInv
  PROVE  Updates!Busy <=> operation # "none"
BY DEF Updates!Busy, UpdateInv, UpdateTypeOK, PageShowsOperation

LEMMA AskKeepsUpdates ==
  ASSUME UpdateInv, Updates!Fire \/ Updates!CheckNow
  PROVE  UpdateInv'
<1>. USE DEF UpdateInv, UpdateTypeOK
<1>1. CASE Updates!CheckNow
  <2>1. /\ operation = "none" /\ operation' = "check" /\ tried' = clock
        /\ page' = [page EXCEPT !.checking = "manual", !.error = "none"]
        /\ UNCHANGED <<clock, saved, saving, newer, since, early>>
    BY <1>1, BusyIsShown DEF Updates!CheckNow, Updates!Asking
  <2>2. /\ page' \in Pages /\ page'.error = "none" /\ page'.checking = "manual"
        /\ page'.timer = page.timer /\ page'.auto = page.auto /\ page'.checkedAt = page.checkedAt
        /\ page'.installing = FALSE
    BY <2>1 DEF Pages, PageShowsOperation
  <2>3. operation' \in {"check", "look", "download", "again"} /\ tried' \in Int
        /\ (page'.checking # "no" <=> operation' = "check")
        /\ (page'.installing <=> operation' # "check")
    BY <2>1, <2>2
  <2>. QED  BY <2>1, <2>2, <2>3, UpdateBegins
<1>2. CASE Updates!Fire
  <2>. DEFINE next == [page EXCEPT !.timer = Interval]
  <2>1. /\ page.timer = 0
        /\ page' = IF Updates!Busy THEN next ELSE Updates!Asking(next, "automatic")
        /\ operation' = IF ~Updates!Busy /\ operation = "none" THEN "check" ELSE operation
        /\ tried' = IF Updates!Busy THEN tried ELSE clock
        /\ early' = (early \/ (~Updates!Busy /\ since < Interval))
        /\ UNCHANGED <<clock, saved, saving, newer, since>>
    BY <1>2 DEF Updates!Fire
  <2>2. /\ next \in Pages /\ next.timer = Interval /\ next.auto = page.auto
        /\ next.checkedAt = page.checkedAt /\ next.checking = page.checking
        /\ next.installing = page.installing /\ next.error = page.error
    <3>1. Interval \in -1 .. Interval
      BY IntervalAssumption
    <3>. QED  BY <3>1 DEF Pages
  <2>3. since + 0 >= Interval /\ since \in Int /\ clock \in Int
    BY <2>1, IntervalAssumption DEF TimerIsDue
  <2>4. early' = FALSE
    <3>1. ~(since < Interval)
      BY <2>3, IntervalAssumption
    <3>. QED  BY <2>1, <3>1, Zenon
  <2>5. CASE Updates!Busy
    <3>1. page' = next /\ operation' = operation /\ tried' = tried /\ operation # "none"
      BY <2>1, <2>5, BusyIsShown
    <3>. HIDE DEF next
    <3>2. UpdateTypeOK' /\ PageShowsOperation' /\ TimeIsKept'
      BY <2>1, <2>2, <2>4, <3>1 DEF PageShowsOperation, TimeIsKept
    <3>3. TimerIsDue'
      BY <2>1, <2>2, <2>3, <3>1, IntervalAssumption DEF TimerIsDue
    <3>. QED  BY <3>2, <3>3
  <2>6. CASE ~Updates!Busy
    <3>1. operation = "none" /\ operation' = "check" /\ tried' = clock
      BY <2>1, <2>6, BusyIsShown
    <3>2. page' = [next EXCEPT !.checking = "automatic", !.error = next.error]
      BY <2>1, <2>6, <3>1 DEF Updates!Asking
    <3>. HIDE DEF next
    <3>3. /\ page' \in Pages /\ page'.timer = Interval /\ page'.auto = page.auto
          /\ page'.checkedAt = page.checkedAt /\ page'.checking = "automatic"
          /\ page'.installing = page.installing /\ page'.error = page.error
      BY <2>2, <3>2 DEF Pages
    <3>4. UpdateTypeOK' /\ PageShowsOperation' /\ TimeIsKept'
      BY <2>1, <2>4, <3>1, <3>3 DEF PageShowsOperation, TimeIsKept
    <3>5. TimerIsDue'
      BY <2>1, <2>3, <3>1, <3>3, IntervalAssumption DEF TimerIsDue
    <3>. QED  BY <3>4, <3>5
  <2>. QED  BY <2>5, <2>6
<1>. QED  BY <1>1, <1>2

LEMMA AnsweredKeeps ==
  ASSUME UpdateInv, Updates!Answered
  PROVE  UpdateInv'
<1>1. clock \in Nat /\ page \in Pages /\ newer \in BOOLEAN
  BY DEF UpdateInv, UpdateTypeOK
<1>2. /\ operation = "check" /\ operation' = "none" /\ saving' = TRUE /\ since' = 0
      /\ tried' = clock /\ UNCHANGED <<clock, saved, newer, early>>
  BY DEF Updates!Answered
<1>3. PICK auto \in BOOLEAN, t \in Int : auto = page.auto /\ t = clock
  BY <1>1, PageFields
<1>4. PICK d : d = IF auto THEN Updates!Delay(t) ELSE -1
  OBVIOUS
<1>5. page' = [page EXCEPT !.auto = auto, !.checkedAt = t, !.timer = d,
                           !.checking = "no", !.offered = newer]
  BY <1>3, <1>4 DEF Updates!Answered, Updates!Replaced, Updates!Off
<1>6. d \in -1 .. Interval
  BY <1>1, <1>4, DelayIsDue, IntervalAssumption
<1>7. /\ page' \in Pages /\ page'.auto = auto /\ page'.checkedAt = t /\ page'.timer = d
      /\ page'.checking = "no" /\ page'.installing = page.installing /\ page'.error = page.error
  BY <1>1, <1>5, <1>6 DEF Pages
<1>8. UpdateTypeOK' /\ PageShowsOperation'
  <2>1. since' \in 0 .. Interval + 1
    BY <1>2, IntervalAssumption
  <2>. QED  BY <1>1, <1>2, <1>7, <2>1 DEF UpdateInv, UpdateTypeOK, PageShowsOperation
<1>9. TimeIsKept' /\ TimerIsDue'
  <2>1. d \in Int /\ t # -1 /\ clock - t <= since' /\ since' \in 0 .. Interval + 1 /\ saved' \in Int
    BY <1>1, <1>2, <1>3, <1>6, IntervalAssumption DEF UpdateInv, UpdateTypeOK
  <2>2. page'.timer = IF auto THEN Updates!Delay(t) ELSE -1
    BY <1>4, <1>7
  <2>. QED  BY <1>1, <1>2, <1>7, <2>1, <2>2, TimerIsSet
<1>. QED  BY <1>8, <1>9 DEF UpdateInv

LEMMA FailureKeeps ==
  ASSUME UpdateInv, NEW error \in {"up to date", "network", "install"},
         operation \in {"look", "download", "again"}, Updates!InstallFails(error)
  PROVE  UpdateInv'
<1>1. /\ operation' = "none" /\ tried' = clock /\ page \in Pages
      /\ page' = [page EXCEPT !.installing = FALSE, !.error = error]
      /\ UNCHANGED <<clock, saved, saving, newer, since, early>>
  BY DEF Updates!InstallFails, UpdateInv, UpdateTypeOK
<1>2. /\ page' \in Pages /\ page'.error # "busy" /\ page'.timer = page.timer
      /\ page'.auto = page.auto /\ page'.checkedAt = page.checkedAt
      /\ page'.installing = FALSE /\ page'.checking = page.checking
  BY <1>1 DEF Pages
<1>3. page'.checking = "no"
  BY <1>2 DEF UpdateInv, PageShowsOperation
<1>. QED  BY <1>1, <1>2, <1>3, UpdateEnds

LEMMA CheckFailsKeeps ==
  ASSUME UpdateInv, Updates!CheckFails
  PROVE  UpdateInv'
<1>1. /\ operation = "check" /\ operation' = "none" /\ tried' = clock /\ page \in Pages
      /\ page' = [page EXCEPT !.checking = "no",
                              !.error = IF page.checking = "manual" THEN "check" ELSE page.error]
      /\ UNCHANGED <<clock, saved, saving, newer, since, early>>
  BY DEF Updates!CheckFails, UpdateInv, UpdateTypeOK, Pages
<1>2. /\ page' \in Pages /\ page'.timer = page.timer
      /\ page'.auto = page.auto /\ page'.checkedAt = page.checkedAt
      /\ page'.installing = page.installing /\ page'.checking = "no"
      /\ page'.error \in {"check", page.error}
  BY <1>1 DEF Pages
<1>3. page'.error # "busy" /\ page'.installing = FALSE
  BY <1>1, <1>2 DEF UpdateInv, PageShowsOperation, Pages
<1>. QED  BY <1>1, <1>2, <1>3, UpdateEnds

LEMMA InstallKeeps ==
  ASSUME UpdateInv, Updates!Install
  PROVE  UpdateInv'
<1>1. /\ operation = "none" /\ operation' = "look" /\ tried' = clock
      /\ page \in Pages /\ clock \in Nat
      /\ page' = [page EXCEPT !.installing = TRUE, !.error = "none"]
      /\ UNCHANGED <<clock, saved, saving, newer, since, early>>
  BY BusyIsShown DEF Updates!Install, UpdateInv, UpdateTypeOK
<1>2. /\ page' \in Pages /\ page'.error = "none" /\ page'.timer = page.timer
      /\ page'.auto = page.auto /\ page'.checkedAt = page.checkedAt
      /\ page'.installing = TRUE /\ page'.checking = page.checking
  BY <1>1 DEF Pages
<1>3. /\ operation' \in {"check", "look", "download", "again"} /\ tried' \in Int
      /\ page'.checking # "no" <=> operation' = "check"
      /\ page'.installing <=> operation' # "check"
  BY <1>1, <1>2 DEF UpdateInv, PageShowsOperation
<1>. QED  BY <1>1, <1>2, <1>3, UpdateBegins

LEMMA AdvanceKeeps ==
  ASSUME UpdateInv, NEW step \in {"download", "again"},
         operation \in {"look", "download"}, Updates!Advance(step)
  PROVE  UpdateInv'
<1>1. operation' = step /\ UNCHANGED <<clock, saved, page, saving, newer, since, tried, early>>
  BY DEF Updates!Advance
<1>2. /\ page' \in Pages /\ page'.error # "busy" /\ tried' \in Int
      /\ operation' \in {"check", "look", "download", "again"}
      /\ page'.checking # "no" <=> operation' = "check"
      /\ page'.installing <=> operation' # "check"
  BY <1>1 DEF UpdateInv, UpdateTypeOK, PageShowsOperation
<1>. QED  BY <1>1, <1>2, UpdateBegins

(* What the page is after a launch with the settings on disk.              *)
LEMMA LoadedIsDue ==
  ASSUME clock \in Nat, NEW auto \in BOOLEAN, NEW t \in Int,
         page' = Updates!Loaded(auto, t), UNCHANGED clock,
         operation' = "none", saving' = FALSE, saved' = t, newer' \in BOOLEAN,
         since' \in 0 .. Interval + 1, since' <= Interval => t # -1 /\ clock - t <= since',
         tried' \in Int, early' = FALSE
  PROVE  UpdateInv'
<1>1. PICK d : d = IF auto THEN Updates!Delay(t) ELSE -1
  OBVIOUS
<1>2. page' = [auto |-> auto, checkedAt |-> t, timer |-> d, checking |-> "no",
               installing |-> FALSE, offered |-> FALSE, error |-> "none"]
  BY <1>1 DEF Updates!Loaded, Updates!Replaced, Updates!Off
<1>3. d \in -1 .. Interval
  BY <1>1, DelayIsDue, IntervalAssumption
<1>4. /\ page' \in Pages /\ page'.auto = auto /\ page'.checkedAt = t /\ page'.timer = d
      /\ page'.checking = "no" /\ page'.installing = FALSE /\ page'.error = "none"
  BY <1>2, <1>3 DEF Pages
<1>5. UpdateTypeOK' /\ PageShowsOperation'
  BY <1>4 DEF UpdateTypeOK, PageShowsOperation
<1>6. TimeIsKept' /\ TimerIsDue'
  <2>1. page'.timer = IF auto THEN Updates!Delay(t) ELSE -1
    BY <1>1, <1>4
  <2>2. page'.timer \in Int /\ saved' \in Int
    BY <1>3, <1>4, IntervalAssumption
  <2>. QED  BY <1>4, <2>1, <2>2, TimerIsSet
<1>. QED  BY <1>5, <1>6 DEF UpdateInv

LEMMA LaunchKeeps ==
  ASSUME UpdateInv, Updates!Restart, newer' \in BOOLEAN
  PROVE  UpdateInv'
<1>1. /\ page' = Updates!Loaded(page.auto, saved) /\ saving' = FALSE /\ operation' = "none"
      /\ since' = (IF saving THEN Interval + 1 ELSE since) /\ tried' = clock
      /\ UNCHANGED <<clock, saved, early>>
  BY DEF Updates!Restart, Updates!Long
<1>2. /\ clock \in Nat /\ saved \in Int /\ page.auto \in BOOLEAN /\ early = FALSE
      /\ since' \in 0 .. Interval + 1 /\ saving \in BOOLEAN
  BY <1>1, PageFields, IntervalAssumption DEF UpdateInv, UpdateTypeOK
<1>3. since' <= Interval => saved # -1 /\ clock - saved <= since'
  BY <1>1, IntervalAssumption DEF UpdateInv, TimeIsKept
<1>4. PICK auto \in BOOLEAN, t \in Int : auto = page.auto /\ t = saved
  BY <1>2
<1>5. page' = Updates!Loaded(auto, t)
  BY <1>1, <1>4 DEF Updates!Loaded, Updates!Replaced, Updates!Delay
<1>6. /\ saved' = t /\ tried' \in Int /\ early' = FALSE /\ clock' = clock
      /\ since' <= Interval => t # -1 /\ clock - t <= since'
  BY <1>1, <1>2, <1>3, <1>4
<1>7. clock \in Nat /\ since' \in 0 .. Interval + 1 /\ operation' = "none" /\ saving' = FALSE
  BY <1>1, <1>2
<1>. QED  BY <1>5, <1>6, <1>7, LoadedIsDue

LEMMA UpdateStepKeeps ==
  ASSUME UpdateInv, [Updates!UpdateNext]_updateVars
  PROVE  UpdateInv'
<1>1. CASE Updates!LookAgain
  <2>1. Updates!Advance("download") \/ Updates!InstallFails("up to date")
        \/ Updates!InstallFails("network")
    BY <1>1 DEF Updates!LookAgain
  <2>2. operation = "look"
    BY <1>1 DEF Updates!LookAgain
  <2>. QED  BY <2>1, <2>2, AdvanceKeeps, FailureKeeps
<1>2. CASE Updates!Download
  <2>1. \/ Updates!Restart /\ newer' = FALSE
        \/ operation = "download" /\ Updates!Advance("again")
        \/ Updates!InstallFails("install")
    BY <1>2 DEF Updates!Download
  <2>2. operation \in {"download", "again"}
    BY <1>2 DEF Updates!Download
  <2>. QED  BY <2>1, <2>2, AdvanceKeeps, FailureKeeps, LaunchKeeps
<1>3. CASE Updates!Quit
  BY <1>3, LaunchKeeps DEF Updates!Quit, UpdateInv, UpdateTypeOK
<1>4. CASE UNCHANGED updateVars
  BY <1>4 DEF updateVars, UpdateInv, UpdateTypeOK, PageShowsOperation, TimeIsKept, TimerIsDue
<1>. QED  BY <1>1, <1>2, <1>3, <1>4, ClockKeeps, SettingsKeep, AskKeepsUpdates, AnsweredKeeps,
             CheckFailsKeeps, InstallKeeps DEF Updates!UpdateNext

LEMMA UpdatesBegin ==
  ASSUME Updates!UpdateInit
  PROVE  UpdateInv
<1>1. /\ clock = 0 /\ saved = -1 /\ saving = FALSE /\ operation = "none" /\ newer \in BOOLEAN
      /\ since = Interval + 1 /\ tried = 0 /\ early = FALSE
      /\ page = [auto |-> TRUE, checkedAt |-> -1, timer |-> 0, checking |-> "no",
                 installing |-> FALSE, offered |-> FALSE, error |-> "none"]
  BY DEF Updates!UpdateInit, Updates!Never, Updates!Long, Updates!Loaded, Updates!Replaced,
         Updates!Delay, Updates!Never, Updates!Off
<1>2. page \in Pages
  BY <1>1, IntervalAssumption DEF Pages
<1>3. UpdateTypeOK
  <2>1. since \in 0 .. Interval + 1 /\ clock \in Nat /\ saved \in Int /\ tried \in Int
    BY <1>1, IntervalAssumption
  <2>. QED  BY <1>1, <1>2, <2>1 DEF UpdateTypeOK
<1>. QED  BY <1>1, <1>3, IntervalAssumption DEF UpdateInv, PageShowsOperation, TimeIsKept, TimerIsDue

LEMMA DueIsChecked ==
  ASSUME UpdateInv
  PROVE  Updates!ChecksWhenDue
<1>1. page.auto /\ ~Updates!Busy /\ page.timer # 0 =>
        \E t \in {tried, page.checkedAt} : clock - t <= Interval
  <2>1. SUFFICES ASSUME page.auto, ~Updates!Busy, page.timer # 0
                 PROVE  \E t \in {tried, page.checkedAt} : clock - t <= Interval
    OBVIOUS
  <2>2. operation = "none" /\ page.timer > 0
    <3>1. page \in Pages /\ page.timer # -1
      BY <2>1 DEF UpdateInv, UpdateTypeOK, TimerIsDue
    <3>. QED  BY <2>1, <3>1, BusyIsShown, PageFields
  <2>3. PICK t \in {tried, page.checkedAt} : clock - t + page.timer <= Interval
    BY <2>1, <2>2 DEF UpdateInv, TimerIsDue
  <2>4. clock - t <= Interval
    BY <2>2, <2>3, PageFields, IntervalAssumption DEF UpdateInv, UpdateTypeOK
  <2>. QED  BY <2>4
<1>. QED  BY <1>1 DEF Updates!ChecksWhenDue, UpdateInv, UpdateTypeOK, PageShowsOperation

-----------------------------------------------------------------------------
(* The notices on the pace                                                 *)

Entries == [resets : Resets \union {0}, fired : SUBSET Milestones,
            previous : Severities, underTen : BOOLEAN, primed : BOOLEAN,
            exhausted : BOOLEAN, pendingReset : BOOLEAN]
Finishings == [at : {"idle", "deliver", "rollback"},
               alerts : SUBSET Milestones, failed : SUBSET Milestones,
               previous : Severities, underTen : BOOLEAN]

(* Somebody is about to deliver the notice, or to take it back.            *)
Pending(g, m) ==
  \/ finisher[g].at = "deliver" /\ m \in finisher[g].alerts
  \/ finisher[g].at = "rollback" /\ m \in finisher[g].failed

FiredIsAccountedFor ==
  \A m \in entry.fired :
    m \in told \/ (\E g \in Finishers : Pending(g, m)) \/ (m = "FullyUsed" /\ entry.exhausted)

FailedWereAlerts == \A f \in Finishers : finisher[f].failed \subseteq finisher[f].alerts

(* What the one who evaluated last found before it would let its notices   *)
(* be found again.                                                         *)
OwnerMayRepeat ==
  /\ owner # Nobody => entry.primed
  /\ \A f \in Finishers : owner = f => \A m \in finisher[f].alerts :
       /\ m = "AlmostOut" => ~finisher[f].underTen
       /\ m = "CuttingItClose" => finisher[f].previous < CloseToLimit
       /\ m = "WillRunOut" => finisher[f].previous < RunningOut

(* What was taken back is open again.                                      *)
MissedIsOpen ==
  \A m \in missed :
    /\ entry.primed /\ m \notin entry.fired
    /\ m = "AlmostOut" => ~entry.underTen
    /\ m = "UsageReset" => entry.pendingReset
    /\ m = "CuttingItClose" => entry.previous < CloseToLimit
    /\ m = "WillRunOut" => entry.previous < RunningOut

NoticeInv ==
  PaceTypeOK /\ FiredIsAccountedFor /\ FailedWereAlerts /\ OwnerMayRepeat
    /\ MissedIsOpen /\ NothingForgotten

LEMMA ObservationFields ==
  ASSUME NEW o \in Observations
  PROVE  /\ o.spent \in BOOLEAN /\ o.underTen \in BOOLEAN
         /\ o.resets \in Resets \union {0} /\ o.resets \in Nat /\ Level(o) \in 0 .. 3
<1>1. PICK used \in Usages, elapsed \in Elapsed, resets \in Resets \union {0} :
        o = [severity |-> IF resets = 0 /\ Projected(used, elapsed) # Spent THEN Untracked
                          ELSE Projected(used, elapsed),
             spent |-> used = 1000, underTen |-> used > 900, resets |-> resets]
  BY DEF Observations
<1>2. Projected(used, elapsed) \in 0 .. 4
  BY DEF Projected, Spent, Untracked, Healthy, CloseToLimit, RunningOut
<1>3. o.severity \in 0 .. 4 /\ Level(o) \in 0 .. 3
  BY <1>1, <1>2 DEF Level, Spent, Untracked, RunningOut
<1>4. o.resets \in Resets \union {0} /\ o.resets \in Nat
  BY <1>1, PaceAssumption
<1>5. o.spent = (used = 1000) /\ o.underTen = (used > 900)
  BY <1>1
<1>6. o.spent \in BOOLEAN /\ o.underTen \in BOOLEAN
  BY <1>5
<1>. QED  BY <1>3, <1>4, <1>6

LEMMA RecoveredFields ==
  ASSUME NEW e \in Entries, NEW o \in Observations, NEW on
  PROVE  LET r == Recovered(e, o, on)
         IN  /\ r \in Entries /\ r.resets = e.resets /\ r.primed = e.primed
             /\ r.previous = e.previous /\ r.underTen = e.underTen
             /\ r.fired \subseteq e.fired /\ r.exhausted = o.spent
             /\ e.exhausted /\ ~o.spent => "FullyUsed" \notin r.fired
             /\ e.pendingReset /\ ~o.spent /\ "UsageReset" \in on => r.pendingReset
<1>1. CASE e.exhausted /\ ~o.spent
  <2>. DEFINE wanted == "UsageReset" \in on
              fired == e.fired \ {"FullyUsed", "UsageReset"}
  <2>1. Recovered(e, o, on) = [e EXCEPT !.pendingReset = wanted, !.exhausted = FALSE, !.fired = fired]
    BY <1>1 DEF Recovered, Entries
  <2>2. wanted \in BOOLEAN
    OBVIOUS
  <2>3. fired \in SUBSET Milestones /\ "FullyUsed" \notin fired /\ fired \subseteq e.fired
    BY DEF Entries
  <2>. HIDE DEF wanted, fired
  <2>4. LET r == [e EXCEPT !.pendingReset = wanted, !.exhausted = FALSE, !.fired = fired]
        IN  /\ r \in Entries /\ r.resets = e.resets /\ r.primed = e.primed
            /\ r.previous = e.previous /\ r.underTen = e.underTen
            /\ r.fired = fired /\ r.exhausted = FALSE /\ r.pendingReset = wanted
    BY <2>2, <2>3 DEF Entries
  <2>5. o.spent = FALSE
    BY <1>1, ObservationFields
  <2>. QED  BY <2>1, <2>3, <2>4, <2>5 DEF wanted
<1>2. CASE ~(e.exhausted /\ ~o.spent) /\ o.spent
  BY <1>2, ObservationFields DEF Recovered, Entries
<1>3. CASE ~(e.exhausted /\ ~o.spent) /\ ~o.spent
  BY <1>3, ObservationFields DEF Recovered, Entries
<1>. QED  BY <1>1, <1>2, <1>3

LEMMA NextPeriodFields ==
  ASSUME NEW e \in Entries, NEW o \in Observations
  PROVE  LET r == NextPeriod(e, o)
         IN  /\ r \in Entries /\ r.primed = e.primed /\ r.exhausted = e.exhausted
             /\ r.pendingReset = e.pendingReset /\ r.fired \subseteq e.fired
             /\ r.previous <= e.previous /\ (r.underTen => e.underTen)
             /\ r.resets = e.resets => r.previous = e.previous /\ r.underTen = e.underTen
<1>1. e.resets \in Nat /\ e.previous \in Int /\ -1 <= e.previous /\ -1 \in Severities
  <2>1. e.resets \in Resets \union {0} /\ e.previous \in -1 .. 3
    BY DEF Entries, Severities, NoSeverity, RunningOut
  <2>2. -1 \in Severities
    BY DEF Severities, NoSeverity, RunningOut
  <2>3. e.resets \in Nat
    <3>1. \A n \in Resets : n \in Nat
      BY PaceAssumption, Zenon
    <3>. QED  BY <2>1, <3>1
  <2>4. e.previous \in Int /\ -1 <= e.previous
    BY <2>1
  <2>. QED  BY <2>2, <2>3, <2>4
<1>2. CASE o.resets = 0
  BY <1>1, <1>2 DEF NextPeriod, Entries
<1>3. CASE o.resets # 0 /\ (e.resets = 0 \/ o.resets > e.resets)
  <2>1. NextPeriod(e, o) = [e EXCEPT !.resets = o.resets, !.fired = {},
                                     !.previous = -1, !.underTen = FALSE]
    BY <1>3 DEF NextPeriod, NoSeverity, Entries
  <2>2. LET r == [e EXCEPT !.resets = o.resets, !.fired = {}, !.previous = -1, !.underTen = FALSE]
        IN  /\ r \in Entries /\ r.primed = e.primed /\ r.exhausted = e.exhausted
            /\ r.pendingReset = e.pendingReset /\ r.fired = {} /\ r.previous = -1
            /\ r.underTen = FALSE /\ r.resets = o.resets
    BY <1>1, ObservationFields DEF Entries
  <2>3. o.resets # e.resets
    BY <1>1, <1>3, ObservationFields
  <2>. QED  BY <1>1, <2>1, <2>2, <2>3
<1>4. CASE o.resets # 0 /\ ~(e.resets = 0 \/ o.resets > e.resets)
  <2>1. NextPeriod(e, o) = [e EXCEPT !.resets = o.resets]
    BY <1>4 DEF NextPeriod
  <2>. QED  BY <1>1, <2>1, ObservationFields DEF Entries
<1>. QED  BY <1>2, <1>3, <1>4

LEMMA ReachedAreNotices ==
  ASSUME NEW e, NEW o, NEW on
  PROVE  Reached(e, o, on) \subseteq Milestones
BY DEF Reached, Paces, Milestones

LEMMA AdvancedFields ==
  ASSUME NEW e \in Entries, NEW o \in Observations, NEW on, e.primed
  PROVE  LET r == Advanced(e, o, on)
         IN  /\ r \in Entries /\ r.primed /\ r.exhausted = e.exhausted
             /\ r.fired \subseteq e.fired \union Reached(e, o, on)
<1>. DEFINE alerts == Reached(e, o, on)
            previous == IF Level(o) # Untracked /\ (Level(o) <= e.previous \/ Paces(e, o, on) # {})
                        THEN Level(o) ELSE e.previous
            underTen == IF ~o.underTen \/ "AlmostOut" \in alerts THEN o.underTen ELSE e.underTen
            fired == ((e.fired \ Eased(e, o)) \ (IF o.underTen THEN {} ELSE {"AlmostOut"}))
                       \union alerts
<1>1. Advanced(e, o, on) = [e EXCEPT !.previous = previous, !.pendingReset = FALSE,
                                     !.underTen = underTen, !.fired = fired]
  BY DEF Advanced, Entries
<1>2. previous \in Severities
  BY ObservationFields DEF Entries, Severities, NoSeverity, RunningOut
<1>3. underTen \in BOOLEAN
  BY ObservationFields DEF Entries
<1>4. fired \in SUBSET Milestones /\ fired \subseteq e.fired \union alerts
  BY ReachedAreNotices DEF Entries
<1>. HIDE DEF alerts, previous, underTen, fired
<1>5. LET r == [e EXCEPT !.previous = previous, !.pendingReset = FALSE,
                         !.underTen = underTen, !.fired = fired]
      IN  r \in Entries /\ r.primed = e.primed /\ r.exhausted = e.exhausted /\ r.fired = fired
  BY <1>2, <1>3, <1>4 DEF Entries
<1>. QED  BY <1>1, <1>4, <1>5 DEF alerts

LEMMA PrimedFields ==
  ASSUME NEW e \in Entries, NEW o \in Observations
  PROVE  LET r == Primed(e, o)
         IN  /\ r \in Entries /\ r.primed /\ r.exhausted = e.exhausted
             /\ r.fired \subseteq e.fired \union (IF o.spent THEN {"FullyUsed"} ELSE {})
<1>. DEFINE previous == IF Level(o) = Untracked THEN NoSeverity ELSE Level(o)
            fired == IF o.spent THEN e.fired \union {"FullyUsed"} ELSE e.fired
<1>1. Primed(e, o) = [e EXCEPT !.primed = TRUE, !.previous = previous,
                               !.underTen = o.underTen, !.fired = fired]
  BY DEF Primed, Entries
<1>2. previous \in Severities
  BY ObservationFields DEF Severities, NoSeverity, RunningOut
<1>3. fired \in SUBSET Milestones
        /\ fired \subseteq e.fired \union (IF o.spent THEN {"FullyUsed"} ELSE {})
  BY DEF Entries, Milestones
<1>. HIDE DEF previous, fired
<1>4. LET r == [e EXCEPT !.primed = TRUE, !.previous = previous,
                         !.underTen = o.underTen, !.fired = fired]
      IN  r \in Entries /\ r.primed = TRUE /\ r.exhausted = e.exhausted /\ r.fired = fired
  BY <1>2, <1>3, ObservationFields DEF Entries
<1>. QED  BY <1>1, <1>3, <1>4

LEMMA EvaluateKeeps ==
  ASSUME NoticeInv, NEW f \in Finishers, EvaluateSome(f)
  PROVE  NoticeInv'
<1>1. PICK o \in Observations, on \in Preferences : Evaluate(f, o, on)
  BY DEF EvaluateSome
<1>2. PICK r : r = Recovered(entry, o, on)
  OBVIOUS
<1>3. PICK e : e = NextPeriod(r, o)
  OBVIOUS
<1>4. PICK alerts : alerts = IF e.primed THEN Reached(e, o, on) ELSE {}
  OBVIOUS
<1>5. /\ finisher[f].at = "idle"
      /\ entry' = IF e.primed THEN Advanced(e, o, on) ELSE Primed(e, o)
      /\ finisher' = [finisher EXCEPT ![f] =
                        IF alerts = {} THEN Resting
                        ELSE [at |-> "deliver", alerts |-> alerts, failed |-> {},
                              previous |-> entry.previous, underTen |-> entry.underTen]]
      /\ told' = (told \intersect e.fired) \ alerts
      /\ forgotten' = {m \in missed \intersect on : Holds(m, o)} \ alerts
      /\ missed' = {} /\ owner' = IF e.resets = entry.resets THEN f ELSE Nobody
  BY <1>1, <1>2, <1>3, <1>4 DEF Evaluate
<1>6. entry \in Entries /\ finisher \in [Finishers -> Finishings]
  BY DEF NoticeInv, PaceTypeOK, Entries, Finishings
<1>7. /\ r \in Entries /\ r.resets = entry.resets /\ r.primed = entry.primed
      /\ r.previous = entry.previous /\ r.underTen = entry.underTen
      /\ r.fired \subseteq entry.fired /\ r.exhausted = o.spent
      /\ entry.exhausted /\ ~o.spent => "FullyUsed" \notin r.fired
      /\ entry.pendingReset /\ ~o.spent /\ "UsageReset" \in on => r.pendingReset
  BY <1>2, <1>6, RecoveredFields
<1>8. /\ e \in Entries /\ e.primed = entry.primed /\ e.exhausted = o.spent
      /\ e.fired \subseteq entry.fired
      /\ entry.exhausted /\ ~o.spent => "FullyUsed" \notin e.fired
      /\ entry.pendingReset /\ ~o.spent /\ "UsageReset" \in on => e.pendingReset
      /\ e.previous <= entry.previous /\ (e.underTen => entry.underTen)
      /\ e.resets = entry.resets => e.previous = entry.previous /\ e.underTen = entry.underTen
  BY <1>3, <1>7, NextPeriodFields
<1>9. /\ entry' \in Entries /\ entry'.primed /\ entry'.exhausted = o.spent
      /\ entry'.fired \subseteq e.fired \union alerts \union (IF o.spent THEN {"FullyUsed"} ELSE {})
  BY <1>4, <1>5, <1>8, AdvancedFields, PrimedFields
<1>10. alerts \in SUBSET Milestones
  BY <1>4, ReachedAreNotices
<1>11. PICK mine : mine = IF alerts = {} THEN Resting
                         ELSE [at |-> "deliver", alerts |-> alerts, failed |-> {},
                               previous |-> entry.previous, underTen |-> entry.underTen]
  OBVIOUS
<1>12. /\ mine \in Finishings /\ mine.alerts = alerts /\ mine.failed = {}
       /\ alerts # {} => mine.at = "deliver" /\ mine.previous = entry.previous
                         /\ mine.underTen = entry.underTen
  <2>1. NoSeverity \in Severities
    BY DEF NoSeverity, Severities, RunningOut
  <2>2. CASE alerts = {}
    BY <1>11, <2>1, <2>2 DEF Resting, Finishings
  <2>3. CASE alerts # {}
    BY <1>6, <1>10, <1>11, <2>3 DEF Finishings, Entries
  <2>. QED  BY <2>2, <2>3
<1>13. /\ finisher' \in [Finishers -> Finishings] /\ finisher'[f] = mine
       /\ \A g \in Finishers \ {f} : finisher'[g] = finisher[g]
  BY <1>5, <1>6, <1>11, <1>12
<1>14. forgotten' = {}
  <2>1. SUFFICES ASSUME NEW m \in missed, m \in on, Holds(m, o), m \notin alerts PROVE FALSE
    BY <1>5
  <2>2. /\ entry.primed /\ m \notin entry.fired
        /\ m = "AlmostOut" => ~entry.underTen
        /\ m = "UsageReset" => entry.pendingReset
        /\ m = "CuttingItClose" => entry.previous < CloseToLimit
        /\ m = "WillRunOut" => entry.previous < RunningOut
    BY DEF NoticeInv, MissedIsOpen
  <2>3. e.primed /\ alerts = Reached(e, o, on) /\ m \notin e.fired
    BY <1>4, <1>8, <2>2
  <2>4. e.previous \in Int /\ entry.previous \in Int
    BY <1>6, <1>8 DEF Entries, Severities, NoSeverity, RunningOut
  <2>5. m = "CuttingItClose" => e.previous < CloseToLimit
    BY <1>8, <2>2, <2>4 DEF CloseToLimit
  <2>6. m = "WillRunOut" => e.previous < RunningOut
    BY <1>8, <2>2, <2>4 DEF RunningOut
  <2>7. m = "AlmostOut" => ~e.underTen
    BY <1>8, <2>2
  <2>8. m = "UsageReset" /\ ~o.spent => e.pendingReset
    BY <1>8, <2>1, <2>2
  <2>. QED  BY <2>1, <2>3, <2>5, <2>6, <2>7, <2>8, Zenon DEF Reached, Paces, Holds
<1>15. PaceTypeOK'
  <2>1. told' \in SUBSET Milestones /\ missed' \in SUBSET Milestones
    BY <1>5 DEF NoticeInv, PaceTypeOK
  <2>2. owner' \in Finishers \union {Nobody}
    BY <1>5
  <2>. QED  BY <1>9, <1>13, <1>14, <2>1, <2>2 DEF PaceTypeOK, Entries, Finishings
<1>16. FiredIsAccountedFor'
  <2>1. SUFFICES ASSUME NEW m \in entry'.fired
                 PROVE  m \in told' \/ (\E g \in Finishers : Pending(g, m)')
                          \/ (m = "FullyUsed" /\ entry'.exhausted)
    BY DEF FiredIsAccountedFor
  <2>2. CASE m \in alerts
    BY <1>12, <1>13, <2>2 DEF Pending
  <2>3. CASE m \notin alerts /\ m \in e.fired
    <3>1. CASE m \in told
      BY <1>5, <2>3, <3>1
    <3>2. ASSUME NEW g \in Finishers, Pending(g, m) PROVE Pending(g, m)'
      BY <1>5, <1>13, <3>2 DEF Pending
    <3>3. CASE m = "FullyUsed" /\ entry.exhausted
      BY <1>8, <1>9, <2>3, <3>3
    <3>. QED  BY <1>8, <2>3, <3>1, <3>2, <3>3 DEF NoticeInv, FiredIsAccountedFor
  <2>4. CASE m \notin alerts /\ m \notin e.fired
    <3>1. m = "FullyUsed" /\ o.spent
      BY <1>9, <2>1, <2>4
    <3>. QED  BY <1>9, <3>1
  <2>. QED  BY <2>2, <2>3, <2>4
<1>17. FailedWereAlerts'
  BY <1>12, <1>13 DEF NoticeInv, FailedWereAlerts
<1>18. OwnerMayRepeat'
  <2>1. ASSUME NEW g \in Finishers, owner' = g, NEW m \in finisher'[g].alerts
        PROVE  /\ m = "AlmostOut" => ~finisher'[g].underTen
               /\ m = "CuttingItClose" => finisher'[g].previous < CloseToLimit
               /\ m = "WillRunOut" => finisher'[g].previous < RunningOut
    <3>1. g = f /\ e.resets = entry.resets
      BY <1>5, <2>1, PaceAssumption
    <3>2. m \in alerts /\ m \in Reached(e, o, on) /\ finisher'[g] = mine
      BY <1>4, <1>12, <1>13, <2>1, <3>1
    <3>3. mine.previous = e.previous /\ mine.underTen = e.underTen
      BY <1>8, <1>12, <3>1, <3>2
    <3>4. /\ m = "AlmostOut" => ~e.underTen
          /\ m = "CuttingItClose" => e.previous < CloseToLimit
          /\ m = "WillRunOut" => e.previous < RunningOut
      BY <3>2, Zenon DEF Reached, Paces
    <3>. QED  BY <3>2, <3>3, <3>4
  <2>. QED  BY <1>9, <2>1 DEF OwnerMayRepeat
<1>19. MissedIsOpen'
  BY <1>5 DEF MissedIsOpen
<1>. QED  BY <1>14, <1>15, <1>16, <1>17, <1>18, <1>19 DEF NoticeInv, NothingForgotten

LEMMA PruneKeeps ==
  ASSUME NoticeInv, NEW f \in Finishers, Prune(f)
  PROVE  NoticeInv'
<1>1. /\ entry' = Default /\ told' = {} /\ missed' = {} /\ owner' = Nobody
      /\ finisher' = finisher /\ forgotten' = forgotten
  BY DEF Prune
<1>2. Default \in Entries /\ Default.fired = {}
  BY DEF Default, Entries, Severities, NoSeverity, RunningOut
<1>3. PaceTypeOK'
  BY <1>1, <1>2 DEF NoticeInv, PaceTypeOK, Entries
<1>4. FiredIsAccountedFor' /\ MissedIsOpen'
  BY <1>1, <1>2 DEF FiredIsAccountedFor, MissedIsOpen
<1>5. FailedWereAlerts' /\ NothingForgotten'
  BY <1>1 DEF NoticeInv, FailedWereAlerts, NothingForgotten
<1>6. OwnerMayRepeat'
  BY <1>1, PaceAssumption DEF OwnerMayRepeat
<1>. QED  BY <1>3, <1>4, <1>5, <1>6 DEF NoticeInv

LEMMA DeliverKeeps ==
  ASSUME NoticeInv, NEW f \in Finishers, Deliver(f)
  PROVE  NoticeInv'
<1>1. finisher \in [Finishers -> Finishings] /\ finisher[f] \in Finishings
  BY DEF NoticeInv, PaceTypeOK, Finishings
<1>2. finisher[f].at = "deliver" /\ UNCHANGED <<entry, missed, forgotten, owner>>
  BY DEF Deliver
<1>3. PICK failed \in SUBSET finisher[f].alerts :
        /\ finisher' = [finisher EXCEPT ![f] =
                          IF failed = {} THEN Resting
                          ELSE [finisher[f] EXCEPT !.at = "rollback", !.failed = failed]]
        /\ told' = told \union (finisher[f].alerts \ failed)
  BY <1>1 DEF Deliver
<1>4. PICK mine : mine = IF failed = {} THEN Resting
                        ELSE [finisher[f] EXCEPT !.at = "rollback", !.failed = failed]
  OBVIOUS
<1>5. /\ mine \in Finishings /\ mine.failed = failed
      /\ failed = {} => mine.alerts = {}
      /\ failed # {} => /\ mine.at = "rollback" /\ mine.alerts = finisher[f].alerts
                        /\ mine.previous = finisher[f].previous /\ mine.underTen = finisher[f].underTen
  <2>1. NoSeverity \in Severities
    BY DEF NoSeverity, Severities, RunningOut
  <2>2. CASE failed = {}
    BY <1>4, <2>1, <2>2 DEF Resting, Finishings
  <2>3. CASE failed # {}
    BY <1>1, <1>3, <1>4, <2>3 DEF Finishings
  <2>. QED  BY <2>2, <2>3
<1>6. /\ finisher' \in [Finishers -> Finishings] /\ finisher'[f] = mine
      /\ \A g \in Finishers \ {f} : finisher'[g] = finisher[g]
  BY <1>1, <1>3, <1>4, <1>5
<1>7. PaceTypeOK'
  <2>1. told' \in SUBSET Milestones
    BY <1>1, <1>3 DEF NoticeInv, PaceTypeOK, Finishings
  <2>. QED  BY <1>2, <1>6, <2>1 DEF NoticeInv, PaceTypeOK, Finishings
<1>8. FiredIsAccountedFor'
  <2>1. SUFFICES ASSUME NEW m \in entry.fired, m \notin told',
                        ~(m = "FullyUsed" /\ entry.exhausted)
                 PROVE  \E g \in Finishers : Pending(g, m)'
    BY <1>2 DEF FiredIsAccountedFor
  <2>2. PICK g \in Finishers : Pending(g, m)
    BY <1>3, <2>1 DEF NoticeInv, FiredIsAccountedFor
  <2>3. CASE g # f
    BY <1>6, <2>2, <2>3 DEF Pending
  <2>4. CASE g = f
    <3>1. m \in failed
      BY <1>2, <1>3, <2>1, <2>2, <2>4 DEF Pending
    <3>. QED  BY <1>5, <1>6, <3>1 DEF Pending
  <2>. QED  BY <2>3, <2>4
<1>9. FailedWereAlerts'
  BY <1>3, <1>5, <1>6 DEF NoticeInv, FailedWereAlerts
<1>10. OwnerMayRepeat'
  <2>1. ASSUME NEW g \in Finishers, owner' = g, NEW m \in finisher'[g].alerts
        PROVE  /\ m = "AlmostOut" => ~finisher'[g].underTen
               /\ m = "CuttingItClose" => finisher'[g].previous < CloseToLimit
               /\ m = "WillRunOut" => finisher'[g].previous < RunningOut
    <3>1. /\ m \in finisher[g].alerts /\ owner = g
          /\ finisher'[g].underTen = finisher[g].underTen
          /\ finisher'[g].previous = finisher[g].previous
      BY <1>2, <1>5, <1>6, <2>1
    <3>. QED  BY <3>1 DEF NoticeInv, OwnerMayRepeat
  <2>. QED  BY <1>2, <2>1 DEF NoticeInv, OwnerMayRepeat
<1>11. MissedIsOpen' /\ NothingForgotten'
  BY <1>2 DEF NoticeInv, MissedIsOpen, NothingForgotten
<1>. QED  BY <1>7, <1>8, <1>9, <1>10, <1>11 DEF NoticeInv

LEMMA RollBackKeeps ==
  ASSUME NoticeInv, NEW f \in Finishers, RollBackFailed(f)
  PROVE  NoticeInv'
<1>1. /\ finisher \in [Finishers -> Finishings] /\ finisher[f] \in Finishings /\ entry \in Entries
      /\ finisher[f].failed \subseteq finisher[f].alerts
  BY DEF NoticeInv, PaceTypeOK, Finishings, Entries, FailedWereAlerts
<1>2. PICK failed : failed = finisher[f].failed
  OBVIOUS
<1>3. /\ finisher[f].at = "rollback" /\ UNCHANGED <<told, forgotten, owner>>
      /\ entry' = IF entry = Default THEN entry ELSE TakenBack(entry, failed, f)
      /\ missed' = IF owner = f THEN failed ELSE {}
      /\ finisher' = [finisher EXCEPT ![f] = Resting]
  BY <1>2 DEF RollBackFailed, TakenBack
<1>4. /\ finisher' \in [Finishers -> Finishings] /\ finisher'[f] = Resting
      /\ \A g \in Finishers \ {f} : finisher'[g] = finisher[g]
  <2>1. Resting \in Finishings
    BY DEF Resting, Finishings, NoSeverity, Severities, RunningOut
  <2>. QED  BY <1>1, <1>3, <2>1
<1>5. /\ entry' \in Entries /\ entry'.fired \subseteq entry.fired \ failed
      /\ entry'.primed = entry.primed /\ entry'.exhausted = entry.exhausted
      /\ entry # Default =>
           /\ "AlmostOut" \in failed => entry'.underTen = finisher[f].underTen
           /\ "UsageReset" \in failed => entry'.pendingReset
           /\ "CuttingItClose" \in failed \/ "WillRunOut" \in failed =>
                entry'.previous = finisher[f].previous
  <2>1. CASE entry = Default
    BY <1>1, <1>3, <2>1 DEF Default
  <2>2. CASE entry # Default
    <3>. DEFINE underTen == IF "AlmostOut" \in failed THEN finisher[f].underTen ELSE entry.underTen
                pending_ == entry.pendingReset \/ "UsageReset" \in failed
                previous == IF failed \intersect {"CuttingItClose", "WillRunOut"} # {}
                            THEN finisher[f].previous ELSE entry.previous
    <3>1. entry' = [entry EXCEPT !.fired = entry.fired \ failed, !.underTen = underTen,
                                 !.pendingReset = pending_, !.previous = previous]
      BY <1>1, <1>3, <2>2 DEF TakenBack, Entries
    <3>2. underTen \in BOOLEAN /\ previous \in Severities
      BY <1>1 DEF Entries, Finishings
    <3>3. pending_ \in BOOLEAN
      OBVIOUS
    <3>4. /\ "AlmostOut" \in failed => underTen = finisher[f].underTen
          /\ "UsageReset" \in failed => pending_
          /\ "CuttingItClose" \in failed \/ "WillRunOut" \in failed => previous = finisher[f].previous
      OBVIOUS
    <3>. HIDE DEF underTen, pending_, previous
    <3>5. /\ entry' \in Entries /\ entry'.fired = entry.fired \ failed
          /\ entry'.underTen = underTen /\ entry'.pendingReset = pending_
          /\ entry'.previous = previous
          /\ entry'.primed = entry.primed /\ entry'.exhausted = entry.exhausted
      BY <1>1, <3>1, <3>2, <3>3 DEF Entries
    <3>. QED  BY <2>2, <3>4, <3>5
  <2>. QED  BY <2>1, <2>2
<1>6. PaceTypeOK'
  <2>1. missed' \in SUBSET Milestones
    BY <1>1, <1>2, <1>3 DEF Finishings
  <2>. QED  BY <1>3, <1>4, <1>5, <2>1 DEF NoticeInv, PaceTypeOK, Finishings, Entries
<1>7. FiredIsAccountedFor'
  <2>1. SUFFICES ASSUME NEW m \in entry'.fired, m \notin told,
                        ~(m = "FullyUsed" /\ entry.exhausted)
                 PROVE  \E g \in Finishers : Pending(g, m)'
    BY <1>3, <1>5 DEF FiredIsAccountedFor
  <2>2. PICK g \in Finishers : Pending(g, m)
    BY <1>5, <2>1 DEF NoticeInv, FiredIsAccountedFor
  <2>3. g # f
    BY <1>2, <1>3, <1>5, <2>1, <2>2 DEF Pending
  <2>. QED  BY <1>4, <2>2, <2>3 DEF Pending
<1>8. FailedWereAlerts' /\ NothingForgotten'
  BY <1>3, <1>4 DEF NoticeInv, FailedWereAlerts, NothingForgotten, Resting
<1>9. OwnerMayRepeat'
  <2>1. ASSUME NEW g \in Finishers, owner' = g, NEW m \in finisher'[g].alerts
        PROVE  /\ m = "AlmostOut" => ~finisher'[g].underTen
               /\ m = "CuttingItClose" => finisher'[g].previous < CloseToLimit
               /\ m = "WillRunOut" => finisher'[g].previous < RunningOut
    <3>1. g # f
      BY <1>4, <2>1 DEF Resting
    <3>. QED  BY <1>3, <1>4, <2>1, <3>1 DEF NoticeInv, OwnerMayRepeat
  <2>. QED  BY <1>3, <1>5, <2>1 DEF NoticeInv, OwnerMayRepeat
<1>10. MissedIsOpen'
  <2>1. SUFFICES ASSUME NEW m \in missed'
                 PROVE  /\ entry'.primed /\ m \notin entry'.fired
                        /\ m = "AlmostOut" => ~entry'.underTen
                        /\ m = "UsageReset" => entry'.pendingReset
                        /\ m = "CuttingItClose" => entry'.previous < CloseToLimit
                        /\ m = "WillRunOut" => entry'.previous < RunningOut
    BY DEF MissedIsOpen
  <2>2. owner = f /\ m \in failed
    BY <1>3, <2>1
  <2>3. entry.primed /\ entry # Default
    BY <2>2, PaceAssumption DEF NoticeInv, OwnerMayRepeat, Default
  <2>4. /\ m = "AlmostOut" => ~finisher[f].underTen
        /\ m = "CuttingItClose" => finisher[f].previous < CloseToLimit
        /\ m = "WillRunOut" => finisher[f].previous < RunningOut
    BY <1>1, <1>2, <2>2 DEF NoticeInv, OwnerMayRepeat
  <2>. QED  BY <1>5, <2>2, <2>3, <2>4
<1>. QED  BY <1>6, <1>7, <1>8, <1>9, <1>10 DEF NoticeInv

LEMMA NoticesBegin ==
  ASSUME PaceInit
  PROVE  NoticeInv
<1>1. /\ entry = Default /\ finisher = [f \in Finishers |-> Resting]
      /\ told = {} /\ missed = {} /\ forgotten = {} /\ owner = Nobody
  BY DEF PaceInit
<1>2. Default \in Entries /\ Default.fired = {}
  BY DEF Default, Entries, Severities, NoSeverity, RunningOut
<1>3. Resting \in Finishings /\ Resting.failed = {}
  BY DEF Resting, Finishings, NoSeverity, Severities, RunningOut
<1>4. PaceTypeOK
  BY <1>1, <1>2, <1>3 DEF PaceTypeOK, Entries, Finishings
<1>5. FiredIsAccountedFor /\ MissedIsOpen /\ FailedWereAlerts /\ NothingForgotten
  BY <1>1, <1>2, <1>3 DEF FiredIsAccountedFor, MissedIsOpen, FailedWereAlerts, NothingForgotten
<1>6. OwnerMayRepeat
  BY <1>1, PaceAssumption DEF OwnerMayRepeat
<1>. QED  BY <1>4, <1>5, <1>6 DEF NoticeInv

LEMMA NoticeStepKeeps ==
  ASSUME NoticeInv, [PaceNext]_paceVars
  PROVE  NoticeInv'
<1>1. CASE UNCHANGED paceVars
  BY <1>1 DEF paceVars, NoticeInv, PaceTypeOK, FiredIsAccountedFor, Pending, FailedWereAlerts,
              OwnerMayRepeat, MissedIsOpen, NothingForgotten
<1>. QED  BY <1>1, EvaluateKeeps, PruneKeeps, DeliverKeeps, RollBackKeeps DEF PaceNext

LEMMA FiredIsPending ==
  ASSUME NoticeInv
  PROVE  NoticesAreTold
<1>1. \A f \in Finishers, m \in Milestones : Pending(f, m) => m \in finisher[f].alerts
  BY DEF NoticeInv, FailedWereAlerts, Pending
<1>2. entry.fired \subseteq Milestones
  BY DEF NoticeInv, PaceTypeOK
<1>. QED  BY <1>1, <1>2 DEF NoticeInv, FiredIsAccountedFor, NoticesAreTold, FiredIsTold

(* What counts as fired was told or is about to be, in any overlap of      *)
(* evaluations; what could not be delivered is offered again, unless       *)
(* another evaluation came in between or the first began a new period      *)
(* (pacing.rs, notifications.rs).                                          *)
THEOREM NoticesAreAccountedFor == PaceSpec => []NoticesAreTold
BY NoticesBegin, NoticeStepKeeps, FiredIsPending, PTL DEF PaceSpec

-----------------------------------------------------------------------------
(* The layout: the entries of a list at some places                        *)

LEMMA CardinalityOfLayout == \A S : Layout!Cardinality(S) = Cardinality(S)
BY Zenon DEF Layout!Cardinality, Cardinality

LEMMA Least ==
  ASSUME NEW S \in SUBSET Nat, S # {}
  PROVE  \E n \in S : \A m \in S : n <= m
<1>. DEFINE R == OpToRel(<, Nat)
<1>1. \A m, n \in Nat : <<m, n>> \in R <=> m < n
  BY DEF OpToRel
<1>2. \E n \in S : \A m \in S : ~(<<m, n>> \in R)
  BY NatLessThanWellFounded, WFMin
<1>. HIDE DEF R
<1>3. PICK n \in S : \A m \in S : ~(<<m, n>> \in R)
  BY <1>2
<1>4. n \in Nat /\ \A m \in S : m \in Nat
  OBVIOUS
<1>5. \A m \in S : ~(m < n)
  BY <1>1, <1>3, <1>4
<1>. QED  BY <1>4, <1>5

Rank(at, i) == Cardinality(at \intersect (1 .. i))

LEMMA RankGrows ==
  ASSUME NEW n \in Nat, NEW at \in SUBSET (1 .. n)
  PROVE  /\ IsFiniteSet(at) /\ Cardinality(at) \in Nat
         /\ \A i \in Nat : Rank(at, i) \in 0 .. Cardinality(at)
         /\ \A i \in at : Rank(at, i) = Rank(at, i - 1) + 1
         /\ \A i \in Nat \ {0} : i \notin at => Rank(at, i) = Rank(at, i - 1)
         /\ \A i, j \in Nat : i <= j => Rank(at, i) <= Rank(at, j)
         /\ Rank(at, 0) = 0 /\ Rank(at, n) = Cardinality(at)
<1>1. IsFiniteSet(at) /\ Cardinality(at) \in Nat
  <2>1. IsFiniteSet(1 .. n)
    BY FS_Interval
  <2>2. IsFiniteSet(at)
    BY <2>1, FS_Subset
  <2>. QED  BY <2>2, FS_CardinalityType
<1>2. ASSUME NEW i \in Nat
      PROVE  IsFiniteSet(at \intersect (1 .. i)) /\ Rank(at, i) \in 0 .. Cardinality(at)
  <2>1. /\ IsFiniteSet(at \intersect (1 .. i))
        /\ Cardinality(at \intersect (1 .. i)) <= Cardinality(at)
    BY <1>1, FS_Intersection
  <2>2. Cardinality(at \intersect (1 .. i)) \in Nat
    BY <2>1, FS_CardinalityType
  <2>. QED  BY <1>1, <2>1, <2>2 DEF Rank
<1>3. ASSUME NEW i \in at PROVE Rank(at, i) = Rank(at, i - 1) + 1
  <2>1. i \in Nat \ {0} /\ i - 1 \in Nat
    OBVIOUS
  <2>2. 1 .. i = (1 .. i - 1) \union {i} /\ i \notin 1 .. i - 1
    BY <2>1
  <2>3. /\ at \intersect (1 .. i) = (at \intersect (1 .. i - 1)) \union {i}
        /\ i \notin at \intersect (1 .. i - 1)
    BY <2>2
  <2>. QED  BY <1>2, <2>1, <2>3, FS_AddElement DEF Rank
<1>4. ASSUME NEW i \in Nat \ {0}, i \notin at PROVE Rank(at, i) = Rank(at, i - 1)
  <2>1. 1 .. i = (1 .. i - 1) \union {i}
    OBVIOUS
  <2>2. at \intersect (1 .. i) = at \intersect (1 .. i - 1)
    BY <1>4, <2>1
  <2>. QED  BY <2>2 DEF Rank
<1>5. ASSUME NEW i \in Nat, NEW j \in Nat, i <= j PROVE Rank(at, i) <= Rank(at, j)
  <2>1. 1 .. i \subseteq 1 .. j
    BY <1>5
  <2>2. at \intersect (1 .. i) \in SUBSET (at \intersect (1 .. j))
    BY <2>1
  <2>. QED  BY <1>2, <2>2, FS_Subset DEF Rank
<1>6. Rank(at, 0) = 0 /\ Rank(at, n) = Cardinality(at)
  <2>1. 1 .. 0 = {}
    OBVIOUS
  <2>2. at \intersect (1 .. 0) = {} /\ at \intersect (1 .. n) = at
    BY <2>1
  <2>. QED  BY <2>2, FS_EmptySet DEF Rank
<1>. QED  BY <1>1, <1>2, <1>3, <1>4, <1>5, <1>6

LEMMA RankIsStrict ==
  ASSUME NEW n \in Nat, NEW at \in SUBSET (1 .. n)
  PROVE  /\ \A i \in at : i \in Nat /\ Rank(at, i) \in 1 .. Cardinality(at)
         /\ \A i, j \in at : i < j => Rank(at, i) < Rank(at, j)
<1>1. ASSUME NEW i \in at PROVE i \in Nat /\ i - 1 \in Nat /\ Rank(at, i) \in 1 .. Cardinality(at)
  <2>1. i \in Nat /\ i - 1 \in Nat
    OBVIOUS
  <2>2. Cardinality(at) \in Nat /\ \A j \in Nat : Rank(at, j) \in 0 .. Cardinality(at)
    BY RankGrows
  <2>3. Rank(at, i) = Rank(at, i - 1) + 1
    BY RankGrows
  <2>4. Rank(at, i) \in 0 .. Cardinality(at) /\ Rank(at, i - 1) \in 0 .. Cardinality(at)
    BY <2>1, <2>2
  <2>. QED  BY <2>1, <2>2, <2>3, <2>4
<1>2. ASSUME NEW i \in at, NEW j \in at, i < j PROVE Rank(at, i) < Rank(at, j)
  <2>1. i \in Nat /\ j - 1 \in Nat /\ i <= j - 1
    BY <1>1, <1>2
  <2>2. Rank(at, i) <= Rank(at, j - 1) /\ Rank(at, j) = Rank(at, j - 1) + 1
    BY <2>1, RankGrows
  <2>3. Rank(at, i) \in 0 .. Cardinality(at) /\ Rank(at, j - 1) \in 0 .. Cardinality(at)
        /\ Cardinality(at) \in Nat
    BY <2>1, RankGrows
  <2>. QED  BY <2>2, <2>3
<1>. QED  BY <1>1, <1>2

LEMMA RankReaches ==
  ASSUME NEW n \in Nat, NEW at \in SUBSET (1 .. n), NEW k \in 1 .. Cardinality(at)
  PROVE  \E i \in at : Rank(at, i) = k
<1>1. Cardinality(at) \in Nat /\ \A i \in Nat : Rank(at, i) \in Nat
  BY RankGrows
<1>. DEFINE far == {i \in Nat : Rank(at, i) >= k}
<1>2. far # {} /\ far \in SUBSET Nat
  <2>1. Rank(at, n) = Cardinality(at)
    BY RankGrows
  <2>2. n \in far
    BY <1>1, <2>1
  <2>. QED  BY <2>2
<1>3. PICK i \in far : \A m \in far : i <= m
  <2>. HIDE DEF far
  <2>. QED  BY <1>2, Least
<1>4. i \in Nat /\ Rank(at, i) >= k /\ i # 0
  BY RankGrows
<1>5. i - 1 \in Nat /\ ~(Rank(at, i - 1) >= k)
  BY <1>3, <1>4
<1>6. Rank(at, i) # Rank(at, i - 1)
  BY <1>4, <1>5
<1>7. i \in at /\ Rank(at, i) = Rank(at, i - 1) + 1
  BY <1>4, <1>6, RankGrows
<1>. QED  BY <1>1, <1>4, <1>5, <1>7

(* The k-th of the places.                                                 *)
LEMMA PlacesRise ==
  ASSUME NEW n \in Nat, NEW at \in SUBSET (1 .. n)
  PROVE  /\ Cardinality(at) \in Nat
         /\ \A k \in 1 .. Cardinality(at) : Layout!Place(at, k) \in at
         /\ \A k, l \in 1 .. Cardinality(at) : Layout!Place(at, k) = Layout!Place(at, l) => k = l
         /\ \A i \in at : Rank(at, i) \in 1 .. Cardinality(at) /\ Layout!Place(at, Rank(at, i)) = i
<1>1. Cardinality(at) \in Nat
  BY RankGrows
<1>2. ASSUME NEW k \in 1 .. Cardinality(at)
      PROVE  Layout!Place(at, k) \in at /\ Rank(at, Layout!Place(at, k)) = k
  <2>1. \E i \in at : Cardinality(at \intersect (1 .. i)) = k
    BY RankReaches DEF Rank
  <2>2. /\ Layout!Place(at, k) \in at
        /\ Cardinality(at \intersect (1 .. Layout!Place(at, k))) = k
    BY <2>1, CardinalityOfLayout, Zenon DEF Layout!Place
  <2>. QED  BY <2>2 DEF Rank
<1>3. ASSUME NEW i \in at
      PROVE  Rank(at, i) \in 1 .. Cardinality(at) /\ Layout!Place(at, Rank(at, i)) = i
  <2>1. Rank(at, i) \in 1 .. Cardinality(at) /\ i \in Nat
    BY RankIsStrict
  <2>2. PICK j \in at : j = Layout!Place(at, Rank(at, i)) /\ Rank(at, j) = Rank(at, i)
    BY <1>2, <2>1
  <2>3. j \in Nat /\ Rank(at, i) \in Nat
    BY <1>1, <2>1
  <2>4. (i < j => Rank(at, i) < Rank(at, j)) /\ (j < i => Rank(at, j) < Rank(at, i))
    BY RankIsStrict
  <2>. QED  BY <2>1, <2>2, <2>3, <2>4
<1>. QED  BY <1>1, <1>2, <1>3

(* No id twice.                                                            *)
Unique(list) == \A i, j \in DOMAIN list : list[i].id = list[j].id => i = j

(* What is given for every place up to n is a list of n.                   *)
LEMMA ListFromFunction ==
  ASSUME NEW S, NEW n \in Nat, NEW list \in [1 .. n -> S]
  PROVE  list \in Seq(S) /\ Len(list) = n
OBVIOUS

(* In a list of entries are those of the list before it, in their order.   *)
LEMMA EntriesOfList ==
  ASSUME NEW S, NEW list \in Seq(S), NEW at \in SUBSET DOMAIN list,
         NEW entries, entries = Layout!Entries(list, at)
  PROVE  /\ entries \in Seq(S) /\ Len(entries) = Cardinality(at) /\ Len(entries) \in Nat
         /\ \A k \in DOMAIN entries : \E i \in at : entries[k] = list[i]
         /\ \A i \in at : \E k \in DOMAIN entries : entries[k] = list[i]
         /\ \A i, j \in at : i < j =>
              \E k, l \in DOMAIN entries : k < l /\ entries[k] = list[i] /\ entries[l] = list[j]
         /\ (\A i, j \in at : list[i] = list[j] => i = j) =>
              \A k, l \in DOMAIN entries : entries[k] = entries[l] => k = l
         /\ (\A i, j \in at : list[i].id = list[j].id => i = j) => Unique(entries)
<1>1. DOMAIN list = 1 .. Len(list) /\ Len(list) \in Nat
  OBVIOUS
<1>2. /\ Cardinality(at) \in Nat
      /\ \A k \in 1 .. Cardinality(at) : Layout!Place(at, k) \in at
      /\ \A k, l \in 1 .. Cardinality(at) : Layout!Place(at, k) = Layout!Place(at, l) => k = l
      /\ \A i \in at : Rank(at, i) \in 1 .. Cardinality(at) /\ Layout!Place(at, Rank(at, i)) = i
  BY <1>1, PlacesRise
<1>3. /\ DOMAIN entries = 1 .. Cardinality(at)
      /\ \A k \in 1 .. Cardinality(at) : entries[k] = list[Layout!Place(at, k)]
  <2>1. entries = [k \in 1 .. Cardinality(at) |-> list[Layout!Place(at, k)]]
    BY CardinalityOfLayout DEF Layout!Entries
  <2>. QED  BY <2>1, Zenon
<1>4. entries \in Seq(S) /\ Len(entries) = Cardinality(at)
  <2>1. \A k \in 1 .. Cardinality(at) : entries[k] \in S
    BY <1>2, <1>3
  <2>2. entries = [k \in 1 .. Cardinality(at) |-> entries[k]]
    BY <1>3, CardinalityOfLayout DEF Layout!Entries
  <2>3. entries \in [1 .. Cardinality(at) -> S]
    BY <2>1, <2>2
  <2>. QED  BY <1>2, <2>3
<1>5. ASSUME NEW i \in at, NEW j \in at, i < j
      PROVE  \E k, l \in DOMAIN entries : k < l /\ entries[k] = list[i] /\ entries[l] = list[j]
  <2>1. Rank(at, i) < Rank(at, j)
    BY <1>1, <1>5, RankIsStrict
  <2>. QED  BY <1>2, <1>3, <2>1
<1>7. (\A i, j \in at : list[i] = list[j] => i = j) =>
        \A k, l \in DOMAIN entries : entries[k] = entries[l] => k = l
  BY <1>2, <1>3
<1>8. (\A i, j \in at : list[i].id = list[j].id => i = j) => Unique(entries)
  BY <1>2, <1>3 DEF Unique
<1>9. \A k \in DOMAIN entries : \E i \in at : entries[k] = list[i]
  BY <1>2, <1>3
<1>10. \A i \in at : \E k \in DOMAIN entries : entries[k] = list[i]
  BY <1>2, <1>3
<1>. QED  BY <1>2, <1>4, <1>5, <1>7, <1>8, <1>9, <1>10

IdsIn(list) == {list[i].id : i \in DOMAIN list}

LEMMA IsTruth == \A x, S : (x \in S) \in BOOLEAN
OBVIOUS

(* A list of two lists.                                                    *)
Joins(new, s, t) ==
  /\ Len(new) = Len(s) + Len(t) /\ Len(s) \in Nat
  /\ \A k \in DOMAIN s : k \in DOMAIN new /\ new[k] = s[k]
  /\ \A k \in DOMAIN t : Len(s) + k \in DOMAIN new /\ new[Len(s) + k] = t[k]
  /\ \A k \in DOMAIN new :
       \/ k \in DOMAIN s /\ new[k] = s[k]
       \/ ~(k \in DOMAIN s) /\ k - Len(s) \in DOMAIN t /\ new[k] = t[k - Len(s)]
  /\ IdsIn(new) = IdsIn(s) \union IdsIn(t)
  /\ Unique(s) /\ Unique(t) /\ IdsIn(s) \intersect IdsIn(t) = {} => Unique(new)

LEMMA JoinedLists ==
  ASSUME NEW S, NEW s \in Seq(S), NEW t \in Seq(S)
  PROVE  s \o t \in Seq(S) /\ Joins(s \o t, s, t)
<1>. DEFINE new == s \o t
<1>1. /\ new \in Seq(S) /\ Len(new) = Len(s) + Len(t) /\ Len(s) \in Nat /\ Len(t) \in Nat
      /\ DOMAIN new = 1 .. Len(s) + Len(t) /\ DOMAIN s = 1 .. Len(s) /\ DOMAIN t = 1 .. Len(t)
      /\ \A k \in 1 .. Len(s) + Len(t) : new[k] = IF k <= Len(s) THEN s[k] ELSE t[k - Len(s)]
  OBVIOUS
<1>. HIDE DEF new
<1>2. ASSUME NEW k \in DOMAIN s PROVE k \in DOMAIN new /\ new[k] = s[k]
  BY <1>1
<1>3. ASSUME NEW k \in DOMAIN t PROVE Len(s) + k \in DOMAIN new /\ new[Len(s) + k] = t[k]
  <2>1. k \in Nat /\ 1 <= k /\ k <= Len(t) /\ (Len(s) + k) - Len(s) = k
    BY <1>1
  <2>2. Len(s) + k \in DOMAIN new /\ ~(Len(s) + k <= Len(s))
    BY <1>1, <2>1
  <2>. QED  BY <1>1, <2>1, <2>2
<1>4. ASSUME NEW k \in DOMAIN new
      PROVE  \/ k \in DOMAIN s /\ new[k] = s[k]
             \/ ~(k \in DOMAIN s) /\ k - Len(s) \in DOMAIN t /\ new[k] = t[k - Len(s)]
  BY <1>1
<1>5. IdsIn(new) = IdsIn(s) \union IdsIn(t)
  <2>1. \A k \in DOMAIN new : new[k].id \in IdsIn(s) \union IdsIn(t)
    BY <1>4 DEF IdsIn
  <2>2. \A k \in DOMAIN s : s[k].id \in IdsIn(new)
    BY <1>2 DEF IdsIn
  <2>3. \A k \in DOMAIN t : t[k].id \in IdsIn(new)
    BY <1>3 DEF IdsIn
  <2>4. IdsIn(new) \subseteq IdsIn(s) \union IdsIn(t)
    BY <2>1, Zenon DEF IdsIn
  <2>5. IdsIn(s) \subseteq IdsIn(new) /\ IdsIn(t) \subseteq IdsIn(new)
    BY <2>2, <2>3, Zenon DEF IdsIn
  <2>. QED  BY <2>4, <2>5, Zenon
<1>6. ASSUME Unique(s), Unique(t), IdsIn(s) \intersect IdsIn(t) = {} PROVE Unique(new)
  <2>1. ASSUME NEW k \in DOMAIN new, NEW l \in DOMAIN new, new[k].id = new[l].id PROVE k = l
    <3>1. CASE k \in DOMAIN s /\ l \in DOMAIN s
      BY <1>2, <1>6, <2>1, <3>1 DEF Unique
    <3>2. CASE k \notin DOMAIN s /\ l \notin DOMAIN s
      <4>1. /\ k - Len(s) \in DOMAIN t /\ l - Len(s) \in DOMAIN t
            /\ t[k - Len(s)].id = t[l - Len(s)].id
        BY <1>4, <2>1, <3>2
      <4>2. k - Len(s) = l - Len(s)
        BY <1>6, <4>1 DEF Unique
      <4>. QED  BY <1>1, <4>2
    <3>3. ASSUME NEW i \in DOMAIN s, NEW j \in DOMAIN t PROVE s[i].id # t[j].id
      BY <1>6 DEF IdsIn
    <3>4. ~(k \in DOMAIN s /\ l \notin DOMAIN s) /\ ~(k \notin DOMAIN s /\ l \in DOMAIN s)
      BY <1>4, <2>1, <3>3
    <3>. QED  BY <3>1, <3>2, <3>4
  <2>. QED  BY <2>1 DEF Unique
<1>. QED  BY <1>1, <1>2, <1>3, <1>4, <1>5, <1>6 DEF Joins, new

Cards == [id : STRING, enabled : BOOLEAN, detected : BOOLEAN]

(* One id stands before another.                                           *)
Precedes(list, a, b) ==
  \E i, j \in DOMAIN list : i < j /\ list[i].id = a /\ list[j].id = b

NamesIn(names) == {names[i] : i \in DOMAIN names}

(* normalize(): what the release has stays as it was and in its order, and *)
(* the others are turned on only if they are new.                          *)
LEMMA ProvidersNormalized ==
  ASSUME NEW catalog, catalog.providers \in Seq(STRING),
         \A i, j \in DOMAIN catalog.providers : catalog.providers[i] = catalog.providers[j] => i = j,
         NEW list \in Seq(Cards), Unique(list), NEW seen, NEW found,
         IdsIn(list) \subseteq seen \/ seen = {},
         NEW new, new = Layout!NormalizeProviders(catalog, list, seen, found)
  PROVE  /\ new \in Seq(Cards) /\ Unique(new) /\ IdsIn(new) = NamesIn(catalog.providers)
         /\ \A k \in DOMAIN new :
              \/ \E i \in DOMAIN list : list[i].id = new[k].id /\ new[k].enabled = list[i].enabled
              \/ new[k].id \notin IdsIn(list) /\ (new[k].enabled => new[k].id \notin seen)
         /\ \A a, b \in NamesIn(catalog.providers) : Precedes(list, a, b) => Precedes(new, a, b)
<1>. DEFINE before == IF seen = {} THEN IdsIn(list) ELSE seen
            names == catalog.providers
            P == {i \in DOMAIN list : list[i].id \in NamesIn(names)}
            Q == {i \in DOMAIN names : names[i] \notin IdsIn(list)}
            kept == Layout!Entries(list, P)
            added == Layout!Entries(names, Q)
            first == [i \in DOMAIN kept |->
                        [kept[i] EXCEPT !.enabled = IF kept[i].id \in before THEN @
                                                    ELSE kept[i].id \in found,
                                        !.detected = kept[i].id \in found]]
            second == [i \in DOMAIN added |->
                         [id |-> added[i], enabled |-> added[i] \notin before /\ added[i] \in found,
                          detected |-> added[i] \in found]]
<1>1. new = first \o second
  <2>1. /\ \A i \in DOMAIN list : Layout!Contains(names, list[i].id) <=> list[i].id \in NamesIn(names)
        /\ \A i \in DOMAIN names : Layout!Has(list, names[i]) <=> names[i] \in IdsIn(list)
    <3>1. DOMAIN names = 1 .. Len(names)
      OBVIOUS
    <3>. QED  BY <3>1 DEF Layout!Contains, Layout!Has, NamesIn, IdsIn
  <2>2. /\ P = {i \in DOMAIN list : Layout!Contains(names, list[i].id)}
        /\ Q = {i \in DOMAIN names : ~Layout!Has(list, names[i])}
    BY <2>1
  <2>3. IdsIn(list) = Layout!ToSet(Layout!Ids(list))
    BY DEF Layout!ToSet, Layout!Ids, IdsIn
  <2>. QED  BY <2>2, <2>3, Zenon DEF Layout!NormalizeProviders
<1>2. /\ kept \in Seq(Cards) /\ Len(kept) \in Nat /\ Unique(kept)
      /\ \A k \in DOMAIN kept : \E i \in P : kept[k] = list[i]
      /\ \A i \in P : \E k \in DOMAIN kept : kept[k] = list[i]
      /\ \A i, j \in P : i < j =>
           \E k, l \in DOMAIN kept : k < l /\ kept[k] = list[i] /\ kept[l] = list[j]
  <2>. DEFINE at == P
  <2>1. at \in SUBSET DOMAIN list /\ \A i, j \in at : list[i].id = list[j].id => i = j
    BY DEF Unique
  <2>. HIDE DEF at
  <2>2. \A entries : entries = Layout!Entries(list, at) =>
          /\ entries \in Seq(Cards) /\ Len(entries) \in Nat /\ Unique(entries)
          /\ \A k \in DOMAIN entries : \E i \in at : entries[k] = list[i]
          /\ \A i \in at : \E k \in DOMAIN entries : entries[k] = list[i]
          /\ \A i, j \in at : i < j =>
               \E k, l \in DOMAIN entries : k < l /\ entries[k] = list[i] /\ entries[l] = list[j]
    BY <2>1, EntriesOfList
  <2>3. kept = Layout!Entries(list, at) /\ at = P
    BY DEF at
  <2>. HIDE DEF kept, P
  <2>. QED  BY <2>2, <2>3
<1>3. /\ added \in Seq(STRING) /\ Len(added) \in Nat
      /\ \A k \in DOMAIN added : \E i \in Q : added[k] = names[i]
      /\ \A i \in Q : \E k \in DOMAIN added : added[k] = names[i]
      /\ \A k, l \in DOMAIN added : added[k] = added[l] => k = l
  <2>. DEFINE at == Q
  <2>1. at \in SUBSET DOMAIN names /\ \A i, j \in at : names[i] = names[j] => i = j
    OBVIOUS
  <2>. HIDE DEF at
  <2>2. \A entries : entries = Layout!Entries(names, at) =>
          /\ entries \in Seq(STRING) /\ Len(entries) \in Nat
          /\ \A k \in DOMAIN entries : \E i \in at : entries[k] = names[i]
          /\ \A i \in at : \E k \in DOMAIN entries : entries[k] = names[i]
          /\ \A k, l \in DOMAIN entries : entries[k] = entries[l] => k = l
    BY <2>1, EntriesOfList, SMTT(30)
  <2>. QED  BY <2>2 DEF at
<1>4. IdsIn(list) \subseteq before
  OBVIOUS
<1>. HIDE DEF before, kept, added
<1>5. ASSUME NEW k \in DOMAIN kept
      PROVE  /\ first[k] \in Cards /\ first[k].id = kept[k].id
             /\ first[k].enabled = kept[k].enabled
  <2>1. kept[k] \in Cards
    BY <1>2
  <2>2. kept[k].id \in IdsIn(list)
    BY <1>2 DEF IdsIn
  <2>3. first[k] = [kept[k] EXCEPT !.enabled = kept[k].enabled, !.detected = kept[k].id \in found]
    BY <1>4, <2>1, <2>2 DEF Cards
  <2>4. PICK b \in BOOLEAN : b = (kept[k].id \in found)
    BY IsTruth
  <2>5. first[k] = [kept[k] EXCEPT !.enabled = kept[k].enabled, !.detected = b]
    BY <2>3, <2>4
  <2>. HIDE DEF first
  <2>. QED  BY <2>1, <2>5 DEF Cards
<1>6. first \in Seq(Cards) /\ DOMAIN first = DOMAIN kept /\ Unique(first)
  <2>1. DOMAIN kept = 1 .. Len(kept)
    BY <1>2
  <2>2. first \in [1 .. Len(kept) -> Cards]
    BY <1>5, <2>1
  <2>. HIDE DEF first
  <2>3. first \in Seq(Cards)
    <3>1. Len(kept) \in Nat
      BY <1>2
    <3>. QED  BY <2>2, <3>1, ListFromFunction
  <2>4. DOMAIN first = DOMAIN kept
    BY <2>1, <2>2
  <2>5. Unique(first)
    BY <1>2, <1>5, <2>4 DEF Unique
  <2>. QED  BY <2>3, <2>4, <2>5
<1>7. ASSUME NEW k \in DOMAIN added
      PROVE  /\ second[k] \in Cards /\ second[k].id = added[k]
             /\ second[k].enabled => added[k] \notin before
  <2>1. added[k] \in STRING
    BY <1>3
  <2>2. PICK a, b \in BOOLEAN :
          a = (added[k] \notin before /\ added[k] \in found) /\ b = (added[k] \in found)
    <3>1. (added[k] \notin before /\ added[k] \in found) \in BOOLEAN
      BY Zenon
    <3>. QED  BY <3>1, IsTruth, Zenon
  <2>3. second[k] = [id |-> added[k], enabled |-> a, detected |-> b]
    BY <2>2, Zenon
  <2>4. a => added[k] \notin before
    BY <2>2, Zenon
  <2>. HIDE DEF second
  <2>. QED  BY <2>1, <2>3, <2>4 DEF Cards
<1>8. second \in Seq(Cards) /\ DOMAIN second = DOMAIN added /\ Unique(second)
  <2>1. DOMAIN added = 1 .. Len(added)
    BY <1>3
  <2>2. second \in [1 .. Len(added) -> Cards]
    BY <1>7, <2>1
  <2>. HIDE DEF second
  <2>3. second \in Seq(Cards)
    <3>1. Len(added) \in Nat
      BY <1>3
    <3>. QED  BY <2>2, <3>1, ListFromFunction
  <2>4. DOMAIN second = DOMAIN added
    BY <2>1, <2>2
  <2>5. Unique(second)
    BY <1>3, <1>7, <2>4 DEF Unique
  <2>. QED  BY <2>3, <2>4, <2>5
<1>. HIDE DEF first, second
<1>9. IdsIn(first) = IdsIn(list) \intersect NamesIn(names)
  <2>1. ASSUME NEW k \in DOMAIN first PROVE first[k].id \in IdsIn(list) \intersect NamesIn(names)
    BY <1>2, <1>5, <1>6 DEF IdsIn
  <2>2. ASSUME NEW a \in IdsIn(list) \intersect NamesIn(names) PROVE \E k \in DOMAIN first : first[k].id = a
    <3>1. PICK i \in DOMAIN list : list[i].id = a
      BY DEF IdsIn
    <3>2. i \in P
      BY <3>1
    <3>3. PICK k \in DOMAIN kept : kept[k] = list[i]
      BY <1>2, <3>2
    <3>. QED  BY <1>5, <1>6, <3>1, <3>3
  <2>. QED  BY <2>1, <2>2 DEF IdsIn
<1>10. IdsIn(second) = NamesIn(names) \ IdsIn(list)
  <2>1. ASSUME NEW k \in DOMAIN second PROVE second[k].id \in NamesIn(names) \ IdsIn(list)
    BY <1>3, <1>7, <1>8 DEF NamesIn
  <2>2. ASSUME NEW a \in NamesIn(names) \ IdsIn(list) PROVE \E k \in DOMAIN second : second[k].id = a
    <3>1. PICK i \in DOMAIN names : names[i] = a
      BY DEF NamesIn
    <3>2. i \in Q
      BY <3>1
    <3>3. PICK k \in DOMAIN added : added[k] = names[i]
      BY <1>3, <3>2
    <3>. QED  BY <1>7, <1>8, <3>1, <3>3
  <2>. QED  BY <2>1, <2>2 DEF IdsIn
<1>11. /\ new \in Seq(Cards)
       /\ \A k \in DOMAIN first : k \in DOMAIN new /\ new[k] = first[k]
       /\ \A k \in DOMAIN new :
            \/ k \in DOMAIN first /\ new[k] = first[k]
            \/ k - Len(first) \in DOMAIN second /\ new[k] = second[k - Len(first)]
       /\ IdsIn(new) = IdsIn(first) \union IdsIn(second) /\ Unique(new)
  <2>1. IdsIn(first) \intersect IdsIn(second) = {}
    BY <1>9, <1>10
  <2>2. new \in Seq(Cards) /\ Joins(new, first, second)
    BY <1>1, <1>6, <1>8, JoinedLists
  <2>. QED  BY <1>6, <1>8, <2>1, <2>2, Zenon DEF Joins
<1>12. ASSUME NEW k \in DOMAIN new
       PROVE  \/ \E i \in DOMAIN list : list[i].id = new[k].id /\ new[k].enabled = list[i].enabled
              \/ new[k].id \notin IdsIn(list) /\ (new[k].enabled => new[k].id \notin seen)
  <2>1. CASE k \in DOMAIN first /\ new[k] = first[k]
    <3>1. PICK i \in P : kept[k] = list[i]
      BY <1>2, <1>6, <2>1
    <3>2. first[k].id = list[i].id /\ first[k].enabled = list[i].enabled
      BY <1>5, <1>6, <2>1, <3>1
    <3>. QED  BY <2>1, <3>1, <3>2
  <2>2. CASE k - Len(first) \in DOMAIN second /\ new[k] = second[k - Len(first)]
    <3>1. new[k].id \notin IdsIn(list) /\ (new[k].enabled => new[k].id \notin before)
      BY <1>3, <1>7, <1>8, <2>2
    <3>. QED  BY <3>1 DEF before
  <2>. QED  BY <1>11, <2>1, <2>2
<1>13. ASSUME NEW a \in NamesIn(names), NEW b \in NamesIn(names), Precedes(list, a, b)
       PROVE  Precedes(new, a, b)
  <2>1. PICK i, j \in DOMAIN list : i < j /\ list[i].id = a /\ list[j].id = b
    BY <1>13 DEF Precedes
  <2>2. i \in P /\ j \in P
    BY <2>1
  <2>3. PICK k, l \in DOMAIN kept : k < l /\ kept[k] = list[i] /\ kept[l] = list[j]
    BY <1>2, <2>1, <2>2
  <2>4. /\ k \in DOMAIN new /\ l \in DOMAIN new /\ k < l
        /\ new[k].id = a /\ new[l].id = b
    BY <1>5, <1>6, <1>11, <2>1, <2>3
  <2>. QED  BY <2>4 DEF Precedes
<1>. QED  BY <1>9, <1>10, <1>11, <1>12, <1>13

Shown == [id : STRING, enabled : BOOLEAN, always : BOOLEAN, pinned : BOOLEAN]

(* normalize_metrics(), first part: those of before in their order, then   *)
(* those that are new.                                                     *)
LEMMA NewMetricsAreLast ==
  ASSUME NEW definitions \in Seq(Definitions), Unique(definitions),
         NEW list \in Seq(Shown), Unique(list),
         NEW new, new = Layout!NewLast(list, definitions)
  PROVE  /\ new \in Seq(Shown) /\ Unique(new) /\ IdsIn(new) = IdsIn(definitions)
         /\ \E m \in Nat : \A k \in DOMAIN new :
              /\ k <= m => \E i \in DOMAIN list : new[k] = list[i]
              /\ ~(k <= m) => new[k].id \notin IdsIn(list)
<1>. DEFINE P == {i \in DOMAIN list : list[i].id \in IdsIn(definitions)}
            Q == {i \in DOMAIN definitions : definitions[i].id \notin IdsIn(list)}
            kept == Layout!Entries(list, P)
            added == Layout!Entries(definitions, Q)
            second == [i \in DOMAIN added |-> Layout!DefaultMetric(added[i])]
<1>1. new = kept \o second
  <2>1. /\ \A i \in DOMAIN list : Layout!Has(definitions, list[i].id) <=> list[i].id \in IdsIn(definitions)
        /\ \A i \in DOMAIN definitions :
             Layout!Has(list, definitions[i].id) <=> definitions[i].id \in IdsIn(list)
    BY DEF Layout!Has, IdsIn
  <2>2. /\ P = {i \in DOMAIN list : Layout!Has(definitions, list[i].id)}
        /\ Q = {i \in DOMAIN definitions : ~Layout!Has(list, definitions[i].id)}
    BY <2>1
  <2>. QED  BY <2>2, Zenon DEF Layout!NewLast, Layout!DefaultMetrics
<1>2. /\ kept \in Seq(Shown) /\ Len(kept) \in Nat /\ Unique(kept)
      /\ \A k \in DOMAIN kept : \E i \in P : kept[k] = list[i]
      /\ \A i \in P : \E k \in DOMAIN kept : kept[k] = list[i]
  <2>. DEFINE at == P
  <2>1. at \in SUBSET DOMAIN list /\ \A i, j \in at : list[i].id = list[j].id => i = j
    BY DEF Unique
  <2>. HIDE DEF at
  <2>2. \A entries : entries = Layout!Entries(list, at) =>
          /\ entries \in Seq(Shown) /\ Len(entries) \in Nat /\ Unique(entries)
          /\ \A k \in DOMAIN entries : \E i \in at : entries[k] = list[i]
          /\ \A i \in at : \E k \in DOMAIN entries : entries[k] = list[i]
    BY <2>1, EntriesOfList
  <2>. QED  BY <2>2 DEF at
<1>3. /\ added \in Seq(Definitions) /\ Len(added) \in Nat /\ Unique(added)
      /\ \A k \in DOMAIN added : \E i \in Q : added[k] = definitions[i]
      /\ \A i \in Q : \E k \in DOMAIN added : added[k] = definitions[i]
  <2>. DEFINE at == Q
  <2>1. at \in SUBSET DOMAIN definitions
        /\ \A i, j \in at : definitions[i].id = definitions[j].id => i = j
    BY DEF Unique
  <2>. HIDE DEF at
  <2>2. \A entries : entries = Layout!Entries(definitions, at) =>
          /\ entries \in Seq(Definitions) /\ Len(entries) \in Nat /\ Unique(entries)
          /\ \A k \in DOMAIN entries : \E i \in at : entries[k] = definitions[i]
          /\ \A i \in at : \E k \in DOMAIN entries : entries[k] = definitions[i]
    BY <2>1, EntriesOfList
  <2>. QED  BY <2>2 DEF at
<1>. HIDE DEF kept, added
<1>4. ASSUME NEW k \in DOMAIN added
      PROVE  second[k] \in Shown /\ second[k].id = added[k].id
  <2>1. added[k] \in Definitions
    BY <1>3
  <2>. QED  BY <2>1 DEF Layout!DefaultMetric, Definitions, Shown
<1>5. second \in Seq(Shown) /\ DOMAIN second = DOMAIN added /\ Unique(second)
  <2>1. DOMAIN added = 1 .. Len(added)
    BY <1>3
  <2>2. second \in [1 .. Len(added) -> Shown]
    BY <1>4, <2>1
  <2>. HIDE DEF second
  <2>3. second \in Seq(Shown)
    <3>1. Len(added) \in Nat
      BY <1>3
    <3>. QED  BY <2>2, <3>1, ListFromFunction
  <2>4. DOMAIN second = DOMAIN added
    BY <2>1, <2>2
  <2>5. Unique(second)
    BY <1>3, <1>4, <2>4 DEF Unique
  <2>. QED  BY <2>3, <2>4, <2>5
<1>. HIDE DEF second
<1>6. IdsIn(kept) = IdsIn(list) \intersect IdsIn(definitions)
  <2>1. ASSUME NEW k \in DOMAIN kept PROVE kept[k].id \in IdsIn(list) \intersect IdsIn(definitions)
    BY <1>2 DEF IdsIn
  <2>2. ASSUME NEW a \in IdsIn(list) \intersect IdsIn(definitions)
        PROVE  \E k \in DOMAIN kept : kept[k].id = a
    <3>1. PICK i \in DOMAIN list : list[i].id = a
      BY DEF IdsIn
    <3>2. i \in P
      BY <3>1
    <3>3. PICK k \in DOMAIN kept : kept[k] = list[i]
      BY <1>2, <3>2
    <3>. QED  BY <3>1, <3>3
  <2>. QED  BY <2>1, <2>2 DEF IdsIn
<1>7. IdsIn(second) = IdsIn(definitions) \ IdsIn(list)
  <2>1. ASSUME NEW k \in DOMAIN second PROVE second[k].id \in IdsIn(definitions) \ IdsIn(list)
    BY <1>3, <1>4, <1>5 DEF IdsIn
  <2>2. ASSUME NEW a \in IdsIn(definitions) \ IdsIn(list)
        PROVE  \E k \in DOMAIN second : second[k].id = a
    <3>1. PICK i \in DOMAIN definitions : definitions[i].id = a
      BY DEF IdsIn
    <3>2. i \in Q
      BY <3>1
    <3>3. PICK k \in DOMAIN added : added[k] = definitions[i]
      BY <1>3, <3>2
    <3>. QED  BY <1>4, <1>5, <3>1, <3>3
  <2>. QED  BY <2>1, <2>2 DEF IdsIn
<1>8. new \in Seq(Shown) /\ Joins(new, kept, second)
  BY <1>1, <1>2, <1>5, JoinedLists
<1>9. Unique(new) /\ IdsIn(new) = IdsIn(definitions)
  <2>1. IdsIn(kept) \intersect IdsIn(second) = {}
    BY <1>6, <1>7
  <2>2. IdsIn(new) = IdsIn(kept) \union IdsIn(second) /\ Unique(new)
    BY <1>2, <1>5, <1>8, <2>1, Zenon DEF Joins
  <2>. QED  BY <1>6, <1>7, <2>2
<1>10. ASSUME NEW k \in DOMAIN new
       PROVE  /\ k <= Len(kept) => \E i \in DOMAIN list : new[k] = list[i]
              /\ ~(k <= Len(kept)) => new[k].id \notin IdsIn(list)
  <2>1. k \in Nat \ {0} /\ DOMAIN kept = 1 .. Len(kept) /\ Len(kept) \in Nat
    BY <1>2, <1>8
  <2>2. CASE k \in DOMAIN kept /\ new[k] = kept[k]
    BY <1>2, <2>1, <2>2
  <2>3. CASE ~(k \in DOMAIN kept) /\ k - Len(kept) \in DOMAIN second /\ new[k] = second[k - Len(kept)]
    <3>1. ~(k <= Len(kept))
      BY <2>1, <2>3
    <3>2. new[k].id \in IdsIn(second)
      BY <2>3, Zenon DEF IdsIn
    <3>. QED  BY <1>7, <3>1, <3>2
  <2>. QED  BY <1>8, <2>2, <2>3 DEF Joins
<1>. QED  BY <1>2, <1>8, <1>9, <1>10

MayBePinned(definitions, id) == Layout!Entry(definitions, id).pinnable

StarsAskedFor(list, definitions) ==
  {i \in DOMAIN list : list[i].pinned /\ MayBePinned(definitions, list[i].id)}

(* The ids of those that are starred.                                      *)
StarsIn(list) == {list[i].id : i \in {j \in DOMAIN list : list[j].pinned}}

LEMMA StarsOfList == \A list : Layout!Stars(list) = StarsIn(list) /\ Layout!Pins(list) = Cardinality(StarsIn(list))
<1>1. ASSUME NEW list PROVE Layout!Stars(list) = StarsIn(list)
  BY DEF Layout!Stars, Layout!ToSet, StarsIn
<1>. QED  BY <1>1, CardinalityOfLayout, Zenon DEF Layout!Pins

(* One place for each id.                                                  *)
PlaceIn(list, id) == CHOOSE i \in DOMAIN list : list[i].id = id /\ list[i].pinned

LEMMA StarsAreFinite ==
  ASSUME NEW S, NEW list \in Seq(S)
  PROVE  /\ IsFiniteSet(StarsIn(list)) /\ Cardinality(StarsIn(list)) \in Nat
         /\ \A id \in StarsIn(list) : /\ PlaceIn(list, id) \in DOMAIN list
              /\ list[PlaceIn(list, id)].id = id /\ list[PlaceIn(list, id)].pinned
<1>1. ASSUME NEW id \in StarsIn(list)
      PROVE  /\ PlaceIn(list, id) \in DOMAIN list
             /\ list[PlaceIn(list, id)].id = id /\ list[PlaceIn(list, id)].pinned
  <2>1. \E i \in DOMAIN list : list[i].id = id /\ list[i].pinned
    BY DEF StarsIn
  <2>. QED  BY <2>1, Zenon DEF PlaceIn
<1>. DEFINE place == [id \in StarsIn(list) |-> PlaceIn(list, id)]
<1>2. place \in Injection(StarsIn(list), DOMAIN list)
  <2>1. place \in [StarsIn(list) -> DOMAIN list]
    BY <1>1
  <2>2. ASSUME NEW a \in StarsIn(list), NEW b \in StarsIn(list), place[a] = place[b] PROVE a = b
    BY <1>1, <2>2, Zenon
  <2>. HIDE DEF place
  <2>. QED  BY <2>1, <2>2 DEF Injection, IsInjective
<1>3. IsFiniteSet(DOMAIN list)
  <2>1. DOMAIN list = 1 .. Len(list) /\ Len(list) \in Nat
    OBVIOUS
  <2>. QED  BY <2>1, FS_Interval
<1>4. IsFiniteSet(StarsIn(list))
  <2>. HIDE DEF place
  <2>. QED  BY <1>2, <1>3, FS_Injection
<1>. QED  BY <1>1, <1>4, FS_CardinalityType

(* Second part: the first MaxPins that may be and want to be starred are.  *)
LEMMA PinsAreCapped ==
  ASSUME NEW definitions, NEW list \in Seq(Shown), Unique(list),
         NEW new, new = Layout!CapPins(list, definitions),
         NEW wanted, wanted = StarsAskedFor(list, definitions)
  PROVE  /\ new \in Seq(Shown) /\ DOMAIN new = DOMAIN list
         /\ \A i \in DOMAIN list :
              /\ new[i].id = list[i].id /\ new[i].enabled = list[i].enabled
              /\ new[i].always = list[i].always
              /\ new[i].pinned <=> i \in wanted /\ Rank(wanted, i - 1) < MaxPins
         /\ Unique(new) /\ IdsIn(new) = IdsIn(list)
         /\ Layout!Pins(new) <= MaxPins
<1>1. /\ DOMAIN list = 1 .. Len(list) /\ Len(list) \in Nat /\ wanted \in SUBSET (1 .. Len(list))
      /\ MaxPins \in Nat
  BY ReleasesAssumption DEF StarsAskedFor
<1>2. new = [i \in DOMAIN list |->
               [list[i] EXCEPT !.pinned = i \in wanted /\ Rank(wanted, i - 1) < MaxPins]]
  BY CardinalityOfLayout, Zenon DEF Layout!CapPins, StarsAskedFor, MayBePinned, Rank
<1>3. ASSUME NEW i \in DOMAIN list
      PROVE  /\ new[i] \in Shown
             /\ new[i].id = list[i].id /\ new[i].enabled = list[i].enabled
             /\ new[i].always = list[i].always
             /\ new[i].pinned <=> i \in wanted /\ Rank(wanted, i - 1) < MaxPins
  <2>1. list[i] \in Shown
    OBVIOUS
  <2>2. PICK b \in BOOLEAN : b <=> i \in wanted /\ Rank(wanted, i - 1) < MaxPins
    OBVIOUS
  <2>3. new[i] = [list[i] EXCEPT !.pinned = i \in wanted /\ Rank(wanted, i - 1) < MaxPins]
    BY <1>2, Zenon
  <2>4. (i \in wanted /\ Rank(wanted, i - 1) < MaxPins) = b
    BY <2>2
  <2>5. new[i] = [list[i] EXCEPT !.pinned = b]
    BY <2>3, <2>4, Zenon
  <2>. QED  BY <2>1, <2>2, <2>5 DEF Shown
<1>4. new \in Seq(Shown) /\ DOMAIN new = DOMAIN list
  <2>1. DOMAIN new = 1 .. Len(list) /\ new = [i \in 1 .. Len(list) |-> new[i]]
    BY <1>1, <1>2
  <2>2. new \in [1 .. Len(list) -> Shown]
    BY <1>1, <1>3, <2>1
  <2>. QED  BY <1>1, <2>1, <2>2
<1>5. Unique(new) /\ IdsIn(new) = IdsIn(list)
  BY <1>3, <1>4 DEF Unique, IdsIn
<1>6. Layout!Pins(new) <= MaxPins
  <2>. DEFINE rank == [id \in StarsIn(new) |-> Rank(wanted, PlaceIn(new, id))]
  <2>1. ASSUME NEW id \in StarsIn(new)
        PROVE  /\ PlaceIn(new, id) \in wanted /\ new[PlaceIn(new, id)].id = id
               /\ rank[id] = Rank(wanted, PlaceIn(new, id)) /\ rank[id] \in 1 .. MaxPins
    <3>1. PICK i \in DOMAIN new : i = PlaceIn(new, id) /\ new[i].id = id /\ new[i].pinned
      BY <1>4, StarsAreFinite, Zenon
    <3>2. i \in wanted /\ Rank(wanted, i - 1) < MaxPins
      BY <1>3, <1>4, <3>1
    <3>3. i - 1 \in Nat /\ i \in Nat
      BY <1>1, <3>2
    <3>4. Rank(wanted, i) = Rank(wanted, i - 1) + 1
      BY <1>1, <3>2, RankGrows
    <3>5. Rank(wanted, i - 1) \in Nat
      <4>1. Cardinality(wanted) \in Nat /\ Rank(wanted, i - 1) \in 0 .. Cardinality(wanted)
        BY <1>1, <3>3, RankGrows
      <4>. QED  BY <4>1
    <3>6. rank[id] = Rank(wanted, i)
      BY <3>1, Zenon
    <3>. HIDE DEF rank
    <3>. QED  BY <1>1, <3>1, <3>2, <3>4, <3>5, <3>6
  <2>2. ASSUME NEW a \in StarsIn(new), NEW b \in StarsIn(new), rank[a] = rank[b] PROVE a = b
    <3>1. PICK i \in wanted, j \in wanted :
            new[i].id = a /\ new[j].id = b /\ rank[a] = Rank(wanted, i) /\ rank[b] = Rank(wanted, j)
      BY <2>1, Zenon
    <3>. HIDE DEF rank
    <3>2. /\ i \in Nat /\ j \in Nat
          /\ i < j => Rank(wanted, i) < Rank(wanted, j)
          /\ j < i => Rank(wanted, j) < Rank(wanted, i)
      BY <1>1, RankIsStrict
    <3>3. Rank(wanted, j) = Rank(wanted, i)
      BY <2>2, <3>1, Zenon
    <3>4. Rank(wanted, i) \in Nat
      BY <1>1, <3>2, RankGrows
    <3>5. i = j
      BY <3>2, <3>3, <3>4
    <3>. QED  BY <3>1, <3>5, Zenon
  <2>3. rank \in Injection(StarsIn(new), 1 .. MaxPins)
    <3>1. DOMAIN rank = StarsIn(new) /\ rank \in [StarsIn(new) -> 1 .. MaxPins]
      BY <2>1
    <3>. HIDE DEF rank
    <3>. QED  BY <2>2, <3>1 DEF Injection, IsInjective
  <2>. HIDE DEF rank
  <2>4. IsFiniteSet(1 .. MaxPins) /\ Cardinality(1 .. MaxPins) = MaxPins
    BY <1>1, FS_Interval
  <2>5. Cardinality(StarsIn(new)) <= MaxPins
    BY <2>3, <2>4, FS_Injection
  <2>. QED  BY <2>5, StarsOfList, Zenon
<1>. QED  BY <1>3, <1>4, <1>5, <1>6

(* An old entry keeps its star as long as the list before had no more of   *)
(* them than there is room for.                                            *)
LEMMA OldStarsFirst ==
  ASSUME NEW definitions, NEW list \in Seq(Shown), NEW new \in Seq(Shown), Unique(new),
         NEW m \in Nat, \A k \in DOMAIN new : k <= m => \E i \in DOMAIN list : new[k] = list[i],
         Layout!Pins(list) <= MaxPins,
         NEW wanted, wanted = StarsAskedFor(new, definitions),
         NEW k \in wanted, k <= m
  PROVE  Rank(wanted, k - 1) < MaxPins
<1>. DEFINE before == wanted \intersect (1 .. k)
            idOf == [j \in before |-> new[j].id]
<1>1. /\ DOMAIN new = 1 .. Len(new) /\ Len(new) \in Nat /\ wanted \in SUBSET (1 .. Len(new))
      /\ k \in Nat
  BY DEF StarsAskedFor
<1>2. IsFiniteSet(StarsIn(list)) /\ Cardinality(StarsIn(list)) \in Nat
  BY StarsAreFinite
<1>3. ASSUME NEW j \in before PROVE idOf[j] \in StarsIn(list)
  <2>1. j \in wanted /\ j \in DOMAIN new /\ j <= m
    BY <1>1
  <2>2. PICK i \in DOMAIN list : new[j] = list[i]
    BY <2>1
  <2>3. new[j].pinned
    BY <2>1 DEF StarsAskedFor
  <2>. QED  BY <2>2, <2>3 DEF StarsIn
<1>4. idOf \in Injection(before, StarsIn(list))
  <2>1. ASSUME NEW i \in before, NEW j \in before, idOf[i] = idOf[j] PROVE i = j
    BY <1>1, <2>1 DEF Unique
  <2>2. DOMAIN idOf = before /\ idOf \in [before -> StarsIn(list)]
    BY <1>3
  <2>. HIDE DEF idOf, before
  <2>. QED  BY <2>1, <2>2 DEF Injection, IsInjective
<1>5. Cardinality(before) <= Cardinality(StarsIn(list))
  <2>. HIDE DEF idOf, before
  <2>. QED  BY <1>2, <1>4, FS_Injection
<1>6. Cardinality(StarsIn(list)) <= MaxPins
  BY StarsOfList, Zenon
<1>7. Rank(wanted, k) <= Cardinality(StarsIn(list))
  BY <1>5, Zenon DEF Rank
<1>8. Rank(wanted, k) = Rank(wanted, k - 1) + 1
  BY <1>1, RankGrows
<1>9. Cardinality(wanted) \in Nat /\ Rank(wanted, k) \in 0 .. Cardinality(wanted)
      /\ Rank(wanted, k - 1) \in 0 .. Cardinality(wanted)
  <2>1. k - 1 \in Nat
    BY <1>1
  <2>. QED  BY <1>1, <2>1, RankGrows
<1>10. MaxPins \in Nat
  BY ReleasesAssumption
<1>. QED  BY <1>2, <1>6, <1>7, <1>8, <1>9, <1>10

InSight(list) ==
  (\E i \in DOMAIN list : list[i].enabled) => \E i \in DOMAIN list : list[i].enabled /\ list[i].always

(* Third part: of the entries only the section changes.                    *)
LEMMA OneStaysInSight ==
  ASSUME NEW list \in Seq(Shown), NEW new, new = Layout!KeepVisible(list)
  PROVE  /\ new \in Seq(Shown) /\ DOMAIN new = DOMAIN list
         /\ \A i \in DOMAIN list : new[i].id = list[i].id /\ new[i].enabled = list[i].enabled
              /\ new[i].pinned = list[i].pinned
         /\ InSight(new)
<1>. DEFINE on == {i \in DOMAIN list : list[i].enabled}
<1>1. CASE on = {} \/ \E i \in on : list[i].always
  <2>1. new = list
    BY <1>1, Zenon DEF Layout!KeepVisible
  <2>. QED  BY <1>1, <2>1 DEF InSight
<1>2. CASE on # {} /\ ~(\E i \in on : list[i].always)
  <2>1. \E i \in on : \A j \in on : i <= j
    <3>1. on \in SUBSET Nat
      OBVIOUS
    <3>. HIDE DEF on
    <3>. QED  BY <1>2, <3>1, Least
  <2>2. PICK i \in on : i = CHOOSE first \in on : \A j \in on : first <= j
    BY <2>1
  <2>3. new = [list EXCEPT ![i].always = TRUE]
    <3>1. new = [list EXCEPT ![CHOOSE first \in on : \A j \in on : first <= j].always = TRUE]
      BY <1>2, Zenon DEF Layout!KeepVisible
    <3>. HIDE DEF on
    <3>. QED  BY <2>2, <3>1, Zenon
  <2>4. DOMAIN new = DOMAIN list /\ \A k \in DOMAIN list :
          new[k] = IF k = i THEN [list[i] EXCEPT !.always = TRUE] ELSE list[k]
    BY <2>3
  <2>. HIDE DEF on
  <2>5. i \in DOMAIN list /\ list[i].enabled
    BY <2>2 DEF on
  <2>6. \A k \in DOMAIN list : list[k] \in Shown
    OBVIOUS
  <2>7. \A k \in DOMAIN list : /\ new[k] \in Shown /\ new[k].id = list[k].id
          /\ new[k].enabled = list[k].enabled /\ new[k].pinned = list[k].pinned
    <3>1. \A e \in Shown : LET seen == [e EXCEPT !.always = TRUE]
                               IN /\ seen \in Shown /\ seen.id = e.id
                                  /\ seen.enabled = e.enabled /\ seen.pinned = e.pinned
      BY DEF Shown
    <3>. QED  BY <2>4, <2>6, <3>1, ZenonT(30)
  <2>8. new[i].always
    <3>1. new[i] = [list[i] EXCEPT !.always = TRUE] /\ list[i] \in Shown
      BY <2>4, <2>5, <2>6
    <3>. QED  BY <3>1 DEF Shown
  <2>9. new \in Seq(Shown)
    <3>1. DOMAIN list = 1 .. Len(list) /\ Len(list) \in Nat
      OBVIOUS
    <3>2. new = [k \in 1 .. Len(list) |-> new[k]]
      BY <2>3, <3>1
    <3>3. new \in [1 .. Len(list) -> Shown]
      BY <2>7, <3>1, <3>2
    <3>. QED  BY <3>1, <3>3
  <2>. QED  BY <2>4, <2>5, <2>7, <2>8, <2>9 DEF InSight
<1>. QED  BY <1>1, <1>2

(* normalize_metrics(): the metrics of the release, each once, within the  *)
(* limits; and the stars are as they were where the release allows them.   *)
LEMMA MetricsNormalized ==
  ASSUME NEW definitions \in Seq(Definitions), Unique(definitions),
         NEW list \in Seq(Shown), Unique(list),
         NEW new, new = Layout!NormalizeMetrics(list, definitions)
  PROVE  /\ new \in Seq(Shown) /\ Unique(new) /\ IdsIn(new) = IdsIn(definitions)
         /\ Layout!Pins(new) <= MaxPins /\ InSight(new)
         /\ \A k \in DOMAIN new : new[k].pinned => MayBePinned(definitions, new[k].id)
         /\ Layout!Pins(list) <= MaxPins => \A k \in DOMAIN new :
              \/ new[k].id \notin IdsIn(list)
              \/ \E i \in DOMAIN list : /\ list[i].id = new[k].id
                   /\ (new[k].pinned <=> list[i].pinned /\ MayBePinned(definitions, new[k].id))
<1>. DEFINE all == Layout!NewLast(list, definitions)
            capped == Layout!CapPins(all, definitions)
            wanted == StarsAskedFor(all, definitions)
<1>1. new = Layout!KeepVisible(capped)
  BY Zenon DEF Layout!NormalizeMetrics
<1>2. /\ all \in Seq(Shown) /\ Unique(all) /\ IdsIn(all) = IdsIn(definitions)
      /\ \E m \in Nat : \A k \in DOMAIN all :
           /\ k <= m => \E i \in DOMAIN list : all[k] = list[i]
           /\ ~(k <= m) => all[k].id \notin IdsIn(list)
  BY NewMetricsAreLast, Zenon
<1>3. /\ capped \in Seq(Shown) /\ DOMAIN capped = DOMAIN all
      /\ \A i \in DOMAIN all :
           /\ capped[i].id = all[i].id
           /\ capped[i].pinned <=> i \in wanted /\ Rank(wanted, i - 1) < MaxPins
      /\ Unique(capped) /\ IdsIn(capped) = IdsIn(all)
      /\ Layout!Pins(capped) <= MaxPins
  <2>. HIDE DEF all
  <2>. QED  BY <1>2, PinsAreCapped
<1>4. /\ new \in Seq(Shown) /\ DOMAIN new = DOMAIN capped
      /\ \A i \in DOMAIN capped : new[i].id = capped[i].id /\ new[i].pinned = capped[i].pinned
      /\ InSight(new)
  BY <1>1, <1>3, OneStaysInSight, ZenonT(30)
<1>. HIDE DEF all, capped
<1>5. Unique(new) /\ IdsIn(new) = IdsIn(definitions)
  <2>1. Unique(new)
    BY <1>3, <1>4 DEF Unique
  <2>2. IdsIn(new) = IdsIn(capped)
    BY <1>4 DEF IdsIn
  <2>. QED  BY <1>2, <1>3, <2>1, <2>2
<1>6. Layout!Pins(new) <= MaxPins
  <2>1. StarsIn(new) = StarsIn(capped)
    BY <1>4 DEF StarsIn
  <2>. QED  BY <1>3, <2>1, StarsOfList, Zenon
<1>7. ASSUME NEW k \in DOMAIN new
      PROVE  /\ new[k].id = all[k].id /\ k \in DOMAIN all
             /\ new[k].pinned <=> k \in wanted /\ Rank(wanted, k - 1) < MaxPins
             /\ k \in wanted <=> all[k].pinned /\ MayBePinned(definitions, all[k].id)
  BY <1>3, <1>4 DEF StarsAskedFor
<1>8. ASSUME Layout!Pins(list) <= MaxPins, NEW k \in DOMAIN new
      PROVE  \/ new[k].id \notin IdsIn(list)
             \/ \E i \in DOMAIN list : /\ list[i].id = new[k].id
                  /\ (new[k].pinned <=> list[i].pinned /\ MayBePinned(definitions, new[k].id))
  <2>1. PICK m \in Nat : \A j \in DOMAIN all :
          /\ j <= m => \E i \in DOMAIN list : all[j] = list[i]
          /\ ~(j <= m) => all[j].id \notin IdsIn(list)
    BY <1>2
  <2>2. CASE ~(k <= m)
    BY <1>7, <2>1, <2>2
  <2>3. CASE k <= m
    <3>1. PICK i \in DOMAIN list : all[k] = list[i]
      BY <1>7, <2>1, <2>3
    <3>2. k \in wanted => Rank(wanted, k - 1) < MaxPins
      BY <1>2, <1>8, <2>1, <2>3, OldStarsFirst
    <3>3. new[k].pinned <=> list[i].pinned /\ MayBePinned(definitions, new[k].id)
      BY <1>7, <3>1, <3>2, Zenon
    <3>. QED  BY <1>7, <3>1, <3>3
  <2>. QED  BY <2>2, <2>3
<1>. QED  BY <1>4, <1>5, <1>6, <1>7, <1>8

(* What the assumption says of each release.                               *)
LEMMA ReleasesAreLists ==
  ASSUME NEW r \in DOMAIN Releases
  PROVE  /\ Releases[r].providers \in Seq(STRING) /\ Releases[r].providers # <<>>
         /\ \A i, j \in DOMAIN Releases[r].providers :
              Releases[r].providers[i] = Releases[r].providers[j] => i = j
         /\ Releases[r].metrics \in Seq(Definitions) /\ Unique(Releases[r].metrics)
         /\ Releases[r].fallback \in SUBSET STRING
<1>1. Releases[r] \in [providers : Seq(STRING), fallback : SUBSET STRING, metrics : Seq(Definitions)]
  <2>. DEFINE Catalogs == [providers : Seq(STRING), fallback : SUBSET STRING, metrics : Seq(Definitions)]
  <2>1. Releases \in Seq(Catalogs)
    BY ReleasesAssumption
  <2>. HIDE DEF Catalogs
  <2>2. Releases[r] \in Catalogs
    BY <2>1
  <2>. QED  BY <2>2 DEF Catalogs
<1>2. Unique(Releases[r].metrics)
  <2>1. Layout!IsInjective(Layout!Ids(Releases[r].metrics))
    BY ReleasesAssumption
  <2>. QED  BY <2>1 DEF Layout!IsInjective, Layout!Ids, Unique
<1>3. \A i, j \in DOMAIN Releases[r].providers :
        Releases[r].providers[i] = Releases[r].providers[j] => i = j
  BY ReleasesAssumption DEF Layout!IsInjective
<1>4. Releases[r].providers # <<>>
  BY ReleasesAssumption
<1>. QED  BY <1>1, <1>2, <1>3, <1>4

LEMMA SliceOfList ==
  ASSUME NEW S, NEW list \in Seq(S), NEW m \in 1 .. Len(list) + 1, NEW n \in 0 .. Len(list), m <= n + 1
  PROVE  /\ SubSeq(list, m, n) \in Seq(S) /\ Len(SubSeq(list, m, n)) = n - m + 1
         /\ \A k \in 1 .. n - m + 1 : SubSeq(list, m, n)[k] = list[m + k - 1]
<1>1. Len(list) \in Nat /\ \A i \in 1 .. Len(list) : list[i] \in S
  OBVIOUS
<1>2. m \in Int /\ n \in Int /\ \A i \in m .. n : list[i] \in S
  BY <1>1
<1>3. /\ SubSeq(list, m, n) \in Seq(S)
      /\ Len(SubSeq(list, m, n)) = IF m <= n THEN n - m + 1 ELSE 0
      /\ \A k \in 1 .. n - m + 1 : SubSeq(list, m, n)[k] = list[m + k - 1]
  BY <1>2, SubSeqProperties
<1>. QED  BY <1>1, <1>3

(* Taken from one place and put at another.                                *)
LEMMA MovedIsPermuted ==
  ASSUME NEW S, NEW list \in Seq(S), NEW from \in DOMAIN list, NEW to \in DOMAIN list,
         NEW new, new = Layout!Moved(list, from, to)
  PROVE  /\ new \in Seq(S) /\ Len(new) = Len(list) /\ IdsIn(new) = IdsIn(list)
         /\ Unique(list) => Unique(new)
         /\ \A k \in DOMAIN new : \E i \in DOMAIN list : new[k] = list[i]
         /\ StarsIn(new) = StarsIn(list)
<1>. DEFINE n == Len(list)
            removed == SubSeq(list, 1, from - 1) \o SubSeq(list, from + 1, n)
            Source(k) == IF k = to THEN from
                         ELSE LET j == IF k < to THEN k ELSE k - 1
                              IN IF j < from THEN j ELSE j + 1
            Target(i) == IF i = from THEN to
                         ELSE LET j == IF i < from THEN i ELSE i - 1
                              IN IF j < to THEN j ELSE j + 1
<1>1. n \in Nat /\ DOMAIN list = 1 .. n /\ from \in 1 .. n /\ to \in 1 .. n
  OBVIOUS
<1>2. /\ removed \in Seq(S) /\ Len(removed) = n - 1
      /\ \A k \in 1 .. n - 1 : removed[k] = IF k < from THEN list[k] ELSE list[k + 1]
  <2>. DEFINE s == SubSeq(list, 1, from - 1)
              t == SubSeq(list, from + 1, n)
  <2>1. /\ s \in Seq(S) /\ Len(s) = from - 1 /\ \A k \in 1 .. from - 1 : s[k] = list[k]
    <3>1. 1 \in 1 .. n + 1 /\ from - 1 \in 0 .. n /\ 1 <= from - 1 + 1
      BY <1>1
    <3>2. /\ s \in Seq(S) /\ Len(s) = from - 1 - 1 + 1
          /\ \A k \in 1 .. from - 1 - 1 + 1 : s[k] = list[1 + k - 1]
      BY <3>1, SliceOfList
    <3>. HIDE DEF s
    <3>. QED  BY <1>1, <3>2
  <2>2. /\ t \in Seq(S) /\ Len(t) = n - from /\ \A k \in 1 .. n - from : t[k] = list[from + k]
    <3>1. from + 1 \in 1 .. n + 1 /\ n \in 0 .. n /\ from + 1 <= n + 1
      BY <1>1
    <3>2. /\ t \in Seq(S) /\ Len(t) = n - (from + 1) + 1
          /\ \A k \in 1 .. n - (from + 1) + 1 : t[k] = list[(from + 1) + k - 1]
      BY <3>1, SliceOfList, Zenon
    <3>. HIDE DEF t
    <3>. QED  BY <1>1, <3>2, SMTT(30)
  <2>. HIDE DEF s, t
  <2>3. /\ s \o t \in Seq(S) /\ Len(s \o t) = Len(s) + Len(t)
        /\ \A k \in 1 .. Len(s) + Len(t) : (s \o t)[k] = IF k <= Len(s) THEN s[k] ELSE t[k - Len(s)]
    BY <2>1, <2>2, ConcatProperties
  <2>4. removed = s \o t
    BY DEF s, t
  <2>. HIDE DEF removed
  <2>5. ASSUME NEW k \in 1 .. n - 1 PROVE removed[k] = IF k < from THEN list[k] ELSE list[k + 1]
    <3>1. k \in 1 .. Len(s) + Len(t)
      BY <1>1, <2>1, <2>2
    <3>2. removed[k] = IF k <= Len(s) THEN s[k] ELSE t[k - Len(s)]
      BY <2>3, <2>4, <3>1
    <3>3. CASE k < from
      <4>1. k \in 1 .. from - 1 /\ k <= Len(s)
        BY <1>1, <2>1, <3>3
      <4>. QED  BY <2>1, <3>2, <3>3, <4>1
    <3>4. CASE ~(k < from)
      <4>1. k - Len(s) \in 1 .. n - from /\ ~(k <= Len(s)) /\ from + (k - Len(s)) = k + 1
        BY <1>1, <2>1, <3>4
      <4>. QED  BY <2>2, <3>2, <3>4, <4>1
    <3>. QED  BY <3>3, <3>4
  <2>6. removed \in Seq(S) /\ Len(removed) = Len(s) + Len(t)
    BY <2>3, <2>4, Zenon
  <2>7. Len(s) + Len(t) = n - 1
    BY <1>1, <2>1, <2>2
  <2>. QED  BY <2>5, <2>6, <2>7
<1>3. new = SubSeq(removed, 1, to - 1) \o <<list[from]>> \o SubSeq(removed, to, Len(removed))
  BY Zenon DEF Layout!Moved, Layout!InsertAt, Layout!RemoveAt
<1>. HIDE DEF removed
<1>4. /\ new \in Seq(S) /\ Len(new) = n /\ DOMAIN new = 1 .. n
      /\ \A k \in 1 .. n : new[k] = IF k < to THEN removed[k]
                                    ELSE IF k = to THEN list[from] ELSE removed[k - 1]
  <2>. DEFINE s == SubSeq(removed, 1, to - 1)
              t == SubSeq(removed, to, n - 1)
              e == <<list[from]>>
  <2>1. /\ s \in Seq(S) /\ Len(s) = to - 1 /\ \A k \in 1 .. to - 1 : s[k] = removed[k]
    <3>1. 1 \in 1 .. Len(removed) + 1 /\ to - 1 \in 0 .. Len(removed) /\ 1 <= to - 1 + 1
      BY <1>1, <1>2
    <3>2. /\ s \in Seq(S) /\ Len(s) = to - 1 - 1 + 1
          /\ \A k \in 1 .. to - 1 - 1 + 1 : s[k] = removed[1 + k - 1]
      BY <1>2, <3>1, SliceOfList
    <3>. HIDE DEF s
    <3>. QED  BY <1>1, <3>2
  <2>2. /\ t \in Seq(S) /\ Len(t) = n - to /\ \A k \in 1 .. n - to : t[k] = removed[to + k - 1]
    <3>1. to \in 1 .. Len(removed) + 1 /\ n - 1 \in 0 .. Len(removed) /\ to <= n - 1 + 1
      BY <1>1, <1>2
    <3>2. /\ t \in Seq(S) /\ Len(t) = n - 1 - to + 1
          /\ \A k \in 1 .. n - 1 - to + 1 : t[k] = removed[to + k - 1]
      BY <1>2, <3>1, SliceOfList
    <3>. HIDE DEF t
    <3>. QED  BY <1>1, <3>2
  <2>3. e \in Seq(S) /\ Len(e) = 1 /\ e[1] = list[from]
    BY <1>1
  <2>4. new = (s \o e) \o t
    BY <1>2, <1>3
  <2>. HIDE DEF s, t, e
  <2>5. /\ s \o e \in Seq(S) /\ Len(s \o e) = to - 1 + 1
        /\ \A k \in 1 .. to - 1 + 1 : (s \o e)[k] = IF k <= to - 1 THEN s[k] ELSE e[k - (to - 1)]
    <3>1. /\ s \o e \in Seq(S) /\ Len(s \o e) = Len(s) + Len(e)
          /\ \A k \in 1 .. Len(s) + Len(e) : (s \o e)[k] = IF k <= Len(s) THEN s[k] ELSE e[k - Len(s)]
      BY <2>1, <2>3, ConcatProperties, Zenon
    <3>2. Len(s) = to - 1 /\ Len(e) = 1
      BY <2>1, <2>3
    <3>. QED  BY <3>1, <3>2, Zenon
  <2>6. to - 1 + 1 = to /\ to + (n - to) = n
    BY <1>1
  <2>7. /\ new \in Seq(S) /\ Len(new) = n
        /\ \A k \in 1 .. n : new[k] = IF k <= to THEN (s \o e)[k] ELSE t[k - to]
    <3>. DEFINE u == s \o e
    <3>1. u \in Seq(S) /\ Len(u) = to
      BY <2>5, <2>6
    <3>. HIDE DEF u
    <3>2. /\ u \o t \in Seq(S) /\ Len(u \o t) = to + (n - to)
          /\ \A k \in 1 .. to + (n - to) : (u \o t)[k] = IF k <= to THEN u[k] ELSE t[k - to]
      <4>1. /\ u \o t \in Seq(S) /\ Len(u \o t) = Len(u) + Len(t)
            /\ \A k \in 1 .. Len(u) + Len(t) : (u \o t)[k] = IF k <= Len(u) THEN u[k] ELSE t[k - Len(u)]
        BY <2>2, <3>1, ConcatProperties, Zenon
      <4>2. Len(u) = to /\ Len(t) = n - to
        BY <2>2, <3>1
      <4>. QED  BY <4>1, <4>2, Zenon
    <3>3. new = u \o t
      BY <2>4 DEF u
    <3>4. /\ new \in Seq(S) /\ Len(new) = n
          /\ \A k \in 1 .. n : new[k] = IF k <= to THEN u[k] ELSE t[k - to]
      BY <2>6, <3>2, <3>3
    <3>. QED  BY <3>4, Zenon DEF u
  <2>8. ASSUME NEW k \in 1 .. n
        PROVE  new[k] = IF k < to THEN removed[k]
                        ELSE IF k = to THEN list[from] ELSE removed[k - 1]
    <3>1. CASE k < to
      <4>1. k \in 1 .. to - 1 /\ k \in 1 .. to - 1 + 1 /\ k <= to /\ k <= to - 1
        BY <1>1, <3>1
      <4>. QED  BY <2>1, <2>5, <2>7, <3>1, <4>1
    <3>2. CASE k = to
      <4>1. k \in 1 .. to - 1 + 1 /\ k <= to /\ ~(k <= to - 1) /\ k - (to - 1) = 1 /\ ~(k < to)
        BY <1>1, <3>2
      <4>. QED  BY <2>3, <2>5, <2>7, <3>2, <4>1
    <3>3. CASE ~(k < to) /\ k # to
      <4>1. k - to \in 1 .. n - to /\ ~(k <= to) /\ to + (k - to) - 1 = k - 1
        BY <1>1, <3>3
      <4>. QED  BY <2>2, <2>7, <3>3, <4>1
    <3>. QED  BY <3>1, <3>2, <3>3
  <2>. QED  BY <1>1, <2>7, <2>8
<1>5. \A k \in 1 .. n : Source(k) \in 1 .. n /\ new[k] = list[Source(k)]
  BY <1>1, <1>2, <1>4
<1>6. \A i \in 1 .. n : Target(i) \in 1 .. n /\ Source(Target(i)) = i
  BY <1>1
<1>7. \A k \in 1 .. n : Target(Source(k)) = k
  BY <1>1
<1>. HIDE DEF Source, Target, n
<1>8. IdsIn(new) = IdsIn(list) /\ StarsIn(new) = StarsIn(list)
  <2>1. \A k \in DOMAIN new : \E i \in DOMAIN list : new[k] = list[i]
    BY <1>1, <1>4, <1>5
  <2>2. \A i \in DOMAIN list : \E k \in DOMAIN new : new[k] = list[i]
    BY <1>1, <1>4, <1>5, <1>6
  <2>. QED  BY <2>1, <2>2 DEF IdsIn, StarsIn
<1>9. ASSUME Unique(list) PROVE Unique(new)
  <2>1. ASSUME NEW k \in DOMAIN new, NEW l \in DOMAIN new, new[k].id = new[l].id PROVE k = l
    <3>1. Source(k) \in DOMAIN list /\ Source(l) \in DOMAIN list
          /\ list[Source(k)].id = list[Source(l)].id
      BY <1>1, <1>4, <1>5, <2>1
    <3>2. Source(k) = Source(l)
      BY <1>9, <3>1 DEF Unique
    <3>. QED  BY <1>4, <1>7, <3>2
  <2>. QED  BY <2>1 DEF Unique
<1>. QED  BY <1>1, <1>4, <1>5, <1>8, <1>9 DEF n

(* One entry put in the place of the one with its id.                      *)
LEMMA EntryReplaced ==
  ASSUME NEW S, NEW list \in Seq(S), NEW e \in S,
         NEW new, new = Layout!WithEntry(list, e)
  PROVE  /\ new \in Seq(S) /\ DOMAIN new = DOMAIN list /\ IdsIn(new) = IdsIn(list)
         /\ \A i \in DOMAIN list : /\ new[i] = IF list[i].id = e.id THEN e ELSE list[i]
                                   /\ new[i].id = list[i].id
         /\ Unique(list) => Unique(new)
<1>1. /\ DOMAIN new = DOMAIN list
      /\ \A i \in DOMAIN list : new[i] = IF list[i].id = e.id THEN e ELSE list[i]
  BY DEF Layout!WithEntry
<1>2. new \in Seq(S)
  <2>1. DOMAIN list = 1 .. Len(list) /\ Len(list) \in Nat /\ \A i \in DOMAIN list : list[i] \in S
    OBVIOUS
  <2>2. new = [i \in 1 .. Len(list) |-> new[i]]
    BY <2>1 DEF Layout!WithEntry
  <2>3. new \in [1 .. Len(list) -> S]
    BY <1>1, <2>1, <2>2
  <2>. QED  BY <2>1, <2>3
<1>3. \A i \in DOMAIN list : new[i].id = list[i].id
  BY <1>1
<1>. QED  BY <1>1, <1>2, <1>3 DEF IdsIn, Unique

-----------------------------------------------------------------------------
(* The layout through releases: the inductive invariant                    *)

Choice == {"none", "on", "off"}
Probes == [auto : SUBSET STRING, replace : BOOLEAN, running : BOOLEAN]

(* The layout is the release's: everything once, all of it known, and the  *)
(* stars within the limits.                                                *)
LayoutFits ==
  /\ release \in DOMAIN Releases
  /\ providers \in Seq(Cards) /\ Unique(providers)
  /\ IdsIn(providers) = NamesIn(Releases[release].providers) /\ IdsIn(providers) \subseteq known
  /\ metrics \in Seq(Shown) /\ Unique(metrics) /\ IdsIn(metrics) = IdsIn(Releases[release].metrics)
  /\ Layout!Pins(metrics) <= MaxPins /\ InSight(metrics)
  /\ \A i \in DOMAIN metrics :
       metrics[i].pinned => MayBePinned(Releases[release].metrics, metrics[i].id)

(* A choice about a provider is about one that the program knows and no    *)
(* probe may turn on.                                                      *)
SwitchesOutlast ==
  /\ probe \in Probes /\ (~probe.running => probe = Layout!NoProbe)
  /\ switched \in [Layout!ProviderIds -> Choice]
  /\ \A id \in Layout!ProviderIds :
       /\ switched[id] # "none" =>
            id \in known /\ id \notin probe.auto /\ ~(probe.running /\ probe.replace)
       /\ switched[id] = "on" => id \in IdsIn(providers)
  /\ \A i \in DOMAIN providers : Layout!Kept(switched[providers[i].id], providers[i].enabled)

StarsOutlast ==
  /\ starred \in [Layout!MetricIds -> Choice]
  /\ \A id \in Layout!MetricIds : starred[id] # "none" =>
       id \in IdsIn(metrics) /\ MayBePinned(Releases[release].metrics, id)
  /\ \A i \in DOMAIN metrics : Layout!Kept(starred[metrics[i].id], metrics[i].pinned)

LayoutInv ==
  LayoutFits /\ SwitchesOutlast /\ StarsOutlast /\ arranged \subseteq Layout!Before(providers)

LEMMA EntryIsUnique ==
  ASSUME NEW list, Unique(list), NEW i \in DOMAIN list
  PROVE  Layout!Entry(list, list[i].id) = list[i]
<1>. DEFINE e == Layout!Entry(list, list[i].id)
<1>1. e \in Layout!ToSet(list) /\ e.id = list[i].id
  <2>1. \E x \in Layout!ToSet(list) : x.id = list[i].id
    BY DEF Layout!ToSet
  <2>. QED  BY <2>1, Zenon DEF Layout!Entry
<1>. HIDE DEF e
<1>2. PICK j \in DOMAIN list : e = list[j]
  BY <1>1 DEF Layout!ToSet
<1>3. e = list[i]
  BY <1>1, <1>2 DEF Unique
<1>. QED  BY <1>3 DEF e

(* What every save leaves behind it.                                       *)
Saved(list, metricList) ==
  /\ LayoutFits' /\ arranged' \subseteq Layout!Before(providers)'
  /\ release' = release /\ known \subseteq known' /\ ~probe.running
  /\ IdsIn(providers') = IdsIn(list) /\ IdsIn(metrics') = IdsIn(metricList)
  /\ \A k \in DOMAIN providers' : \E i \in DOMAIN list :
       list[i].id = providers'[k].id /\ providers'[k].enabled = list[i].enabled
  /\ \A k \in DOMAIN metrics' : \E i \in DOMAIN metricList :
       metricList[i].id = metrics'[k].id /\ (metrics'[k].pinned <=> metricList[i].pinned)

LEMMA SaveFits ==
  ASSUME LayoutInv,
         NEW list \in Seq(Cards), Unique(list), IdsIn(list) = IdsIn(providers),
         NEW metricList \in Seq(Shown), Unique(metricList), IdsIn(metricList) = IdsIn(metrics),
         Layout!Pins(metricList) <= MaxPins,
         \A i \in DOMAIN metricList : metricList[i].pinned =>
           MayBePinned(Releases[release].metrics, metricList[i].id),
         Layout!Save(list, metricList)
  PROVE  Saved(list, metricList)
<1>. DEFINE catalog == Releases[release]
            new == Layout!NormalizeProviders(catalog, list, known, Layout!Detected)
            listed == Layout!NormalizeMetrics(metricList, catalog.metrics)
<1>1. /\ release \in DOMAIN Releases /\ IdsIn(providers) = NamesIn(catalog.providers)
      /\ IdsIn(providers) \subseteq known /\ IdsIn(metrics) = IdsIn(catalog.metrics)
  BY DEF LayoutInv, LayoutFits
<1>2. /\ ~probe.running /\ release' = release /\ providers' = new /\ metrics' = listed
      /\ known' = Layout!Known(catalog, list, known) /\ arranged' = Layout!Before(providers')
  BY Zenon DEF Layout!Save, Layout!Catalog
<1>3. /\ catalog.providers \in Seq(STRING) /\ catalog.metrics \in Seq(Definitions)
      /\ \A i, j \in DOMAIN catalog.providers : catalog.providers[i] = catalog.providers[j] => i = j
      /\ Unique(catalog.metrics)
  BY <1>1, ReleasesAreLists, Zenon
<1>. HIDE DEF catalog, new, listed
<1>4. /\ new \in Seq(Cards) /\ Unique(new) /\ IdsIn(new) = NamesIn(catalog.providers)
      /\ \A k \in DOMAIN new :
           \/ \E i \in DOMAIN list : list[i].id = new[k].id /\ new[k].enabled = list[i].enabled
           \/ new[k].id \notin IdsIn(list)
  <2>1. IdsIn(list) \subseteq known
    BY <1>1
  <2>2. new = Layout!NormalizeProviders(catalog, list, known, Layout!Detected)
    BY DEF new
  <2>. QED  BY <1>3, <2>1, <2>2, ProvidersNormalized, SMTT(30)
<1>5. /\ listed \in Seq(Shown) /\ Unique(listed) /\ IdsIn(listed) = IdsIn(catalog.metrics)
      /\ Layout!Pins(listed) <= MaxPins /\ InSight(listed)
      /\ \A k \in DOMAIN listed : listed[k].pinned => MayBePinned(catalog.metrics, listed[k].id)
      /\ \A k \in DOMAIN listed :
           \/ listed[k].id \notin IdsIn(metricList)
           \/ \E i \in DOMAIN metricList : /\ metricList[i].id = listed[k].id
                /\ (listed[k].pinned <=> metricList[i].pinned /\ MayBePinned(catalog.metrics, listed[k].id))
  <2>1. listed = Layout!NormalizeMetrics(metricList, catalog.metrics)
    BY DEF listed
  <2>. QED  BY <1>3, <2>1, MetricsNormalized
<1>6. known \subseteq known' /\ NamesIn(catalog.providers) \subseteq known'
  BY <1>2 DEF Layout!Known, Layout!ToSet, NamesIn
<1>7. \A k \in DOMAIN new : new[k].id \in IdsIn(list)
  <2>1. \A k \in DOMAIN new : new[k].id \in IdsIn(new)
    BY DEF IdsIn
  <2>. QED  BY <1>1, <1>4, <2>1
<1>8. \A k \in DOMAIN listed : listed[k].id \in IdsIn(metricList)
  <2>1. \A k \in DOMAIN listed : listed[k].id \in IdsIn(listed)
    BY DEF IdsIn
  <2>. QED  BY <1>1, <1>5, <2>1
<1>9. \A i \in DOMAIN metricList : metricList[i].pinned => MayBePinned(catalog.metrics, metricList[i].id)
  BY DEF catalog
<1>10. LayoutFits'
  <2>1. Releases[release'] = catalog
    BY <1>2 DEF catalog
  <2>2. /\ release' \in DOMAIN Releases
        /\ providers' \in Seq(Cards) /\ Unique(providers')
        /\ IdsIn(providers') = NamesIn(catalog.providers) /\ IdsIn(providers') \subseteq known'
        /\ metrics' \in Seq(Shown) /\ Unique(metrics') /\ IdsIn(metrics') = IdsIn(catalog.metrics)
        /\ Layout!Pins(metrics') <= MaxPins /\ InSight(metrics')
        /\ \A i \in DOMAIN metrics' : metrics'[i].pinned => MayBePinned(catalog.metrics, metrics'[i].id)
    BY <1>1, <1>2, <1>4, <1>5, <1>6
  <2>. QED  BY <2>1, <2>2, Zenon DEF LayoutFits
<1>11. /\ \A k \in DOMAIN new : \E i \in DOMAIN list :
            list[i].id = new[k].id /\ new[k].enabled = list[i].enabled
       /\ \A k \in DOMAIN listed : \E i \in DOMAIN metricList :
            metricList[i].id = listed[k].id /\ (listed[k].pinned <=> metricList[i].pinned)
  <2>1. ASSUME NEW k \in DOMAIN listed
        PROVE  \E i \in DOMAIN metricList :
                 metricList[i].id = listed[k].id /\ (listed[k].pinned <=> metricList[i].pinned)
    <3>1. PICK i \in DOMAIN metricList : /\ metricList[i].id = listed[k].id
            /\ (listed[k].pinned <=> metricList[i].pinned /\ MayBePinned(catalog.metrics, listed[k].id))
      BY <1>5, <1>8, Zenon
    <3>2. metricList[i].pinned => MayBePinned(catalog.metrics, metricList[i].id)
      BY <1>9
    <3>3. metricList[i].pinned => MayBePinned(catalog.metrics, listed[k].id)
      <4>1. metricList[i].id = listed[k].id
        BY <3>1
      <4>. QED  BY <3>2, <4>1, Zenon
    <3>4. listed[k].pinned <=> metricList[i].pinned /\ MayBePinned(catalog.metrics, listed[k].id)
      BY <3>1, Zenon
    <3>5. listed[k].pinned <=> metricList[i].pinned
      BY <3>3, <3>4, Zenon
    <3>6. metricList[i].id = listed[k].id
      BY <3>1
    <3>. QED  BY <3>5, <3>6, Zenon
  <2>. QED  BY <1>4, <1>7, <2>1, Zenon
<1>12. IdsIn(new) = IdsIn(list) /\ IdsIn(listed) = IdsIn(metricList)
  BY <1>1, <1>4, <1>5
<1>. QED  BY <1>2, <1>6, <1>10, <1>11, <1>12, Zenon DEF Saved

(* A save of other metrics leaves the choices about providers alone, and   *)
(* the other way around.                                                   *)
LEMMA SwitchesUnmoved ==
  ASSUME LayoutInv, NEW list, NEW metricList, Saved(list, metricList),
         UNCHANGED <<probe, switched>>, IdsIn(list) = IdsIn(providers),
         \A i \in DOMAIN list : \E j \in DOMAIN providers : list[i] = providers[j]
  PROVE  SwitchesOutlast'
<1>1. probe' = probe /\ switched' = switched
  OBVIOUS
<1>2. /\ known \subseteq known' /\ IdsIn(providers') = IdsIn(providers)
      /\ \A k \in DOMAIN providers' : \E i \in DOMAIN list :
           list[i].id = providers'[k].id /\ providers'[k].enabled = list[i].enabled
  BY DEF Saved
<1>3. /\ probe \in Probes /\ (~probe.running => probe = Layout!NoProbe)
      /\ switched \in [Layout!ProviderIds -> Choice]
      /\ \A id \in Layout!ProviderIds :
           /\ switched[id] # "none" =>
                id \in known /\ id \notin probe.auto /\ ~(probe.running /\ probe.replace)
           /\ switched[id] = "on" => id \in IdsIn(providers)
      /\ \A i \in DOMAIN providers : Layout!Kept(switched[providers[i].id], providers[i].enabled)
  BY DEF LayoutInv, SwitchesOutlast
<1>4. ASSUME NEW k \in DOMAIN providers'
      PROVE  Layout!Kept(switched[providers'[k].id], providers'[k].enabled)
  <2>1. PICK i \in DOMAIN list : list[i].id = providers'[k].id /\ providers'[k].enabled = list[i].enabled
    BY <1>2
  <2>2. PICK j \in DOMAIN providers : list[i] = providers[j]
    OBVIOUS
  <2>. QED  BY <1>3, <2>1, <2>2, Zenon
<1>5. /\ probe' \in Probes /\ (~probe'.running => probe' = Layout!NoProbe)
      /\ switched' \in [Layout!ProviderIds -> Choice]
      /\ \A id \in Layout!ProviderIds :
           /\ switched'[id] # "none" =>
                id \in known' /\ id \notin probe'.auto /\ ~(probe'.running /\ probe'.replace)
           /\ switched'[id] = "on" => id \in IdsIn(providers')
  BY <1>1, <1>2, <1>3, Zenon
<1>. QED  BY <1>1, <1>4, <1>5, Zenon DEF SwitchesOutlast, Layout!NoProbe

LEMMA StarsUnmoved ==
  ASSUME LayoutInv, NEW list, NEW metricList, Saved(list, metricList),
         UNCHANGED starred, IdsIn(metricList) = IdsIn(metrics),
         \A i \in DOMAIN metricList : \E j \in DOMAIN metrics :
           metricList[i].id = metrics[j].id /\ metricList[i].pinned = metrics[j].pinned
  PROVE  StarsOutlast'
<1>1. starred' = starred /\ release' = release /\ IdsIn(metrics') = IdsIn(metrics)
  BY DEF Saved
<1>2. \A k \in DOMAIN metrics' : \E i \in DOMAIN metricList :
        metricList[i].id = metrics'[k].id /\ (metrics'[k].pinned <=> metricList[i].pinned)
  BY Zenon DEF Saved
<1>3. /\ starred \in [Layout!MetricIds -> Choice]
      /\ \A id \in Layout!MetricIds : starred[id] # "none" =>
           id \in IdsIn(metrics) /\ MayBePinned(Releases[release].metrics, id)
      /\ \A i \in DOMAIN metrics : Layout!Kept(starred[metrics[i].id], metrics[i].pinned)
  BY DEF LayoutInv, StarsOutlast
<1>4. ASSUME NEW k \in DOMAIN metrics'
      PROVE  Layout!Kept(starred[metrics'[k].id], metrics'[k].pinned)
  <2>1. PICK i \in DOMAIN metricList :
          metricList[i].id = metrics'[k].id /\ (metrics'[k].pinned <=> metricList[i].pinned)
    BY <1>2
  <2>2. PICK j \in DOMAIN metrics :
          metricList[i].id = metrics[j].id /\ metricList[i].pinned = metrics[j].pinned
    OBVIOUS
  <2>3. Layout!Kept(starred[metrics[j].id], metrics[j].pinned)
    BY <1>3
  <2>4. metrics[j].id = metrics'[k].id
    BY <2>1, <2>2
  <2>5. Layout!Kept(starred[metrics'[k].id], metrics[j].pinned)
    BY <2>3, <2>4, Zenon
  <2>6. metrics'[k].pinned <=> metrics[j].pinned
    BY <2>1, <2>2, Zenon
  <2>. QED  BY <2>5, <2>6, Zenon DEF Layout!Kept
<1>5. Layout!MetricIds' = Layout!MetricIds
  BY DEF Layout!MetricIds
<1>. QED  BY <1>1, <1>3, <1>4, Zenon DEF StarsOutlast

LEMMA IdsOfReleases ==
  ASSUME NEW r \in DOMAIN Releases
  PROVE  /\ NamesIn(Releases[r].providers) \subseteq Layout!ProviderIds
         /\ IdsIn(Releases[r].metrics) \subseteq Layout!MetricIds
BY DEF NamesIn, IdsIn, Layout!ProviderIds, Layout!MetricIds, Layout!ToSet

(* The user moves things or takes them out of sight: no choice is about it. *)
LEMMA SaveKeepsChoices ==
  ASSUME LayoutInv,
         NEW list \in Seq(Cards), Unique(list), IdsIn(list) = IdsIn(providers),
         \A i \in DOMAIN list : \E j \in DOMAIN providers : list[i] = providers[j],
         NEW metricList \in Seq(Shown), Unique(metricList), IdsIn(metricList) = IdsIn(metrics),
         StarsIn(metricList) = StarsIn(metrics),
         \A i \in DOMAIN metricList : \E j \in DOMAIN metrics :
           metricList[i].id = metrics[j].id /\ metricList[i].pinned = metrics[j].pinned,
         Layout!Save(list, metricList), UNCHANGED <<probe, switched, starred>>
  PROVE  LayoutInv'
<1>1. Layout!Pins(metricList) <= MaxPins
  <2>1. Layout!Pins(metrics) <= MaxPins
    BY DEF LayoutInv, LayoutFits
  <2>. QED  BY <2>1, StarsOfList, Zenon
<1>2. ASSUME NEW i \in DOMAIN metricList, metricList[i].pinned
      PROVE  MayBePinned(Releases[release].metrics, metricList[i].id)
  <2>1. PICK j \in DOMAIN metrics :
          metricList[i].id = metrics[j].id /\ metricList[i].pinned = metrics[j].pinned
    OBVIOUS
  <2>2. metrics[j].pinned => MayBePinned(Releases[release].metrics, metrics[j].id)
    BY DEF LayoutInv, LayoutFits
  <2>. QED  BY <1>2, <2>1, <2>2, Zenon
<1>3. Saved(list, metricList)
  BY <1>1, <1>2, SaveFits
<1>4. SwitchesOutlast'
  BY <1>3, SwitchesUnmoved
<1>5. StarsOutlast'
  <2>1. UNCHANGED starred
    OBVIOUS
  <2>. QED  BY <1>3, <2>1, StarsUnmoved
<1>. QED  BY <1>3, <1>4, <1>5, Zenon DEF LayoutInv, Saved

LEMMA MoveProviderKeeps ==
  ASSUME LayoutInv, NEW from, NEW to, Layout!MoveProvider(from, to)
  PROVE  LayoutInv'
<1>. DEFINE at == {i \in DOMAIN providers : providers[i].enabled}
            rest == DOMAIN providers \ at
            on == Layout!Entries(providers, at)
            off == Layout!Entries(providers, rest)
            moved == Layout!Moved(on, from, to)
            list == moved \o off
<1>1. /\ from \in DOMAIN on /\ to \in DOMAIN on
      /\ Layout!Save(list, metrics) /\ UNCHANGED <<probe, switched, starred>>
  BY Zenon DEF Layout!MoveProvider
<1>2. providers \in Seq(Cards) /\ Unique(providers) /\ metrics \in Seq(Shown) /\ Unique(metrics)
  BY DEF LayoutInv, LayoutFits
<1>3. /\ at \in SUBSET DOMAIN providers /\ rest \in SUBSET DOMAIN providers
      /\ at \union rest = DOMAIN providers /\ at \intersect rest = {}
  OBVIOUS
<1>. HIDE DEF at, rest
<1>4. /\ on \in Seq(Cards) /\ Unique(on)
      /\ \A k \in DOMAIN on : \E i \in at : on[k] = providers[i]
      /\ \A i \in at : \E k \in DOMAIN on : on[k] = providers[i]
  <2>1. \A entries : entries = Layout!Entries(providers, at) =>
          /\ entries \in Seq(Cards) /\ Unique(entries)
          /\ \A k \in DOMAIN entries : \E i \in at : entries[k] = providers[i]
          /\ \A i \in at : \E k \in DOMAIN entries : entries[k] = providers[i]
    <3>1. \A i, j \in at : providers[i].id = providers[j].id => i = j
      BY <1>2, <1>3 DEF Unique
    <3>. QED  BY <1>2, <1>3, <3>1, EntriesOfList
  <2>. QED  BY <2>1
<1>5. /\ off \in Seq(Cards) /\ Unique(off)
      /\ \A k \in DOMAIN off : \E i \in rest : off[k] = providers[i]
      /\ \A i \in rest : \E k \in DOMAIN off : off[k] = providers[i]
  <2>1. \A entries : entries = Layout!Entries(providers, rest) =>
          /\ entries \in Seq(Cards) /\ Unique(entries)
          /\ \A k \in DOMAIN entries : \E i \in rest : entries[k] = providers[i]
          /\ \A i \in rest : \E k \in DOMAIN entries : entries[k] = providers[i]
    <3>1. \A i, j \in rest : providers[i].id = providers[j].id => i = j
      BY <1>2, <1>3 DEF Unique
    <3>. QED  BY <1>2, <1>3, <3>1, EntriesOfList
  <2>. QED  BY <2>1
<1>. HIDE DEF on, off
<1>6. /\ moved \in Seq(Cards) /\ Unique(moved) /\ IdsIn(moved) = IdsIn(on)
      /\ \A k \in DOMAIN moved : \E i \in DOMAIN on : moved[k] = on[i]
  BY <1>1, <1>4, MovedIsPermuted
<1>. HIDE DEF moved
<1>7. /\ \A k \in DOMAIN moved : \E i \in DOMAIN providers : moved[k] = providers[i]
      /\ \A k \in DOMAIN off : \E i \in DOMAIN providers : off[k] = providers[i]
  <2>1. ASSUME NEW k \in DOMAIN moved PROVE \E i \in DOMAIN providers : moved[k] = providers[i]
    <3>1. PICK l \in DOMAIN on : moved[k] = on[l]
      BY <1>6
    <3>2. PICK i \in at : on[l] = providers[i]
      BY <1>4
    <3>. QED  BY <1>3, <3>1, <3>2
  <2>. QED  BY <1>3, <1>5, <2>1
<1>8. IdsIn(moved) \union IdsIn(off) = IdsIn(providers) /\ IdsIn(moved) \intersect IdsIn(off) = {}
  <2>1. IdsIn(on) = {providers[i].id : i \in at}
    BY <1>4 DEF IdsIn
  <2>2. IdsIn(off) = {providers[i].id : i \in rest}
    BY <1>5 DEF IdsIn
  <2>3. IdsIn(on) \union IdsIn(off) = IdsIn(providers)
    BY <1>3, <2>1, <2>2 DEF IdsIn
  <2>4. \A i \in at, j \in rest : providers[i].id # providers[j].id
    BY <1>2, <1>3 DEF Unique
  <2>5. IdsIn(on) \intersect IdsIn(off) = {}
    BY <2>1, <2>2, <2>4
  <2>. QED  BY <1>6, <2>3, <2>5
<1>9. list \in Seq(Cards) /\ Joins(list, moved, off)
  BY <1>5, <1>6, JoinedLists
<1>. HIDE DEF list
<1>10. Unique(list) /\ IdsIn(list) = IdsIn(providers)
  BY <1>5, <1>6, <1>8, <1>9, Zenon DEF Joins
<1>11. \A k \in DOMAIN list : \E i \in DOMAIN providers : list[k] = providers[i]
  BY <1>7, <1>9, ZenonT(30) DEF Joins
<1>12. \A i \in DOMAIN metrics : \E j \in DOMAIN metrics :
         metrics[i].id = metrics[j].id /\ metrics[i].pinned = metrics[j].pinned
  OBVIOUS
<1>. QED  BY <1>1, <1>2, <1>9, <1>10, <1>11, <1>12, SaveKeepsChoices

LEMMA HideKeeps ==
  ASSUME LayoutInv, NEW metric \in Layout!ToSet(metrics), Layout!Hide(metric)
  PROVE  LayoutInv'
<1>. DEFINE hidden == [metric EXCEPT !.enabled = ~@]
            list == Layout!WithEntry(metrics, hidden)
<1>1. Layout!Save(providers, list) /\ UNCHANGED <<probe, switched, starred>>
  BY Zenon DEF Layout!Hide
<1>2. providers \in Seq(Cards) /\ Unique(providers) /\ metrics \in Seq(Shown) /\ Unique(metrics)
  BY DEF LayoutInv, LayoutFits
<1>3. PICK m \in DOMAIN metrics : metric = metrics[m]
  BY DEF Layout!ToSet
<1>4. hidden \in Shown /\ hidden.id = metric.id /\ hidden.pinned = metric.pinned
  <2>1. metric \in Shown
    BY <1>2, <1>3
  <2>. QED  BY <2>1 DEF Shown
<1>. HIDE DEF hidden
<1>5. /\ list \in Seq(Shown) /\ DOMAIN list = DOMAIN metrics /\ IdsIn(list) = IdsIn(metrics)
      /\ Unique(list)
      /\ \A i \in DOMAIN metrics : /\ list[i] = IF metrics[i].id = hidden.id THEN hidden ELSE metrics[i]
                                   /\ list[i].id = metrics[i].id
  BY <1>2, <1>4, EntryReplaced
<1>. HIDE DEF list
<1>6. ASSUME NEW i \in DOMAIN metrics PROVE list[i].pinned = metrics[i].pinned
  <2>1. CASE metrics[i].id = hidden.id
    <3>1. i = m
      BY <1>2, <1>3, <1>4, <2>1 DEF Unique
    <3>. QED  BY <1>3, <1>4, <1>5, <2>1, <3>1
  <2>2. CASE metrics[i].id # hidden.id
    BY <1>5, <2>2
  <2>. QED  BY <2>1, <2>2
<1>7. StarsIn(list) = StarsIn(metrics)
  BY <1>5, <1>6 DEF StarsIn
<1>8. \A i \in DOMAIN list : \E j \in DOMAIN metrics :
        list[i].id = metrics[j].id /\ list[i].pinned = metrics[j].pinned
  BY <1>5, <1>6
<1>. QED  BY <1>1, <1>2, <1>5, <1>7, <1>8, SaveKeepsChoices

LEMMA MoveMetricKeeps ==
  ASSUME LayoutInv, NEW from \in DOMAIN metrics, NEW to \in DOMAIN metrics,
         NEW always \in BOOLEAN, Layout!MoveMetric(from, to, always)
  PROVE  LayoutInv'
<1>. DEFINE changed == [metrics EXCEPT ![from].always = always]
            list == Layout!Moved(changed, from, to)
<1>1. Layout!Save(providers, list) /\ UNCHANGED <<probe, switched, starred>>
  BY Zenon DEF Layout!MoveMetric
<1>2. providers \in Seq(Cards) /\ Unique(providers) /\ metrics \in Seq(Shown) /\ Unique(metrics)
  BY DEF LayoutInv, LayoutFits
<1>3. /\ changed \in Seq(Shown) /\ DOMAIN changed = DOMAIN metrics
      /\ \A i \in DOMAIN metrics : changed[i].id = metrics[i].id /\ changed[i].pinned = metrics[i].pinned
  <2>1. DOMAIN metrics = 1 .. Len(metrics) /\ Len(metrics) \in Nat
        /\ \A i \in DOMAIN metrics : metrics[i] \in Shown
    BY <1>2
  <2>2. /\ DOMAIN changed = DOMAIN metrics /\ changed = [i \in 1 .. Len(metrics) |-> changed[i]]
        /\ \A i \in DOMAIN metrics :
             changed[i] = IF i = from THEN [metrics[from] EXCEPT !.always = always] ELSE metrics[i]
    BY <2>1
  <2>. HIDE DEF changed
  <2>3. \A e \in Shown : LET f == [e EXCEPT !.always = always]
                         IN f \in Shown /\ f.id = e.id /\ f.pinned = e.pinned
    BY DEF Shown
  <2>4. \A i \in DOMAIN metrics : /\ changed[i] \in Shown
          /\ changed[i].id = metrics[i].id /\ changed[i].pinned = metrics[i].pinned
    BY <2>1, <2>2, <2>3, ZenonT(30)
  <2>5. changed \in [1 .. Len(metrics) -> Shown]
    BY <2>1, <2>2, <2>4
  <2>. QED  BY <2>1, <2>2, <2>4, <2>5
<1>4. Unique(changed) /\ IdsIn(changed) = IdsIn(metrics) /\ StarsIn(changed) = StarsIn(metrics)
  <2>. HIDE DEF changed
  <2>1. Unique(changed)
    BY <1>2, <1>3 DEF Unique
  <2>2. IdsIn(changed) = IdsIn(metrics)
    BY <1>3 DEF IdsIn
  <2>3. StarsIn(changed) = StarsIn(metrics)
    BY <1>3 DEF StarsIn
  <2>. QED  BY <2>1, <2>2, <2>3
<1>. HIDE DEF changed
<1>5. /\ list \in Seq(Shown) /\ Unique(list) /\ IdsIn(list) = IdsIn(changed)
      /\ StarsIn(list) = StarsIn(changed)
      /\ \A k \in DOMAIN list : \E i \in DOMAIN changed : list[k] = changed[i]
  BY <1>3, <1>4, MovedIsPermuted
<1>. HIDE DEF list
<1>6. \A k \in DOMAIN list : \E j \in DOMAIN metrics :
        list[k].id = metrics[j].id /\ list[k].pinned = metrics[j].pinned
  BY <1>3, <1>5
<1>7. \A i \in DOMAIN providers : \E j \in DOMAIN providers : providers[i] = providers[j]
  OBVIOUS
<1>. QED  BY <1>1, <1>2, <1>4, <1>5, <1>6, <1>7, SaveKeepsChoices

LEMMA SwitchKeeps ==
  ASSUME LayoutInv, NEW card \in Layout!ToSet(providers), Layout!Switch(card)
  PROVE  LayoutInv'
<1>. DEFINE flipped == [card EXCEPT !.enabled = ~@]
            list == Layout!WithEntry(providers, flipped)
<1>1. /\ Layout!Save(list, metrics) /\ UNCHANGED <<probe, starred>>
      /\ switched' = [switched EXCEPT ![card.id] = IF card.enabled THEN "off" ELSE "on"]
  BY Zenon DEF Layout!Switch
<1>2. /\ release \in DOMAIN Releases /\ IdsIn(providers) = NamesIn(Releases[release].providers)
      /\ IdsIn(providers) \subseteq known
      /\ providers \in Seq(Cards) /\ Unique(providers) /\ metrics \in Seq(Shown) /\ Unique(metrics)
      /\ Layout!Pins(metrics) <= MaxPins
      /\ \A i \in DOMAIN metrics :
           metrics[i].pinned => MayBePinned(Releases[release].metrics, metrics[i].id)
  BY DEF LayoutInv, LayoutFits
<1>3. PICK c \in DOMAIN providers : card = providers[c]
  BY DEF Layout!ToSet
<1>4. flipped \in Cards /\ flipped.id = card.id /\ flipped.enabled = ~card.enabled /\ card \in Cards
  <2>1. card \in Cards
    BY <1>2, <1>3
  <2>. QED  BY <2>1 DEF Cards
<1>. HIDE DEF flipped
<1>5. /\ list \in Seq(Cards) /\ DOMAIN list = DOMAIN providers /\ IdsIn(list) = IdsIn(providers)
      /\ Unique(list)
      /\ \A i \in DOMAIN providers :
           /\ list[i] = IF providers[i].id = flipped.id THEN flipped ELSE providers[i]
           /\ list[i].id = providers[i].id
  <2>1. providers \in Seq(Cards) /\ Unique(providers) /\ flipped \in Cards
    BY <1>2, <1>4
  <2>. QED  BY <2>1, EntryReplaced
<1>. HIDE DEF list
<1>6. Saved(list, metrics)
  BY <1>1, <1>2, <1>5, SaveFits
<1>7. StarsOutlast'
  <2>1. \A i \in DOMAIN metrics : \E j \in DOMAIN metrics :
          metrics[i].id = metrics[j].id /\ metrics[i].pinned = metrics[j].pinned
    OBVIOUS
  <2>2. UNCHANGED starred
    BY <1>1
  <2>. QED  BY <1>6, <2>1, <2>2, StarsUnmoved
<1>8. /\ known \subseteq known' /\ IdsIn(providers') = IdsIn(providers) /\ ~probe.running
      /\ \A k \in DOMAIN providers' : \E i \in DOMAIN list :
           list[i].id = providers'[k].id /\ providers'[k].enabled = list[i].enabled
  BY <1>5, <1>6 DEF Saved
<1>9. /\ probe \in Probes /\ probe = Layout!NoProbe
      /\ switched \in [Layout!ProviderIds -> Choice]
      /\ \A id \in Layout!ProviderIds :
           /\ switched[id] # "none" => id \in known
           /\ switched[id] = "on" => id \in IdsIn(providers)
      /\ \A i \in DOMAIN providers : Layout!Kept(switched[providers[i].id], providers[i].enabled)
  BY <1>8 DEF LayoutInv, SwitchesOutlast
<1>10. IdsIn(providers) \subseteq Layout!ProviderIds /\ card.id \in IdsIn(providers)
  BY <1>2, <1>3, IdsOfReleases DEF IdsIn
<1>11. /\ switched' \in [Layout!ProviderIds -> Choice]
       /\ switched'[card.id] = IF card.enabled THEN "off" ELSE "on"
       /\ \A id \in Layout!ProviderIds : id # card.id => switched'[id] = switched[id]
  BY <1>1, <1>9, <1>10 DEF Choice
<1>12. ASSUME NEW k \in DOMAIN providers'
       PROVE  Layout!Kept(switched'[providers'[k].id], providers'[k].enabled)
  <2>1. PICK i \in DOMAIN providers : list[i].id = providers'[k].id /\ providers'[k].enabled = list[i].enabled
    BY <1>5, <1>8
  <2>2. CASE providers[i].id = card.id
    <3>1. list[i] = flipped
      BY <1>4, <1>5, <2>2
    <3>2. providers'[k].id = card.id /\ providers'[k].enabled = ~card.enabled
      BY <1>4, <2>1, <3>1
    <3>. QED  BY <1>4, <1>11, <3>2 DEF Layout!Kept, Cards
  <2>3. CASE providers[i].id # card.id
    <3>1. list[i] = providers[i] /\ providers[i].id \in Layout!ProviderIds
      BY <1>4, <1>5, <1>10, <2>3 DEF IdsIn
    <3>2. switched'[providers[i].id] = switched[providers[i].id]
      BY <1>11, <2>3, <3>1
    <3>3. Layout!Kept(switched[providers[i].id], providers[i].enabled)
      BY <1>9
    <3>. QED  BY <2>1, <3>1, <3>2, <3>3
  <2>. QED  BY <2>2, <2>3
<1>13. \A id \in Layout!ProviderIds :
         /\ switched'[id] # "none" => id \in known' /\ id \notin probe.auto /\ ~probe.replace
         /\ switched'[id] = "on" => id \in IdsIn(providers')
  <2>1. probe.auto = {} /\ probe.replace = FALSE
    BY <1>9 DEF Layout!NoProbe
  <2>. QED  BY <1>2, <1>8, <1>9, <1>10, <1>11, <2>1
<1>14. probe' = probe
  BY <1>1
<1>15. SwitchesOutlast'
  BY <1>8, <1>9, <1>11, <1>12, <1>13, <1>14, Zenon DEF SwitchesOutlast, Layout!NoProbe
<1>. QED  BY <1>6, <1>7, <1>15, Zenon DEF LayoutInv, Saved

LEMMA StarKeeps ==
  ASSUME LayoutInv, NEW metric \in Layout!ToSet(metrics), Layout!Star(metric)
  PROVE  LayoutInv'
<1>. DEFINE flipped == [metric EXCEPT !.pinned = ~@]
            list == Layout!WithEntry(metrics, flipped)
<1>1. /\ MayBePinned(Releases[release].metrics, metric.id)
      /\ metric.pinned \/ Layout!Pins(metrics) < MaxPins
      /\ Layout!Save(providers, list) /\ UNCHANGED <<probe, switched>>
      /\ starred' = [starred EXCEPT ![metric.id] = IF metric.pinned THEN "off" ELSE "on"]
  BY Zenon DEF Layout!Star, MayBePinned, Layout!Catalog
<1>2. /\ release \in DOMAIN Releases /\ IdsIn(metrics) = IdsIn(Releases[release].metrics)
      /\ providers \in Seq(Cards) /\ Unique(providers) /\ metrics \in Seq(Shown) /\ Unique(metrics)
      /\ Layout!Pins(metrics) <= MaxPins
      /\ \A i \in DOMAIN metrics :
           metrics[i].pinned => MayBePinned(Releases[release].metrics, metrics[i].id)
  BY DEF LayoutInv, LayoutFits
<1>3. PICK m \in DOMAIN metrics : metric = metrics[m]
  BY DEF Layout!ToSet
<1>4. flipped \in Shown /\ flipped.id = metric.id /\ flipped.pinned = ~metric.pinned /\ metric \in Shown
  <2>1. metric \in Shown
    BY <1>2, <1>3
  <2>. QED  BY <2>1 DEF Shown
<1>. HIDE DEF flipped
<1>5. /\ list \in Seq(Shown) /\ DOMAIN list = DOMAIN metrics /\ IdsIn(list) = IdsIn(metrics)
      /\ Unique(list)
      /\ \A i \in DOMAIN metrics : /\ list[i] = IF metrics[i].id = flipped.id THEN flipped ELSE metrics[i]
                                   /\ list[i].id = metrics[i].id
  BY <1>2, <1>4, EntryReplaced
<1>. HIDE DEF list
<1>6. ASSUME NEW i \in DOMAIN metrics
      PROVE  /\ metrics[i].id # metric.id => list[i] = metrics[i]
             /\ metrics[i].id = metric.id => list[i].pinned = ~metric.pinned
  BY <1>4, <1>5
<1>7. Layout!Pins(list) <= MaxPins
  <2>1. MaxPins \in Nat /\ Cardinality(StarsIn(metrics)) <= MaxPins
    BY <1>2, ReleasesAssumption, StarsOfList
  <2>2. IsFiniteSet(StarsIn(metrics)) /\ Cardinality(StarsIn(metrics)) \in Nat
        /\ Cardinality(StarsIn(list)) \in Nat
    BY <1>2, <1>5, StarsAreFinite
  <2>3. CASE metric.pinned
    <3>1. StarsIn(list) \in SUBSET StarsIn(metrics)
      BY <1>5, <1>6, <2>3 DEF StarsIn
    <3>2. Cardinality(StarsIn(list)) <= Cardinality(StarsIn(metrics))
      BY <2>2, <3>1, FS_Subset
    <3>3. Cardinality(StarsIn(list)) <= MaxPins
      BY <2>1, <2>2, <3>2
    <3>. QED  BY <3>3, StarsOfList, Zenon
  <2>4. CASE ~metric.pinned
    <3>1. StarsIn(list) \in SUBSET (StarsIn(metrics) \union {metric.id})
      BY <1>5, <1>6 DEF StarsIn
    <3>2. metric.id \notin StarsIn(metrics)
      BY <1>2, <1>3, <2>4 DEF StarsIn, Unique
    <3>3. /\ IsFiniteSet(StarsIn(metrics) \union {metric.id})
          /\ Cardinality(StarsIn(metrics) \union {metric.id}) = Cardinality(StarsIn(metrics)) + 1
      BY <2>2, <3>2, FS_AddElement
    <3>4. Cardinality(StarsIn(list)) <= Cardinality(StarsIn(metrics)) + 1
      BY <3>1, <3>3, FS_Subset
    <3>5. Cardinality(StarsIn(metrics)) < MaxPins
      BY <1>1, <2>4, StarsOfList
    <3>6. Cardinality(StarsIn(list)) <= MaxPins
      BY <2>1, <2>2, <3>4, <3>5
    <3>. QED  BY <3>6, StarsOfList, Zenon
  <2>. QED  BY <2>3, <2>4
<1>8. ASSUME NEW i \in DOMAIN list, list[i].pinned
      PROVE  MayBePinned(Releases[release].metrics, list[i].id)
  <2>1. CASE metrics[i].id = metric.id
    BY <1>1, <1>5, <2>1
  <2>2. CASE metrics[i].id # metric.id
    <3>1. list[i] = metrics[i] /\ metrics[i].pinned
      BY <1>5, <1>6, <1>8, <2>2
    <3>2. MayBePinned(Releases[release].metrics, metrics[i].id)
      BY <1>2, <1>5, <3>1
    <3>. QED  BY <3>1, <3>2
  <2>. QED  BY <2>1, <2>2
<1>9. Saved(providers, list)
  BY <1>1, <1>2, <1>5, <1>7, <1>8, SaveFits
<1>10. SwitchesOutlast'
  <2>1. UNCHANGED <<probe, switched>>
    BY <1>1
  <2>2. \A i \in DOMAIN providers : \E j \in DOMAIN providers : providers[i] = providers[j]
    OBVIOUS
  <2>. QED  BY <1>9, <2>1, <2>2, SwitchesUnmoved
<1>11. /\ release' = release /\ IdsIn(metrics') = IdsIn(metrics)
       /\ \A k \in DOMAIN metrics' : \E i \in DOMAIN list :
            list[i].id = metrics'[k].id /\ (metrics'[k].pinned <=> list[i].pinned)
  BY <1>5, <1>9, Zenon DEF Saved
<1>12. /\ starred \in [Layout!MetricIds -> Choice]
       /\ \A id \in Layout!MetricIds : starred[id] # "none" =>
            id \in IdsIn(metrics) /\ MayBePinned(Releases[release].metrics, id)
       /\ \A i \in DOMAIN metrics : Layout!Kept(starred[metrics[i].id], metrics[i].pinned)
  BY DEF LayoutInv, StarsOutlast
<1>13. IdsIn(metrics) \subseteq Layout!MetricIds /\ metric.id \in IdsIn(metrics)
  BY <1>2, <1>3, IdsOfReleases DEF IdsIn
<1>14. /\ starred' \in [Layout!MetricIds -> Choice]
       /\ starred'[metric.id] = IF metric.pinned THEN "off" ELSE "on"
       /\ \A id \in Layout!MetricIds : id # metric.id => starred'[id] = starred[id]
  BY <1>1, <1>12, <1>13 DEF Choice
<1>15. ASSUME NEW k \in DOMAIN metrics'
       PROVE  Layout!Kept(starred'[metrics'[k].id], metrics'[k].pinned)
  <2>1. PICK i \in DOMAIN metrics : list[i].id = metrics'[k].id /\ (metrics'[k].pinned <=> list[i].pinned)
    BY <1>5, <1>11, Zenon
  <2>2. CASE metrics[i].id = metric.id
    <3>1. list[i].pinned = ~metric.pinned /\ metrics'[k].id = metric.id
      BY <1>5, <1>6, <2>1, <2>2
    <3>2. metrics'[k].pinned <=> ~metric.pinned
      BY <2>1, <3>1, Zenon
    <3>. QED  BY <1>14, <3>1, <3>2 DEF Layout!Kept
  <2>3. CASE metrics[i].id # metric.id
    <3>1. list[i] = metrics[i] /\ metrics[i].id \in Layout!MetricIds
      BY <1>6, <1>13, <2>3 DEF IdsIn
    <3>2. starred'[metrics[i].id] = starred[metrics[i].id]
      BY <1>14, <2>3, <3>1
    <3>3. Layout!Kept(starred[metrics[i].id], metrics[i].pinned)
      BY <1>12
    <3>4. metrics[i].id = metrics'[k].id
      BY <1>5, <2>1
    <3>5. metrics'[k].pinned <=> metrics[i].pinned
      BY <2>1, <3>1, Zenon
    <3>6. starred'[metrics'[k].id] = starred[metrics[i].id]
      BY <3>2, <3>4
    <3>. QED  BY <3>3, <3>5, <3>6, Zenon DEF Layout!Kept
  <2>. QED  BY <2>2, <2>3
<1>16. \A id \in Layout!MetricIds : starred'[id] # "none" =>
         id \in IdsIn(metrics') /\ MayBePinned(Releases[release].metrics, id)
  BY <1>1, <1>11, <1>12, <1>13, <1>14
<1>17. StarsOutlast'
  BY <1>11, <1>14, <1>15, <1>16, Zenon DEF StarsOutlast
<1>. QED  BY <1>9, <1>10, <1>17, Zenon DEF LayoutInv, Saved

LEMMA ProbedKeeps ==
  ASSUME LayoutInv, NEW found, Layout!Probed(found)
  PROVE  LayoutInv'
<1>. DEFINE on(e) == IF probe.replace
                     THEN IF found = {} THEN e.id \in Layout!Catalog.fallback ELSE e.id \in found
                     ELSE e.enabled \/ (e.id \in probe.auto /\ e.id \in found)
<1>1. /\ probe.running /\ probe' = Layout!NoProbe
      /\ providers' = [i \in DOMAIN providers |->
           [providers[i] EXCEPT !.detected = providers[i].id \in found, !.enabled = on(providers[i])]]
      /\ release' = release /\ known' = known /\ metrics' = metrics
      /\ switched' = switched /\ starred' = starred /\ arranged' = arranged
  BY Zenon DEF Layout!Probed
<1>2. /\ providers \in Seq(Cards) /\ Unique(providers) /\ LayoutFits
      /\ SwitchesOutlast /\ StarsOutlast /\ arranged \subseteq Layout!Before(providers)
  BY DEF LayoutInv, LayoutFits
<1>3. \A e : on(e) \in BOOLEAN
  <2>1. \A e : (e.enabled \/ (e.id \in probe.auto /\ e.id \in found)) \in BOOLEAN
    BY Zenon
  <2>. QED  BY <2>1, IsTruth, Zenon
<1>. HIDE DEF on
<1>4. ASSUME NEW i \in DOMAIN providers
      PROVE  /\ providers'[i] \in Cards /\ providers'[i].id = providers[i].id
             /\ providers'[i].enabled = on(providers[i])
  <2>1. PICK a, b \in BOOLEAN : a = (providers[i].id \in found) /\ b = on(providers[i])
    BY <1>3, IsTruth, Zenon
  <2>2. providers'[i] = [providers[i] EXCEPT !.detected = a, !.enabled = b]
    BY <1>1, <2>1, Zenon
  <2>3. providers[i] \in Cards
    BY <1>2
  <2>. QED  BY <2>1, <2>2, <2>3 DEF Cards
<1>5. providers' \in Seq(Cards) /\ DOMAIN providers' = DOMAIN providers
  <2>1. DOMAIN providers = 1 .. Len(providers) /\ Len(providers) \in Nat
    BY <1>2
  <2>2. DOMAIN providers' = 1 .. Len(providers) /\ providers' = [i \in 1 .. Len(providers) |-> providers'[i]]
    BY <1>1, <2>1
  <2>3. providers' \in [1 .. Len(providers) -> Cards]
    BY <1>4, <2>1, <2>2
  <2>. QED  BY <2>1, <2>2, <2>3
<1>6. Unique(providers') /\ IdsIn(providers') = IdsIn(providers)
  <2>1. Unique(providers')
    BY <1>2, <1>4, <1>5 DEF Unique
  <2>2. IdsIn(providers') = IdsIn(providers)
    BY <1>4, <1>5 DEF IdsIn
  <2>. QED  BY <2>1, <2>2
<1>7. LayoutFits'
  BY <1>1, <1>2, <1>5, <1>6 DEF LayoutFits
<1>8. StarsOutlast'
  BY <1>1, <1>2 DEF StarsOutlast
<1>9. arranged' \subseteq Layout!Before(providers)'
  <2>1. Layout!Before(providers') = Layout!Before(providers)
    BY <1>4, <1>5 DEF Layout!Before
  <2>. QED  BY <1>1, <1>2, <2>1
<1>10. /\ probe \in Probes /\ switched \in [Layout!ProviderIds -> Choice]
       /\ \A id \in Layout!ProviderIds :
            /\ switched[id] # "none" =>
                 id \in known /\ id \notin probe.auto /\ ~(probe.running /\ probe.replace)
            /\ switched[id] = "on" => id \in IdsIn(providers)
       /\ \A i \in DOMAIN providers : Layout!Kept(switched[providers[i].id], providers[i].enabled)
  BY <1>2 DEF SwitchesOutlast
<1>11. \A i \in DOMAIN providers : providers[i].id \in Layout!ProviderIds
  BY <1>2, IdsOfReleases DEF LayoutFits, IdsIn
<1>12. ASSUME NEW k \in DOMAIN providers'
       PROVE  Layout!Kept(switched[providers'[k].id], providers'[k].enabled)
  <2>1. /\ providers'[k].id = providers[k].id /\ providers'[k].enabled = on(providers[k])
        /\ providers[k].id \in Layout!ProviderIds
        /\ Layout!Kept(switched[providers[k].id], providers[k].enabled)
    BY <1>4, <1>5, <1>10, <1>11
  <2>2. CASE switched[providers[k].id] = "none"
    BY <2>1, <2>2 DEF Layout!Kept
  <2>3. CASE switched[providers[k].id] # "none"
    <3>1. providers[k].id \notin probe.auto /\ ~probe.replace
      BY <1>1, <1>10, <2>1, <2>3
    <3>2. on(providers[k]) <=> providers[k].enabled
      BY <3>1, Zenon DEF on
    <3>3. providers'[k].enabled <=> providers[k].enabled
      BY <2>1, <3>2, Zenon
    <3>4. switched[providers'[k].id] = switched[providers[k].id]
      BY <2>1
    <3>. QED  BY <2>1, <3>3, <3>4, Zenon DEF Layout!Kept
  <2>. QED  BY <2>2, <2>3
<1>13. /\ probe' \in Probes /\ (~probe'.running => probe' = Layout!NoProbe)
       /\ probe'.auto = {} /\ probe'.running = FALSE
  BY <1>1 DEF Layout!NoProbe, Probes
<1>14. \A id \in Layout!ProviderIds :
         /\ switched[id] # "none" =>
              id \in known' /\ id \notin probe'.auto /\ ~(probe'.running /\ probe'.replace)
         /\ switched[id] = "on" => id \in IdsIn(providers')
  BY <1>1, <1>6, <1>10, <1>13
<1>15. SwitchesOutlast'
  BY <1>1, <1>10, <1>12, <1>13, <1>14, Zenon DEF SwitchesOutlast, Layout!NoProbe
<1>. QED  BY <1>7, <1>8, <1>9, <1>15 DEF LayoutInv

(* Any release may be the next: an older one forgets no choice to turn a   *)
(* provider off.                                                           *)
LEMMA LayoutLaunchKeeps ==
  ASSUME LayoutInv, NEW r \in DOMAIN Releases, Layout!Launch(r)
  PROVE  LayoutInv'
<1>. DEFINE catalog == Releases[r]
            found == Layout!Detected \intersect Layout!ToSet(catalog.providers)
            new == Layout!NormalizeProviders(catalog, providers, known, found)
            listed == Layout!NormalizeMetrics(metrics, catalog.metrics)
            pinnable == {d.id : d \in {e \in Layout!ToSet(catalog.metrics) : e.pinnable}}
<1>1. /\ release' = r /\ providers' = new /\ metrics' = listed
      /\ known' = Layout!Known(catalog, providers, known)
      /\ probe' = [auto |-> IF known = {} THEN {} ELSE Layout!ToSet(catalog.providers) \ known,
                   replace |-> FALSE, running |-> TRUE]
      /\ Layout!Remember(r)
  BY Zenon DEF Layout!Launch
<1>2. /\ switched' = [id \in Layout!ProviderIds |->
           IF switched[id] = "on" /\ ~Layout!Contains(catalog.providers, id) THEN "none" ELSE switched[id]]
      /\ starred' = Layout!Forget(starred, pinnable)
      /\ arranged' = arranged \intersect (Layout!ToSet(catalog.providers) \X Layout!ToSet(catalog.providers))
  BY <1>1, Zenon DEF Layout!Remember
<1>3. /\ catalog.providers \in Seq(STRING) /\ catalog.metrics \in Seq(Definitions)
      /\ \A i, j \in DOMAIN catalog.providers : catalog.providers[i] = catalog.providers[j] => i = j
      /\ Unique(catalog.metrics)
  BY ReleasesAreLists, Zenon
<1>4. /\ release \in DOMAIN Releases /\ providers \in Seq(Cards) /\ Unique(providers)
      /\ IdsIn(providers) = NamesIn(Releases[release].providers) /\ IdsIn(providers) \subseteq known
      /\ metrics \in Seq(Shown) /\ Unique(metrics) /\ Layout!Pins(metrics) <= MaxPins
      /\ SwitchesOutlast /\ StarsOutlast /\ arranged \subseteq Layout!Before(providers)
  BY DEF LayoutInv, LayoutFits
<1>. HIDE DEF catalog, new, listed, found
<1>5. /\ new \in Seq(Cards) /\ Unique(new) /\ IdsIn(new) = NamesIn(catalog.providers)
      /\ \A k \in DOMAIN new :
           \/ \E i \in DOMAIN providers :
                providers[i].id = new[k].id /\ new[k].enabled = providers[i].enabled
           \/ new[k].id \notin IdsIn(providers) /\ (new[k].enabled => new[k].id \notin known)
      /\ \A a, b \in NamesIn(catalog.providers) : Precedes(providers, a, b) => Precedes(new, a, b)
  <2>1. new = Layout!NormalizeProviders(catalog, providers, known, found)
    BY DEF new
  <2>. QED  BY <1>3, <1>4, <2>1, ProvidersNormalized
<1>6. /\ listed \in Seq(Shown) /\ Unique(listed) /\ IdsIn(listed) = IdsIn(catalog.metrics)
      /\ Layout!Pins(listed) <= MaxPins /\ InSight(listed)
      /\ \A k \in DOMAIN listed : listed[k].pinned => MayBePinned(catalog.metrics, listed[k].id)
      /\ \A k \in DOMAIN listed :
           \/ listed[k].id \notin IdsIn(metrics)
           \/ \E i \in DOMAIN metrics :
                /\ metrics[i].id = listed[k].id
                /\ (listed[k].pinned <=> metrics[i].pinned /\ MayBePinned(catalog.metrics, listed[k].id))
  <2>1. listed = Layout!NormalizeMetrics(metrics, catalog.metrics)
    BY DEF listed
  <2>. QED  BY <1>3, <1>4, <2>1, MetricsNormalized, SMTT(30)
<1>7. Layout!ToSet(catalog.providers) = NamesIn(catalog.providers)
  BY DEF Layout!ToSet, NamesIn
<1>8. known \subseteq known' /\ NamesIn(catalog.providers) \subseteq known'
  BY <1>1, <1>7 DEF Layout!Known
<1>9. LayoutFits'
  <2>1. Releases[release'] = catalog
    BY <1>1 DEF catalog
  <2>2. /\ release' \in DOMAIN Releases
        /\ providers' \in Seq(Cards) /\ Unique(providers')
        /\ IdsIn(providers') = NamesIn(catalog.providers) /\ IdsIn(providers') \subseteq known'
        /\ metrics' \in Seq(Shown) /\ Unique(metrics') /\ IdsIn(metrics') = IdsIn(catalog.metrics)
        /\ Layout!Pins(metrics') <= MaxPins /\ InSight(metrics')
        /\ \A i \in DOMAIN metrics' : metrics'[i].pinned => MayBePinned(catalog.metrics, metrics'[i].id)
    BY <1>1, <1>5, <1>6, <1>8
  <2>. QED  BY <2>1, <2>2, Zenon DEF LayoutFits
<1>10. arranged' \subseteq Layout!Before(providers)'
  <2>1. ASSUME NEW pair \in arranged' PROVE pair \in Layout!Before(providers')
    <3>1. /\ pair \in Layout!ProviderIds \X Layout!ProviderIds
          /\ \E i, j \in DOMAIN providers :
               i < j /\ providers[i].id = pair[1] /\ providers[j].id = pair[2]
      BY <1>2, <1>4 DEF Layout!Before
    <3>2. pair[1] \in NamesIn(catalog.providers) /\ pair[2] \in NamesIn(catalog.providers)
      BY <1>2, <1>7
    <3>3. Precedes(new, pair[1], pair[2])
      BY <1>5, <3>1, <3>2 DEF Precedes
    <3>. QED  BY <1>1, <3>1, <3>3 DEF Precedes, Layout!Before
  <2>. QED  BY <2>1
<1>11. /\ probe \in Probes /\ switched \in [Layout!ProviderIds -> Choice]
       /\ \A id \in Layout!ProviderIds :
            /\ switched[id] # "none" => id \in known
            /\ switched[id] = "on" => id \in IdsIn(providers)
       /\ \A i \in DOMAIN providers : Layout!Kept(switched[providers[i].id], providers[i].enabled)
  BY <1>4 DEF SwitchesOutlast
<1>12. \A id : Layout!Contains(catalog.providers, id) <=> id \in NamesIn(catalog.providers)
  <2>1. DOMAIN catalog.providers = 1 .. Len(catalog.providers)
    BY <1>3
  <2>. QED  BY <2>1 DEF Layout!Contains, NamesIn
<1>13. /\ switched' \in [Layout!ProviderIds -> Choice]
       /\ \A id \in Layout!ProviderIds :
            /\ switched'[id] # "none" => switched'[id] = switched[id]
            /\ switched'[id] = "on" => id \in NamesIn(catalog.providers)
  BY <1>2, <1>11, <1>12 DEF Choice
<1>14. ASSUME NEW k \in DOMAIN providers'
       PROVE  Layout!Kept(switched'[providers'[k].id], providers'[k].enabled)
  <2>1. providers'[k].id \in NamesIn(catalog.providers)
    BY <1>1, <1>5 DEF IdsIn
  <2>2. providers'[k].id \in Layout!ProviderIds
    BY <2>1, IdsOfReleases DEF catalog
  <2>3. CASE switched'[providers'[k].id] = "none"
    BY <2>3 DEF Layout!Kept
  <2>4. CASE switched'[providers'[k].id] # "none"
    <3>1. switched'[providers'[k].id] = switched[providers'[k].id]
      BY <1>13, <2>2, <2>4
    <3>2. CASE \E i \in DOMAIN providers :
                 providers[i].id = providers'[k].id /\ providers'[k].enabled = providers[i].enabled
      BY <1>11, <3>1, <3>2
    <3>3. CASE providers'[k].id \notin IdsIn(providers) /\ (providers'[k].enabled => providers'[k].id \notin known)
      BY <1>11, <2>2, <2>4, <3>1, <3>3 DEF Layout!Kept
    <3>. QED  BY <1>1, <1>5, <3>2, <3>3
  <2>. QED  BY <2>3, <2>4
<1>15. SwitchesOutlast'
  <2>1. /\ probe' \in Probes /\ probe'.running = TRUE /\ probe'.replace = FALSE
        /\ probe'.auto \intersect known = {}
    <3>1. NamesIn(catalog.providers) \in SUBSET STRING
      BY <1>3 DEF NamesIn
    <3>2. PICK auto \in SUBSET STRING :
            /\ auto = (IF known = {} THEN {} ELSE NamesIn(catalog.providers) \ known)
            /\ auto \intersect known = {}
      <4>1. CASE known = {}
        BY <4>1
      <4>2. CASE known # {}
        <5>1. NamesIn(catalog.providers) \ known \in SUBSET STRING
          BY <3>1
        <5>. QED  BY <4>2, <5>1
      <4>. QED  BY <4>1, <4>2
    <3>3. probe' = [auto |-> auto, replace |-> FALSE, running |-> TRUE]
      BY <1>1, <1>7, <3>2, Zenon
    <3>. QED  BY <3>2, <3>3 DEF Probes
  <2>2. \A id \in Layout!ProviderIds :
          /\ switched'[id] # "none" =>
               id \in known' /\ id \notin probe'.auto /\ ~(probe'.running /\ probe'.replace)
          /\ switched'[id] = "on" => id \in IdsIn(providers')
    BY <1>1, <1>5, <1>8, <1>11, <1>13, <2>1
  <2>. QED  BY <1>13, <1>14, <2>1, <2>2, Zenon DEF SwitchesOutlast
<1>16. /\ starred \in [Layout!MetricIds -> Choice]
       /\ \A id \in Layout!MetricIds : starred[id] # "none" => id \in IdsIn(metrics)
       /\ \A i \in DOMAIN metrics : Layout!Kept(starred[metrics[i].id], metrics[i].pinned)
  BY <1>4 DEF StarsOutlast
<1>17. \A id \in pinnable : id \in IdsIn(catalog.metrics) /\ MayBePinned(catalog.metrics, id)
  <2>1. ASSUME NEW id \in pinnable
        PROVE  id \in IdsIn(catalog.metrics) /\ MayBePinned(catalog.metrics, id)
    <3>1. PICK i \in DOMAIN catalog.metrics : catalog.metrics[i].id = id /\ catalog.metrics[i].pinnable
      BY DEF Layout!ToSet
    <3>2. Layout!Entry(catalog.metrics, id) = catalog.metrics[i]
      BY <1>3, <3>1, EntryIsUnique
    <3>. QED  BY <3>1, <3>2, Zenon DEF IdsIn, MayBePinned
  <2>. QED  BY <2>1
<1>18. /\ starred' \in [Layout!MetricIds -> Choice]
       /\ \A id \in Layout!MetricIds : starred'[id] # "none" => id \in pinnable /\ starred'[id] = starred[id]
  <2>. HIDE DEF pinnable
  <2>. QED  BY <1>2, <1>16 DEF Layout!Forget, Choice
<1>. HIDE DEF pinnable
<1>19. ASSUME NEW k \in DOMAIN metrics'
       PROVE  Layout!Kept(starred'[metrics'[k].id], metrics'[k].pinned)
  <2>1. metrics'[k].id \in IdsIn(catalog.metrics)
    BY <1>1, <1>6 DEF IdsIn
  <2>2. metrics'[k].id \in Layout!MetricIds
    BY <2>1, IdsOfReleases DEF catalog
  <2>3. CASE starred'[metrics'[k].id] = "none"
    BY <2>3 DEF Layout!Kept
  <2>4. CASE starred'[metrics'[k].id] # "none"
    <3>1. /\ starred'[metrics'[k].id] = starred[metrics'[k].id]
          /\ metrics'[k].id \in IdsIn(metrics) /\ MayBePinned(catalog.metrics, metrics'[k].id)
      BY <1>16, <1>17, <1>18, <2>2, <2>4
    <3>2. PICK i \in DOMAIN metrics :
            /\ metrics[i].id = metrics'[k].id
            /\ (metrics'[k].pinned <=> metrics[i].pinned /\ MayBePinned(catalog.metrics, metrics'[k].id))
      BY <1>1, <1>6, <3>1, Zenon
    <3>3. metrics'[k].pinned <=> metrics[i].pinned
      BY <3>1, <3>2, Zenon
    <3>4. Layout!Kept(starred[metrics[i].id], metrics[i].pinned)
      BY <1>16
    <3>5. starred'[metrics'[k].id] = starred[metrics[i].id]
      BY <3>1, <3>2
    <3>. QED  BY <3>3, <3>4, <3>5, Zenon DEF Layout!Kept
  <2>. QED  BY <2>3, <2>4
<1>20. StarsOutlast'
  <2>1. Releases[release'] = catalog /\ IdsIn(metrics') = IdsIn(catalog.metrics)
    BY <1>1, <1>6 DEF catalog
  <2>2. \A id \in Layout!MetricIds : starred'[id] # "none" =>
          id \in IdsIn(metrics') /\ MayBePinned(catalog.metrics, id)
    BY <1>17, <1>18, <2>1
  <2>3. \A id \in Layout!MetricIds : starred'[id] # "none" =>
          id \in IdsIn(metrics') /\ MayBePinned(Releases[release'].metrics, id)
    BY <2>1, <2>2, Zenon
  <2>. QED  BY <1>18, <1>19, <2>3, Zenon DEF StarsOutlast
<1>. QED  BY <1>9, <1>10, <1>15, <1>20 DEF LayoutInv

(* The cards of a release as they are at first.                            *)
LEMMA DefaultsFit ==
  ASSUME NEW r \in DOMAIN Releases, NEW found,
         NEW new, new = Layout!DefaultProviders(Releases[r], found),
         NEW listed, listed = Layout!NormalizeMetrics(Layout!DefaultMetrics(Releases[r].metrics),
                                                      Releases[r].metrics)
  PROVE  /\ new \in Seq(Cards) /\ Unique(new) /\ IdsIn(new) = NamesIn(Releases[r].providers)
         /\ listed \in Seq(Shown) /\ Unique(listed) /\ IdsIn(listed) = IdsIn(Releases[r].metrics)
         /\ Layout!Pins(listed) <= MaxPins /\ InSight(listed)
         /\ \A k \in DOMAIN listed : listed[k].pinned => MayBePinned(Releases[r].metrics, listed[k].id)
<1>. DEFINE catalog == Releases[r]
            names == catalog.providers
            first == Layout!DefaultMetrics(catalog.metrics)
<1>1. /\ names \in Seq(STRING) /\ \A i, j \in DOMAIN names : names[i] = names[j] => i = j
      /\ catalog.metrics \in Seq(Definitions) /\ Unique(catalog.metrics)
  BY ReleasesAreLists, Zenon
<1>2. new = [i \in DOMAIN names |->
               [id |-> names[i], detected |-> names[i] \in found,
                enabled |-> IF found = {} THEN names[i] \in catalog.fallback ELSE names[i] \in found]]
  BY Zenon DEF Layout!DefaultProviders
<1>3. first = [i \in DOMAIN catalog.metrics |-> Layout!DefaultMetric(catalog.metrics[i])]
  BY Zenon DEF Layout!DefaultMetrics
<1>4. listed = Layout!NormalizeMetrics(first, catalog.metrics)
  OBVIOUS
<1>. HIDE DEF names, catalog, first
<1>5. ASSUME NEW i \in DOMAIN names PROVE new[i] \in Cards /\ new[i].id = names[i]
  <2>1. names[i] \in STRING
    BY <1>1
  <2>2. PICK a, b \in BOOLEAN :
          /\ a = (names[i] \in found)
          /\ b = (IF found = {} THEN names[i] \in catalog.fallback ELSE names[i] \in found)
    BY IsTruth, Zenon
  <2>3. new[i] = [id |-> names[i], detected |-> a, enabled |-> b]
    BY <1>2, <2>2, Zenon
  <2>. QED  BY <2>1, <2>3 DEF Cards
<1>6. new \in Seq(Cards) /\ DOMAIN new = DOMAIN names
  <2>1. DOMAIN names = 1 .. Len(names) /\ Len(names) \in Nat
    BY <1>1
  <2>2. DOMAIN new = 1 .. Len(names) /\ new = [i \in 1 .. Len(names) |-> new[i]]
    BY <1>2, <2>1
  <2>3. new \in [1 .. Len(names) -> Cards]
    BY <1>5, <2>1, <2>2
  <2>. QED  BY <2>1, <2>2, <2>3
<1>7. Unique(new) /\ IdsIn(new) = NamesIn(names)
  <2>1. Unique(new)
    BY <1>1, <1>5, <1>6 DEF Unique
  <2>2. IdsIn(new) = NamesIn(names)
    BY <1>5, <1>6 DEF IdsIn, NamesIn
  <2>. QED  BY <2>1, <2>2
<1>8. ASSUME NEW i \in DOMAIN catalog.metrics
      PROVE  first[i] \in Shown /\ first[i].id = catalog.metrics[i].id
  <2>1. catalog.metrics[i] \in Definitions
    BY <1>1
  <2>2. first[i] = Layout!DefaultMetric(catalog.metrics[i])
    BY <1>3
  <2>. QED  BY <2>1, <2>2 DEF Layout!DefaultMetric, Definitions, Shown
<1>9. first \in Seq(Shown) /\ DOMAIN first = DOMAIN catalog.metrics
  <2>1. DOMAIN catalog.metrics = 1 .. Len(catalog.metrics) /\ Len(catalog.metrics) \in Nat
    BY <1>1
  <2>2. DOMAIN first = 1 .. Len(catalog.metrics) /\ first = [i \in 1 .. Len(catalog.metrics) |-> first[i]]
    BY <1>3, <2>1
  <2>3. first \in [1 .. Len(catalog.metrics) -> Shown]
    BY <1>8, <2>1, <2>2
  <2>. QED  BY <2>1, <2>2, <2>3
<1>10. Unique(first)
  BY <1>1, <1>8, <1>9 DEF Unique
<1>11. /\ listed \in Seq(Shown) /\ Unique(listed) /\ IdsIn(listed) = IdsIn(catalog.metrics)
       /\ Layout!Pins(listed) <= MaxPins /\ InSight(listed)
       /\ \A k \in DOMAIN listed : listed[k].pinned => MayBePinned(catalog.metrics, listed[k].id)
  BY <1>1, <1>4, <1>9, <1>10, MetricsNormalized
<1>. QED  BY <1>6, <1>7, <1>11 DEF names, catalog

(* No choice yet.                                                          *)
NoChoices ==
  /\ switched = [id \in Layout!ProviderIds |-> "none"]
  /\ starred = [id \in Layout!MetricIds |-> "none"] /\ arranged = {}

LEMMA NoChoiceIsLost ==
  LayoutFits /\ NoChoices /\ probe \in Probes /\ probe.running => LayoutInv
<1>. SUFFICES ASSUME LayoutFits, NoChoices, probe \in Probes, probe.running
              PROVE  LayoutInv
  OBVIOUS
<1>1. IdsIn(providers) \subseteq Layout!ProviderIds /\ IdsIn(metrics) \subseteq Layout!MetricIds
  BY IdsOfReleases DEF LayoutFits
<1>2. /\ switched \in [Layout!ProviderIds -> Choice] /\ starred \in [Layout!MetricIds -> Choice]
      /\ \A id \in Layout!ProviderIds : switched[id] = "none"
      /\ \A id \in Layout!MetricIds : starred[id] = "none"
  BY DEF NoChoices, Choice
<1>3. /\ \A i \in DOMAIN providers : switched[providers[i].id] = "none"
      /\ \A i \in DOMAIN metrics : starred[metrics[i].id] = "none"
  BY <1>1, <1>2 DEF IdsIn
<1>4. \A on : Layout!Kept("none", on)
  BY DEF Layout!Kept
<1>5. SwitchesOutlast
  BY <1>2, <1>3, <1>4 DEF SwitchesOutlast
<1>6. StarsOutlast
  BY <1>2, <1>3, <1>4 DEF StarsOutlast
<1>. QED  BY <1>5, <1>6 DEF LayoutInv, NoChoices

LEMMA ResetAllKeeps ==
  ASSUME LayoutInv, NEW all \in BOOLEAN, Layout!ResetAll(all)
  PROVE  LayoutInv'
<1>1. /\ release' = release
      /\ known' = IF all THEN Layout!ToSet(Releases[release].providers)
                  ELSE Layout!Known(Releases[release], providers, known)
      /\ providers' = Layout!DefaultProviders(Releases[release], Layout!Detected)
      /\ metrics' = Layout!NormalizeMetrics(Layout!DefaultMetrics(Releases[release].metrics),
                                            Releases[release].metrics)
      /\ probe' = [auto |-> {}, replace |-> TRUE, running |-> TRUE]
      /\ switched' = [id \in Layout!ProviderIds |-> "none"]
      /\ starred' = [id \in Layout!MetricIds |-> "none"]
      /\ arranged' = {}
  BY Zenon DEF Layout!ResetAll, Layout!Catalog
<1>2. release \in DOMAIN Releases
  BY DEF LayoutInv, LayoutFits
<1>3. NamesIn(Releases[release].providers) \subseteq known'
  BY <1>1 DEF Layout!Known, Layout!ToSet, NamesIn
<1>4. /\ providers' \in Seq(Cards) /\ Unique(providers')
      /\ IdsIn(providers') = NamesIn(Releases[release].providers)
      /\ metrics' \in Seq(Shown) /\ Unique(metrics') /\ IdsIn(metrics') = IdsIn(Releases[release].metrics)
      /\ Layout!Pins(metrics') <= MaxPins /\ InSight(metrics')
      /\ \A k \in DOMAIN metrics' : metrics'[k].pinned => MayBePinned(Releases[release].metrics, metrics'[k].id)
  BY <1>1, <1>2, DefaultsFit
<1>5. LayoutFits'
  BY <1>1, <1>2, <1>3, <1>4 DEF LayoutFits
<1>6. NoChoices' /\ (probe \in Probes)' /\ (probe.running)'
  BY <1>1 DEF NoChoices, Probes
<1>. QED  BY <1>5, <1>6, NoChoiceIsLost, PTL

LEMMA LayoutBegins == Layout!LayoutInit => LayoutInv
<1>. SUFFICES ASSUME Layout!LayoutInit PROVE LayoutInv
  OBVIOUS
<1>. DEFINE catalog == Releases[1]
            names == catalog.providers
            old == <<[id |-> names[1], enabled |-> TRUE, detected |-> FALSE]>>
<1>1. /\ release = 1
      /\ metrics = Layout!NormalizeMetrics(Layout!DefaultMetrics(catalog.metrics), catalog.metrics)
      /\ NoChoices
      /\ \/ /\ providers = Layout!DefaultProviders(catalog, {})
            /\ known = Layout!ToSet(names)
            /\ probe = [auto |-> {}, replace |-> TRUE, running |-> TRUE]
         \/ /\ providers = Layout!NormalizeProviders(catalog, old, {}, {})
            /\ known = Layout!Known(catalog, old, {})
            /\ probe = [auto |-> {}, replace |-> FALSE, running |-> TRUE]
  BY Zenon DEF Layout!LayoutInit, Layout!Catalog, NoChoices
<1>2. 1 \in DOMAIN Releases
  BY ReleasesAssumption
<1>3. /\ names \in Seq(STRING) /\ names # <<>>
      /\ \A i, j \in DOMAIN names : names[i] = names[j] => i = j
  BY <1>2, ReleasesAreLists, Zenon
<1>4. /\ metrics \in Seq(Shown) /\ Unique(metrics) /\ IdsIn(metrics) = IdsIn(catalog.metrics)
      /\ Layout!Pins(metrics) <= MaxPins /\ InSight(metrics)
      /\ \A k \in DOMAIN metrics : metrics[k].pinned => MayBePinned(catalog.metrics, metrics[k].id)
      /\ \A new : new = Layout!DefaultProviders(catalog, {}) =>
           new \in Seq(Cards) /\ Unique(new) /\ IdsIn(new) = NamesIn(names)
  BY <1>1, <1>2, DefaultsFit
<1>5. /\ old \in Seq(Cards) /\ Unique(old)
  <2>1. names[1] \in STRING
    BY <1>3
  <2>2. [id |-> names[1], enabled |-> TRUE, detected |-> FALSE] \in Cards
    BY <2>1 DEF Cards
  <2>. QED  BY <2>2 DEF Unique
<1>. HIDE DEF old
<1>6. \A new : new = Layout!NormalizeProviders(catalog, old, {}, {}) =>
        new \in Seq(Cards) /\ Unique(new) /\ IdsIn(new) = NamesIn(names)
  BY <1>3, <1>5, ProvidersNormalized
<1>. HIDE DEF names
<1>7. providers \in Seq(Cards) /\ Unique(providers) /\ IdsIn(providers) = NamesIn(names)
  BY <1>1, <1>4, <1>6
<1>8. NamesIn(names) \subseteq known
  BY <1>1 DEF Layout!Known, Layout!ToSet, NamesIn, names
<1>9. LayoutFits
  BY <1>1, <1>2, <1>4, <1>7, <1>8 DEF LayoutFits, names
<1>10. probe \in Probes /\ probe.running
  <2>1. PICK b \in BOOLEAN : probe = [auto |-> {}, replace |-> b, running |-> TRUE]
    BY <1>1
  <2>. QED  BY <2>1 DEF Probes
<1>. QED  BY <1>1, <1>9, <1>10, NoChoiceIsLost

LEMMA LayoutStepKeeps == LayoutInv /\ [Layout!LayoutNext]_layoutVars => LayoutInv'
<1>. SUFFICES ASSUME LayoutInv, [Layout!LayoutNext]_layoutVars PROVE LayoutInv'
  OBVIOUS
<1>1. ASSUME NEW r \in DOMAIN Releases, Layout!Launch(r) PROVE LayoutInv'
  BY <1>1, LayoutLaunchKeeps
<1>2. ASSUME NEW found, Layout!Probed(found) PROVE LayoutInv'
  BY <1>2, ProbedKeeps
<1>3. ASSUME NEW card \in Layout!ToSet(providers), Layout!Switch(card) PROVE LayoutInv'
  BY <1>3, SwitchKeeps
<1>4. ASSUME NEW from, NEW to, Layout!MoveProvider(from, to) PROVE LayoutInv'
  BY <1>4, MoveProviderKeeps
<1>5. ASSUME NEW metric \in Layout!ToSet(metrics), Layout!Hide(metric) \/ Layout!Star(metric)
      PROVE  LayoutInv'
  BY <1>5, HideKeeps, StarKeeps
<1>6. ASSUME NEW from \in DOMAIN metrics, NEW to \in DOMAIN metrics, NEW always \in BOOLEAN,
             Layout!MoveMetric(from, to, always)
      PROVE  LayoutInv'
  BY <1>6, MoveMetricKeeps
<1>7. ASSUME NEW all \in BOOLEAN, Layout!ResetAll(all) PROVE LayoutInv'
  BY <1>7, ResetAllKeeps
<1>8. CASE UNCHANGED layoutVars
  BY <1>8 DEF layoutVars, LayoutInv, LayoutFits, SwitchesOutlast, StarsOutlast, Layout!Before
<1>. QED  BY <1>1, <1>2, <1>3, <1>4, <1>5, <1>6, <1>7, <1>8, Zenon DEF Layout!LayoutNext

LEMMA ChoicesFollow == LayoutInv => Layout!ChoicesOutliveReleases
<1>. SUFFICES ASSUME LayoutInv PROVE Layout!ChoicesOutliveReleases
  OBVIOUS
<1>1. /\ release \in DOMAIN Releases
      /\ Unique(providers) /\ IdsIn(providers) = NamesIn(Releases[release].providers)
      /\ Unique(metrics) /\ IdsIn(metrics) = IdsIn(Releases[release].metrics)
      /\ Layout!Pins(metrics) <= MaxPins /\ InSight(metrics)
      /\ \A i \in DOMAIN metrics :
           metrics[i].pinned => MayBePinned(Releases[release].metrics, metrics[i].id)
  BY DEF LayoutInv, LayoutFits
<1>2. /\ \A i \in DOMAIN providers : Layout!Kept(switched[providers[i].id], providers[i].enabled)
      /\ \A i \in DOMAIN metrics : Layout!Kept(starred[metrics[i].id], metrics[i].pinned)
      /\ arranged \subseteq Layout!Before(providers)
  BY DEF LayoutInv, SwitchesOutlast, StarsOutlast
<1>3. /\ \A card \in Layout!ToSet(providers) : Layout!Kept(switched[card.id], card.enabled)
      /\ \A metric \in Layout!ToSet(metrics) : Layout!Kept(starred[metric.id], metric.pinned)
  BY <1>2 DEF Layout!ToSet
<1>4. Layout!NothingMissing
  <2>1. Layout!IsInjective(Layout!Ids(providers)) /\ Layout!IsInjective(Layout!Ids(metrics))
    BY <1>1 DEF Unique, Layout!IsInjective, Layout!Ids
  <2>2. \A list : Layout!ToSet(Layout!Ids(list)) = IdsIn(list)
    BY DEF Layout!ToSet, Layout!Ids, IdsIn
  <2>3. Layout!ToSet(Releases[release].providers) = NamesIn(Releases[release].providers)
    BY DEF Layout!ToSet, NamesIn
  <2>. QED  BY <1>1, <2>1, <2>2, <2>3, Zenon DEF Layout!NothingMissing, Layout!Catalog
<1>5. Layout!WithinLimits
  <2>1. \A metric \in Layout!ToSet(metrics) :
          metric.pinned => Layout!Entry(Releases[release].metrics, metric.id).pinnable
    BY <1>1 DEF Layout!ToSet, MayBePinned
  <2>2. (\E metric \in Layout!ToSet(metrics) : metric.enabled)
          => \E metric \in Layout!ToSet(metrics) : metric.enabled /\ metric.always
    BY <1>1 DEF Layout!ToSet, InSight
  <2>. QED  BY <1>1, <2>1, <2>2, Zenon DEF Layout!WithinLimits, Layout!Catalog
<1>. QED  BY <1>2, <1>3, <1>4, <1>5, Zenon DEF Layout!ChoicesOutliveReleases

-----------------------------------------------------------------------------
(* The parts beside each other                                             *)

(* Each step of the whole is one of the notices and, while updates or the  *)
(* layout are explored, one of theirs.                                     *)
LEMMA DesktopStep ==
  ASSUME [DesktopNext]_desktopVars
  PROVE  /\ part' = part /\ [PaceNext]_paceVars
         /\ part = "updates" => [Updates!UpdateNext]_updateVars
         /\ part = "layout" => [Layout!LayoutNext]_layoutVars
BY DEF DesktopNext, desktopVars, HeightPart, WindowPart, EffectsPart, PacePart, LayoutPart,
       UpdatesPart

(* The user is told: no notice is lost, no automatic check for updates     *)
(* comes too early or stays out, and none is refused because another runs  *)
(* (pacing.rs, notifications.rs, updates.rs, updateController.svelte.ts).  *)
THEOREM UserIsAlwaysTold == DesktopSpec => []UserIsTold
<1>. DEFINE Told == NoticeInv /\ (part = "updates" => UpdateInv)
<1>1. DesktopInit => Told
  BY NoticesBegin, UpdatesBegin DEF DesktopInit
<1>2. Told /\ [DesktopNext]_desktopVars => Told'
  BY DesktopStep, NoticeStepKeeps, UpdateStepKeeps
<1>3. Told => UserIsTold
  BY FiredIsPending, DueIsChecked DEF UserIsTold
<1>. QED  BY <1>1, <1>2, <1>3, PTL DEF DesktopSpec

(* Whatever releases are launched in whatever order, and whatever the user *)
(* does in between: what he turned off stays off, what he turned on,       *)
(* starred or arranged stays so while every release launched knows it, and *)
(* the layout is always one the release can show (settings.rs).            *)
THEOREM ChoicesAreKept == DesktopSpec => []ChoicesOutliveReleases
<1>. DEFINE Inv == part = "layout" => LayoutInv
<1>1. DesktopInit => Inv
  BY LayoutBegins DEF DesktopInit
<1>2. Inv /\ [DesktopNext]_desktopVars => Inv'
  BY DesktopStep, LayoutStepKeeps
<1>3. Inv => ChoicesOutliveReleases
  BY ChoicesFollow DEF ChoicesOutliveReleases
<1>. QED  BY <1>1, <1>2, <1>3, PTL DEF DesktopSpec

-----------------------------------------------------------------------------
(* The height of the panel                                                 *)

InOrder ==
  /\ \A i \in 1 .. Len(channel) :
       pending.gen <= channel[i].gen /\ channel[i].gen <= generation
  /\ \A i, j \in 1 .. Len(channel) : i <= j => channel[i].gen <= channel[j].gen

Newest == IF channel = <<>> THEN pending ELSE channel[Len(channel)]

NewestDecides ==
  IF Newest.gen = generation /\ ~automatic THEN last = Newest.height ELSE stored = last

MainHasHeight ==
  main.at \in {"beginning", "recording", "sending"} => main.height \in Heights

SessionInv ==
  /\ TypeOK /\ MainHasHeight
  /\ automatic <=> stored = NoHeight
  /\ pending.gen <= generation /\ reset.gen <= generation
  /\ InOrder /\ NewestDecides

USE HeightAssumption DEF sessionVars, Maybe, Nothing, Pendings, Idle, Stages, NoReset

-----------------------------------------------------------------------------
(* The sequence of heights                                                 *)

LEMMA LengthOfChannel ==
  ASSUME TypeOK
  PROVE  /\ Len(channel) \in Nat /\ DOMAIN channel = 1 .. Len(channel)
         /\ channel # <<>> => Len(channel) \in 1 .. Len(channel)
         /\ channel = <<>> => Len(channel) = 0
         /\ \A i \in 1 .. Len(channel) : channel[i] \in Pendings
<1>. USE DEF TypeOK
<1>1. Len(channel) \in Nat /\ DOMAIN channel = 1 .. Len(channel)
  BY LenProperties
<1>2. channel # <<>> => Len(channel) # 0
  BY EmptySeq
<1>3. channel = <<>> => Len(channel) = 0
  BY EmptySeq
<1>4. \A i \in 1 .. Len(channel) : channel[i] \in Pendings
  BY ElementOfSeq
<1>. QED  BY <1>1, <1>2, <1>3, <1>4

LEMMA NewestIsOneOfThem ==
  ASSUME SessionInv
  PROVE  /\ Newest \in Pendings \union {Nothing}
         /\ Newest.gen \in Int /\ Newest.gen <= generation
         /\ pending.gen <= Newest.gen
<1>. USE DEF SessionInv, InOrder, Newest
<1>1. pending.gen \in Int
  BY DEF TypeOK
<1>2. CASE channel = <<>>
  BY <1>1, <1>2 DEF TypeOK
<1>3. CASE channel # <<>>
  BY <1>3, LengthOfChannel
<1>. QED  BY <1>2, <1>3

(* A step that stores what was chosen and begins a generation leaves       *)
(* nothing valid on its way.                                               *)
LEMMA Overtakes ==
  ASSUME SessionInv, generation' = generation + 1, stored' = last',
         UNCHANGED <<channel, pending>>
  PROVE  InOrder' /\ NewestDecides' /\ pending'.gen <= generation'
<1>. USE DEF SessionInv, InOrder, NewestDecides, Newest
<1>1. Newest' = Newest
  OBVIOUS
<1>2. Newest.gen \in Int /\ Newest.gen <= generation /\ generation \in Nat
  BY NewestIsOneOfThem DEF TypeOK
<1>3. NewestDecides'
  BY <1>1, <1>2
<1>4. \A i \in 1 .. Len(channel) : channel[i].gen \in Int /\ pending.gen \in Int
  BY LengthOfChannel DEF TypeOK
<1>5. InOrder'
  BY <1>2, <1>4
<1>6. pending'.gen <= generation'
  BY <1>2 DEF TypeOK
<1>. QED  BY <1>3, <1>5, <1>6

LEMMA GenerationGrows ==
  ASSUME SessionInv, generation' = generation + 1
  PROVE  generation' \in Nat /\ reset.gen \in Int /\ reset.gen <= generation'
<1>1. generation \in Nat /\ reset.gen \in Int /\ reset.gen <= generation
  BY DEF SessionInv, TypeOK
<1>. QED  BY <1>1

LEMMA LeavesAlone ==
  ASSUME SessionInv,
         UNCHANGED <<stored, automatic, generation, channel, pending, last>>
  PROVE  InOrder' /\ NewestDecides' /\ pending'.gen <= generation'
         /\ (automatic' <=> stored' = NoHeight)
BY DEF SessionInv, InOrder, NewestDecides, Newest

-----------------------------------------------------------------------------
(* The main thread                                                         *)

LEMMA BeginKeeps ==
  ASSUME SessionInv, NEW h \in Heights, Begin(h)
  PROVE  SessionInv'
<1>1. TypeOK' /\ MainHasHeight' /\ (reset.gen <= generation)'
  BY DEF SessionInv, TypeOK, MainHasHeight, Begin
<1>. QED  BY <1>1, LeavesAlone DEF SessionInv, Begin

LEMMA ManualKeeps ==
  ASSUME SessionInv, NEW h \in Heights, Manual(h),
         active' \in BOOLEAN, latest' \in Maybe, main' = Idle,
         UNCHANGED <<channel, pending, reset>>
  PROVE  SessionInv'
<1>1. (reset.gen <= generation)' /\ generation' \in Nat
  BY GenerationGrows DEF Manual
<1>3. {stored', latest', last'} \subseteq Maybe /\ automatic' \in BOOLEAN
  BY DEF SessionInv, TypeOK, Manual
<1>4. TypeOK' /\ MainHasHeight'
  BY <1>1, <1>3 DEF SessionInv, TypeOK, MainHasHeight
<1>2. (automatic <=> stored = NoHeight)'
  BY DEF Manual
<1>. QED  BY <1>1, <1>2, <1>4, Overtakes DEF SessionInv, Manual

LEMMA BeginManualKeeps ==
  ASSUME SessionInv, BeginManual
  PROVE  SessionInv'
<1>1. main.height \in Heights
  BY DEF SessionInv, MainHasHeight, BeginManual
<1>. QED  BY <1>1, ManualKeeps DEF SessionInv, TypeOK, BeginManual

LEMMA SetManualKeeps ==
  ASSUME SessionInv, NEW h \in Heights, SetManual(h)
  PROVE  SessionInv'
BY ManualKeeps DEF SessionInv, TypeOK, SetManual

LEMMA QuietStepsKeep ==
  ASSUME SessionInv,
         \/ BeginFails \/ RecordLatest \/ FinishTake
         \/ (\E h \in Heights : Record(h)) \/ (\E h \in Maybe : Finish(h))
  PROVE  SessionInv'
<1>. USE DEF SessionInv, TypeOK, MainHasHeight
<1>1. CASE BeginFails
  BY <1>1, LeavesAlone DEF BeginFails
<1>2. CASE RecordLatest
  BY <1>2, LeavesAlone DEF RecordLatest
<1>3. CASE FinishTake
  BY <1>3, LeavesAlone DEF FinishTake
<1>4. CASE \E h \in Heights : Record(h)
  BY <1>4, LeavesAlone DEF Record
<1>5. CASE \E h \in Maybe : Finish(h)
  <2>1. PICK current \in Maybe : Finish(current)
    BY <1>5
  <2>2. UNCHANGED <<stored, automatic, generation, latest, channel, pending, reset, last>>
        /\ active' = FALSE
    BY <2>1 DEF Finish
  <2>3. main' \in [at : Stages, height : Maybe] /\ main'.at \notin {"beginning", "recording", "sending"}
    BY <2>1 DEF Finish
  <2>. QED  BY <2>2, <2>3, LeavesAlone
<1>. QED  BY <1>1, <1>2, <1>3, <1>4, <1>5

LEMMA RecordSendKeeps ==
  ASSUME SessionInv, RecordSend
  PROVE  SessionInv'
<1>. DEFINE sent == [gen |-> generation, height |-> main.height]
<1>1. sent \in Pendings /\ sent.gen = generation /\ sent.height = main.height
  BY DEF SessionInv, TypeOK, MainHasHeight, RecordSend
<1>2. channel \in Seq(Pendings) /\ channel' = Append(channel, sent)
  BY DEF SessionInv, TypeOK, RecordSend
<1>3. /\ channel' \in Seq(Pendings) /\ Len(channel') = Len(channel) + 1
      /\ \A i \in 1 .. Len(channel) : channel'[i] = channel[i]
      /\ channel'[Len(channel) + 1] = sent
  BY <1>1, <1>2, AppendProperties
<1>4. channel' # <<>> /\ Len(channel) \in Nat
  BY <1>2, <1>3, EmptySeq, LenProperties
<1>5. TypeOK' /\ MainHasHeight' /\ (reset.gen <= generation)'
      /\ (automatic <=> stored = NoHeight)' /\ (pending.gen <= generation)'
  BY <1>3 DEF SessionInv, TypeOK, MainHasHeight, RecordSend
<1>6. InOrder'
  <2>1. \A i \in 1 .. Len(channel) :
          channel[i].gen \in Int /\ pending.gen <= channel[i].gen /\ channel[i].gen <= generation
    BY LengthOfChannel DEF SessionInv, InOrder
  <2>2. generation' = generation /\ pending' = pending /\ generation \in Int
        /\ pending.gen <= generation
    BY DEF SessionInv, TypeOK, RecordSend
  <2>3. \A i \in 1 .. Len(channel') : i \in 1 .. Len(channel) \/ i = Len(channel) + 1
    BY <1>3, <1>4
  <2>4. \A i \in 1 .. Len(channel') :
          channel'[i].gen \in Int /\ pending.gen <= channel'[i].gen /\ channel'[i].gen <= generation
    BY <1>1, <1>3, <2>1, <2>2, <2>3
  <2>5. ASSUME NEW i \in 1 .. Len(channel'), NEW j \in 1 .. Len(channel'), i <= j
        PROVE  channel'[i].gen <= channel'[j].gen
    <3>1. CASE j = Len(channel) + 1
      BY <1>1, <1>3, <2>4, <3>1
    <3>2. CASE j # Len(channel) + 1
      <4>1. i \in 1 .. Len(channel) /\ j \in 1 .. Len(channel)
        BY <1>3, <1>4, <2>3, <2>5, <3>2
      <4>2. channel[i].gen <= channel[j].gen
        BY <2>5, <4>1 DEF SessionInv, InOrder
      <4>. QED  BY <1>3, <4>1, <4>2
    <3>. QED  BY <3>1, <3>2
  <2>. QED  BY <2>2, <2>4, <2>5 DEF InOrder
<1>7. Newest' = sent
  BY <1>3, <1>4 DEF Newest
<1>8. NewestDecides'
  <2>1. CASE automatic
    <3>1. last = stored
      BY <2>1 DEF SessionInv, NewestDecides
    <3>. QED  BY <2>1, <3>1 DEF NewestDecides, RecordSend
  <2>2. CASE ~automatic
    BY <1>1, <1>7, <2>2 DEF NewestDecides, RecordSend
  <2>. QED  BY <2>1, <2>2
<1>. QED  BY <1>5, <1>6, <1>8 DEF SessionInv

LEMMA FinishSaveKeeps ==
  ASSUME SessionInv, FinishSave
  PROVE  SessionInv'
<1>1. TypeOK' /\ MainHasHeight' /\ (reset.gen <= generation)'
  BY DEF SessionInv, TypeOK, MainHasHeight, FinishSave
<1>2. CASE main.height # NoHeight /\ ~automatic
  <2>1. (automatic <=> stored = NoHeight)'
    BY <1>2 DEF SessionInv, FinishSave
  <2>. QED  BY <1>1, <1>2, <2>1, Overtakes DEF SessionInv, FinishSave
<1>3. CASE ~(main.height # NoHeight /\ ~automatic)
  BY <1>1, <1>3, LeavesAlone DEF SessionInv, FinishSave
<1>. QED  BY <1>2, <1>3

LEMMA BecomeAutomaticKeeps ==
  ASSUME SessionInv, SetAutomatic \/ BeginReset
  PROVE  SessionInv'
<1>. USE DEF BecomeAutomatic
<1>1. generation' \in Nat /\ (reset.gen <= generation)' /\ reset' \in [gen : Nat, previous : Maybe] \union {NoReset}
  <2>1. generation \in Nat /\ generation' = generation + 1 /\ stored \in Maybe
    BY DEF SessionInv, TypeOK, SetAutomatic, BeginReset
  <2>2. CASE SetAutomatic
    BY <2>1, <2>2, GenerationGrows DEF SessionInv, TypeOK, SetAutomatic
  <2>3. CASE BeginReset
    BY <2>1, <2>3 DEF BeginReset
  <2>. QED  BY <2>2, <2>3
<1>3. TypeOK' /\ MainHasHeight'
  BY <1>1 DEF SessionInv, TypeOK, MainHasHeight, SetAutomatic, BeginReset
<1>2. (automatic <=> stored = NoHeight)'
  BY DEF SetAutomatic, BeginReset
<1>. QED  BY <1>1, <1>2, <1>3, Overtakes DEF SessionInv, SetAutomatic, BeginReset

-----------------------------------------------------------------------------
(* reset_all_settings, the worker and a restart                            *)

LEMMA ResetSavedKeeps ==
  ASSUME SessionInv, ResetSaved
  PROVE  SessionInv'
<1>1. TypeOK' /\ MainHasHeight' /\ (reset.gen <= generation)'
  BY DEF SessionInv, TypeOK, MainHasHeight, ResetSaved
<1>. QED  BY <1>1, LeavesAlone DEF SessionInv, ResetSaved

LEMMA RollbackKeeps ==
  ASSUME SessionInv, Rollback
  PROVE  SessionInv'
<1>0. reset.previous \in Maybe
  BY DEF SessionInv, TypeOK, Rollback
<1>1. TypeOK' /\ MainHasHeight' /\ (reset.gen <= generation)'
  <2>1. generation \in Nat /\ generation' \in Nat
    BY DEF SessionInv, TypeOK, Rollback
  <2>2. {stored', latest', last'} \subseteq Maybe /\ automatic' \in BOOLEAN
    BY <1>0 DEF SessionInv, TypeOK, Rollback
  <2>. QED  BY <2>1, <2>2 DEF SessionInv, TypeOK, MainHasHeight, Rollback
<1>2. CASE generation # reset.gen \/ ~automatic
  BY <1>1, <1>2, LeavesAlone DEF SessionInv, Rollback
<1>3. CASE ~(generation # reset.gen \/ ~automatic)
  <2>1. (automatic <=> stored = NoHeight)'
    BY <1>3 DEF Rollback
  <2>. QED  BY <1>1, <1>3, <2>1, Overtakes DEF SessionInv, Rollback
<1>. QED  BY <1>2, <1>3

LEMMA ReceiveKeeps ==
  ASSUME SessionInv, Receive
  PROVE  SessionInv'
<1>1. channel \in Seq(Pendings) /\ channel # <<>>
  BY DEF SessionInv, TypeOK, Receive
<1>2. /\ Tail(channel) \in Seq(Pendings) /\ Len(Tail(channel)) = Len(channel) - 1
      /\ \A i \in 1 .. Len(Tail(channel)) : Tail(channel)[i] = channel[i + 1]
  BY <1>1, HeadTailProperties
<1>3. Head(channel) = channel[1] /\ 1 \in 1 .. Len(channel)
  BY <1>1, LengthOfChannel DEF SessionInv
<1>4. channel' = Tail(channel) /\ pending' = channel[1]
  BY <1>3 DEF Receive
<1>5. \A i \in 1 .. Len(channel) :
        channel[i] \in Pendings /\ channel[i].gen \in Int /\ channel[i].gen <= generation
  BY LengthOfChannel DEF SessionInv, InOrder
<1>6. Len(channel) \in Nat /\ \A i \in 1 .. Len(channel') : i + 1 \in 1 .. Len(channel)
  BY <1>2, <1>4, LengthOfChannel DEF SessionInv
<1>7. TypeOK' /\ MainHasHeight' /\ (reset.gen <= generation)'
      /\ (automatic <=> stored = NoHeight)' /\ (pending.gen <= generation)'
  BY <1>2, <1>3, <1>4, <1>5 DEF SessionInv, TypeOK, MainHasHeight, Receive
<1>8. InOrder'
  <2>1. generation' = generation
    BY DEF Receive
  <2>2. \A i \in 1 .. Len(channel') :
          channel'[i] = channel[i + 1] /\ channel[1].gen <= channel[i + 1].gen
    BY <1>2, <1>3, <1>4, <1>6 DEF SessionInv, InOrder
  <2>3. \A i, j \in 1 .. Len(channel') : i <= j => channel'[i].gen <= channel'[j].gen
    BY <1>2, <1>4, <1>6, <2>2 DEF SessionInv, InOrder
  <2>. QED  BY <1>4, <1>5, <1>6, <2>1, <2>2, <2>3 DEF InOrder
<1>9. Newest' = Newest
  <2>1. CASE channel' = <<>>
    <3>1. Len(channel) = 1
      <4>1. Len(Tail(channel)) = 0
        BY <1>4, <2>1, EmptySeq
      <4>2. Len(channel) \in Nat /\ Len(Tail(channel)) = Len(channel) - 1
        BY <1>2, <1>6
      <4>. QED  BY <4>1, <4>2
    <3>. QED  BY <1>1, <1>4, <2>1, <3>1 DEF Newest
  <2>2. CASE channel' # <<>>
    <3>1. Len(channel') \in 1 .. Len(channel') /\ Len(channel') + 1 = Len(channel)
      BY <1>2, <1>4, <1>6, <2>2, EmptySeq
    <3>. QED  BY <1>1, <1>2, <1>4, <2>2, <3>1 DEF Newest
  <2>. QED  BY <2>1, <2>2
<1>10. NewestDecides'
  BY <1>9 DEF SessionInv, NewestDecides, Receive
<1>. QED  BY <1>7, <1>8, <1>10 DEF SessionInv

LEMMA WorkerSaveKeeps ==
  ASSUME SessionInv, WorkerSave
  PROVE  SessionInv'
<1>1. pending \in Pendings
  BY DEF SessionInv, TypeOK, WorkerSave
<1>2. TypeOK' /\ MainHasHeight' /\ (reset.gen <= generation)' /\ (pending.gen <= generation)'
  BY <1>1 DEF SessionInv, TypeOK, MainHasHeight, WorkerSave
<1>3. (automatic <=> stored = NoHeight)'
  BY <1>1 DEF SessionInv, WorkerSave
<1>4. InOrder'
  <2>1. \A i \in 1 .. Len(channel) : channel[i].gen \in Nat
    BY LengthOfChannel DEF SessionInv
  <2>. QED  BY <2>1 DEF SessionInv, InOrder, WorkerSave
<1>5. NewestDecides'
  <2>1. CASE channel = <<>>
    <3>1. Newest = pending /\ Newest' = Nothing /\ generation \in Nat
      BY <2>1 DEF Newest, WorkerSave, SessionInv, TypeOK
    <3>. QED  BY <3>1 DEF SessionInv, NewestDecides, WorkerSave
  <2>2. CASE channel # <<>>
    <3>1. Newest' = Newest
      BY <2>2 DEF Newest, WorkerSave
    <3>2. CASE Newest.gen = generation /\ ~automatic
      BY <3>1, <3>2 DEF SessionInv, NewestDecides, WorkerSave
    <3>3. CASE ~(Newest.gen = generation /\ ~automatic)
      <4>1. ~(pending.gen = generation /\ ~automatic)
        BY <3>3, NewestIsOneOfThem DEF SessionInv, TypeOK
      <4>. QED  BY <3>1, <3>3, <4>1 DEF SessionInv, NewestDecides, WorkerSave
    <3>. QED  BY <3>2, <3>3
  <2>. QED  BY <2>1, <2>2
<1>. QED  BY <1>2, <1>3, <1>4, <1>5 DEF SessionInv

LEMMA OpenEstablishes ==
  ASSUME channel = <<>>, pending = Nothing, reset = NoReset, main = Idle,
         generation = 0, latest = NoHeight, active \in BOOLEAN, stored \in Maybe,
         automatic = (stored = NoHeight), last = stored
  PROVE  SessionInv
<1>1. channel \in Seq(Pendings) /\ Len(channel) = 0
  BY EmptySeq
<1>2. TypeOK /\ MainHasHeight
  BY <1>1 DEF TypeOK, MainHasHeight
<1>3. InOrder /\ NewestDecides
  BY <1>1 DEF InOrder, NewestDecides, Newest
<1>4. automatic <=> stored = NoHeight
  OBVIOUS
<1>5. pending.gen <= generation /\ reset.gen <= generation
  OBVIOUS
<1>. QED  BY <1>2, <1>3, <1>4, <1>5 DEF SessionInv

LEMMA RestartKeeps ==
  ASSUME SessionInv, Restart
  PROVE  SessionInv'
<1>1. channel' \in Seq(Pendings) /\ Len(channel') = 0
  BY EmptySeq DEF Restart
<1>2. TypeOK' /\ MainHasHeight'
  BY <1>1 DEF SessionInv, TypeOK, MainHasHeight, Restart
<1>3. InOrder' /\ NewestDecides'
  BY <1>1 DEF InOrder, NewestDecides, Newest, Restart
<1>4. (automatic <=> stored = NoHeight)'
  BY DEF Restart
<1>5. (pending.gen <= generation /\ reset.gen <= generation)'
  BY DEF Restart
<1>. QED  BY <1>2, <1>3, <1>4, <1>5 DEF SessionInv

LEMMA NextKeeps ==
  ASSUME SessionInv, [Next]_vars
  PROVE  SessionInv'
<1>1. CASE Main
  BY <1>1, BeginKeeps, BeginManualKeeps, SetManualKeeps, QuietStepsKeep, RecordSendKeeps,
     FinishSaveKeeps, BecomeAutomaticKeeps DEF Main
<1>2. CASE BeginReset \/ ResetSaved \/ Rollback
  BY <1>2, BecomeAutomaticKeeps, ResetSavedKeeps, RollbackKeeps
<1>3. CASE Receive \/ WorkerSave \/ Restart
  BY <1>3, ReceiveKeeps, WorkerSaveKeeps, RestartKeeps
<1>4. CASE UNCHANGED vars
  BY <1>4 DEF vars, SessionInv, TypeOK, MainHasHeight, InOrder, NewestDecides, Newest
<1>. QED  BY <1>1, <1>2, <1>3, <1>4 DEF Next

(* In every reachable state the newest height on its way decides, and only *)
(* a valid one does (PanelResizeSession, PanelHeightPersistence).          *)
THEOREM SessionInvariant == Spec => []SessionInv
<1>1. Init => SessionInv
  BY OpenEstablishes DEF Init, Open
<1>. QED  BY <1>1, NextKeeps, PTL DEF Spec

(* The panel is automatic exactly when no height is stored, whatever the   *)
(* worker still has to store (window.rs).                                  *)
THEOREM ModeIsStored == Spec => []HeightInv
<1>1. SessionInv => HeightInv
  <2>. SUFFICES ASSUME SessionInv PROVE HeightInv
    OBVIOUS
  <2>1. \A i \in DOMAIN channel : channel[i].gen <= generation
    BY LengthOfChannel DEF SessionInv, InOrder
  <2>. QED  BY <2>1 DEF SessionInv, HeightInv
<1>. QED  BY <1>1, SessionInvariant, PTL

(* When nothing is on its way the height stored is the one chosen last     *)
(* (record(), finish(), set_automatic() and the worker in window.rs).      *)
THEOREM LastChoice == Spec => []LastChoiceIsStored
<1>1. SessionInv => LastChoiceIsStored
  <2>. SUFFICES ASSUME SessionInv, Quiet PROVE stored = last
    BY DEF LastChoiceIsStored
  <2>1. Newest = Nothing /\ generation \in Nat
    BY DEF Quiet, Newest, SessionInv, TypeOK
  <2>. QED  BY <2>1 DEF SessionInv, NewestDecides
<1>. QED  BY <1>1, SessionInvariant, PTL

(* A reset that fails changes nothing when somebody chose a mode since     *)
(* (rollback_automatic_reset() in window.rs).                              *)
THEOREM RollbackIsHarmless == Spec => RollbackRespectsChoices
<1>1. ASSUME SessionInv, [Next]_vars, reset # NoReset, reset' = NoReset,
             generation # reset.gen
      PROVE  <<stored, automatic>>' = <<stored, automatic>>
  <2>1. CASE Main
    BY <1>1, <2>1 DEF Main, Begin, SetManual, Record, Finish, BeginManual, BeginFails, RecordLatest,
       RecordSend, FinishTake, FinishSave, SetAutomatic
  <2>2. CASE BeginReset
    BY <1>1, <2>2 DEF BeginReset
  <2>3. CASE ResetSaved \/ Rollback
    BY <1>1, <2>3 DEF ResetSaved, Rollback
  <2>4. CASE Receive \/ WorkerSave
    BY <1>1, <2>4 DEF Receive, WorkerSave
  <2>5. CASE Restart
    <3>1. automatic \in BOOLEAN /\ automatic' \in BOOLEAN
      BY <1>1, <2>5 DEF SessionInv, TypeOK, Restart
    <3>. QED  BY <1>1, <2>5, <3>1 DEF SessionInv, Restart
  <2>6. CASE UNCHANGED vars
    BY <2>6 DEF vars
  <2>. QED  BY <1>1, <2>1, <2>2, <2>3, <2>4, <2>5, <2>6 DEF Next
<1>2. SessionInv /\ [Next]_vars
        => [reset # NoReset /\ reset' = NoReset /\ generation # reset.gen
              => <<stored, automatic>>' = <<stored, automatic>>]_vars
  BY <1>1
<1>. QED  BY <1>2, SessionInvariant, PTL DEF Spec, RollbackRespectsChoices
=============================================================================
