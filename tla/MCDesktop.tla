------------------------------ MODULE MCDesktop ------------------------------
(* What the user has before him: the height of the panel, the window, what *)
(* a save changes on the desktop, the notices, the layout of the cards, and *)
(* updates.  They share no state, so each is explored on its own: part says *)
(* which one, and it stays the same.                                       *)
EXTENDS PanelHeight, DesktopWindow, SettingsEffects, PaceNotices, TLC

CONSTANTS low, mid, high, f1, f2,
          MaxPins, MaxEdits, MaxLaunches,
          Interval, MaxTime,
          Releases     \* sequence of [providers, fallback, metrics]

ASSUME IntervalAssumption == Interval \in Nat

(* The second release adds a provider and a starred metric in front, and   *)
(* takes the star from another.                                            *)
Metric(id, always, pinned, pinnable) ==
  [id |-> id, always |-> always, pinned |-> pinned, pinnable |-> pinnable]

TwoReleases ==
  << [providers |-> <<"codex", "claude">>, fallback |-> {"codex"},
      metrics |-> << Metric("session", TRUE, TRUE, TRUE), Metric("trend", FALSE, FALSE, TRUE) >>],
     [providers |-> <<"grok", "codex", "claude">>, fallback |-> {"codex"},
      metrics |-> << Metric("credits", FALSE, TRUE, TRUE), Metric("session", TRUE, TRUE, TRUE),
                     Metric("trend", FALSE, FALSE, FALSE) >>] >>

VARIABLES
  part,
  release, known, providers, metrics, probe, switched, starred, arranged, edits, launches,
  clock, saved, page, saving, operation, newer, since, tried, early

Layout == INSTANCE Layouts
Updates == INSTANCE UpdateCheck

Definitions == [id : STRING, always : BOOLEAN, pinned : BOOLEAN, pinnable : BOOLEAN]

(* A release has at least one provider, and each provider and metric once. *)
ASSUME ReleasesAssumption ==
  /\ MaxPins \in Nat /\ Releases # <<>>
  /\ Releases \in Seq([providers : Seq(STRING), fallback : SUBSET STRING, metrics : Seq(Definitions)])
  /\ \A i \in DOMAIN Releases :
       /\ Releases[i].providers # <<>> /\ Layout!IsInjective(Releases[i].providers)
       /\ Layout!IsInjective(Layout!Ids(Releases[i].metrics))

Symmetry == Permutations({low, mid, high}) \union Permutations({f1, f2})

layoutVars == <<release, known, providers, metrics, probe,
                switched, starred, arranged, edits, launches>>
updateVars == <<clock, saved, page, saving, operation, newer, since, tried, early>>

desktopVars == <<part, vars, windowVars, effectVars, paceVars, layoutVars, updateVars>>

(* The variables of a part that does not move.                             *)
Unused == "unused"
NoLayout ==
  /\ release = Unused /\ known = Unused /\ providers = Unused /\ metrics = Unused
  /\ probe = Unused /\ switched = Unused /\ starred = Unused /\ arranged = Unused
  /\ edits = Unused /\ launches = Unused
NoUpdates ==
  /\ clock = Unused /\ saved = Unused /\ page = Unused /\ saving = Unused
  /\ operation = Unused /\ newer = Unused /\ since = Unused /\ tried = Unused
  /\ early = Unused

DesktopInit ==
  /\ part \in {"height", "window", "effects", "pace", "layout", "updates"}
  /\ Init /\ WindowInit /\ EffectsInit /\ PaceInit
  /\ IF part = "layout" THEN Layout!LayoutInit ELSE NoLayout
  /\ IF part = "updates" THEN Updates!UpdateInit ELSE NoUpdates
  /\ part # "height" => stored = NoHeight
  /\ part # "window" => mode = "popup"

HeightPart ==
  part = "height" /\ Next
    /\ UNCHANGED <<part, windowVars, effectVars, paceVars, layoutVars, updateVars>>

WindowPart ==
  part = "window" /\ WindowNext
    /\ UNCHANGED <<part, vars, effectVars, paceVars, layoutVars, updateVars>>

EffectsPart ==
  part = "effects" /\ EffectsNext
    /\ UNCHANGED <<part, vars, windowVars, paceVars, layoutVars, updateVars>>

PacePart ==
  part = "pace" /\ PaceNext
    /\ UNCHANGED <<part, vars, windowVars, effectVars, layoutVars, updateVars>>

LayoutPart ==
  part = "layout" /\ Layout!LayoutNext
    /\ UNCHANGED <<part, vars, windowVars, effectVars, paceVars, updateVars>>

UpdatesPart ==
  part = "updates" /\ Updates!UpdateNext
    /\ UNCHANGED <<part, vars, windowVars, effectVars, paceVars, layoutVars>>

DesktopNext ==
  HeightPart \/ WindowPart \/ EffectsPart \/ PacePart \/ LayoutPart \/ UpdatesPart

DesktopSpec == DesktopInit /\ [][DesktopNext]_desktopVars

-----------------------------------------------------------------------------
(* The user is told: no notice of a quota stays noted as fired that nobody *)
(* delivered, and one that failed is offered again when nothing came in    *)
(* between (pacing.rs, notifications.rs); and updates are looked for when  *)
(* that is due and not before (updates.rs, updateController.svelte.ts).    *)
UserIsTold ==
  /\ NoticesAreTold
  /\ part = "updates" => Updates!ChecksWhenDue

(* What the user turned off, on, starred or arranged outlives launches of  *)
(* other releases (settings.rs).                                           *)
ChoicesOutliveReleases == part = "layout" => Layout!ChoicesOutliveReleases
=============================================================================
