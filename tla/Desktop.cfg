\* The height of the panel, the window, the effects of a save, the notices,
\* the layout and updates, each on its own.
CONSTANTS
  low = low  mid = mid  high = high
  Heights = {low, mid, high}
  NoHeight = NoHeight
  MaxGeneration = 5
  MaxPending = 2
  MaxGuard = 5
  MaxDismissals = 2
  Shortcuts = {"a", "b"}
  NoShortcut = "none"
  MaxSaves = 3
  f1 = f1  f2 = f2
  Finishers = {f1, f2}
  Usages = {500, 850, 1000}
  Elapsed = {900}
  Resets = {1}
  Preferences = {{"AlmostOut", "FullyUsed", "UsageReset", "CuttingItClose", "WillRunOut"}}
  Releases <- TwoReleases
  MaxPins = 2
  MaxEdits = 2
  MaxLaunches = 4
  Interval = 2
  MaxTime = 3
SPECIFICATION DesktopSpec
SYMMETRY Symmetry
INVARIANTS
  HeightInv LastChoiceIsStored
  WithoutTrayFloating DesktopFollowsSettings UserIsTold ChoicesOutliveReleases
PROPERTIES RollbackRespectsChoices DismissalSpares
CHECK_DEADLOCK FALSE
