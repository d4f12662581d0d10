\* The claim that a detection never overrides settings changed meanwhile.
CONSTANTS
  r1 = r1  r2 = r2
  Providers = {claude, grok}
  Fallback = {claude}
  Elsewhere = {}
  Startup = Startup
  Plans = {Startup, r1}
  NoPlan = NoPlan
  MaxEnablement = 2
  MaxCredential = 1
SPECIFICATION Spec
PROPERTIES ChoicesWin
CHECK_DEADLOCK FALSE
