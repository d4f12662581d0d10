\* The claim of the tests that refresh() does not deadlock.
CONSTANTS
  c1 = c1  c2 = c2
  r1 = r1  r2 = r2
  Callers = {c1, c2}
  Runners = {r1, r2}
  MaxGeneration = 3
  MaxWorld = 1
SPECIFICATION FairSpec
PROPERTIES EveryCallerReturns
CHECK_DEADLOCK FALSE
