\* The claim that an unconfigured slot never loads an old snapshot.
CONSTANTS
  MaxSaves = 1
  MaxRefreshes = 1
  MaxLaunches = 2
SPECIFICATION UndisturbedSpec
PROPERTIES UnconfiguredStartsEmpty
CHECK_DEADLOCK FALSE
