\* The claim that a stale snapshot is never stored.
CONSTANTS
    MaxEdits = 2
    MaxOthers = 1
    MaxGestures = 0
SPECIFICATION Spec
PROPERTIES
    OthersKeepTheirChanges
CHECK_DEADLOCK FALSE
