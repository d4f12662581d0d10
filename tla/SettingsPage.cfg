\* Edits, resets and drags of the page, beside other writers.
CONSTANTS
    MaxEdits = 2
    MaxOthers = 1
    MaxGestures = 1
SPECIFICATION FairSpec
INVARIANTS
    QueueInv
PROPERTIES
    LastEditStays
    CancelledNeverStored
    PageMovesForward
    Converges
CHECK_DEADLOCK FALSE
