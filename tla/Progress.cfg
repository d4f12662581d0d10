\* What must happen in a refresh flight, first while a worker may hang and then
\* under the assumption that every worker ends, and in the loop of refreshes.
CONSTANTS
    c1 = c1
    c2 = c2
    r1 = r1
    r2 = r2
    Callers = {c1, c2}
    Runners = {r1, r2}
    MaxGeneration = 2
    MaxWorld = 1
    UnchangedRounds = 2
    MaxChanges = 3
SPECIFICATION ProgressSpec
INVARIANT WaitsAsAsked
PROPERTIES
    EveryGenerationCompletes
    DrainingEnds
    FrequencyTakenUp
CHECK_DEADLOCK FALSE
