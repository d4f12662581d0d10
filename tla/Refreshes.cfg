\* Safety of one provider's refresh flight, which implements CoalescedCalls, and
\* of the way its requests take.
CONSTANTS
    c1 = c1
    c2 = c2
    r1 = r1
    r2 = r2
    Callers = {c1, c2}
    Runners = {r1, r2}
    MaxGeneration = 3
    MaxWorld = 2
    Requests = {c1, c2}
    SharedProviders = {"grok"}
    OwnProviders = {"codex"}
    Overrides = {r1, r2}
    OwnResolvers = {"own1", "own2", "own3"}
    MaxAsked = 2
    MaxSaves = 1
    MaxChanges = 1
    MaxSeconds = 1
SPECIFICATION RefreshSpec
SYMMETRY Symmetry
INVARIANTS
    FlightInv
    OneCallAtATime
    ForcedAnswersAreCurrent
    WaitersAreOwed
    RoutesAsChosen
PROPERTIES
    SnapshotNeverRegresses
    ServerSpec
CHECK_DEADLOCK FALSE
