SPECIFICATION PollerSpec
CONSTANTS
    q = q
    e = e
    r = r
    Commands = {q, e, r}
    Kind <- OneOfEachKind
    MaxIssued = 2
    MaxRuns = 2
    Lossy = TRUE
INVARIANTS
    LostOnlyWhenCut
    AckedIsOver
PROPERTIES
    EveryCommandHandled
