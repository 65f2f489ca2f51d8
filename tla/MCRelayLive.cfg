SPECIFICATION FairSpec
CONSTANTS
    Runs = {r1, r2}
    Batches = 1
    QueueCap = 1
    SemCap = 1
    MaxSessions = 1
    NoRun = NoRun
PROPERTIES
    RequestsFinish
INVARIANTS
    OneLiveSession
    HealthTruthful
