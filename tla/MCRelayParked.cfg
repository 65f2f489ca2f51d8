SPECIFICATION FairSpec
CONSTANTS
    Runs = {r1}
    Batches = 1
    QueueCap = 1
    SemCap = 1
    MaxSessions = 1
    NoRun = NoRun
PROPERTIES
    ConfigChangeIsNoticed
