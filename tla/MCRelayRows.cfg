SPECIFICATION Spec
CONSTANTS
    Runs = {r1}
    Batches = 3
    QueueCap = 1
    SemCap = 1
    MaxSessions = 2
    NoRun = NoRun
CONSTRAINT Undisturbed
INVARIANTS
    RowsInOrder
    GaplessOnASession
    WholeFromFirstSession
PROPERTIES
    IsRowStream
