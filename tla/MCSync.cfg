SPECIFICATION FairSpec
CONSTANTS
    Jobs = {j1, j2}
    Tables = 2
    MaxRows = 3
    MaxId = 2
    BatchSize = 2
    MaxCopies = 2
    NoJob = NoJob
INVARIANTS
    TypeOK
    SyncedTables
    RowsReported
PROPERTIES
    SyncEnds
CONSTRAINT LaterTablesSmall
