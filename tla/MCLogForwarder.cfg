SPECIFICATION FairSpec
CONSTANTS
    Callers = {c1, c2}
    MaxBuffer = 2
    MaxEntries = 4
    MaxLoops = 3
INVARIANTS
    TypeOK
    EntriesConserved
    NothingLeftBehind
PROPERTIES
    EntriesForwarded
