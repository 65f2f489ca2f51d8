SPECIFICATION Spec
CONSTANTS
    Versions = {1, 2}
    Tasks = {t1, t2}
    NoFile = NoFile
SYMMETRY Symmetric
INVARIANTS
    StatusHasTask
    ReadyFileExists
    AppliedOnce
PROPERTIES
    NeverDowngrades
