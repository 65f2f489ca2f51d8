SPECIFICATION Spec
CONSTANTS
    WebEditors = {w1}
    CloudEditors = {c1}
    a = a
    b = b
    v1 = v1
    v2 = v2
    Names = {a, b}
    Vals = {v1, v2}
    Entered = {v2, "manual"}
    Modes = {"auto", "manual"}
    Clouds = {k1}
    InitialSources <- OneSource
    NoOne = NoOne
    Unknown = Unknown
    MaxEdits = 3
INVARIANTS
    TypeOK
    SavedWhenQuiet
    SavedAlone
PROPERTIES
    EditsReturn
