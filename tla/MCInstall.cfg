SPECIFICATION Spec
CONSTANTS
    Platforms = {"unix", "windows"}
    Appliers = {g1, g2}
    Releases = {r1, r2}
    Inodes = {i1, i2, i3, i4, i5, i6}
    SameVolume = TRUE
    None = None
SYMMETRY Symmetric
VIEW View
INVARIANTS
    ExecutableWhole
    Recoverable
PROPERTIES
    IsInstalled
