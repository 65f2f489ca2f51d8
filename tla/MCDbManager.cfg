SPECIFICATION DbSpec
CONSTANTS
    Queriers = {q1, q2, q3}
    Testers = {w1}
    MaxDrivers = 3
    MaxFailures = 2
SYMMETRY Symmetric
INVARIANTS
    CachedIsOpen
    LeaksBounded
    TestedAnew
