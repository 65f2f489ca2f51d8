SPECIFICATION ReconnectSpec
CONSTANTS
    Durations = {0, 20, 150}
    MaxEdits = 0
INVARIANT
    RestartsOnlyWhenFailing
