SPECIFICATION MCSpec
CONSTANTS
    Sources = 1
    MaxDelay = 1
    Failures = {"mute", "silent"}
    Holds = {7, 22}
    MaxHold = 22
    Messages = {"command"}
    MaxInbox = 1
    Durations = {20, 150}
    MaxEdits = 2
INVARIANTS
    NoFalseAlarm
    SilenceIsNoticed
    MuteIsNoticed
    WatchdogBites
    GivesUpInTime
    LoadBounded
    NewConfigUsed
