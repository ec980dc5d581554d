SPECIFICATION LiveRotationSpec
CONSTANTS
    FirstKeys <- AnyKeys
    LaterKeys <- AnyKeys
    MaxUpdates = 3
    Session <- MCSession
    Expiry <- MCExpiry
    Timeout = 1
    MaxClock = 6
INVARIANTS
    TornOneWay
    DirHaltsOnlyOnLapse
PROPERTIES
    NeverGoesBack
    UpdateArrives
CHECK_DEADLOCK FALSE
