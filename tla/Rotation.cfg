SPECIFICATION LiveRotationSpec
CONSTANTS
    EnvPair <- NoEnv
    StartContents <- OneStart
    SaveModes = {"rename", "inPlace", "replace"}
    MtimeAdvances = TRUE
    MaxSaves = 2
    Session <- MCSession
    Expiry <- MCExpiry
    Timeout = 1
    MaxClock = 6
INVARIANTS
    HaltsOnlyOnLapse
PROPERTIES
    RotationIsShown
CHECK_DEADLOCK FALSE
