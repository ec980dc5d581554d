SPECIFICATION RotationSpec
CONSTANTS
    EnvPair <- NoEnv
    StartContents <- OneStart
    SaveModes = {"inPlace"}
    MtimeAdvances = TRUE
    MaxSaves = 2
    Session <- MCSession
    Expiry <- MCExpiry
    Timeout = 1
    MaxClock = 6
INVARIANTS
    NoRestartIsNeeded
CHECK_DEADLOCK FALSE
