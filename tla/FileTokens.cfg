SPECIFICATION Spec
CONSTANTS
    EnvPair <- NoEnv
    StartContents <- BlankStart
    SaveModes = {"rename", "inPlace", "replace"}
    MtimeAdvances = FALSE
    MaxSaves = 4
INVARIANTS
    TypeOK
    CacheCoherent
    ReadsAreCurrent
    SavesAreNotMixed
