SPECIFICATION Spec
CONSTANTS
    House = House
    Cabin = Cabin
    NoProperty = NoProperty
    Property = {House, Cabin}
    Pinned = {}
    Listings <- MCListings
    Accounts = {House, Cabin}
    DailyAnswers = {"total"}
    LocalDay <- MCLocalDay
    Interval = 1
    MetadataMaxAge = 2
    MaxAttempts = 2
    Expiries = {}
    MaxClock = 4
    MaxFaults = 2
INVARIANTS
    OkIsComplete
    StaleYesterdayExplained
    RetryPressureBounded
    OnlyDailyRefusalsAreDropped
PROPERTIES
    YesterdayStable
    ReadersAreServed
    InverterSticks
    FailureIsEarned
CHECK_DEADLOCK FALSE
