SPECIFICATION Spec
CONSTANTS
    House = House
    Cabin = Cabin
    NoProperty = NoProperty
    Property = {House, Cabin}
    Pinned = {House}
    Listings <- MCOneListing
    Accounts = {House, NoProperty}
    DailyAnswers = {"total"}
    LocalDay <- MCLocalDay
    Interval = 2
    MetadataMaxAge = 3
    MaxAttempts = 2
    Expiries = {3, 9}
    MaxClock = 5
    MaxFaults = 2
INVARIANTS
    TypeOK
    HaltIsFinal
    CallsUnderLiveSession
    ProductionUnderFreshMetadata
    CountersPublished
PROPERTIES
    PollSpacing
    LoopIsATickLoop
CHECK_DEADLOCK FALSE
