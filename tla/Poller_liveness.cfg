SPECIFICATION LiveSpec
CONSTANTS
    House = House
    Cabin = Cabin
    NoProperty = NoProperty
    Property = {House}
    Pinned = {}
    Listings <- MCOneListing
    Accounts = {House, NoProperty}
    DailyAnswers = {"total"}
    LocalDay <- MCLocalDay
    Interval = 1
    MetadataMaxAge = 2
    MaxAttempts = 2
    Expiries = {3}
    MaxClock = 3
    MaxFaults = 2
PROPERTIES
    ShutdownCompletes
    DuePollsArePublished
CHECK_DEADLOCK FALSE
