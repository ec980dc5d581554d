SPECIFICATION Spec
CONSTANTS
    House = House
    Cabin = Cabin
    NoProperty = NoProperty
    Property = {House}
    Pinned = {}
    Listings <- MCOneListing
    Accounts = {House, NoProperty}
    DailyAnswers = {"total"}
    LocalDay <- MCLocalDay
    Interval = 2
    MetadataMaxAge = 3
    MaxAttempts = 2
    Expiries = {9}
    MaxClock = 5
    MaxFaults = 2
INVARIANTS
    AuthFailureIsReported
CHECK_DEADLOCK FALSE
