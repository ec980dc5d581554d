SPECIFICATION LiveSpec
CONSTANTS
    prometheus = prometheus
    homeAssistant = homeAssistant
    Reader <- TwoReaders
    MaxTicks = 3
INVARIANTS
    ScrapesAreWhole
PROPERTIES
    CacheIsARegister
    TicksAreRecorded
    ScrapesAreAnswered
