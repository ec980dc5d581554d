SPECIFICATION Spec
CONSTANTS
    Id <- TwoIds
    Address = {"", "1 Main St"}
    Listings <- SomeListings
    Answers <- SomeAnswers
    InverterTables <- SomeTables
    Expiries = {3}
INVARIANTS
    MetricsAreGathered
    SurfacesAgree
    NewestBucketShown
