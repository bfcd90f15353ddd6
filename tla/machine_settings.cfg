SPECIFICATION FairSpec
CONSTANTS
    MaxDisks = 3
    FirstDisks = 2
    Files = {1, 3}
    MaxValue = 2
    MaxRequests = 2
    MaxEvents = 2
    Stories <- StoriesMC
INVARIANTS TypeOK
PROPERTIES InfoSettles BannerEnds ScreenshotEnds
CHECK_DEADLOCK FALSE
