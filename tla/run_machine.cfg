SPECIFICATION FairSpec
CONSTANTS
    Sockets <- SocketsMC
    MaxUnderWay = 1
    MaxEvents = 1
    Stories <- StoriesMC
INVARIANTS TypeOK RedirectAfterStart ConnectionTold
PROPERTIES EndsUp
CHECK_DEADLOCK FALSE
