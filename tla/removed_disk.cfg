SPECIFICATION FairSpec
CONSTANTS
    MaxDisks = 3
    FirstDisks = 2
    Files = {1, 2, 3}
    MaxValue = 2
    MaxRequests = 2
    MaxEvents = 2
    Stories <- RemovalMC
PROPERTIES RemovedIsNamed
CHECK_DEADLOCK FALSE
