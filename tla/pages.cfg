SPECIFICATION FairSpec
CONSTANTS
    Groups = {"g1", "g2"}
    MaxRows = 3
    MaxClicks = 4
    AccessStories <- AccessStoriesMC
    LastDay = 3
    LastHour = 2
    WeekLength = 2
    FirstEntries <- FirstEntriesMC
    BookingStories <- BookingStoriesMC
    Nodes = {"n1", "n2"}
    Busy = {"n1"}
    Options = {0, 1}
    FirstDevices = 2
    Filters = {1, 2, 3}
    MaxFiles = 5
    Limit = 2
    Names = {1, 2}
    FirstTaken = {1}
    Backends = {"KVM", "Void"}
    MaxPolls = 1
    MaxUnread = 2
    AdminStories <- AdminStoriesMC
INVARIANTS TypeOK DefaultIsLast NoOverlap NothingSkipped
PROPERTIES AccessSettles GroupsAsAsked CalendarSettles NodesSettle NodeInfoSettles RowsSettle NewMachineSettles
CHECK_DEADLOCK FALSE
