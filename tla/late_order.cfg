SPECIFICATION FairSpec
CONSTANTS
  Ids <- ThreeIds
  Slots <- TwoSlots
  Domains <- OneDomain
  NoDomain = NoDomain
  Workloads <- LateOrderWorkload
  MaxCrash = 0
PROPERTY AfterRequestHonoured
CHECK_DEADLOCK FALSE
