SPECIFICATION FairSpec
CONSTANTS
  Ids <- ThreeIds
  Slots <- TwoSlots
  Domains <- OneDomain
  NoDomain = NoDomain
  Workloads <- KilledWorkload
  MaxCrash = 1
PROPERTY AfterOkHonoured
CHECK_DEADLOCK FALSE
