SPECIFICATION Spec
CONSTANTS
  Ids <- ThreeIds
  Slots <- TwoSlots
  Domains <- OneDomain
  NoDomain = NoDomain
  Workloads <- TwoChangesWorkload
  MaxCrash = 0
INVARIANT NoCircularWait
CHECK_DEADLOCK FALSE
