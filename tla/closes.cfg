SPECIFICATION FairSpec
CONSTANTS
  Ids <- ThreeIds
  Slots <- TwoSlots
  Domains <- OneDomain
  NoDomain = NoDomain
  Workloads <- ClosingWorkloads
  MaxCrash = 1
PROPERTY EveryRequestCloses
