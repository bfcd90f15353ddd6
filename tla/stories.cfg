SPECIFICATION Spec
CONSTANTS
  Ids <- ThreeIds
  Slots <- TwoSlots
  Domains <- OneDomain
  NoDomain = NoDomain
  Workloads <- StoryWorkloads
  MaxCrash = 0
INVARIANTS SingleRun LimitRespected
CHECK_DEADLOCK FALSE
