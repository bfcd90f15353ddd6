SPECIFICATION Spec
CONSTANTS
  Ids <- ThreeIds
  Slots <- TwoSlots
  Domains <- OneDomain
  NoDomain = NoDomain
  Workloads <- QueueWorkloads
  MaxCrash = 1
INVARIANTS TypeOK SingleRun MachineExclusion
PROPERTIES RunsAfter DoneIsFinal IsWorkerPool
CHECK_DEADLOCK FALSE
