SPECIFICATION FairSpec
CONSTANTS
    Machines <- MachinesMC
    BaseOf <- BaseOfMC
    Filters <- FiltersMC
    MaxNames = 4
    MaxSockets = 2
    MaxEvents = 2
    FirstNames <- FirstNamesMC
    Stories <- StoriesMC
INVARIANTS TypeOK ShownOnce
PROPERTIES ListSettles MeantVisible
CHECK_DEADLOCK FALSE
