SPECIFICATION FairSpec
CONSTANTS
    Order <- OrderMC
    CloneOrder <- CloneOrderMC
    BaseOf <- BaseOfMC
    StartLimit = 1
    Autostart <- AutostartMC
    Tables <- TablesMC
    MaxChanges = 2
    MaxUnderWay = 1
INVARIANTS TypeOK ClonePresent
PROPERTIES ChoiceKept ListSettles
CHECK_DEADLOCK FALSE
