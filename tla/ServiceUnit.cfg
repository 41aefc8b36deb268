\* The service with all four checks, one crash or power cut, one upset.
CONSTANTS
    doc = doc
    Files = {doc}
    Checks <- AllChecks
    Sweeps = {"suppresses"}
    Removals = {"works"}
    MaxKills = 1
    StartLimitBurst = 3
    MaxUpsets = 1
SPECIFICATION UnitSpec
INVARIANTS
    ListeningMeansProbed
    ActiveMeansListening
    StatusTellsRefusalFromCrash
PROPERTIES
    RepairableUnitComesUp
    UnfixableUnitStopsTrying
