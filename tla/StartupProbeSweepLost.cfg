\* Debris of an interrupted write, on a store that takes no sentinel.
CONSTANTS
    doc = doc
    Files = {doc}
    Checks <- AllChecks
    Sweeps = {"suppresses"}
    Removals = {"works", "may_fail"}
    MaxKills = 0
SPECIFICATION Spec
INVARIANTS
    SweepIsNotLost
