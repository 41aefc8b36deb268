\* All four checks, the files looked at first, over every world and store; one crash.
CONSTANTS
    doc = doc
    lock = lock
    Files = {doc, lock}
    Checks <- FilesFirst
    Sweeps = {"none", "raises", "suppresses"}
    Removals = {"works", "may_fail"}
    MaxKills = 1
SPECIFICATION Spec
INVARIANTS
    VerdictIsTheFirstFault
    PassMeansSound
    RepairedBeforeRefused
    ReportIsTheDelta
    EachSharingIsToldOnce
    SentinelIsNotLeft
PROPERTIES
    RepairableStoreIsServed
