\* Two files; the filesystem keeps one of the two mode changes.
CONSTANTS
    doc = doc
    lock = lock
    Files = {doc, lock}
    Checks <- ExampleChecks
    Sweeps = {"none"}
    Removals = {"works", "may_fail"}
    MaxKills = 0
SPECIFICATION Spec
INVARIANTS
    RepairIsNotLost
