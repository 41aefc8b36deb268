\* Every box, with two changes to it while the script runs.
CONSTANTS
    MaxDeploys = 2
SPECIFICATION Spec
INVARIANTS
    SilenceHasAReason
    AbsenceNeverBlocks
    ArmedGateRuns
\* The script ends.
CHECK_DEADLOCK FALSE
