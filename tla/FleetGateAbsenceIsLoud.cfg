\* A box that nothing is deployed to meanwhile.
CONSTANTS
    MaxDeploys = 0
SPECIFICATION Spec
INVARIANTS
    AbsenceIsLoud
\* The script ends.
CHECK_DEADLOCK FALSE
