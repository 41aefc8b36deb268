\* Every file of at most two lines and five characters.
CONSTANTS
    MaxLines = 2
    MaxCharacters = 5
SPECIFICATION Spec
INVARIANTS
    QuotingDecides
    RefusedForTheLastLine
\* The file is as long as the bound allows.
CHECK_DEADLOCK FALSE
