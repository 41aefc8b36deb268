CONSTANTS
    a = a
    b = b
    c = c
    Holders = {a, b, c}
    MaxCommits = 3
SPECIFICATION Spec
INVARIANTS
    SectionIsSerial
PROPERTIES
    ImplementsSerialStore
    WaitersAreServed
\* At the bound on commits everyone may be outside, with nothing left to do.
CHECK_DEADLOCK FALSE
