\* Two services, every pair of settings, and two changes to them.
CONSTANTS
    notes = notes
    mail = mail
    Services = {notes, mail}
    Ports = {1, 2}
    MaxEdits = 2
SPECIFICATION Spec
SYMMETRY Interchangeable
INVARIANTS
    BuiltServicesBind
    RefusalIsDue
    WideOnlyOutOfScope
\* A host that is up and no longer edited stays as it is.
CHECK_DEADLOCK FALSE
