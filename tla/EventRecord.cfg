\* Two threads verify at once and a third emits other events.
CONSTANTS
    v1 = v1
    v2 = v2
    worker = worker
    Threads = {v1, v2, worker}
    Verifiers = {v1, v2}
    RingLimit = 3
    RejectionLimit = 1
    MaxEvents = 4
    MaxArrived = 4
SYMMETRY VerifierSymmetry
SPECIFICATION Spec
INVARIANTS
    CapHolds
    WindowCapHolds
    AccountingIdentity
    NeverOvercounted
    EachEventWrittenOnce
PROPERTIES
    EvictedEventsAreFinal
