\* Two requests, every header, whatever secret is configured.
CONSTANTS
    loop = loop
    Loop = loop
    a = a
    b = b
    Threads = {loop}
    Verifiers = {loop}
    Requests = {a, b}
    RingLimit = 2
    RejectionLimit = 1
    MaxEvents = 4
    MaxArrived = 2
SPECIFICATION GuardSpec
INVARIANTS
    NothingHalfListening
    SessionsOpenForEveryCaller
    RefusalsAreRecorded
    JournalShowsNoSuppression
PROPERTIES
    ImplementsGuardedService
    EveryConnectionIsMet
    SignalledServerReturns
\* serve_http returns, and then nothing happens.
CHECK_DEADLOCK FALSE
