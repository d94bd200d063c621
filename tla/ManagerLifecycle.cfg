\* Start, failed starts, calls in flight, signal and stop.
CONSTANTS
    Calls <- MCCalls
    KindOf <- MCKindOf
    Clients = {x}
SPECIFICATION Spec
INVARIANTS
    TypeOK
    WaitIsSound
    WaitGroupExact
    AckedIsDispatched
    KeptOnce
PROPERTIES
    ShutdownEnds
\* The manager terminates, panics or hangs.
CHECK_DEADLOCK FALSE
