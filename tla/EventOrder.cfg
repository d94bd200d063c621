\* One object, nothing fails.
CONSTANTS
    Objects = {o1}
    MaxEvents = 2
    Faults <- NoFaults
SPECIFICATION Spec
INVARIANTS
    TrackedInRealTime
CHECK_DEADLOCK FALSE
