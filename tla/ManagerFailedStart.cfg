CONSTANTS
    Calls <- NoCalls
    KindOf <- NoKindOf
    Clients = {x}
SPECIFICATION Spec
PROPERTIES
    FailedStartTerminates
CHECK_DEADLOCK FALSE
