CONSTANTS
    Calls <- NoCalls
    KindOf <- NoKindOf
    Clients = {x}
SPECIFICATION Spec
PROPERTIES
    GracefullyStopped
CHECK_DEADLOCK FALSE
