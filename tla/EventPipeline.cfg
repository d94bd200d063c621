\* Two objects of two events each, with every fault.
CONSTANTS
    Objects = {o1, o2}
    MaxEvents = 2
    Faults <- AllFaults
SPECIFICATION Spec
INVARIANTS
    TypeOK
    MirrorUndisturbed
    CacheFollowsCluster
PROPERTIES
    FeedSpec
    EventsSettle
\* The bounded events run out.
CHECK_DEADLOCK FALSE
