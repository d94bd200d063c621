\* Two workers share the lock; two clients subscribe to one kind.
CONSTANTS
    Kinds <- MCKinds
    Workers <- MCWorkers
    WorkerOf <- MCWorkerOf
    Items <- MCItems
    ItemKind <- MCItemKind
    Subs <- MCSubs
    SubKind <- MCSubKind
    Free = Free
SPECIFICATION FairSpec
INVARIANTS
    TypeOK
    Delivery
    StaysListed
PROPERTIES
    FeedSpec
    InsertReturns
CHECK_DEADLOCK FALSE
