\* Start, failed starts, the rollout, telemetry in flight, signal and stop.
CONSTANTS
    Calls = {"stream", "metrics"}
    Streams = {"stream"}
    Items = {"l", "m", "e"}
    KindOf <- MCKindOf
    Via <- MCVia
    Informers = "informers"
    own = own
    app = app
    d1 = d1
    Namespaces = {own, app}
    Deployments = {d1}
    NamespaceOf <- MCNamespaceOf
    Own = own
    MaxEdits = 1
    Absent = Absent
SPECIFICATION Spec
CONSTRAINT RolloutOrTraffic
INVARIANTS
    TypeOK
    WaitGroupExact
    NothingCutOff
    MeshIsCleared
    RolloutReachesAll
PROPERTIES
    EditsSurvive
    ShutdownEnds
    UploadsSettle
\* The agent terminates, panics or waits for a stream.
CHECK_DEADLOCK FALSE
