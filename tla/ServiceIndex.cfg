\* Two handlers race over two services that exchange two IPs; the log worker
\* reads the index while at most one of the IPs is in use.
CONSTANTS
    Services = {s1, s2}
    IPs = {i1, i2}
    Handlers = {h1, h2}
    Logs <- SomeLogs
    NoService = NoService
    Known = Known
SPECIFICATION Spec
SYMMETRY Symmetry
CONSTRAINT LogOrBothIPs
INVARIANTS
    TypeOK
    Sound
    Complete
PROPERTIES
    AttributionIsCurrent
