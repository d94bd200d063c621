\* Two pods and two services that exchange two IPs, and a lookup.
CONSTANTS
    Pods = {p1, p2}
    Services = {s1, s2}
    i1 = i1
    i2 = i2
    IPs = {i1, i2}
    ServiceSpecs <- MCSpecs
    Readers = {r}
    NoIP = NoIP
    Absent = Absent
    Nobody = Nobody
SPECIFICATION Spec
SYMMETRY Symmetry
CONSTRAINT OneDisturbed
INVARIANTS
    TypeOK
    PodSound
    PodComplete
    ServiceSound
    ServiceComplete
PROPERTIES
    LookupIsRight
