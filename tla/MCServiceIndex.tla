---------------------------- MODULE MCServiceIndex ----------------------------
\* Small instances of ServiceIndex for TLC.
EXTENDS ServiceIndex, TLC

\* Handlers are interchangeable, and so are services and IPs.
Symmetry == Permutations(Handlers) \cup Permutations(Services) \cup Permutations(IPs)

\* One end the agent has resolved, the other not.
SomeLogs == {Known} \X IPs \cup IPs \X {Known}

\* A log is read while an IP is out of use; two are in use when none is.
Unused(i) == ipToService[i] = NoService /\ ~\E s \in Services : Holds(s, i)
LogOrBothIPs == logger = Waiting \/ \E i \in IPs : Unused(i)
=============================================================================
