--------------------------- MODULE MCAgentResources ---------------------------
\* Small instances of AgentResources for TLC.
EXTENDS AgentResources, TLC

\* Pods are interchangeable, and so are services.
Symmetry == Permutations(Pods) \cup Permutations(Services)

CONSTANTS i1, i2

\* A cluster IP, the same with an external IP, and a load balancer.
MCSpecs == {[lb |-> FALSE, own |-> {i1}, ingress |-> {}],
            [lb |-> FALSE, own |-> {i1, i2}, ingress |-> {}],
            [lb |-> TRUE, own |-> {i1}, ingress |-> {i2}]}

\* The maps of pods and services are disturbed one at a time; nothing but a
\* lookup sees both.
OneDisturbed == contested = {} \/ moved \cup shared = {}
=============================================================================
