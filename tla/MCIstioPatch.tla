----------------------------- MODULE MCIstioPatch -----------------------------
\* Small instances of IstioPatch for TLC.
EXTENDS IstioPatch, TLC

\* Agents run the same code on the same ConfigMap.
AgentSymmetry == Permutations(Agents)

\* A rolling update in which every request succeeds and nobody is killed.
NothingFails == \A a \in Agents : ~(PatchFails(a) \/ UnpatchFails(a) \/ Kill(a))
=============================================================================
