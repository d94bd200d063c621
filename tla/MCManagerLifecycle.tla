------------------------- MODULE MCManagerLifecycle -------------------------
\* Small instances of ManagerLifecycle for TLC.
EXTENDS ManagerLifecycle, TLC

\* Two cluster events and a log.
MCCalls == {"e1", "e2", "l1"}
MCKindOf == ("e1" :> "cluster") @@ ("e2" :> "cluster") @@ ("l1" :> "log")

NoCalls == {}
NoKindOf == [c \in {} |-> "cluster"]
=============================================================================
