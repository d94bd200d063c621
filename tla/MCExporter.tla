----------------------------- MODULE MCExporter -----------------------------
\* Small instances of Exporter for TLC.
EXTENDS Exporter, TLC

\* Two kinds of the cluster worker and the log worker's kind.
MCKinds == {"PodAdd", "PodDelete", "APILog"}
MCWorkers == {"cluster", "logs"}
MCWorkerOf == ("PodAdd" :> "cluster") @@ ("PodDelete" :> "cluster")
                @@ ("APILog" :> "logs")
MCItems == {"p1", "p2", "l1"}
MCItemKind == ("p1" :> "PodAdd") @@ ("p2" :> "PodAdd") @@ ("l1" :> "APILog")
\* Two clients of one kind; the other kind's events compete for the lock.
MCSubs == {"x", "y"}
MCSubKind == ("x" :> "PodAdd") @@ ("y" :> "PodAdd")
=============================================================================
