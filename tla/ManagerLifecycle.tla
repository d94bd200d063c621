-------------------------- MODULE ManagerLifecycle --------------------------
(***************************************************************************)
(* Start and stop of the manager (manager/core, with the start and stop    *)
(* functions and the worker loops of collector and exporter).              *)
(*                                                                         *)
(* Main starts the collector's server and its two log workers, then the    *)
(* exporter's server and its three export workers.  On a signal, or when   *)
(* a start fails, DestroyManager stops them: GracefulStop of the server of *)
(* the collector, a token per log worker, a token per export worker,       *)
(* GracefulStop of the exporter's server, waitGroup.Wait().  Channels are  *)
(* unbuffered, so a token is handed to a worker that is in its select.     *)
(* GracefulStop (grpc-go, external) refuses new calls and returns when     *)
(* every handler of its server has returned.                               *)
(***************************************************************************)
EXTENDS Naturals, FiniteSets

CONSTANTS
    Calls, KindOf,  \* calls of the agents: "cluster" events, "log"s, "metric"s
    Clients         \* subscription calls to the exporter's server

ASSUME KindAssumption == KindOf \in [Calls -> {"cluster", "log", "metric"}]

VARIABLES
    main,       \* where the main goroutine is
    tokens,     \* stop tokens main has still to hand over at this stage
    worker,     \* worker -> state of its goroutine
    holds,      \* worker -> the items it is working on
    waitGroup,  \* the counter main waits for
    call,       \* call -> state of its handler in the collector's server
    queued,     \* items whose goroutine waits to hand them to an export worker
    dispatched, \* items sent to the exporter's streams
    subscribed  \* subscription handlers that have started; none ever returns

vars == <<main, tokens, worker, holds, waitGroup, call, queued, dispatched, subscribed>>

LogWorkers == {"processLogs", "processMetrics"}
ExportWorkers == {"exportCluster", "exportLogs", "exportMetrics"}
AllWorkers == LogWorkers \cup ExportWorkers

\* The log worker that reads what a handler hands over, and the export worker.
Processor(c) == IF KindOf[c] = "log" THEN "processLogs" ELSE "processMetrics"
ExportWorker(c) == CASE KindOf[c] = "cluster" -> "exportCluster"
                     [] KindOf[c] = "log" -> "exportLogs"
                     [] OTHER -> "exportMetrics"

MainStates == {"startCollector", "startExporter", "running",
               "stopCalls", "stopLogWorkers", "stopExportWorkers", "stopClients",
               "wait", "terminated", "panicked"}

TypeOK ==
    /\ main \in MainStates
    /\ tokens \in 0..3
    /\ worker \in [AllWorkers -> {"unborn", "spawned", "select", "busy", "exiting", "done"}]
    /\ holds \in [AllWorkers -> SUBSET Calls]
    /\ waitGroup \in 0..Cardinality(AllWorkers)
    /\ call \in [Calls -> {"none", "serving", "acked"}]
    /\ queued \subseteq Calls
    /\ dispatched \subseteq Calls
    /\ subscribed \subseteq Clients

Init ==
    /\ main = "startCollector"
    /\ tokens = 0
    /\ worker = [w \in AllWorkers |-> "unborn"]
    /\ holds = [w \in AllWorkers |-> {}]
    /\ waitGroup = 0
    /\ call = [c \in Calls |-> "none"]
    /\ queued = {}
    /\ dispatched = {}
    /\ subscribed = {}

-----------------------------------------------------------------------------
\* The main goroutine.

Spawn(ws) == worker' = [w \in AllWorkers |-> IF w \in ws THEN "spawned" ELSE worker[w]]

MainOnly == UNCHANGED <<worker, holds, waitGroup, call, queued, dispatched, subscribed>>

StartCollector ==
    /\ main = "startCollector"
    /\ main' = "startExporter"
    /\ Spawn(LogWorkers)
    /\ UNCHANGED <<tokens, holds, waitGroup, call, queued, dispatched, subscribed>>

\* The port is taken: DestroyManager calls GracefulStop on a nil server.
StartCollectorFails ==
    /\ main = "startCollector"
    /\ main' = "panicked"
    /\ tokens' = tokens
    /\ MainOnly

StartExporter ==
    /\ main = "startExporter"
    /\ main' = "running"
    /\ Spawn(ExportWorkers)
    /\ UNCHANGED <<tokens, holds, waitGroup, call, queued, dispatched, subscribed>>

\* The port is taken: DestroyManager with no export worker and no server.
StartExporterFails ==
    /\ main = "startExporter"
    /\ main' = "stopCalls"
    /\ tokens' = tokens
    /\ MainOnly

Signal ==
    /\ main = "running"
    /\ main' = "stopCalls"
    /\ tokens' = tokens
    /\ MainOnly

\* GracefulStop of the collector's server returns: no call is being served.
CallsStopped ==
    /\ main = "stopCalls"
    /\ \A c \in Calls : call[c] # "serving"
    /\ main' = "stopLogWorkers"
    /\ tokens' = Cardinality(LogWorkers)
    /\ MainOnly

\* Mutant: the token is put into a buffered channel.
TokenBuffered(ws, w) ==
    /\ w \in ws
    /\ tokens > 0
    /\ tokens' = tokens - 1
    /\ worker' = [worker EXCEPT ![w] = IF @ = "select" THEN "exiting" ELSE @]
    /\ UNCHANGED <<main, holds, waitGroup, call, queued, dispatched, subscribed>>

\* stopChan <- struct{}{}, taken by a worker of the stage that is in its select.
Token(ws, w) ==
    /\ w \in ws
    /\ tokens > 0
    /\ worker[w] = "select"
    /\ tokens' = tokens - 1
    /\ worker' = [worker EXCEPT ![w] = "exiting"]
    /\ UNCHANGED <<main, holds, waitGroup, call, queued, dispatched, subscribed>>

StopLogWorker(w) == main = "stopLogWorkers" /\ Token(LogWorkers, w)
StopExportWorker(w) == main = "stopExportWorkers" /\ Token(ExportWorkers, w)

\* Mutant: StopExporter hands over one token too few.
LogWorkersStoppedTwoTokens ==
    /\ main = "stopLogWorkers"
    /\ tokens = 0
    /\ main' = "stopExportWorkers"
    /\ tokens' = Cardinality(ExportWorkers) - 1
    /\ MainOnly

LogWorkersStopped ==
    /\ main = "stopLogWorkers"
    /\ tokens = 0
    /\ main' = "stopExportWorkers"
    /\ tokens' = Cardinality(ExportWorkers)
    /\ MainOnly

ExportWorkersStopped ==
    /\ main = "stopExportWorkers"
    /\ tokens = 0
    /\ main' = "stopClients"
    /\ tokens' = tokens
    /\ MainOnly

\* GracefulStop of the exporter's server waits for its handlers, and a
\* subscription handler receives from a channel nobody sends on.
ClientsStopped ==
    /\ main = "stopClients"
    /\ subscribed = {}
    /\ main' = "wait"
    /\ tokens' = tokens
    /\ MainOnly

\* waitGroup.Wait() returns, and the process ends.
Terminate ==
    /\ main = "wait"
    /\ waitGroup = 0
    /\ main' = "terminated"
    /\ tokens' = tokens
    /\ MainOnly

MainStep ==
    \/ StartCollector \/ StartCollectorFails
    \/ StartExporter \/ StartExporterFails
    \/ Signal \/ CallsStopped
    \/ \E w \in AllWorkers : StopLogWorker(w) \/ StopExportWorker(w)
    \/ LogWorkersStopped \/ ExportWorkersStopped \/ ClientsStopped
    \/ Terminate

-----------------------------------------------------------------------------
\* The workers.

Alive == main \notin {"terminated", "panicked"}

\* Mutant: wg.Add(1) both before the go statement and in the goroutine.
WorkerBeginsTwice(w) ==
    /\ Alive
    /\ worker[w] = "spawned"
    /\ worker' = [worker EXCEPT ![w] = "select"]
    /\ waitGroup' = waitGroup + 2
    /\ UNCHANGED <<main, tokens, holds, call, queued, dispatched, subscribed>>

\* The goroutine runs for the first time: wg.Add(1).
WorkerBegins(w) ==
    /\ Alive
    /\ worker[w] = "spawned"
    /\ worker' = [worker EXCEPT ![w] = "select"]
    /\ waitGroup' = waitGroup + 1
    /\ UNCHANGED <<main, tokens, holds, call, queued, dispatched, subscribed>>

\* The handler of c hands its item over, and returns.  The agent sends one
\* log or metric per stream and closes it.
Take(w, c) ==
    /\ worker[w] = "select"
    /\ call[c] = "serving"
    /\ worker' = [worker EXCEPT ![w] = "busy"]
    /\ holds' = [holds EXCEPT ![w] = {c}]
    /\ call' = [call EXCEPT ![c] = "acked"]
    /\ UNCHANGED <<main, tokens, waitGroup, queued, dispatched, subscribed>>

\* exportClusterHandler reads the channel its handlers write; the log workers
\* read the channels of GiveAPILog and GiveEnvoyMetrics.
TakeClusterEvent(c) ==
    Alive /\ KindOf[c] = "cluster" /\ Take("exportCluster", c)

TakeLog(c) ==
    Alive /\ KindOf[c] # "cluster" /\ Take(Processor(c), c)

\* Mutant: a log is dropped while the export worker is busy.
QueueLogIfFree(w) ==
    /\ Alive
    /\ w \in LogWorkers
    /\ worker[w] = "busy"
    /\ worker' = [worker EXCEPT ![w] = "select"]
    /\ holds' = [holds EXCEPT ![w] = {}]
    /\ queued' = queued \cup {c \in holds[w] : worker[ExportWorker(c)] = "select"}
    /\ UNCHANGED <<main, tokens, waitGroup, call, dispatched, subscribed>>

\* go exporter.InsertAPILog(apiLog)
QueueLog(w) ==
    /\ Alive
    /\ w \in LogWorkers
    /\ worker[w] = "busy"
    /\ worker' = [worker EXCEPT ![w] = "select"]
    /\ holds' = [holds EXCEPT ![w] = {}]
    /\ queued' = queued \cup holds[w]
    /\ UNCHANGED <<main, tokens, waitGroup, call, dispatched, subscribed>>

ReceiveLog(c) ==
    LET w == ExportWorker(c) IN
    /\ Alive
    /\ c \in queued
    /\ worker[w] = "select"
    /\ worker' = [worker EXCEPT ![w] = "busy"]
    /\ holds' = [holds EXCEPT ![w] = {c}]
    /\ queued' = queued \ {c}
    /\ UNCHANGED <<main, tokens, waitGroup, call, dispatched, subscribed>>

\* The Send function returns (the module Exporter says how it gets there).
Dispatch(w) ==
    /\ Alive
    /\ w \in ExportWorkers
    /\ worker[w] = "busy"
    /\ worker' = [worker EXCEPT ![w] = "select"]
    /\ holds' = [holds EXCEPT ![w] = {}]
    /\ dispatched' = dispatched \cup holds[w]
    /\ UNCHANGED <<main, tokens, waitGroup, call, queued, subscribed>>

\* wg.Done()
WorkerEnds(w) ==
    /\ Alive
    /\ worker[w] = "exiting"
    /\ worker' = [worker EXCEPT ![w] = "done"]
    /\ waitGroup' = waitGroup - 1
    /\ UNCHANGED <<main, tokens, holds, call, queued, dispatched, subscribed>>

WorkerStep ==
    \/ \E w \in AllWorkers : WorkerBegins(w) \/ QueueLog(w) \/ Dispatch(w) \/ WorkerEnds(w)
    \/ \E c \in Calls : TakeClusterEvent(c) \/ TakeLog(c) \/ ReceiveLog(c)

-----------------------------------------------------------------------------
\* The collector's server takes calls until GracefulStop begins, even before
\* the exporter runs; the exporter's server until its own GracefulStop.
Arrive(c) ==
    /\ main \in {"startExporter", "running"}
    /\ call[c] = "none"
    /\ call' = [call EXCEPT ![c] = "serving"]
    /\ UNCHANGED <<main, tokens, worker, holds, waitGroup, queued, dispatched, subscribed>>

ExporterServes == Alive /\ worker["exportCluster"] # "unborn" /\ main \notin {"stopClients", "wait"}

Subscribe(s) ==
    /\ ExporterServes
    /\ s \notin subscribed
    /\ subscribed' = subscribed \cup {s}
    /\ UNCHANGED <<main, tokens, worker, holds, waitGroup, call, queued, dispatched>>

Next ==
    \/ MainStep
    \/ WorkerStep
    \/ \E c \in Calls : Arrive(c)
    \/ \E s \in Clients : Subscribe(s)

(***************************************************************************)
(* Fairness: every goroutine that can run does, and a channel operation    *)
(* that stays possible is chosen in the end.  A select that always finds   *)
(* an item ready picks the stop token sooner or later (Go chooses at       *)
(* random), so the tokens are strongly fair.  Nothing makes an agent call, *)
(* a client subscribe, a port be taken or a signal come.                   *)
(***************************************************************************)
Spec ==
    /\ Init
    /\ [][Next]_vars
    /\ WF_vars(CallsStopped \/ LogWorkersStopped \/ ExportWorkersStopped
                  \/ ClientsStopped \/ Terminate)
    /\ WF_vars((StartCollector \/ StartCollectorFails) \/ (StartExporter \/ StartExporterFails))
    /\ \A w \in AllWorkers : SF_vars(StopLogWorker(w) \/ StopExportWorker(w))
    /\ \A w \in AllWorkers :
          WF_vars(WorkerBegins(w) \/ QueueLog(w) \/ Dispatch(w) \/ WorkerEnds(w))
    /\ \A c \in Calls : SF_vars(TakeClusterEvent(c) \/ TakeLog(c))

-----------------------------------------------------------------------------
(***************************************************************************)
(* WaitIsSound: the manager reports its end only when every worker has     *)
(* returned.  The workers call wg.Add themselves, so Wait could see zero   *)
(* before a worker has begun; what prevents it is that main hands a token  *)
(* to each of them first.                                                  *)
(***************************************************************************)
WaitIsSound ==
    main = "terminated" => \A w \in AllWorkers : worker[w] \in {"unborn", "done"}

(***************************************************************************)
(* WaitGroupExact: the counter is the number of workers that have begun    *)
(* and not ended, so it never goes below zero (a panic in Go).             *)
(***************************************************************************)
WaitGroupExact ==
    waitGroup = Cardinality({w \in AllWorkers : worker[w] \in {"select", "busy", "exiting"}})

\* Where an item is once its handler has handed it over.
Places(c) == {w \in AllWorkers : c \in holds[w]}
                \cup {p \in {"queue"} : c \in queued} \cup {p \in {"streams"} : c \in dispatched}

(***************************************************************************)
(* KeptOnce: an acknowledged item is in one place only, however calls,     *)
(* workers and the shutdown interleave, and when the workers have gone     *)
(* only a goroutine that nobody waits for may still hold one.              *)
(***************************************************************************)
KeptOnce ==
    \A c \in Calls :
        /\ call[c] = "acked" <=> \E p \in AllWorkers \cup {"queue", "streams"} : Places(c) = {p}
        /\ call[c] # "acked" => Places(c) = {}
        /\ main \in {"stopClients", "wait", "terminated"} => Places(c) \cap AllWorkers = {}

(***************************************************************************)
(* AckedIsDispatched: a cluster event whose call was answered has been     *)
(* sent to the streams when the export workers have gone: stopping loses   *)
(* no acknowledged event.  (It may lose logs, as KeptOnce says.)           *)
(***************************************************************************)
AckedIsDispatched ==
    main \in {"stopClients", "wait", "terminated"} =>
        \A c \in Calls : (KindOf[c] = "cluster" /\ call[c] = "acked") => c \in dispatched

Stopping == main \in {"stopCalls", "stopLogWorkers", "stopExportWorkers", "stopClients", "wait"}

(***************************************************************************)
(* ShutdownEnds: a manager that is told to stop terminates, unless a       *)
(* client ever subscribed or the exporter never started.                   *)
(***************************************************************************)
ShutdownEnds ==
    Stopping ~> \/ main = "terminated"
                \/ subscribed # {}
                \/ \A w \in ExportWorkers : worker[w] = "unborn"

(***************************************************************************)
(* GracefullyStopped: what StopExporter logs after "Stop gRPC server".     *)
(* The code does not reach it once a client has subscribed.                *)
(***************************************************************************)
GracefullyStopped == main = "stopClients" ~> main = "wait"

(***************************************************************************)
(* FailedStartTerminates: after a failed start of the exporter the manager *)
(* destroys itself ("Terminated Manager").  The code waits for a worker    *)
(* that was never started to take a token.                                 *)
(***************************************************************************)
FailedStartTerminates ==
    (main = "stopExportWorkers" /\ worker["exportCluster"] = "unborn") ~> main = "terminated"
=============================================================================
