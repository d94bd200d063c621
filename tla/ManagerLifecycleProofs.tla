------------------------ MODULE ManagerLifecycleProofs ------------------------
(***************************************************************************)
(* Theorems about the start and stop of the manager, for any calls, kinds  *)
(* and clients.  The main goroutine and the workers keep count of each     *)
(* other (Workforce); the items are kept apart from that (Items).  At the  *)
(* end, why the manager stops, and the two cases in which it never does.   *)
(***************************************************************************)
EXTENDS ManagerLifecycle, FiniteSetTheorems, TLAPS

USE KindAssumption

WorkerStates == {"unborn", "spawned", "select", "busy", "exiting", "done"}

Begun == {w \in AllWorkers : worker[w] \in {"select", "busy", "exiting"}}

\* A worker has taken its stop token.
Told(w) == worker[w] \in {"exiting", "done"}
Untold(ws) == {w \in ws : ~Told(w)}

\* What each stage of main knows of the workers and its tokens.
Stages ==
    /\ main = "startCollector" => \A w \in AllWorkers : worker[w] = "unborn"
    /\ main = "startExporter" => \A w \in ExportWorkers : worker[w] = "unborn"
    /\ main \in {"startCollector", "startExporter", "running", "stopCalls"} =>
          \A w \in AllWorkers : ~Told(w)
    /\ main = "stopLogWorkers" =>
          /\ \A w \in ExportWorkers : ~Told(w)
          /\ tokens = Cardinality(Untold(LogWorkers))
    /\ main = "stopExportWorkers" =>
          /\ \A w \in LogWorkers : Told(w)
          /\ tokens = Cardinality(Untold(ExportWorkers))
    /\ main \in {"stopClients", "wait", "terminated"} => \A w \in AllWorkers : Told(w)
    /\ main = "terminated" => waitGroup = 0

Workforce ==
    /\ main \in MainStates
    /\ tokens \in 0..3
    /\ worker \in [AllWorkers -> WorkerStates]
    /\ WaitGroupExact
    /\ Stages

ItemTypeOK ==
    /\ holds \in [AllWorkers -> SUBSET Calls]
    /\ call \in [Calls -> {"none", "serving", "acked"}]
    /\ queued \subseteq Calls
    /\ dispatched \subseteq Calls
    /\ subscribed \subseteq Clients

\* A worker holds an item of its own kind while it is busy, and no other.
Holding ==
    \A w \in AllWorkers :
        /\ worker[w] # "busy" => holds[w] = {}
        /\ worker[w] = "busy" => \E c \in Calls : holds[w] = {c}
        /\ \A c \in holds[w] : w = ExportWorker(c) \/ KindOf[c] # "cluster"

NoClusterQueued == \A c \in queued : KindOf[c] # "cluster"

\* An item is in one place once its handler has handed it over, and in none before.
Placed ==
    \A c \in Calls :
        /\ call[c] = "acked" => \E p \in AllWorkers \cup {"queue", "streams"} : Places(c) = {p}
        /\ call[c] # "acked" => Places(c) = {}

Handover == ItemTypeOK /\ Holding /\ NoClusterQueued /\ Placed

IInv == Workforce /\ Handover

-----------------------------------------------------------------------------
\* Cardinalities.

LEMMA Sizes == /\ IsFiniteSet(AllWorkers)
               /\ IsFiniteSet(LogWorkers) /\ Cardinality(LogWorkers) = 2
               /\ IsFiniteSet(ExportWorkers) /\ Cardinality(ExportWorkers) = 3
<1>1. IsFiniteSet({}) /\ Cardinality({}) = 0 BY FS_EmptySet
<1>2. /\ IsFiniteSet({"processLogs"}) /\ Cardinality({"processLogs"}) = 1
      /\ IsFiniteSet({"exportCluster"}) /\ Cardinality({"exportCluster"}) = 1
  BY FS_Singleton
<1>3. LogWorkers = {"processLogs"} \cup {"processMetrics"} BY DEF LogWorkers
<1>4. IsFiniteSet(LogWorkers) /\ Cardinality(LogWorkers) = 2
  BY <1>2, <1>3, FS_AddElement
<1>5. /\ IsFiniteSet({"exportCluster"} \cup {"exportLogs"})
      /\ Cardinality({"exportCluster"} \cup {"exportLogs"}) = 2
  BY <1>2, FS_AddElement
<1>6. ExportWorkers = ({"exportCluster"} \cup {"exportLogs"}) \cup {"exportMetrics"}
  BY DEF ExportWorkers
<1>7. IsFiniteSet(ExportWorkers) /\ Cardinality(ExportWorkers) = 3
  BY <1>5, <1>6, FS_AddElement
<1>8. IsFiniteSet(AllWorkers) BY <1>4, <1>7, FS_Union DEF AllWorkers
<1> QED BY <1>4, <1>7, <1>8

LEMMA BegunSize == /\ IsFiniteSet(Begun)
                   /\ Cardinality(Begun) \in 0..Cardinality(AllWorkers)
                   /\ Cardinality(AllWorkers) \in Nat
<1>1. Begun \in SUBSET AllWorkers BY DEF Begun
<1> QED BY <1>1, Sizes, FS_Subset, FS_CardinalityType

LEMMA UntoldSize ==
  ASSUME NEW ws, IsFiniteSet(ws)
  PROVE  IsFiniteSet(Untold(ws)) /\ Cardinality(Untold(ws)) \in Nat
<1>1. Untold(ws) \in SUBSET ws BY DEF Untold
<1> QED BY <1>1, FS_Subset, FS_CardinalityType

\* A worker begins, or ends.
LEMMA BegunChanges ==
  ASSUME worker \in [AllWorkers -> WorkerStates], NEW w \in AllWorkers,
         NEW s \in WorkerStates, worker' = [worker EXCEPT ![w] = s]
  PROVE  /\ (w \in Begun <=> s \in {"select", "busy", "exiting"}) =>
                Cardinality(Begun') = Cardinality(Begun)
         /\ w \notin Begun /\ s = "select" => Cardinality(Begun') = Cardinality(Begun) + 1
         /\ w \in Begun /\ s = "done" => Cardinality(Begun') = Cardinality(Begun) - 1
<1>1. ASSUME (w \in Begun <=> s \in {"select", "busy", "exiting"})
      PROVE  Begun' = Begun
  BY <1>1 DEF Begun
<1>2. ASSUME w \notin Begun, s = "select" PROVE Begun' = Begun \cup {w}
  BY <1>2 DEF Begun
<1>3. ASSUME w \in Begun, s = "done" PROVE Begun' = Begun \ {w}
  BY <1>3 DEF Begun
<1>4. Cardinality(Begun \cup {w}) = IF w \in Begun THEN Cardinality(Begun) ELSE Cardinality(Begun) + 1
  BY BegunSize, FS_AddElement
<1>5. Cardinality(Begun \ {w}) = IF w \in Begun THEN Cardinality(Begun) - 1 ELSE Cardinality(Begun)
  BY BegunSize, FS_RemoveElement
<1> QED BY <1>1, <1>2, <1>3, <1>4, <1>5

-----------------------------------------------------------------------------
\* The workforce.

LEMMA WorkforceInit == Init => Workforce
<1> SUFFICES ASSUME Init PROVE Workforce OBVIOUS
<1>1. Begun = {} BY DEF Init, Begun
<1>2. WaitGroupExact BY <1>1, FS_EmptySet DEF Init, WaitGroupExact, Begun
<1>3. Stages BY DEF Init, Stages, Told, AllWorkers
<1> QED BY <1>2, <1>3 DEF Init, Workforce, MainStates, WorkerStates

\* Main goes on and no worker moves.
LEMMA MainMoves ==
  ASSUME Workforce, worker' = worker, waitGroup' = waitGroup,
         main' \in MainStates, tokens' \in 0..3, Stages'
  PROVE  Workforce'
<1>1. Begun' = Begun BY DEF Begun
<1>2. WaitGroupExact' BY <1>1 DEF Workforce, WaitGroupExact, Begun
<1> QED BY <1>2 DEF Workforce

\* A start function returns: the goroutines of its workers are spawned.
LEMMA Spawned ==
  ASSUME Workforce, NEW ws \in SUBSET AllWorkers, \A w \in ws : worker[w] = "unborn",
         Spawn(ws), waitGroup' = waitGroup,
         main' \in MainStates, tokens' \in 0..3, Stages'
  PROVE  Workforce'
<1>1. worker' \in [AllWorkers -> WorkerStates]
  BY DEF Workforce, WorkerStates, Spawn
<1>2. Begun' = Begun BY DEF Begun, Spawn
<1>3. WaitGroupExact' BY <1>2 DEF Workforce, WaitGroupExact, Begun
<1> QED BY <1>1, <1>3 DEF Workforce

\* A worker moves without taking a token; main stays where it is.
LEMMA WorkerMoves ==
  ASSUME Workforce, Alive, NEW w \in AllWorkers, NEW s \in WorkerStates,
         worker' = [worker EXCEPT ![w] = s], main' = main, tokens' = tokens,
         worker[w] # "unborn", s # "unborn",
         worker[w] \in {"exiting", "done"} <=> s \in {"exiting", "done"},
         waitGroup' = Cardinality(Begun')
  PROVE  Workforce'
<1>1. worker' \in [AllWorkers -> WorkerStates] BY DEF Workforce
<1>2. WaitGroupExact' BY DEF WaitGroupExact, Begun
<1>3. \A v \in AllWorkers : Told(v)' <=> Told(v) BY DEF Told, Workforce
<1>4. Untold(LogWorkers)' = Untold(LogWorkers) BY <1>3 DEF Untold, AllWorkers
<1>5. Untold(ExportWorkers)' = Untold(ExportWorkers) BY <1>3 DEF Untold, AllWorkers
<1>6. \A v \in AllWorkers : worker[v] = "unborn" => worker'[v] = "unborn"
  BY DEF Workforce
<1>7. LogWorkers \subseteq AllWorkers /\ ExportWorkers \subseteq AllWorkers BY DEF AllWorkers
<1>8. Stages'
  BY <1>3, <1>4, <1>5, <1>6, <1>7 DEF Stages, Workforce, Alive
<1> QED BY <1>1, <1>2, <1>8 DEF Workforce

\* A worker goes from its select to an item, or back.
LEMMA WorkerTurns ==
  ASSUME Workforce, Alive, NEW w \in AllWorkers, NEW s \in {"select", "busy"},
         worker[w] \in {"select", "busy"}, worker' = [worker EXCEPT ![w] = s],
         UNCHANGED <<main, tokens, waitGroup>>
  PROVE  Workforce'
<1>1. s \in WorkerStates /\ w \in Begun BY DEF WorkerStates, Begun
<1>2. Cardinality(Begun') = Cardinality(Begun) BY <1>1, BegunChanges DEF Workforce
<1>3. waitGroup' = Cardinality(Begun') BY <1>2 DEF Workforce, WaitGroupExact, Begun
<1> QED BY <1>1, <1>3, WorkerMoves

LEMMA WorkerBeginsKeeps ==
  ASSUME Workforce, NEW w \in AllWorkers, WorkerBegins(w)
  PROVE  Workforce'
<1>1. "select" \in WorkerStates /\ w \notin Begun BY DEF WorkerStates, Begun, WorkerBegins
<1>2. Cardinality(Begun') = Cardinality(Begun) + 1
  BY <1>1, BegunChanges DEF Workforce, WorkerBegins
<1>3. waitGroup' = Cardinality(Begun')
  BY <1>2 DEF Workforce, WaitGroupExact, Begun, WorkerBegins
<1> QED BY <1>1, <1>3, WorkerMoves DEF WorkerBegins

LEMMA WorkerEndsKeeps ==
  ASSUME Workforce, NEW w \in AllWorkers, WorkerEnds(w)
  PROVE  Workforce'
<1>1. "done" \in WorkerStates /\ w \in Begun BY DEF WorkerStates, Begun, WorkerEnds
<1>2. Cardinality(Begun') = Cardinality(Begun) - 1
  BY <1>1, BegunChanges DEF Workforce, WorkerEnds
<1>3. waitGroup' = Cardinality(Begun')
  BY <1>2 DEF Workforce, WaitGroupExact, Begun, WorkerEnds
<1> QED BY <1>1, <1>3, WorkerMoves DEF WorkerEnds

\* A worker of the stage takes a token: one more is told, one token is gone.
LEMMA TokenTaken ==
  ASSUME Workforce, NEW w \in AllWorkers, NEW ws, Token(ws, w),
         \/ main = "stopLogWorkers" /\ ws = LogWorkers
         \/ main = "stopExportWorkers" /\ ws = ExportWorkers
  PROVE  Workforce'
<1>1. /\ worker' = [worker EXCEPT ![w] = "exiting"] /\ worker[w] = "select"
      /\ w \in ws /\ main' = main /\ waitGroup' = waitGroup
      /\ tokens \in 1..3 /\ tokens' = tokens - 1
  BY DEF Token, Workforce
<1>2. "exiting" \in WorkerStates /\ w \in Begun BY <1>1 DEF WorkerStates, Begun
<1>3. Cardinality(Begun') = Cardinality(Begun) BY <1>1, <1>2, BegunChanges DEF Workforce
<1>4. WaitGroupExact' BY <1>1, <1>3 DEF Workforce, WaitGroupExact, Begun
<1>5. worker' \in [AllWorkers -> WorkerStates] BY <1>1, <1>2 DEF Workforce
<1>6. \A v \in AllWorkers : Told(v)' <=> Told(v) \/ v = w BY <1>1 DEF Told, Workforce
<1>7. ws \subseteq AllWorkers /\ IsFiniteSet(ws) BY Sizes DEF AllWorkers
<1>8. Untold(ws)' = Untold(ws) \ {w} BY <1>6, <1>7 DEF Untold
<1>9. w \in Untold(ws) BY <1>1 DEF Untold, Told
<1>10. Cardinality(Untold(ws)') = Cardinality(Untold(ws)) - 1
  BY <1>7, <1>8, <1>9, UntoldSize, FS_RemoveElement
<1>11. LogWorkers \cap ExportWorkers = {} BY DEF LogWorkers, ExportWorkers
<1>12. Stages'
  <2>1. CASE main = "stopLogWorkers" /\ ws = LogWorkers
    <3>1. \A v \in ExportWorkers : ~Told(v)'
      BY <2>1, <1>1, <1>6, <1>11 DEF Workforce, Stages, AllWorkers
    <3>2. tokens' = Cardinality(Untold(LogWorkers)')
      BY <2>1, <1>1, <1>10 DEF Workforce, Stages
    <3> QED BY <2>1, <1>1, <3>1, <3>2 DEF Stages
  <2>2. CASE main = "stopExportWorkers" /\ ws = ExportWorkers
    <3>1. \A v \in LogWorkers : Told(v)'
      BY <2>2, <1>6 DEF Workforce, Stages, AllWorkers
    <3>2. tokens' = Cardinality(Untold(ExportWorkers)')
      BY <2>2, <1>1, <1>10 DEF Workforce, Stages
    <3> QED BY <2>2, <1>1, <3>1, <3>2 DEF Stages
  <2> QED BY <2>1, <2>2
<1> QED BY <1>1, <1>4, <1>5, <1>12 DEF Workforce

LEMMA WorkforceMain == Workforce /\ MainStep => Workforce'
<1> SUFFICES ASSUME Workforce, MainStep PROVE Workforce' OBVIOUS
<1> USE DEF MainStates, MainOnly
<1>0. /\ LogWorkers \subseteq AllWorkers /\ ExportWorkers \subseteq AllWorkers
      /\ LogWorkers \cap ExportWorkers = {} /\ AllWorkers = LogWorkers \cup ExportWorkers
  BY DEF AllWorkers, LogWorkers, ExportWorkers
<1>1. CASE StartCollector
  <2>1. Stages' BY <1>0, <1>1 DEF StartCollector, Spawn, Stages, Told, Workforce
  <2> QED BY <1>0, <1>1, <2>1, Spawned DEF StartCollector, Workforce, Stages
<1>2. CASE StartExporter
  <2>1. Stages' BY <1>0, <1>2 DEF StartExporter, Spawn, Stages, Told, Workforce
  <2> QED BY <1>0, <1>2, <2>1, Spawned DEF StartExporter, Workforce, Stages
<1>3. CASE StartCollectorFails \/ StartExporterFails \/ Signal
  <2>1. Stages'
    BY <1>3 DEF StartCollectorFails, StartExporterFails, Signal, Stages, Told, Workforce
  <2> QED BY <1>3, <2>1, MainMoves DEF StartCollectorFails, StartExporterFails, Signal, Workforce
<1>4. CASE CallsStopped
  <2>1. Untold(LogWorkers)' = LogWorkers
    BY <1>0, <1>4 DEF CallsStopped, Untold, Told, Workforce, Stages
  <2>2. tokens' = Cardinality(Untold(LogWorkers)') /\ tokens' \in 0..3
    BY <1>4, <2>1, Sizes DEF CallsStopped
  <2>3. Stages' BY <1>0, <1>4, <2>2 DEF CallsStopped, Stages, Told, Workforce
  <2> QED BY <1>4, <2>2, <2>3, MainMoves DEF CallsStopped
<1>5. CASE LogWorkersStopped
  <2>1. Untold(ExportWorkers)' = ExportWorkers
    BY <1>0, <1>5 DEF LogWorkersStopped, Untold, Told, Workforce, Stages
  <2>2. tokens' = Cardinality(Untold(ExportWorkers)') /\ tokens' \in 0..3
    BY <1>5, <2>1, Sizes DEF LogWorkersStopped
  <2>3. Untold(LogWorkers) = {}
    BY <1>5, Sizes, UntoldSize, FS_EmptySet DEF LogWorkersStopped, Workforce, Stages
  <2>4. \A w \in LogWorkers : Told(w)' BY <1>5, <2>3 DEF Untold, Told, LogWorkersStopped
  <2>5. Stages' BY <1>5, <2>2, <2>4 DEF LogWorkersStopped, Stages
  <2> QED BY <1>5, <2>2, <2>5, MainMoves DEF LogWorkersStopped
<1>6. CASE ExportWorkersStopped
  <2>1. Untold(ExportWorkers) = {}
    BY <1>6, Sizes, UntoldSize, FS_EmptySet DEF ExportWorkersStopped, Workforce, Stages
  <2>2. \A w \in AllWorkers : Told(w)'
    BY <1>0, <1>6, <2>1 DEF Untold, Told, ExportWorkersStopped, Workforce, Stages
  <2>3. Stages' BY <1>6, <2>2 DEF ExportWorkersStopped, Stages
  <2> QED BY <1>6, <2>3, MainMoves DEF ExportWorkersStopped, Workforce
<1>7. CASE ClientsStopped \/ Terminate
  <2>1. Stages' BY <1>7 DEF ClientsStopped, Terminate, Stages, Told, Workforce
  <2> QED BY <1>7, <2>1, MainMoves DEF ClientsStopped, Terminate, Workforce
<1>8. ASSUME NEW w \in AllWorkers, StopLogWorker(w) \/ StopExportWorker(w) PROVE Workforce'
  BY <1>8, TokenTaken DEF StopLogWorker, StopExportWorker
<1> QED BY <1>1, <1>2, <1>3, <1>4, <1>5, <1>6, <1>7, <1>8 DEF MainStep

\* The workers that take an item are workers.
LEMMA Destinations ==
  \A c \in Calls : /\ ExportWorker(c) \in ExportWorkers
                   /\ KindOf[c] # "cluster" => Processor(c) \in LogWorkers
BY DEF ExportWorker, Processor, ExportWorkers, LogWorkers

LEMMA WorkforceWorker == Workforce /\ WorkerStep => Workforce'
<1> SUFFICES ASSUME Workforce, WorkerStep PROVE Workforce' OBVIOUS
<1>1. ASSUME NEW w \in AllWorkers, WorkerBegins(w) \/ WorkerEnds(w) PROVE Workforce'
  BY <1>1, WorkerBeginsKeeps, WorkerEndsKeeps
<1>2. ASSUME NEW w \in AllWorkers, QueueLog(w) \/ Dispatch(w) PROVE Workforce'
  BY <1>2, WorkerTurns DEF QueueLog, Dispatch
<1>3. ASSUME NEW c \in Calls, TakeClusterEvent(c) PROVE Workforce'
  <2>1. "exportCluster" \in AllWorkers BY DEF AllWorkers, ExportWorkers
  <2> QED BY <1>3, <2>1, WorkerTurns DEF TakeClusterEvent, Take
<1>4. ASSUME NEW c \in Calls, TakeLog(c) PROVE Workforce'
  <2>1. Processor(c) \in AllWorkers BY <1>4, Destinations DEF TakeLog, AllWorkers
  <2> QED BY <1>4, <2>1, WorkerTurns DEF TakeLog, Take
<1>5. ASSUME NEW c \in Calls, ReceiveLog(c) PROVE Workforce'
  <2>1. ExportWorker(c) \in AllWorkers BY Destinations DEF AllWorkers
  <2> QED BY <1>5, <2>1, WorkerTurns DEF ReceiveLog
<1> QED BY <1>1, <1>2, <1>3, <1>4, <1>5 DEF WorkerStep

LEMMA WorkforceNext == Workforce /\ [Next]_vars => Workforce'
<1> SUFFICES ASSUME Workforce, [Next]_vars PROVE Workforce' OBVIOUS
<1>1. ASSUME UNCHANGED <<main, tokens, worker, waitGroup>> PROVE Workforce'
  <2>1. Stages' BY <1>1 DEF Workforce, Stages, Untold, Told
  <2> QED BY <1>1, <2>1, MainMoves DEF Workforce
<1>2. ASSUME NEW c \in Calls, Arrive(c) PROVE Workforce' BY <1>1, <1>2 DEF Arrive
<1>3. ASSUME NEW x \in Clients, Subscribe(x) PROVE Workforce' BY <1>1, <1>3 DEF Subscribe
<1> QED BY <1>1, <1>2, <1>3, WorkforceMain, WorkforceWorker DEF Next, vars

-----------------------------------------------------------------------------
\* The items.

LEMMA HandoverInit == Init => Handover
<1> SUFFICES ASSUME Init PROVE Handover OBVIOUS
<1>1. Holding BY DEF Init, Holding
<1>2. \A c \in Calls : Places(c) = {} BY DEF Init, Places
<1>3. Placed BY <1>2 DEF Init, Placed
<1> QED BY <1>1, <1>3 DEF Init, Handover, ItemTypeOK, NoClusterQueued

\* An item that does not move stays in its place.
LEMMA PlacesStay ==
  ASSUME NEW c, \A w \in AllWorkers : c \in holds[w] <=> c \in holds'[w],
         c \in queued <=> c \in queued', c \in dispatched <=> c \in dispatched'
  PROVE  Places(c)' = Places(c)
BY DEF Places

\* The workers come and go, but none of them takes an item or puts one down.
LEMMA HandoverFrame ==
  ASSUME Handover, \A w \in AllWorkers : worker'[w] = "busy" <=> worker[w] = "busy",
         UNCHANGED <<holds, call, queued, dispatched>>, subscribed' \subseteq Clients
  PROVE  Handover'
<1>1. ItemTypeOK' /\ Holding' /\ NoClusterQueued'
  BY DEF Handover, ItemTypeOK, Holding, NoClusterQueued, ExportWorker
<1>2. \A c : Places(c)' = Places(c) BY DEF Places
<1>3. Placed' BY <1>2 DEF Handover, Placed
<1> QED BY <1>1, <1>3 DEF Handover

\* Where an item is that a worker holds, or that is queued.
LEMMA HeldPlace ==
  ASSUME Handover, NEW w \in AllWorkers, worker[w] = "busy"
  PROVE  \E c \in Calls : /\ holds[w] = {c} /\ call[c] = "acked" /\ Places(c) = {w}
                          /\ w = ExportWorker(c) \/ KindOf[c] # "cluster"
<1>1. PICK c \in Calls : holds[w] = {c} BY DEF Handover, Holding
<1>2. w \in Places(c) BY <1>1 DEF Places
<1>3. call[c] = "acked" /\ Places(c) = {w} BY <1>2 DEF Handover, Placed
<1> QED BY <1>1, <1>3 DEF Handover, Holding

LEMMA QueuedPlace ==
  ASSUME Handover, NEW c \in queued
  PROVE  c \in Calls /\ call[c] = "acked" /\ Places(c) = {"queue"} /\ KindOf[c] # "cluster"
<1>1. c \in Calls BY DEF Handover, ItemTypeOK
<1>2. "queue" \in Places(c) BY DEF Places
<1> QED BY <1>1, <1>2 DEF Handover, Placed, NoClusterQueued

\* One item moves to a new place, and every other stays.
LEMMA OneMoves ==
  ASSUME Placed, NEW c \in Calls, NEW p \in AllWorkers \cup {"queue", "streams"},
         Places(c)' = {p}, call'[c] = "acked",
         \A d \in Calls \ {c} : call'[d] = call[d] /\ Places(d)' = Places(d)
  PROVE  Placed'
BY DEF Placed

LEMMA TakeKeeps ==
  ASSUME Handover, worker \in [AllWorkers -> WorkerStates],
         NEW w \in AllWorkers, NEW c \in Calls, Take(w, c),
         w = ExportWorker(c) \/ KindOf[c] # "cluster"
  PROVE  Handover'
<1> USE DEF Take
<1>1. holds[w] = {} /\ Places(c) = {} BY DEF Handover, Holding, Placed
<1>2. holds' = [holds EXCEPT ![w] = {c}] /\ holds \in [AllWorkers -> SUBSET Calls]
  BY DEF Handover, ItemTypeOK
<1>3. ItemTypeOK' BY <1>2 DEF Handover, ItemTypeOK
<1>4. Holding' BY <1>2 DEF Handover, Holding, ItemTypeOK, ExportWorker
<1>5. ASSUME NEW d \in Calls \ {c} PROVE call'[d] = call[d] /\ Places(d)' = Places(d)
  <2>1. \A v \in AllWorkers : d \in holds[v] <=> d \in holds'[v] BY <1>1, <1>2
  <2> QED BY <2>1, PlacesStay DEF Handover, ItemTypeOK
<1>6. Places(c)' = {w}
  <2>1. \A v \in AllWorkers : c \in holds'[v] <=> v = w BY <1>1, <1>2 DEF Places
  <2>2. c \notin queued /\ c \notin dispatched BY <1>1 DEF Places
  <2> QED BY <2>1, <2>2 DEF Places
<1>7. call'[c] = "acked" BY DEF Handover, ItemTypeOK
<1>8. Placed' BY <1>5, <1>6, <1>7, OneMoves DEF Handover
<1>9. NoClusterQueued' BY DEF Handover, NoClusterQueued, ItemTypeOK
<1> QED BY <1>3, <1>4, <1>8, <1>9 DEF Handover

\* A worker puts its item down: into the queue, or onto the streams.
LEMMA PutDownKeeps ==
  ASSUME Handover, NEW w \in AllWorkers, worker[w] = "busy",
         worker' = [worker EXCEPT ![w] = "select"], worker \in [AllWorkers -> WorkerStates],
         holds' = [holds EXCEPT ![w] = {}], main' = main, UNCHANGED <<call, subscribed>>,
         \/ w \in LogWorkers /\ queued' = queued \cup holds[w] /\ dispatched' = dispatched
         \/ dispatched' = dispatched \cup holds[w] /\ queued' = queued
  PROVE  Handover'
<1>1. PICK c \in Calls : /\ holds[w] = {c} /\ call[c] = "acked" /\ Places(c) = {w}
                         /\ w = ExportWorker(c) \/ KindOf[c] # "cluster"
  BY HeldPlace
<1>2. holds \in [AllWorkers -> SUBSET Calls] BY DEF Handover, ItemTypeOK
<1>3. ItemTypeOK' BY <1>1, <1>2 DEF Handover, ItemTypeOK
<1>4. Holding' BY <1>2 DEF Handover, Holding, ItemTypeOK, ExportWorker
<1>5. ASSUME NEW d \in Calls \ {c} PROVE call'[d] = call[d] /\ Places(d)' = Places(d)
  <2>1. \A v \in AllWorkers : d \in holds[v] <=> d \in holds'[v] BY <1>1, <1>2
  <2> QED BY <1>1, <2>1, PlacesStay
<1>6. \E p \in {"queue", "streams"} : Places(c)' = {p}
  <2>1. \A v \in AllWorkers : c \notin holds'[v] BY <1>1, <1>2 DEF Places
  <2>2. c \notin queued /\ c \notin dispatched
    <3>1. "queue" \notin AllWorkers /\ "streams" \notin AllWorkers
      BY DEF AllWorkers, LogWorkers, ExportWorkers
    <3> QED BY <1>1, <3>1 DEF Places
  <2> QED BY <1>1, <2>1, <2>2 DEF Places
<1>7. Placed' BY <1>1, <1>5, <1>6, OneMoves DEF Handover
<1>8. NoClusterQueued'
  <2>1. w \in LogWorkers => KindOf[c] # "cluster"
    BY <1>1, Destinations DEF LogWorkers, ExportWorkers
  <2> QED BY <1>1, <2>1 DEF Handover, NoClusterQueued
<1> QED BY <1>3, <1>4, <1>7, <1>8 DEF Handover

LEMMA ReceiveLogKeeps ==
  ASSUME Handover, worker \in [AllWorkers -> WorkerStates], NEW c \in Calls, ReceiveLog(c)
  PROVE  Handover'
<1> DEFINE w == ExportWorker(c)
<1> USE DEF ReceiveLog
<1>1. w \in AllWorkers BY Destinations DEF AllWorkers
<1>2. call[c] = "acked" /\ Places(c) = {"queue"} /\ KindOf[c] # "cluster" BY QueuedPlace
<1>3. holds \in [AllWorkers -> SUBSET Calls] /\ holds[w] = {}
  BY <1>1 DEF Handover, ItemTypeOK, Holding
<1> HIDE DEF w
<1>4. /\ worker' = [worker EXCEPT ![w] = "busy"] /\ holds' = [holds EXCEPT ![w] = {c}]
      /\ queued' = queued \ {c} /\ UNCHANGED <<main, call, dispatched, subscribed>>
  BY DEF w
<1>5. ItemTypeOK' BY <1>1, <1>3, <1>4 DEF Handover, ItemTypeOK
<1>6. Holding' BY <1>1, <1>2, <1>3, <1>4 DEF Handover, Holding, ItemTypeOK, ExportWorker
<1>7. ASSUME NEW d \in Calls \ {c} PROVE call'[d] = call[d] /\ Places(d)' = Places(d)
  <2>1. \A v \in AllWorkers : d \in holds[v] <=> d \in holds'[v] BY <1>1, <1>3, <1>4
  <2> QED BY <1>4, <2>1, PlacesStay
<1>8. Places(c)' = {w}
  <2>1. "queue" \notin AllWorkers /\ "streams" \notin AllWorkers
    BY DEF AllWorkers, LogWorkers, ExportWorkers
  <2>2. (\A v \in AllWorkers : c \notin holds[v]) /\ c \notin dispatched
    BY <1>2, <2>1 DEF Places
  <2>3. \A v \in AllWorkers : c \in holds'[v] <=> v = w BY <1>1, <1>3, <1>4, <2>2
  <2> QED BY <1>1, <1>4, <2>2, <2>3 DEF Places
<1>9. Placed' BY <1>1, <1>2, <1>4, <1>7, <1>8, OneMoves DEF Handover
<1>10. NoClusterQueued' BY <1>4 DEF Handover, NoClusterQueued
<1> QED BY <1>5, <1>6, <1>9, <1>10 DEF Handover

LEMMA HandoverMain == Workforce /\ Handover /\ MainStep => Handover'
<1> SUFFICES ASSUME Workforce, Handover, MainStep PROVE Handover' OBVIOUS
<1> USE DEF MainOnly, Workforce, Handover
<1>1. CASE StartCollector
  <2>1. \A w \in AllWorkers : worker'[w] = "busy" <=> worker[w] = "busy"
    BY <1>1 DEF StartCollector, Spawn, Stages
  <2> QED BY <1>1, <2>1, HandoverFrame DEF StartCollector, ItemTypeOK
<1>2. CASE StartExporter
  <2>1. \A w \in AllWorkers : worker'[w] = "busy" <=> worker[w] = "busy"
    BY <1>2 DEF StartExporter, Spawn, Stages
  <2> QED BY <1>2, <2>1, HandoverFrame DEF StartExporter, ItemTypeOK
<1>3. CASE StartCollectorFails \/ StartExporterFails \/ Signal
  BY <1>3, HandoverFrame DEF StartCollectorFails, StartExporterFails, Signal, ItemTypeOK
<1>4. CASE CallsStopped BY <1>4, HandoverFrame DEF CallsStopped, ItemTypeOK
<1>5. CASE LogWorkersStopped \/ ExportWorkersStopped \/ ClientsStopped \/ Terminate
  BY <1>5, HandoverFrame
     DEF LogWorkersStopped, ExportWorkersStopped, ClientsStopped, Terminate, ItemTypeOK
<1>6. ASSUME NEW w \in AllWorkers, StopLogWorker(w) \/ StopExportWorker(w) PROVE Handover'
  <2>1. \A v \in AllWorkers : worker'[v] = "busy" <=> worker[v] = "busy"
    BY <1>6 DEF StopLogWorker, StopExportWorker, Token
  <2> QED BY <1>6, <2>1, HandoverFrame DEF StopLogWorker, StopExportWorker, Token, ItemTypeOK
<1> QED BY <1>1, <1>2, <1>3, <1>4, <1>5, <1>6 DEF MainStep

LEMMA HandoverWorker == Workforce /\ Handover /\ WorkerStep => Handover'
<1> SUFFICES ASSUME Workforce, Handover, WorkerStep PROVE Handover' OBVIOUS
<1>0. worker \in [AllWorkers -> WorkerStates] BY DEF Workforce
<1>1. ASSUME NEW w \in AllWorkers, WorkerBegins(w) \/ WorkerEnds(w) PROVE Handover'
  <2>1. \A v \in AllWorkers : worker'[v] = "busy" <=> worker[v] = "busy"
    BY <1>0, <1>1 DEF WorkerBegins, WorkerEnds
  <2> QED BY <1>1, <2>1, HandoverFrame DEF WorkerBegins, WorkerEnds, Handover, ItemTypeOK
<1>2. ASSUME NEW w \in AllWorkers, QueueLog(w) PROVE Handover'
  BY <1>0, <1>2, PutDownKeeps DEF QueueLog
<1>3. ASSUME NEW w \in AllWorkers, Dispatch(w) PROVE Handover'
  BY <1>0, <1>3, PutDownKeeps DEF Dispatch
<1>4. ASSUME NEW c \in Calls, TakeClusterEvent(c) PROVE Handover'
  <2>1. "exportCluster" \in AllWorkers BY DEF AllWorkers, ExportWorkers
  <2>2. ExportWorker(c) = "exportCluster" BY <1>4 DEF ExportWorker, TakeClusterEvent
  <2> QED BY <1>0, <1>4, <2>1, <2>2, TakeKeeps DEF TakeClusterEvent
<1>5. ASSUME NEW c \in Calls, TakeLog(c) PROVE Handover'
  <2>1. Processor(c) \in AllWorkers BY <1>5, Destinations DEF TakeLog, AllWorkers
  <2> QED BY <1>0, <1>5, <2>1, TakeKeeps DEF TakeLog
<1>6. ASSUME NEW c \in Calls, ReceiveLog(c) PROVE Handover'
  BY <1>0, <1>6, ReceiveLogKeeps
<1> QED BY <1>1, <1>2, <1>3, <1>4, <1>5, <1>6 DEF WorkerStep

\* A call that arrives has handed nothing over yet.
LEMMA ArriveKeeps == ASSUME Handover, NEW c \in Calls, Arrive(c) PROVE Handover'
<1>1. ItemTypeOK' /\ Holding' /\ NoClusterQueued'
  BY DEF Arrive, Handover, ItemTypeOK, Holding, NoClusterQueued, ExportWorker
<1>2. \A d : Places(d)' = Places(d) BY DEF Places, Arrive
<1>3. Placed' BY <1>2 DEF Handover, Placed, Arrive, ItemTypeOK
<1> QED BY <1>1, <1>3 DEF Handover

LEMMA LifecycleStarts == Init => IInv
BY WorkforceInit, HandoverInit DEF IInv

LEMMA LifecycleSteps == IInv /\ [Next]_vars => IInv'
<1> SUFFICES ASSUME IInv, [Next]_vars PROVE IInv' OBVIOUS
<1>1. Workforce' BY WorkforceNext DEF IInv
<1>2. Handover'
  <2>1. ASSUME UNCHANGED vars PROVE Handover'
    BY <2>1, HandoverFrame DEF vars, IInv, Handover, ItemTypeOK
  <2>2. ASSUME NEW c \in Calls, Arrive(c) PROVE Handover' BY <2>2, ArriveKeeps DEF IInv
  <2>3. ASSUME NEW x \in Clients, Subscribe(x) PROVE Handover'
    BY <2>3, HandoverFrame DEF Subscribe, IInv, Handover, ItemTypeOK
  <2> QED BY <2>1, <2>2, <2>3, HandoverMain, HandoverWorker DEF IInv, Next
<1> QED BY <1>1, <1>2 DEF IInv

(***************************************************************************)
(* Every reachable state of the manager satisfies the inductive invariant: *)
(* stages, tokens, workers and the wait group agree, and every item the    *)
(* handlers have handed over is in one place.                              *)
(***************************************************************************)
THEOREM LifecycleInvariant == Spec => []IInv
BY LifecycleStarts, LifecycleSteps, PTL DEF Spec

\* Every variable of the manager's life cycle keeps its type.
THEOREM LifecycleTypeCorrect == Spec => []TypeOK
<1>1. IInv => TypeOK
  BY BegunSize DEF IInv, Workforce, Handover, ItemTypeOK, TypeOK, WorkerStates,
                   WaitGroupExact, Begun
<1> QED BY <1>1, LifecycleInvariant, PTL

\* The counter main waits for is the number of workers that have begun and not ended.
THEOREM CounterExact == Spec => []WaitGroupExact
<1>1. IInv => WaitGroupExact BY DEF IInv, Workforce
<1> QED BY <1>1, LifecycleInvariant, PTL

\* When the manager reports its end every worker has returned.
THEOREM WaitSound == Spec => []WaitIsSound
<1>1. IInv => WaitIsSound
  <2> SUFFICES ASSUME IInv, main = "terminated", NEW w \in AllWorkers
               PROVE  worker[w] = "done"
    BY DEF WaitIsSound
  <2>1. Cardinality(Begun) = 0 BY DEF IInv, Workforce, Stages, WaitGroupExact, Begun
  <2>2. Begun = {} BY <2>1, BegunSize, FS_EmptySet
  <2> QED BY <2>2 DEF IInv, Workforce, Stages, Told, Begun
<1> QED BY <1>1, LifecycleInvariant, PTL

\* An item handed over is in one place, and the workers that have gone hold none.
THEOREM ItemsKeptOnce == Spec => []KeptOnce
<1>1. IInv => KeptOnce
  <2> SUFFICES ASSUME IInv, NEW c \in Calls
               PROVE  /\ call[c] = "acked" <=>
                            \E p \in AllWorkers \cup {"queue", "streams"} : Places(c) = {p}
                      /\ call[c] # "acked" => Places(c) = {}
                      /\ main \in {"stopClients", "wait", "terminated"} =>
                            Places(c) \cap AllWorkers = {}
    BY DEF KeptOnce
  <2>1. Placed BY DEF IInv, Handover
  <2>2. ASSUME main \in {"stopClients", "wait", "terminated"}, NEW w \in AllWorkers
        PROVE  w \notin Places(c)
    <3>1. holds[w] = {}
      BY <2>2 DEF IInv, Workforce, Stages, Told, Handover, Holding
    <3>2. w # "queue" /\ w # "streams" BY DEF AllWorkers, LogWorkers, ExportWorkers
    <3> QED BY <3>1, <3>2 DEF Places
  <2> QED BY <2>1, <2>2 DEF Placed
<1> QED BY <1>1, LifecycleInvariant, PTL

\* No acknowledged cluster event is lost by the shutdown.
THEOREM AckedDispatched == Spec => []AckedIsDispatched
<1>1. IInv => AckedIsDispatched
  <2> SUFFICES ASSUME IInv, main \in {"stopClients", "wait", "terminated"},
                      NEW c \in Calls, KindOf[c] = "cluster", call[c] = "acked"
               PROVE  c \in dispatched
    BY DEF AckedIsDispatched
  <2>1. PICK p : p \in Places(c) BY DEF IInv, Handover, Placed
  <2>2. \A w \in AllWorkers : holds[w] = {}
    BY DEF IInv, Workforce, Stages, Told, Handover, Holding
  <2>3. c \notin queued BY DEF IInv, Handover, NoClusterQueued
  <2> QED BY <2>1, <2>2, <2>3 DEF Places
<1> QED BY <1>1, LifecycleInvariant, PTL

-----------------------------------------------------------------------------
(***************************************************************************)
(* Why the manager ends when it is told to.  TLC checks ShutdownEnds on a  *)
(* small instance; for every instance, what follows proves the parts of    *)
(* that argument that are about states and steps: every step uses up some  *)
(* of a finite amount of work (Ahead), and until the end some goroutine    *)
(* can go on (CanGoOn), but for the two hangs, which last for ever.        *)
(***************************************************************************)

\* How far the main goroutine is.
Stage(m) ==
    CASE m = "startCollector" -> 0 [] m = "startExporter" -> 1 [] m = "running" -> 2
      [] m = "stopCalls" -> 3 [] m = "stopLogWorkers" -> 4 [] m = "stopExportWorkers" -> 5
      [] m = "stopClients" -> 6 [] m = "wait" -> 7 [] OTHER -> 8

HeldBy(ws, c) == \E w \in ws : c \in holds[w]

\* The steps that are still to come of main, a worker, a call and a client.
Undone(x, step) ==
    \/ step = "main" /\ x \in 1..8 /\ x > Stage(main)
    \/ step = "begin" /\ x \in AllWorkers /\ worker[x] \in {"unborn", "spawned"}
    \/ step = "token" /\ x \in AllWorkers /\ ~Told(x)
    \/ step = "end" /\ x \in AllWorkers /\ worker[x] # "done"
    \/ step = "arrive" /\ x \in Calls /\ call[x] = "none"
    \/ step = "take" /\ x \in Calls /\ call[x] # "acked"
    \/ step = "queue" /\ x \in Calls /\ (call[x] # "acked" \/ HeldBy(LogWorkers, x))
    \/ step = "export" /\ x \in Calls \ dispatched /\ ~HeldBy(ExportWorkers, x)
    \/ step = "dispatch" /\ x \in Calls \ dispatched
    \/ step = "subscribe" /\ x \in Clients \ subscribed

Work == ((1..8) \cup AllWorkers \cup Calls \cup Clients)
            \X {"main", "begin", "token", "end", "arrive", "take", "queue", "export",
                "dispatch", "subscribe"}

Ahead == {a \in Work : Undone(a[1], a[2])}

NoMore == \A x, step : Undone(x, step)' => Undone(x, step)

\* A step that is done leaves less ahead.
LEMMA DoneIsLess ==
  ASSUME NoMore, NEW x, NEW step, Undone(x, step), ~Undone(x, step)'
  PROVE  Ahead' \subseteq Ahead /\ Ahead' # Ahead
<1>1. Ahead' \subseteq Ahead BY DEF NoMore, Ahead
<1>2. <<x, step>> \in Work
  <2>1. x \in (1..8) \cup AllWorkers \cup Calls \cup Clients BY DEF Undone
  <2>2. step \in {"main", "begin", "token", "end", "arrive", "take", "queue", "export",
                  "dispatch", "subscribe"}
    BY DEF Undone
  <2> QED BY <2>1, <2>2 DEF Work
<1>3. <<x, step>> \in Ahead /\ <<x, step>> \notin Ahead' BY <1>2 DEF Ahead
<1> QED BY <1>1, <1>3

Less == Ahead' \subseteq Ahead /\ Ahead' # Ahead

\* Main goes on, and workers may be spawned or told.
LEMMA MainIsLess ==
  ASSUME NEW k \in 1..8, k > Stage(main), k <= Stage(main'), Stage(main) \in 0..8,
         Stage(main') \in 0..8,
         \A w \in AllWorkers : \/ worker'[w] = worker[w]
                               \/ worker[w] = "unborn" /\ worker'[w] = "spawned",
         UNCHANGED <<holds, call, dispatched, subscribed>>
  PROVE  Less
<1>1. \A j \in 1..8 : j > Stage(main') => j > Stage(main) OBVIOUS
<1>2. \A c : HeldBy(LogWorkers, c)' <=> HeldBy(LogWorkers, c) BY DEF HeldBy
<1>3. \A c : HeldBy(ExportWorkers, c)' <=> HeldBy(ExportWorkers, c) BY DEF HeldBy
<1>4. \A w \in AllWorkers : Told(w)' <=> Told(w) BY DEF Told
<1>5. NoMore BY <1>1, <1>2, <1>3, <1>4 DEF NoMore, Undone
<1>6. Undone(k, "main") /\ ~Undone(k, "main")' BY DEF Undone
<1> QED BY <1>5, <1>6, DoneIsLess DEF Less

\* A worker goes on and leaves main and the items alone.
LEMMA WorkerIsLess ==
  ASSUME worker \in [AllWorkers -> WorkerStates], NEW w \in AllWorkers,
         NEW s \in {"select", "exiting", "done"}, worker' = [worker EXCEPT ![w] = s],
         \/ worker[w] = "spawned" /\ s = "select"
         \/ worker[w] = "select" /\ s = "exiting"
         \/ worker[w] = "exiting" /\ s = "done",
         UNCHANGED <<main, holds, call, dispatched, subscribed>>
  PROVE  Less
<1>1. \A v \in AllWorkers : v # w => worker'[v] = worker[v] OBVIOUS
<1>2. worker'[w] = s OBVIOUS
<1>3. \A c : /\ HeldBy(LogWorkers, c)' <=> HeldBy(LogWorkers, c)
             /\ HeldBy(ExportWorkers, c)' <=> HeldBy(ExportWorkers, c)
  BY DEF HeldBy
<1>4. NoMore BY <1>1, <1>2, <1>3 DEF NoMore, Undone, Told
<1>5. CASE s = "select"
  <2>1. Undone(w, "begin") /\ ~Undone(w, "begin")' BY <1>2, <1>5 DEF Undone
  <2> QED BY <1>4, <2>1, DoneIsLess DEF Less
<1>6. CASE s = "exiting"
  <2>1. Undone(w, "token") /\ ~Undone(w, "token")' BY <1>2, <1>6 DEF Undone, Told
  <2> QED BY <1>4, <2>1, DoneIsLess DEF Less
<1>7. CASE s = "done"
  <2>1. Undone(w, "end") /\ ~Undone(w, "end")' BY <1>2, <1>7 DEF Undone
  <2> QED BY <1>4, <2>1, DoneIsLess DEF Less
<1> QED BY <1>5, <1>6, <1>7

LEMMA MainStepIsLess == IInv /\ MainStep => Less
<1> SUFFICES ASSUME IInv, MainStep PROVE Less OBVIOUS
<1> USE DEF MainOnly
<1>1. CASE StartCollector \/ StartExporter
  <2>1. \A w \in AllWorkers : \/ worker'[w] = worker[w]
                              \/ worker[w] = "unborn" /\ worker'[w] = "spawned"
    BY <1>1 DEF StartCollector, StartExporter, Spawn, IInv, Workforce, Stages, AllWorkers
  <2>2. CASE StartCollector BY <2>1, <2>2, MainIsLess DEF StartCollector, Stage
  <2>3. CASE StartExporter BY <2>1, <2>3, MainIsLess DEF StartExporter, Stage
  <2> QED BY <1>1, <2>2, <2>3
<1>2. CASE StartCollectorFails BY <1>2, MainIsLess DEF StartCollectorFails, Stage
<1>3. CASE StartExporterFails BY <1>3, MainIsLess DEF StartExporterFails, Stage
<1>4. CASE Signal BY <1>4, MainIsLess DEF Signal, Stage
<1>5. CASE CallsStopped BY <1>5, MainIsLess DEF CallsStopped, Stage
<1>6. CASE LogWorkersStopped BY <1>6, MainIsLess DEF LogWorkersStopped, Stage
<1>7. CASE ExportWorkersStopped BY <1>7, MainIsLess DEF ExportWorkersStopped, Stage
<1>8. CASE ClientsStopped BY <1>8, MainIsLess DEF ClientsStopped, Stage
<1>9. CASE Terminate BY <1>9, MainIsLess DEF Terminate, Stage
<1>10. ASSUME NEW w \in AllWorkers, StopLogWorker(w) \/ StopExportWorker(w) PROVE Less
  <2>1. /\ worker' = [worker EXCEPT ![w] = "exiting"] /\ worker[w] = "select"
        /\ UNCHANGED <<main, holds, call, dispatched, subscribed>>
    BY <1>10 DEF StopLogWorker, StopExportWorker, Token
  <2> QED BY <2>1, WorkerIsLess DEF IInv, Workforce
<1> QED BY <1>1, <1>2, <1>3, <1>4, <1>5, <1>6, <1>7, <1>8, <1>9, <1>10 DEF MainStep

\* A worker in its select and one with an item are the same to main.
LEMMA TurnIsNoMore ==
  ASSUME worker \in [AllWorkers -> WorkerStates], NEW w \in AllWorkers,
         NEW s \in {"select", "busy"}, worker[w] \in {"select", "busy"},
         worker' = [worker EXCEPT ![w] = s], UNCHANGED <<main, subscribed>>,
         \A c \in Calls : /\ call'[c] = "none" => call[c] = "none"
                          /\ call'[c] # "acked" => call[c] # "acked"
                          /\ HeldBy(LogWorkers, c)' =>
                                HeldBy(LogWorkers, c) \/ call[c] # "acked"
                          /\ HeldBy(ExportWorkers, c) /\ c \notin dispatched' =>
                                HeldBy(ExportWorkers, c)',
         dispatched \subseteq dispatched'
  PROVE  NoMore
<1>1. \A v \in AllWorkers : v # w => worker'[v] = worker[v] OBVIOUS
<1>2. worker'[w] = s OBVIOUS
<1> QED BY <1>1, <1>2 DEF NoMore, Undone, Told

LEMMA TakeIsLess ==
  ASSUME IInv, NEW w \in AllWorkers, NEW c \in Calls, Take(w, c)
  PROVE  Less
<1> USE DEF Take
<1>1. /\ holds \in [AllWorkers -> SUBSET Calls] /\ holds[w] = {}
      /\ call \in [Calls -> {"none", "serving", "acked"}] /\ call[c] = "serving"
      /\ call' = [call EXCEPT ![c] = "acked"] /\ holds' = [holds EXCEPT ![w] = {c}]
  BY DEF IInv, Handover, ItemTypeOK, Holding
<1>2. \A v \in AllWorkers : holds[v] \subseteq holds'[v] /\ holds'[v] \subseteq holds[v] \cup {c}
  BY <1>1
<1>3. LogWorkers \subseteq AllWorkers /\ ExportWorkers \subseteq AllWorkers BY DEF AllWorkers
<1>4. NoMore
  <2>1. \A d \in Calls : /\ HeldBy(LogWorkers, d)' => HeldBy(LogWorkers, d) \/ d = c
                         /\ HeldBy(ExportWorkers, d) => HeldBy(ExportWorkers, d)'
    BY <1>2, <1>3 DEF HeldBy
  <2> QED BY <1>1, <2>1, TurnIsNoMore DEF IInv, Workforce
<1>5. Undone(c, "take") /\ ~Undone(c, "take")' BY <1>1 DEF Undone
<1> QED BY <1>4, <1>5, DoneIsLess DEF Less

\* A worker puts its item down, in a goroutine of its own or on the streams.
LEMMA PutDownIsLess ==
  ASSUME IInv, NEW w \in AllWorkers, QueueLog(w) \/ Dispatch(w)
  PROVE  Less
<1>1. /\ worker[w] = "busy" /\ worker' = [worker EXCEPT ![w] = "select"]
      /\ holds' = [holds EXCEPT ![w] = {}] /\ UNCHANGED <<main, call, subscribed>>
      /\ \/ w \in LogWorkers /\ dispatched' = dispatched
         \/ w \in ExportWorkers /\ dispatched' = dispatched \cup holds[w]
  BY DEF QueueLog, Dispatch
<1>2. PICK c \in Calls : holds[w] = {c} /\ call[c] = "acked" /\ Places(c) = {w}
  BY <1>1, HeldPlace DEF IInv
<1>3. holds \in [AllWorkers -> SUBSET Calls] BY DEF IInv, Handover, ItemTypeOK
<1>4. /\ LogWorkers \subseteq AllWorkers /\ ExportWorkers \subseteq AllWorkers
      /\ LogWorkers \cap ExportWorkers = {} /\ "streams" \notin AllWorkers
  BY DEF AllWorkers, LogWorkers, ExportWorkers
<1>5. \A v \in AllWorkers : c \notin holds'[v]
  <2>1. \A v \in AllWorkers : c \in holds[v] => v = w BY <1>2 DEF Places
  <2> QED BY <1>1, <1>3, <2>1
<1>6. \A v \in AllWorkers : /\ holds'[v] \subseteq holds[v]
                            /\ v # w => holds'[v] = holds[v]
  BY <1>1, <1>3
<1>7. NoMore
  <2>1. \A d \in Calls : HeldBy(LogWorkers, d)' => HeldBy(LogWorkers, d)
    BY <1>4, <1>6 DEF HeldBy
  <2>2. ASSUME NEW d \in Calls, HeldBy(ExportWorkers, d), d \notin dispatched'
        PROVE  HeldBy(ExportWorkers, d)'
    BY <1>1, <1>4, <1>6, <2>2 DEF HeldBy
  <2> QED BY <1>1, <2>1, <2>2, TurnIsNoMore DEF IInv, Workforce
<1>8. CASE w \in LogWorkers
  <2>1. HeldBy(LogWorkers, c) /\ ~HeldBy(LogWorkers, c)' BY <1>2, <1>4, <1>5, <1>8 DEF HeldBy
  <2>2. Undone(c, "queue") /\ ~Undone(c, "queue")' BY <1>1, <1>2, <2>1 DEF Undone
  <2> QED BY <1>7, <2>2, DoneIsLess DEF Less
<1>9. CASE w \in ExportWorkers
  <2>1. c \notin dispatched /\ c \in dispatched'
    BY <1>1, <1>2, <1>4, <1>9 DEF Places
  <2>2. Undone(c, "dispatch") /\ ~Undone(c, "dispatch")' BY <2>1 DEF Undone
  <2> QED BY <1>7, <2>2, DoneIsLess DEF Less
<1> QED BY <1>1, <1>8, <1>9

LEMMA ReceiveIsLess ==
  ASSUME IInv, NEW c \in Calls, ReceiveLog(c)
  PROVE  Less
<1> DEFINE w == ExportWorker(c)
<1>1. /\ w \in ExportWorkers /\ worker[w] = "select" /\ c \in queued
      /\ worker' = [worker EXCEPT ![w] = "busy"] /\ holds' = [holds EXCEPT ![w] = {c}]
      /\ UNCHANGED <<main, call, dispatched, subscribed>>
  BY Destinations DEF ReceiveLog
<1> HIDE DEF w
<1>2. /\ LogWorkers \subseteq AllWorkers /\ ExportWorkers \subseteq AllWorkers
      /\ LogWorkers \cap ExportWorkers = {}
      /\ "queue" \notin AllWorkers /\ "queue" # "streams"
  BY DEF AllWorkers, LogWorkers, ExportWorkers
<1>3. holds \in [AllWorkers -> SUBSET Calls] /\ holds[w] = {}
  BY <1>1, <1>2 DEF IInv, Handover, ItemTypeOK, Holding
<1>4. Places(c) = {"queue"} BY <1>1, QueuedPlace DEF IInv
<1>5. (\A v \in AllWorkers : c \notin holds[v]) /\ c \notin dispatched
  BY <1>2, <1>4 DEF Places
<1>6. \A v \in AllWorkers : /\ holds[v] \subseteq holds'[v]
                            /\ v # w => holds'[v] = holds[v]
  BY <1>1, <1>3
<1>7. c \in holds'[w] BY <1>1, <1>2, <1>3
<1>8. NoMore
  <2>1. \A d \in Calls : /\ HeldBy(LogWorkers, d)' => HeldBy(LogWorkers, d)
                         /\ HeldBy(ExportWorkers, d) => HeldBy(ExportWorkers, d)'
    BY <1>1, <1>2, <1>6 DEF HeldBy
  <2> QED BY <1>1, <1>2, <2>1, TurnIsNoMore DEF IInv, Workforce
<1>9. HeldBy(ExportWorkers, c)' /\ ~HeldBy(ExportWorkers, c) BY <1>1, <1>2, <1>5, <1>7 DEF HeldBy
<1>10. Undone(c, "export") /\ ~Undone(c, "export")' BY <1>5, <1>9 DEF Undone
<1> QED BY <1>8, <1>10, DoneIsLess DEF Less

\* A call arrives, or a client subscribes.
LEMMA ArrivalIsLess ==
  ASSUME IInv, (\E c \in Calls : Arrive(c)) \/ (\E x \in Clients : Subscribe(x))
  PROVE  Less
<1>1. ASSUME NEW c \in Calls, Arrive(c) PROVE Less
  <2>1. /\ call \in [Calls -> {"none", "serving", "acked"}] /\ call[c] = "none"
        /\ call' = [call EXCEPT ![c] = "serving"]
        /\ UNCHANGED <<main, worker, holds, dispatched, subscribed>>
    BY <1>1 DEF Arrive, IInv, Handover, ItemTypeOK
  <2>2. \A d \in Calls : d # c => call'[d] = call[d] BY <2>1
  <2>3. NoMore BY <2>1, <2>2 DEF NoMore, Undone, Told, HeldBy
  <2>4. Undone(c, "arrive") /\ ~Undone(c, "arrive")' BY <2>1 DEF Undone
  <2> QED BY <2>3, <2>4, DoneIsLess DEF Less
<1>2. ASSUME NEW x \in Clients, Subscribe(x) PROVE Less
  <2>1. /\ x \notin subscribed /\ subscribed' = subscribed \cup {x}
        /\ UNCHANGED <<main, worker, holds, call, dispatched>>
    BY <1>2 DEF Subscribe
  <2>2. NoMore BY <2>1 DEF NoMore, Undone, Told, HeldBy
  <2>3. Undone(x, "subscribe") /\ ~Undone(x, "subscribe")' BY <2>1 DEF Undone
  <2> QED BY <2>2, <2>3, DoneIsLess DEF Less
<1> QED BY <1>1, <1>2

LEMMA StepIsLess == IInv /\ Next => Less
<1> SUFFICES ASSUME IInv, Next PROVE Less OBVIOUS
<1>1. CASE WorkerStep
  <2>1. ASSUME NEW w \in AllWorkers, WorkerBegins(w) \/ WorkerEnds(w) PROVE Less
    BY <2>1, WorkerIsLess DEF WorkerBegins, WorkerEnds, IInv, Workforce
  <2>2. ASSUME NEW c \in Calls, TakeClusterEvent(c) \/ TakeLog(c) PROVE Less
    <3>1. "exportCluster" \in AllWorkers /\ Processor(c) \in AllWorkers
      BY DEF AllWorkers, ExportWorkers, LogWorkers, Processor
    <3> QED BY <2>2, <3>1, TakeIsLess DEF TakeClusterEvent, TakeLog
  <2> QED BY <1>1, <2>1, <2>2, PutDownIsLess, ReceiveIsLess DEF WorkerStep
<1> QED BY <1>1, MainStepIsLess, ArrivalIsLess DEF Next

LEMMA WorkIsFinite ==
  ASSUME IsFiniteSet(Calls), IsFiniteSet(Clients)
  PROVE  IsFiniteSet(Ahead) /\ Cardinality(Ahead) \in Nat
<1> DEFINE Steps == {"main", "begin", "token", "end", "arrive", "take", "queue", "export",
                     "dispatch", "subscribe"}
<1>1. IsFiniteSet({}) /\ \A S, x : IsFiniteSet(S) => IsFiniteSet(S \cup {x})
  <2>1. ASSUME NEW S, NEW x, IsFiniteSet(S) PROVE IsFiniteSet(S \cup {x})
    BY <2>1, FS_AddElement
  <2> QED BY <2>1, FS_EmptySet
<1>2. IsFiniteSet(Steps)
  <2> DEFINE S1 == {} \cup {"main"}     S2 == S1 \cup {"begin"}    S3 == S2 \cup {"token"}
             S4 == S3 \cup {"end"}      S5 == S4 \cup {"arrive"}   S6 == S5 \cup {"take"}
             S7 == S6 \cup {"queue"}    S8 == S7 \cup {"export"}   S9 == S8 \cup {"dispatch"}
  <2>1. Steps = S9 \cup {"subscribe"} OBVIOUS
  <2>2. IsFiniteSet(S1) BY <1>1
  <2>3. IsFiniteSet(S2) BY <1>1, <2>2
  <2>4. IsFiniteSet(S3) BY <1>1, <2>3
  <2>5. IsFiniteSet(S4) BY <1>1, <2>4
  <2>6. IsFiniteSet(S5) BY <1>1, <2>5
  <2>7. IsFiniteSet(S6) BY <1>1, <2>6
  <2>8. IsFiniteSet(S7) BY <1>1, <2>7
  <2>9. IsFiniteSet(S8) BY <1>1, <2>8
  <2>10. IsFiniteSet(S9) BY <1>1, <2>9
  <2> HIDE DEF S9, Steps
  <2> QED BY <1>1, <2>1, <2>10
<1>3. IsFiniteSet(1..8)
  <2>1. ASSUME NEW a \in Int, NEW b \in Int PROVE IsFiniteSet(a..b) BY FS_Interval, Zenon
  <2>2. 1 \in Int /\ 8 \in Int OBVIOUS
  <2> QED BY <2>1, <2>2, Zenon
<1>4. IsFiniteSet((1..8) \cup AllWorkers) BY <1>3, Sizes, FS_Union
<1>5. IsFiniteSet((1..8) \cup AllWorkers \cup Calls) BY <1>4, FS_Union
<1>6. IsFiniteSet((1..8) \cup AllWorkers \cup Calls \cup Clients) BY <1>5, FS_Union
<1> HIDE DEF Steps
<1>7. IsFiniteSet(((1..8) \cup AllWorkers \cup Calls \cup Clients) \X Steps)
  BY <1>2, <1>6, FS_Product
<1>8. Ahead \in SUBSET (((1..8) \cup AllWorkers \cup Calls \cup Clients) \X Steps)
  BY DEF Ahead, Work, Steps
<1> QED BY <1>7, <1>8, FS_Subset, FS_CardinalityType

LEMMA LessAhead ==
  ASSUME IsFiniteSet(Calls), IsFiniteSet(Clients), IInv, Next
  PROVE  /\ Cardinality(Ahead) \in Nat /\ Cardinality(Ahead') \in Nat
         /\ Cardinality(Ahead') < Cardinality(Ahead)
<1>1. Ahead' \in SUBSET Ahead /\ Ahead' # Ahead BY StepIsLess DEF Less
<1>2. IsFiniteSet(Ahead) /\ Cardinality(Ahead) \in Nat BY WorkIsFinite
<1>3. /\ IsFiniteSet(Ahead') /\ Cardinality(Ahead') <= Cardinality(Ahead)
      /\ Cardinality(Ahead) # Cardinality(Ahead')
  BY <1>1, <1>2, FS_Subset
<1>4. Cardinality(Ahead') \in Nat BY <1>3, FS_CardinalityType
<1> QED BY <1>2, <1>3, <1>4

(***************************************************************************)
(* With finitely many calls and clients the manager takes finitely many    *)
(* steps: each one leaves less ahead, so nothing in it goes round in       *)
(* circles, and a stop that does not end has got stuck.                    *)
(***************************************************************************)
THEOREM EveryStepIsProgress ==
  ASSUME IsFiniteSet(Calls), IsFiniteSet(Clients)
  PROVE  Spec => [][Cardinality(Ahead') < Cardinality(Ahead)]_vars
<1>1. IInv /\ [Next]_vars => [Cardinality(Ahead') < Cardinality(Ahead)]_vars BY LessAhead
<1> QED BY <1>1, LifecycleInvariant, PTL DEF Spec

\* When the steps that Spec is fair to are possible: of main, of a worker and
\* of a handler that has an item.
CanStart == main \in {"startCollector", "startExporter"}

CanStop ==
    \/ main = "stopCalls" /\ \A c \in Calls : call[c] # "serving"
    \/ main \in {"stopLogWorkers", "stopExportWorkers"} /\ tokens = 0
    \/ main = "stopClients" /\ subscribed = {}
    \/ main = "wait" /\ waitGroup = 0

CanTakeToken(w) ==
    /\ tokens > 0 /\ worker[w] = "select"
    /\ \/ main = "stopLogWorkers" /\ w \in LogWorkers
       \/ main = "stopExportWorkers" /\ w \in ExportWorkers

CanWork(w) == Alive /\ worker[w] \in {"spawned", "busy", "exiting"}

CanHandOver(c) ==
    /\ Alive
    /\ call[c] = "serving"
    /\ worker[IF KindOf[c] = "cluster" THEN "exportCluster" ELSE Processor(c)] = "select"

CanGoOn ==
    \/ CanStart \/ CanStop
    \/ \E w \in AllWorkers : CanTakeToken(w) \/ CanWork(w)
    \/ \E c \in Calls : CanHandOver(c)

\* The log workers are there as soon as calls can arrive, the export workers
\* all or none.
Staffed ==
    /\ main \notin {"startCollector", "panicked"} => \A w \in LogWorkers : worker[w] # "unborn"
    /\ main = "running" => \A w \in ExportWorkers : worker[w] # "unborn"
    /\ \A v, w \in ExportWorkers : worker[v] = "unborn" => worker[w] = "unborn"

LEMMA StaffedSteps == IInv /\ Staffed /\ [Next]_vars => Staffed'
<1> SUFFICES ASSUME IInv, Staffed, [Next]_vars PROVE Staffed' OBVIOUS
<1>0. /\ LogWorkers \subseteq AllWorkers /\ ExportWorkers \subseteq AllWorkers
      /\ LogWorkers \cap ExportWorkers = {} /\ worker \in [AllWorkers -> WorkerStates]
  BY DEF AllWorkers, LogWorkers, ExportWorkers, IInv, Workforce
<1>1. ASSUME \A w \in AllWorkers : worker'[w] = "unborn" <=> worker[w] = "unborn",
             main' = "running" => main = "running",
             main = "startCollector" => main' \in {"startCollector", "panicked"},
             main = "panicked" => main' = "panicked"
      PROVE  Staffed'
  BY <1>0, <1>1 DEF Staffed
<1> USE DEF MainOnly
<1>2. CASE StartCollector
  <2>1. /\ main' = "startExporter" /\ \A w \in LogWorkers : worker'[w] = "spawned"
        /\ \A w \in ExportWorkers : worker'[w] = worker[w]
    BY <1>0, <1>2 DEF StartCollector, Spawn
  <2> QED BY <2>1 DEF Staffed
<1>3. CASE StartExporter
  <2>1. /\ main = "startExporter" /\ main' = "running"
        /\ \A w \in ExportWorkers : worker'[w] = "spawned"
        /\ \A w \in LogWorkers : worker'[w] = worker[w]
    BY <1>0, <1>3 DEF StartExporter, Spawn
  <2> QED BY <2>1 DEF Staffed
<1>4. CASE \/ StartCollectorFails \/ StartExporterFails \/ Signal \/ CallsStopped
           \/ LogWorkersStopped \/ ExportWorkersStopped \/ ClientsStopped \/ Terminate
  BY <1>1, <1>4 DEF StartCollectorFails, StartExporterFails, Signal, CallsStopped,
                    LogWorkersStopped, ExportWorkersStopped, ClientsStopped, Terminate
<1>5. ASSUME NEW w \in AllWorkers, NEW s \in WorkerStates \ {"unborn"},
             worker[w] # "unborn", worker' = [worker EXCEPT ![w] = s], main' = main
      PROVE  Staffed'
  <2>1. \A v \in AllWorkers : worker'[v] = "unborn" <=> worker[v] = "unborn" BY <1>0, <1>5
  <2> QED BY <1>1, <1>5, <2>1
<1>6. ASSUME NEW w \in AllWorkers, StopLogWorker(w) \/ StopExportWorker(w) PROVE Staffed'
  BY <1>5, <1>6 DEF StopLogWorker, StopExportWorker, Token, WorkerStates
<1>7. ASSUME NEW w \in AllWorkers,
             WorkerBegins(w) \/ QueueLog(w) \/ Dispatch(w) \/ WorkerEnds(w)
      PROVE  Staffed'
  BY <1>5, <1>7 DEF WorkerBegins, QueueLog, Dispatch, WorkerEnds, WorkerStates
<1>8. ASSUME NEW c \in Calls, TakeClusterEvent(c) \/ TakeLog(c) \/ ReceiveLog(c) PROVE Staffed'
  <2>1. {"exportCluster", Processor(c), ExportWorker(c)} \subseteq AllWorkers
    BY DEF AllWorkers, LogWorkers, ExportWorkers, Processor, ExportWorker
  <2> QED BY <1>5, <1>8, <2>1 DEF TakeClusterEvent, TakeLog, Take, ReceiveLog, WorkerStates
<1>9. ASSUME UNCHANGED <<main, worker>> PROVE Staffed' BY <1>1, <1>9
<1>10. ASSUME NEW c \in Calls, Arrive(c) PROVE Staffed' BY <1>9, <1>10 DEF Arrive
<1>11. ASSUME NEW x \in Clients, Subscribe(x) PROVE Staffed' BY <1>9, <1>11 DEF Subscribe
<1>12. CASE UNCHANGED vars BY <1>9, <1>12 DEF vars
<1>13. MainStep => Staffed' BY <1>2, <1>3, <1>4, <1>6 DEF MainStep
<1>14. WorkerStep => Staffed' BY <1>7, <1>8 DEF WorkerStep
<1> QED BY <1>10, <1>11, <1>12, <1>13, <1>14 DEF Next

LEMMA StaffedStarts == Init => Staffed
BY DEF Init, Staffed, AllWorkers

LEMMA StaffedAlways == Spec => [](IInv /\ Staffed)
BY StaffedStarts, StaffedSteps, LifecycleInvariant, PTL DEF Spec

\* While main has tokens to hand over, a worker of the stage has yet to take one.
LEMMA TokenHasTaker ==
  ASSUME NEW ws \in {LogWorkers, ExportWorkers}, tokens = Cardinality(Untold(ws)), tokens # 0
  PROVE  \E w \in ws : ~Told(w)
<1>1. Untold(ws) # {} BY FS_EmptySet
<1> QED BY <1>1 DEF Untold

LEMMA StoppingCanGoOn ==
  ASSUME IInv, Staffed, Stopping, subscribed = {},
         NEW x \in ExportWorkers, worker[x] # "unborn"
  PROVE  CanGoOn
<1>0. /\ LogWorkers \subseteq AllWorkers /\ ExportWorkers \subseteq AllWorkers
      /\ worker \in [AllWorkers -> WorkerStates] /\ tokens \in 0..3 /\ Stages /\ Alive
  BY DEF AllWorkers, IInv, Workforce, Stopping, Alive
<1>1. \A w \in AllWorkers : worker[w] # "unborn"
  BY DEF Staffed, Stopping, AllWorkers
<1>2. ASSUME NEW w \in AllWorkers, ~Told(w), worker[w] # "select" PROVE CanGoOn
  BY <1>0, <1>1, <1>2 DEF CanGoOn, CanWork, Told, WorkerStates
<1>3. CASE main = "stopCalls"
  <2>1. ASSUME NEW c \in Calls, call[c] = "serving" PROVE CanGoOn
    <3> DEFINE w == IF KindOf[c] = "cluster" THEN "exportCluster" ELSE Processor(c)
    <3>1. w \in AllWorkers BY DEF AllWorkers, LogWorkers, ExportWorkers, Processor
    <3>2. ~Told(w) BY <1>0, <1>3, <3>1 DEF Stages
    <3>3. CASE worker[w] = "select" BY <1>0, <2>1, <3>3 DEF CanGoOn, CanHandOver
    <3> QED BY <1>2, <3>1, <3>2, <3>3
  <2> QED BY <1>3, <2>1 DEF CanGoOn, CanStop
<1>4. CASE main = "stopLogWorkers" /\ tokens # 0
  <2>1. PICK w \in LogWorkers : ~Told(w) BY <1>0, <1>4, TokenHasTaker DEF Stages
  <2> QED BY <1>0, <1>2, <1>4, <2>1 DEF CanGoOn, CanTakeToken
<1>5. CASE main = "stopExportWorkers" /\ tokens # 0
  <2>1. PICK w \in ExportWorkers : ~Told(w) BY <1>0, <1>5, TokenHasTaker DEF Stages
  <2> QED BY <1>0, <1>2, <1>5, <2>1 DEF CanGoOn, CanTakeToken
<1>6. CASE main = "wait"
  <2>1. \A w \in AllWorkers : Told(w) BY <1>0, <1>6 DEF Stages
  <2>2. CASE \E w \in AllWorkers : worker[w] = "exiting" BY <1>0, <2>2 DEF CanGoOn, CanWork
  <2>3. CASE \A w \in AllWorkers : worker[w] = "done"
    <3>1. Begun = {} BY <2>3 DEF Begun
    <3>2. waitGroup = 0 BY <3>1, FS_EmptySet DEF IInv, Workforce, WaitGroupExact, Begun
    <3> QED BY <1>6, <3>2 DEF CanGoOn, CanStop
  <2> QED BY <2>1, <2>2, <2>3 DEF Told
<1> QED BY <1>3, <1>4, <1>5, <1>6 DEF Stopping, CanGoOn, CanStop

(***************************************************************************)
(* A manager that is stopping can always go on: some step of a goroutine   *)
(* is possible that the fairness of Spec grants, unless a client has       *)
(* subscribed or the exporter never started.  With EveryStepIsProgress     *)
(* this is what ShutdownEnds rests on: stopping cannot go round in circles *)
(* and cannot get stuck in any other way than these two.                   *)
(***************************************************************************)
THEOREM StopNeverStuck ==
  Spec => [](Stopping => \/ CanGoOn
                         \/ subscribed # {}
                         \/ \A w \in ExportWorkers : worker[w] = "unborn")
<1>1. IInv /\ Staffed => (Stopping => \/ CanGoOn
                                      \/ subscribed # {}
                                      \/ \A w \in ExportWorkers : worker[w] = "unborn")
  BY StoppingCanGoOn
<1> QED BY <1>1, StaffedAlways, PTL

LEMMA StoppingGoesOn ==
  IInv /\ Stopping /\ [Next]_vars => Stopping' \/ main' = "terminated"
<1> SUFFICES ASSUME IInv, Stopping, [Next]_vars PROVE Stopping' \/ main' = "terminated" OBVIOUS
<1> USE DEF Stopping
<1>1. CASE MainStep
  BY <1>1 DEF MainStep, StartCollector, StartCollectorFails, StartExporter, StartExporterFails,
              Signal, CallsStopped, StopLogWorker, StopExportWorker, Token, LogWorkersStopped,
              ExportWorkersStopped, ClientsStopped, Terminate
<1>2. CASE WorkerStep
  BY <1>2 DEF WorkerStep, WorkerBegins, QueueLog, Dispatch, WorkerEnds, TakeClusterEvent, TakeLog,
              Take, ReceiveLog
<1>3. ASSUME NEW c \in Calls, Arrive(c) PROVE Stopping' BY <1>3 DEF Arrive
<1>4. ASSUME NEW x \in Clients, Subscribe(x) PROVE Stopping' BY <1>4 DEF Subscribe
<1>5. CASE UNCHANGED vars BY <1>5 DEF vars
<1> QED BY <1>1, <1>2, <1>3, <1>4, <1>5 DEF Next

\* The fairness of Spec, with the guard of each action for its ENABLED; the
\* strong fairness is not needed for this, as a state that does not change
\* leaves what is possible possible.
StopFair ==
    <>~CanStop \/ <><<CallsStopped \/ LogWorkersStopped \/ ExportWorkersStopped
                         \/ ClientsStopped \/ Terminate>>_vars
StartFair ==
    <>~CanStart \/ <><<\/ StartCollector \/ StartCollectorFails
                       \/ StartExporter \/ StartExporterFails>>_vars
TokenFair(w) == <>~CanTakeToken(w) \/ <><<StopLogWorker(w) \/ StopExportWorker(w)>>_vars
WorkFair(w) ==
    <>~CanWork(w) \/ <><<WorkerBegins(w) \/ QueueLog(w) \/ Dispatch(w) \/ WorkerEnds(w)>>_vars
CallFair(c) == <>~CanHandOver(c) \/ <><<TakeClusterEvent(c) \/ TakeLog(c)>>_vars

WorkersFair == \A w \in AllWorkers : TokenFair(w) /\ WorkFair(w)
CallsFair == \A c \in Calls : CallFair(c)

Fairness == []StopFair /\ []StartFair /\ []WorkersFair /\ []CallsFair

\* The two ways a stop is held up for good.
Stuck == subscribed # {} \/ \A w \in ExportWorkers : worker[w] = "unborn"

(***************************************************************************)
(* The step of ShutdownEnds, for any finite number of calls and clients:   *)
(* a manager that is stopping with n steps ahead terminates, or is still   *)
(* stopping with fewer than n ahead, unless a client has subscribed or the *)
(* exporter never started.  As n cannot fall for ever, it terminates.      *)
(***************************************************************************)
THEOREM ShutdownComesCloser ==
  ASSUME IsFiniteSet(Calls), IsFiniteSet(Clients), NEW n \in Nat
  PROVE  Init /\ [][Next]_vars /\ Fairness =>
            ((Stopping /\ Cardinality(Ahead) = n)
                ~> (main = "terminated" \/ Stuck \/ (Stopping /\ Cardinality(Ahead) < n)))
<1> DEFINE Inv == IInv /\ Staffed
           As == Cardinality(Ahead) = n
           Lower == Cardinality(Ahead) < n
           H == []Inv /\ [][Next]_vars /\ Fairness
<1>1. Init => Inv BY LifecycleStarts, StaffedStarts
<1>2. Inv /\ [Next]_vars => Inv' BY LifecycleSteps, StaffedSteps
<1>3. Inv /\ As /\ [Next]_vars => Lower' \/ (As' /\ UNCHANGED vars)
  <2>1. UNCHANGED vars => Ahead' = Ahead BY DEF vars, Ahead, Work, Undone, Stage, Told, HeldBy
  <2> QED BY <2>1, LessAhead
<1>4. Inv /\ As /\ As' /\ [Next]_vars => UNCHANGED vars BY LessAhead
<1>5. Inv => (Stopping => CanGoOn \/ Stuck) BY StoppingCanGoOn DEF Stuck
<1>6. Stopping /\ Inv /\ [Next]_vars => Stopping' \/ (main = "terminated")' BY StoppingGoesOn
<1> HIDE DEF Inv, As, Lower
<1>7. ASSUME NEW w \in AllWorkers
      PROVE  H => (As /\ (CanTakeToken(w) \/ CanWork(w)) => <>Lower)
  <2>1. WorkersFair => TokenFair(w) /\ WorkFair(w) BY DEF WorkersFair
  <2>2. Fairness => [](TokenFair(w) /\ WorkFair(w)) BY <2>1, PTL DEF Fairness
  <2>3. Inv /\ As /\ As' /\ [Next]_vars =>
          (CanTakeToken(w) => CanTakeToken(w)') /\ (CanWork(w) => CanWork(w)')
    BY <1>4 DEF vars, CanTakeToken, CanWork, Alive
  <2>4. Inv /\ As /\ [Next]_vars /\ <<StopLogWorker(w) \/ StopExportWorker(w)>>_vars => Lower'
    BY <1>3
  <2>5. Inv /\ As /\ [Next]_vars
           /\ <<WorkerBegins(w) \/ QueueLog(w) \/ Dispatch(w) \/ WorkerEnds(w)>>_vars => Lower'
    BY <1>3
  <2> QED BY <1>3, <2>2, <2>3, <2>4, <2>5, PTL DEF TokenFair, WorkFair
<1>8. ASSUME NEW c \in Calls PROVE H => (As /\ CanHandOver(c) => <>Lower)
  <2>1. CallsFair => CallFair(c) BY DEF CallsFair
  <2>2. Fairness => []CallFair(c) BY <2>1, PTL DEF Fairness
  <2>3. Inv /\ As /\ As' /\ [Next]_vars => (CanHandOver(c) => CanHandOver(c)')
    BY <1>4 DEF vars, CanHandOver, Alive
  <2>4. Inv /\ As /\ [Next]_vars /\ <<TakeClusterEvent(c) \/ TakeLog(c)>>_vars => Lower'
    BY <1>3
  <2> QED BY <1>3, <2>2, <2>3, <2>4, PTL DEF CallFair
<1>9. H => (As /\ (CanStop \/ CanStart) => <>Lower)
  <2>1. Fairness => []StopFair /\ []StartFair BY DEF Fairness
  <2>2. Inv /\ As /\ As' /\ [Next]_vars => (CanStop => CanStop') /\ (CanStart => CanStart')
    BY <1>4 DEF vars, CanStop, CanStart
  <2>3. Inv /\ As /\ [Next]_vars /\ <<CallsStopped \/ LogWorkersStopped \/ ExportWorkersStopped
                                         \/ ClientsStopped \/ Terminate>>_vars => Lower'
    BY <1>3
  <2>4. Inv /\ As /\ [Next]_vars /\ <<\/ StartCollector \/ StartCollectorFails
                                      \/ StartExporter \/ StartExporterFails>>_vars => Lower'
    BY <1>3
  <2> QED BY <1>3, <2>1, <2>2, <2>3, <2>4, PTL DEF StopFair, StartFair
<1>10. H => (As /\ CanGoOn => <>Lower)
  <2> HIDE DEF H
  <2> QED BY <1>7, <1>8, <1>9 DEF CanGoOn
<1>11. Init /\ [][Next]_vars /\ Fairness =>
          ((Stopping /\ As) ~> (main = "terminated" \/ Stuck \/ (Stopping /\ Lower)))
  BY <1>1, <1>2, <1>5, <1>6, <1>10, PTL DEF Fairness
<1> QED BY <1>11 DEF As, Lower

ClientHangs == subscribed # {} => main \notin {"wait", "terminated"}

(***************************************************************************)
(* One subscription ever, and the stop never gets past GracefulStop of the *)
(* exporter's server: main waits for the handler for good.                 *)
(***************************************************************************)
THEOREM SubscribedNeverEnds == Spec => []ClientHangs
<1>1. Init => ClientHangs BY DEF Init, ClientHangs
<1>2. ClientHangs /\ [Next]_vars => ClientHangs'
  <2> SUFFICES ASSUME ClientHangs, [Next]_vars PROVE ClientHangs' OBVIOUS
  <2> USE DEF ClientHangs, MainOnly
  <2>1. CASE MainStep
    BY <2>1 DEF MainStep, StartCollector, StartCollectorFails, StartExporter,
                StartExporterFails, Signal, CallsStopped, StopLogWorker, StopExportWorker,
                Token, LogWorkersStopped, ExportWorkersStopped, ClientsStopped, Terminate
  <2>2. CASE WorkerStep
    BY <2>2 DEF WorkerStep, WorkerBegins, QueueLog, Dispatch, WorkerEnds, TakeClusterEvent,
                TakeLog, Take, ReceiveLog
  <2>3. ASSUME NEW c \in Calls, Arrive(c) PROVE ClientHangs' BY <2>3 DEF Arrive
  <2>4. ASSUME NEW s \in Clients, Subscribe(s) PROVE ClientHangs'
    BY <2>4 DEF Subscribe, ExporterServes, Alive
  <2>5. CASE UNCHANGED vars BY <2>5 DEF vars
  <2> QED BY <2>1, <2>2, <2>3, <2>4, <2>5 DEF Next
<1> QED BY <1>1, <1>2, PTL DEF Spec

NoExporter == main \in {"stopCalls", "stopLogWorkers", "stopExportWorkers"}
                 /\ \A w \in ExportWorkers : worker[w] = "unborn"

(***************************************************************************)
(* When the exporter's port was taken, the manager never ends: no export   *)
(* worker is there to take main's tokens, so main stays before the last    *)
(* stages for good.                                                        *)
(***************************************************************************)
THEOREM FailedStartNeverEnds == Spec => [](NoExporter => [](main # "terminated"))
<1>1. IInv /\ NoExporter /\ [Next]_vars => NoExporter'
  <2> SUFFICES ASSUME IInv, NoExporter, [Next]_vars PROVE NoExporter' OBVIOUS
  <2>0. /\ LogWorkers \subseteq AllWorkers /\ ExportWorkers \subseteq AllWorkers
        /\ worker \in [AllWorkers -> WorkerStates] /\ Stages
    BY DEF AllWorkers, IInv, Workforce
  <2> USE DEF NoExporter, MainOnly
  <2>1. CASE CallsStopped \/ LogWorkersStopped BY <2>1 DEF CallsStopped, LogWorkersStopped
  <2>2. ~ExportWorkersStopped
    <3> SUFFICES ASSUME main = "stopExportWorkers", tokens = 0 PROVE FALSE
      BY DEF ExportWorkersStopped
    <3>1. Untold(ExportWorkers) = ExportWorkers BY DEF Untold, Told
    <3> QED BY <2>0, <3>1, Sizes DEF Stages
  <2>3. ~(StartCollector \/ StartCollectorFails \/ StartExporter \/ StartExporterFails
             \/ Signal \/ ClientsStopped \/ Terminate)
    BY DEF StartCollector, StartCollectorFails, StartExporter, StartExporterFails, Signal,
           ClientsStopped, Terminate
  <2>4. ASSUME NEW w \in AllWorkers, NEW s, worker[w] # "unborn",
               worker' = [worker EXCEPT ![w] = s], main' = main
        PROVE  NoExporter'
    BY <2>0, <2>4
  <2>5. ASSUME NEW w \in AllWorkers, StopLogWorker(w) \/ StopExportWorker(w) PROVE NoExporter'
    BY <2>4, <2>5 DEF StopLogWorker, StopExportWorker, Token
  <2>6. ASSUME NEW w \in AllWorkers,
               WorkerBegins(w) \/ QueueLog(w) \/ Dispatch(w) \/ WorkerEnds(w)
        PROVE  NoExporter'
    BY <2>4, <2>6 DEF WorkerBegins, QueueLog, Dispatch, WorkerEnds
  <2>7. ASSUME NEW c \in Calls, TakeClusterEvent(c) \/ TakeLog(c) \/ ReceiveLog(c)
        PROVE  NoExporter'
    <3>1. {"exportCluster", Processor(c), ExportWorker(c)} \subseteq AllWorkers
      BY DEF AllWorkers, LogWorkers, ExportWorkers, Processor, ExportWorker
    <3> QED BY <2>4, <2>7, <3>1 DEF TakeClusterEvent, TakeLog, Take, ReceiveLog
  <2>8. ASSUME NEW c \in Calls, Arrive(c) PROVE NoExporter' BY <2>8 DEF Arrive
  <2>9. ASSUME NEW s \in Clients, Subscribe(s) PROVE NoExporter' BY <2>9 DEF Subscribe
  <2>10. CASE UNCHANGED vars BY <2>10 DEF vars
  <2>11. MainStep => NoExporter' BY <2>1, <2>2, <2>3, <2>5 DEF MainStep
  <2>12. WorkerStep => NoExporter' BY <2>6, <2>7 DEF WorkerStep
  <2> QED BY <2>8, <2>9, <2>10, <2>11, <2>12 DEF Next
<1>2. NoExporter => main # "terminated" BY DEF NoExporter
<1>3. []IInv /\ [][Next]_vars => [](NoExporter => [](main # "terminated"))
  BY <1>1, <1>2, PTL
<1> QED BY <1>3, LifecycleInvariant, PTL DEF Spec
=============================================================================
