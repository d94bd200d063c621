---------------------------- MODULE AgentLifecycle ----------------------------
(***************************************************************************)
(* Start and stop of the agent (agent/core, with the start and stop        *)
(* functions, handlers and worker loops of collector, processor, uploader  *)
(* and informers).                                                         *)
(*                                                                         *)
(* Agent starts the collector's server, two log processors, three          *)
(* uploaders and the informers, patches the mesh (IstioPatch has the       *)
(* details) and rolls the injection out (InjectionRollout); on a signal,   *)
(* or when one of these fails, DestroyAgent unpatches and stops them.      *)
(* A log or metric goes from a handler through an unbuffered channel to    *)
(* its processor, in a goroutine of its own to its uploader, and in a call *)
(* with a deadline of five seconds to the manager; a cluster event goes    *)
(* from its callback's goroutine to its uploader.                          *)
(* GracefulStop (grpc-go, external) refuses new calls and returns when     *)
(* every handler has returned; Envoy keeps an access log stream open.      *)
(***************************************************************************)
EXTENDS InjectionRollout, FiniteSets

CONSTANTS
    Calls,          \* calls to the collector's server
    Streams,        \* those that are Envoy access log streams
    Items, KindOf,  \* what is uploaded: a "log", a "metric" or an "event"
    Via,            \* the call a log or metric arrives by
    Informers       \* where events come from, in place of a call

ASSUME LifecycleAssumption ==
    /\ Streams \subseteq Calls
    /\ KindOf \in [Items -> {"log", "metric", "event"}]
    /\ Via \in [Items -> Calls \cup {Informers}]
    /\ Informers \notin Calls
    /\ \A i \in Items : KindOf[i] = "event" <=> Via[i] = Informers

VARIABLES
    config,        \* PatchingNamespaces and RestartingPatchedDeployments
    main,          \* where the main goroutine is
    tokens,        \* stop tokens main has still to hand over at this stage
    worker,        \* worker -> state of its goroutine
    waitGroup,     \* the counter main waits for
    call,          \* call -> state of its handler in the collector's server
    at,            \* item -> how far it has come
    mesh,          \* ConfigMap istio: does it name the agent, and since when
    unpatchFailed  \* history: UnpatchIstioConfigMap returned false

itemVars == <<worker, waitGroup, call, at>>
meshVars == <<mesh, unpatchFailed>>
mainVars == <<config, main, tokens>>
vars == <<mainVars, itemVars, meshVars, rolloutVars>>

Processors == {"processAPILogs", "processEnvoyMetrics"}
Uploaders == {"uploadClusterEvent", "uploadAPILogs", "uploadEnvoyMetrics"}
AllWorkers == Processors \cup Uploaders \cup {"informers"}

Processor(i) == IF KindOf[i] = "log" THEN "processAPILogs" ELSE "processEnvoyMetrics"
Uploader(i) == CASE KindOf[i] = "event" -> "uploadClusterEvent"
                 [] KindOf[i] = "log" -> "uploadAPILogs"
                 [] OTHER -> "uploadEnvoyMetrics"

Stages == {"unpatch", "stopCollector", "stopProcessors", "stopUploaders", "wait"}

TypeOK ==
    /\ config \in [namespaces : BOOLEAN, deployments : BOOLEAN]
    /\ main \in {"startCollector", "startProcessors", "startUploaders", "initK8s", "patchIstio",
                 "listNamespaces", "patchNamespaces", "listDeployments", "restartDeployments",
                 "running", "terminated", "panicked"} \cup Stages
    /\ tokens \in 0..3
    /\ worker \in [AllWorkers -> {"unborn", "spawned", "select", "busy", "exiting", "done"}]
    /\ waitGroup \in 0..Cardinality(AllWorkers)
    /\ call \in [Calls -> {"none", "serving", "returned"}]
    /\ at \in [Items -> {"source", "handler", "upload", "call", "sent", "failed"}]
    /\ mesh \in {"unpatched", "inherited", "patched"}
    /\ unpatchFailed \in BOOLEAN
    /\ RolloutTypeOK

Init ==
    /\ config \in [namespaces : BOOLEAN, deployments : BOOLEAN]
    /\ main = "startCollector"
    /\ tokens = 0
    /\ worker = [w \in AllWorkers |-> "unborn"]
    /\ waitGroup = 0
    /\ call = [c \in Calls |-> "none"]
    /\ at = [i \in Items |-> "source"]
    /\ mesh \in {"unpatched", "inherited"}
    /\ unpatchFailed = FALSE
    /\ RolloutInit

-----------------------------------------------------------------------------
\* The main goroutine starts the agent.

Goes(from, to) == main = from /\ main' = to

MainOnly == UNCHANGED <<config, tokens, itemVars, meshVars, rolloutVars>>

Spawn(ws) ==
    /\ worker' = [w \in AllWorkers |-> IF w \in ws THEN "spawned" ELSE worker[w]]
    /\ UNCHANGED <<config, tokens, waitGroup, call, at, meshVars, rolloutVars>>

StartCollector == Goes("startCollector", "startProcessors") /\ MainOnly

StartLogProcessor == Goes("startProcessors", "startUploaders") /\ Spawn(Processors)

StartUploader == Goes("startUploaders", "initK8s") /\ Spawn(Uploaders)

\* wg.Add(1) before its goroutine starts.
RunInformers ==
    /\ worker' = [worker EXCEPT !["informers"] = "select"]
    /\ waitGroup' = waitGroup + 1

InitK8sClient ==
    /\ Goes("initK8s", "patchIstio")
    /\ RunInformers
    /\ UNCHANGED <<config, tokens, call, at, meshVars, rolloutVars>>

\* The port is taken, the manager's address is bad, or there is no cluster.
StartFails ==
    /\ \E stage \in {"startCollector", "startUploaders", "initK8s"} : Goes(stage, "unpatch")
    /\ MainOnly

\* A mesh that names the agent already is left as it is.
PatchIstioConfigMap ==
    /\ Goes("patchIstio", IF config.namespaces THEN "listNamespaces"
                          ELSE IF config.deployments THEN "listDeployments" ELSE "running")
    /\ mesh' = IF mesh = "unpatched" THEN "patched" ELSE mesh
    /\ UNCHANGED <<config, tokens, itemVars, unpatchFailed, rolloutVars>>

PatchFails == Goes("patchIstio", "unpatch") /\ MainOnly

-----------------------------------------------------------------------------
\* The main goroutine rolls the injection out.

RolloutOnly == UNCHANGED <<config, tokens, itemVars, meshVars>>

PatchNamespaces ==
    \/ Goes("listNamespaces", "patchNamespaces") /\ ListNamespaces
    \/ \E n \in Namespaces : Goes("patchNamespaces", "patchNamespaces") /\ UpdateNamespace(n)

NamespacesPatched ==
    /\ Goes("patchNamespaces", IF config.deployments THEN "listDeployments" ELSE "running")
    /\ copies = None
    /\ UNCHANGED rolloutVars

\* Mutant: PatchNamespaces returns true after a failure.
PatchNamespacesGoesOn ==
    \/ Goes("listNamespaces", "unpatch") /\ UNCHANGED rolloutVars
    \/ /\ Goes("patchNamespaces", IF config.deployments THEN "listDeployments" ELSE "running")
       /\ NamespaceRefused

\* Mutant: a failed PatchNamespaces stops the agent without unpatching it.
PatchNamespacesFailsPatched ==
    \/ Goes("listNamespaces", "stopCollector") /\ UNCHANGED rolloutVars
    \/ Goes("patchNamespaces", "stopCollector") /\ NamespaceRefused

PatchNamespacesFails ==
    \/ Goes("listNamespaces", "unpatch") /\ UNCHANGED rolloutVars
    \/ Goes("patchNamespaces", "unpatch") /\ NamespaceRefused

RestartDeployments == Goes("listDeployments", "restartDeployments") /\ ListDeployments

\* Only if there was none to restart.
DeploymentsRestarted ==
    /\ Goes("restartDeployments", "running")
    /\ todo = {}
    /\ UNCHANGED rolloutVars

RestartDeploymentsFails ==
    \/ Goes("listDeployments", "unpatch") /\ UNCHANGED rolloutVars
    \/ Goes("restartDeployments", "unpatch") /\ RestartRefused

Rollout ==
    /\ \/ PatchNamespaces \/ NamespacesPatched \/ PatchNamespacesFails
       \/ RestartDeployments \/ DeploymentsRestarted \/ RestartDeploymentsFails
    /\ RolloutOnly

-----------------------------------------------------------------------------
\* DestroyAgent.

Signal == Goes("running", "unpatch") /\ MainOnly

\* InitK8sClient has made the client set.
HasClientSet == worker["informers"] # "unborn"

\* UnpatchIstioConfigMap on a nil client set.
UnpatchPanics == ~HasClientSet /\ Goes("unpatch", "panicked") /\ MainOnly

UnpatchIstioConfigMap ==
    /\ HasClientSet
    /\ Goes("unpatch", "stopCollector")
    /\ mesh' = "unpatched"
    /\ UNCHANGED <<config, tokens, itemVars, unpatchFailed, rolloutVars>>

UnpatchFails ==
    /\ HasClientSet
    /\ Goes("unpatch", "stopCollector")
    /\ unpatchFailed' = TRUE
    /\ UNCHANGED <<config, tokens, itemVars, mesh, rolloutVars>>

\* StopCollector: GracefulStop returns when no call is being served.
StopCollector ==
    /\ Goes("stopCollector", "stopProcessors")
    /\ \A c \in Calls : call[c] # "serving"
    /\ tokens' = Cardinality(Processors)
    /\ UNCHANGED <<config, itemVars, meshVars, rolloutVars>>

\* Mutant: the token is put into a buffered channel.
TokenBuffered(ws, w) ==
    /\ w \in ws
    /\ tokens > 0
    /\ tokens' = tokens - 1
    /\ worker' = [worker EXCEPT ![w] = IF @ \in {"select", "busy"} THEN "exiting" ELSE @]
    /\ UNCHANGED <<config, main, waitGroup, call, at, meshVars, rolloutVars>>

\* stopChan <- struct{}{}, taken by a worker of the stage that is in its select.
Token(ws, w) ==
    /\ w \in ws
    /\ tokens > 0
    /\ worker[w] = "select"
    /\ tokens' = tokens - 1
    /\ worker' = [worker EXCEPT ![w] = "exiting"]
    /\ UNCHANGED <<config, main, waitGroup, call, at, meshVars, rolloutVars>>

StopProcessor(w) == main = "stopProcessors" /\ Token(Processors, w)
StopUploader(w) == main = "stopUploaders" /\ Token(Uploaders, w)

\* Mutant: StopUploader hands over one token too few.
ProcessorsStoppedTwoTokens ==
    /\ Goes("stopProcessors", "stopUploaders")
    /\ tokens = 0
    /\ tokens' = Cardinality(Uploaders) - 1
    /\ UNCHANGED <<config, itemVars, meshVars, rolloutVars>>

ProcessorsStopped ==
    /\ Goes("stopProcessors", "stopUploaders")
    /\ tokens = 0
    /\ tokens' = Cardinality(Uploaders)
    /\ UNCHANGED <<config, itemVars, meshVars, rolloutVars>>

UploadersStopped == Goes("stopUploaders", "wait") /\ tokens = 0 /\ MainOnly

\* waitGroup.Wait() returns, and the process ends.
Terminate == Goes("wait", "terminated") /\ waitGroup = 0 /\ MainOnly

Destroy ==
    \/ UnpatchPanics \/ UnpatchIstioConfigMap \/ UnpatchFails
    \/ StopCollector \/ ProcessorsStopped \/ UploadersStopped \/ Terminate

Start == StartCollector \/ StartLogProcessor \/ StartUploader \/ InitK8sClient \/ StartFails

MainStep ==
    \/ Start
    \/ PatchIstioConfigMap \/ PatchFails \/ Rollout
    \/ Signal \/ Destroy
    \/ \E w \in AllWorkers : StopProcessor(w) \/ StopUploader(w)

-----------------------------------------------------------------------------
\* The workers.

Alive == main \notin {"terminated", "panicked"}
Destroyed == main \in Stages \cup {"terminated", "panicked"}

WorkersOnly == UNCHANGED <<mainVars, meshVars, rolloutVars>>

\* Mutant: wg.Add(1) both before the go statement and in the goroutine.
WorkerBeginsTwice(w) ==
    /\ Alive
    /\ worker[w] = "spawned"
    /\ worker' = [worker EXCEPT ![w] = "select"]
    /\ waitGroup' = waitGroup + 2
    /\ UNCHANGED <<call, at>> /\ WorkersOnly

\* The goroutine runs for the first time: wg.Add(1).
WorkerBegins(w) ==
    /\ Alive
    /\ worker[w] = "spawned"
    /\ worker' = [worker EXCEPT ![w] = "select"]
    /\ waitGroup' = waitGroup + 1
    /\ UNCHANGED <<call, at>> /\ WorkersOnly

\* A processor receives what a handler inserts; go uploader.UploadAPILog.
Process(i) ==
    /\ Alive
    /\ at[i] = "handler"
    /\ worker[Processor(i)] = "select"
    /\ at' = [at EXCEPT ![i] = "upload"]
    /\ UNCHANGED <<worker, waitGroup, call>> /\ WorkersOnly

Upload(i, from, to, state) ==
    /\ Alive
    /\ at[i] = from
    /\ at' = [at EXCEPT ![i] = to]
    /\ worker' = [worker EXCEPT ![Uploader(i)] = state]
    /\ UNCHANGED <<waitGroup, call>> /\ WorkersOnly

\* An uploader receives it and calls the manager.
SendBegins(i) == worker[Uploader(i)] = "select" /\ Upload(i, "upload", "call", "busy")
Answered(i) == Upload(i, "call", "sent", "select")
CallFails(i) == Upload(i, "call", "failed", "select")

\* Mutant: an item whose call ran into the deadline is tried again.
RetryAtDeadline(i) == Upload(i, "call", "upload", "select")

DeadlinePasses(i) == Upload(i, "call", "failed", "select")

\* wg.Done(), by a worker with its token or, when StopChan is closed, by the
\* goroutine that started the informers.
WorkerEnds(w) ==
    /\ Alive
    /\ \/ worker[w] = "exiting"
       \/ w = "informers" /\ worker[w] = "select" /\ Destroyed
    /\ worker' = [worker EXCEPT ![w] = "done"]
    /\ waitGroup' = waitGroup - 1
    /\ UNCHANGED <<call, at>> /\ WorkersOnly

WorkerStep ==
    \/ \E w \in AllWorkers : WorkerBegins(w) \/ WorkerEnds(w)
    \/ \E i \in Items :
          Process(i) \/ SendBegins(i) \/ Answered(i) \/ CallFails(i) \/ DeadlinePasses(i)

-----------------------------------------------------------------------------
\* The collector's handlers and the informers' callbacks.

\* The server is there until GracefulStop begins.
Serving == Alive /\ main \notin {"startCollector", "wait"} \cup (Stages \ {"unpatch"})

Carried(c) == {i \in Items : Via[i] = c}
Inserting(c) == \E i \in Carried(c) : at[i] = "handler"
CallsOnly == UNCHANGED <<worker, waitGroup>> /\ WorkersOnly

\* Export and StreamMetrics read one request, with everything it carries; an
\* access log stream just opens.
Arrive(c) ==
    /\ Serving
    /\ call[c] = "none"
    /\ call' = [call EXCEPT ![c] = "serving"]
    /\ at' = [i \in Items |-> IF Via[i] = c /\ c \notin Streams THEN "handler" ELSE at[i]]
    /\ CallsOnly

\* StreamAccessLogs has inserted the entries of one message and reads another.
StreamAccessLogs(c, entries) ==
    /\ Alive
    /\ c \in Streams /\ call[c] = "serving" /\ ~Inserting(c)
    /\ entries # {} /\ \A i \in entries : at[i] = "source"
    /\ at' = [i \in Items |-> IF i \in entries THEN "handler" ELSE at[i]]
    /\ call' = call
    /\ CallsOnly

\* Export or StreamMetrics returns.
Return(c) ==
    /\ Alive
    /\ c \notin Streams /\ call[c] = "serving" /\ ~Inserting(c)
    /\ call' = [call EXCEPT ![c] = "returned"]
    /\ at' = at
    /\ CallsOnly

\* Recv fails or ends: Envoy (external) is gone or has closed its stream.
StreamEnds(c) ==
    /\ Alive
    /\ c \in Streams /\ call[c] = "serving" /\ ~Inserting(c)
    /\ call' = [call EXCEPT ![c] = "returned"]
    /\ at' = at
    /\ CallsOnly

\* A callback: go uploader.UplH.UploadClusterEvent(...).  The informers are
\* not waited for, so it may come while the agent stops.
Callback(i) ==
    /\ Alive /\ HasClientSet
    /\ KindOf[i] = "event" /\ at[i] = "source"
    /\ at' = [at EXCEPT ![i] = "upload"]
    /\ call' = call
    /\ CallsOnly

Traffic ==
    \/ \E c \in Calls : \/ Arrive(c) \/ Return(c) \/ StreamEnds(c)
                        \/ \E entries \in SUBSET Carried(c) : StreamAccessLogs(c, entries)
    \/ \E i \in Items : Callback(i)

\* Users change the cluster; what they do matters while the rollout runs.
UsersStep ==
    /\ main \in {"listNamespaces", "patchNamespaces", "listDeployments", "restartDeployments"}
    /\ Users
    /\ UNCHANGED <<mainVars, itemVars, meshVars>>

Next == MainStep \/ WorkerStep \/ Traffic \/ UsersStep

\* What the agent's goroutines do of themselves, and a deadline.
Progress ==
    \/ Start \/ Destroy
    \/ \E w \in AllWorkers : \/ StopProcessor(w) \/ StopUploader(w)
                             \/ WorkerBegins(w) \/ WorkerEnds(w)
    \/ \E i \in Items : Process(i) \/ SendBegins(i) \/ DeadlinePasses(i)
    \/ \E c \in Calls : Return(c)

(***************************************************************************)
(* Fairness: while a goroutine can run, one does, and a deadline passes.   *)
(* Each of these steps happens at most once per stage, worker, item or     *)
(* call, so that nothing stronger is needed.  Nothing makes Envoy call or  *)
(* close a stream, the manager answer, the API server accept an update or  *)
(* a signal come.                                                          *)
(***************************************************************************)
Spec == Init /\ [][Next]_vars /\ WF_vars(Progress)

-----------------------------------------------------------------------------
(***************************************************************************)
(* WaitGroupExact: the counter, which RunInformers raises in the main      *)
(* goroutine and the other workers each in their own, is the number of     *)
(* workers that have begun and not ended; it never goes below zero.        *)
(***************************************************************************)
WaitGroupExact ==
    waitGroup = Cardinality({w \in AllWorkers : worker[w] \in {"select", "busy", "exiting"}})

(***************************************************************************)
(* NothingCutOff: when the agent terminates every worker has returned, no  *)
(* handler waits for a processor and no call to the manager is under way.  *)
(* What is lost waits in a goroutine that no wait group knows.             *)
(***************************************************************************)
NothingCutOff ==
    main = "terminated" =>
        /\ \A w \in AllWorkers : worker[w] = "done"
        /\ \A c \in Calls : call[c] # "serving"
        /\ \A i \in Items : at[i] \notin {"handler", "call"}

(***************************************************************************)
(* MeshIsCleared: an agent that has stopped itself has left its address in *)
(* the mesh only if the API server refused the unpatch; one that panicked  *)
(* on its way out never patched it.                                        *)
(***************************************************************************)
MeshIsCleared ==
    /\ main = "panicked" => mesh # "patched"
    /\ main = "terminated" => mesh = "unpatched" \/ unpatchFailed

(***************************************************************************)
(* RolloutReachesAll: an agent configured to patch namespaces gets past    *)
(* PatchNamespaces, whose updates fail or conflict one by one, only when   *)
(* every namespace has the label for the injection, unless a user has      *)
(* changed or made that namespace since PatchNamespaces listed it.         *)
(***************************************************************************)
RolloutReachesAll ==
    (config.namespaces /\ main \in {"listDeployments", "restartDeployments", "running"}) =>
        \A n \in Namespaces \ changed : Exists(n) => namespaces[n].enabled

(***************************************************************************)
(* ShutdownEnds: an agent that destroys itself ends, unless an Envoy keeps *)
(* an access log stream open, which StopCollector waits for.               *)
(***************************************************************************)
ShutdownEnds ==
    main \in Stages ~> ~Alive \/ \E c \in Streams : call[c] = "serving"

(***************************************************************************)
(* UploadsSettle: what a processor or a callback hands over is sent or     *)
(* given up, whatever the manager does, unless the agent stops meanwhile.  *)
(***************************************************************************)
UploadsSettle ==
    \A i \in Items : at[i] = "upload" ~> at[i] \in {"sent", "failed"} \/ Destroyed
=============================================================================
