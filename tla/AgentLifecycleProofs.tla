-------------------------- MODULE AgentLifecycleProofs --------------------------
(***************************************************************************)
(* Theorems about the start and stop of the agent, for any calls, items,   *)
(* namespaces and deployments.  Main and its workers keep count of each    *)
(* other (Workforce); handlers and uploaders hold what passes through them *)
(* (Handover); the mesh is patched only by an agent that can unpatch it    *)
(* (MeshPart); the rollout leaves no namespace behind (RolloutPart).  At   *)
(* the end, why the agent stops and an upload is settled.                  *)
(***************************************************************************)
EXTENDS AgentLifecycle, InjectionRolloutProofs, FiniteSetTheorems

MainStates == {"startCollector", "startProcessors", "startUploaders", "initK8s", "patchIstio",
               "listNamespaces", "patchNamespaces", "listDeployments", "restartDeployments",
               "running", "terminated", "panicked"} \cup Stages

WorkerStates == {"unborn", "spawned", "select", "busy", "exiting", "done"}

\* The workers that are stopped with a token.
Staged == Processors \cup Uploaders

Begun == {w \in AllWorkers : worker[w] \in {"select", "busy", "exiting"}}

\* A worker has taken its stop token.
Told(w) == worker[w] \in {"exiting", "done"}
Untold(ws) == {w \in ws : ~Told(w)}

\* The stages at which GracefulStop has returned.
Stopping == {"stopProcessors", "stopUploaders", "wait", "terminated"}

\* What each stage of main knows of the workers and its tokens.
StageOK ==
    /\ main \in {"startCollector", "startProcessors"} =>
          \A w \in AllWorkers : worker[w] = "unborn"
    /\ main = "startUploaders" => \A w \in Uploaders : worker[w] = "unborn"
    /\ main \notin Stopping => \A w \in Staged : ~Told(w)
    /\ main = "stopProcessors" =>
          /\ \A w \in Uploaders : ~Told(w)
          /\ tokens = Cardinality(Untold(Processors))
    /\ main = "stopUploaders" =>
          /\ \A w \in Processors : Told(w)
          /\ tokens = Cardinality(Untold(Uploaders))
    /\ main \in {"wait", "terminated"} => \A w \in Staged : Told(w)
    /\ main = "terminated" => waitGroup = 0

\* The informers run from InitK8sClient on, if main gets there.
InformersOK ==
    /\ worker["informers"] \in {"unborn", "select", "done"}
    /\ main \in {"startCollector", "startProcessors", "startUploaders", "initK8s", "panicked"} =>
          worker["informers"] = "unborn"
    /\ main \in {"patchIstio", "listNamespaces", "patchNamespaces", "listDeployments",
                 "restartDeployments", "running", "stopCollector"} \cup Stopping =>
          worker["informers"] # "unborn"

Workforce ==
    /\ main \in MainStates
    /\ tokens \in 0..3
    /\ worker \in [AllWorkers -> WorkerStates]
    /\ WaitGroupExact
    /\ StageOK
    /\ InformersOK

\* A call to the manager keeps its uploader busy, and an uploader makes one at
\* a time; what a handler inserts belongs to a call that is being served.
Handover ==
    /\ call \in [Calls -> {"none", "serving", "returned"}]
    /\ at \in [Items -> {"source", "handler", "upload", "call", "sent", "failed"}]
    /\ \A i \in Items : at[i] = "call" => worker[Uploader(i)] = "busy"
    /\ \A i, j \in Items : at[i] = "call" /\ at[j] = "call" /\ Uploader(i) = Uploader(j) => i = j
    /\ \A i \in Items : at[i] = "handler" => Via[i] \in Calls /\ call[Via[i]] = "serving"
    /\ main \in Stopping => \A c \in Calls : call[c] # "serving"

MeshPart ==
    /\ mesh \in {"unpatched", "inherited", "patched"}
    /\ unpatchFailed \in BOOLEAN
    /\ ~HasClientSet => mesh # "patched"
    /\ main \in {"stopCollector"} \cup Stopping => mesh = "unpatched" \/ unpatchFailed

HasLabel(n) == Exists(n) => namespaces[n].enabled \/ n \in changed

RolloutPart ==
    /\ config \in [namespaces : BOOLEAN, deployments : BOOLEAN]
    /\ RolloutInv
    /\ main = "patchNamespaces" => \A n \in Namespaces \ DOMAIN copies : HasLabel(n)
    /\ config.namespaces /\ main \in {"listDeployments", "restartDeployments", "running"} =>
          \A n \in Namespaces : HasLabel(n)

IInv == Workforce /\ Handover /\ MeshPart /\ RolloutPart

-----------------------------------------------------------------------------
\* Cardinalities.

LEMMA Sizes == /\ IsFiniteSet(AllWorkers)
               /\ IsFiniteSet(Processors) /\ Cardinality(Processors) = 2
               /\ IsFiniteSet(Uploaders) /\ Cardinality(Uploaders) = 3
<1>1. /\ IsFiniteSet({"processAPILogs"}) /\ Cardinality({"processAPILogs"}) = 1
      /\ IsFiniteSet({"uploadClusterEvent"}) /\ Cardinality({"uploadClusterEvent"}) = 1
      /\ IsFiniteSet({"informers"})
  BY FS_Singleton
<1>2. Processors = {"processAPILogs"} \cup {"processEnvoyMetrics"} BY DEF Processors
<1>3. IsFiniteSet(Processors) /\ Cardinality(Processors) = 2 BY <1>1, <1>2, FS_AddElement
<1>4. /\ IsFiniteSet({"uploadClusterEvent"} \cup {"uploadAPILogs"})
      /\ Cardinality({"uploadClusterEvent"} \cup {"uploadAPILogs"}) = 2
  BY <1>1, FS_AddElement
<1>5. Uploaders = ({"uploadClusterEvent"} \cup {"uploadAPILogs"}) \cup {"uploadEnvoyMetrics"}
  BY DEF Uploaders
<1>6. IsFiniteSet(Uploaders) /\ Cardinality(Uploaders) = 3 BY <1>4, <1>5, FS_AddElement
<1>7. IsFiniteSet(Processors \cup Uploaders) BY <1>3, <1>6, FS_Union
<1>8. IsFiniteSet(AllWorkers) BY <1>1, <1>7, FS_Union DEF AllWorkers
<1> QED BY <1>3, <1>6, <1>8

USE LifecycleAssumption

LEMMA BegunSize == /\ IsFiniteSet(Begun)
                   /\ Cardinality(Begun) \in 0..Cardinality(AllWorkers)
                   /\ Cardinality(AllWorkers) \in Nat
<1>1. Begun \in SUBSET AllWorkers BY DEF Begun
<1> QED BY <1>1, Sizes, FS_Subset, FS_CardinalityType

LEMMA UntoldSize ==
  ASSUME NEW ws, IsFiniteSet(ws)
  PROVE  IsFiniteSet(Untold(ws)) /\ Cardinality(Untold(ws)) \in Nat
<1>1. Untold(ws) \in SUBSET ws BY DEF Untold
<1> QED BY <1>1, FS_Subset, FS_CardinalityType

\* How many have begun after a worker has moved, begun or ended.
LEMMA BegunChanges ==
  ASSUME worker \in [AllWorkers -> WorkerStates], NEW w \in AllWorkers,
         NEW s \in WorkerStates, worker' = [worker EXCEPT ![w] = s]
  PROVE  /\ (w \in Begun <=> s \in {"select", "busy", "exiting"}) =>
                Cardinality(Begun') = Cardinality(Begun)
         /\ w \notin Begun /\ s = "select" => Cardinality(Begun') = Cardinality(Begun) + 1
         /\ w \in Begun /\ s = "done" => Cardinality(Begun') = Cardinality(Begun) - 1
<1>1. ASSUME w \in Begun <=> s \in {"select", "busy", "exiting"} PROVE Begun' = Begun
  BY <1>1 DEF Begun
<1>2. ASSUME w \notin Begun, s = "select" PROVE Begun' = Begun \cup {w}
  BY <1>2 DEF Begun
<1>3. ASSUME w \in Begun, s = "done" PROVE Begun' = Begun \ {w}
  BY <1>3 DEF Begun
<1>4. Cardinality(Begun \cup {w}) = IF w \in Begun THEN Cardinality(Begun) ELSE Cardinality(Begun) + 1
  BY BegunSize, FS_AddElement
<1>5. Cardinality(Begun \ {w}) = IF w \in Begun THEN Cardinality(Begun) - 1 ELSE Cardinality(Begun)
  BY BegunSize, FS_RemoveElement
<1> QED BY <1>1, <1>2, <1>3, <1>4, <1>5

-----------------------------------------------------------------------------
\* The workforce.

LEMMA WorkforceInit == Init => Workforce
<1> SUFFICES ASSUME Init PROVE Workforce OBVIOUS
<1>1. Begun = {} BY DEF Init, Begun
<1>2. WaitGroupExact BY <1>1, FS_EmptySet DEF Init, WaitGroupExact, Begun
<1>3. StageOK BY DEF Init, StageOK, Told, AllWorkers, Staged, Stopping
<1>4. InformersOK BY DEF Init, InformersOK, AllWorkers, Stopping
<1> QED BY <1>2, <1>3, <1>4 DEF Init, Workforce, MainStates, WorkerStates

\* Main goes on and no worker moves.
LEMMA MainMoves ==
  ASSUME Workforce, worker' = worker, waitGroup' = waitGroup,
         main' \in MainStates, tokens' \in 0..3, StageOK', InformersOK'
  PROVE  Workforce'
<1>1. Begun' = Begun BY DEF Begun
<1>2. WaitGroupExact' BY <1>1 DEF Workforce, WaitGroupExact, Begun
<1> QED BY <1>2 DEF Workforce

\* A start function returns: the goroutines of its workers are spawned.
LEMMA Spawned ==
  ASSUME Workforce, NEW ws \in SUBSET Staged, \A w \in ws : worker[w] = "unborn",
         Spawn(ws), main' \in MainStates, StageOK', InformersOK'
  PROVE  Workforce'
<1>1. worker' \in [AllWorkers -> WorkerStates]
  BY DEF Workforce, WorkerStates, Spawn
<1>2. ws \subseteq AllWorkers BY DEF Staged, AllWorkers
<1>3. Begun' = Begun BY <1>2 DEF Begun, Spawn
<1>4. WaitGroupExact' BY <1>3 DEF Workforce, WaitGroupExact, Begun, Spawn
<1> QED BY <1>1, <1>4 DEF Workforce, Spawn

\* A worker moves without taking a token; main stays where it is.
LEMMA WorkerMoves ==
  ASSUME Workforce, Alive, NEW w \in AllWorkers, NEW s \in WorkerStates,
         worker' = [worker EXCEPT ![w] = s], main' = main, tokens' = tokens,
         worker[w] # "unborn", s # "unborn",
         w \in Staged => (worker[w] \in {"exiting", "done"} <=> s \in {"exiting", "done"}),
         w = "informers" => s \in {"select", "done"},
         waitGroup' = Cardinality(Begun')
  PROVE  Workforce'
<1>1. worker' \in [AllWorkers -> WorkerStates] BY DEF Workforce
<1>2. WaitGroupExact' BY DEF WaitGroupExact, Begun
<1>3. Staged \subseteq AllWorkers /\ Processors \subseteq Staged /\ Uploaders \subseteq Staged
  BY DEF AllWorkers, Staged
<1>4. \A v \in Staged : Told(v)' <=> Told(v) BY <1>3 DEF Told, Workforce
<1>5. Untold(Processors)' = Untold(Processors) BY <1>3, <1>4 DEF Untold
<1>6. Untold(Uploaders)' = Untold(Uploaders) BY <1>3, <1>4 DEF Untold
<1>7. \A v \in AllWorkers : worker[v] = "unborn" <=> worker'[v] = "unborn"
  BY DEF Workforce
<1>8. StageOK'
  BY <1>3, <1>4, <1>5, <1>6, <1>7 DEF StageOK, Workforce, Alive
<1>9. "informers" \in AllWorkers BY DEF AllWorkers
<1>10. InformersOK' BY <1>7, <1>9 DEF InformersOK, Workforce
<1> QED BY <1>1, <1>2, <1>8, <1>10 DEF Workforce

LEMMA WorkerBeginsKeeps ==
  ASSUME Workforce, NEW w \in AllWorkers, WorkerBegins(w)
  PROVE  Workforce'
<1>1. "select" \in WorkerStates /\ w \notin Begun BY DEF WorkerStates, Begun, WorkerBegins
<1>2. Cardinality(Begun') = Cardinality(Begun) + 1
  BY <1>1, BegunChanges DEF Workforce, WorkerBegins
<1>3. waitGroup' = Cardinality(Begun')
  BY <1>2 DEF Workforce, WaitGroupExact, Begun, WorkerBegins
<1> QED BY <1>1, <1>3, WorkerMoves DEF WorkerBegins, WorkersOnly, mainVars

LEMMA WorkerEndsKeeps ==
  ASSUME Workforce, NEW w \in AllWorkers, WorkerEnds(w)
  PROVE  Workforce'
<1>1. "done" \in WorkerStates /\ w \in Begun BY DEF WorkerStates, Begun, WorkerEnds
<1>2. Cardinality(Begun') = Cardinality(Begun) - 1
  BY <1>1, BegunChanges DEF Workforce, WorkerEnds
<1>3. waitGroup' = Cardinality(Begun')
  BY <1>2 DEF Workforce, WaitGroupExact, Begun, WorkerEnds
<1>4. "informers" \notin Staged BY DEF Staged, Processors, Uploaders
<1> QED BY <1>1, <1>3, <1>4, WorkerMoves DEF WorkerEnds, WorkersOnly, mainVars

\* The workers that take an item are workers.
LEMMA Destinations == \A i \in Items : Processor(i) \in Processors /\ Uploader(i) \in Uploaders
BY DEF Processor, Uploader, Processors, Uploaders

\* An uploader goes from its select to a call, or back.
LEMMA UploadKeeps ==
  ASSUME Workforce, NEW i \in Items, NEW from, NEW to, NEW s \in {"select", "busy"},
         worker[Uploader(i)] \in {"select", "busy"}, Upload(i, from, to, s)
  PROVE  Workforce'
<1> DEFINE w == Uploader(i)
<1>1. w \in AllWorkers /\ w # "informers" BY Destinations DEF AllWorkers, Uploaders
<1>2. s \in WorkerStates /\ w \in Begun BY <1>1 DEF WorkerStates, Begun
<1>3. worker' = [worker EXCEPT ![w] = s] /\ waitGroup' = waitGroup /\ Alive
      /\ main' = main /\ tokens' = tokens
  BY DEF Upload, WorkersOnly, mainVars
<1>4. worker[w] \in {"select", "busy"} OBVIOUS
<1> HIDE DEF w
<1>5. Cardinality(Begun') = Cardinality(Begun) BY <1>1, <1>2, <1>3, BegunChanges DEF Workforce
<1>6. waitGroup' = Cardinality(Begun') BY <1>3, <1>5 DEF Workforce, WaitGroupExact, Begun
<1> QED BY <1>1, <1>2, <1>3, <1>4, <1>6, WorkerMoves

\* A worker of the stage takes a token: one more is told, one token is gone.
LEMMA TokenTaken ==
  ASSUME Workforce, NEW w \in AllWorkers, NEW ws, Token(ws, w),
         \/ main = "stopProcessors" /\ ws = Processors
         \/ main = "stopUploaders" /\ ws = Uploaders
  PROVE  Workforce'
<1>1. /\ worker' = [worker EXCEPT ![w] = "exiting"] /\ worker[w] = "select"
      /\ w \in ws /\ main' = main /\ waitGroup' = waitGroup
      /\ tokens \in 1..3 /\ tokens' = tokens - 1
  BY DEF Token, Workforce
<1>2. "exiting" \in WorkerStates /\ w \in Begun BY <1>1 DEF WorkerStates, Begun
<1>3. Cardinality(Begun') = Cardinality(Begun) BY <1>1, <1>2, BegunChanges DEF Workforce
<1>4. WaitGroupExact' BY <1>1, <1>3 DEF Workforce, WaitGroupExact, Begun
<1>5. worker' \in [AllWorkers -> WorkerStates] BY <1>1, <1>2 DEF Workforce
<1>6. \A v \in AllWorkers : Told(v)' <=> Told(v) \/ v = w BY <1>1 DEF Told, Workforce
<1>7. ws \subseteq AllWorkers /\ IsFiniteSet(ws) BY Sizes DEF AllWorkers
<1>8. Untold(ws)' = Untold(ws) \ {w} BY <1>6, <1>7 DEF Untold
<1>9. w \in Untold(ws) BY <1>1 DEF Untold, Told
<1>10. Cardinality(Untold(ws)') = Cardinality(Untold(ws)) - 1
  BY <1>7, <1>8, <1>9, UntoldSize, FS_RemoveElement
<1>11. Processors \cap Uploaders = {} /\ "informers" \notin ws /\ "informers" \in AllWorkers
  BY DEF Processors, Uploaders, AllWorkers
<1>12. Processors \subseteq AllWorkers /\ Uploaders \subseteq AllWorkers BY DEF AllWorkers
<1>13. StageOK'
  <2>1. CASE main = "stopProcessors" /\ ws = Processors
    <3>1. \A v \in Uploaders : ~Told(v)'
      BY <2>1, <1>1, <1>6, <1>11, <1>12 DEF Workforce, StageOK
    <3>2. tokens' = Cardinality(Untold(Processors)')
      BY <2>1, <1>1, <1>10 DEF Workforce, StageOK
    <3> QED BY <2>1, <1>1, <3>1, <3>2 DEF StageOK, Stopping
  <2>2. CASE main = "stopUploaders" /\ ws = Uploaders
    <3>1. \A v \in Processors : Told(v)'
      BY <2>2, <1>6, <1>12 DEF Workforce, StageOK
    <3>2. tokens' = Cardinality(Untold(Uploaders)')
      BY <2>2, <1>1, <1>10 DEF Workforce, StageOK
    <3> QED BY <2>2, <1>1, <3>1, <3>2 DEF StageOK, Stopping
  <2> QED BY <2>1, <2>2
<1>14. worker'["informers"] = worker["informers"] BY <1>1, <1>11 DEF Workforce
<1>15. InformersOK' BY <1>1, <1>14 DEF InformersOK, Workforce
<1> QED BY <1>1, <1>4, <1>5, <1>13, <1>15 DEF Workforce

LEMMA WorkforceStart == Workforce /\ Start => Workforce'
<1> SUFFICES ASSUME Workforce, Start PROVE Workforce' OBVIOUS
<1> USE DEF MainStates, MainOnly, Goes, itemVars
<1>0. /\ Processors \subseteq Staged /\ Uploaders \subseteq Staged
      /\ Processors \cap Uploaders = {} /\ AllWorkers = Staged \cup {"informers"}
      /\ "informers" \notin Staged
  BY DEF AllWorkers, Processors, Uploaders, Staged
<1>1. CASE StartCollector
  <2>1. StageOK' /\ InformersOK'
    BY <1>1 DEF StartCollector, StageOK, InformersOK, Told, Stopping, Workforce
  <2> QED BY <1>1, <2>1, MainMoves DEF StartCollector, Workforce
<1>2. CASE StartLogProcessor
  <2>1. \A w \in Processors : worker[w] = "unborn" BY <1>0, <1>2 DEF StartLogProcessor, Workforce, StageOK
  <2>2. StageOK' BY <1>0, <1>2 DEF StartLogProcessor, Spawn, StageOK, Told, Stopping, Workforce
  <2>3. InformersOK'
    BY <1>0, <1>2 DEF StartLogProcessor, Spawn, InformersOK, Stopping, Workforce
  <2> QED BY <1>0, <1>2, <2>1, <2>2, <2>3, Spawned DEF StartLogProcessor
<1>3. CASE StartUploader
  <2>1. \A w \in Uploaders : worker[w] = "unborn" BY <1>3 DEF StartUploader, Workforce, StageOK
  <2>2. StageOK' BY <1>0, <1>3 DEF StartUploader, Spawn, StageOK, Told, Stopping, Workforce
  <2>3. InformersOK'
    BY <1>0, <1>3 DEF StartUploader, Spawn, InformersOK, Stopping, Workforce
  <2> QED BY <1>0, <1>3, <2>1, <2>2, <2>3, Spawned DEF StartUploader
<1>4. CASE InitK8sClient
  <2>1. /\ worker' = [worker EXCEPT !["informers"] = "select"] /\ waitGroup' = waitGroup + 1
        /\ main = "initK8s" /\ main' = "patchIstio" /\ tokens' = tokens
        /\ worker["informers"] = "unborn" /\ worker \in [AllWorkers -> WorkerStates]
        /\ "select" \in WorkerStates /\ "informers" \in AllWorkers
    BY <1>0, <1>4 DEF InitK8sClient, RunInformers, Workforce, InformersOK, WorkerStates
  <2>2. "informers" \notin Begun BY <2>1 DEF Begun
  <2>3. Cardinality(Begun') = Cardinality(Begun) + 1 BY <2>1, <2>2, BegunChanges
  <2>4. WaitGroupExact' BY <2>1, <2>3 DEF Workforce, WaitGroupExact, Begun
  <2>5. \A w \in Staged : worker'[w] = worker[w] BY <1>0, <2>1
  <2>6. StageOK' BY <2>1, <2>5 DEF StageOK, Told, Workforce, Stopping
  <2>7. InformersOK' BY <2>1 DEF InformersOK, Stopping
  <2> QED BY <2>1, <2>4, <2>6, <2>7 DEF Workforce
<1>5. CASE StartFails
  <2>1. /\ main \in {"startCollector", "startUploaders", "initK8s"} /\ main' = "unpatch"
        /\ UNCHANGED <<tokens, worker, waitGroup>>
    BY <1>5 DEF StartFails
  <2>2. StageOK' /\ InformersOK'
    BY <2>1 DEF StageOK, InformersOK, Told, Stopping, Workforce
  <2> QED BY <2>1, <2>2, MainMoves DEF Stages, Workforce
<1> QED BY <1>1, <1>2, <1>3, <1>4, <1>5 DEF Start

\* Main rolls out, or gives up, while the workers run.
LEMMA WorkforceRuns ==
  ASSUME Workforce, UNCHANGED <<tokens, worker, waitGroup>>,
         main \in {"patchIstio", "listNamespaces", "patchNamespaces", "listDeployments",
                   "restartDeployments", "running"},
         main' \in {"listNamespaces", "patchNamespaces", "listDeployments",
                    "restartDeployments", "running", "unpatch"}
  PROVE  Workforce'
<1>1. StageOK' /\ InformersOK'
  BY DEF StageOK, InformersOK, Told, Stopping, Workforce
<1> QED BY <1>1, MainMoves DEF MainStates, Stages, Workforce

\* Where main goes while it rolls the injection out.
LEMMA RolloutStages ==
  ASSUME config \in [namespaces : BOOLEAN, deployments : BOOLEAN],
         PatchIstioConfigMap \/ PatchFails \/ Rollout \/ Signal
  PROVE  /\ main \in {"patchIstio", "listNamespaces", "patchNamespaces", "listDeployments",
                      "restartDeployments", "running"}
         /\ main' \in {"listNamespaces", "patchNamespaces", "listDeployments",
                       "restartDeployments", "running", "unpatch"}
         /\ UNCHANGED <<config, tokens, itemVars>>
<1> USE DEF Goes
<1>1. CASE PatchIstioConfigMap BY <1>1 DEF PatchIstioConfigMap
<1>2. CASE PatchFails \/ Signal BY <1>2 DEF PatchFails, Signal, MainOnly
<1>3. CASE Rollout
  BY <1>3 DEF Rollout, RolloutOnly, PatchNamespaces, NamespacesPatched, PatchNamespacesFails,
              RestartDeployments, DeploymentsRestarted, RestartDeploymentsFails
<1> QED BY <1>1, <1>2, <1>3

LEMMA WorkforceDestroy == Workforce /\ Destroy => Workforce'
<1> SUFFICES ASSUME Workforce, Destroy PROVE Workforce' OBVIOUS
<1> USE DEF MainStates, MainOnly, Goes, itemVars, Stages, Stopping
<1>0. /\ Processors \subseteq Staged /\ Uploaders \subseteq Staged
      /\ Staged = Processors \cup Uploaders
  BY DEF Staged
<1>1. CASE UnpatchPanics
  <2>1. /\ main = "unpatch" /\ main' = "panicked" /\ worker["informers"] = "unborn"
        /\ UNCHANGED <<tokens, worker, waitGroup>>
    BY <1>1 DEF UnpatchPanics, HasClientSet
  <2>2. StageOK' /\ InformersOK' BY <2>1 DEF StageOK, InformersOK, Told, Workforce
  <2> QED BY <2>1, <2>2, MainMoves DEF Workforce
<1>2. CASE UnpatchIstioConfigMap \/ UnpatchFails
  <2>1. /\ main = "unpatch" /\ main' = "stopCollector" /\ worker["informers"] # "unborn"
        /\ UNCHANGED <<tokens, worker, waitGroup>>
    BY <1>2 DEF UnpatchIstioConfigMap, UnpatchFails, HasClientSet
  <2>2. StageOK' /\ InformersOK' BY <2>1 DEF StageOK, InformersOK, Told, Workforce
  <2> QED BY <2>1, <2>2, MainMoves DEF Workforce
<1>3. CASE StopCollector
  <2>1. /\ main = "stopCollector" /\ main' = "stopProcessors" /\ UNCHANGED <<worker, waitGroup>>
        /\ tokens' = 2
    BY <1>3, Sizes DEF StopCollector
  <2>2. Untold(Processors)' = Processors BY <1>0, <2>1 DEF Untold, Told, Workforce, StageOK
  <2>3. StageOK' BY <1>0, <2>1, <2>2, Sizes DEF StageOK, Told, Workforce
  <2>4. InformersOK' BY <2>1 DEF InformersOK, Workforce
  <2> QED BY <2>1, <2>3, <2>4, MainMoves
<1>4. CASE ProcessorsStopped
  <2>1. /\ main = "stopProcessors" /\ main' = "stopUploaders" /\ UNCHANGED <<worker, waitGroup>>
        /\ tokens = 0 /\ tokens' = 3
    BY <1>4, Sizes DEF ProcessorsStopped
  <2>2. Untold(Uploaders)' = Uploaders BY <2>1 DEF Untold, Told, Workforce, StageOK
  <2>3. Untold(Processors) = {}
    BY <2>1, Sizes, UntoldSize, FS_EmptySet DEF Workforce, StageOK
  <2>4. \A w \in Processors : Told(w)' BY <2>1, <2>3 DEF Untold, Told
  <2>5. StageOK' BY <2>1, <2>2, <2>4, Sizes DEF StageOK
  <2>6. InformersOK' BY <2>1 DEF InformersOK, Workforce
  <2> QED BY <2>1, <2>5, <2>6, MainMoves
<1>5. CASE UploadersStopped
  <2>1. /\ main = "stopUploaders" /\ main' = "wait" /\ UNCHANGED <<worker, waitGroup, tokens>>
        /\ tokens = 0
    BY <1>5 DEF UploadersStopped
  <2>2. Untold(Uploaders) = {}
    BY <2>1, Sizes, UntoldSize, FS_EmptySet DEF Workforce, StageOK
  <2>3. \A w \in Staged : Told(w)' BY <1>0, <2>1, <2>2 DEF Untold, Told, Workforce, StageOK
  <2>4. StageOK' BY <2>1, <2>3 DEF StageOK
  <2>5. InformersOK' BY <2>1 DEF InformersOK, Workforce
  <2> QED BY <2>1, <2>4, <2>5, MainMoves DEF Workforce
<1>6. CASE Terminate
  <2>1. /\ main = "wait" /\ main' = "terminated" /\ UNCHANGED <<worker, waitGroup, tokens>>
        /\ waitGroup = 0
    BY <1>6 DEF Terminate
  <2>2. StageOK' /\ InformersOK' BY <2>1 DEF StageOK, InformersOK, Told, Workforce
  <2> QED BY <2>1, <2>2, MainMoves DEF Workforce
<1> QED BY <1>1, <1>2, <1>3, <1>4, <1>5, <1>6 DEF Destroy

LEMMA WorkforceMain ==
  Workforce /\ config \in [namespaces : BOOLEAN, deployments : BOOLEAN] /\ MainStep => Workforce'
<1> SUFFICES ASSUME Workforce, config \in [namespaces : BOOLEAN, deployments : BOOLEAN], MainStep
             PROVE  Workforce'
  OBVIOUS
<1>1. CASE PatchIstioConfigMap \/ PatchFails \/ Rollout \/ Signal
  BY <1>1, RolloutStages, WorkforceRuns DEF itemVars
<1>2. ASSUME NEW w \in AllWorkers, StopProcessor(w) \/ StopUploader(w) PROVE Workforce'
  BY <1>2, TokenTaken DEF StopProcessor, StopUploader
<1> QED BY <1>1, <1>2, WorkforceStart, WorkforceDestroy DEF MainStep

LEMMA WorkforceStays ==
  ASSUME Workforce, UNCHANGED <<main, tokens, worker, waitGroup>> PROVE Workforce'
<1>1. StageOK' /\ InformersOK' BY DEF Workforce, StageOK, InformersOK, Untold, Told
<1> QED BY <1>1, MainMoves DEF Workforce

LEMMA WorkforceWorker == Workforce /\ Handover /\ WorkerStep => Workforce'
<1> SUFFICES ASSUME Workforce, Handover, WorkerStep PROVE Workforce' OBVIOUS
<1>1. ASSUME NEW w \in AllWorkers, WorkerBegins(w) \/ WorkerEnds(w) PROVE Workforce'
  BY <1>1, WorkerBeginsKeeps, WorkerEndsKeeps
<1>2. ASSUME NEW i \in Items, Process(i) PROVE Workforce'
  BY <1>2, WorkforceStays DEF Process, WorkersOnly, mainVars
<1>3. ASSUME NEW i \in Items, SendBegins(i) PROVE Workforce'
  BY <1>3, UploadKeeps DEF SendBegins
<1>4. ASSUME NEW i \in Items, Answered(i) \/ CallFails(i) \/ DeadlinePasses(i) PROVE Workforce'
  <2>1. worker[Uploader(i)] = "busy"
    BY <1>4 DEF Answered, CallFails, DeadlinePasses, Upload, Handover
  <2> QED BY <1>4, <2>1, UploadKeeps DEF Answered, CallFails, DeadlinePasses
<1> QED BY <1>1, <1>2, <1>3, <1>4 DEF WorkerStep

LEMMA WorkforceNext ==
  Workforce /\ Handover /\ config \in [namespaces : BOOLEAN, deployments : BOOLEAN] /\ [Next]_vars
  => Workforce'
<1> SUFFICES ASSUME Workforce, Handover, [Next]_vars,
                    config \in [namespaces : BOOLEAN, deployments : BOOLEAN]
             PROVE  Workforce'
  OBVIOUS
<1>1. CASE Traffic
  <2>1. UNCHANGED <<main, tokens, worker, waitGroup>>
    BY <1>1 DEF Traffic, Arrive, Return, StreamEnds, StreamAccessLogs, Callback,
                CallsOnly, WorkersOnly, mainVars
  <2> QED BY <2>1, WorkforceStays
<1>2. CASE UsersStep BY <1>2, WorkforceStays DEF UsersStep, mainVars, itemVars
<1>3. CASE UNCHANGED vars BY <1>3, WorkforceStays DEF vars, mainVars, itemVars
<1> QED BY <1>1, <1>2, <1>3, WorkforceMain, WorkforceWorker DEF Next

-----------------------------------------------------------------------------
\* Handlers and uploaders.

LEMMA HandoverInit == Init => Handover
BY DEF Init, Handover, Stopping

\* The workers come and go, but no uploader ends a call.
LEMMA HandoverFrame ==
  ASSUME Handover, \A w \in Uploaders : worker[w] = "busy" => worker'[w] = "busy",
         UNCHANGED <<call, at>>, main' \in Stopping => \A c \in Calls : call[c] # "serving"
  PROVE  Handover'
BY Destinations DEF Handover

LEMMA HandoverMain == Workforce /\ Handover /\ RolloutPart /\ MainStep => Handover'
<1> SUFFICES ASSUME Workforce, Handover, RolloutPart, MainStep PROVE Handover' OBVIOUS
<1> USE DEF Goes, MainOnly, itemVars, Stopping, Stages
<1>1. ASSUME NEW ws \in {Processors, Uploaders}, Spawn(ws), \A w \in ws : worker[w] = "unborn"
      PROVE  (\A w \in Uploaders : worker[w] = "busy" => worker'[w] = "busy") /\ UNCHANGED <<call, at>>
  BY <1>1 DEF Spawn, AllWorkers
<1>2. CASE StartLogProcessor
  <2>1. \A w \in Processors : worker[w] = "unborn"
    BY <1>2 DEF StartLogProcessor, Workforce, StageOK, AllWorkers
  <2> QED BY <1>1, <1>2, <2>1, HandoverFrame DEF StartLogProcessor
<1>3. CASE StartUploader
  <2>1. \A w \in Uploaders : worker[w] = "unborn" BY <1>3 DEF StartUploader, Workforce, StageOK
  <2> QED BY <1>1, <1>3, <2>1, HandoverFrame DEF StartUploader
<1>4. CASE InitK8sClient
  <2>1. \A w \in Uploaders : worker'[w] = worker[w]
    BY <1>4 DEF InitK8sClient, RunInformers, Workforce, Uploaders, AllWorkers
  <2> QED BY <1>4, <2>1, HandoverFrame DEF InitK8sClient
<1>5. CASE StartCollector \/ StartFails
  BY <1>5, HandoverFrame DEF StartCollector, StartFails
<1>6. CASE PatchIstioConfigMap \/ PatchFails \/ Rollout \/ Signal
  BY <1>6, RolloutStages, HandoverFrame DEF RolloutPart
<1>7. CASE UnpatchPanics \/ UnpatchIstioConfigMap \/ UnpatchFails \/ StopCollector
  BY <1>7, HandoverFrame DEF UnpatchPanics, UnpatchIstioConfigMap, UnpatchFails, StopCollector
<1>8. CASE ProcessorsStopped \/ UploadersStopped \/ Terminate
  BY <1>8, HandoverFrame DEF ProcessorsStopped, UploadersStopped, Terminate, Handover
<1>9. ASSUME NEW w \in AllWorkers, StopProcessor(w) \/ StopUploader(w) PROVE Handover'
  <2>1. /\ \A v \in Uploaders : worker[v] = "busy" => worker'[v] = "busy"
        /\ UNCHANGED <<call, at, main>>
    BY <1>9 DEF StopProcessor, StopUploader, Token, Workforce, AllWorkers
  <2> QED BY <2>1, HandoverFrame DEF Handover
<1> QED BY <1>2, <1>3, <1>4, <1>5, <1>6, <1>7, <1>8, <1>9 DEF MainStep, Start, Destroy

\* An uploader makes a call or ends one.
LEMMA UploadHandover ==
  ASSUME Handover, worker \in [AllWorkers -> WorkerStates], NEW i \in Items,
         NEW from, NEW to \in {"call", "sent", "failed"}, NEW s, Upload(i, from, to, s),
         \/ worker[Uploader(i)] # "busy" /\ to = "call" /\ s = "busy"
         \/ from = "call" /\ to # "call"
  PROVE  Handover'
<1>1. Uploader(i) \in AllWorkers BY Destinations DEF AllWorkers
<1>2. /\ at' = [at EXCEPT ![i] = to] /\ at[i] = from
      /\ worker' = [worker EXCEPT ![Uploader(i)] = s] /\ UNCHANGED <<call, main>>
  BY DEF Upload, WorkersOnly, mainVars
<1>3. at' \in [Items -> {"source", "handler", "upload", "call", "sent", "failed"}]
  BY <1>2 DEF Handover
<1>4. \A j \in Items \ {i} : at[j] = "call" => Uploader(j) # Uploader(i) \/ to = "call"
  BY <1>2 DEF Handover
<1>5. \A j \in Items \ {i} : at[j] = "call" => Uploader(j) # Uploader(i)
  BY <1>2, <1>4 DEF Handover
<1>6. \A j \in Items : at'[j] = "call" => worker'[Uploader(j)] = "busy"
  <2> SUFFICES ASSUME NEW j \in Items, at'[j] = "call" PROVE worker'[Uploader(j)] = "busy" OBVIOUS
  <2>1. CASE j = i BY <1>1, <1>2, <2>1 DEF Handover
  <2>2. CASE j # i
    <3>1. at[j] = "call" BY <1>2, <2>2 DEF Handover
    <3> QED BY <1>2, <1>5, <2>2, <3>1 DEF Handover
  <2> QED BY <2>1, <2>2
<1>7. \A j, k \in Items : at'[j] = "call" /\ at'[k] = "call" /\ Uploader(j) = Uploader(k) => j = k
  BY <1>2, <1>5 DEF Handover
<1>8. \A j \in Items : at'[j] = "handler" => at[j] = "handler" BY <1>2 DEF Handover
<1> QED BY <1>2, <1>3, <1>6, <1>7, <1>8 DEF Handover

LEMMA HandoverWorker == Workforce /\ Handover /\ WorkerStep => Handover'
<1> SUFFICES ASSUME Workforce, Handover, WorkerStep PROVE Handover' OBVIOUS
<1>0. worker \in [AllWorkers -> WorkerStates] BY DEF Workforce
<1>1. ASSUME NEW w \in AllWorkers, WorkerBegins(w) \/ WorkerEnds(w) PROVE Handover'
  <2>1. /\ \A v \in Uploaders : worker[v] = "busy" => worker'[v] = "busy"
        /\ UNCHANGED <<call, at, main>>
    BY <1>0, <1>1 DEF WorkerBegins, WorkerEnds, WorkersOnly, mainVars, AllWorkers
  <2> QED BY <2>1, HandoverFrame DEF Handover
<1>2. ASSUME NEW i \in Items, Process(i) PROVE Handover'
  <2>1. at' = [at EXCEPT ![i] = "upload"] /\ UNCHANGED <<worker, call, main>>
    BY <1>2 DEF Process, WorkersOnly, mainVars
  <2> QED BY <2>1 DEF Handover
<1>3. ASSUME NEW i \in Items, SendBegins(i) PROVE Handover'
  BY <1>0, <1>3, UploadHandover DEF SendBegins
<1>4. ASSUME NEW i \in Items, Answered(i) \/ CallFails(i) \/ DeadlinePasses(i) PROVE Handover'
  BY <1>0, <1>4, UploadHandover DEF Answered, CallFails, DeadlinePasses
<1> QED BY <1>1, <1>2, <1>3, <1>4 DEF WorkerStep

LEMMA HandoverTraffic == Handover /\ Traffic => Handover'
<1> SUFFICES ASSUME Handover, Traffic PROVE Handover' OBVIOUS
<1> USE DEF CallsOnly, WorkersOnly, mainVars
<1>1. ASSUME NEW c \in Calls, Arrive(c) PROVE Handover'
  <2>1. /\ call' = [call EXCEPT ![c] = "serving"] /\ UNCHANGED <<worker, main>>
        /\ at' = [i \in Items |-> IF Via[i] = c /\ c \notin Streams THEN "handler" ELSE at[i]]
        /\ main' \notin Stopping
    BY <1>1 DEF Arrive, Serving, Alive, Stopping, Stages
  <2> QED BY <2>1 DEF Handover
<1>2. ASSUME NEW c \in Calls, NEW entries \in SUBSET Carried(c), StreamAccessLogs(c, entries)
      PROVE  Handover'
  <2>1. /\ UNCHANGED <<call, worker, main>> /\ call[c] = "serving"
        /\ at' = [i \in Items |-> IF i \in entries THEN "handler" ELSE at[i]]
        /\ \A i \in entries : i \in Items /\ Via[i] = c
    BY <1>2 DEF StreamAccessLogs, Carried
  <2> QED BY <2>1 DEF Handover
<1>3. ASSUME NEW c \in Calls, Return(c) \/ StreamEnds(c) PROVE Handover'
  <2>1. /\ call' = [call EXCEPT ![c] = "returned"] /\ UNCHANGED <<at, worker, main>>
        /\ \A i \in Items : Via[i] = c => at[i] # "handler"
    BY <1>3 DEF Return, StreamEnds, Inserting, Carried
  <2> QED BY <2>1 DEF Handover
<1>4. ASSUME NEW i \in Items, Callback(i) PROVE Handover'
  <2>1. at' = [at EXCEPT ![i] = "upload"] /\ UNCHANGED <<call, worker, main>>
    BY <1>4 DEF Callback
  <2> QED BY <2>1 DEF Handover
<1> QED BY <1>1, <1>2, <1>3, <1>4 DEF Traffic

-----------------------------------------------------------------------------
\* The mesh.

LEMMA MeshInit == Init => MeshPart
BY DEF Init, MeshPart, HasClientSet, Stopping, AllWorkers

LEMMA MeshFrame ==
  ASSUME MeshPart, HasClientSet => HasClientSet', UNCHANGED meshVars,
         main' \in {"stopCollector"} \cup Stopping => main \in {"stopCollector"} \cup Stopping
  PROVE  MeshPart'
BY DEF MeshPart, meshVars

LEMMA MeshMain == Workforce /\ MeshPart /\ RolloutPart /\ MainStep => MeshPart'
<1> SUFFICES ASSUME Workforce, MeshPart, RolloutPart, MainStep PROVE MeshPart' OBVIOUS
<1> USE DEF Goes, MainOnly, itemVars, meshVars, Stopping, Stages
<1>1. CASE Start
  <2>1. worker \in [AllWorkers -> WorkerStates] /\ "informers" \in AllWorkers
        /\ "informers" \notin Processors /\ "informers" \notin Uploaders
    BY DEF Workforce, AllWorkers, Processors, Uploaders
  <2>2. HasClientSet => HasClientSet'
    BY <1>1, <2>1 DEF Start, StartCollector, StartLogProcessor, StartUploader, InitK8sClient,
                      RunInformers, Spawn, StartFails, HasClientSet
  <2>3. UNCHANGED meshVars /\ main' \in {"startProcessors", "startUploaders", "initK8s",
                                         "patchIstio", "unpatch"}
    BY <1>1 DEF Start, StartCollector, StartLogProcessor, StartUploader, InitK8sClient,
                Spawn, StartFails
  <2> QED BY <2>2, <2>3, MeshFrame
<1>2. CASE PatchIstioConfigMap
  <2>1. HasClientSet' BY <1>2 DEF PatchIstioConfigMap, Workforce, InformersOK, HasClientSet
  <2> QED BY <1>2, <2>1, RolloutStages DEF PatchIstioConfigMap, MeshPart, RolloutPart
<1>3. CASE PatchFails \/ Rollout \/ Signal
  <2>1. UNCHANGED meshVars BY <1>3 DEF PatchFails, Rollout, RolloutOnly, Signal
  <2> QED BY <1>3, <2>1, RolloutStages, MeshFrame DEF RolloutPart, HasClientSet
<1>4. CASE UnpatchIstioConfigMap \/ UnpatchFails
  BY <1>4 DEF UnpatchIstioConfigMap, UnpatchFails, MeshPart, HasClientSet
<1>5. CASE UnpatchPanics \/ StopCollector \/ ProcessorsStopped \/ UploadersStopped \/ Terminate
  BY <1>5, MeshFrame
     DEF UnpatchPanics, StopCollector, ProcessorsStopped, UploadersStopped, Terminate, HasClientSet
<1>6. ASSUME NEW w \in AllWorkers, StopProcessor(w) \/ StopUploader(w) PROVE MeshPart'
  <2>1. worker' = [worker EXCEPT ![w] = "exiting"] /\ UNCHANGED <<meshVars, main>>
    BY <1>6 DEF StopProcessor, StopUploader, Token
  <2>2. HasClientSet => HasClientSet' BY <2>1 DEF HasClientSet, Workforce, AllWorkers
  <2> QED BY <2>1, <2>2, MeshFrame
<1> QED BY <1>1, <1>2, <1>3, <1>4, <1>5, <1>6 DEF MainStep, Destroy

\* Neither the workers nor the traffic concern the mesh and the rollout.
LEMMA WorkersLeave == WorkerStep => UNCHANGED <<config, main, meshVars, rolloutVars>>
<1> SUFFICES ASSUME WorkerStep PROVE WorkersOnly BY DEF WorkersOnly, mainVars
<1>1. ASSUME NEW w \in AllWorkers, WorkerBegins(w) \/ WorkerEnds(w) PROVE WorkersOnly
  BY <1>1 DEF WorkerBegins, WorkerEnds
<1>2. ASSUME NEW i \in Items, Process(i) PROVE WorkersOnly BY <1>2 DEF Process
<1>3. ASSUME NEW i \in Items, SendBegins(i) \/ Answered(i) \/ CallFails(i) \/ DeadlinePasses(i)
      PROVE  WorkersOnly
  BY <1>3 DEF SendBegins, Answered, CallFails, DeadlinePasses, Upload
<1> QED BY <1>1, <1>2, <1>3 DEF WorkerStep

LEMMA TrafficLeaves == Traffic => UNCHANGED <<worker, config, main, meshVars, rolloutVars>>
<1> SUFFICES ASSUME Traffic PROVE CallsOnly BY DEF CallsOnly, WorkersOnly, mainVars
<1> QED BY DEF Traffic, Arrive, Return, StreamEnds, StreamAccessLogs, Callback

\* No other step touches the mesh or the client set.
LEMMA MeshOthers ==
  Workforce /\ MeshPart /\ (WorkerStep \/ Traffic \/ UsersStep \/ UNCHANGED vars) => MeshPart'
<1> SUFFICES ASSUME Workforce, MeshPart, WorkerStep \/ Traffic \/ UsersStep \/ UNCHANGED vars
             PROVE  MeshPart'
  OBVIOUS
<1>1. UNCHANGED <<meshVars, main>>
  BY WorkersLeave, TrafficLeaves DEF UsersStep, vars, mainVars
<1>2. HasClientSet => HasClientSet'
  <2>1. CASE WorkerStep
    <3>1. worker \in [AllWorkers -> WorkerStates] /\ "informers" \in AllWorkers
      BY DEF Workforce, AllWorkers
    <3>2. \/ worker' = worker
          \/ \E w \in AllWorkers, state \in {"select", "done", "busy"} :
                worker' = [worker EXCEPT ![w] = state]
      BY <2>1, Destinations
         DEF WorkerStep, WorkerBegins, WorkerEnds, Process, SendBegins, Answered, CallFails,
             DeadlinePasses, Upload, AllWorkers
    <3> QED BY <3>1, <3>2 DEF HasClientSet
  <2>2. CASE Traffic \/ UsersStep \/ UNCHANGED vars
    BY <2>2, TrafficLeaves DEF UsersStep, vars, itemVars, HasClientSet
  <2> QED BY <2>1, <2>2
<1> QED BY <1>1, <1>2, MeshFrame

-----------------------------------------------------------------------------
\* The rollout.

LEMMA RolloutPartInit == Init => RolloutPart
BY RolloutStarts DEF Init, RolloutPart

LEMMA RolloutFrame ==
  ASSUME RolloutPart, UNCHANGED <<config, rolloutVars>>,
         \/ main' = main
         \/ main' \notin {"patchNamespaces", "listDeployments", "restartDeployments", "running"}
         \/ main' \in {"listDeployments", "running"} /\ ~config.namespaces
         \/ /\ main' \in {"listDeployments", "running"}
            /\ main = "patchNamespaces" /\ DOMAIN copies = {}
         \/ main' = "running" /\ main = "restartDeployments"
  PROVE  RolloutPart'
<1>1. RolloutInv'
  BY DEF RolloutPart, RolloutInv, RolloutTypeOK, CopiesFaithful, rolloutVars, clusterVars
<1>2. /\ UNCHANGED copies
      /\ \A n \in Namespaces : HasLabel(n)' <=> HasLabel(n)
  BY DEF HasLabel, Exists, rolloutVars, clusterVars
<1> QED BY <1>1, <1>2 DEF RolloutPart

LEMMA RolloutPartMain == RolloutPart /\ MainStep => RolloutPart'
<1> SUFFICES ASSUME RolloutPart, MainStep PROVE RolloutPart' OBVIOUS
<1> USE DEF Goes, MainOnly, RolloutOnly
<1>0. config \in [namespaces : BOOLEAN, deployments : BOOLEAN] BY DEF RolloutPart
<1>1. CASE Start \/ PatchFails \/ Signal
  BY <1>1, RolloutFrame
     DEF Start, StartCollector, StartLogProcessor, StartUploader, InitK8sClient, Spawn, StartFails,
         PatchFails, Signal
<1>2. CASE Destroy
  BY <1>2, RolloutFrame
     DEF Destroy, UnpatchPanics, UnpatchIstioConfigMap, UnpatchFails, StopCollector,
         ProcessorsStopped, UploadersStopped, Terminate
<1>3. CASE PatchIstioConfigMap BY <1>0, <1>3, RolloutFrame DEF PatchIstioConfigMap
<1>4. ASSUME NEW w \in AllWorkers, StopProcessor(w) \/ StopUploader(w) PROVE RolloutPart'
  BY <1>4, RolloutFrame DEF StopProcessor, StopUploader, Token
<1>5. CASE PatchNamespaces /\ RolloutOnly
  <2>1. CASE main' = "patchNamespaces" /\ ListNamespaces
    <3>1. RolloutInv' BY <2>1, AgentKeepsRollout DEF Agent, RolloutPart
    <3>2. \A n \in Namespaces \ DOMAIN copies' : ~Exists(n)'
      BY <2>1 DEF ListNamespaces, Exists, clusterVars
    <3> QED BY <1>5, <2>1, <3>1, <3>2 DEF RolloutPart, HasLabel
  <2>2. ASSUME main = "patchNamespaces", main' = "patchNamespaces",
               NEW n \in Namespaces, UpdateNamespace(n)
        PROVE  RolloutPart'
    <3>1. /\ RolloutInv' /\ n \in DOMAIN copies
          /\ namespaces' = [namespaces EXCEPT ![n] = [enabled |-> TRUE,
                               edit |-> namespaces[n].edit, version |-> namespaces[n].version + 1]]
      BY <2>2, UpdateNamespaceWrites DEF RolloutPart
    <3>2. namespaces \in [Namespaces -> Namespace \cup {Absent}]
      BY DEF RolloutPart, RolloutInv, RolloutTypeOK
    <3>3. DOMAIN copies' = DOMAIN copies \ {n} /\ changed' = changed
      BY <2>2 DEF UpdateNamespace, Write, Rest
    <3>4. \A m \in Namespaces \ DOMAIN copies' : HasLabel(m)'
      <4> SUFFICES ASSUME NEW m \in Namespaces \ DOMAIN copies' PROVE HasLabel(m)' OBVIOUS
      <4>1. CASE m = n BY <3>1, <3>2, <4>1 DEF HasLabel, Exists
      <4>2. CASE m # n BY <2>2, <3>1, <3>2, <3>3, <4>2 DEF RolloutPart, HasLabel, Exists
      <4> QED BY <4>1, <4>2
    <3> QED BY <1>5, <2>2, <3>1, <3>4 DEF RolloutPart
  <2> QED BY <1>5, <2>1, <2>2 DEF PatchNamespaces
<1>6. CASE NamespacesPatched /\ RolloutOnly
  BY <1>6, RolloutFrame DEF NamespacesPatched, None
<1>7. CASE (PatchNamespacesFails \/ RestartDeploymentsFails) /\ RolloutOnly
  <2>1. main' = "unpatch" /\ config' = config
    BY <1>7 DEF PatchNamespacesFails, RestartDeploymentsFails
  <2>2. CASE UNCHANGED rolloutVars BY <2>1, <2>2, RolloutFrame
  <2>3. CASE NamespaceRefused \/ RestartRefused
    BY <2>1, <2>3, AgentKeepsRollout DEF Agent, RolloutPart
  <2> QED BY <1>7, <2>2, <2>3 DEF PatchNamespacesFails, RestartDeploymentsFails
<1>8. CASE RestartDeployments /\ RolloutOnly
  <2>1. /\ main = "listDeployments" /\ main' = "restartDeployments" /\ ListDeployments
        /\ config' = config
    BY <1>8 DEF RestartDeployments
  <2>2. RolloutInv' BY <2>1, AgentKeepsRollout DEF Agent, RolloutPart
  <2>3. UNCHANGED <<namespaces, changed>> BY <2>1 DEF ListDeployments, clusterVars
  <2> QED BY <2>1, <2>2, <2>3 DEF RolloutPart, HasLabel, Exists
<1>9. CASE DeploymentsRestarted /\ RolloutOnly
  BY <1>9, RolloutFrame DEF DeploymentsRestarted
<1> QED BY <1>1, <1>2, <1>3, <1>4, <1>5, <1>6, <1>7, <1>8, <1>9 DEF MainStep, Rollout

\* What a user changes has no label of the agent's, but is known to be changed.
LEMMA UsersMarkChanges ==
  RolloutInv /\ Users => \A n \in Namespaces : HasLabel(n) => HasLabel(n)'
<1> SUFFICES ASSUME RolloutInv, Users, NEW n \in Namespaces, HasLabel(n) PROVE HasLabel(n)' OBVIOUS
<1> USE DEF HasLabel, Exists
<1>0. namespaces \in [Namespaces -> Namespace \cup {Absent}] BY DEF RolloutInv, RolloutTypeOK
<1>1. ASSUME NEW m \in Namespaces,
             UserCreatesNamespace(m) \/ \E enabled \in BOOLEAN : UserEditsNamespace(m, enabled)
      PROVE  HasLabel(n)'
  <2>1. (m # n => namespaces'[n] = namespaces[n]) /\ changed' = changed \cup {m}
    BY <1>0, <1>1 DEF UserCreatesNamespace, UserEditsNamespace
  <2> QED BY <2>1
<1>2. ASSUME NEW d \in Deployments, UserCreatesDeployment(d) \/ UserDeletesDeployment(d)
      PROVE  HasLabel(n)'
  BY <1>2 DEF UserCreatesDeployment, UserDeletesDeployment
<1> QED BY <1>1, <1>2 DEF Users

LEMMA RolloutPartOthers ==
  RolloutPart /\ (WorkerStep \/ Traffic \/ UsersStep \/ UNCHANGED vars) => RolloutPart'
<1> SUFFICES ASSUME RolloutPart, WorkerStep \/ Traffic \/ UsersStep \/ UNCHANGED vars
             PROVE  RolloutPart'
  OBVIOUS
<1>1. CASE WorkerStep \/ Traffic \/ UNCHANGED vars
  <2>1. UNCHANGED <<config, main, rolloutVars>>
    BY <1>1, WorkersLeave, TrafficLeaves DEF vars, mainVars
  <2> QED BY <2>1, RolloutFrame
<1>2. CASE UsersStep
  <2>1. Users /\ UNCHANGED <<config, main>> BY <1>2 DEF UsersStep, mainVars
  <2>2. RolloutInv' BY <2>1, UsersKeepRollout DEF RolloutPart
  <2>3. UNCHANGED copies
    BY <2>1 DEF Users, UserCreatesNamespace, UserEditsNamespace, UserCreatesDeployment,
                UserDeletesDeployment
  <2> QED BY <2>1, <2>2, <2>3, UsersMarkChanges DEF RolloutPart
<1> QED BY <1>1, <1>2

LEMMA AgentStarts == Init => IInv
BY WorkforceInit, HandoverInit, MeshInit, RolloutPartInit DEF IInv

LEMMA AgentSteps == IInv /\ [Next]_vars => IInv'
<1> SUFFICES ASSUME IInv, [Next]_vars PROVE IInv' OBVIOUS
<1>1. Workforce' BY WorkforceNext DEF IInv, RolloutPart
<1>2. Handover'
  <2>1. CASE UsersStep BY <2>1, HandoverFrame DEF UsersStep, itemVars, mainVars, IInv, Handover
  <2>2. CASE UNCHANGED vars
    BY <2>2, HandoverFrame DEF vars, itemVars, mainVars, IInv, Handover
  <2> QED BY <2>1, <2>2, HandoverMain, HandoverWorker, HandoverTraffic DEF IInv, Next
<1>3. MeshPart' BY MeshMain, MeshOthers DEF IInv, Next
<1>4. RolloutPart' BY RolloutPartMain, RolloutPartOthers DEF IInv, Next
<1> QED BY <1>1, <1>2, <1>3, <1>4 DEF IInv

-----------------------------------------------------------------------------
(***************************************************************************)
(* Every reachable state of the agent satisfies the inductive invariant:   *)
(* stages, tokens, workers and the wait group agree, the client set is     *)
(* there when the mesh is patched, and PatchNamespaces leaves no namespace *)
(* that it has passed without its label.                                   *)
(***************************************************************************)
THEOREM AgentInvariant == Spec => []IInv
BY AgentStarts, AgentSteps, PTL DEF Spec

\* Every variable of the agent's life cycle keeps its type.
THEOREM AgentTypeCorrect == Spec => []TypeOK
<1>1. IInv => TypeOK
  BY BegunSize DEF IInv, Workforce, Handover, MeshPart, RolloutPart, RolloutInv, TypeOK,
                   WorkerStates, MainStates, WaitGroupExact, Begun
<1> QED BY <1>1, AgentInvariant, PTL

\* The counter main waits for is the number of workers that have begun and not ended.
THEOREM AgentCounterExact == Spec => []WaitGroupExact
<1>1. IInv => WaitGroupExact BY DEF IInv, Workforce
<1> QED BY <1>1, AgentInvariant, PTL

\* The agent's end cuts off no worker, no handler and no call to the manager.
THEOREM AgentCutsNothingOff == Spec => []NothingCutOff
<1>1. IInv => NothingCutOff
  <2> SUFFICES ASSUME IInv, main = "terminated"
               PROVE  /\ \A w \in AllWorkers : worker[w] = "done"
                      /\ \A c \in Calls : call[c] # "serving"
                      /\ \A i \in Items : at[i] \notin {"handler", "call"}
    BY DEF NothingCutOff
  <2>1. Cardinality(Begun) = 0 BY DEF IInv, Workforce, StageOK, WaitGroupExact, Begun
  <2>2. Begun = {} BY <2>1, BegunSize, FS_EmptySet
  <2>3. \A w \in Staged : worker[w] = "done"
    BY <2>2 DEF IInv, Workforce, StageOK, Told, Begun, Staged, AllWorkers
  <2>4. worker["informers"] = "done"
    BY <2>2 DEF IInv, Workforce, InformersOK, Begun, AllWorkers, Stopping
  <2>5. \A w \in AllWorkers : worker[w] = "done" BY <2>3, <2>4 DEF AllWorkers, Staged
  <2>6. \A c \in Calls : call[c] # "serving" BY DEF IInv, Handover, Stopping
  <2>7. \A i \in Items : at[i] \notin {"handler", "call"}
    BY <2>3, <2>6, Destinations DEF IInv, Handover, Staged
  <2> QED BY <2>5, <2>6, <2>7
<1> QED BY <1>1, AgentInvariant, PTL

\* A mesh that still names an agent that has gone was refused its unpatch.
THEOREM AgentClearsMesh == Spec => []MeshIsCleared
<1>1. IInv => MeshIsCleared
  BY DEF IInv, Workforce, InformersOK, MeshPart, HasClientSet, Stopping, MeshIsCleared
<1> QED BY <1>1, AgentInvariant, PTL

\* Every step that touches the rollout is the agent's or a user's.
LEMMA RolloutSteps == [Next]_vars => Agent \/ Users \/ UNCHANGED rolloutVars
<1> SUFFICES ASSUME [Next]_vars PROVE Agent \/ Users \/ UNCHANGED rolloutVars OBVIOUS
<1>1. CASE Start \/ PatchIstioConfigMap \/ PatchFails \/ Signal
  BY <1>1 DEF Start, StartCollector, StartLogProcessor, StartUploader, InitK8sClient, Spawn,
              StartFails, PatchIstioConfigMap, PatchFails, Signal, MainOnly
<1>2. CASE Rollout
  BY <1>2 DEF Rollout, Agent, PatchNamespaces, NamespacesPatched, PatchNamespacesFails,
              RestartDeployments, DeploymentsRestarted, RestartDeploymentsFails
<1>3. CASE Destroy
  BY <1>3 DEF Destroy, UnpatchPanics, UnpatchIstioConfigMap, UnpatchFails, StopCollector,
              ProcessorsStopped, UploadersStopped, Terminate, MainOnly
<1>4. ASSUME NEW w \in AllWorkers, StopProcessor(w) \/ StopUploader(w) PROVE UNCHANGED rolloutVars
  BY <1>4 DEF StopProcessor, StopUploader, Token
<1>5. CASE UsersStep BY <1>5 DEF UsersStep
<1>6. CASE UNCHANGED vars BY <1>6 DEF vars
<1> QED BY <1>1, <1>2, <1>3, <1>4, <1>5, <1>6, WorkersLeave, TrafficLeaves DEF Next, MainStep

\* Agent() implements the rollout: what it does to namespaces and deployments
\* between its start and its end are steps of the two functions, or users'.
THEOREM AgentImplementsRollout == Spec => RolloutSpec
<1>1. Init => RolloutInit BY DEF Init
<1>2. [Next]_vars => [RolloutNext]_rolloutVars BY RolloutSteps DEF RolloutNext
<1> QED BY <1>1, <1>2, PTL DEF Spec, RolloutSpec

\* No update by the agent takes back what a user or a controller wrote: it
\* implements the rollout, which does not.
THEOREM UsersEditsSurvive == Spec => EditsSurvive
BY AgentImplementsRollout, RolloutKeepsEdits, PTL

\* Past PatchNamespaces every namespace has the label, but those that users have
\* changed or made since it listed them: it lost none and skipped none.
THEOREM RolloutIsComplete == Spec => []RolloutReachesAll
<1>1. IInv => RolloutReachesAll BY DEF IInv, RolloutPart, HasLabel, RolloutReachesAll
<1> QED BY <1>1, AgentInvariant, PTL

-----------------------------------------------------------------------------
(***************************************************************************)
(* What is still ahead.  Main goes through its stages, a worker begins,    *)
(* takes its token and ends, a call arrives and returns, an item is        *)
(* inserted, processed, sent and settled, and PatchNamespaces passes every *)
(* namespace: each of these happens once at most.                          *)
(***************************************************************************)
Stage(m) ==
    CASE m = "startCollector" -> 0 [] m = "startProcessors" -> 1 [] m = "startUploaders" -> 2
      [] m = "initK8s" -> 3 [] m = "patchIstio" -> 4 [] m = "listNamespaces" -> 5
      [] m = "patchNamespaces" -> 6 [] m = "listDeployments" -> 7
      [] m = "restartDeployments" -> 8 [] m = "running" -> 9 [] m = "unpatch" -> 10
      [] m = "stopCollector" -> 11 [] m = "stopProcessors" -> 12 [] m = "stopUploaders" -> 13
      [] m = "wait" -> 14 [] OTHER -> 15

MainAhead(x, step) == step = "main" /\ x \in 1..15 /\ x > Stage(main)

WorkersAhead(w, step) ==
    \/ step = "begin" /\ w \in AllWorkers /\ worker[w] \in {"unborn", "spawned"}
    \/ step = "token" /\ w \in AllWorkers /\ ~Told(w)
    \/ step = "end" /\ w \in AllWorkers /\ worker[w] # "done"

CallsAhead(c, step) ==
    \/ step = "arrive" /\ c \in Calls /\ call[c] = "none"
    \/ step = "return" /\ c \in Calls /\ call[c] # "returned"

ItemsAhead(i, step) ==
    \/ step = "insert" /\ i \in Items /\ at[i] = "source"
    \/ step = "process" /\ i \in Items /\ at[i] \in {"source", "handler"}
    \/ step = "send" /\ i \in Items /\ at[i] \in {"source", "handler", "upload"}
    \/ step = "settle" /\ i \in Items /\ at[i] \in {"source", "handler", "upload", "call"}

RolloutAhead(n, step) ==
    step = "patch" /\ n \in Namespaces /\ (Stage(main) <= 5 \/ n \in DOMAIN copies)

Undone(x, step) == \/ MainAhead(x, step) \/ WorkersAhead(x, step) \/ CallsAhead(x, step)
                   \/ ItemsAhead(x, step) \/ RolloutAhead(x, step)

Steps == {"main", "begin", "token", "end", "arrive", "return", "insert", "process", "send",
          "settle", "patch"}
Actors == (1..15) \cup AllWorkers \cup Calls \cup Items \cup Namespaces
Ahead == {a \in Actors \X Steps : Undone(a[1], a[2])}

Less == Ahead' \subseteq Ahead /\ Ahead' # Ahead

NoMoreWork == \A w, step : WorkersAhead(w, step)' => WorkersAhead(w, step)
NoMoreCalls == \A c, step : CallsAhead(c, step)' => CallsAhead(c, step)
NoMoreItems == \A i, step : ItemsAhead(i, step)' => ItemsAhead(i, step)
NoMoreRollout == \A o, step : RolloutAhead(o, step)' => RolloutAhead(o, step)

LEMMA StageRange == \A m : Stage(m) \in 0..15
BY DEF Stage

\* Nothing new lies ahead and one thing does no more.
LEMMA DoneIsLess ==
  ASSUME Stage(main) <= Stage(main'), NoMoreWork, NoMoreCalls, NoMoreItems, NoMoreRollout,
         NEW x, NEW step,
         \/ MainAhead(x, step) /\ ~MainAhead(x, step)'
         \/ WorkersAhead(x, step) /\ ~WorkersAhead(x, step)'
         \/ CallsAhead(x, step) /\ ~CallsAhead(x, step)'
         \/ ItemsAhead(x, step) /\ ~ItemsAhead(x, step)'
         \/ RolloutAhead(x, step) /\ ~RolloutAhead(x, step)'
  PROVE  Less
<1>1. \A y, s : MainAhead(y, s)' => MainAhead(y, s) BY StageRange DEF MainAhead
<1>2. \A y, s : Undone(y, s)' => Undone(y, s)
  BY <1>1 DEF Undone, NoMoreWork, NoMoreCalls, NoMoreItems, NoMoreRollout
<1>3. Undone(x, step) BY DEF Undone
<1>4. ~Undone(x, step)'
  <2>1. \A s : /\ (\E y : MainAhead(y, s)) => s = "main"
               /\ (\E y : WorkersAhead(y, s)) => s \in {"begin", "token", "end"}
               /\ (\E y : CallsAhead(y, s)) => s \in {"arrive", "return"}
               /\ (\E y : ItemsAhead(y, s)) => s \in {"insert", "process", "send", "settle"}
               /\ (\E y : RolloutAhead(y, s)) => s = "patch"
    BY DEF MainAhead, WorkersAhead, CallsAhead, ItemsAhead, RolloutAhead
  <2> QED BY <1>1, <2>1 DEF Undone, NoMoreWork, NoMoreCalls, NoMoreItems, NoMoreRollout
<1>5. <<x, step>> \in Actors \X Steps
  BY <1>3 DEF Undone, MainAhead, WorkersAhead, CallsAhead, ItemsAhead, RolloutAhead, Actors, Steps
<1>6. Ahead' \subseteq Ahead BY <1>2 DEF Ahead
<1>7. <<x, step>> \in Ahead BY <1>3, <1>5 DEF Ahead
<1>8. <<x, step>> \notin Ahead' BY <1>4, <1>5 DEF Ahead
<1> QED BY <1>6, <1>7, <1>8 DEF Less

\* Main goes on.
LEMMA AdvanceIsLess ==
  ASSUME Stage(main) < Stage(main'), NoMoreWork, UNCHANGED <<call, at>>, NoMoreRollout
  PROVE  Less
<1>1. NoMoreCalls /\ NoMoreItems
  BY DEF NoMoreCalls, NoMoreItems, CallsAhead, ItemsAhead
<1>2. PICK n \in 1..15 : n = Stage(main') BY StageRange
<1>3. Stage(main) <= Stage(main') BY StageRange
<1>4. MainAhead(n, "main") /\ ~MainAhead(n, "main")' BY <1>2 DEF MainAhead
<1> QED BY <1>1, <1>3, <1>4, DoneIsLess

LEMMA RolloutStays ==
  ASSUME Stage(main) <= Stage(main'), UNCHANGED rolloutVars PROVE NoMoreRollout
BY StageRange DEF NoMoreRollout, RolloutAhead, rolloutVars

LEMMA WorkersStay == ASSUME worker' = worker PROVE NoMoreWork
BY DEF NoMoreWork, WorkersAhead, Told

\* Main goes on and nothing else changes that is counted.
LEMMA OnlyAdvance ==
  ASSUME Stage(main) < Stage(main'), UNCHANGED <<worker, call, at, rolloutVars>>
  PROVE  Less
<1>1. Stage(main) <= Stage(main') BY StageRange
<1> QED BY <1>1, AdvanceIsLess, RolloutStays, WorkersStay

LEMMA StartIsLess == IInv /\ Start => Less
<1> SUFFICES ASSUME IInv, Start PROVE Less OBVIOUS
<1> USE DEF Goes, MainOnly, itemVars
<1>1. ASSUME NEW ws, Spawn(ws), \A w \in ws : worker[w] = "unborn" PROVE NoMoreWork
  BY <1>1 DEF Spawn, NoMoreWork, WorkersAhead, Told
<1>2. CASE StartLogProcessor
  <2>1. \A w \in Processors : worker[w] = "unborn"
    BY <1>2 DEF StartLogProcessor, IInv, Workforce, StageOK, AllWorkers
  <2>2. NoMoreWork BY <1>1, <1>2, <2>1 DEF StartLogProcessor
  <2>3. Stage(main) < Stage(main') /\ UNCHANGED <<call, at, rolloutVars>>
    BY <1>2 DEF StartLogProcessor, Spawn, Stage
  <2>4. Stage(main) <= Stage(main') BY <2>3, StageRange
  <2> QED BY <2>2, <2>3, <2>4, AdvanceIsLess, RolloutStays
<1>3. CASE StartUploader
  <2>1. \A w \in Uploaders : worker[w] = "unborn"
    BY <1>3 DEF StartUploader, IInv, Workforce, StageOK
  <2>2. NoMoreWork BY <1>1, <1>3, <2>1 DEF StartUploader
  <2>3. Stage(main) < Stage(main') /\ UNCHANGED <<call, at, rolloutVars>>
    BY <1>3 DEF StartUploader, Spawn, Stage
  <2>4. Stage(main) <= Stage(main') BY <2>3, StageRange
  <2> QED BY <2>2, <2>3, <2>4, AdvanceIsLess, RolloutStays
<1>4. CASE InitK8sClient
  <2>1. /\ worker["informers"] = "unborn" /\ worker' = [worker EXCEPT !["informers"] = "select"]
        /\ worker \in [AllWorkers -> WorkerStates]
    BY <1>4 DEF InitK8sClient, RunInformers, IInv, Workforce, InformersOK
  <2>2. NoMoreWork BY <2>1 DEF NoMoreWork, WorkersAhead, Told
  <2>3. Stage(main) < Stage(main') /\ UNCHANGED <<call, at, rolloutVars>>
    BY <1>4 DEF InitK8sClient, Stage
  <2>4. Stage(main) <= Stage(main') BY <2>3, StageRange
  <2> QED BY <2>2, <2>3, <2>4, AdvanceIsLess, RolloutStays
<1>5. CASE StartCollector BY <1>5, OnlyAdvance DEF StartCollector, Stage
<1>6. CASE StartFails BY <1>6, OnlyAdvance DEF StartFails, Stage
<1> QED BY <1>2, <1>3, <1>4, <1>5, <1>6 DEF Start

LEMMA DestroyIsLess == Signal \/ Destroy => Less
<1> SUFFICES ASSUME Signal \/ Destroy PROVE Less OBVIOUS
<1> USE DEF Goes, MainOnly, itemVars
<1>1. CASE Signal BY <1>1, OnlyAdvance DEF Signal, Stage
<1>2. CASE UnpatchPanics BY <1>2, OnlyAdvance DEF UnpatchPanics, Stage
<1>3. CASE UnpatchIstioConfigMap BY <1>3, OnlyAdvance DEF UnpatchIstioConfigMap, Stage
<1>4. CASE UnpatchFails BY <1>4, OnlyAdvance DEF UnpatchFails, Stage
<1>5. CASE StopCollector BY <1>5, OnlyAdvance DEF StopCollector, Stage
<1>6. CASE ProcessorsStopped BY <1>6, OnlyAdvance DEF ProcessorsStopped, Stage
<1>7. CASE UploadersStopped BY <1>7, OnlyAdvance DEF UploadersStopped, Stage
<1>8. CASE Terminate BY <1>8, OnlyAdvance DEF Terminate, Stage
<1> QED BY <1>1, <1>2, <1>3, <1>4, <1>5, <1>6, <1>7, <1>8 DEF Destroy

LEMMA PatchIsLess == IInv /\ (PatchIstioConfigMap \/ PatchFails) => Less
<1> SUFFICES ASSUME IInv, PatchIstioConfigMap \/ PatchFails PROVE Less OBVIOUS
<1> USE DEF Goes, itemVars
<1>1. CASE PatchIstioConfigMap BY <1>1, OnlyAdvance DEF PatchIstioConfigMap, Stage
<1>2. CASE PatchFails BY <1>2, OnlyAdvance DEF PatchFails, MainOnly, Stage
<1> QED BY <1>1, <1>2

LEMMA RolloutIsLess == IInv /\ Rollout => Less
<1> SUFFICES ASSUME IInv, Rollout PROVE Less OBVIOUS
<1> USE DEF Goes
<1>0. /\ worker' = worker /\ UNCHANGED <<call, at>> /\ NoMoreWork
      /\ NoMoreCalls /\ NoMoreItems
  BY WorkersStay DEF Rollout, RolloutOnly, itemVars, NoMoreCalls, NoMoreItems, CallsAhead, ItemsAhead
<1>1. ASSUME main = "listNamespaces", main' = "patchNamespaces", ListNamespaces PROVE Less
  <2>1. Stage(main) = 5 /\ Stage(main') = 6 BY <1>1 DEF Stage
  <2>2. NoMoreRollout BY <1>1, <2>1 DEF ListNamespaces, NoMoreRollout, RolloutAhead
  <2> QED BY <1>0, <2>1, <2>2, AdvanceIsLess
<1>2. ASSUME main = "patchNamespaces", main' = main, NEW n \in Namespaces, UpdateNamespace(n)
      PROVE  Less
  <2>1. Stage(main) = 6 BY <1>2 DEF Stage
  <2>2. /\ DOMAIN copies' = DOMAIN copies \ {n} /\ n \in DOMAIN copies
    BY <1>2 DEF UpdateNamespace, Write, Rest
  <2>3. NoMoreRollout BY <1>2, <2>1, <2>2 DEF NoMoreRollout, RolloutAhead
  <2>4. RolloutAhead(n, "patch") /\ ~RolloutAhead(n, "patch")'
    BY <1>2, <2>1, <2>2 DEF RolloutAhead
  <2>5. Stage(main) <= Stage(main') BY <1>2, <2>1
  <2> QED BY <1>0, <2>3, <2>4, <2>5, DoneIsLess
<1>3. CASE NamespacesPatched
  <2>1. Stage(main) < Stage(main') /\ UNCHANGED rolloutVars
    BY <1>3 DEF NamespacesPatched, Stage
  <2> QED BY <1>0, <2>1, OnlyAdvance
<1>4. CASE PatchNamespacesFails
  <2>1. Stage(main) < Stage(main') /\ Stage(main') = 10 BY <1>4 DEF PatchNamespacesFails, Stage
  <2>2. DOMAIN copies' \subseteq DOMAIN copies
    BY <1>4 DEF PatchNamespacesFails, NamespaceRefused, rolloutVars, None
  <2>3. NoMoreRollout BY <2>1, <2>2 DEF NoMoreRollout, RolloutAhead
  <2> QED BY <1>0, <2>1, <2>3, AdvanceIsLess
<1>5. ASSUME main = "listDeployments", main' = "restartDeployments", ListDeployments PROVE Less
  <2>1. Stage(main) = 7 /\ Stage(main') = 8 BY <1>5 DEF Stage
  <2>2. NoMoreRollout BY <1>5, <2>1 DEF ListDeployments, NoMoreRollout, RolloutAhead, clusterVars
  <2> QED BY <1>0, <2>1, <2>2, AdvanceIsLess
<1>6. CASE DeploymentsRestarted
  <2>1. Stage(main) < Stage(main') /\ UNCHANGED rolloutVars
    BY <1>6 DEF DeploymentsRestarted, Stage
  <2> QED BY <1>0, <2>1, OnlyAdvance
<1>7. CASE RestartDeploymentsFails
  <2>1. Stage(main) < Stage(main') /\ Stage(main') = 10
    BY <1>7 DEF RestartDeploymentsFails, Stage
  <2>2. UNCHANGED copies BY <1>7 DEF RestartDeploymentsFails, RestartRefused, rolloutVars
  <2>3. NoMoreRollout BY <2>1, <2>2 DEF NoMoreRollout, RolloutAhead
  <2> QED BY <1>0, <2>1, <2>3, AdvanceIsLess
<1>8. CASE PatchNamespaces BY <1>1, <1>2, <1>8 DEF PatchNamespaces
<1>9. CASE RestartDeployments BY <1>5, <1>9 DEF RestartDeployments
<1> QED BY <1>3, <1>4, <1>6, <1>7, <1>8, <1>9 DEF Rollout

\* A worker begins, takes its token or ends.
LEMMA WorkerIsLess ==
  ASSUME worker \in [AllWorkers -> WorkerStates], NEW w \in AllWorkers,
         NEW s \in {"select", "exiting", "done"}, worker' = [worker EXCEPT ![w] = s],
         \/ worker[w] = "spawned" /\ s = "select"
         \/ worker[w] = "select" /\ s = "exiting"
         \/ worker[w] # "done" /\ s = "done",
         UNCHANGED <<main, call, at, rolloutVars>>
  PROVE  Less
<1>1. \A v \in AllWorkers : v # w => worker'[v] = worker[v] OBVIOUS
<1>2. worker'[w] = s OBVIOUS
<1>3. NoMoreWork BY <1>1, <1>2 DEF NoMoreWork, WorkersAhead, Told
<1>4. NoMoreCalls /\ NoMoreItems BY DEF NoMoreCalls, NoMoreItems, CallsAhead, ItemsAhead
<1>5. Stage(main) <= Stage(main') /\ NoMoreRollout BY StageRange, RolloutStays
<1>6. CASE s = "select"
  <2>1. WorkersAhead(w, "begin") /\ ~WorkersAhead(w, "begin")' BY <1>2, <1>6 DEF WorkersAhead
  <2> QED BY <1>3, <1>4, <1>5, <2>1, DoneIsLess
<1>7. CASE s = "exiting"
  <2>1. WorkersAhead(w, "token") /\ ~WorkersAhead(w, "token")'
    BY <1>2, <1>7 DEF WorkersAhead, Told
  <2> QED BY <1>3, <1>4, <1>5, <2>1, DoneIsLess
<1>8. CASE s = "done"
  <2>1. WorkersAhead(w, "end") /\ ~WorkersAhead(w, "end")' BY <1>2, <1>8 DEF WorkersAhead
  <2> QED BY <1>3, <1>4, <1>5, <2>1, DoneIsLess
<1> QED BY <1>6, <1>7, <1>8

\* What comes by a call that has not arrived is still at its source.
Fresh == \A i \in Items : Via[i] \in Calls /\ call[Via[i]] = "none" => at[i] = "source"

LEMMA FreshSteps == IInv /\ Fresh /\ [Next]_vars => Fresh'
<1> SUFFICES ASSUME IInv, Fresh, [Next]_vars PROVE Fresh' OBVIOUS
<1>0. /\ call \in [Calls -> {"none", "serving", "returned"}]
      /\ at \in [Items -> {"source", "handler", "upload", "call", "sent", "failed"}]
  BY DEF IInv, Handover
<1> USE DEF Fresh, CallsOnly, WorkersOnly
<1>1. ASSUME UNCHANGED <<call, at>> PROVE Fresh' BY <1>1
<1>2. ASSUME NEW i \in Items, NEW to, at[i] # "source", at' = [at EXCEPT ![i] = to], call' = call
      PROVE  Fresh'
  BY <1>0, <1>2
<1>3. CASE MainStep
  <2>1. UNCHANGED <<call, at>>
    BY <1>3, RolloutStages
       DEF IInv, RolloutPart, MainStep, Start, StartCollector, StartLogProcessor, StartUploader,
           InitK8sClient, StartFails, Spawn, MainOnly, itemVars, Destroy, UnpatchPanics,
           UnpatchIstioConfigMap, UnpatchFails, StopCollector, ProcessorsStopped, UploadersStopped,
           Terminate, StopProcessor, StopUploader, Token
  <2> QED BY <1>1, <2>1
<1>4. CASE WorkerStep
  <2>1. ASSUME NEW i \in Items,
               Process(i) \/ SendBegins(i) \/ Answered(i) \/ CallFails(i) \/ DeadlinePasses(i)
        PROVE  Fresh'
    BY <1>2, <2>1 DEF Process, SendBegins, Answered, CallFails, DeadlinePasses, Upload
  <2> QED BY <1>1, <1>4, <2>1 DEF WorkerStep, WorkerBegins, WorkerEnds
<1>5. ASSUME NEW c \in Calls, Arrive(c) PROVE Fresh' BY <1>0, <1>5 DEF Arrive
<1>6. ASSUME NEW c \in Calls, Return(c) \/ StreamEnds(c) PROVE Fresh'
  BY <1>0, <1>6 DEF Return, StreamEnds
<1>7. ASSUME NEW c \in Calls, NEW entries \in SUBSET Carried(c), StreamAccessLogs(c, entries)
      PROVE  Fresh'
  <2>1. /\ call' = call /\ call[c] = "serving" /\ \A i \in entries : i \in Items /\ Via[i] = c
        /\ at' = [i \in Items |-> IF i \in entries THEN "handler" ELSE at[i]]
    BY <1>7 DEF StreamAccessLogs, Carried
  <2> QED BY <1>0, <2>1
<1>8. ASSUME NEW i \in Items, Callback(i) PROVE Fresh'
  BY <1>0, <1>8 DEF Callback
<1>9. CASE UsersStep \/ UNCHANGED vars
  BY <1>1, <1>9 DEF UsersStep, vars, itemVars
<1> QED BY <1>3, <1>4, <1>5, <1>6, <1>7, <1>8, <1>9 DEF Next, Traffic

\* An item goes on; the workers keep what they have begun and their tokens.
LEMMA ItemIsLess ==
  ASSUME IInv, NEW i \in Items,
         NEW to \in {"upload", "call", "sent", "failed"}, at' = [at EXCEPT ![i] = to],
         \/ at[i] \in {"source", "handler"} /\ to = "upload"
         \/ at[i] = "upload" /\ to = "call"
         \/ at[i] = "call" /\ to \in {"sent", "failed"},
         \/ worker' = worker
         \/ /\ worker[Uploader(i)] \in {"select", "busy"}
            /\ \E s \in {"select", "busy"} : worker' = [worker EXCEPT ![Uploader(i)] = s],
         UNCHANGED <<main, call, rolloutVars>>
  PROVE  Less
<1>0. /\ at \in [Items -> {"source", "handler", "upload", "call", "sent", "failed"}]
      /\ worker \in [AllWorkers -> WorkerStates]
  BY DEF IInv, Handover, Workforce
<1>1. \A j \in Items : j # i => at'[j] = at[j] BY <1>0
<1>2. at'[i] = to BY <1>0
<1>3. NoMoreItems BY <1>1, <1>2 DEF NoMoreItems, ItemsAhead
<1>4. NoMoreWork
  <2>1. CASE worker' = worker BY <2>1, WorkersStay
  <2>2. ASSUME worker[Uploader(i)] \in {"select", "busy"}, NEW s \in {"select", "busy"},
               worker' = [worker EXCEPT ![Uploader(i)] = s]
        PROVE  NoMoreWork
    <3>1. Uploader(i) \in AllWorkers BY Destinations DEF AllWorkers
    <3>2. \A v \in AllWorkers : \/ worker'[v] = worker[v]
                                \/ worker[v] \in {"select", "busy"} /\ worker'[v] \in {"select", "busy"}
      BY <1>0, <2>2, <3>1
    <3> QED BY <3>2 DEF NoMoreWork, WorkersAhead, Told
  <2> QED BY <2>1, <2>2
<1>5. NoMoreCalls BY DEF NoMoreCalls, CallsAhead
<1>6. Stage(main) <= Stage(main') /\ NoMoreRollout BY StageRange, RolloutStays
<1>7. CASE at[i] \in {"source", "handler"}
  <2>1. ItemsAhead(i, "process") /\ ~ItemsAhead(i, "process")' BY <1>2, <1>7 DEF ItemsAhead
  <2> QED BY <1>3, <1>4, <1>5, <1>6, <2>1, DoneIsLess
<1>8. CASE at[i] = "upload"
  <2>1. ItemsAhead(i, "send") /\ ~ItemsAhead(i, "send")' BY <1>2, <1>8 DEF ItemsAhead
  <2> QED BY <1>3, <1>4, <1>5, <1>6, <2>1, DoneIsLess
<1>9. CASE at[i] = "call"
  <2>1. ItemsAhead(i, "settle") /\ ~ItemsAhead(i, "settle")' BY <1>2, <1>9 DEF ItemsAhead
  <2> QED BY <1>3, <1>4, <1>5, <1>6, <2>1, DoneIsLess
<1> QED BY <1>7, <1>8, <1>9

LEMMA WorkerStepIsLess == IInv /\ WorkerStep => Less
<1> SUFFICES ASSUME IInv, WorkerStep PROVE Less OBVIOUS
<1> USE DEF WorkersOnly, mainVars
<1>0. worker \in [AllWorkers -> WorkerStates] BY DEF IInv, Workforce
<1>1. ASSUME NEW w \in AllWorkers, WorkerBegins(w) PROVE Less
  BY <1>0, <1>1, WorkerIsLess DEF WorkerBegins
<1>2. ASSUME NEW w \in AllWorkers, WorkerEnds(w) PROVE Less
  BY <1>0, <1>2, WorkerIsLess DEF WorkerEnds
<1>3. ASSUME NEW i \in Items, Process(i) PROVE Less BY <1>3, ItemIsLess DEF Process
<1>4. ASSUME NEW i \in Items, SendBegins(i) PROVE Less
  BY <1>4, ItemIsLess DEF SendBegins, Upload
<1>5. ASSUME NEW i \in Items, Answered(i) \/ CallFails(i) \/ DeadlinePasses(i) PROVE Less
  <2>1. at[i] = "call" /\ worker[Uploader(i)] = "busy"
    BY <1>5 DEF Answered, CallFails, DeadlinePasses, Upload, IInv, Handover
  <2> QED BY <1>5, <2>1, ItemIsLess DEF Answered, CallFails, DeadlinePasses, Upload
<1> QED BY <1>1, <1>2, <1>3, <1>4, <1>5 DEF WorkerStep

LEMMA TrafficIsLess == IInv /\ Fresh /\ Traffic => Less
<1> SUFFICES ASSUME IInv, Fresh, Traffic PROVE Less OBVIOUS
<1> USE DEF CallsOnly, WorkersOnly, mainVars
<1>0. /\ call \in [Calls -> {"none", "serving", "returned"}]
      /\ at \in [Items -> {"source", "handler", "upload", "call", "sent", "failed"}]
  BY DEF IInv, Handover
<1>1. UNCHANGED <<main, worker, rolloutVars>> BY TrafficLeaves
<1>2. Stage(main) <= Stage(main') /\ NoMoreRollout /\ NoMoreWork
  BY <1>1, StageRange, RolloutStays, WorkersStay
<1>3. ASSUME NEW c \in Calls, Arrive(c) PROVE Less
  <2>1. /\ call[c] = "none" /\ call' = [call EXCEPT ![c] = "serving"]
        /\ \A i \in Items : at'[i] = at[i] \/ (Via[i] = c /\ at'[i] = "handler")
    BY <1>3 DEF Arrive
  <2>2. \A i \in Items : at'[i] = at[i] \/ (at[i] = "source" /\ at'[i] = "handler")
    BY <2>1 DEF Fresh
  <2>3. NoMoreItems BY <2>2 DEF NoMoreItems, ItemsAhead
  <2>4. \A d \in Calls : d # c => call'[d] = call[d] BY <2>1
  <2>5. call'[c] = "serving" BY <1>0, <2>1
  <2>6. NoMoreCalls BY <2>1, <2>4, <2>5 DEF NoMoreCalls, CallsAhead
  <2>7. CallsAhead(c, "arrive") /\ ~CallsAhead(c, "arrive")' BY <2>1, <2>5 DEF CallsAhead
  <2> QED BY <1>2, <2>3, <2>6, <2>7, DoneIsLess
<1>4. ASSUME NEW c \in Calls, Return(c) \/ StreamEnds(c) PROVE Less
  <2>1. call[c] = "serving" /\ call' = [call EXCEPT ![c] = "returned"] /\ at' = at
    BY <1>4 DEF Return, StreamEnds
  <2>2. NoMoreItems BY <2>1 DEF NoMoreItems, ItemsAhead
  <2>3. \A d \in Calls : d # c => call'[d] = call[d] BY <2>1
  <2>4. call'[c] = "returned" BY <1>0, <2>1
  <2>5. NoMoreCalls BY <2>1, <2>3, <2>4 DEF NoMoreCalls, CallsAhead
  <2>6. CallsAhead(c, "return") /\ ~CallsAhead(c, "return")' BY <2>1, <2>4 DEF CallsAhead
  <2> QED BY <1>2, <2>2, <2>5, <2>6, DoneIsLess
<1>5. ASSUME NEW c \in Calls, NEW entries \in SUBSET Carried(c), StreamAccessLogs(c, entries)
      PROVE  Less
  <2>1. /\ call' = call /\ entries # {} /\ \A i \in entries : i \in Items /\ at[i] = "source"
        /\ at' = [i \in Items |-> IF i \in entries THEN "handler" ELSE at[i]]
    BY <1>5 DEF StreamAccessLogs, Carried
  <2>2. PICK i \in entries : i \in Items /\ at[i] = "source" /\ at'[i] = "handler" BY <2>1
  <2>3. \A j \in Items : at'[j] = at[j] \/ (at[j] = "source" /\ at'[j] = "handler") BY <2>1
  <2>4. NoMoreItems BY <2>3 DEF NoMoreItems, ItemsAhead
  <2>5. NoMoreCalls BY <2>1 DEF NoMoreCalls, CallsAhead
  <2>6. ItemsAhead(i, "insert") /\ ~ItemsAhead(i, "insert")' BY <2>2 DEF ItemsAhead
  <2> QED BY <1>2, <2>4, <2>5, <2>6, DoneIsLess
<1>6. ASSUME NEW i \in Items, Callback(i) PROVE Less
  BY <1>1, <1>6, ItemIsLess DEF Callback
<1> QED BY <1>3, <1>4, <1>5, <1>6 DEF Traffic

LEMMA StepIsLess == IInv /\ Fresh /\ Next /\ ~UsersStep => Less
<1> SUFFICES ASSUME IInv, Fresh, Next, ~UsersStep PROVE Less OBVIOUS
<1>1. ASSUME NEW w \in AllWorkers, StopProcessor(w) \/ StopUploader(w) PROVE Less
  <2>1. /\ worker' = [worker EXCEPT ![w] = "exiting"] /\ worker[w] = "select"
        /\ UNCHANGED <<main, call, at, rolloutVars>>
    BY <1>1 DEF StopProcessor, StopUploader, Token
  <2> QED BY <2>1, WorkerIsLess DEF IInv, Workforce
<1> QED BY <1>1, StartIsLess, DestroyIsLess, PatchIsLess, RolloutIsLess, WorkerStepIsLess,
           TrafficIsLess
        DEF Next, MainStep

LEMMA WorkIsFinite ==
  ASSUME IsFiniteSet(Calls), IsFiniteSet(Items), IsFiniteSet(Namespaces)
  PROVE  IsFiniteSet(Ahead) /\ Cardinality(Ahead) \in Nat
<1>1. ASSUME NEW S, NEW x, IsFiniteSet(S) PROVE IsFiniteSet(S \cup {x}) BY <1>1, FS_AddElement
<1>2. IsFiniteSet(Steps)
  <2> DEFINE S1 == {} \cup {"main"}    S2 == S1 \cup {"begin"}    S3 == S2 \cup {"token"}
             S4 == S3 \cup {"end"}     S5 == S4 \cup {"arrive"}   S6 == S5 \cup {"return"}
             S7 == S6 \cup {"insert"}  S8 == S7 \cup {"process"}  S9 == S8 \cup {"send"}
             S10 == S9 \cup {"settle"}
  <2>1. Steps = S10 \cup {"patch"} BY DEF Steps
  <2>2. IsFiniteSet(S1) BY <1>1, FS_EmptySet
  <2>3. IsFiniteSet(S2) BY <1>1, <2>2
  <2>4. IsFiniteSet(S3) BY <1>1, <2>3
  <2>5. IsFiniteSet(S4) BY <1>1, <2>4
  <2>6. IsFiniteSet(S5) BY <1>1, <2>5
  <2>7. IsFiniteSet(S6) BY <1>1, <2>6
  <2>8. IsFiniteSet(S7) BY <1>1, <2>7
  <2>9. IsFiniteSet(S8) BY <1>1, <2>8
  <2>10. IsFiniteSet(S9) BY <1>1, <2>9
  <2>11. IsFiniteSet(S10) BY <1>1, <2>10
  <2> HIDE DEF S10
  <2> QED BY <1>1, <2>1, <2>11
<1>3. IsFiniteSet(1..15)
  <2>1. ASSUME NEW a \in Int, NEW b \in Int PROVE IsFiniteSet(a..b) BY FS_Interval, Zenon
  <2>2. 1 \in Int /\ 15 \in Int OBVIOUS
  <2> QED BY <2>1, <2>2, Zenon
<1>4. IsFiniteSet((1..15) \cup AllWorkers) BY <1>3, Sizes, FS_Union
<1>5. IsFiniteSet((1..15) \cup AllWorkers \cup Calls) BY <1>4, FS_Union
<1>6. IsFiniteSet((1..15) \cup AllWorkers \cup Calls \cup Items) BY <1>5, FS_Union
<1>7. IsFiniteSet(Actors) BY <1>6, FS_Union DEF Actors
<1>8. IsFiniteSet(Actors \X Steps) BY <1>2, <1>7, FS_Product
<1>9. Ahead \in SUBSET (Actors \X Steps) BY DEF Ahead
<1> QED BY <1>8, <1>9, FS_Subset, FS_CardinalityType

LEMMA LessCounts ==
  ASSUME IsFiniteSet(Calls), IsFiniteSet(Items), IsFiniteSet(Namespaces), Less
  PROVE  Cardinality(Ahead') < Cardinality(Ahead)
<1>1. Ahead' \in SUBSET Ahead /\ Ahead' # Ahead BY DEF Less
<1>2. IsFiniteSet(Ahead) /\ Cardinality(Ahead) \in Nat BY WorkIsFinite
<1>3. /\ IsFiniteSet(Ahead') /\ Cardinality(Ahead') <= Cardinality(Ahead)
      /\ Cardinality(Ahead) # Cardinality(Ahead')
  BY <1>1, <1>2, FS_Subset
<1>4. Cardinality(Ahead') \in Nat BY <1>3, FS_CardinalityType
<1> QED BY <1>2, <1>3, <1>4

\* What users do adds nothing to the work and takes nothing away.
LEMMA UsersLeaveWork ==
  ASSUME UsersStep
  PROVE  Ahead' = Ahead /\ UNCHANGED <<main, tokens, worker, waitGroup, call, at>>
<1>1. UNCHANGED <<main, tokens, worker, waitGroup, call, at, copies>>
  BY DEF UsersStep, mainVars, itemVars, Users, UserCreatesNamespace, UserEditsNamespace,
         UserCreatesDeployment, UserDeletesDeployment
<1>2. \A x, s : Undone(x, s)' <=> Undone(x, s)
  BY <1>1 DEF Undone, MainAhead, WorkersAhead, CallsAhead, ItemsAhead, RolloutAhead, Told
<1> QED BY <1>1, <1>2 DEF Ahead

LEMMA FreshStarts == Init => Fresh
BY DEF Init, Fresh

LEMMA KeptAlways == Spec => [](IInv /\ Fresh)
BY FreshStarts, FreshSteps, AgentInvariant, PTL DEF Spec

(***************************************************************************)
(* With finitely many calls, items and namespaces the agent takes finitely *)
(* many steps of its own: each one, by main, a worker, a handler or a      *)
(* callback, leaves less ahead, and a user's step adds nothing.  A         *)
(* rollout, an upload or a stop that does not end is stuck.                *)
(***************************************************************************)
THEOREM AgentStepIsProgress ==
  ASSUME IsFiniteSet(Calls), IsFiniteSet(Items), IsFiniteSet(Namespaces)
  PROVE  Spec => [][IF UsersStep THEN Ahead' = Ahead
                    ELSE Cardinality(Ahead') < Cardinality(Ahead)]_vars
<1>1. IInv /\ Fresh /\ [Next]_vars =>
         [IF UsersStep THEN Ahead' = Ahead ELSE Cardinality(Ahead') < Cardinality(Ahead)]_vars
  <2> SUFFICES ASSUME IInv, Fresh, Next
               PROVE  IF UsersStep THEN Ahead' = Ahead
                      ELSE Cardinality(Ahead') < Cardinality(Ahead)
    OBVIOUS
  <2>1. UsersStep => Ahead' = Ahead BY UsersLeaveWork
  <2>2. ~UsersStep => Cardinality(Ahead') < Cardinality(Ahead) BY StepIsLess, LessCounts
  <2> QED BY <2>1, <2>2
<1> QED BY <1>1, KeptAlways, PTL DEF Spec

-----------------------------------------------------------------------------
\* Some step that Spec is fair to is possible.
CanGoOn ==
    \/ main \in {"startCollector", "startProcessors", "startUploaders", "initK8s", "unpatch"}
    \/ main = "stopCollector" /\ \A c \in Calls : call[c] # "serving"
    \/ main \in {"stopProcessors", "stopUploaders"} /\ tokens = 0
    \/ main = "stopProcessors" /\ tokens > 0 /\ \E w \in Processors : worker[w] = "select"
    \/ main = "stopUploaders" /\ tokens > 0 /\ \E w \in Uploaders : worker[w] = "select"
    \/ main = "wait" /\ waitGroup = 0
    \/ Alive /\ \E w \in AllWorkers : worker[w] \in {"spawned", "exiting"}
    \/ Alive /\ Destroyed /\ worker["informers"] = "select"
    \/ Alive /\ \E i \in Items : \/ at[i] = "handler" /\ worker[Processor(i)] = "select"
                                 \/ at[i] = "upload" /\ worker[Uploader(i)] = "select"
                                 \/ at[i] = "call"
    \/ Alive /\ \E c \in Calls \ Streams : call[c] = "serving" /\ ~Inserting(c)

\* The workers that take tokens are there before the informers; a processor is
\* never busy, and an uploader only with a call to the manager.
Staffed ==
    /\ main = "startUploaders" => \A w \in Processors : worker[w] # "unborn"
    /\ main = "initK8s" \/ HasClientSet => \A w \in Staged : worker[w] # "unborn"
    /\ \A w \in Processors : worker[w] # "busy"
    /\ \A w \in Uploaders :
          worker[w] = "busy" => \E i \in Items : at[i] = "call" /\ Uploader(i) = w

\* A step that begins no worker and ends no call to the manager.
LEMMA StaffedFrame ==
  ASSUME Staffed, \A w \in AllWorkers : /\ worker'[w] = "unborn" <=> worker[w] = "unborn"
                                        /\ worker'[w] = "busy" => worker[w] = "busy",
         \A i \in Items : at[i] = "call" => at'[i] = "call",
         main' \in {"startUploaders", "initK8s"} => main' = main
  PROVE  Staffed'
<1>1. /\ Processors \subseteq AllWorkers /\ Uploaders \subseteq AllWorkers
      /\ Staged \subseteq AllWorkers /\ "informers" \in AllWorkers
  BY DEF Staged, AllWorkers
<1> QED BY <1>1 DEF Staffed, HasClientSet

LEMMA StaffedStart == IInv /\ Staffed /\ Start => Staffed'
<1> SUFFICES ASSUME IInv, Staffed, Start PROVE Staffed' OBVIOUS
<1> USE DEF Goes, MainOnly, itemVars
<1>0. /\ Processors \subseteq AllWorkers /\ Uploaders \subseteq AllWorkers
      /\ Staged = Processors \cup Uploaders /\ "informers" \in AllWorkers
      /\ "informers" \notin Staged /\ Processors \cap Uploaders = {}
      /\ worker \in [AllWorkers -> WorkerStates] /\ StageOK /\ InformersOK
  BY DEF Staged, AllWorkers, Processors, Uploaders, IInv, Workforce
<1>1. CASE StartCollector \/ StartFails
  BY <1>1, StaffedFrame DEF StartCollector, StartFails
<1>2. CASE StartLogProcessor
  <2>1. /\ main = "startProcessors" /\ main' = "startUploaders"
        /\ \A w \in Processors : worker'[w] = "spawned"
        /\ \A w \in Uploaders : worker'[w] = worker[w] /\ worker[w] = "unborn"
        /\ worker'["informers"] = "unborn"
    BY <1>0, <1>2 DEF StartLogProcessor, Spawn, StageOK
  <2> QED BY <2>1 DEF Staffed, HasClientSet
<1>3. CASE StartUploader
  <2>1. /\ main = "startUploaders" /\ main' = "initK8s"
        /\ \A w \in Uploaders : worker'[w] = "spawned"
        /\ \A w \in Processors : worker'[w] = worker[w]
    BY <1>0, <1>3 DEF StartUploader, Spawn
  <2> QED BY <1>0, <2>1 DEF Staffed
<1>4. CASE InitK8sClient
  <2>1. /\ main = "initK8s" /\ main' = "patchIstio" /\ at' = at
        /\ \A w \in Staged : worker'[w] = worker[w]
    BY <1>0, <1>4 DEF InitK8sClient, RunInformers
  <2> QED BY <1>0, <2>1 DEF Staffed
<1> QED BY <1>1, <1>2, <1>3, <1>4 DEF Start

LEMMA StaffedWorker == IInv /\ Staffed /\ WorkerStep => Staffed'
<1> SUFFICES ASSUME IInv, Staffed, WorkerStep PROVE Staffed' OBVIOUS
<1> USE DEF WorkersOnly, mainVars
<1>0. /\ worker \in [AllWorkers -> WorkerStates]
      /\ at \in [Items -> {"source", "handler", "upload", "call", "sent", "failed"}]
      /\ Processors \cap Uploaders = {} /\ Staged = Processors \cup Uploaders
      /\ Processors \subseteq AllWorkers /\ Uploaders \subseteq AllWorkers
      /\ "informers" \notin Staged /\ "informers" \in AllWorkers
  BY DEF IInv, Workforce, Handover, Staged, AllWorkers, Processors, Uploaders
<1>1. ASSUME NEW w \in AllWorkers, WorkerBegins(w) \/ WorkerEnds(w) PROVE Staffed'
  <2>1. \A v \in AllWorkers : /\ worker'[v] = "unborn" <=> worker[v] = "unborn"
                              /\ worker'[v] = "busy" => worker[v] = "busy"
    BY <1>0, <1>1 DEF WorkerBegins, WorkerEnds
  <2> QED BY <1>1, <2>1, StaffedFrame DEF WorkerBegins, WorkerEnds
<1>2. ASSUME NEW i \in Items, Process(i) PROVE Staffed'
  BY <1>0, <1>2, StaffedFrame DEF Process
<1>3. ASSUME NEW i \in Items, NEW to, NEW s \in {"select", "busy"}, Upload(i, at[i], to, s),
             worker[Uploader(i)] # "unborn",
             \/ at[i] = "upload" /\ to = "call"
             \/ at[i] = "call" /\ s = "select"
      PROVE  Staffed'
  <2> DEFINE w == Uploader(i)
  <2>1. w \in Uploaders BY Destinations
  <2>2. worker' = [worker EXCEPT ![w] = s] /\ at' = [at EXCEPT ![i] = to] /\ main' = main
    BY <1>3 DEF Upload
  <2>3. \A v \in AllWorkers : v # w => worker'[v] = worker[v] BY <2>2
  <2>4. \A j \in Items : j # i => at'[j] = at[j] BY <2>2
  <2>5. worker'[w] = s /\ at'[i] = to BY <1>0, <2>1, <2>2
  <2>6. \A v \in AllWorkers : worker'[v] = "unborn" <=> worker[v] = "unborn"
    BY <1>3, <2>3, <2>5
  <2>7. ASSUME NEW v \in Uploaders, worker'[v] = "busy"
        PROVE  \E j \in Items : at'[j] = "call" /\ Uploader(j) = v
    <3>1. CASE v = w BY <1>3, <2>5, <2>7, <3>1
    <3>2. CASE v # w
      <4>1. PICK j \in Items : at[j] = "call" /\ Uploader(j) = v
        BY <1>0, <2>3, <2>7, <3>2 DEF Staffed
      <4>2. j # i BY <3>2, <4>1
      <4> QED BY <2>4, <4>1, <4>2
    <3> QED BY <3>1, <3>2
  <2>8. \A v \in Processors : worker'[v] # "busy" BY <1>0, <2>1, <2>3 DEF Staffed
  <2> QED BY <1>0, <2>2, <2>6, <2>7, <2>8 DEF Staffed, HasClientSet
<1>4. ASSUME NEW i \in Items, SendBegins(i) PROVE Staffed'
  BY <1>3, <1>4 DEF SendBegins, Upload
<1>5. ASSUME NEW i \in Items, Answered(i) \/ CallFails(i) \/ DeadlinePasses(i) PROVE Staffed'
  <2>1. at[i] = "call" /\ worker[Uploader(i)] = "busy"
    BY <1>5 DEF Answered, CallFails, DeadlinePasses, Upload, IInv, Handover
  <2> QED BY <1>3, <1>5, <2>1 DEF Answered, CallFails, DeadlinePasses
<1> QED BY <1>1, <1>2, <1>4, <1>5 DEF WorkerStep

LEMMA StaffedSteps == IInv /\ Fresh /\ Staffed /\ [Next]_vars => Staffed'
<1> SUFFICES ASSUME IInv, Fresh, Staffed, [Next]_vars PROVE Staffed' OBVIOUS
<1>0. /\ at \in [Items -> {"source", "handler", "upload", "call", "sent", "failed"}]
      /\ worker \in [AllWorkers -> WorkerStates]
  BY DEF IInv, Handover, Workforce
<1> USE DEF Goes, MainOnly, itemVars
<1>1. CASE PatchIstioConfigMap \/ PatchFails \/ Rollout \/ Signal
  BY <1>1, RolloutStages, StaffedFrame DEF IInv, RolloutPart
<1>2. CASE Destroy
  BY <1>2, StaffedFrame
     DEF Destroy, UnpatchPanics, UnpatchIstioConfigMap, UnpatchFails, StopCollector,
         ProcessorsStopped, UploadersStopped, Terminate
<1>3. ASSUME NEW w \in AllWorkers, StopProcessor(w) \/ StopUploader(w) PROVE Staffed'
  <2>1. /\ worker[w] = "select" /\ worker' = [worker EXCEPT ![w] = "exiting"]
        /\ UNCHANGED <<main, at>>
    BY <1>3 DEF StopProcessor, StopUploader, Token
  <2>2. \A v \in AllWorkers : /\ worker'[v] = "unborn" <=> worker[v] = "unborn"
                              /\ worker'[v] = "busy" => worker[v] = "busy"
    BY <1>0, <2>1
  <2> QED BY <2>1, <2>2, StaffedFrame
<1>4. CASE Traffic
  <2>1. UNCHANGED <<main, worker>> BY <1>4, TrafficLeaves
  <2>2. \A i \in Items : at[i] = "call" => at'[i] = "call"
    <3>1. ASSUME NEW c \in Calls, Arrive(c) PROVE \A i \in Items : at[i] = "call" => at'[i] = "call"
      BY <3>1 DEF Arrive, Fresh
    <3>2. ASSUME NEW c \in Calls, NEW entries \in SUBSET Carried(c), StreamAccessLogs(c, entries)
          PROVE  \A i \in Items : at[i] = "call" => at'[i] = "call"
      BY <3>2 DEF StreamAccessLogs
    <3>3. ASSUME NEW i \in Items, Callback(i)
          PROVE  \A j \in Items : at[j] = "call" => at'[j] = "call"
      BY <1>0, <3>3 DEF Callback
    <3> QED BY <1>4, <3>1, <3>2, <3>3 DEF Traffic, Return, StreamEnds
  <2> QED BY <2>1, <2>2, StaffedFrame
<1>5. CASE UsersStep \/ UNCHANGED vars
  BY <1>5, StaffedFrame DEF UsersStep, vars, mainVars
<1> QED BY <1>1, <1>2, <1>3, <1>4, <1>5, StaffedStart, StaffedWorker DEF Next, MainStep

LEMMA StaffedStarts == Init => Staffed
BY DEF Init, Staffed, HasClientSet, AllWorkers, Staged, Processors, Uploaders

LEMMA StaffedAlways == Spec => [](IInv /\ Staffed)
BY StaffedStarts, StaffedSteps, KeptAlways, PTL DEF Spec

\* While main has tokens to hand over, a worker of the stage has yet to take one.
LEMMA TokenHasTaker ==
  ASSUME NEW ws, tokens = Cardinality(Untold(ws)), tokens # 0
  PROVE  \E w \in ws : ~Told(w)
<1>1. Untold(ws) # {} BY FS_EmptySet
<1> QED BY <1>1 DEF Untold

\* A worker that has no token yet can go on, or has what it needs to.
LEMMA UntoldGoesOn ==
  ASSUME IInv, Staffed, Alive, HasClientSet, NEW w \in Staged, ~Told(w), worker[w] # "select"
  PROVE  CanGoOn
<1>1. w \in AllWorkers /\ worker[w] \in WorkerStates BY DEF Staged, AllWorkers, IInv, Workforce
<1>2. worker[w] # "unborn" BY DEF Staffed
<1>3. CASE worker[w] = "spawned" BY <1>1, <1>3 DEF CanGoOn
<1>4. CASE worker[w] = "busy" BY <1>4 DEF Staffed, Staged, CanGoOn
<1> QED BY <1>1, <1>2, <1>3, <1>4 DEF Told, WorkerStates

LEMMA StopCanGoOn ==
  IInv /\ Staffed =>
    (main \in Stages => CanGoOn \/ \E c \in Streams : call[c] = "serving")
<1> SUFFICES ASSUME IInv, Staffed, main \in Stages, \A c \in Streams : call[c] # "serving"
             PROVE  CanGoOn
  OBVIOUS
<1>0. /\ Processors \subseteq Staged /\ Uploaders \subseteq Staged /\ tokens \in 0..3
      /\ AllWorkers = Staged \cup {"informers"} /\ Alive /\ Destroyed
      /\ worker \in [AllWorkers -> WorkerStates] /\ StageOK /\ InformersOK
  BY DEF Staged, AllWorkers, IInv, Workforce, Stages, Alive, Destroyed
<1>1. CASE main = "unpatch" BY <1>1 DEF CanGoOn
<1> SUFFICES ASSUME main # "unpatch" PROVE CanGoOn BY <1>1
<1>2. HasClientSet BY <1>0 DEF Stages, InformersOK, Stopping, HasClientSet
<1>3. CASE main = "stopCollector"
  <2>1. ASSUME NEW c \in Calls, call[c] = "serving" PROVE CanGoOn
    <3>1. CASE ~Inserting(c) BY <1>0, <2>1, <3>1 DEF CanGoOn
    <3>2. CASE Inserting(c)
      <4>1. PICK i \in Items : at[i] = "handler" BY <3>2 DEF Inserting, Carried
      <4>2. Processor(i) \in Staged BY <1>0, Destinations
      <4>3. ~Told(Processor(i)) BY <1>0, <1>3, <4>2 DEF StageOK, Stopping
      <4>4. CASE worker[Processor(i)] = "select" BY <1>0, <4>1, <4>4 DEF CanGoOn
      <4> QED BY <1>0, <1>2, <4>2, <4>3, <4>4, UntoldGoesOn
    <3> QED BY <3>1, <3>2
  <2> QED BY <1>3, <2>1 DEF CanGoOn
<1>4. CASE main = "stopProcessors"
  <2>1. CASE tokens # 0
    <3>1. PICK w \in Processors : ~Told(w) BY <1>0, <1>4, <2>1, TokenHasTaker DEF StageOK
    <3>2. CASE worker[w] = "select" BY <1>0, <1>4, <2>1, <3>2 DEF CanGoOn
    <3> QED BY <1>0, <1>2, <3>1, <3>2, UntoldGoesOn
  <2> QED BY <1>4, <2>1 DEF CanGoOn
<1>5. CASE main = "stopUploaders"
  <2>1. CASE tokens # 0
    <3>1. PICK w \in Uploaders : ~Told(w) BY <1>0, <1>5, <2>1, TokenHasTaker DEF StageOK
    <3>2. CASE worker[w] = "select" BY <1>0, <1>5, <2>1, <3>2 DEF CanGoOn
    <3> QED BY <1>0, <1>2, <3>1, <3>2, UntoldGoesOn
  <2> QED BY <1>5, <2>1 DEF CanGoOn
<1>6. CASE main = "wait"
  <2>1. \A w \in Staged : Told(w) BY <1>0, <1>6 DEF StageOK
  <2>2. CASE \E w \in AllWorkers : worker[w] = "exiting" BY <1>0, <2>2 DEF CanGoOn
  <2>3. CASE worker["informers"] = "select" BY <1>0, <2>3 DEF CanGoOn
  <2>4. CASE \A w \in AllWorkers : worker[w] = "done"
    <3>1. Begun = {} BY <2>4 DEF Begun
    <3>2. waitGroup = 0 BY <3>1, FS_EmptySet DEF IInv, Workforce, WaitGroupExact, Begun
    <3> QED BY <1>6, <3>2 DEF CanGoOn
  <2> QED BY <1>0, <1>2, <2>1, <2>2, <2>3, <2>4 DEF Told, InformersOK, HasClientSet
<1> QED BY <1>3, <1>4, <1>5, <1>6 DEF Stages

(***************************************************************************)
(* An agent that destroys itself can always go on, by a step that Spec is  *)
(* fair to, unless an access log stream is open.  With AgentStepIsProgress *)
(* this is what ShutdownEnds rests on: only a stream can hold the stop up. *)
(***************************************************************************)
THEOREM AgentStopNeverStuck ==
  Spec => [](main \in Stages => CanGoOn \/ \E c \in Streams : call[c] = "serving")
BY StopCanGoOn, StaffedAlways, PTL

LEMMA UploadCanGoOn ==
  IInv /\ Staffed => \A i \in Items : at[i] \in {"upload", "call"} => CanGoOn \/ Destroyed
<1> SUFFICES ASSUME IInv, Staffed, NEW i \in Items, at[i] \in {"upload", "call"}, ~Destroyed
             PROVE  CanGoOn
  OBVIOUS
<1>0. Alive /\ Uploader(i) \in Staged /\ main \in MainStates /\ StageOK /\ InformersOK
  BY Destinations DEF Destroyed, Alive, Staged, IInv, Workforce
<1>1. CASE at[i] = "call" BY <1>0, <1>1 DEF CanGoOn
<1>2. CASE main \in {"startCollector", "startProcessors", "startUploaders", "initK8s"}
  BY <1>2 DEF CanGoOn
<1>3. CASE main \notin {"startCollector", "startProcessors", "startUploaders", "initK8s"}
  <2>1. HasClientSet BY <1>0, <1>3 DEF MainStates, Destroyed, InformersOK, HasClientSet
  <2>2. ~Told(Uploader(i)) BY <1>0 DEF StageOK, Stopping, Destroyed, Stages
  <2>3. CASE at[i] = "upload" /\ worker[Uploader(i)] = "select" BY <1>0, <2>3 DEF CanGoOn
  <2> QED BY <1>0, <1>1, <2>1, <2>2, <2>3, UntoldGoesOn
<1> QED BY <1>2, <1>3

(***************************************************************************)
(* While something waits to be sent and the agent is not stopping, a step  *)
(* is possible that Spec is fair to, whatever the manager does: this is    *)
(* what UploadsSettle rests on.                                            *)
(***************************************************************************)
THEOREM UploadNeverStuck ==
  Spec => [](\A i \in Items : at[i] \in {"upload", "call"} => CanGoOn \/ Destroyed)
BY UploadCanGoOn, StaffedAlways, PTL

-----------------------------------------------------------------------------
LEMMA ProgressIsLess == IInv /\ Fresh /\ Progress => Less
<1> SUFFICES ASSUME IInv, Fresh, Progress PROVE Less OBVIOUS
<1>1. Progress => Start \/ Destroy \/ WorkerStep \/ Traffic
                    \/ \E w \in AllWorkers : StopProcessor(w) \/ StopUploader(w)
  BY DEF Progress, WorkerStep, Traffic
<1>2. ASSUME NEW w \in AllWorkers, StopProcessor(w) \/ StopUploader(w) PROVE Less
  <2>1. Next BY <1>2 DEF Next, MainStep
  <2>2. ~UsersStep BY <1>2 DEF StopProcessor, StopUploader, UsersStep
  <2> QED BY <2>1, <2>2, StepIsLess
<1> QED BY <1>1, <1>2, StartIsLess, DestroyIsLess, WorkerStepIsLess, TrafficIsLess

LEMMA LessAhead ==
  ASSUME IsFiniteSet(Calls), IsFiniteSet(Items), IsFiniteSet(Namespaces), IInv, Fresh
  PROVE  /\ [Next]_vars => \/ Cardinality(Ahead') < Cardinality(Ahead)
                           \/ /\ Ahead' = Ahead
                              /\ UNCHANGED <<main, tokens, worker, waitGroup, call, at>>
         /\ Progress => Cardinality(Ahead') < Cardinality(Ahead)
         /\ Cardinality(Ahead) \in Nat
<1>1. CASE UNCHANGED vars
  <2>1. Ahead' = Ahead
    BY <1>1 DEF vars, mainVars, itemVars, rolloutVars, Ahead, Undone, MainAhead, WorkersAhead,
                CallsAhead, ItemsAhead, RolloutAhead, Told
  <2>2. UNCHANGED <<main, tokens, worker, waitGroup, call, at>>
    BY <1>1 DEF vars, mainVars, itemVars
  <2> QED BY <2>1, <2>2, ProgressIsLess, LessCounts, WorkIsFinite
<1>2. CASE UsersStep BY <1>2, UsersLeaveWork, ProgressIsLess, LessCounts, WorkIsFinite
<1>3. CASE Next /\ ~UsersStep BY <1>3, StepIsLess, ProgressIsLess, LessCounts, WorkIsFinite
<1>4. CASE ~[Next]_vars BY <1>4, ProgressIsLess, LessCounts, WorkIsFinite
<1> QED BY <1>1, <1>2, <1>3, <1>4

\* An agent that destroys itself does not go back.
LEMMA DestroyGoesOn ==
  [Next]_vars => /\ main \in Stages => main' \in Stages \/ ~Alive'
                 /\ Destroyed => Destroyed'
<1> SUFFICES ASSUME [Next]_vars, main \in Stages \cup {"terminated", "panicked"}
             PROVE  /\ main \in Stages => main' \in Stages \/ ~Alive'
                    /\ Destroyed'
  BY DEF Destroyed
<1> USE DEF Stages, Destroyed, Alive
<1>1. CASE Start
  BY <1>1 DEF Start, Goes, StartCollector, StartLogProcessor, StartUploader, InitK8sClient,
              StartFails
<1>2. CASE Rollout
  BY <1>2 DEF Rollout, Goes, PatchNamespaces, NamespacesPatched, PatchNamespacesFails,
              RestartDeployments, DeploymentsRestarted, RestartDeploymentsFails
<1>3. CASE PatchIstioConfigMap \/ PatchFails \/ Signal
  BY <1>3 DEF PatchIstioConfigMap, PatchFails, Signal, Goes
<1>4. CASE Destroy
  BY <1>4 DEF Destroy, Goes, UnpatchPanics, UnpatchIstioConfigMap, UnpatchFails, StopCollector,
              ProcessorsStopped, UploadersStopped, Terminate
<1>5. ASSUME NEW w \in AllWorkers, StopProcessor(w) \/ StopUploader(w) PROVE main' = main
  BY <1>5 DEF StopProcessor, StopUploader, Token
<1>6. CASE WorkerStep BY <1>6, WorkersLeave
<1>7. CASE Traffic BY <1>7, TrafficLeaves
<1>8. CASE UsersStep BY <1>8, UsersLeaveWork
<1>9. CASE UNCHANGED vars BY <1>9 DEF vars, mainVars
<1> QED BY <1>1, <1>2, <1>3, <1>4, <1>5, <1>6, <1>7, <1>8, <1>9 DEF Next, MainStep

\* What has reached an uploader stays with it until it is settled.
LEMMA UploadGoesOn ==
  ASSUME IInv, Fresh, [Next]_vars, NEW i \in Items, at[i] \in {"upload", "call"}
  PROVE  at'[i] \in {"upload", "call", "sent", "failed"}
<1>0. at \in [Items -> {"source", "handler", "upload", "call", "sent", "failed"}]
  BY DEF IInv, Handover
<1> USE DEF Goes, MainOnly, itemVars
<1>1. CASE Start
  BY <1>1 DEF Start, StartCollector, StartLogProcessor, StartUploader, InitK8sClient, StartFails,
              Spawn
<1>2. CASE Rollout \/ PatchIstioConfigMap \/ PatchFails \/ Signal
  BY <1>2 DEF Rollout, RolloutOnly, PatchIstioConfigMap, PatchFails, Signal
<1>3. CASE Destroy
  BY <1>3 DEF Destroy, UnpatchPanics, UnpatchIstioConfigMap, UnpatchFails, StopCollector,
              ProcessorsStopped, UploadersStopped, Terminate
<1>4. ASSUME NEW w \in AllWorkers, StopProcessor(w) \/ StopUploader(w) PROVE at' = at
  BY <1>4 DEF StopProcessor, StopUploader, Token
<1>5. CASE WorkerStep
  BY <1>0, <1>5 DEF WorkerStep, WorkerBegins, WorkerEnds, Process, SendBegins, Answered, CallFails,
                    DeadlinePasses, Upload
<1>6. CASE Traffic
  <2>1. ASSUME NEW c \in Calls, Arrive(c) PROVE at'[i] = at[i] BY <2>1 DEF Arrive, Fresh
  <2>2. ASSUME NEW c \in Calls, NEW entries \in SUBSET Carried(c), StreamAccessLogs(c, entries)
        PROVE  at'[i] = at[i]
    BY <2>2 DEF StreamAccessLogs
  <2>3. ASSUME NEW j \in Items, Callback(j) PROVE at'[i] = at[i] BY <1>0, <2>3 DEF Callback
  <2> QED BY <1>6, <2>1, <2>2, <2>3 DEF Traffic, Return, StreamEnds
<1>7. CASE UsersStep \/ UNCHANGED vars BY <1>7, UsersLeaveWork DEF vars
<1> QED BY <1>1, <1>2, <1>3, <1>4, <1>5, <1>6, <1>7 DEF Next, MainStep

\* The fairness of Spec, with the guards of Progress for its ENABLED.
ProgressFair == <>~CanGoOn \/ <><<Progress>>_vars

\* With n steps ahead and one that can be taken, one of them is taken.
LEMMA WorkGetsDone ==
  ASSUME IsFiniteSet(Calls), IsFiniteSet(Items), IsFiniteSet(Namespaces), NEW n \in Nat
  PROVE  Init /\ [][Next]_vars /\ []ProgressFair =>
            ((CanGoOn /\ Cardinality(Ahead) = n) ~> Cardinality(Ahead) < n)
<1> DEFINE Inv == IInv /\ Fresh
           As == Cardinality(Ahead) = n
           Lower == Cardinality(Ahead) < n
<1>1. Init => Inv BY AgentStarts, FreshStarts
<1>2. Inv /\ [Next]_vars => Inv' BY AgentSteps, FreshSteps
<1>3. Inv /\ As /\ [Next]_vars => As' \/ Lower' BY LessAhead
<1>4. Inv /\ As /\ As' /\ [Next]_vars => (CanGoOn => CanGoOn')
  <2>1. Inv /\ As /\ As' /\ [Next]_vars => UNCHANGED <<main, tokens, worker, waitGroup, call, at>>
    BY LessAhead
  <2> QED BY <2>1 DEF CanGoOn, Alive, Destroyed, Inserting, Carried
<1>5. Inv /\ As /\ <<Progress>>_vars => Lower' BY LessAhead
<1> HIDE DEF Inv, As, Lower
<1>6. Init /\ [][Next]_vars /\ []ProgressFair => ((CanGoOn /\ As) ~> Lower)
  BY <1>1, <1>2, <1>3, <1>4, <1>5, PTL DEF ProgressFair
<1> QED BY <1>6 DEF As, Lower

(***************************************************************************)
(* The step of ShutdownEnds, for any finite number of calls, items and     *)
(* namespaces: an agent that destroys itself with n steps ahead ends, or   *)
(* is still at it with fewer than n ahead, unless an access log stream is  *)
(* open.  As n cannot fall for ever, it ends.                              *)
(***************************************************************************)
THEOREM AgentStopComesCloser ==
  ASSUME IsFiniteSet(Calls), IsFiniteSet(Items), IsFiniteSet(Namespaces), NEW n \in Nat
  PROVE  Init /\ [][Next]_vars /\ []ProgressFair =>
            ((main \in Stages /\ Cardinality(Ahead) = n)
                ~> (~Alive \/ (\E c \in Streams : call[c] = "serving")
                    \/ (main \in Stages /\ Cardinality(Ahead) < n)))
<1> DEFINE Inv == IInv /\ Fresh /\ Staffed
           As == Cardinality(Ahead) = n
           Lower == Cardinality(Ahead) < n
           Open == \E c \in Streams : call[c] = "serving"
<1>1. Init => Inv BY AgentStarts, FreshStarts, StaffedStarts
<1>2. Inv /\ [Next]_vars => Inv' BY AgentSteps, FreshSteps, StaffedSteps
<1>3. Inv => (main \in Stages => CanGoOn \/ Open) BY StopCanGoOn
<1>4. [Next]_vars => ((main \in Stages) => (main \in Stages)' \/ ~Alive') BY DestroyGoesOn
<1>5. Init /\ [][Next]_vars /\ []ProgressFair => ((CanGoOn /\ As) ~> Lower) BY WorkGetsDone
<1> HIDE DEF Inv, As, Lower, Open
<1>6. Init /\ [][Next]_vars /\ []ProgressFair =>
         ((main \in Stages /\ As) ~> (~Alive \/ Open \/ (main \in Stages /\ Lower)))
  BY <1>1, <1>2, <1>3, <1>4, <1>5, PTL
<1> QED BY <1>6 DEF As, Lower, Open

(***************************************************************************)
(* The step of UploadsSettle: what waits at an uploader, or is in a call   *)
(* to the manager, while n steps are ahead, is sent or given up, or still  *)
(* there with fewer than n ahead, unless the agent begins to stop.  The    *)
(* manager need not answer, nor a stream end: the deadline passes.         *)
(***************************************************************************)
THEOREM UploadComesCloser ==
  ASSUME IsFiniteSet(Calls), IsFiniteSet(Items), IsFiniteSet(Namespaces), NEW n \in Nat, NEW i \in Items
  PROVE  Init /\ [][Next]_vars /\ []ProgressFair =>
            ((at[i] \in {"upload", "call"} /\ Cardinality(Ahead) = n)
                ~> (at[i] \in {"sent", "failed"} \/ Destroyed
                    \/ (at[i] \in {"upload", "call"} /\ Cardinality(Ahead) < n)))
<1> DEFINE Inv == IInv /\ Fresh /\ Staffed
           As == Cardinality(Ahead) = n
           Lower == Cardinality(Ahead) < n
           Waits == at[i] \in {"upload", "call"}
           Settled == at[i] \in {"sent", "failed"}
<1>1. Init => Inv BY AgentStarts, FreshStarts, StaffedStarts
<1>2. Inv /\ [Next]_vars => Inv' BY AgentSteps, FreshSteps, StaffedSteps
<1>3. Inv => (Waits => CanGoOn \/ Destroyed) BY UploadCanGoOn
<1>4. Inv /\ [Next]_vars => (Waits => Waits' \/ Settled') BY UploadGoesOn
<1>5. Init /\ [][Next]_vars /\ []ProgressFair => ((CanGoOn /\ As) ~> Lower) BY WorkGetsDone
<1> HIDE DEF Inv, As, Lower, Waits, Settled
<1>6. Init /\ [][Next]_vars /\ []ProgressFair =>
         ((Waits /\ As) ~> (Settled \/ Destroyed \/ (Waits /\ Lower)))
  BY <1>1, <1>2, <1>3, <1>4, <1>5, PTL
<1> QED BY <1>6 DEF As, Lower, Waits, Settled
=============================================================================
