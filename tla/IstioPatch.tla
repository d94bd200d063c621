------------------------------ MODULE IstioPatch ------------------------------
(***************************************************************************)
(* How agents patch and unpatch Istio's ConfigMap (agent/k8s, with the     *)
(* part of agent/core that calls it).                                      *)
(*                                                                         *)
(* An agent reads the whole mesh configuration, edits its copy, reads the  *)
(* ConfigMap a second time, replaces the mesh field and updates it.  The   *)
(* API server refuses the update if the ConfigMap changed since the second *)
(* read.  The user edits the same ConfigMap, an agent may be killed and    *)
(* started again, and a rolling update runs two agents for a while.        *)
(***************************************************************************)
EXTENDS Naturals

CONSTANTS
    Agents,      \* agent processes that run or take turns
    UserEdits,   \* what the user edits: "extra" fields, the "address" fields
    MaxEdits     \* bound on the edits

ASSUME EditsAssumption == UserEdits \subseteq {"extra", "address"} /\ MaxEdits \in Nat

VARIABLES
    mesh,      \* the mesh field of the ConfigMap
    fresh,     \* agents whose second read still has the current resourceVersion
    agent,     \* agent -> its local state
    edits,     \* history: the user's edits of the extra fields
    alone      \* history: no two agents and no edit of the addresses so far

vars == <<mesh, fresh, agent, edits, alone>>

\* The addresses of the access log and the metrics service are set together;
\* providers and accessLogs count the entries named "kubecarto-agent" in the
\* two lists; extra is the edition of the top level fields meshConfig does
\* not name, and nested whether the ones inside the structures it names exist.
MeshConfigs == [address : {"empty", "user", "agent"},
                providers : 0..2, accessLogs : 0..2,
                enabled : BOOLEAN, extra : 0..MaxEdits, nested : BOOLEAN]

\* Why an agent writes: to patch or to unpatch.
AgentStates ==
    [pc : {"start", "running", "destroy", "stopped", "killed"}] \cup
    [pc : {"patch", "updatePatch", "unpatch", "updateUnpatch"}, cfg : MeshConfigs]

TypeOK ==
    /\ mesh \in MeshConfigs
    /\ fresh \subseteq Agents
    /\ agent \in [Agents -> AgentStates]
    /\ edits \in 0..MaxEdits
    /\ alone \in BOOLEAN

Init ==
    /\ mesh \in [address : {"empty", "user"}, providers : {0}, accessLogs : {0},
                 enabled : BOOLEAN, extra : {0}, nested : {TRUE}]
    /\ fresh = {}
    /\ agent = [a \in Agents |-> [pc |-> "start"]]
    /\ edits = 0
    /\ alone = TRUE

\* Down, or not begun to look at the mesh.
Away(a) == agent[a].pc \in {"start", "stopped", "killed"}
Sole(a) == \A b \in Agents \ {a} : Away(b)

Go(a, state) == agent' = [agent EXCEPT ![a] = state]

\* parseIstioConfigMap: yaml.Unmarshal drops what meshConfig's structures do
\* not name; the inline map keeps the other top level fields.
Parsed == [mesh EXCEPT !.nested = FALSE]

isIstioAlreadyPatched(cfg) ==
    /\ cfg.address = "agent"
    /\ cfg.providers > 0
    /\ cfg.accessLogs > 0
    /\ cfg.enabled

\* Mutant: the entries are appended without looking for them.
PatchedTwice(cfg) ==
    [cfg EXCEPT !.address = "agent", !.providers = @ + 1, !.accessLogs = @ + 1,
                !.enabled = TRUE]

\* Mutant: enableEnvoyAccessLogService is forgotten.
PatchedNotEnabled(cfg) ==
    [cfg EXCEPT !.address = "agent",
                !.providers = IF @ > 0 THEN @ ELSE 1,
                !.accessLogs = IF @ > 0 THEN @ ELSE 1]

\* The edit of PatchIstioConfigMap: an entry is appended if there is none.
Patched(cfg) ==
    [address |-> "agent",
     providers |-> IF cfg.providers > 0 THEN cfg.providers ELSE 1,
     accessLogs |-> IF cfg.accessLogs > 0 THEN cfg.accessLogs ELSE 1,
     enabled |-> TRUE, extra |-> cfg.extra, nested |-> cfg.nested]

\* Mutant: the default access log provider is left behind.
UnpatchedHalf(cfg) ==
    [cfg EXCEPT !.address = "empty", !.providers = IF @ > 0 THEN @ - 1 ELSE 0]

\* The edit of UnpatchIstioConfigMap: the first entry is removed from each
\* list; enableEnvoyAccessLogService keeps its value.
Unpatched(cfg) ==
    [address |-> "empty",
     providers |-> IF cfg.providers > 0 THEN cfg.providers - 1 ELSE 0,
     accessLogs |-> IF cfg.accessLogs > 0 THEN cfg.accessLogs - 1 ELSE 0,
     enabled |-> cfg.enabled, extra |-> cfg.extra, nested |-> cfg.nested]

-----------------------------------------------------------------------------
\* PatchIstioConfigMap, on the way from Agent() to its signal loop.

\* Read and parse; nothing to do if another agent has patched it before.
PatchParse(a) ==
    /\ agent[a].pc = "start"
    /\ Go(a, IF isIstioAlreadyPatched(Parsed)
             THEN [pc |-> "running"]
             ELSE [pc |-> "patch", cfg |-> Patched(Parsed)])
    /\ alone' = (alone /\ Sole(a))
    /\ UNCHANGED <<mesh, fresh, edits>>

\* The first half of updateConfigMap: Get, for the resourceVersion.
Reread(a, from, to) ==
    /\ agent[a].pc = from
    /\ Go(a, [agent[a] EXCEPT !.pc = to])
    /\ fresh' = fresh \cup {a}
    /\ UNCHANGED <<mesh, edits, alone>>

PatchReread(a) == Reread(a, "patch", "updatePatch")

\* The second half: Update replaces the mesh field, if nothing intervened.
Update(a, from, to) ==
    /\ agent[a].pc = from
    /\ a \in fresh
    /\ mesh' = agent[a].cfg
    /\ fresh' = {}
    /\ Go(a, [pc |-> to])
    /\ UNCHANGED <<edits, alone>>

PatchUpdate(a) == Update(a, "updatePatch", "running")

\* A read or the update fails, or the update conflicts: Agent destroys itself.
PatchFails(a) ==
    /\ agent[a].pc \in {"start", "patch", "updatePatch"}
    /\ Go(a, [pc |-> "destroy"])
    /\ alone' = (alone /\ Sole(a))
    /\ UNCHANGED <<mesh, fresh, edits>>

-----------------------------------------------------------------------------
\* DestroyAgent, whose first deed is UnpatchIstioConfigMap.

Signal(a) ==
    /\ agent[a].pc = "running"
    /\ Go(a, [pc |-> "destroy"])
    /\ UNCHANGED <<mesh, fresh, edits, alone>>

UnpatchParse(a) ==
    /\ agent[a].pc = "destroy"
    /\ Go(a, [pc |-> "unpatch", cfg |-> Unpatched(Parsed)])
    /\ UNCHANGED <<mesh, fresh, edits, alone>>

UnpatchReread(a) == Reread(a, "unpatch", "updateUnpatch")

UnpatchUpdate(a) == Update(a, "updateUnpatch", "stopped")

\* "Failed to unpatch Istio ConfigMap": logged, and the agent stops anyway.
UnpatchFails(a) ==
    /\ agent[a].pc \in {"destroy", "unpatch", "updateUnpatch"}
    /\ Go(a, [pc |-> "stopped"])
    /\ UNCHANGED <<mesh, fresh, edits, alone>>

-----------------------------------------------------------------------------
\* The environment.

Kill(a) ==
    /\ agent[a].pc \notin {"stopped", "killed"}
    /\ Go(a, [pc |-> "killed"])
    /\ UNCHANGED <<mesh, fresh, edits, alone>>

\* The Deployment starts the container again.
Restart(a) ==
    /\ agent[a].pc \in {"stopped", "killed"}
    /\ Go(a, [pc |-> "start"])
    /\ UNCHANGED <<mesh, fresh, edits, alone>>

EditExtra ==
    /\ "extra" \in UserEdits
    /\ edits < MaxEdits
    /\ edits' = edits + 1
    /\ mesh' = [mesh EXCEPT !.extra = edits + 1]
    /\ fresh' = {}
    /\ UNCHANGED <<agent, alone>>

\* The user points the proxies to an access log service of their own.
EditAddress ==
    /\ "address" \in UserEdits
    /\ mesh.address # "user"
    /\ mesh' = [mesh EXCEPT !.address = "user"]
    /\ fresh' = {}
    /\ alone' = FALSE
    /\ UNCHANGED <<agent, edits>>

AgentStep(a) ==
    \/ PatchParse(a) \/ PatchReread(a) \/ PatchUpdate(a) \/ PatchFails(a)
    \/ Signal(a)
    \/ UnpatchParse(a) \/ UnpatchReread(a) \/ UnpatchUpdate(a) \/ UnpatchFails(a)
    \/ Kill(a) \/ Restart(a)

Next == (\E a \in Agents : AgentStep(a)) \/ EditExtra \/ EditAddress

Spec == Init /\ [][Next]_vars

-----------------------------------------------------------------------------
(***************************************************************************)
(* EnteredOnce: however agents overlap, crash and patch again over a       *)
(* user's change, the mesh names the agent at most once in each list.      *)
(* Unpatching removes one entry of each, so a second one would stay.       *)
(***************************************************************************)
EnteredOnce == mesh.providers <= 1 /\ mesh.accessLogs <= 1

(***************************************************************************)
(* UnpatchLeavesNoTrace: the update of an agent that stops leaves no       *)
(* reference to the agent in the mesh, also over a patch of another agent  *)
(* or a user's edit: the sidecars no longer send to a service that is gone.*)
(***************************************************************************)
UnpatchLeavesNoTrace ==
    [][\A a \in Agents : UnpatchUpdate(a) =>
          mesh'.address # "agent" /\ mesh'.providers = 0 /\ mesh'.accessLogs = 0]_vars

(***************************************************************************)
(* RunningIsPatched: while an agent that has completed its initialisation  *)
(* runs, the sidecars are configured to send it their logs and metrics     *)
(* ("set metrics and envoy access logging to Agent").  False when two      *)
(* overlap, as in a rolling update in which nothing fails: the new agent   *)
(* finds the mesh patched and skips, then the old one unpatches it.        *)
(***************************************************************************)
RunningIsPatched ==
    (\E a \in Agents : agent[a].pc = "running") => isIstioAlreadyPatched(mesh)

(***************************************************************************)
(* AloneIsPatched: the same holds of agents that take turns, through       *)
(* kills, failed updates, restarts and edits of other fields.              *)
(***************************************************************************)
AloneIsPatched == alone => RunningIsPatched

(***************************************************************************)
(* ExtraFieldsUntouched: the fields the agent does not know stay as the    *)
(* user last set them ("all extra fields that Agent will not touch").      *)
(* False: an edit between the two reads of an agent is overwritten with    *)
(* the copy of the first, which the version of the second lets through.    *)
(***************************************************************************)
ExtraFieldsUntouched == mesh.extra = edits
=============================================================================
