--------------------------- MODULE IstioPatchProofs ---------------------------
(***************************************************************************)
(* Theorems about the agents that patch and unpatch the mesh, for any      *)
(* number of agents and any edits.  An agent works on a copy that may be   *)
(* old, so the invariant says of each copy what the mesh will be once it   *)
(* is written.                                                             *)
(***************************************************************************)
EXTENDS IstioPatch, TLAPS

USE EditsAssumption

Patching(a) == agent[a].pc \in {"patch", "updatePatch"}
Unpatching(a) == agent[a].pc \in {"unpatch", "updateUnpatch"}

Once(cfg) == cfg.providers \in 0..1 /\ cfg.accessLogs \in 0..1

NoTrace(cfg) == cfg.address = "empty" /\ cfg.providers = 0 /\ cfg.accessLogs = 0

\* What an agent will write.
Copies ==
    \A a \in Agents :
        /\ Patching(a) => Once(agent[a].cfg) /\ isIstioAlreadyPatched(agent[a].cfg)
        /\ Unpatching(a) => NoTrace(agent[a].cfg)

\* Agents take turns while alone holds.
Turns == alone => \A a, b \in Agents : a = b \/ Away(a) \/ Away(b)

IInv == TypeOK /\ Once(mesh) /\ Copies /\ Turns /\ AloneIsPatched

-----------------------------------------------------------------------------
\* The edits of the mesh.

LEMMA ParsedKeeps ==
  ASSUME mesh \in MeshConfigs
  PROVE  /\ Parsed \in MeshConfigs
         /\ \A f \in {"address", "providers", "accessLogs", "enabled"} : Parsed[f] = mesh[f]
         /\ isIstioAlreadyPatched(Parsed) <=> isIstioAlreadyPatched(mesh)
         /\ Once(mesh) => Once(Parsed)
BY DEF Parsed, MeshConfigs, isIstioAlreadyPatched, Once

LEMMA PatchedIsPatched ==
  ASSUME NEW cfg \in MeshConfigs, Once(cfg)
  PROVE  /\ Patched(cfg) \in MeshConfigs
         /\ Once(Patched(cfg))
         /\ isIstioAlreadyPatched(Patched(cfg))
BY DEF Patched, MeshConfigs, isIstioAlreadyPatched, Once

LEMMA UnpatchedHasNoTrace ==
  ASSUME NEW cfg \in MeshConfigs, Once(cfg)
  PROVE  Unpatched(cfg) \in MeshConfigs /\ NoTrace(Unpatched(cfg))
BY DEF Unpatched, MeshConfigs, NoTrace, Once

\* A state of an agent that has a copy.
LEMMA WithCopy ==
  ASSUME TypeOK, NEW a \in Agents, Patching(a) \/ Unpatching(a)
  PROVE  /\ agent[a].cfg \in MeshConfigs
         /\ agent[a] = [pc |-> agent[a].pc, cfg |-> agent[a].cfg]
BY DEF TypeOK, AgentStates, Patching, Unpatching

-----------------------------------------------------------------------------
\* The steps.

LEMMA InitIInv == Init => IInv
<1> SUFFICES ASSUME Init PROVE IInv OBVIOUS
<1>1. mesh \in MeshConfigs
  <2>1. /\ mesh \in [address : {"empty", "user"}, providers : {0}, accessLogs : {0},
                     enabled : BOOLEAN, extra : {0}, nested : {TRUE}]
    BY DEF Init
  <2>2. 0 \in 0..2 /\ 0 \in 0..MaxEdits OBVIOUS
  <2> QED BY <2>1, <2>2 DEF MeshConfigs
<1>2. TypeOK BY <1>1 DEF Init, TypeOK, AgentStates
<1> QED BY <1>2 DEF Init, IInv, Once, Copies, Patching, Unpatching, Turns, Away, AloneIsPatched,
                    RunningIsPatched

\* An agent goes to a state in which it has no copy, and the mesh stays.
LEMMA NoCopy ==
  ASSUME IInv, NEW a \in Agents,
         NEW pc \in {"start", "running", "destroy", "stopped", "killed"}, Go(a, [pc |-> pc]),
         UNCHANGED <<mesh, fresh, edits>>, alone' \in BOOLEAN, alone' => alone,
         pc = "running" => isIstioAlreadyPatched(mesh),
         Away(a) /\ pc \in {"running", "destroy"} /\ alone' => Sole(a)
  PROVE  IInv'
<1>1. agent' = [agent EXCEPT ![a] = [pc |-> pc]] /\ agent \in [Agents -> AgentStates]
  BY DEF Go, IInv, TypeOK
<1>2. [pc |-> pc] \in AgentStates BY DEF AgentStates
<1>3. TypeOK' BY <1>1, <1>2 DEF IInv, TypeOK
<1>4. \A b \in Agents \ {a} : agent'[b] = agent[b] BY <1>1
<1>5. agent'[a].pc = pc BY <1>1
<1>6. Copies' BY <1>4, <1>5 DEF IInv, Copies, Patching, Unpatching
<1>7. Turns' BY <1>4, <1>5 DEF IInv, Turns, Away, Sole
<1>8. AloneIsPatched'
  BY <1>4, <1>5 DEF IInv, AloneIsPatched, RunningIsPatched, isIstioAlreadyPatched
<1>9. Once(mesh)' BY DEF IInv, Once
<1> QED BY <1>3, <1>6, <1>7, <1>8, <1>9 DEF IInv

\* An agent makes a copy, or reads again with the copy it has.
LEMMA HasCopy ==
  ASSUME IInv, NEW a \in Agents, NEW cfg \in MeshConfigs,
         NEW pc \in {"patch", "updatePatch", "unpatch", "updateUnpatch"},
         Go(a, [pc |-> pc, cfg |-> cfg]),
         UNCHANGED <<mesh, edits>>, fresh' \subseteq Agents, alone' \in BOOLEAN, alone' => alone,
         pc \in {"patch", "updatePatch"} => Once(cfg) /\ isIstioAlreadyPatched(cfg),
         pc \in {"unpatch", "updateUnpatch"} => NoTrace(cfg),
         Away(a) /\ alone' => Sole(a)
  PROVE  IInv'
<1>1. /\ agent' = [agent EXCEPT ![a] = [pc |-> pc, cfg |-> cfg]]
      /\ agent \in [Agents -> AgentStates]
  BY DEF Go, IInv, TypeOK
<1>2. [pc |-> pc, cfg |-> cfg] \in AgentStates BY DEF AgentStates
<1>3. TypeOK' BY <1>1, <1>2 DEF IInv, TypeOK
<1>4. \A b \in Agents \ {a} : agent'[b] = agent[b] BY <1>1
<1>5. agent'[a].pc = pc /\ agent'[a].cfg = cfg BY <1>1
<1>6. Copies' BY <1>4, <1>5 DEF IInv, Copies, Patching, Unpatching, Once, NoTrace
<1>7. Turns' BY <1>4, <1>5 DEF IInv, Turns, Away, Sole
<1>8. AloneIsPatched'
  BY <1>4, <1>5 DEF IInv, AloneIsPatched, RunningIsPatched, isIstioAlreadyPatched
<1>9. Once(mesh)' BY DEF IInv, Once
<1> QED BY <1>3, <1>6, <1>7, <1>8, <1>9 DEF IInv

\* An agent writes its copy.
LEMMA Writes ==
  ASSUME IInv, NEW a \in Agents, PatchUpdate(a) \/ UnpatchUpdate(a)
  PROVE  IInv'
<1>1. Patching(a) \/ Unpatching(a)
  BY DEF PatchUpdate, UnpatchUpdate, Update, Patching, Unpatching
<1>2. PICK pc \in {"running", "stopped"} :
         /\ Go(a, [pc |-> pc]) /\ mesh' = agent[a].cfg
         /\ fresh' = {} /\ UNCHANGED <<edits, alone>>
         /\ pc = "running" => Patching(a)
         /\ pc = "stopped" => Unpatching(a)
  BY DEF PatchUpdate, UnpatchUpdate, Update, Patching, Unpatching
<1>3. agent' = [agent EXCEPT ![a] = [pc |-> pc]] /\ agent \in [Agents -> AgentStates]
  BY <1>2 DEF Go, IInv, TypeOK
<1>4. mesh' \in MeshConfigs BY <1>1, <1>2, WithCopy DEF IInv
<1>5. [pc |-> pc] \in AgentStates BY DEF AgentStates
<1>6. TypeOK' BY <1>2, <1>3, <1>4, <1>5 DEF IInv, TypeOK
<1>7. \A b \in Agents \ {a} : agent'[b] = agent[b] BY <1>3
<1>8. agent'[a].pc = pc BY <1>3
<1>9. Copies' BY <1>7, <1>8 DEF IInv, Copies, Patching, Unpatching
<1>10. ~Away(a) BY <1>1 DEF Away, Patching, Unpatching
<1>11. Turns' BY <1>2, <1>7, <1>8, <1>10 DEF IInv, Turns, Away
<1>12. Once(mesh)' BY <1>1, <1>2 DEF IInv, Copies, Once, NoTrace
<1>13. AloneIsPatched'
  <2>1. CASE pc = "running"
    BY <2>1, <1>2 DEF IInv, Copies, AloneIsPatched, RunningIsPatched, isIstioAlreadyPatched
  <2>2. CASE pc = "stopped"
    <3>1. alone => \A b \in Agents : agent'[b].pc # "running"
      BY <2>2, <1>7, <1>8, <1>10 DEF IInv, Turns, Away
    <3> QED BY <3>1, <1>2 DEF AloneIsPatched, RunningIsPatched
  <2> QED BY <2>1, <2>2
<1> QED BY <1>6, <1>9, <1>11, <1>12, <1>13 DEF IInv

LEMMA AgentKeeps == ASSUME IInv, NEW a \in Agents, AgentStep(a) PROVE IInv'
<1> USE DEF IInv, TypeOK
<1>1. CASE PatchParse(a)
  <2>1. CASE isIstioAlreadyPatched(Parsed)
    <3>1. Go(a, [pc |-> "running"]) /\ isIstioAlreadyPatched(mesh)
      BY <1>1, <2>1, ParsedKeeps DEF PatchParse
    <3> QED BY <1>1, <3>1, NoCopy DEF PatchParse
  <2>2. CASE ~isIstioAlreadyPatched(Parsed)
    <3>1. Go(a, [pc |-> "patch", cfg |-> Patched(Parsed)]) BY <1>1, <2>2 DEF PatchParse
    <3>2. /\ Patched(Parsed) \in MeshConfigs /\ Once(Patched(Parsed))
          /\ isIstioAlreadyPatched(Patched(Parsed))
      BY ParsedKeeps, PatchedIsPatched
    <3> QED BY <1>1, <3>1, <3>2, HasCopy DEF PatchParse
  <2> QED BY <2>1, <2>2
<1>2. CASE PatchReread(a) \/ UnpatchReread(a)
  <2>1. PICK pc \in {"updatePatch", "updateUnpatch"} :
           /\ Go(a, [agent[a] EXCEPT !.pc = pc])
           /\ fresh' = fresh \cup {a} /\ UNCHANGED <<mesh, edits, alone>>
           /\ pc = "updatePatch" => Patching(a)
           /\ pc = "updateUnpatch" => Unpatching(a)
    BY <1>2 DEF PatchReread, UnpatchReread, Reread, Patching, Unpatching
  <2>2. agent[a].cfg \in MeshConfigs /\ agent[a] = [pc |-> agent[a].pc, cfg |-> agent[a].cfg]
    BY <2>1, WithCopy
  <2>3. [agent[a] EXCEPT !.pc = pc] = [pc |-> pc, cfg |-> agent[a].cfg] BY <2>2
  <2>4. /\ pc = "updatePatch" => Once(agent[a].cfg) /\ isIstioAlreadyPatched(agent[a].cfg)
        /\ pc = "updateUnpatch" => NoTrace(agent[a].cfg)
    BY <2>1 DEF Copies
  <2>5. ~Away(a) BY <2>1 DEF Away, Patching, Unpatching
  <2>6. Go(a, [pc |-> pc, cfg |-> agent[a].cfg]) BY <2>1, <2>3
  <2>7. fresh' \subseteq Agents BY <2>1
  <2>8. CASE pc = "updatePatch" BY <2>1, <2>2, <2>4, <2>5, <2>6, <2>7, <2>8, HasCopy
  <2>9. CASE pc = "updateUnpatch" BY <2>1, <2>2, <2>4, <2>5, <2>6, <2>7, <2>9, HasCopy
  <2> QED BY <2>8, <2>9
<1>3. CASE PatchUpdate(a) \/ UnpatchUpdate(a) BY <1>3, Writes
<1>4. CASE UnpatchParse(a)
  <2>1. Unpatched(Parsed) \in MeshConfigs /\ NoTrace(Unpatched(Parsed))
    BY ParsedKeeps, UnpatchedHasNoTrace
  <2>2. ~Away(a) BY <1>4 DEF UnpatchParse, Away
  <2> QED BY <1>4, <2>1, <2>2, HasCopy DEF UnpatchParse
<1>5. CASE PatchFails(a) BY <1>5, NoCopy DEF PatchFails
<1>6. CASE Signal(a) BY <1>6, NoCopy DEF Signal, Away
<1>7. CASE UnpatchFails(a) BY <1>7, NoCopy DEF UnpatchFails
<1>8. CASE Kill(a) BY <1>8, NoCopy DEF Kill
<1>9. CASE Restart(a) BY <1>9, NoCopy DEF Restart
<1> QED BY <1>1, <1>2, <1>3, <1>4, <1>5, <1>6, <1>7, <1>8, <1>9 DEF AgentStep

(***************************************************************************)
(* Every reachable state satisfies the invariant: whatever copy an agent   *)
(* has made, a patch of it is complete and has each entry once, and an     *)
(* unpatch of it has no trace of the agent.                                *)
(***************************************************************************)
THEOREM PatchInvariant == Spec => []IInv
<1>1. IInv /\ [Next]_vars => IInv'
  <2> SUFFICES ASSUME IInv, [Next]_vars PROVE IInv' OBVIOUS
  <2>1. CASE UNCHANGED vars
    BY <2>1 DEF vars, IInv, TypeOK, Once, Copies, Patching, Unpatching, isIstioAlreadyPatched,
                NoTrace, Turns, Away, AloneIsPatched, RunningIsPatched
  <2>2. ASSUME NEW a \in Agents, AgentStep(a) PROVE IInv' BY <2>2, AgentKeeps
  <2>3. ASSUME UNCHANGED <<agent>>, mesh' \in MeshConfigs, Once(mesh'), fresh' = {},
               edits' \in 0..MaxEdits, alone' \in BOOLEAN, alone' => alone,
               alone' /\ isIstioAlreadyPatched(mesh) => isIstioAlreadyPatched(mesh')
        PROVE  IInv'
    BY <2>3 DEF IInv, TypeOK, Once, Copies, Patching, Unpatching, isIstioAlreadyPatched,
                NoTrace, Turns, Away, AloneIsPatched, RunningIsPatched
  <2>4. CASE EditExtra
    <3>1. edits' \in 0..MaxEdits BY <2>4 DEF EditExtra, IInv, TypeOK
    <3>2. mesh' \in MeshConfigs BY <2>4, <3>1 DEF EditExtra, IInv, TypeOK, MeshConfigs
    <3>3. /\ Once(mesh')
          /\ isIstioAlreadyPatched(mesh) => isIstioAlreadyPatched(mesh')
      BY <2>4 DEF EditExtra, IInv, TypeOK, MeshConfigs, Once, isIstioAlreadyPatched
    <3> QED BY <2>3, <2>4, <3>1, <3>2, <3>3 DEF EditExtra, IInv, TypeOK
  <2>5. CASE EditAddress
    <3>1. mesh' \in MeshConfigs /\ Once(mesh')
      BY <2>5 DEF EditAddress, IInv, TypeOK, MeshConfigs, Once
    <3> QED BY <2>3, <2>5, <3>1 DEF EditAddress, IInv, TypeOK
  <2> QED BY <2>1, <2>2, <2>4, <2>5 DEF Next
<1> QED BY <1>1, InitIInv, PTL DEF Spec

\* Every variable keeps its type.
THEOREM PatchTypeCorrect == Spec => []TypeOK
<1>1. IInv => TypeOK BY DEF IInv
<1> QED BY <1>1, PatchInvariant, PTL

\* The mesh names the agent at most once in each list.
THEOREM NeverTwice == Spec => []EnteredOnce
<1>1. IInv => EnteredOnce BY DEF IInv, Once, EnteredOnce
<1> QED BY <1>1, PatchInvariant, PTL

\* While agents take turns, one that runs is the one the mesh names.
THEOREM TurnsArePatched == Spec => []AloneIsPatched
<1>1. IInv => AloneIsPatched BY DEF IInv
<1> QED BY <1>1, PatchInvariant, PTL

\* The update of an agent that stops leaves no reference to the agent.
THEOREM NoTraceLeft == Spec => UnpatchLeavesNoTrace
<1>1. IInv /\ [Next]_vars =>
         [\A a \in Agents : UnpatchUpdate(a) =>
             mesh'.address # "agent" /\ mesh'.providers = 0 /\ mesh'.accessLogs = 0]_vars
  BY DEF IInv, Copies, Unpatching, NoTrace, UnpatchUpdate, Update
<1> QED BY <1>1, PatchInvariant, PTL DEF Spec, UnpatchLeavesNoTrace
=============================================================================
