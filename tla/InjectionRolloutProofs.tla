------------------------ MODULE InjectionRolloutProofs ------------------------
(***************************************************************************)
(* Theorems about the rollout of the injection, for any namespaces,        *)
(* deployments and edits: what the copies that PatchNamespaces works on    *)
(* know of the namespaces in the cluster, and that no edit is taken back.  *)
(* AgentLifecycleProofs rests on them.                                     *)
(***************************************************************************)
EXTENDS InjectionRollout, TLAPS

USE RolloutAssumption

\* A copy is of a namespace that exists, and of its current state if the
\* versions agree.
Faithful(copy, object) ==
    /\ object \in Namespace
    /\ copy.version <= object.version
    /\ copy.version = object.version => copy.edit = object.edit

CopiesFaithful == \A n \in DOMAIN copies : Faithful(copies[n], namespaces[n])

RolloutInv == RolloutTypeOK /\ CopiesFaithful

LEMMA RolloutStarts == RolloutInit => RolloutInv
<1> SUFFICES ASSUME RolloutInit PROVE RolloutInv OBVIOUS
<1>1. [enabled |-> FALSE, edit |-> 0, version |-> 0] \in Namespace BY DEF Namespace
<1>2. RolloutTypeOK BY <1>1 DEF RolloutInit, RolloutTypeOK, None
<1>3. CopiesFaithful BY DEF RolloutInit, CopiesFaithful, None
<1> QED BY <1>2, <1>3 DEF RolloutInv

-----------------------------------------------------------------------------
\* The agent.

LEMMA UpdateNamespaceWrites ==
  ASSUME RolloutInv, NEW n \in Namespaces, UpdateNamespace(n)
  PROVE  /\ RolloutInv'
         /\ n \in DOMAIN copies /\ namespaces[n] \in Namespace
         /\ copies[n].edit = namespaces[n].edit
         /\ namespaces' = [namespaces EXCEPT ![n] = [enabled |-> TRUE, edit |-> namespaces[n].edit,
                                                     version |-> namespaces[n].version + 1]]
<1>1. /\ n \in DOMAIN copies /\ copies[n] \in Namespace /\ namespaces[n] \in Namespace
      /\ copies[n].edit = namespaces[n].edit
  BY DEF UpdateNamespace, Current, RolloutInv, RolloutTypeOK, CopiesFaithful, Faithful
<1>2. namespaces' = [namespaces EXCEPT ![n] = [enabled |-> TRUE, edit |-> namespaces[n].edit,
                                               version |-> namespaces[n].version + 1]]
  BY <1>1 DEF UpdateNamespace, Write
<1>3. [enabled |-> TRUE, edit |-> namespaces[n].edit, version |-> namespaces[n].version + 1]
         \in Namespace
  BY <1>1 DEF Namespace
<1>4. namespaces \in [Namespaces -> Namespace \cup {Absent}] BY DEF RolloutInv, RolloutTypeOK
<1>5. /\ \A m \in Namespaces \ {n} : namespaces'[m] = namespaces[m]
      /\ namespaces'[n] \in Namespace
  BY <1>2, <1>3, <1>4
<1>6. /\ DOMAIN copies' = DOMAIN copies \ {n}
      /\ \A m \in DOMAIN copies' : copies'[m] = copies[m]
      /\ UNCHANGED <<deployments, todo, changed>>
  BY DEF UpdateNamespace, Write, Rest
<1>7. RolloutTypeOK' BY <1>2, <1>3, <1>4, <1>6 DEF RolloutInv, RolloutTypeOK
<1>8. CopiesFaithful'
  BY <1>5, <1>6 DEF RolloutInv, RolloutTypeOK, CopiesFaithful, Faithful
<1> QED BY <1>1, <1>2, <1>7, <1>8 DEF RolloutInv

LEMMA AgentKeepsRollout == RolloutInv /\ Agent => RolloutInv'
<1> SUFFICES ASSUME RolloutInv, Agent PROVE RolloutInv' OBVIOUS
<1> USE DEF RolloutInv, RolloutTypeOK
<1>1. CASE ListNamespaces
  <2>1. /\ DOMAIN copies' = {n \in Namespaces : Exists(n)}
        /\ \A n \in DOMAIN copies' : copies'[n] = namespaces[n]
        /\ changed' = {} /\ UNCHANGED <<clusterVars, todo>>
    BY <1>1 DEF ListNamespaces
  <2>2. \A n \in DOMAIN copies' : copies'[n] \in Namespace BY <2>1 DEF Exists
  <2>3. \A n \in DOMAIN copies' : Faithful(copies'[n], namespaces[n])
    BY <2>1, <2>2 DEF Faithful, Namespace
  <2> QED BY <2>1, <2>2, <2>3 DEF clusterVars, CopiesFaithful, Faithful
<1>2. ASSUME NEW n \in Namespaces, UpdateNamespace(n) PROVE RolloutInv'
  BY <1>2, UpdateNamespaceWrites
<1>3. CASE NamespaceRefused
  BY <1>3 DEF NamespaceRefused, clusterVars, None, CopiesFaithful, Faithful
<1>4. CASE ListDeployments
  BY <1>4 DEF ListDeployments, clusterVars, CopiesFaithful, Faithful
<1>5. CASE RestartRefused
  BY <1>5 DEF RestartRefused, clusterVars, CopiesFaithful, Faithful
<1> QED BY <1>1, <1>2, <1>3, <1>4, <1>5 DEF Agent

-----------------------------------------------------------------------------
\* The users.

LEMMA UsersKeepRollout == RolloutInv /\ Users => RolloutInv'
<1> SUFFICES ASSUME RolloutInv, Users PROVE RolloutInv' OBVIOUS
<1> USE DEF RolloutInv, RolloutTypeOK
<1>1. ASSUME NEW n \in Namespaces, UserCreatesNamespace(n) PROVE RolloutInv'
  <2>1. [enabled |-> FALSE, edit |-> 0, version |-> 0] \in Namespace BY DEF Namespace
  <2>2. /\ \A m \in Namespaces \ {n} : namespaces'[m] = namespaces[m]
        /\ namespaces'[n] \in Namespace /\ namespaces[n] = Absent
        /\ UNCHANGED <<deployments, copies, todo>>
    BY <1>1, <2>1 DEF UserCreatesNamespace, Exists
  <2>3. n \notin DOMAIN copies BY <2>2 DEF CopiesFaithful, Faithful
  <2>4. RolloutTypeOK' BY <1>1, <2>1, <2>2 DEF UserCreatesNamespace
  <2>5. CopiesFaithful' BY <2>2, <2>3 DEF CopiesFaithful, Faithful
  <2> QED BY <2>4, <2>5
<1>2. ASSUME NEW n \in Namespaces, NEW enabled \in BOOLEAN, UserEditsNamespace(n, enabled)
      PROVE  RolloutInv'
  <2>1. /\ namespaces[n] \in Namespace /\ namespaces[n].edit < MaxEdits
        /\ namespaces' = [namespaces EXCEPT ![n] = [enabled |-> enabled,
                             edit |-> namespaces[n].edit + 1, version |-> namespaces[n].version + 1]]
        /\ changed' = changed \cup {n} /\ UNCHANGED <<deployments, copies, todo>>
    BY <1>2 DEF UserEditsNamespace, Exists
  <2>2. [enabled |-> enabled, edit |-> namespaces[n].edit + 1, version |-> namespaces[n].version + 1]
           \in Namespace
    BY <2>1 DEF Namespace
  <2>3. /\ \A m \in Namespaces \ {n} : namespaces'[m] = namespaces[m]
        /\ namespaces'[n] \in Namespace /\ namespaces'[n].version = namespaces[n].version + 1
    BY <2>1, <2>2
  <2>4. \A m \in DOMAIN copies : copies[m].version \in Nat BY DEF Namespace
  <2>5. RolloutTypeOK' BY <2>1, <2>2
  <2>6. namespaces[n].version \in Nat BY <2>1 DEF Namespace
  <2>7. CopiesFaithful' BY <2>1, <2>3, <2>4, <2>6 DEF CopiesFaithful, Faithful
  <2> QED BY <2>5, <2>7
<1>3. ASSUME NEW d \in Deployments, UserCreatesDeployment(d) \/ UserDeletesDeployment(d)
      PROVE  RolloutInv'
  BY <1>3 DEF UserCreatesDeployment, UserDeletesDeployment, CopiesFaithful, Faithful
<1> QED BY <1>1, <1>2, <1>3 DEF Users

-----------------------------------------------------------------------------
\* No step of the rollout or of a user takes back an edit.

LEMMA UnchangedKeepsEdits == RolloutInv /\ UNCHANGED namespaces => KeepsEdits
BY DEF RolloutInv, RolloutTypeOK, KeepsEdits, Exists, Namespace

LEMMA StepsKeepEdits == RolloutInv /\ (Agent \/ Users) => KeepsEdits
<1> SUFFICES ASSUME RolloutInv, Agent \/ Users PROVE KeepsEdits OBVIOUS
<1>0. \A n \in Namespaces : Exists(n) => namespaces[n].edit \in Nat
  BY DEF RolloutInv, RolloutTypeOK, Exists, Namespace
<1> USE DEF KeepsEdits, RolloutInv, RolloutTypeOK
<1>1. ASSUME NEW n \in Namespaces, UpdateNamespace(n) PROVE KeepsEdits
  BY <1>0, <1>1, UpdateNamespaceWrites
<1>2. ASSUME NEW n \in Namespaces, UserCreatesNamespace(n) PROVE KeepsEdits
  <2>1. /\ \A m \in Namespaces \ {n} : namespaces'[m] = namespaces[m]
        /\ ~Exists(n)
    BY <1>2 DEF UserCreatesNamespace
  <2> QED BY <1>0, <2>1
<1>3. ASSUME NEW n \in Namespaces, NEW enabled \in BOOLEAN, UserEditsNamespace(n, enabled)
      PROVE  KeepsEdits
  BY <1>0, <1>3 DEF UserEditsNamespace
<1>4. ASSUME NEW d \in Deployments, UserCreatesDeployment(d) \/ UserDeletesDeployment(d)
      PROVE  KeepsEdits
  BY <1>4, UnchangedKeepsEdits DEF UserCreatesDeployment, UserDeletesDeployment
<1>5. CASE ListNamespaces \/ NamespaceRefused \/ ListDeployments \/ RestartRefused
  BY <1>5, UnchangedKeepsEdits
     DEF ListNamespaces, NamespaceRefused, ListDeployments, RestartRefused, clusterVars
<1> QED BY <1>1, <1>2, <1>3, <1>4, <1>5 DEF Agent, Users

-----------------------------------------------------------------------------
\* Whenever the two functions are called, RolloutInv holds.
THEOREM RolloutInvariant == RolloutSpec => []RolloutInv
<1>1. RolloutInv /\ [RolloutNext]_rolloutVars => RolloutInv'
  <2>1. RolloutInv /\ UNCHANGED rolloutVars => RolloutInv'
    BY DEF rolloutVars, clusterVars, RolloutInv, RolloutTypeOK, CopiesFaithful, Faithful
  <2> QED BY <2>1, AgentKeepsRollout, UsersKeepRollout DEF RolloutNext
<1> QED BY <1>1, RolloutStarts, PTL DEF RolloutSpec

\* PatchNamespaces takes back no edit, in whatever order it and
\* RestartDeployments are called and however often: what AgentLifecycle shows
\* of the one call that Agent() makes of each does not rest on Agent()'s order.
THEOREM RolloutKeepsEdits == RolloutSpec => EditsSurvive
<1>1. RolloutInv /\ [RolloutNext]_rolloutVars => [KeepsEdits]_rolloutVars
  BY StepsKeepEdits DEF RolloutNext
<1> QED BY <1>1, RolloutInvariant, PTL DEF RolloutSpec, EditsSurvive
=============================================================================
