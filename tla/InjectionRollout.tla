--------------------------- MODULE InjectionRollout ---------------------------
(***************************************************************************)
(* PatchNamespaces and RestartDeployments (agent/k8s): the agent labels    *)
(* every namespace for the injection of sidecars and then means to touch   *)
(* every deployment, so that its pods start anew with one.                 *)
(*                                                                         *)
(* PatchNamespaces lists first and updates one namespace after the other   *)
(* with the copy from the list.  The API server (external) refuses an      *)
(* update whose copy is not of the current version; users change the       *)
(* namespaces meanwhile.  RestartDeployments sets a label to the time as   *)
(* text, which is no label value: the API server refuses whatever it       *)
(* updates ("this DOES NOT restart deployments").  The first failure ends  *)
(* either function, which then returns false.                              *)
(***************************************************************************)
EXTENDS Naturals

CONSTANTS
    Namespaces, Deployments,
    NamespaceOf,   \* deployment -> namespace
    Own,           \* the namespace "kubecarto", whose deployments are skipped
    MaxEdits,      \* bound: changes of one namespace by users
    Absent         \* no such namespace

\* edit counts the users' changes.
Namespace == [enabled : BOOLEAN, edit : 0..MaxEdits, version : Nat]

ASSUME RolloutAssumption ==
    /\ NamespaceOf \in [Deployments -> Namespaces]
    /\ MaxEdits \in Nat
    /\ Own \in Namespaces
    /\ Absent \notin Namespace

VARIABLES
    namespaces,   \* the API server's namespaces
    deployments,  \* the deployments it has
    copies,       \* what PatchNamespaces has still to update, as it was listed
    todo,         \* the deployments RestartDeployments has still to restart
    changed       \* history: namespaces changed by users since PatchNamespaces listed

clusterVars == <<namespaces, deployments>>
rolloutVars == <<clusterVars, copies, todo, changed>>

None == [o \in {} |-> Absent]

RolloutTypeOK ==
    /\ namespaces \in [Namespaces -> Namespace \cup {Absent}]
    /\ deployments \subseteq Deployments
    /\ DOMAIN copies \subseteq Namespaces
    /\ \A n \in DOMAIN copies : copies[n] \in Namespace
    /\ todo \subseteq Deployments
    /\ changed \subseteq Namespaces

Exists(n) == namespaces[n] # Absent

RolloutInit ==
    /\ namespaces \in [Namespaces -> {Absent, [enabled |-> FALSE, edit |-> 0, version |-> 0]}]
    /\ Exists(Own)
    /\ deployments = {d \in Deployments : Exists(NamespaceOf[d])}
    /\ copies = None
    /\ todo = {}
    /\ changed = {}

-----------------------------------------------------------------------------
\* PatchNamespaces.

ListNamespaces ==
    /\ copies' = [n \in {n \in Namespaces : Exists(n)} |-> namespaces[n]]
    /\ changed' = {}
    /\ UNCHANGED <<clusterVars, todo>>

Current(copy, object) == copy.version = object.version

Rest(n) == [o \in DOMAIN copies \ {n} |-> copies[o]]

Write(n) ==
    /\ namespaces' = [namespaces EXCEPT ![n] = [enabled |-> TRUE, edit |-> copies[n].edit,
                                                version |-> @.version + 1]]
    /\ copies' = Rest(n)
    /\ UNCHANGED <<deployments, todo, changed>>

\* Mutant: the copy carries no resourceVersion, so the API server takes it.
UpdateNamespaceUnversioned(n) ==
    /\ n \in DOMAIN copies
    /\ Write(n)

\* Namespaces().Update(namespace)
UpdateNamespace(n) ==
    /\ n \in DOMAIN copies
    /\ Current(copies[n], namespaces[n])
    /\ Write(n)

\* A conflict, a namespace that is gone, or an API server that is away.
NamespaceRefused ==
    /\ copies # None
    /\ copies' = None
    /\ UNCHANGED <<clusterVars, todo, changed>>

-----------------------------------------------------------------------------
\* RestartDeployments.

ListDeployments ==
    /\ todo' = {d \in deployments : NamespaceOf[d] # Own}
    /\ UNCHANGED <<clusterVars, copies, changed>>

\* restartDeployment of any of them gets the deployment, sets restartedAt to
\* v1.Now().String() and updates: the Get fails, or the update is refused, for
\* the label or for a conflict.
RestartRefused ==
    /\ todo # {}
    /\ todo' = {}
    /\ UNCHANGED <<clusterVars, copies, changed>>

-----------------------------------------------------------------------------
\* Users (external).  That a namespace goes away shows only in an update that
\* is refused.

UserEditsNamespace(n, enabled) ==
    /\ Exists(n)
    /\ namespaces[n].edit < MaxEdits
    /\ namespaces' = [namespaces EXCEPT ![n] = [enabled |-> enabled, edit |-> @.edit + 1,
                                                version |-> @.version + 1]]
    /\ changed' = changed \cup {n}
    /\ UNCHANGED <<deployments, copies, todo>>

UserCreatesNamespace(n) ==
    /\ ~Exists(n)
    /\ namespaces' = [namespaces EXCEPT ![n] = [enabled |-> FALSE, edit |-> 0, version |-> 0]]
    /\ changed' = changed \cup {n}
    /\ UNCHANGED <<deployments, copies, todo>>

UserCreatesDeployment(d) ==
    /\ d \notin deployments /\ Exists(NamespaceOf[d])
    /\ deployments' = deployments \cup {d}
    /\ UNCHANGED <<namespaces, copies, todo, changed>>

UserDeletesDeployment(d) ==
    /\ d \in deployments
    /\ deployments' = deployments \ {d}
    /\ UNCHANGED <<namespaces, copies, todo, changed>>

Users ==
    \/ \E n \in Namespaces : \/ UserCreatesNamespace(n)
                             \/ \E enabled \in BOOLEAN : UserEditsNamespace(n, enabled)
    \/ \E d \in Deployments : UserCreatesDeployment(d) \/ UserDeletesDeployment(d)

-----------------------------------------------------------------------------
\* The functions for themselves: called at any time, in any order, again and
\* again.  When Agent() calls them is said in AgentLifecycle, which implements
\* this specification.

Agent ==
    \/ ListNamespaces \/ (\E n \in Namespaces : UpdateNamespace(n)) \/ NamespaceRefused
    \/ ListDeployments \/ RestartRefused

RolloutNext == Agent \/ Users

RolloutSpec == RolloutInit /\ [][RolloutNext]_rolloutVars

-----------------------------------------------------------------------------
\* What every namespace that exists keeps of its users' changes.
KeepsEdits == \A n \in Namespaces : Exists(n) => namespaces'[n].edit >= namespaces[n].edit

(***************************************************************************)
(* EditsSurvive: an update by PatchNamespaces, whose copies get old while  *)
(* it goes through the list, never takes back what a user or a controller  *)
(* wrote to the namespace meanwhile.                                       *)
(***************************************************************************)
EditsSurvive == [][KeepsEdits]_rolloutVars
=============================================================================
