------------------------------ MODULE EventFeed ------------------------------
(***************************************************************************)
(* What KubeCarto promises of a cluster's events all the way to a store:   *)
(* an event is stored once or lost, and nothing else is stored.  Neither   *)
(* the order of events nor their arrival is promised.                      *)
(***************************************************************************)
EXTENDS Naturals, Sequences

CONSTANTS Objects   \* deployments, pods and services

VARIABLES
    count,    \* object -> number of its events so far
    cluster,  \* object -> its last event if it exists, or 0
    pending,  \* events neither stored nor lost
    docs      \* object -> its documents in the store, each an event's number

vars == <<count, cluster, pending, docs>>

Init ==
    /\ count = [o \in Objects |-> 0]
    /\ cluster = [o \in Objects |-> 0]
    /\ pending = {}
    /\ docs = [o \in Objects |-> <<>>]

\* An object is created or changed, or goes away.
Happen(o, act) ==
    LET e == [obj |-> o, act |-> act, num |-> count[o] + 1] IN
    /\ count' = [count EXCEPT ![o] = e.num]
    /\ cluster' = [cluster EXCEPT ![o] = IF act = "DELETE" THEN 0 ELSE e.num]
    /\ pending' = pending \cup {e}
    /\ UNCHANGED docs

\* An object goes away while nobody watches: there is no event to store.
Miss(o) ==
    /\ cluster' = [cluster EXCEPT ![o] = 0]
    /\ UNCHANGED <<count, pending, docs>>

\* The documents of an object after an event of it is stored.
Stored(e, ds) ==
    CASE e.act = "ADD" -> Append(ds, e.num)
      [] e.act = "UPDATE" -> IF ds = <<>> THEN <<e.num>> ELSE [ds EXCEPT ![1] = e.num]
      [] e.act = "DELETE" -> IF ds = <<>> THEN ds ELSE Tail(ds)

Store(e) ==
    /\ pending' = pending \ {e}
    /\ docs' = [docs EXCEPT ![e.obj] = Stored(e, @)]
    /\ UNCHANGED <<count, cluster>>

Lose(es) ==
    /\ pending' = pending \ es
    /\ UNCHANGED <<count, cluster, docs>>

Next ==
    \/ \E o \in Objects : Miss(o)
    \/ \E o \in Objects, act \in {"ADD", "UPDATE", "DELETE"} : Happen(o, act)
    \/ \E e \in pending : Store(e)
    \/ \E es \in SUBSET pending : Lose(es)

Spec == Init /\ [][Next]_vars
=============================================================================
