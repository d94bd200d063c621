------------------------------ MODULE Broadcast ------------------------------
(***************************************************************************)
(* What the manager's exporter promises its clients: each kind of event is *)
(* a log, and a subscription to a kind reads that log from the position at *)
(* which it joined, in order, without a gap or a repetition, until the     *)
(* client goes away.  No item enters a log twice.                          *)
(***************************************************************************)
EXTENDS Sequences, Naturals

CONSTANTS
    Kinds,      \* kinds of events
    Items, ItemKind,   \* events, and the kind of each
    Subs, SubKind      \* subscriptions, and the kind each asks for

VARIABLES
    log,     \* kind -> the items published
    joined,  \* the subscriptions made
    left,    \* the subscriptions whose client is gone
    start,   \* subscription -> length of its log when it joined
    read     \* subscription -> the items it has received

vars == <<log, joined, left, start, read>>

Init ==
    /\ log = [k \in Kinds |-> <<>>]
    /\ joined = {}
    /\ left = {}
    /\ start = [s \in Subs |-> 0]
    /\ read = [s \in Subs |-> <<>>]

Published(i) == \E n \in DOMAIN log[ItemKind[i]] : log[ItemKind[i]][n] = i

Publish(i) ==
    /\ ~Published(i)
    /\ log' = [log EXCEPT ![ItemKind[i]] = Append(@, i)]
    /\ UNCHANGED <<joined, left, start, read>>

Join(s) ==
    /\ s \notin joined
    /\ joined' = joined \cup {s}
    /\ start' = [start EXCEPT ![s] = Len(log[SubKind[s]])]
    /\ UNCHANGED <<log, left, read>>

\* The position in its log of the next item for s.
Position(s) == start[s] + Len(read[s]) + 1

Deliver(s) ==
    /\ s \in joined \ left
    /\ Position(s) <= Len(log[SubKind[s]])
    /\ read' = [read EXCEPT ![s] = Append(@, log[SubKind[s]][Position(s)])]
    /\ UNCHANGED <<log, joined, left, start>>

Leave(s) ==
    /\ s \in joined \ left
    /\ left' = left \cup {s}
    /\ UNCHANGED <<log, joined, start, read>>

Next ==
    \/ \E i \in Items : Publish(i)
    \/ \E s \in Subs : Join(s) \/ Deliver(s) \/ Leave(s)

SafeSpec == Init /\ [][Next]_vars

\* A client that stays gets what is published.
Spec == SafeSpec /\ \A s \in Subs : WF_vars(Deliver(s))
=============================================================================
