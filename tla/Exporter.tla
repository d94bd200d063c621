------------------------------ MODULE Exporter ------------------------------
(***************************************************************************)
(* The manager's exporter (manager/exporter).                              *)
(*                                                                         *)
(* Eleven kinds of events (add, update and delete of deployments, pods and *)
(* services, API logs, Envoy metrics), each with an unbuffered channel and *)
(* a list of subscribed streams.  Three workers take events from the       *)
(* channels: one for the nine cluster kinds, one for logs, one for         *)
(* metrics.  A worker sends an event to every stream of the kind's list    *)
(* while it holds exporterLock, and replaces the list by the streams that  *)
(* took it.  The eleven Send functions and the eleven subscription         *)
(* handlers are the same code up to the kind, which is a parameter here.   *)
(*                                                                         *)
(* A list is a set of streams: each subscription appends a stream of its   *)
(* own, and nothing depends on the order of a list.                        *)
(***************************************************************************)
EXTENDS Sequences, Naturals, FiniteSets

CONSTANTS
    Kinds,             \* kinds of events, one channel and one list each
    Workers, WorkerOf, \* worker goroutines, and the worker of each kind
    Items, ItemKind,   \* events handed to Insert*, and the kind of each
    Subs, SubKind,     \* subscription calls, and the kind each asks for
    Free               \* nobody holds exporterLock

ASSUME ExporterAssumption ==
    /\ WorkerOf \in [Kinds -> Workers]
    /\ ItemKind \in [Items -> Kinds]
    /\ SubKind \in [Subs -> Kinds]
    /\ Free \notin Workers

VARIABLES
    inserted,   \* items handed to Insert* so far
    pending,    \* items whose goroutine waits on the kind's channel
    worker,     \* worker -> its local state
    lock,       \* the worker that holds exporterLock, or Free
    exporters,  \* kind -> the streams of its list
    stream,     \* subscription -> the state of its stream and client
    received,   \* subscription -> the items its client got
    dispatched, \* history: kind -> items in the order the worker sent them
    since       \* history: subscription -> Len(dispatched) when it was listed

vars == <<inserted, pending, worker, lock, exporters, stream, received, dispatched, since>>

\* Between two events, waiting for the lock with an item, sending it.
WorkerStates ==
    [pc : {"select"}] \cup
    [pc : {"lock"}, item : Items] \cup
    [pc : {"send"}, item : Items, todo : SUBSET Subs, newList : SUBSET Subs]

TypeOK ==
    /\ inserted \subseteq Items
    /\ pending \subseteq inserted
    /\ worker \in [Workers -> WorkerStates]
    /\ lock \in Workers \cup {Free}
    /\ exporters \in [Kinds -> SUBSET Subs]
    /\ stream \in [Subs -> {"none", "open", "stalled", "gone"}]
    /\ received \in [Subs -> Seq(Items)]
    /\ dispatched \in [Kinds -> Seq(Items)]
    /\ \A k \in Kinds : \A n \in DOMAIN dispatched[k] : ItemKind[dispatched[k][n]] = k
    /\ since \in [Subs -> Nat]

Init ==
    /\ inserted = {}
    /\ pending = {}
    /\ worker = [w \in Workers |-> [pc |-> "select"]]
    /\ lock = Free
    /\ exporters = [k \in Kinds |-> {}]
    /\ stream = [s \in Subs |-> "none"]
    /\ received = [s \in Subs |-> <<>>]
    /\ dispatched = [k \in Kinds |-> <<>>]
    /\ since = [s \in Subs |-> 0]

Live(s) == stream[s] \in {"open", "stalled"}
Sending(w) == worker[w].pc = "send"

-----------------------------------------------------------------------------
\* Insert*: exporterX <- item, from a gRPC handler or a goroutine of its own.
Insert(i) ==
    /\ i \notin inserted
    /\ inserted' = inserted \cup {i}
    /\ pending' = pending \cup {i}
    /\ UNCHANGED <<worker, lock, exporters, stream, received, dispatched, since>>

\* Mutant: the item stays in the channel.
ReceiveAgain(w, i) ==
    /\ worker[w].pc = "select"
    /\ i \in pending
    /\ WorkerOf[ItemKind[i]] = w
    /\ worker' = [worker EXCEPT ![w] = [pc |-> "lock", item |-> i]]
    /\ UNCHANGED <<inserted, pending, lock, exporters, stream, received, dispatched, since>>

\* The worker's select takes an item from one of its channels.
Receive(w, i) ==
    /\ worker[w].pc = "select"
    /\ i \in pending
    /\ WorkerOf[ItemKind[i]] = w
    /\ pending' = pending \ {i}
    /\ worker' = [worker EXCEPT ![w] = [pc |-> "lock", item |-> i]]
    /\ UNCHANGED <<inserted, lock, exporters, stream, received, dispatched, since>>

\* Mutant: a case of the select calls the Send function of another kind.
AcquireElsewhere(w) ==
    LET i == worker[w].item IN
    /\ worker[w].pc = "lock"
    /\ lock = Free
    /\ lock' = w
    /\ \E k \in Kinds \ {ItemKind[i]} :
          /\ WorkerOf[k] = w
          /\ worker' = [worker EXCEPT ![w] = [pc |-> "send", item |-> i,
                                              todo |-> exporters[k], newList |-> {}]]
          /\ dispatched' = [dispatched EXCEPT ![k] = Append(@, i)]
    /\ UNCHANGED <<inserted, pending, exporters, stream, received, since>>

\* exporterLock.Lock(): the loop ranges over the list as it is now.
Acquire(w) ==
    LET i == worker[w].item
        k == ItemKind[i] IN
    /\ worker[w].pc = "lock"
    /\ lock = Free
    /\ lock' = w
    /\ worker' = [worker EXCEPT ![w] = [pc |-> "send", item |-> i,
                                        todo |-> exporters[k], newList |-> {}]]
    /\ dispatched' = [dispatched EXCEPT ![k] = Append(@, i)]
    /\ UNCHANGED <<inserted, pending, exporters, stream, received, since>>

\* Mutant: a stream that took the event is not put back into the list.
SendForgets(w, s) ==
    /\ Sending(w)
    /\ s \in worker[w].todo
    /\ stream[s] = "open"
    /\ received' = [received EXCEPT ![s] = Append(@, worker[w].item)]
    /\ worker' = [worker EXCEPT ![w].todo = @ \ {s}]
    /\ UNCHANGED <<inserted, pending, lock, exporters, stream, dispatched, since>>

\* stream.Send returns nil: the client gets the item and stays in the list.
\* A stalled client's flow control window is full, so Send has not returned.
Send(w, s) ==
    /\ Sending(w)
    /\ s \in worker[w].todo
    /\ stream[s] = "open"
    /\ received' = [received EXCEPT ![s] = Append(@, worker[w].item)]
    /\ worker' = [worker EXCEPT ![w].todo = @ \ {s}, ![w].newList = @ \cup {s}]
    /\ UNCHANGED <<inserted, pending, lock, exporters, stream, dispatched, since>>

\* The client is gone: Send returns an error and the stream is left out, or
\* the transport has not noticed yet and the stream is kept once more.
SendToGone(w, s) ==
    /\ Sending(w)
    /\ s \in worker[w].todo
    /\ stream[s] = "gone"
    /\ \E kept \in {{}, {s}} :
          worker' = [worker EXCEPT ![w].todo = @ \ {s}, ![w].newList = @ \cup kept]
    /\ UNCHANGED <<inserted, pending, lock, exporters, stream, received, dispatched, since>>

\* Mutant: a path that returns without unlocking.
FinishKeepsLock(w) ==
    /\ Sending(w)
    /\ worker[w].todo = {}
    /\ exporters' = [exporters EXCEPT ![ItemKind[worker[w].item]] = worker[w].newList]
    /\ worker' = [worker EXCEPT ![w] = [pc |-> "select"]]
    /\ UNCHANGED <<inserted, pending, lock, stream, received, dispatched, since>>

\* exporters = newList, and exporterLock.Unlock().
Finish(w) ==
    /\ Sending(w)
    /\ worker[w].todo = {}
    /\ exporters' = [exporters EXCEPT ![ItemKind[worker[w].item]] = worker[w].newList]
    /\ lock' = Free
    /\ worker' = [worker EXCEPT ![w] = [pc |-> "select"]]
    /\ UNCHANGED <<inserted, pending, stream, received, dispatched, since>>

-----------------------------------------------------------------------------
\* Mutant: the handler appends to the list without taking the lock.
SubscribeUnlocked(s) ==
    /\ stream[s] = "none"
    /\ stream' = [stream EXCEPT ![s] = "open"]
    /\ exporters' = [exporters EXCEPT ![SubKind[s]] = @ \cup {s}]
    /\ since' = [since EXCEPT ![s] = Len(dispatched[SubKind[s]])]
    /\ UNCHANGED <<inserted, pending, worker, lock, received, dispatched>>

\* A subscription handler: lock, append, unlock; then it blocks for ever.
Subscribe(s) ==
    /\ stream[s] = "none"
    /\ lock = Free
    /\ stream' = [stream EXCEPT ![s] = "open"]
    /\ exporters' = [exporters EXCEPT ![SubKind[s]] = @ \cup {s}]
    /\ since' = [since EXCEPT ![s] = Len(dispatched[SubKind[s]])]
    /\ UNCHANGED <<inserted, pending, worker, lock, received, dispatched>>

\* The client stops reading, reads again, or goes away.
Stall(s) ==
    /\ stream[s] = "open"
    /\ stream' = [stream EXCEPT ![s] = "stalled"]
    /\ UNCHANGED <<inserted, pending, worker, lock, exporters, received, dispatched, since>>

Resume(s) ==
    /\ stream[s] = "stalled"
    /\ stream' = [stream EXCEPT ![s] = "open"]
    /\ UNCHANGED <<inserted, pending, worker, lock, exporters, received, dispatched, since>>

Disconnect(s) ==
    /\ Live(s)
    /\ stream' = [stream EXCEPT ![s] = "gone"]
    /\ UNCHANGED <<inserted, pending, worker, lock, exporters, received, dispatched, since>>

-----------------------------------------------------------------------------
WorkerStep(w) ==
    \/ \E i \in Items : Receive(w, i)
    \/ Acquire(w)
    \/ \E s \in Subs : Send(w, s) \/ SendToGone(w, s)
    \/ Finish(w)

Client(s) == Subscribe(s) \/ Stall(s) \/ Resume(s) \/ Disconnect(s)

Next ==
    \/ \E i \in Items : Insert(i)
    \/ \E w \in Workers : WorkerStep(w)
    \/ \E s \in Subs : Client(s)

Spec == Init /\ [][Next]_vars

(***************************************************************************)
(* Fairness.  The Go scheduler runs a goroutine that can run, and a waiter *)
(* on a sync.Mutex gets it in the end (starvation mode), so Acquire is     *)
(* strongly fair.  A stalled client reads again or is dropped by the       *)
(* transport: that is an assumption about the clients, without which Send  *)
(* never returns and the lock is never released.  A client that keeps      *)
(* stalling still takes something between two stalls, so Send is strongly  *)
(* fair.                                                                   *)
(***************************************************************************)
FairSpec ==
    /\ Spec
    /\ \A w \in Workers : /\ WF_vars(\E i \in Items : Receive(w, i))
                          /\ SF_vars(Acquire(w))
                          /\ WF_vars(Finish(w))
    /\ \A w \in Workers, s \in Subs : /\ SF_vars(Send(w, s))
                                      /\ WF_vars(SendToGone(w, s))
    /\ \A s \in Subs : WF_vars(Resume(s))

-----------------------------------------------------------------------------
InFlight(s) == \E w \in Workers : Sending(w) /\ s \in worker[w].todo

(***************************************************************************)
(* Delivery: the client of a live stream has received exactly what was     *)
(* dispatched since its subscription, in that order, but for the one item  *)
(* that is on its way to it.  A client never waits for more than one item. *)
(***************************************************************************)
Delivery ==
    \A s \in Subs : Live(s) =>
        LET all == dispatched[SubKind[s]] IN
        received[s] = SubSeq(all, since[s] + 1,
                             IF InFlight(s) THEN Len(all) - 1 ELSE Len(all))

(***************************************************************************)
(* StaysListed: a live stream is in the list of its kind, and a worker     *)
(* that rebuilds that list has it before or behind it.  Rebuilding the     *)
(* list from the streams of one loop would lose a subscription made        *)
(* meanwhile; exporterLock is what prevents it.                            *)
(***************************************************************************)
StaysListed ==
    \A s \in Subs : Live(s) =>
        /\ s \in exporters[SubKind[s]]
        /\ \A w \in Workers :
              (Sending(w) /\ ItemKind[worker[w].item] = SubKind[s])
                 => s \in worker[w].todo \cup worker[w].newList

(***************************************************************************)
(* LockHeld: the holder of exporterLock is the one worker that sends, so   *)
(* no list is rebuilt by two goroutines and none while it grows.           *)
(***************************************************************************)
LockHeld == \A w \in Workers : Sending(w) <=> lock = w

(***************************************************************************)
(* The exporter implements a broadcast log per kind, with its liveness.    *)
(***************************************************************************)
Feed == INSTANCE Broadcast WITH
    log <- dispatched,
    joined <- {s \in Subs : stream[s] # "none"},
    left <- {s \in Subs : stream[s] = "gone"},
    start <- since,
    read <- received

FeedSpec == Feed!Spec

(***************************************************************************)
(* InsertReturns: every Insert* call ends, so no gRPC handler of a cluster *)
(* event waits for ever, if every stalled client reads again or leaves.    *)
(***************************************************************************)
InsertReturns == \A i \in Items : i \in pending ~> i \notin pending
=============================================================================
