---------------------------- MODULE EventPipeline ----------------------------
(***************************************************************************)
(* The way of a cluster event: informer callback, agent uploader, manager  *)
(* handler, exporter stream, mongo-client, database.                       *)
(*                                                                         *)
(* The informer calls back in order, but each callback starts a goroutine  *)
(* that hands its event to the uploader's unbuffered channel.  The one     *)
(* uploader worker makes a call with a deadline of five seconds, logs an   *)
(* error and goes on.  The manager hands the event to the exporter, which  *)
(* sends it to the stream of its kind if a client is subscribed (the       *)
(* modules ServiceIndex and Exporter say how).  mongo-client reads the     *)
(* streams for add, update and delete with a goroutine each and writes to  *)
(* the database; it dies if a stream ends, and subscribes anew.            *)
(*                                                                         *)
(* A pod's callbacks do nothing while it has no IP; the objects here are   *)
(* those whose callbacks all start a goroutine.                            *)
(***************************************************************************)
EXTENDS Naturals, Sequences, FiniteSets, SequencesExt

CONSTANTS
    Objects,    \* deployments, services, and pods with an IP
    MaxEvents,  \* bound on the events of an object
    Faults      \* what goes wrong: "call", "deadline", "database", "client", "agent",
                \* "manager"

ASSUME FaultsAssumption ==
    /\ MaxEvents \in Nat
    /\ Faults \subseteq {"call", "deadline", "database", "client", "agent", "manager"}

VARIABLES
    count,     \* object -> number of its events so far
    cluster,   \* object -> its last event if it exists, or 0
    relist,    \* objects the agent's informers have yet to list
    waiting,   \* events whose goroutine waits on the uploader's channel
    uploader,  \* the uploader's worker: the event it works on
    serving,   \* events the manager's handlers have not handed over yet
    cached,    \* object -> the event of its message in svcCache, or 0
    stream,    \* action -> events sent on that stream and not yet read
    connected, \* mongo-client runs and has subscribed
    docs,      \* object -> its documents, in the database's order
    disturbed, \* history: objects with an event lost, or with two at a time
    forgotten  \* history: objects whose message a restart of the manager dropped

vars == <<count, cluster, relist, waiting, uploader, serving, cached, stream,
          connected, docs, disturbed, forgotten>>

clusterVars == <<count, cluster, relist>>
managerVars == <<serving, cached, forgotten>>
storeVars == <<stream, connected, docs>>

Actions == {"ADD", "UPDATE", "DELETE"}
Events == [obj : Objects, act : Actions, num : 1..MaxEvents]

InStream == UNION {ToSet(stream[a]) : a \in Actions}
Calling == IF uploader.pc = "call" THEN {uploader.event} ELSE {}

\* Events neither stored nor lost.
Pending == waiting \cup Calling \cup serving \cup InStream
Settled(o) == \A e \in Pending : e.obj # o

TypeOK ==
    /\ count \in [Objects -> 0..MaxEvents]
    /\ cluster \in [Objects -> 0..MaxEvents]
    /\ relist \subseteq Objects
    /\ waiting \subseteq Events
    /\ uploader \in [pc : {"select"}] \cup [pc : {"call", "wait"}, event : Events]
    /\ serving \subseteq Events
    /\ cached \in [Objects -> 0..MaxEvents]
    /\ stream \in [Actions -> Seq(Events)]
    /\ connected \in BOOLEAN
    /\ docs \in [Objects -> Seq(1..MaxEvents)]
    /\ disturbed \subseteq Objects /\ forgotten \subseteq Objects

Init ==
    /\ count = [o \in Objects |-> 0]
    /\ cluster = [o \in Objects |-> 0]
    /\ relist = {}
    /\ waiting = {}
    /\ uploader = [pc |-> "select"]
    /\ serving = {}
    /\ cached = [o \in Objects |-> 0]
    /\ stream = [a \in Actions |-> <<>>]
    /\ connected = TRUE
    /\ docs = [o \in Objects |-> <<>>]
    /\ disturbed = {} /\ forgotten = {}

Objs(es) == {e.obj : e \in es}

-----------------------------------------------------------------------------
\* The cluster and the agent's informers.

\* go uploader.UplH.UploadClusterEvent(kind, act, obj)
Callback(o, act) ==
    /\ count[o] < MaxEvents
    /\ count' = [count EXCEPT ![o] = @ + 1]
    /\ cluster' = [cluster EXCEPT ![o] = IF act = "DELETE" THEN 0 ELSE count[o] + 1]
    /\ waiting' = waiting \cup {[obj |-> o, act |-> act, num |-> count[o] + 1]}
    /\ UNCHANGED <<uploader, managerVars, storeVars>>

Disturb(o) == disturbed' = IF Settled(o) THEN disturbed ELSE disturbed \cup {o}

AddFunc(o) ==
    /\ o \notin relist
    /\ cluster[o] = 0
    /\ Callback(o, "ADD")
    /\ Disturb(o)
    /\ UNCHANGED relist

UpdateFunc(o) ==
    /\ o \notin relist
    /\ cluster[o] # 0
    /\ Callback(o, "UPDATE")
    /\ Disturb(o)
    /\ UNCHANGED relist

DeleteFunc(o) ==
    /\ o \notin relist
    /\ cluster[o] # 0
    /\ Callback(o, "DELETE")
    /\ Disturb(o)
    /\ UNCHANGED relist

\* The agent dies with its goroutines and starts again; a call it was waiting
\* for goes on in the manager.  Its informers list what exists.
AgentRestart ==
    /\ "agent" \in Faults
    /\ relist' = {o \in Objects : cluster[o] # 0}
    /\ waiting' = {}
    /\ uploader' = [pc |-> "select"]
    /\ disturbed' = disturbed \cup Objs(waiting \cup Calling)
    /\ UNCHANGED <<count, cluster, managerVars, storeVars>>

\* An object the store may know already is announced as added.
ListObject(o) ==
    /\ o \in relist
    /\ relist' = relist \ {o}
    /\ Callback(o, "ADD")
    /\ disturbed' = disturbed \cup {o}

\* An object goes away before the informer lists it: no callback says so.
GoneUnseen(o) ==
    /\ o \in relist
    /\ relist' = relist \ {o}
    /\ cluster' = [cluster EXCEPT ![o] = 0]
    /\ disturbed' = disturbed \cup {o}
    /\ UNCHANGED <<count, waiting, uploader, managerVars, storeVars>>

-----------------------------------------------------------------------------
\* The agent's uploader.

Take(e) ==
    /\ uploader.pc = "select"
    /\ e \in waiting
    /\ waiting' = waiting \ {e}
    /\ uploader' = [pc |-> "call", event |-> e]
    /\ UNCHANGED <<clusterVars, managerVars, storeVars, disturbed>>

\* The call reaches the manager; the worker waits for the answer.
CallArrives ==
    /\ uploader.pc = "call"
    /\ serving' = serving \cup {uploader.event}
    /\ uploader' = [uploader EXCEPT !.pc = "wait"]
    /\ UNCHANGED <<clusterVars, waiting, cached, forgotten, storeVars, disturbed>>

\* Mutant: the worker keeps the event it has given up.
CallFailsKeepsEvent ==
    /\ "call" \in Faults
    /\ uploader.pc = "call"
    /\ uploader' = [uploader EXCEPT !.pc = "select"]
    /\ disturbed' = disturbed \cup {uploader.event.obj}
    /\ UNCHANGED <<clusterVars, waiting, managerVars, storeVars>>

\* It does not (no manager, or the deadline passes before): the event is lost.
CallFails ==
    /\ "call" \in Faults
    /\ uploader.pc = "call"
    /\ uploader' = [pc |-> "select"]
    /\ disturbed' = disturbed \cup {uploader.event.obj}
    /\ UNCHANGED <<clusterVars, waiting, managerVars, storeVars>>

\* Mutant: a call whose answer is late is made again.
RetryAtDeadline ==
    /\ "deadline" \in Faults
    /\ uploader.pc = "wait"
    /\ uploader' = [uploader EXCEPT !.pc = "call"]
    /\ UNCHANGED <<clusterVars, waiting, managerVars, storeVars, disturbed>>

\* The deadline passes while the handler is still at work: the worker goes on
\* to its next event, and so does the handler with this one.
DeadlinePasses ==
    /\ "deadline" \in Faults
    /\ uploader.pc = "wait"
    /\ uploader' = [pc |-> "select"]
    /\ UNCHANGED <<clusterVars, waiting, managerVars, storeVars, disturbed>>

-----------------------------------------------------------------------------
\* The manager.

\* The exporter sends the event to the stream of its action.
Export(e) ==
    /\ IF connected
       THEN /\ stream' = [stream EXCEPT ![e.act] = Append(@, e)]
            /\ UNCHANGED disturbed
       ELSE /\ disturbed' = disturbed \cup {e.obj}
            /\ UNCHANGED stream
    /\ UNCHANGED <<clusterVars, waiting, connected, docs>>

Store(e) ==
    /\ cached' = [cached EXCEPT ![e.obj] = IF e.act = "DELETE" THEN 0 ELSE e.num]
    /\ forgotten' = forgotten \ {e.obj}

Answer(e) ==
    uploader' = IF uploader.pc = "wait" /\ uploader.event = e THEN [pc |-> "select"] ELSE uploader

\* Mutant: the handler never answers.
DispatchNoAnswer(e) ==
    /\ e \in serving
    /\ serving' = serving \ {e}
    /\ Store(e) /\ Export(e)
    /\ UNCHANGED uploader

\* Mutant: the handler of a delete leaves the message in svcCache.
DispatchKeepsCache(e) ==
    /\ e \in serving
    /\ serving' = serving \ {e}
    /\ IF e.act = "DELETE" THEN UNCHANGED <<cached, forgotten>> ELSE Store(e)
    /\ Export(e) /\ Answer(e)

\* A handler puts its message into svcCache (for a service, as ServiceIndex
\* says), gives the event to the exporter and returns.  One step: an event of
\* the same object that comes between the answer and the Send overlaps with
\* this one, as it does here while this one is in the stream.  ServiceIndex
\* and Exporter take the steps one by one.
Dispatch(e) ==
    /\ e \in serving
    /\ serving' = serving \ {e}
    /\ Store(e) /\ Export(e) /\ Answer(e)

\* The manager dies and starts again with nothing: calls under way fail, and
\* mongo-client's streams end.  Nobody announces the objects again.
ManagerRestart ==
    /\ "manager" \in Faults
    /\ serving' = {}
    /\ cached' = [o \in Objects |-> 0]
    /\ forgotten' = forgotten \cup {o \in Objects : cached[o] # 0}
    /\ uploader' = IF uploader.pc = "wait" THEN [pc |-> "select"] ELSE uploader
    /\ stream' = [a \in Actions |-> <<>>]
    /\ connected' = FALSE
    /\ disturbed' = disturbed \cup Objs(serving \cup InStream)
    /\ UNCHANGED <<clusterVars, waiting, docs>>

-----------------------------------------------------------------------------
\* mongo-client: one goroutine per stream.

InsertOne(ds, n) == Append(ds, n)
\* Mutant: an update inserts a document.
UpdateInserts(ds, n) == Append(ds, n)
\* UpdateOne with upsert, and DeleteOne: the first document that matches.
UpdateOne(ds, n) == IF ds = <<>> THEN <<n>> ELSE [ds EXCEPT ![1] = n]
DeleteOne(ds) == IF ds = <<>> THEN ds ELSE Tail(ds)

Read(act) ==
    /\ connected
    /\ stream[act] # <<>>
    /\ stream' = [stream EXCEPT ![act] = Tail(@)]
    /\ UNCHANGED <<clusterVars, waiting, uploader, managerVars, connected>>

DeployAddRoutine ==
    LET e == Head(stream["ADD"]) IN
    /\ Read("ADD")
    /\ docs' = [docs EXCEPT ![e.obj] = InsertOne(@, e.num)]
    /\ UNCHANGED disturbed

DeployUpdateRoutine ==
    LET e == Head(stream["UPDATE"]) IN
    /\ Read("UPDATE")
    /\ docs' = [docs EXCEPT ![e.obj] = UpdateOne(@, e.num)]
    /\ UNCHANGED disturbed

DeployDeleteRoutine ==
    LET e == Head(stream["DELETE"]) IN
    /\ Read("DELETE")
    /\ docs' = [docs EXCEPT ![e.obj] = DeleteOne(@)]
    /\ UNCHANGED disturbed

\* The database refuses the write: logged, and the event is lost.
WriteFails(act) ==
    /\ "database" \in Faults
    /\ Read(act)
    /\ disturbed' = disturbed \cup {Head(stream[act]).obj}
    /\ UNCHANGED docs

\* A stream ends (log.Fatalf), and with it all the client had not read.
ClientDies ==
    /\ "client" \in Faults
    /\ connected
    /\ connected' = FALSE
    /\ stream' = [a \in Actions |-> <<>>]
    /\ disturbed' = disturbed \cup Objs(InStream)
    /\ UNCHANGED <<clusterVars, waiting, uploader, managerVars, docs>>

ClientSubscribes ==
    /\ ~connected
    /\ connected' = TRUE
    /\ UNCHANGED <<clusterVars, waiting, uploader, managerVars, stream, docs, disturbed>>

Next ==
    \/ \E o \in Objects : AddFunc(o) \/ UpdateFunc(o) \/ DeleteFunc(o)
    \/ \E o \in Objects : ListObject(o) \/ GoneUnseen(o)
    \/ AgentRestart
    \/ \E e \in waiting : Take(e)
    \/ CallArrives \/ CallFails \/ DeadlinePasses
    \/ \E e \in serving : Dispatch(e)
    \/ ManagerRestart
    \/ DeployAddRoutine \/ DeployUpdateRoutine \/ DeployDeleteRoutine
    \/ \E a \in Actions : WriteFails(a)
    \/ ClientDies \/ ClientSubscribes

(***************************************************************************)
(* Fairness: goroutines that can run do.  That a handler gets rid of its   *)
(* event is InsertReturns of the module Exporter, with what it assumes of  *)
(* the clients.  Faults, the deadline, the cluster's events and the return *)
(* of a dead client are not forced.  Events are bounded, so an uploader    *)
(* that always finds one runs out of others.                               *)
(***************************************************************************)
Spec ==
    /\ Init
    /\ [][Next]_vars
    /\ WF_vars(\E e \in waiting : Take(e))
    /\ WF_vars(CallArrives \/ CallFails)
    /\ WF_vars(\E e \in serving : Dispatch(e))
    /\ WF_vars(DeployAddRoutine) /\ WF_vars(DeployUpdateRoutine) /\ WF_vars(DeployDeleteRoutine)

-----------------------------------------------------------------------------
Mirrored(o) == docs[o] = IF cluster[o] = 0 THEN <<>> ELSE <<cluster[o]>>

(***************************************************************************)
(* MirrorUndisturbed: an object whose events never overlapped on their way *)
(* and were never lost is stored as it is in the cluster once its last     *)
(* event is settled: one document while it exists, none after.  Other      *)
(* objects' events, calls and faults may come in between.                  *)
(***************************************************************************)
MirrorUndisturbed ==
    \A o \in Objects \ disturbed : Settled(o) => Mirrored(o)

(***************************************************************************)
(* CacheFollowsCluster: the manager's last message of a service, on which  *)
(* its index of IPs rests, is that of the cluster when none of the         *)
(* service's events is on its way to the manager, unless they overlapped,  *)
(* one was lost, or the manager has started anew and the service has not   *)
(* changed since.                                                          *)
(***************************************************************************)
CacheFollowsCluster ==
    \A o \in Objects \ (disturbed \cup forgotten) :
        (\A e \in waiting \cup Calling \cup serving : e.obj # o) => cached[o] = cluster[o]

(***************************************************************************)
(* TrackedInRealTime: without any fault, what is stored is the cluster     *)
(* once everything on its way has arrived ("Kubernetes resource events are *)
(* tracked in real time").  False: the add and the update of one object    *)
(* travel on two streams, read by a goroutine each.  If the update is      *)
(* stored first, its upsert makes a document, and the add's InsertOne then *)
(* makes another one with the object's old state.                          *)
(***************************************************************************)
TrackedInRealTime == Pending = {} => \A o \in Objects : Mirrored(o)

(***************************************************************************)
(* An event is stored once or lost: never stored twice, whatever call is   *)
(* late, and never made up.                                                *)
(***************************************************************************)
Feed == INSTANCE EventFeed WITH pending <- Pending

FeedSpec == Feed!Spec

(***************************************************************************)
(* EventsSettle: every event is stored or lost in the end; the uploader    *)
(* and the manager never hold one for ever.                                *)
(***************************************************************************)
EventsSettle == \A o \in Objects : ~Settled(o) ~> Settled(o)
=============================================================================
