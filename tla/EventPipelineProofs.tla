-------------------------- MODULE EventPipelineProofs --------------------------
(***************************************************************************)
(* Theorems about the way of a cluster event, for any objects, number of   *)
(* events and faults.  An event on its way is in one place (Flow), so that *)
(* every step of the pipeline is one of EventFeed's or none (FeedStep);    *)
(* the invariant that says what the store and the cache come to is then    *)
(* proved of these few steps and not of the pipeline's many.  At the end,  *)
(* why an event does not stay on its way for ever.                         *)
(***************************************************************************)
EXTENDS EventPipeline, FiniteSetTheorems, TLAPS

USE FaultsAssumption

-----------------------------------------------------------------------------
\* Streams.

LEMMA AppendOne ==
  ASSUME NEW S, NEW s \in Seq(S), NEW e \in S, IsInjective(s), e \notin ToSet(s)
  PROVE  /\ Append(s, e) \in Seq(S)
         /\ IsInjective(Append(s, e))
         /\ ToSet(Append(s, e)) = ToSet(s) \cup {e}
<1>1. /\ Append(s, e) \in Seq(S) /\ Len(Append(s, e)) = Len(s) + 1
      /\ DOMAIN Append(s, e) = 1..(Len(s) + 1) /\ DOMAIN s = 1..Len(s) /\ Len(s) \in Nat
      /\ \A i \in 1..Len(s) : Append(s, e)[i] = s[i]
      /\ Append(s, e)[Len(s) + 1] = e
  OBVIOUS
<1>2. \A i \in 1..(Len(s) + 1) : i \in 1..Len(s) \/ i = Len(s) + 1 BY <1>1
<1>3. IsInjective(Append(s, e)) BY <1>1, <1>2 DEF IsInjective, ToSet
<1>4. ToSet(Append(s, e)) = ToSet(s) \cup {e}
  <2>1. ToSet(Append(s, e)) \subseteq ToSet(s) \cup {e} BY <1>1, <1>2 DEF ToSet
  <2>2. ToSet(s) \subseteq ToSet(Append(s, e)) BY <1>1 DEF ToSet
  <2>3. e \in ToSet(Append(s, e)) BY <1>1 DEF ToSet
  <2> QED BY <2>1, <2>2, <2>3
<1> QED BY <1>1, <1>3, <1>4

LEMMA ReadOne ==
  ASSUME NEW S, NEW s \in Seq(S), s # <<>>, IsInjective(s)
  PROVE  /\ Head(s) \in ToSet(s) /\ Head(s) \in S
         /\ Tail(s) \in Seq(S)
         /\ IsInjective(Tail(s))
         /\ ToSet(Tail(s)) = ToSet(s) \ {Head(s)}
<1>1. /\ Tail(s) \in Seq(S) /\ DOMAIN s = 1..Len(s) /\ Len(s) \in Nat /\ Len(s) >= 1
      /\ DOMAIN Tail(s) = 1..(Len(s) - 1) /\ Head(s) = s[1] /\ Head(s) \in S
      /\ \A i \in 1..(Len(s) - 1) : Tail(s)[i] = s[i + 1]
  OBVIOUS
<1>2. Head(s) \in ToSet(s) BY <1>1 DEF ToSet
<1>3. IsInjective(Tail(s))
  <2> SUFFICES ASSUME NEW i \in 1..(Len(s) - 1), NEW j \in 1..(Len(s) - 1), Tail(s)[i] = Tail(s)[j]
               PROVE  i = j
    BY <1>1 DEF IsInjective
  <2>1. i + 1 \in DOMAIN s /\ j + 1 \in DOMAIN s /\ s[i + 1] = s[j + 1] BY <1>1
  <2>2. i + 1 = j + 1 BY <2>1 DEF IsInjective
  <2> QED BY <1>1, <2>2
<1>4. ToSet(Tail(s)) \subseteq ToSet(s) \ {Head(s)}
  <2> SUFFICES ASSUME NEW i \in 1..(Len(s) - 1) PROVE Tail(s)[i] \in ToSet(s) \ {Head(s)}
    BY <1>1 DEF ToSet
  <2>1. i + 1 \in DOMAIN s /\ i + 1 # 1 /\ 1 \in DOMAIN s BY <1>1
  <2> QED BY <1>1, <2>1 DEF IsInjective, ToSet
<1>5. ToSet(s) \ {Head(s)} \subseteq ToSet(Tail(s))
  <2> SUFFICES ASSUME NEW i \in 1..Len(s), s[i] # Head(s) PROVE s[i] \in ToSet(Tail(s))
    BY <1>1 DEF ToSet
  <2>1. i - 1 \in 1..(Len(s) - 1) /\ Tail(s)[i - 1] = s[i] BY <1>1
  <2> QED BY <1>1, <2>1 DEF ToSet
<1> QED BY <1>1, <1>2, <1>3, <1>4, <1>5

-----------------------------------------------------------------------------
\* Where events are.

StreamsOK ==
    /\ stream \in [Actions -> Seq(Events)]
    /\ \A a \in Actions : IsInjective(stream[a]) /\ \A e \in ToSet(stream[a]) : e.act = a

PlacesOK ==
    /\ waiting \subseteq Events
    /\ uploader \in [pc : {"select"}] \cup [pc : {"call", "wait"}, event : Events]
    /\ serving \subseteq Events

\* An event is in one place at a time.
Apart ==
    /\ waiting \cap Calling = {} /\ waiting \cap serving = {} /\ waiting \cap InStream = {}
    /\ Calling \cap serving = {} /\ Calling \cap InStream = {} /\ serving \cap InStream = {}

\* The number of the next event of an object is not in use.
Fresh == \A e \in Pending : e.num <= count[e.obj]

CountsOK ==
    /\ count \in [Objects -> 0..MaxEvents]
    /\ cluster \in [Objects -> 0..MaxEvents]
    /\ relist \subseteq Objects

HistoryOK == connected \in BOOLEAN /\ disturbed \subseteq Objects /\ forgotten \subseteq Objects

Flow == StreamsOK /\ PlacesOK /\ CountsOK /\ HistoryOK /\ Apart /\ Fresh

LEMMA StreamedEvents == StreamsOK => InStream \subseteq Events
<1> SUFFICES ASSUME StreamsOK, NEW a \in Actions PROVE ToSet(stream[a]) \subseteq Events
  BY DEF InStream
<1> QED BY DEF StreamsOK, ToSet

LEMMA NothingStreamed ==
  ASSUME stream' = [a \in Actions |-> <<>>] PROVE StreamsOK' /\ InStream' = {}
<1>1. \A a \in Actions : stream'[a] = <<>> /\ ToSet(stream'[a]) = {} BY DEF ToSet
<1>2. \A a \in Actions : IsInjective(stream'[a]) BY <1>1 DEF IsInjective
<1>3. InStream' = {} BY <1>1 DEF InStream
<1> QED BY <1>1, <1>2, <1>3 DEF StreamsOK

LEMMA Streamed ==
  ASSUME StreamsOK, NEW e \in Events, e \notin InStream,
         stream' = [stream EXCEPT ![e.act] = Append(@, e)]
  PROVE  StreamsOK' /\ InStream' = InStream \cup {e}
<1> DEFINE a == e.act
<1>1. a \in Actions BY DEF Events
<1>2. e \notin ToSet(stream[a]) BY <1>1 DEF InStream
<1>3. stream[a] \in Seq(Events) /\ IsInjective(stream[a]) BY <1>1 DEF StreamsOK
<1>4. /\ Append(stream[a], e) \in Seq(Events) /\ IsInjective(Append(stream[a], e))
      /\ ToSet(Append(stream[a], e)) = ToSet(stream[a]) \cup {e}
  BY <1>2, <1>3, AppendOne
<1>5. /\ stream'[a] = Append(stream[a], e)
      /\ \A b \in Actions \ {a} : stream'[b] = stream[b]
      /\ stream' \in [Actions -> Seq(Events)]
  BY <1>1, <1>4 DEF StreamsOK
<1>6. StreamsOK' BY <1>1, <1>4, <1>5 DEF StreamsOK
<1>7. InStream' = InStream \cup {e}
  <2> SUFFICES ASSUME NEW f PROVE f \in InStream' <=> f \in InStream \cup {e} OBVIOUS
  <2>1. f \in InStream' <=> \E b \in Actions : f \in ToSet(stream'[b]) BY DEF InStream
  <2>2. f \in InStream <=> \E b \in Actions : f \in ToSet(stream[b]) BY DEF InStream
  <2>3. \A b \in Actions : f \in ToSet(stream'[b]) <=> f \in ToSet(stream[b]) \/ (b = a /\ f = e)
    BY <1>4, <1>5
  <2> QED BY <1>1, <2>1, <2>2, <2>3
<1> QED BY <1>6, <1>7

LEMMA Unstreamed ==
  ASSUME StreamsOK, NEW a \in Actions, stream[a] # <<>>,
         stream' = [stream EXCEPT ![a] = Tail(@)]
  PROVE  /\ StreamsOK' /\ InStream' = InStream \ {Head(stream[a])}
         /\ Head(stream[a]) \in InStream /\ Head(stream[a]) \in Events /\ Head(stream[a]).act = a
<1> DEFINE e == Head(stream[a])
<1>3. stream[a] \in Seq(Events) /\ IsInjective(stream[a]) BY DEF StreamsOK
<1>4. /\ Tail(stream[a]) \in Seq(Events) /\ IsInjective(Tail(stream[a]))
      /\ ToSet(Tail(stream[a])) = ToSet(stream[a]) \ {e} /\ e \in ToSet(stream[a]) /\ e \in Events
  BY <1>3, ReadOne
<1>5. /\ stream'[a] = Tail(stream[a])
      /\ \A b \in Actions \ {a} : stream'[b] = stream[b]
      /\ stream' \in [Actions -> Seq(Events)]
  BY <1>4 DEF StreamsOK
<1> HIDE DEF e
<1>6. StreamsOK' BY <1>4, <1>5 DEF StreamsOK
<1>7. e.act = a /\ e \in InStream BY <1>4 DEF StreamsOK, InStream
<1>8. InStream' = InStream \ {e}
  <2> SUFFICES ASSUME NEW f PROVE f \in InStream' <=> f \in InStream \ {e} OBVIOUS
  <2>1. f \in InStream' <=> \E b \in Actions : f \in ToSet(stream'[b]) BY DEF InStream
  <2>2. f \in InStream <=> \E b \in Actions : f \in ToSet(stream[b]) BY DEF InStream
  <2>3. \A b \in Actions : f \in ToSet(stream'[b]) <=> f \in ToSet(stream[b]) /\ ~(b = a /\ f = e)
    BY <1>4, <1>5
  <2>4. \A b \in Actions \ {a} : e \notin ToSet(stream[b]) BY <1>7 DEF StreamsOK
  <2> QED BY <2>1, <2>2, <2>3, <2>4
<1> QED BY <1>4, <1>6, <1>7, <1>8 DEF e

-----------------------------------------------------------------------------
\* Every step is a step of the feed, or none.

FeedStep ==
    /\ disturbed \subseteq disturbed'
    /\ \/ \E o \in Objects, act \in Actions :
             /\ Feed!Happen(o, act)
             /\ o \notin disturbed' => Settled(o) /\ (act = "ADD" <=> cluster[o] = 0)
       \/ \E o \in Objects : o \in disturbed' /\ Feed!Miss(o)
       \/ \E e \in Pending : Feed!Store(e)
       \/ \E es \in SUBSET Pending : Feed!Lose(es) /\ Objs(es) \subseteq disturbed'
       \/ UNCHANGED Feed!vars

LEMMA FlowInit == Init => Flow
<1> SUFFICES ASSUME Init PROVE Flow OBVIOUS
<1>1. InStream = {} /\ StreamsOK
  <2>1. \A a \in Actions : ToSet(stream[a]) = {} BY DEF Init, ToSet
  <2>2. InStream = {} BY <2>1 DEF InStream
  <2>3. \A a \in Actions : IsInjective(stream[a]) BY DEF Init, IsInjective
  <2>4. stream \in [Actions -> Seq(Events)] BY DEF Init
  <2> QED BY <2>1, <2>2, <2>3, <2>4 DEF StreamsOK
<1>2. Calling = {} BY DEF Init, Calling
<1> QED BY <1>1, <1>2 DEF Init, Flow, PlacesOK, CountsOK, HistoryOK, Apart, Fresh, Pending

LEMMA CallingEvents == PlacesOK => Calling \subseteq Events
BY DEF PlacesOK, Calling

LEMMA PendingEvents == Flow => Pending \subseteq Events
BY StreamedEvents, CallingEvents DEF Flow, PlacesOK, Pending

LEMMA CallbackFlow ==
  ASSUME Flow, NEW o \in Objects, NEW act \in Actions, Callback(o, act),
         relist' \subseteq Objects, disturbed' \subseteq Objects
  PROVE  Flow' /\ Feed!Happen(o, act)
<1> DEFINE e == [obj |-> o, act |-> act, num |-> count[o] + 1]
<1>1. /\ count[o] \in Nat /\ count[o] + 1 \in 1..MaxEvents
      /\ count \in [Objects -> 0..MaxEvents] /\ cluster \in [Objects -> 0..MaxEvents]
  BY DEF Callback, Flow, CountsOK
<1>2. e \in Events /\ e.obj = o /\ e.num = count[o] + 1 BY <1>1 DEF Events
<1>3. e \notin Pending BY <1>1, <1>2 DEF Flow, Fresh
<1>4. /\ waiting' = waiting \cup {e} /\ uploader' = uploader /\ serving' = serving
      /\ stream' = stream /\ connected' = connected /\ docs' = docs /\ forgotten' = forgotten
      /\ count' = [count EXCEPT ![o] = count[o] + 1]
      /\ cluster' = [cluster EXCEPT ![o] = IF act = "DELETE" THEN 0 ELSE count[o] + 1]
  BY DEF Callback, managerVars, storeVars
<1>5. InStream' = InStream /\ Calling' = Calling /\ StreamsOK'
  BY <1>4 DEF InStream, Calling, StreamsOK, Flow
<1> HIDE DEF e
<1>6. Pending' = Pending \cup {e} BY <1>4, <1>5 DEF Pending
<1>7. PlacesOK' BY <1>2, <1>4 DEF Flow, PlacesOK
<1>8. CountsOK' BY <1>1, <1>4 DEF Flow, CountsOK
<1>9. Apart' BY <1>3, <1>4, <1>5 DEF Flow, Apart, Pending
<1>10. Fresh'
  <2> SUFFICES ASSUME NEW f \in Pending \cup {e} PROVE f.num <= count'[f.obj]
    BY <1>6 DEF Fresh
  <2>1. CASE f = e BY <1>1, <1>2, <1>4, <2>1
  <2>2. CASE f \in Pending
    <3>1. f \in Events /\ f.num <= count[f.obj] BY <2>2, PendingEvents DEF Flow, Fresh
    <3>2. f.obj \in Objects /\ f.num \in Nat BY <3>1 DEF Events
    <3> QED BY <1>1, <1>4, <3>1, <3>2
  <2> QED BY <2>1, <2>2
<1>11. HistoryOK' BY <1>4 DEF Flow, HistoryOK
<1>12. Feed!Happen(o, act) BY <1>1, <1>4, <1>6 DEF Feed!Happen, e
<1> QED BY <1>5, <1>7, <1>8, <1>9, <1>10, <1>11, <1>12 DEF Flow

\* Events only leave, or move on.
LEMMA FlowOn ==
  ASSUME Flow, StreamsOK', PlacesOK', Apart', HistoryOK', Pending' \subseteq Pending,
         count' = count, cluster' \in [Objects -> 0..MaxEvents], relist' \subseteq Objects
  PROVE  Flow'
BY DEF Flow, CountsOK, Fresh

LEMMA StreamStays == ASSUME StreamsOK, stream' = stream PROVE StreamsOK' /\ InStream' = InStream
BY DEF StreamsOK, InStream

LEMMA UploaderStays == ASSUME uploader' = uploader PROVE Calling' = Calling
BY DEF Calling

LEMMA ClusterSteps ==
  ASSUME Flow, NEW o \in Objects, AddFunc(o) \/ UpdateFunc(o) \/ DeleteFunc(o) \/ ListObject(o)
  PROVE  Flow' /\ FeedStep
<1>0. relist \subseteq Objects /\ disturbed \subseteq Objects BY DEF Flow, CountsOK, HistoryOK
<1>1. PICK act \in Actions :
         /\ Callback(o, act)
         /\ relist' \subseteq relist /\ disturbed' \in {disturbed, disturbed \cup {o}}
         /\ o \notin disturbed' => Settled(o) /\ (act = "ADD" <=> cluster[o] = 0)
  BY DEF AddFunc, UpdateFunc, DeleteFunc, ListObject, Disturb, Actions
<1>2. Flow' /\ Feed!Happen(o, act) BY <1>0, <1>1, CallbackFlow
<1> QED BY <1>1, <1>2 DEF FeedStep

LEMMA GoneUnseenStep ==
  ASSUME Flow, NEW o \in Objects, GoneUnseen(o) PROVE Flow' /\ FeedStep
<1>1. /\ relist' = relist \ {o} /\ cluster' = [cluster EXCEPT ![o] = 0]
      /\ disturbed' = disturbed \cup {o}
      /\ UNCHANGED <<count, waiting, uploader, serving, forgotten, stream, connected, docs>>
  BY DEF GoneUnseen, managerVars, storeVars
<1>2. StreamsOK' /\ InStream' = InStream /\ Calling' = Calling
  BY <1>1, StreamStays, UploaderStays DEF Flow
<1>3. Pending' = Pending /\ Apart' /\ PlacesOK' BY <1>1, <1>2 DEF Pending, Apart, PlacesOK, Flow
<1>4. Flow' BY <1>1, <1>2, <1>3, FlowOn DEF Flow, CountsOK, HistoryOK
<1>5. Feed!Miss(o) BY <1>1, <1>3 DEF Feed!Miss
<1> QED BY <1>1, <1>4, <1>5 DEF FeedStep

\* A step of the pipeline loses what is in es, and the objects concerned are disturbed.
LEMMA LoseStep ==
  ASSUME Flow, StreamsOK', PlacesOK', Apart', NEW es \in SUBSET Pending,
         Pending' = Pending \ es, disturbed' = disturbed \cup Objs(es), disturbed' \subseteq Objects,
         connected' \in BOOLEAN, forgotten' \subseteq Objects,
         UNCHANGED <<count, cluster, docs>>, relist' \subseteq Objects
  PROVE  Flow' /\ FeedStep
<1>1. Flow' BY FlowOn DEF Flow, CountsOK, HistoryOK
<1>2. Feed!Lose(es) BY DEF Feed!Lose
<1> QED BY <1>1, <1>2 DEF FeedStep

\* The objects of events.
LEMMA ObjsOfEvents == ASSUME NEW es, es \subseteq Events PROVE Objs(es) \subseteq Objects
BY DEF Objs, Events

\* An event is passed on or forgotten by the uploader: the cluster, the store
\* and the feed do not notice.
LEMMA QuietStep ==
  ASSUME Flow, StreamsOK', PlacesOK', Apart', Pending' = Pending, HistoryOK',
         disturbed' = disturbed, UNCHANGED <<count, cluster, relist, docs>>
  PROVE  Flow' /\ FeedStep
<1>1. Flow' BY FlowOn DEF Flow, CountsOK
<1>2. UNCHANGED Feed!vars BY DEF Feed!vars
<1> QED BY <1>1, <1>2 DEF FeedStep

LEMMA AgentRestartStep == ASSUME Flow, AgentRestart PROVE Flow' /\ FeedStep
<1> DEFINE es == waiting \cup Calling
<1>1. /\ waiting' = {} /\ uploader' = [pc |-> "select"] /\ disturbed' = disturbed \cup Objs(es)
      /\ relist' \subseteq Objects
      /\ UNCHANGED <<count, cluster, serving, forgotten, stream, connected, docs>>
  BY DEF AgentRestart, managerVars, storeVars
<1>2. StreamsOK' /\ InStream' = InStream BY <1>1, StreamStays DEF Flow
<1>3. Calling' = {} BY <1>1 DEF Calling
<1>4. es \subseteq Pending /\ es \subseteq Events BY PendingEvents DEF Pending
<1>5. Pending' = Pending \ es BY <1>1, <1>2, <1>3 DEF Pending, Flow, Apart
<1>6. PlacesOK' /\ Apart' BY <1>1, <1>2, <1>3 DEF PlacesOK, Apart, Flow
<1>7. disturbed' \subseteq Objects BY <1>1, <1>4, ObjsOfEvents DEF Flow, HistoryOK
<1> HIDE DEF es
<1> QED BY <1>1, <1>2, <1>4, <1>5, <1>6, <1>7, LoseStep DEF Flow, HistoryOK

LEMMA UploaderSteps ==
  ASSUME Flow, (\E e \in waiting : Take(e)) \/ CallArrives \/ DeadlinePasses
  PROVE  Flow' /\ FeedStep
<1>1. ASSUME NEW e \in waiting, Take(e) PROVE Flow' /\ FeedStep
  <2>1. /\ waiting' = waiting \ {e} /\ uploader' = [pc |-> "call", event |-> e]
        /\ uploader.pc = "select" /\ e \in Events
        /\ UNCHANGED <<count, cluster, relist, serving, forgotten, stream, connected, docs, disturbed>>
    BY <1>1 DEF Take, clusterVars, managerVars, storeVars, Flow, PlacesOK
  <2>2. StreamsOK' /\ InStream' = InStream BY <2>1, StreamStays DEF Flow
  <2>3. Calling = {} /\ Calling' = {e} BY <2>1 DEF Calling
  <2>4. Pending' = Pending /\ Apart' BY <2>1, <2>2, <2>3 DEF Pending, Flow, Apart
  <2>5. PlacesOK' BY <2>1 DEF PlacesOK, Flow
  <2> QED BY <2>1, <2>2, <2>4, <2>5, QuietStep DEF Flow, HistoryOK
<1>2. CASE CallArrives
  <2>1. /\ serving' = serving \cup {uploader.event} /\ uploader.pc = "call"
        /\ uploader' = [uploader EXCEPT !.pc = "wait"]
        /\ UNCHANGED <<count, cluster, relist, waiting, forgotten, stream, connected, docs, disturbed>>
    BY <1>2 DEF CallArrives, clusterVars, storeVars
  <2>2. StreamsOK' /\ InStream' = InStream BY <2>1, StreamStays DEF Flow
  <2>3. uploader \in [pc : {"call", "wait"}, event : Events] BY <2>1 DEF Flow, PlacesOK
  <2>4. uploader' \in [pc : {"call", "wait"}, event : Events] /\ uploader'.pc = "wait" BY <2>1, <2>3
  <2>5. Calling = {uploader.event} /\ Calling' = {} BY <2>1, <2>4 DEF Calling
  <2>6. Pending' = Pending /\ Apart' BY <2>1, <2>2, <2>5 DEF Pending, Flow, Apart
  <2>7. PlacesOK' BY <2>1, <2>3, <2>4 DEF PlacesOK, Flow
  <2> QED BY <2>1, <2>2, <2>6, <2>7, QuietStep DEF Flow, HistoryOK
<1>3. CASE DeadlinePasses
  <2>1. /\ uploader.pc = "wait" /\ uploader' = [pc |-> "select"]
        /\ UNCHANGED <<count, cluster, relist, waiting, serving, forgotten, stream, connected, docs,
                       disturbed>>
    BY <1>3 DEF DeadlinePasses, clusterVars, managerVars, storeVars
  <2>2. StreamsOK' /\ InStream' = InStream BY <2>1, StreamStays DEF Flow
  <2>3. Calling = {} /\ Calling' = {} BY <2>1 DEF Calling
  <2>4. Pending' = Pending /\ Apart' BY <2>1, <2>2, <2>3 DEF Pending, Flow, Apart
  <2>5. PlacesOK' BY <2>1 DEF PlacesOK, Flow
  <2> QED BY <2>1, <2>2, <2>4, <2>5, QuietStep DEF Flow, HistoryOK
<1> QED BY <1>1, <1>2, <1>3

LEMMA CallFailsStep == ASSUME Flow, CallFails PROVE Flow' /\ FeedStep
<1> DEFINE es == {uploader.event}
<1>1. /\ uploader' = [pc |-> "select"] /\ uploader.pc = "call"
      /\ disturbed' = disturbed \cup {uploader.event.obj}
      /\ UNCHANGED <<count, cluster, relist, waiting, serving, forgotten, stream, connected, docs>>
  BY DEF CallFails, clusterVars, managerVars, storeVars
<1>2. StreamsOK' /\ InStream' = InStream BY <1>1, StreamStays DEF Flow
<1>3. Calling = es /\ Calling' = {} BY <1>1 DEF Calling
<1>4. es \subseteq Pending /\ es \subseteq Events BY <1>3, PendingEvents DEF Pending
<1>5. Pending' = Pending \ es BY <1>1, <1>2, <1>3 DEF Pending, Flow, Apart
<1>6. PlacesOK' /\ Apart' BY <1>1, <1>2, <1>3 DEF PlacesOK, Apart, Flow
<1>7. disturbed' = disturbed \cup Objs(es) BY <1>1 DEF Objs
<1>8. disturbed' \subseteq Objects BY <1>4, <1>7, ObjsOfEvents DEF Flow, HistoryOK
<1> HIDE DEF es
<1> QED BY <1>1, <1>2, <1>4, <1>5, <1>6, <1>7, <1>8, LoseStep DEF Flow, HistoryOK, CountsOK

LEMMA AnswerCalls ==
  ASSUME PlacesOK, NEW e, Answer(e)
  PROVE  /\ Calling' = Calling
         /\ uploader' \in [pc : {"select"}] \cup [pc : {"call", "wait"}, event : Events]
BY DEF PlacesOK, Answer, Calling

LEMMA DispatchStep == ASSUME Flow, NEW e \in serving, Dispatch(e) PROVE Flow' /\ FeedStep
<1>1. /\ e \in Events /\ e.obj \in Objects
      /\ serving' = serving \ {e} /\ forgotten' \subseteq forgotten
      /\ UNCHANGED <<count, cluster, relist, waiting, connected, docs>>
  BY DEF Dispatch, Store, Export, clusterVars, Flow, PlacesOK, Events
<1>2. Calling' = Calling /\ PlacesOK' BY <1>1, AnswerCalls DEF Flow, PlacesOK, Dispatch
<1>3. e \notin InStream /\ e \notin waiting /\ e \notin Calling BY DEF Flow, Apart
<1>4. CASE connected
  <2>1. stream' = [stream EXCEPT ![e.act] = Append(@, e)] /\ disturbed' = disturbed
    BY <1>4 DEF Dispatch, Export
  <2>2. StreamsOK' /\ InStream' = InStream \cup {e} BY <1>1, <1>3, <2>1, Streamed DEF Flow
  <2>3. Pending' = Pending /\ Apart' BY <1>1, <1>2, <1>3, <2>2 DEF Pending, Flow, Apart
  <2> QED BY <1>1, <1>2, <2>1, <2>2, <2>3, QuietStep DEF Flow, HistoryOK
<1>5. CASE ~connected
  <2>1. stream' = stream /\ disturbed' = disturbed \cup {e.obj} BY <1>5 DEF Dispatch, Export
  <2>2. StreamsOK' /\ InStream' = InStream BY <2>1, StreamStays DEF Flow
  <2>3. Pending' = Pending \ {e} /\ Apart' BY <1>1, <1>2, <1>3, <2>2 DEF Pending, Flow, Apart
  <2>4. {e} \in SUBSET Pending BY DEF Pending
  <2>5. disturbed' = disturbed \cup Objs({e}) BY <2>1 DEF Objs
  <2> QED BY <1>1, <1>2, <2>1, <2>2, <2>3, <2>4, <2>5, LoseStep DEF Flow, HistoryOK, CountsOK
<1> QED BY <1>4, <1>5

LEMMA ManagerRestartStep == ASSUME Flow, ManagerRestart PROVE Flow' /\ FeedStep
<1> DEFINE es == serving \cup InStream
<1>1. /\ serving' = {} /\ stream' = [a \in Actions |-> <<>>] /\ connected' = FALSE
      /\ disturbed' = disturbed \cup Objs(es)
      /\ uploader' = IF uploader.pc = "wait" THEN [pc |-> "select"] ELSE uploader
      /\ UNCHANGED <<count, cluster, relist, waiting, docs>> /\ forgotten' \subseteq Objects
  BY DEF ManagerRestart, clusterVars, Flow, HistoryOK
<1>2. StreamsOK' /\ InStream' = {} BY <1>1, NothingStreamed
<1>3. Calling' = Calling BY <1>1 DEF Calling
<1>4. es \subseteq Pending /\ es \subseteq Events BY PendingEvents DEF Pending
<1>5. Pending' = Pending \ es BY <1>1, <1>2, <1>3 DEF Pending, Flow, Apart
<1>6. PlacesOK' BY <1>1 DEF PlacesOK, Flow
<1>7. Apart' BY <1>1, <1>2, <1>3 DEF Apart, Flow
<1>8. disturbed' \subseteq Objects BY <1>1, <1>4, ObjsOfEvents DEF Flow, HistoryOK
<1> HIDE DEF es
<1> QED BY <1>1, <1>2, <1>4, <1>5, <1>6, <1>7, <1>8, LoseStep DEF Flow, CountsOK

LEMMA ClientSteps == ASSUME Flow, ClientDies \/ ClientSubscribes PROVE Flow' /\ FeedStep
<1>1. /\ UNCHANGED <<count, cluster, relist, waiting, uploader, serving, forgotten, docs>>
      /\ connected' \in BOOLEAN
  BY DEF ClientDies, ClientSubscribes, clusterVars, managerVars
<1>2. Calling' = Calling /\ PlacesOK' BY <1>1, UploaderStays DEF Flow, PlacesOK
<1>3. CASE ClientDies
  <2>1. stream' = [a \in Actions |-> <<>>] /\ disturbed' = disturbed \cup Objs(InStream)
    BY <1>3 DEF ClientDies
  <2>2. StreamsOK' /\ InStream' = {} BY <2>1, NothingStreamed
  <2>3. InStream \in SUBSET Pending /\ InStream \subseteq Events BY PendingEvents DEF Pending
  <2>4. Pending' = Pending \ InStream /\ Apart'
    BY <1>1, <1>2, <2>2 DEF Pending, Flow, Apart
  <2>5. disturbed' \subseteq Objects BY <2>1, <2>3, ObjsOfEvents DEF Flow, HistoryOK
  <2> QED BY <1>1, <1>2, <2>1, <2>2, <2>3, <2>4, <2>5, LoseStep DEF Flow, HistoryOK, CountsOK
<1>4. CASE ClientSubscribes
  <2>1. UNCHANGED <<stream, disturbed>> BY <1>4 DEF ClientSubscribes
  <2>2. StreamsOK' /\ InStream' = InStream BY <2>1, StreamStays DEF Flow
  <2>3. Pending' = Pending /\ Apart' BY <1>1, <1>2, <2>2 DEF Pending, Flow, Apart
  <2> QED BY <1>1, <1>2, <2>1, <2>2, <2>3, QuietStep DEF Flow, HistoryOK
<1> QED BY <1>3, <1>4

\* mongo-client takes the first event off a stream.
LEMMA ReadKeeps ==
  ASSUME Flow, NEW act \in Actions, Read(act)
  PROVE  LET e == Head(stream[act]) IN
         /\ e \in Pending /\ e \in Events /\ e.act = act /\ Pending' = Pending \ {e}
         /\ StreamsOK' /\ PlacesOK' /\ Apart'
         /\ UNCHANGED <<count, cluster, relist, connected, forgotten>>
<1> DEFINE e == Head(stream[act])
<1>1. /\ StreamsOK' /\ InStream' = InStream \ {e} /\ e \in InStream /\ e \in Events /\ e.act = act
  BY Unstreamed DEF Flow, Read
<1>2. UNCHANGED <<count, cluster, relist, waiting, uploader, serving, forgotten, connected>>
  BY DEF Read, clusterVars, managerVars
<1>3. Calling' = Calling BY <1>2, UploaderStays
<1>4. PlacesOK' /\ Apart' BY <1>1, <1>2, <1>3 DEF Flow, PlacesOK, Apart
<1> HIDE DEF e
<1>5. Pending' = Pending \ {e} /\ e \in Pending BY <1>1, <1>2, <1>3 DEF Flow, Pending, Apart
<1> QED BY <1>1, <1>2, <1>4, <1>5 DEF e

LEMMA StoreSteps ==
  ASSUME Flow, DeployAddRoutine \/ DeployUpdateRoutine \/ DeployDeleteRoutine
  PROVE  Flow' /\ FeedStep
<1>1. PICK act \in Actions :
         LET e == Head(stream[act]) IN
         /\ Read(act) /\ disturbed' = disturbed
         /\ docs' = [docs EXCEPT ![e.obj] = CASE act = "ADD" -> InsertOne(@, e.num)
                                              [] act = "UPDATE" -> UpdateOne(@, e.num)
                                              [] act = "DELETE" -> DeleteOne(@)]
  BY DEF DeployAddRoutine, DeployUpdateRoutine, DeployDeleteRoutine, Actions
<1> DEFINE e == Head(stream[act])
<1>2. /\ e \in Pending /\ e \in Events /\ e.act = act /\ Pending' = Pending \ {e}
      /\ StreamsOK' /\ PlacesOK' /\ Apart'
      /\ UNCHANGED <<count, cluster, relist, connected, forgotten>>
  BY <1>1, ReadKeeps
<1>3. Flow' BY <1>1, <1>2, FlowOn DEF Flow, CountsOK, HistoryOK
<1>4. docs' = [docs EXCEPT ![e.obj] = Feed!Stored(e, docs[e.obj])]
  BY <1>1, <1>2 DEF Feed!Stored, InsertOne, UpdateOne, DeleteOne, Actions
<1>5. Feed!Store(e) BY <1>2, <1>4 DEF Feed!Store
<1> QED BY <1>1, <1>2, <1>3, <1>5 DEF FeedStep

LEMMA WriteFailsStep ==
  ASSUME Flow, NEW act \in Actions, WriteFails(act) PROVE Flow' /\ FeedStep
<1> DEFINE e == Head(stream[act])
<1>1. /\ Read(act) /\ docs' = docs /\ disturbed' = disturbed \cup {e.obj} BY DEF WriteFails
<1>2. /\ e \in Pending /\ e \in Events /\ Pending' = Pending \ {e}
      /\ StreamsOK' /\ PlacesOK' /\ Apart'
      /\ UNCHANGED <<count, cluster, relist, connected, forgotten>>
  BY <1>1, ReadKeeps
<1> HIDE DEF e
<1>3. disturbed' = disturbed \cup Objs({e}) /\ e.obj \in Objects BY <1>1, <1>2 DEF Objs, Events
<1> QED BY <1>1, <1>2, <1>3, LoseStep DEF Flow, HistoryOK, CountsOK

LEMMA FlowStep == Flow /\ Next => Flow' /\ FeedStep
<1> SUFFICES ASSUME Flow, Next PROVE Flow' /\ FeedStep OBVIOUS
<1> QED BY ClusterSteps, GoneUnseenStep, AgentRestartStep, UploaderSteps, CallFailsStep,
           DispatchStep, ManagerRestartStep, StoreSteps, WriteFailsStep, ClientSteps DEF Next

LEMMA FlowStutters == Flow /\ UNCHANGED vars => Flow' /\ FeedStep
<1> SUFFICES ASSUME Flow, UNCHANGED vars PROVE Flow' /\ FeedStep OBVIOUS
<1>1. UNCHANGED <<count, cluster, relist, waiting, uploader, serving, forgotten, stream, connected,
                  docs, disturbed>>
  BY DEF vars
<1>2. StreamsOK' /\ InStream' = InStream /\ Calling' = Calling
  BY <1>1, StreamStays, UploaderStays DEF Flow
<1>3. Pending' = Pending /\ Apart' /\ PlacesOK' BY <1>1, <1>2 DEF Pending, Flow, Apart, PlacesOK
<1> QED BY <1>1, <1>2, <1>3, QuietStep DEF Flow, HistoryOK

LEMMA FlowNext == Flow /\ [Next]_vars => Flow' /\ FeedStep
BY FlowStep, FlowStutters

(***************************************************************************)
(* The pipeline implements EventFeed: an event is stored once or lost, and *)
(* nothing else is stored, whatever fails on its way.                      *)
(***************************************************************************)
THEOREM PipelineIsFeed == Spec => FeedSpec
<1>1. Init => Feed!Init
  <2> SUFFICES ASSUME Init PROVE Feed!Init OBVIOUS
  <2>1. \A a \in Actions : ToSet(stream[a]) = {} BY DEF Init, ToSet
  <2>2. Pending = {} BY <2>1 DEF Init, Pending, Calling, InStream
  <2> QED BY <2>2 DEF Init, Feed!Init
<1>2. Flow /\ [Next]_vars => [Feed!Next]_(Feed!vars)
  <2>1. FeedStep => [Feed!Next]_(Feed!vars) BY DEF FeedStep, Feed!Next, Actions
  <2> QED BY <2>1, FlowNext
<1>3. Flow /\ [Next]_vars => Flow' BY FlowNext
<1> QED BY <1>1, <1>2, <1>3, FlowInit, PTL DEF Spec, FeedSpec, Feed!Spec

-----------------------------------------------------------------------------
\* What the store comes to.

Mirror(o) == IF cluster[o] = 0 THEN <<>> ELSE <<cluster[o]>>

\* The cluster after an event.
After(e) == IF e.act = "DELETE" THEN 0 ELSE e.num

DocsOK == docs \in [Objects -> Seq(1..MaxEvents)]

\* An object that is not disturbed has one event on its way at most, which is
\* the last and makes the store what the cluster is.
View ==
    \A o \in Objects \ disturbed :
        /\ Settled(o) => docs[o] = Mirror(o)
        /\ \A e \in Pending : e.obj = o =>
              /\ After(e) = cluster[o]
              /\ Feed!Stored(e, docs[o]) = Mirror(o)
              /\ \A f \in Pending : f.obj = o => f = e

LEMMA ViewInit == Init => DocsOK /\ View
<1> SUFFICES ASSUME Init PROVE DocsOK /\ View OBVIOUS
<1>1. \A a \in Actions : ToSet(stream[a]) = {} BY DEF Init, ToSet
<1>2. Pending = {} BY <1>1 DEF Init, Pending, Calling, InStream
<1> QED BY <1>2 DEF Init, DocsOK, View, Mirror

LEMMA StoredType ==
  ASSUME NEW e \in Events, NEW ds \in Seq(1..MaxEvents)
  PROVE  Feed!Stored(e, ds) \in Seq(1..MaxEvents)
<1>1. e.num \in 1..MaxEvents /\ e.act \in Actions BY DEF Events
<1>2. CASE e.act = "ADD" BY <1>1, <1>2 DEF Feed!Stored
<1>3. CASE e.act = "UPDATE"
  <2>1. CASE ds = <<>> BY <1>1, <1>3, <2>1 DEF Feed!Stored
  <2>2. CASE ds # <<>>
    <3>1. [ds EXCEPT ![1] = e.num] \in Seq(1..MaxEvents) BY <1>1, <2>2
    <3> QED BY <1>3, <2>2, <3>1 DEF Feed!Stored
  <2> QED BY <2>1, <2>2
<1>4. CASE e.act = "DELETE"
  <2>1. CASE ds = <<>> BY <1>4, <2>1 DEF Feed!Stored
  <2>2. CASE ds # <<>>
    <3>1. Tail(ds) \in Seq(1..MaxEvents) BY <2>2
    <3> QED BY <1>4, <2>2, <3>1 DEF Feed!Stored
  <2> QED BY <2>1, <2>2
<1> QED BY <1>1, <1>2, <1>3, <1>4 DEF Actions

LEMMA DocsStep == Flow /\ DocsOK /\ FeedStep => DocsOK'
<1> SUFFICES ASSUME Flow, DocsOK, FeedStep PROVE DocsOK' OBVIOUS
<1>1. CASE docs' = docs BY <1>1 DEF DocsOK
<1>2. ASSUME NEW e \in Pending, Feed!Store(e) PROVE DocsOK'
  <2>1. e \in Events /\ e.obj \in Objects BY PendingEvents DEF Events
  <2>2. Feed!Stored(e, docs[e.obj]) \in Seq(1..MaxEvents) BY <2>1, StoredType DEF DocsOK
  <2>3. docs' = [docs EXCEPT ![e.obj] = Feed!Stored(e, docs[e.obj])] BY <1>2 DEF Feed!Store
  <2> QED BY <2>1, <2>2, <2>3 DEF DocsOK
<1> QED BY <1>1, <1>2 DEF FeedStep, Feed!Happen, Feed!Miss, Feed!Lose, Feed!vars

\* An event of an object that nobody knew of, or that is stored as it was.
LEMMA MirrorAfter ==
  ASSUME NEW act \in Actions, NEW n \in Nat \ {0}, NEW c \in Nat, act = "ADD" <=> c = 0,
         NEW o
  PROVE  Feed!Stored([obj |-> o, act |-> act, num |-> n], IF c = 0 THEN <<>> ELSE <<c>>)
            = IF act = "DELETE" THEN <<>> ELSE <<n>>
<1>1. CASE act = "ADD" BY <1>1 DEF Feed!Stored
<1>2. CASE act = "UPDATE"
  <2>1. [<<c>> EXCEPT ![1] = n] = <<n>> OBVIOUS
  <2> QED BY <1>2, <2>1 DEF Feed!Stored
<1>3. CASE act = "DELETE"
  <2>1. Tail(<<c>>) = <<>> OBVIOUS
  <2> QED BY <1>3, <2>1 DEF Feed!Stored
<1> QED BY <1>1, <1>2, <1>3 DEF Actions

LEMMA HappenView ==
  ASSUME Flow, View, NEW o \in Objects, NEW act \in Actions, Feed!Happen(o, act),
         disturbed \subseteq disturbed',
         o \notin disturbed' => Settled(o) /\ (act = "ADD" <=> cluster[o] = 0)
  PROVE  View'
<1> DEFINE e == [obj |-> o, act |-> act, num |-> count[o] + 1]
<1>1. /\ count[o] \in Nat /\ cluster[o] \in Nat /\ count[o] + 1 # 0
      /\ cluster \in [Objects -> 0..MaxEvents]
  BY DEF Flow, CountsOK
<1>2. /\ cluster' = [cluster EXCEPT ![o] = After(e)] /\ docs' = docs
      /\ Pending' = Pending \cup {e} /\ e.obj = o
  BY DEF Feed!Happen, After
<1>3. ASSUME act = "ADD" <=> cluster[o] = 0
      PROVE  Feed!Stored(e, IF cluster[o] = 0 THEN <<>> ELSE <<cluster[o]>>)
                = IF act = "DELETE" THEN <<>> ELSE <<count[o] + 1>>
  <2>1. count[o] + 1 \in Nat \ {0} BY <1>1
  <2> QED BY <1>1, <1>3, <2>1, MirrorAfter
<1>4. cluster'[o] = After(e) /\ \A x \in Objects \ {o} : cluster'[x] = cluster[x] BY <1>1, <1>2
<1>5. After(e) = IF act = "DELETE" THEN 0 ELSE count[o] + 1 BY DEF After
<1>6. ASSUME o \notin disturbed' PROVE Feed!Stored(e, docs[o]) = Mirror(o)'
  <2>1. docs[o] = IF cluster[o] = 0 THEN <<>> ELSE <<cluster[o]>> BY <1>6 DEF View, Mirror
  <2>2. Mirror(o)' = IF act = "DELETE" THEN <<>> ELSE <<count[o] + 1>>
    BY <1>1, <1>4, <1>5 DEF Mirror
  <2>3. act = "ADD" <=> cluster[o] = 0 BY <1>6
  <2> HIDE DEF e
  <2> QED BY <1>3, <2>1, <2>2, <2>3
<1> HIDE DEF e
<1>7. ASSUME NEW x \in Objects \ disturbed', x # o
      PROVE  /\ Settled(x)' => docs'[x] = Mirror(x)'
             /\ \A g \in Pending' : g.obj = x =>
                   /\ After(g) = cluster'[x]
                   /\ Feed!Stored(g, docs'[x]) = Mirror(x)'
                   /\ \A f \in Pending' : f.obj = x => f = g
  <2>1. Mirror(x)' = Mirror(x) BY <1>4, <1>7 DEF Mirror
  <2>2. \A g \in Pending' : g.obj = x => g \in Pending BY <1>2, <1>7
  <2>3. Settled(x)' => Settled(x) BY <1>2 DEF Settled
  <2> QED BY <1>2, <1>4, <1>7, <2>1, <2>2, <2>3 DEF View
<1>8. ASSUME o \notin disturbed'
      PROVE  /\ ~Settled(o)'
             /\ \A g \in Pending' : g.obj = o => g = e
  BY <1>2, <1>8 DEF Settled
<1> QED BY <1>2, <1>4, <1>6, <1>7, <1>8 DEF View, After

LEMMA StoreView ==
  ASSUME Flow, DocsOK, View, NEW e \in Pending, Feed!Store(e), disturbed \subseteq disturbed'
  PROVE  View'
<1>1. e \in Events /\ e.obj \in Objects BY PendingEvents DEF Events
<1>2. /\ docs' = [docs EXCEPT ![e.obj] = Feed!Stored(e, docs[e.obj])]
      /\ Pending' = Pending \ {e} /\ cluster' = cluster
  BY DEF Feed!Store
<1>3. /\ docs'[e.obj] = Feed!Stored(e, docs[e.obj])
      /\ \A x \in Objects \ {e.obj} : docs'[x] = docs[x]
  BY <1>1, <1>2 DEF DocsOK
<1>4. \A x : Mirror(x)' = Mirror(x) BY <1>2 DEF Mirror
<1> SUFFICES ASSUME NEW x \in Objects \ disturbed'
             PROVE  /\ Settled(x)' => docs'[x] = Mirror(x)'
                    /\ \A g \in Pending' : g.obj = x =>
                          /\ After(g) = cluster'[x]
                          /\ Feed!Stored(g, docs'[x]) = Mirror(x)'
                          /\ \A f \in Pending' : f.obj = x => f = g
  BY DEF View, After
<1>5. CASE x = e.obj
  <2>1. \A g \in Pending' : g.obj # x BY <1>2, <1>5 DEF View
  <2>2. docs'[x] = Mirror(x)' BY <1>3, <1>4, <1>5 DEF View
  <2> QED BY <2>1, <2>2
<1>6. CASE x # e.obj
  <2>1. Settled(x)' => Settled(x) BY <1>2, <1>6 DEF Settled
  <2> QED BY <1>2, <1>3, <1>4, <1>6, <2>1 DEF View
<1> QED BY <1>5, <1>6

\* Events that are lost, and changes nobody sees, disturb their objects.
LEMMA LossView ==
  ASSUME View, docs' = docs, disturbed \subseteq disturbed', Pending' \subseteq Pending,
         \A x \in Objects \ disturbed' : /\ cluster'[x] = cluster[x]
                                         /\ \A g \in Pending \ Pending' : g.obj # x
  PROVE  View'
<1> SUFFICES ASSUME NEW x \in Objects \ disturbed'
             PROVE  /\ Settled(x)' => docs'[x] = Mirror(x)'
                    /\ \A g \in Pending' : g.obj = x =>
                          /\ After(g) = cluster'[x]
                          /\ Feed!Stored(g, docs'[x]) = Mirror(x)'
                          /\ \A f \in Pending' : f.obj = x => f = g
  BY DEF View, After
<1>1. Mirror(x)' = Mirror(x) BY DEF Mirror
<1>2. Settled(x)' => Settled(x) BY DEF Settled
<1> QED BY <1>1, <1>2 DEF View

LEMMA ViewStep == Flow /\ DocsOK /\ View /\ FeedStep => View'
<1> SUFFICES ASSUME Flow, DocsOK, View, FeedStep PROVE View' OBVIOUS
<1>0. disturbed \subseteq disturbed' BY DEF FeedStep
<1>1. ASSUME NEW o \in Objects, NEW act \in Actions, Feed!Happen(o, act),
             o \notin disturbed' => Settled(o) /\ (act = "ADD" <=> cluster[o] = 0)
      PROVE  View'
  BY <1>0, <1>1, HappenView
<1>2. ASSUME NEW o \in Objects, o \in disturbed', Feed!Miss(o) PROVE View'
  <2>1. /\ cluster' = [cluster EXCEPT ![o] = 0] /\ docs' = docs /\ Pending' = Pending
    BY <1>2 DEF Feed!Miss
  <2>2. \A x \in Objects \ disturbed' : cluster'[x] = cluster[x]
    BY <1>2, <2>1 DEF Flow, CountsOK
  <2> QED BY <1>0, <2>1, <2>2, LossView
<1>3. ASSUME NEW e \in Pending, Feed!Store(e) PROVE View' BY <1>0, <1>3, StoreView
<1>4. ASSUME NEW es \in SUBSET Pending, Feed!Lose(es), Objs(es) \subseteq disturbed' PROVE View'
  <2>1. cluster' = cluster /\ docs' = docs /\ Pending' = Pending \ es BY <1>4 DEF Feed!Lose
  <2>2. \A g \in es : g.obj \in disturbed' BY <1>4 DEF Objs
  <2> QED BY <1>0, <2>1, <2>2, LossView
<1>5. CASE UNCHANGED Feed!vars
  <2>1. cluster' = cluster /\ docs' = docs /\ Pending' = Pending BY <1>5 DEF Feed!vars
  <2> QED BY <1>0, <2>1, LossView
<1> QED BY <1>1, <1>2, <1>3, <1>4, <1>5 DEF FeedStep

-----------------------------------------------------------------------------
\* What the manager's cache comes to.

\* Events not handled by the manager yet.
Ahead == waiting \cup Calling \cup serving

CacheOK ==
    /\ cached \in [Objects -> 0..MaxEvents]
    /\ \A o \in Objects \ (disturbed \cup forgotten) :
          (\A e \in Ahead : e.obj # o) => cached[o] = cluster[o]

LEMMA CacheInit == Init => CacheOK
BY DEF Init, CacheOK

\* A step that leaves the cache alone and takes no event past the manager.
LEMMA CacheStays ==
  ASSUME CacheOK, cached' = cached, forgotten' = forgotten, disturbed \subseteq disturbed',
         \A o \in Objects \ disturbed' :
            /\ (\A e \in Ahead' : e.obj # o) => (\A e \in Ahead : e.obj # o)
            /\ (\A e \in Ahead' : e.obj # o) => cluster'[o] = cluster[o]
  PROVE  CacheOK'
BY DEF CacheOK

LEMMA CallbackCache ==
  ASSUME Flow, CacheOK, NEW o \in Objects, NEW act, Callback(o, act),
         disturbed \subseteq disturbed'
  PROVE  CacheOK'
<1> DEFINE e == [obj |-> o, act |-> act, num |-> count[o] + 1]
<1>1. /\ waiting' = waiting \cup {e} /\ UNCHANGED <<uploader, serving, cached, forgotten>>
      /\ cluster' = [cluster EXCEPT ![o] = IF act = "DELETE" THEN 0 ELSE count[o] + 1]
      /\ cluster \in [Objects -> 0..MaxEvents]
  BY DEF Callback, managerVars, Flow, CountsOK
<1>2. Ahead' = Ahead \cup {e} BY <1>1, UploaderStays DEF Ahead
<1>3. \A x \in Objects \ {o} : cluster'[x] = cluster[x] BY <1>1
<1>4. e.obj = o OBVIOUS
<1> HIDE DEF e
<1>5. \A x \in Objects : (\A f \in Ahead' : f.obj # x) => (\A f \in Ahead : f.obj # x) /\ x # o
  BY <1>2, <1>4
<1> QED BY <1>1, <1>3, <1>5, CacheStays

\* The agent's uploader and informers, but for their callbacks.
LEMMA AgentCache ==
  ASSUME Flow, CacheOK,
         \/ \E o \in Objects : GoneUnseen(o)
         \/ AgentRestart \/ (\E e \in waiting : Take(e))
         \/ CallArrives \/ CallFails \/ DeadlinePasses
  PROVE  CacheOK'
<1>1. ASSUME NEW o \in Objects, GoneUnseen(o) PROVE CacheOK'
  <2>1. /\ cluster' = [cluster EXCEPT ![o] = 0] /\ disturbed' = disturbed \cup {o}
        /\ UNCHANGED <<waiting, uploader, serving, cached, forgotten>>
    BY <1>1 DEF GoneUnseen, managerVars
  <2>2. Ahead' = Ahead BY <2>1, UploaderStays DEF Ahead
  <2>3. \A x \in Objects \ disturbed' : cluster'[x] = cluster[x] BY <2>1 DEF Flow, CountsOK
  <2> QED BY <2>1, <2>2, <2>3, CacheStays
<1>2. CASE AgentRestart
  <2>1. /\ waiting' = {} /\ uploader' = [pc |-> "select"]
        /\ disturbed' = disturbed \cup Objs(waiting \cup Calling)
        /\ UNCHANGED <<cluster, serving, cached, forgotten>>
    BY <1>2 DEF AgentRestart, managerVars
  <2>2. \A x \in Objects \ disturbed' : \A e \in waiting \cup Calling : e.obj # x
    BY <2>1 DEF Objs
  <2>3. serving \subseteq Ahead' BY <2>1 DEF Ahead
  <2>4. \A x \in Objects \ disturbed' :
           (\A e \in Ahead' : e.obj # x) => (\A e \in Ahead : e.obj # x)
    BY <2>2, <2>3 DEF Ahead
  <2> QED BY <2>1, <2>4, CacheStays
<1>3. ASSUME NEW e \in waiting, Take(e) PROVE CacheOK'
  <2>1. /\ waiting' = waiting \ {e} /\ uploader' = [pc |-> "call", event |-> e]
        /\ uploader.pc = "select" /\ UNCHANGED <<cluster, serving, cached, forgotten, disturbed>>
    BY <1>3 DEF Take, clusterVars, managerVars
  <2>2. Calling = {} /\ Calling' = {e} BY <2>1 DEF Calling
  <2>3. Ahead' = Ahead BY <2>1, <2>2 DEF Ahead
  <2> QED BY <2>1, <2>3, CacheStays
<1>4. CASE CallArrives
  <2>1. /\ serving' = serving \cup {uploader.event} /\ uploader.pc = "call"
        /\ uploader' = [uploader EXCEPT !.pc = "wait"]
        /\ UNCHANGED <<cluster, waiting, cached, forgotten, disturbed>>
    BY <1>4 DEF CallArrives, clusterVars
  <2>2. uploader \in [pc : {"call", "wait"}, event : Events] BY <2>1 DEF Flow, PlacesOK
  <2>3. uploader'.pc = "wait" BY <2>1, <2>2
  <2>4. Calling = {uploader.event} /\ Calling' = {} BY <2>1, <2>3 DEF Calling
  <2>5. Ahead' = Ahead BY <2>1, <2>4 DEF Ahead
  <2> QED BY <2>1, <2>5, CacheStays
<1>5. CASE CallFails
  <2>1. /\ uploader' = [pc |-> "select"] /\ uploader.pc = "call"
        /\ disturbed' = disturbed \cup {uploader.event.obj}
        /\ UNCHANGED <<cluster, waiting, serving, cached, forgotten>>
    BY <1>5 DEF CallFails, clusterVars, managerVars
  <2>2. Calling = {uploader.event} BY <2>1 DEF Calling
  <2>3. \A x \in Objects \ disturbed' : \A e \in Calling : e.obj # x BY <2>1, <2>2
  <2>4. waiting \cup serving \subseteq Ahead' BY <2>1 DEF Ahead
  <2>5. \A x \in Objects \ disturbed' :
           (\A e \in Ahead' : e.obj # x) => (\A e \in Ahead : e.obj # x)
    BY <2>3, <2>4 DEF Ahead
  <2> QED BY <2>1, <2>5, CacheStays
<1>6. CASE DeadlinePasses
  <2>1. /\ uploader' = [pc |-> "select"] /\ uploader.pc = "wait"
        /\ UNCHANGED <<cluster, waiting, serving, cached, forgotten, disturbed>>
    BY <1>6 DEF DeadlinePasses, clusterVars, managerVars
  <2>2. Calling = {} /\ Calling' = {} BY <2>1 DEF Calling
  <2>3. Ahead' = Ahead BY <2>1, <2>2 DEF Ahead
  <2> QED BY <2>1, <2>3, CacheStays
<1> QED BY <1>1, <1>2, <1>3, <1>4, <1>5, <1>6

\* The handler's event is the object's last, and no other is ahead of the manager.
LEMMA DispatchCache ==
  ASSUME Flow, View, CacheOK, NEW e \in serving, Dispatch(e) PROVE CacheOK'
<1>1. /\ e \in Events /\ e.obj \in Objects /\ e \in Pending
      /\ serving' = serving \ {e} /\ waiting' = waiting /\ cluster' = cluster
      /\ cached' = [cached EXCEPT ![e.obj] = After(e)] /\ forgotten' = forgotten \ {e.obj}
      /\ disturbed \subseteq disturbed'
  BY DEF Dispatch, Store, Export, clusterVars, Flow, PlacesOK, Events, Pending, After
<1>2. After(e) \in 0..MaxEvents BY <1>1 DEF After, Events
<1>3. Calling' = Calling BY AnswerCalls DEF Flow, Dispatch
<1>4. \A f \in Ahead : f \in Ahead' \/ f = e BY <1>1, <1>3 DEF Ahead
<1>5. cached' \in [Objects -> 0..MaxEvents] BY <1>1, <1>2 DEF CacheOK
<1>6. ASSUME NEW x \in Objects \ (disturbed' \cup forgotten'), \A f \in Ahead' : f.obj # x
      PROVE  cached'[x] = cluster'[x]
  <2>1. CASE x = e.obj
    <3>1. After(e) = cluster[x] BY <1>1, <1>6, <2>1 DEF View
    <3> QED BY <1>1, <2>1, <3>1 DEF CacheOK
  <2>2. CASE x # e.obj
    <3>1. \A f \in Ahead : f.obj # x BY <1>4, <1>6, <2>2
    <3>2. x \in Objects \ (disturbed \cup forgotten) BY <1>1, <1>6, <2>2
    <3> QED BY <1>1, <2>2, <3>1, <3>2 DEF CacheOK
  <2> QED BY <2>1, <2>2
<1> QED BY <1>5, <1>6 DEF CacheOK

LEMMA ManagerRestartCache == ASSUME Flow, CacheOK, ManagerRestart PROVE CacheOK'
<1>1. /\ serving' = {} /\ cached' = [o \in Objects |-> 0] /\ waiting' = waiting
      /\ cluster' = cluster
      /\ forgotten' = forgotten \cup {o \in Objects : cached[o] # 0}
      /\ uploader' = IF uploader.pc = "wait" THEN [pc |-> "select"] ELSE uploader
      /\ disturbed' = disturbed \cup Objs(serving \cup InStream)
  BY DEF ManagerRestart, clusterVars
<1>2. Calling' = Calling BY <1>1 DEF Calling
<1>3. ASSUME NEW x \in Objects \ (disturbed' \cup forgotten'), \A f \in Ahead' : f.obj # x
      PROVE  cached'[x] = cluster'[x]
  <2>1. \A f \in serving : f.obj # x BY <1>1, <1>3 DEF Objs
  <2>2. \A f \in Ahead : f.obj # x BY <1>1, <1>2, <1>3, <2>1 DEF Ahead
  <2>3. cached[x] = cluster[x] /\ cached[x] = 0 BY <1>1, <1>3, <2>2 DEF CacheOK
  <2> QED BY <1>1, <2>3
<1>4. cached' \in [Objects -> 0..MaxEvents] BY <1>1
<1> QED BY <1>3, <1>4 DEF CacheOK

\* What mongo-client and the database do is past the manager.
LEMMA ClientCache ==
  ASSUME Flow, CacheOK,
         \/ DeployAddRoutine \/ DeployUpdateRoutine \/ DeployDeleteRoutine
         \/ (\E a \in Actions : WriteFails(a)) \/ ClientDies \/ ClientSubscribes
         \/ UNCHANGED vars
  PROVE  CacheOK'
<1>1. /\ UNCHANGED <<cluster, waiting, uploader, serving, cached, forgotten>>
      /\ disturbed \subseteq disturbed'
  BY DEF DeployAddRoutine, DeployUpdateRoutine, DeployDeleteRoutine, WriteFails, Read, ClientDies,
         ClientSubscribes, clusterVars, managerVars, vars
<1>2. Ahead' = Ahead BY <1>1, UploaderStays DEF Ahead
<1> QED BY <1>1, <1>2, CacheStays

LEMMA CacheNext == Flow /\ View /\ CacheOK /\ [Next]_vars => CacheOK'
<1> SUFFICES ASSUME Flow, View, CacheOK, [Next]_vars PROVE CacheOK' OBVIOUS
<1>1. ASSUME NEW o \in Objects, AddFunc(o) \/ UpdateFunc(o) \/ DeleteFunc(o) \/ ListObject(o)
      PROVE  CacheOK'
  <2>1. PICK act : Callback(o, act)
    BY <1>1 DEF AddFunc, UpdateFunc, DeleteFunc, ListObject
  <2>2. disturbed \subseteq disturbed'
    BY <1>1 DEF AddFunc, UpdateFunc, DeleteFunc, ListObject, Disturb
  <2> QED BY <2>1, <2>2, CallbackCache
<1>2. ASSUME NEW e \in serving, Dispatch(e) PROVE CacheOK' BY <1>2, DispatchCache
<1> QED BY <1>1, <1>2, AgentCache, ManagerRestartCache, ClientCache DEF Next

-----------------------------------------------------------------------------
IInv == Flow /\ DocsOK /\ View /\ CacheOK

(***************************************************************************)
(* Every reachable state of the pipeline satisfies the inductive           *)
(* invariant: an event is in one place, an object that is not disturbed    *)
(* has one event on its way at most, and what that event does to the store *)
(* and the cache is what it did to the cluster.                            *)
(***************************************************************************)
THEOREM PipelineInvariant == Spec => []IInv
<1>1. Init => IInv BY FlowInit, ViewInit, CacheInit DEF IInv
<1>2. IInv /\ [Next]_vars => IInv'
  <2> SUFFICES ASSUME IInv, [Next]_vars PROVE IInv' OBVIOUS
  <2>1. Flow' /\ FeedStep BY FlowNext DEF IInv
  <2>2. DocsOK' /\ View' BY <2>1, DocsStep, ViewStep DEF IInv
  <2>3. CacheOK' BY CacheNext DEF IInv
  <2> QED BY <2>1, <2>2, <2>3 DEF IInv
<1> QED BY <1>1, <1>2, PTL DEF Spec

\* Every variable of the pipeline keeps its type.
THEOREM PipelineTypeCorrect == Spec => []TypeOK
<1>1. IInv => TypeOK
  BY DEF IInv, Flow, DocsOK, CacheOK, StreamsOK, PlacesOK, CountsOK, HistoryOK, TypeOK
<1> QED BY <1>1, PipelineInvariant, PTL

\* An object whose events never overlapped and were not lost is stored as it is.
THEOREM StoreMirrors == Spec => []MirrorUndisturbed
<1>1. IInv => MirrorUndisturbed BY DEF IInv, View, MirrorUndisturbed, Mirrored, Mirror
<1> QED BY <1>1, PipelineInvariant, PTL

\* The manager's last message of a service is that of the cluster.
THEOREM CacheFollows == Spec => []CacheFollowsCluster
<1>1. IInv => CacheFollowsCluster BY DEF IInv, CacheOK, Ahead, CacheFollowsCluster
<1> QED BY <1>1, PipelineInvariant, PTL

-----------------------------------------------------------------------------
\* Every event settles.  What is ahead of the events only shrinks, and as
\* long as one is on its way a step is possible that shrinks it.

\* Events that can still happen; then those a step of their way is ahead of.
NotHappened == {e \in Events : e.num > count[e.obj]}
NotTaken == NotHappened \cup waiting
NotCalled == NotTaken \cup Calling
NotHandled == NotCalled \cup serving
NotStored == NotHandled \cup InStream

ToCome ==
    (NotHappened \X {"happen"}) \cup (NotTaken \X {"take"}) \cup (NotCalled \X {"call"})
       \cup (NotHandled \X {"handle"}) \cup (NotStored \X {"store"})

LEMMA EventsFinite == ASSUME IsFiniteSet(Objects) PROVE IsFiniteSet(Events)
<1> DEFINE D == (Objects \X Actions) \X (1..MaxEvents)
           f == [t \in D |-> [obj |-> t[1][1], act |-> t[1][2], num |-> t[2]]]
<1>1. \A S, x : IsFiniteSet(S) => IsFiniteSet(S \cup {x})
  <2>1. ASSUME NEW S, NEW x, IsFiniteSet(S) PROVE IsFiniteSet(S \cup {x}) BY <2>1, FS_AddElement
  <2> QED BY <2>1
<1>2. IsFiniteSet(Actions)
  <2>1. Actions = (({} \cup {"ADD"}) \cup {"UPDATE"}) \cup {"DELETE"} BY DEF Actions
  <2>2. IsFiniteSet(({} \cup {"ADD"}) \cup {"UPDATE"}) BY <1>1, FS_EmptySet
  <2> QED BY <1>1, <2>1, <2>2
<1>3. IsFiniteSet(1..MaxEvents)
  <2>1. ASSUME NEW a \in Int, NEW b \in Int PROVE IsFiniteSet(a..b) BY FS_Interval, Zenon
  <2>2. 1 \in Int /\ MaxEvents \in Int OBVIOUS
  <2> QED BY <2>1, <2>2, Zenon
<1>4. IsFiniteSet(Objects \X Actions) BY <1>2, FS_Product
<1>5. IsFiniteSet(D) BY <1>3, <1>4, FS_Product
<1>6. f \in Surjection(D, Events)
  <2>1. f \in [D -> Events] BY DEF Events
  <2>2. ASSUME NEW e \in Events PROVE \E t \in D : f[t] = e
    <3>1. <<<<e.obj, e.act>>, e.num>> \in D BY DEF Events
    <3>2. f[<<<<e.obj, e.act>>, e.num>>] = e BY <3>1 DEF Events
    <3> QED BY <3>1, <3>2
  <2> QED BY <2>1, <2>2 DEF Surjection
<1> HIDE DEF D, f
<1> QED BY <1>5, <1>6, FS_Surjection

LEMMA AheadEvents == Flow => NotStored \subseteq Events
BY PendingEvents DEF NotStored, NotHandled, NotCalled, NotTaken, NotHappened, Pending

LEMMA ToComeFinite ==
  ASSUME Flow, IsFiniteSet(Objects)
  PROVE  IsFiniteSet(ToCome) /\ Cardinality(ToCome) \in Nat
<1>1. IsFiniteSet(Events) BY EventsFinite
<1>2. ASSUME NEW S, S \subseteq Events, NEW x PROVE IsFiniteSet(S \X {x})
  <2>1. IsFiniteSet(S) BY <1>1, <1>2, FS_Subset
  <2> QED BY <2>1, FS_Product, FS_Singleton
<1>3. /\ NotHappened \subseteq Events /\ NotTaken \subseteq Events /\ NotCalled \subseteq Events
      /\ NotHandled \subseteq Events /\ NotStored \subseteq Events
  BY AheadEvents DEF NotStored, NotHandled, NotCalled, NotTaken, NotHappened
<1> DEFINE H == NotHappened \X {"happen"}   T == NotTaken \X {"take"}
           C == NotCalled \X {"call"}       M == NotHandled \X {"handle"}
           S == NotStored \X {"store"}
<1>4. /\ IsFiniteSet(H) /\ IsFiniteSet(T) /\ IsFiniteSet(C) /\ IsFiniteSet(M) /\ IsFiniteSet(S)
  BY <1>2, <1>3
<1>5. ToCome = (((H \cup T) \cup C) \cup M) \cup S BY DEF ToCome
<1> HIDE DEF H, T, C, M, S
<1>6. IsFiniteSet(H \cup T) BY <1>4, FS_Union
<1>7. IsFiniteSet((H \cup T) \cup C) BY <1>4, <1>6, FS_Union
<1>8. IsFiniteSet(((H \cup T) \cup C) \cup M) BY <1>4, <1>7, FS_Union
<1>9. IsFiniteSet(ToCome) BY <1>4, <1>5, <1>8, FS_Union
<1> QED BY <1>9, FS_CardinalityType

\* No step puts an event back to where it was.
Onward ==
    /\ NotHappened' \subseteq NotHappened /\ NotTaken' \subseteq NotTaken
    /\ NotCalled' \subseteq NotCalled /\ NotHandled' \subseteq NotHandled
    /\ NotStored' \subseteq NotStored

LEMMA OnwardShrinks == Onward => ToCome' \subseteq ToCome
BY DEF Onward, ToCome

LEMMA CallbackOnward ==
  ASSUME Flow, NEW o \in Objects, NEW act \in Actions, Callback(o, act) PROVE Onward
<1> DEFINE e == [obj |-> o, act |-> act, num |-> count[o] + 1]
<1>1. /\ count[o] \in Nat /\ count[o] + 1 \in 1..MaxEvents
      /\ count \in [Objects -> 0..MaxEvents] /\ count' = [count EXCEPT ![o] = count[o] + 1]
  BY DEF Callback, Flow, CountsOK
<1>2. e \in NotHappened BY <1>1 DEF NotHappened, Events
<1>3. /\ waiting' = waiting \cup {e} /\ serving' = serving
      /\ InStream' = InStream /\ Calling' = Calling
  BY DEF Callback, managerVars, storeVars, InStream, Calling
<1> HIDE DEF e
<1>4. NotHappened' \subseteq NotHappened
  <2> SUFFICES ASSUME NEW f \in Events, f.num > count'[f.obj] PROVE f.num > count[f.obj]
    BY DEF NotHappened
  <2>1. f.obj \in Objects /\ f.num \in Nat BY DEF Events
  <2>2. count[f.obj] \in Nat /\ count'[f.obj] >= count[f.obj] BY <1>1, <2>1
  <2>3. count'[f.obj] \in Nat BY <1>1, <2>1
  <2> QED BY <2>1, <2>2, <2>3
<1> QED BY <1>2, <1>3, <1>4 DEF Onward, NotStored, NotHandled, NotCalled, NotTaken

LEMMA CountStays == ASSUME count' = count PROVE NotHappened' = NotHappened
BY DEF NotHappened

LEMMA StepsOnward == Flow /\ [Next]_vars => Onward
<1> SUFFICES ASSUME Flow, [Next]_vars PROVE Onward OBVIOUS
<1> USE DEF clusterVars, managerVars, storeVars
<1>1. ASSUME NEW o \in Objects, AddFunc(o) \/ UpdateFunc(o) \/ DeleteFunc(o) \/ ListObject(o)
      PROVE  Onward
  <2>1. PICK act \in Actions : Callback(o, act)
    BY <1>1 DEF AddFunc, UpdateFunc, DeleteFunc, ListObject, Actions
  <2> QED BY <2>1, CallbackOnward
<1>2. ASSUME count' = count, waiting' \subseteq waiting, Calling' \subseteq Calling \cup waiting,
             serving' \subseteq serving \cup Calling,
             InStream' \subseteq InStream \cup serving
      PROVE  Onward
  BY <1>2, CountStays DEF Onward, NotStored, NotHandled, NotCalled, NotTaken
<1>3. ASSUME UNCHANGED <<count, waiting, uploader, serving, stream>> PROVE Onward
  BY <1>2, <1>3, UploaderStays DEF InStream
<1>4. ASSUME NEW o \in Objects, GoneUnseen(o) PROVE Onward BY <1>3, <1>4 DEF GoneUnseen
<1>5. CASE AgentRestart
  <2>1. Calling' = {} BY <1>5 DEF AgentRestart, Calling
  <2> QED BY <1>2, <1>5, <2>1 DEF AgentRestart, InStream
<1>6. ASSUME NEW e \in waiting, Take(e) PROVE Onward
  <2>1. Calling' = {e} BY <1>6 DEF Take, Calling
  <2> QED BY <1>2, <1>6, <2>1 DEF Take, InStream
<1>7. CASE CallArrives
  <2>1. Calling = {uploader.event} BY <1>7 DEF CallArrives, Calling
  <2>2. Calling' = {} BY <1>7 DEF CallArrives, Calling, Flow, PlacesOK
  <2> QED BY <1>2, <1>7, <2>1, <2>2 DEF CallArrives, InStream
<1>8. CASE CallFails \/ DeadlinePasses
  <2>1. Calling' = {} BY <1>8 DEF CallFails, DeadlinePasses, Calling
  <2> QED BY <1>2, <1>8, <2>1 DEF CallFails, DeadlinePasses, InStream
<1>9. ASSUME NEW e \in serving, Dispatch(e) PROVE Onward
  <2>1. count' = count /\ waiting' = waiting /\ serving' = serving \ {e}
    BY <1>9 DEF Dispatch, Export
  <2>2. Calling' = Calling BY <1>9, AnswerCalls DEF Dispatch, Flow
  <2>3. InStream' \subseteq InStream \cup {e}
    <3>1. CASE connected
      <4>1. e \in Events /\ e \notin InStream BY DEF Flow, PlacesOK, Apart
      <4> QED BY <1>9, <3>1, <4>1, Streamed DEF Dispatch, Export, Flow
    <3>2. CASE ~connected BY <1>9, <3>2 DEF Dispatch, Export, InStream
    <3> QED BY <3>1, <3>2
  <2> QED BY <1>2, <2>1, <2>2, <2>3
<1>10. CASE ManagerRestart
  <2>1. Calling' = Calling BY <1>10 DEF ManagerRestart, Calling
  <2>2. InStream' = {} BY <1>10, NothingStreamed DEF ManagerRestart
  <2> QED BY <1>2, <1>10, <2>1, <2>2 DEF ManagerRestart
<1>11. ASSUME NEW act \in Actions, Read(act) PROVE Onward
  <2>1. InStream' \subseteq InStream BY <1>11, Unstreamed DEF Read, Flow
  <2> QED BY <1>2, <1>11, <2>1, UploaderStays DEF Read
<1>12. CASE ClientDies
  <2>1. InStream' = {} BY <1>12, NothingStreamed DEF ClientDies
  <2> QED BY <1>2, <1>12, <2>1, UploaderStays DEF ClientDies
<1>13. CASE ClientSubscribes \/ UNCHANGED vars BY <1>3, <1>13 DEF ClientSubscribes, vars
<1>14. CASE DeployAddRoutine \/ DeployUpdateRoutine \/ DeployDeleteRoutine
  BY <1>11, <1>14 DEF DeployAddRoutine, DeployUpdateRoutine, DeployDeleteRoutine, Actions
<1>15. ASSUME NEW a \in Actions, WriteFails(a) PROVE Onward BY <1>11, <1>15 DEF WriteFails
<1> QED BY <1>1, <1>4, <1>5, <1>6, <1>7, <1>8, <1>9, <1>10, <1>12, <1>13, <1>14, <1>15 DEF Next

\* What the goroutines do, one event nearer to its end.
Moves ==
    \/ \E e \in waiting : Take(e)
    \/ CallArrives \/ CallFails
    \/ \E e \in serving : Dispatch(e)
    \/ DeployAddRoutine \/ DeployUpdateRoutine \/ DeployDeleteRoutine

\* Events that are on their way have happened.
LEMMA HappenedApart == Flow => NotHappened \cap Pending = {}
<1> SUFFICES ASSUME Flow, NEW e \in Pending, e.num > count[e.obj] PROVE FALSE
  BY DEF NotHappened
<1>1. e \in Events /\ e.num <= count[e.obj] BY PendingEvents DEF Flow, Fresh
<1>2. e.num \in Nat /\ count[e.obj] \in Nat BY <1>1 DEF Events, Flow, CountsOK
<1> QED BY <1>1, <1>2

LEMMA MovesShrink == Flow /\ Moves => ToCome' # ToCome
<1> SUFFICES ASSUME Flow, Moves PROVE ToCome' # ToCome OBVIOUS
<1>0. NotHappened \cap Pending = {} BY HappenedApart
<1> USE DEF clusterVars, managerVars, storeVars
<1>1. ASSUME NEW e \in waiting, Take(e) PROVE ToCome' # ToCome
  <2>1. e \notin NotHappened BY <1>0 DEF Pending
  <2>2. e \notin NotTaken' BY <1>1, <2>1, CountStays DEF Take, NotTaken
  <2>3. <<e, "take">> \in ToCome /\ <<e, "take">> \notin ToCome' BY <2>2 DEF ToCome, NotTaken
  <2> QED BY <2>3
<1>2. CASE CallArrives \/ CallFails
  <2> DEFINE e == uploader.event
  <2>1. Calling = {e} /\ waiting' = waiting /\ count' = count
    BY <1>2 DEF CallArrives, CallFails, Calling
  <2>2. Calling' = {} BY <1>2 DEF CallArrives, CallFails, Calling, Flow, PlacesOK
  <2> HIDE DEF e
  <2>3. e \notin NotHappened /\ e \notin waiting BY <1>0, <2>1 DEF Pending, Flow, Apart
  <2>4. e \notin NotCalled' BY <2>1, <2>2, <2>3, CountStays DEF NotCalled, NotTaken
  <2>5. <<e, "call">> \in ToCome /\ <<e, "call">> \notin ToCome'
    BY <2>1, <2>4 DEF ToCome, NotCalled
  <2> QED BY <2>5
<1>3. ASSUME NEW e \in serving, Dispatch(e) PROVE ToCome' # ToCome
  <2>1. /\ count' = count /\ waiting' = waiting /\ serving' = serving \ {e} /\ Calling' = Calling
    BY <1>3, AnswerCalls DEF Dispatch, Export, Flow
  <2>2. e \notin NotHappened /\ e \notin waiting /\ e \notin Calling
    BY <1>0 DEF Pending, Flow, Apart
  <2>3. e \notin NotHandled' BY <2>1, <2>2, CountStays DEF NotHandled, NotCalled, NotTaken
  <2>4. <<e, "handle">> \in ToCome /\ <<e, "handle">> \notin ToCome'
    BY <2>3 DEF ToCome, NotHandled
  <2> QED BY <2>4
<1>4. ASSUME NEW act \in Actions, Read(act) PROVE ToCome' # ToCome
  <2> DEFINE e == Head(stream[act])
  <2>1. /\ e \in Pending /\ Pending' = Pending \ {e} /\ count' = count BY <1>4, ReadKeeps
  <2> HIDE DEF e
  <2>2. e \notin NotHappened BY <1>0, <2>1
  <2>3. NotStored = NotHappened \cup Pending /\ NotStored' = NotHappened' \cup Pending'
    BY DEF NotStored, NotHandled, NotCalled, NotTaken, Pending
  <2>4. e \in NotStored /\ e \notin NotStored' BY <2>1, <2>2, <2>3, CountStays
  <2>5. <<e, "store">> \in ToCome /\ <<e, "store">> \notin ToCome' BY <2>4 DEF ToCome
  <2> QED BY <2>5
<1>5. CASE DeployAddRoutine \/ DeployUpdateRoutine \/ DeployDeleteRoutine
  BY <1>4, <1>5 DEF DeployAddRoutine, DeployUpdateRoutine, DeployDeleteRoutine, Actions
<1> QED BY <1>1, <1>2, <1>3, <1>5 DEF Moves

LEMMA Measure ==
  ASSUME IsFiniteSet(Objects), Flow, [Next]_vars
  PROVE  /\ Cardinality(ToCome) \in Nat /\ Cardinality(ToCome') \in Nat
         /\ Cardinality(ToCome') <= Cardinality(ToCome)
         /\ Moves => Cardinality(ToCome') < Cardinality(ToCome)
         /\ Cardinality(ToCome') = Cardinality(ToCome) => ToCome' = ToCome
<1>1. IsFiniteSet(ToCome) /\ Cardinality(ToCome) \in Nat BY ToComeFinite
<1>2. ToCome' \in SUBSET ToCome BY StepsOnward, OnwardShrinks
<1>3. /\ IsFiniteSet(ToCome') /\ Cardinality(ToCome') <= Cardinality(ToCome)
      /\ Cardinality(ToCome) = Cardinality(ToCome') => ToCome = ToCome'
  BY <1>1, <1>2, FS_Subset
<1>4. Cardinality(ToCome') \in Nat BY <1>3, FS_CardinalityType
<1>5. Moves => ToCome' # ToCome BY MovesShrink
<1> QED BY <1>1, <1>3, <1>4, <1>5

(***************************************************************************)
(* No step of any part, restart or fault puts an event back, and every     *)
(* step of the uploader, of a handler or of mongo-client's goroutines      *)
(* leaves less ahead: with finitely many objects there are finitely many   *)
(* such steps, so that no part keeps events going round.                   *)
(***************************************************************************)
THEOREM EventsOnlyMoveOn ==
  ASSUME IsFiniteSet(Objects)
  PROVE  Spec => [][/\ ToCome' \subseteq ToCome
                    /\ Moves => Cardinality(ToCome') < Cardinality(ToCome)]_vars
<1>1. IInv /\ [Next]_vars => [/\ ToCome' \subseteq ToCome
                              /\ Moves => Cardinality(ToCome') < Cardinality(ToCome)]_vars
  BY Measure, StepsOnward, OnwardShrinks DEF IInv
<1> QED BY <1>1, PipelineInvariant, PTL DEF Spec

\* When the steps that Spec is fair to are possible.
CanTake == uploader.pc = "select" /\ waiting # {}
CanCall == uploader.pc = "call"
CanDispatch == serving # {}
CanRead(act) == connected /\ stream[act] # <<>>

\* The uploader waits for a handler that is at work, and a client that is not
\* connected leaves nothing on the streams.
Attended ==
    /\ uploader.pc = "wait" => uploader.event \in serving
    /\ ~connected => InStream = {}

LEMMA AttendedSteps == Flow /\ Attended /\ [Next]_vars => Attended'
<1> SUFFICES ASSUME Flow, Attended, [Next]_vars PROVE Attended' OBVIOUS
<1> USE DEF clusterVars, managerVars, storeVars
<1>1. ASSUME UNCHANGED <<uploader, serving, connected, stream>> PROVE Attended'
  BY <1>1 DEF Attended, InStream
<1>2. ASSUME NEW o \in Objects,
             AddFunc(o) \/ UpdateFunc(o) \/ DeleteFunc(o) \/ ListObject(o) \/ GoneUnseen(o)
      PROVE  Attended'
  BY <1>1, <1>2 DEF AddFunc, UpdateFunc, DeleteFunc, ListObject, GoneUnseen, Callback
<1>3. ASSUME uploader'.pc # "wait", UNCHANGED <<connected, stream>> PROVE Attended'
  BY <1>3 DEF Attended, InStream
<1>4. CASE AgentRestart \/ (\E e \in waiting : Take(e)) \/ CallFails \/ DeadlinePasses
  BY <1>3, <1>4 DEF AgentRestart, Take, CallFails, DeadlinePasses
<1>5. CASE CallArrives
  <2>1. uploader'.event = uploader.event BY <1>5 DEF CallArrives, Flow, PlacesOK
  <2> QED BY <1>5, <2>1 DEF CallArrives, Attended, InStream
<1>6. ASSUME NEW e \in serving, Dispatch(e) PROVE Attended'
  <2>1. uploader'.pc = "wait" => uploader' = uploader /\ uploader.event # e
    BY <1>6 DEF Dispatch, Answer
  <2>2. serving' = serving \ {e} /\ connected' = connected BY <1>6 DEF Dispatch, Export
  <2>3. ~connected => InStream' = InStream BY <1>6 DEF Dispatch, Export, InStream
  <2> QED BY <2>1, <2>2, <2>3 DEF Attended
<1>7. CASE ManagerRestart
  <2>1. InStream' = {} BY <1>7, NothingStreamed DEF ManagerRestart
  <2> QED BY <1>7, <2>1 DEF ManagerRestart, Attended
<1>8. ASSUME NEW act \in Actions, Read(act) PROVE Attended' BY <1>8 DEF Read, Attended
<1>9. CASE DeployAddRoutine \/ DeployUpdateRoutine \/ DeployDeleteRoutine
  BY <1>8, <1>9 DEF DeployAddRoutine, DeployUpdateRoutine, DeployDeleteRoutine, Actions
<1>10. ASSUME NEW a \in Actions, WriteFails(a) PROVE Attended' BY <1>8, <1>10 DEF WriteFails
<1>11. CASE ClientDies
  <2>1. InStream' = {} BY <1>11, NothingStreamed DEF ClientDies
  <2> QED BY <1>11, <2>1 DEF ClientDies, Attended
<1>12. CASE ClientSubscribes BY <1>12 DEF ClientSubscribes, Attended
<1>13. CASE UNCHANGED vars BY <1>1, <1>13 DEF vars
<1> QED BY <1>2, <1>4, <1>5, <1>6, <1>7, <1>9, <1>10, <1>11, <1>12, <1>13 DEF Next

LEMMA AttendedAlways == Spec => [](Flow /\ Attended)
<1>1. Init => Attended
  <2> SUFFICES ASSUME Init PROVE Attended OBVIOUS
  <2> QED BY DEF Init, Attended
<1>2. Flow /\ [Next]_vars => Flow' BY FlowNext
<1> QED BY <1>1, <1>2, FlowInit, AttendedSteps, PTL DEF Spec

LEMMA SomethingCan ==
  ASSUME Flow, Attended, NEW o \in Objects, ~Settled(o)
  PROVE  CanTake \/ CanCall \/ CanDispatch \/ \E a \in Actions : CanRead(a)
<1>1. PICK e \in Pending : e.obj = o BY DEF Settled
<1>2. CASE e \in InStream
  <2>1. PICK a \in Actions : e \in ToSet(stream[a]) BY <1>2 DEF InStream
  <2>2. stream[a] # <<>> BY <2>1 DEF ToSet
  <2> QED BY <1>2, <2>1, <2>2 DEF CanRead, Attended
<1>3. CASE e \in serving BY <1>3 DEF CanDispatch
<1>4. CASE e \in Calling BY <1>4 DEF Calling, CanCall
<1>5. CASE e \in waiting
  <2>1. uploader.pc \in {"select", "call", "wait"} BY DEF Flow, PlacesOK
  <2> QED BY <1>5, <2>1 DEF CanTake, CanCall, CanDispatch, Attended
<1> QED BY <1>1, <1>2, <1>3, <1>4, <1>5 DEF Pending

(***************************************************************************)
(* As long as an event is on its way, the uploader, a handler or a         *)
(* goroutine of mongo-client has a step to take: no part waits for another *)
(* that waits for it, whatever has failed or started anew before.          *)
(***************************************************************************)
THEOREM EventsNeverStuck ==
  ASSUME NEW o \in Objects
  PROVE  Spec => [](~Settled(o) =>
            CanTake \/ CanCall \/ CanDispatch \/ \E a \in Actions : CanRead(a))
<1>1. Flow /\ Attended => (~Settled(o) =>
         CanTake \/ CanCall \/ CanDispatch \/ \E a \in Actions : CanRead(a))
  BY SomethingCan
<1> QED BY <1>1, AttendedAlways, PTL

\* A step that leaves as much ahead leaves every event where it is.
LEMMA PlacesStay ==
  ASSUME Flow, Flow', Onward, ToCome' = ToCome
  PROVE  waiting' = waiting /\ Calling' = Calling /\ serving' = serving /\ InStream' = InStream
<1>1. /\ NotHappened' = NotHappened /\ NotTaken' = NotTaken /\ NotCalled' = NotCalled
      /\ NotHandled' = NotHandled /\ NotStored' = NotStored
  <2>1. \A e : /\ e \in NotHappened <=> <<e, "happen">> \in ToCome
               /\ e \in NotTaken <=> <<e, "take">> \in ToCome
               /\ e \in NotCalled <=> <<e, "call">> \in ToCome
               /\ e \in NotHandled <=> <<e, "handle">> \in ToCome
               /\ e \in NotStored <=> <<e, "store">> \in ToCome
    BY DEF ToCome
  <2>2. \A e : /\ e \in NotHappened' <=> <<e, "happen">> \in ToCome'
               /\ e \in NotTaken' <=> <<e, "take">> \in ToCome'
               /\ e \in NotCalled' <=> <<e, "call">> \in ToCome'
               /\ e \in NotHandled' <=> <<e, "handle">> \in ToCome'
               /\ e \in NotStored' <=> <<e, "store">> \in ToCome'
    BY DEF ToCome
  <2> QED BY <2>1, <2>2
<1>2. NotHappened \cap Pending = {} /\ NotHappened' \cap Pending' = {}
  <2>1. (NotHappened \cap Pending = {})' BY HappenedApart, PTL
  <2> QED BY <2>1, HappenedApart
<1>3. waiting = NotTaken \ NotHappened /\ waiting' = NotTaken' \ NotHappened'
  BY <1>2 DEF NotTaken, Pending
<1>4. Calling = NotCalled \ NotTaken /\ Calling' = NotCalled' \ NotTaken'
  BY <1>2 DEF NotCalled, NotTaken, Pending, Flow, Apart
<1>5. serving = NotHandled \ NotCalled /\ serving' = NotHandled' \ NotCalled'
  BY <1>2 DEF NotHandled, NotCalled, NotTaken, Pending, Flow, Apart
<1>6. InStream = NotStored \ NotHandled /\ InStream' = NotStored' \ NotHandled'
  BY <1>2 DEF NotStored, NotHandled, NotCalled, NotTaken, Pending, Flow, Apart
<1> QED BY <1>1, <1>3, <1>4, <1>5, <1>6

LEMMA GuardsStay ==
  ASSUME Flow, Flow', Attended', [Next]_vars, ToCome' = ToCome
  PROVE  /\ CanTake => CanTake'
         /\ CanCall => CanCall'
         /\ CanDispatch => CanDispatch'
         /\ \A a \in Actions : CanRead(a) => CanRead(a)'
<1>1. waiting' = waiting /\ Calling' = Calling /\ serving' = serving /\ InStream' = InStream
  BY StepsOnward, PlacesStay
<1>2. CanTake => CanTake'
  <2> SUFFICES ASSUME uploader.pc = "select" PROVE uploader'.pc = "select"
    BY <1>1 DEF CanTake
  <2>1. \A e \in waiting : ~Take(e) BY <1>1 DEF Take
  <2>2. CASE UNCHANGED uploader BY <2>2
  <2>3. ASSUME NEW e \in serving, Dispatch(e) PROVE uploader' = uploader
    BY <2>3 DEF Dispatch, Answer
  <2>4. ASSUME NEW o \in Objects,
               AddFunc(o) \/ UpdateFunc(o) \/ DeleteFunc(o) \/ ListObject(o) \/ GoneUnseen(o)
        PROVE  uploader' = uploader
    BY <2>4 DEF AddFunc, UpdateFunc, DeleteFunc, ListObject, GoneUnseen, Callback
  <2>5. CASE ManagerRestart BY <2>5 DEF ManagerRestart
  <2>6. ASSUME NEW act \in Actions, Read(act) PROVE uploader' = uploader BY <2>6 DEF Read
  <2>7. CASE DeployAddRoutine \/ DeployUpdateRoutine \/ DeployDeleteRoutine
    BY <2>6, <2>7 DEF DeployAddRoutine, DeployUpdateRoutine, DeployDeleteRoutine, Actions
  <2>8. ASSUME NEW a \in Actions, WriteFails(a) PROVE uploader' = uploader
    BY <2>6, <2>8 DEF WriteFails
  <2>9. CASE AgentRestart \/ CallArrives \/ CallFails \/ DeadlinePasses
    BY <2>9 DEF AgentRestart, CallArrives, CallFails, DeadlinePasses
  <2>10. CASE ClientDies \/ ClientSubscribes \/ UNCHANGED vars
    BY <2>10 DEF ClientDies, ClientSubscribes, vars
  <2> QED BY <2>1, <2>3, <2>4, <2>5, <2>7, <2>8, <2>9, <2>10 DEF Next
<1>3. CanCall => CanCall'
  <2>1. \A u : (IF u.pc = "call" THEN {u.event} ELSE {}) # {} <=> u.pc = "call" OBVIOUS
  <2> QED BY <1>1, <2>1 DEF Calling, CanCall
<1>4. CanDispatch => CanDispatch' BY <1>1 DEF CanDispatch
<1>5. ASSUME NEW a \in Actions, CanRead(a) PROVE CanRead(a)'
  <2> DEFINE e == Head(stream[a])
  <2>1. e \in ToSet(stream[a]) /\ e \in InStream
    BY <1>5, ReadOne DEF CanRead, Flow, StreamsOK, InStream
  <2>2. e.act = a BY <2>1 DEF Flow, StreamsOK
  <2> HIDE DEF e
  <2>3. PICK b \in Actions : e \in ToSet(stream'[b]) BY <1>1, <2>1 DEF InStream
  <2>4. b = a BY <2>2, <2>3 DEF Flow, StreamsOK
  <2>5. stream'[a] # <<>> BY <2>3, <2>4 DEF ToSet
  <2> QED BY <1>1, <2>1, <2>5 DEF CanRead, Attended, Flow, HistoryOK
<1> QED BY <1>2, <1>3, <1>4, <1>5

\* The fairness of Spec, with the guard of each action for its ENABLED.
Fairness ==
    /\ []<>~CanTake \/ []<><<\E e \in waiting : Take(e)>>_vars
    /\ []<>~CanCall \/ []<><<CallArrives \/ CallFails>>_vars
    /\ []<>~CanDispatch \/ []<><<\E e \in serving : Dispatch(e)>>_vars
    /\ []<>~CanRead("ADD") \/ []<><<DeployAddRoutine>>_vars
    /\ []<>~CanRead("UPDATE") \/ []<><<DeployUpdateRoutine>>_vars
    /\ []<>~CanRead("DELETE") \/ []<><<DeployDeleteRoutine>>_vars

(***************************************************************************)
(* The step of EventsSettle, for any number of objects and events: if an   *)
(* event of an object is on its way and n steps are ahead, then in the end *)
(* the object's events are settled or fewer than n are ahead.  As n cannot *)
(* fall for ever, they settle.                                             *)
(***************************************************************************)
THEOREM EventsComeCloser ==
  ASSUME IsFiniteSet(Objects), NEW o \in Objects, NEW n \in Nat
  PROVE  Init /\ [][Next]_vars /\ Fairness =>
            ((~Settled(o) /\ Cardinality(ToCome) = n)
                ~> (Settled(o) \/ Cardinality(ToCome) < n))
<1> DEFINE Inv == Flow /\ Attended
           As == Cardinality(ToCome) = n
           Less == Cardinality(ToCome) < n
<1>1. Init => Inv
  <2> SUFFICES ASSUME Init PROVE Inv OBVIOUS
  <2> QED BY FlowInit DEF Init, Attended
<1>2. Inv /\ [Next]_vars => Inv' BY FlowNext, AttendedSteps
<1>3. Inv /\ [Next]_vars /\ As => As' \/ Less' BY Measure
<1>4. Inv /\ [Next]_vars /\ As /\ Moves => Less' BY Measure
<1>5. Inv /\ Inv' /\ [Next]_vars /\ As /\ As' =>
         /\ CanTake => CanTake'
         /\ CanCall => CanCall'
         /\ CanDispatch => CanDispatch'
         /\ CanRead("ADD") => CanRead("ADD")'
         /\ CanRead("UPDATE") => CanRead("UPDATE")'
         /\ CanRead("DELETE") => CanRead("DELETE")'
  BY Measure, GuardsStay DEF Actions
<1>6. Inv => Settled(o) \/ CanTake \/ CanCall \/ CanDispatch
                \/ CanRead("ADD") \/ CanRead("UPDATE") \/ CanRead("DELETE")
  BY SomethingCan DEF Actions
<1>7. /\ <<\E e \in waiting : Take(e)>>_vars => Moves
      /\ <<CallArrives \/ CallFails>>_vars => Moves
      /\ <<\E e \in serving : Dispatch(e)>>_vars => Moves
      /\ <<DeployAddRoutine>>_vars => Moves
      /\ <<DeployUpdateRoutine>>_vars => Moves
      /\ <<DeployDeleteRoutine>>_vars => Moves
  BY DEF Moves
<1> HIDE DEF Inv, As, Less
<1>8. Init /\ [][Next]_vars /\ Fairness => ((~Settled(o) /\ As) ~> (Settled(o) \/ Less))
  BY <1>1, <1>2, <1>3, <1>4, <1>5, <1>6, <1>7, PTL DEF Fairness
<1> QED BY <1>8 DEF As, Less
=============================================================================
