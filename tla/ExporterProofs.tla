---------------------------- MODULE ExporterProofs ----------------------------
(***************************************************************************)
(* Theorems about the manager's exporter, for any kinds, workers, events   *)
(* and clients: no client misses an event or gets one twice, whatever      *)
(* other clients do, and the exporter implements the broadcast logs of the *)
(* module Broadcast.  At the end, why an Insert call returns, and what one *)
(* client that does not read does to the others.                           *)
(***************************************************************************)
EXTENDS Exporter, TLAPS, SequenceTheorems, FiniteSetTheorems

USE ExporterAssumption

-----------------------------------------------------------------------------
\* The inductive invariant.

Held(w) == worker[w].pc # "select"
KindOf(w) == ItemKind[worker[w].item]

\* A worker works on items of its own kinds.
OwnKinds == \A w \in Workers : Held(w) => WorkerOf[KindOf(w)] = w

\* A list holds the streams of its kind.
Listed == \A k \in Kinds : \A s \in exporters[k] : SubKind[s] = k /\ stream[s] # "none"

\* A worker that sends splits its list, and its item is the last of its log.
Loop ==
    \A w \in Workers : Sending(w) =>
        /\ worker[w].todo \cap worker[w].newList = {}
        /\ worker[w].todo \cup worker[w].newList \subseteq exporters[KindOf(w)]
        /\ Len(dispatched[KindOf(w)]) > 0
        /\ dispatched[KindOf(w)][Len(dispatched[KindOf(w)])] = worker[w].item

\* How far a client is, and what it has.
Behind(s) == IF InFlight(s) THEN 1 ELSE 0
Prefix(s) ==
    /\ Len(received[s]) + since[s] + Behind(s) = Len(dispatched[SubKind[s]])
    /\ \A n \in 1..Len(received[s]) : received[s][n] = dispatched[SubKind[s]][since[s] + n]
Reads ==
    \A s \in Subs :
        /\ stream[s] = "none" => received[s] = <<>>
        /\ Live(s) => Prefix(s)

\* An item waits, is held or has been dispatched, one after the other.
Once ==
    /\ \A w \in Workers : Held(w) => worker[w].item \in inserted \ pending
    /\ \A w \in Workers : worker[w].pc = "lock" => ~Feed!Published(worker[w].item)
    /\ \A i \in Items : Feed!Published(i) => i \in inserted \ pending

IInv == TypeOK /\ LockHeld /\ OwnKinds /\ Listed /\ Loop /\ StaysListed /\ Reads /\ Once

-----------------------------------------------------------------------------
\* What a worker's state is made of.
LEMMA WorkerFields ==
  ASSUME TypeOK, NEW w \in Workers
  PROVE  /\ worker[w].pc \in {"select", "lock", "send"}
         /\ Held(w) => worker[w].item \in Items /\ KindOf(w) \in Kinds
         /\ Sending(w) => worker[w] \in [pc : {"send"}, item : Items,
                                        todo : SUBSET Subs, newList : SUBSET Subs]
BY DEF TypeOK, WorkerStates, Held, KindOf, Sending

\* A stream moves from what is left of the list to the new one.
LEMMA SplitStep ==
  ASSUME NEW s \in Subs,
         NEW r \in [pc : {"send"}, item : Items, todo : SUBSET Subs, newList : SUBSET Subs]
  PROVE  [r EXCEPT !.todo = @ \ {s}, !.newList = @ \cup {s}]
            \in [pc : {"send"}, item : Items, todo : SUBSET Subs, newList : SUBSET Subs]
OBVIOUS

\* exporterLock is free between two events: no stream has an item on its way.
LEMMA FreeMeansIdle ==
  ASSUME LockHeld, lock = Free
  PROVE  /\ \A w \in Workers : ~Sending(w)
         /\ \A s \in Subs : ~InFlight(s)
BY DEF LockHeld, InFlight

-----------------------------------------------------------------------------
\* One lemma per action: it preserves the invariant.

\* At the beginning nothing is listed or dispatched.
LEMMA InitIInv == Init => IInv
<1> SUFFICES ASSUME Init PROVE IInv OBVIOUS
<1> USE DEF Init
<1>1. TypeOK BY DEF TypeOK, WorkerStates
<1>2. LockHeld BY DEF LockHeld, Sending
<1>3. OwnKinds BY DEF OwnKinds, Held
<1>4. Listed BY DEF Listed
<1>5. Loop BY DEF Loop, Sending
<1>6. StaysListed BY DEF StaysListed, Live
<1>7. Reads BY DEF Reads, Live
<1>8. \A i \in Items : ~Feed!Published(i) BY DEF Feed!Published
<1>9. Once BY <1>8 DEF Once, Held
<1> QED BY <1>1, <1>2, <1>3, <1>4, <1>5, <1>6, <1>7, <1>9 DEF IInv

\* A new item waits.
LEMMA InsertKeepsIInv ==
  ASSUME IInv, NEW i \in Items, Insert(i)
  PROVE  IInv'
<1> USE DEF IInv, Insert
<1>1. TypeOK' BY DEF TypeOK, WorkerStates
<1>2. LockHeld' BY DEF LockHeld, Sending, TypeOK
<1>3. OwnKinds' BY DEF OwnKinds, Held, KindOf, TypeOK
<1>4. Listed' BY DEF Listed, TypeOK
<1>5. Loop' BY DEF Loop, Sending, KindOf, TypeOK
<1>6. StaysListed' BY DEF StaysListed, Live, Sending, TypeOK
<1>7. Reads' BY DEF Reads, Prefix, Behind, Live, InFlight, Sending, TypeOK
<1>8. Once' BY DEF Once, Held, Feed!Published, TypeOK
<1> QED BY <1>1, <1>2, <1>3, <1>4, <1>5, <1>6, <1>7, <1>8

\* A worker takes an item.
LEMMA ReceiveKeepsIInv ==
  ASSUME IInv, NEW w \in Workers, NEW i \in Items, Receive(w, i)
  PROVE  IInv'
<1> USE DEF IInv, Receive
<1>1. TypeOK' BY DEF TypeOK, WorkerStates
<1>2. LockHeld' BY DEF LockHeld, Sending, TypeOK
<1>3. OwnKinds' BY DEF OwnKinds, Held, KindOf, TypeOK
<1>4. Listed' BY DEF Listed, TypeOK
<1>5. Loop' BY DEF Loop, Sending, KindOf, TypeOK
<1>6. StaysListed' BY DEF StaysListed, Live, Sending, TypeOK
<1>7. Reads' BY DEF Reads, Prefix, Behind, Live, InFlight, Sending, TypeOK
<1>8. Once' BY DEF Once, Held, Feed!Published, TypeOK
<1> QED BY <1>1, <1>2, <1>3, <1>4, <1>5, <1>6, <1>7, <1>8

\* The item enters the log, and all streams of its list are behind by it.
LEMMA AcquireKeepsIInv ==
  ASSUME IInv, NEW w \in Workers, Acquire(w)
  PROVE  IInv'
<1> USE DEF IInv, Acquire
<1>0. /\ worker[w].item \in Items /\ KindOf(w) \in Kinds
      /\ dispatched[KindOf(w)] \in Seq(Items)
      /\ worker' = [worker EXCEPT ![w] = [pc |-> "send", item |-> worker[w].item,
                                          todo |-> exporters[KindOf(w)], newList |-> {}]]
      /\ dispatched' = [dispatched EXCEPT ![KindOf(w)] = Append(@, worker[w].item)]
  BY WorkerFields DEF Held, KindOf, TypeOK
<1>1. TypeOK'
  <2>1. worker'[w] \in WorkerStates BY <1>0 DEF TypeOK, WorkerStates
  <2>2. worker' \in [Workers -> WorkerStates] BY <2>1, <1>0 DEF TypeOK
  <2>3. dispatched' \in [Kinds -> Seq(Items)] BY <1>0 DEF TypeOK
  <2>4. ASSUME NEW k \in Kinds, NEW n \in DOMAIN dispatched'[k]
        PROVE  ItemKind[dispatched'[k][n]] = k
    <3>1. CASE k # KindOf(w) BY <1>0, <2>4, <3>1 DEF TypeOK
    <3>2. CASE k = KindOf(w)
      <4>1. dispatched'[k] = Append(dispatched[k], worker[w].item) BY <1>0, <3>2 DEF TypeOK
      <4>2. n \in 1..Len(dispatched[k]) + 1 BY <1>0, <2>4, <3>2, <4>1
      <4>3. CASE n = Len(dispatched[k]) + 1
        <5>1. dispatched'[k][n] = worker[w].item BY <1>0, <3>2, <4>1, <4>3, AppendProperties
        <5> QED BY <3>2, <5>1 DEF KindOf
      <4>4. CASE n # Len(dispatched[k]) + 1
        <5>1. n \in DOMAIN dispatched[k] BY <1>0, <3>2, <4>2, <4>4
        <5>2. dispatched'[k][n] = dispatched[k][n] BY <1>0, <3>2, <4>1, <5>1
        <5> QED BY <5>1, <5>2 DEF TypeOK
      <4> QED BY <4>3, <4>4
    <3> QED BY <3>1, <3>2
  <2> QED BY <2>2, <2>3, <2>4 DEF TypeOK
<1>a. \A v \in Workers : Sending(v)' <=> v = w
  BY FreeMeansIdle, <1>0 DEF Sending, TypeOK
<1>2. LockHeld' BY DEF LockHeld, Sending, TypeOK
<1>3. OwnKinds' BY DEF OwnKinds, Held, KindOf, TypeOK
<1>4. Listed' BY DEF Listed, TypeOK
<1>5. Loop'
  <2>1. /\ worker'[w].todo = exporters[KindOf(w)] /\ worker'[w].newList = {}
        /\ worker'[w].item = worker[w].item /\ KindOf(w)' = KindOf(w)
    BY <1>0 DEF KindOf, TypeOK
  <2>2. dispatched'[KindOf(w)] = Append(dispatched[KindOf(w)], worker[w].item)
    BY <1>0 DEF TypeOK
  <2>3. /\ Len(dispatched'[KindOf(w)]) > 0
        /\ dispatched'[KindOf(w)][Len(dispatched'[KindOf(w)])] = worker[w].item
    BY <1>0, <2>2, AppendProperties
  <2> QED BY <1>a, <2>1, <2>3 DEF Loop
<1>6. StaysListed' BY DEF StaysListed, Live, Sending, TypeOK
<1>7. Reads'
  <2> SUFFICES ASSUME NEW s \in Subs, Live(s) PROVE Prefix(s)'
    BY DEF Reads, Live
  <2> DEFINE all == dispatched[SubKind[s]]
  <2>1. /\ Len(received[s]) + since[s] = Len(all)
        /\ \A n \in 1..Len(received[s]) : received[s][n] = all[since[s] + n]
    BY FreeMeansIdle DEF Reads, Prefix, Behind, TypeOK
  <2>2. /\ Len(received[s]) \in Nat /\ since[s] \in Nat
        /\ SubKind[s] \in Kinds /\ all \in Seq(Items) /\ Len(all) \in Nat
    BY DEF TypeOK
  <2>3. InFlight(s)' <=> s \in exporters[KindOf(w)]
    BY <1>0, <1>a DEF InFlight, TypeOK
  <2>4. CASE SubKind[s] = KindOf(w)
    <3>1. Behind(s)' = 1 BY <2>3, <2>4 DEF StaysListed, Behind
    <3>2. dispatched'[SubKind[s]] = Append(all, worker[w].item) BY <1>0, <2>2, <2>4 DEF TypeOK
    <3>3. /\ Len(dispatched'[SubKind[s]]) = Len(all) + 1
          /\ \A n \in 1..Len(all) : dispatched'[SubKind[s]][n] = all[n]
      BY <1>0, <2>2, <3>2, AppendProperties
    <3>4. \A n \in 1..Len(received[s]) : since[s] + n \in 1..Len(all)
      BY <2>1, <2>2
    <3>5. Len(received[s]) + since[s] + Behind(s)' = Len(dispatched'[SubKind[s]])
      BY <2>1, <2>2, <3>1, <3>3
    <3>6. \A n \in 1..Len(received[s]) : received[s][n] = dispatched'[SubKind[s]][since[s] + n]
      BY <2>1, <3>3, <3>4
    <3> QED BY <3>5, <3>6 DEF Prefix
  <2>5. CASE SubKind[s] # KindOf(w)
    <3>1. Behind(s)' = 0 BY <1>0, <2>3, <2>5 DEF Listed, Behind
    <3>2. dispatched'[SubKind[s]] = all BY <1>0, <2>2, <2>5 DEF TypeOK
    <3>3. Len(received[s]) + since[s] + Behind(s)' = Len(all) BY <2>1, <2>2, <3>1
    <3> QED BY <2>1, <3>2, <3>3 DEF Prefix
  <2> QED BY <2>4, <2>5
<1>8. Once'
  <2>1. \A v \in Workers : Held(v)' => Held(v) /\ worker'[v].item = worker[v].item
    BY <1>0 DEF Held, TypeOK
  <2>2. \A i \in Items : Feed!Published(i)' => Feed!Published(i) \/ i = worker[w].item
    <3> SUFFICES ASSUME NEW i \in Items, Feed!Published(i)', i # worker[w].item
                 PROVE  Feed!Published(i)
      OBVIOUS
    <3>1. ItemKind[i] \in Kinds /\ dispatched[ItemKind[i]] \in Seq(Items) BY DEF TypeOK
    <3>2. PICK n \in DOMAIN dispatched'[ItemKind[i]] : dispatched'[ItemKind[i]][n] = i
      BY DEF Feed!Published
    <3>3. CASE ItemKind[i] # KindOf(w)
      BY <1>0, <3>1, <3>2, <3>3 DEF Feed!Published, TypeOK
    <3>4. CASE ItemKind[i] = KindOf(w)
      <4>1. dispatched'[ItemKind[i]] = Append(dispatched[ItemKind[i]], worker[w].item)
        BY <1>0, <3>1, <3>4 DEF TypeOK
      <4>2. n \in 1..Len(dispatched[ItemKind[i]])
        BY <1>0, <3>1, <3>2, <4>1
      <4>3. dispatched[ItemKind[i]][n] = i
        BY <1>0, <3>1, <3>2, <4>1, <4>2
      <4> QED BY <3>1, <4>2, <4>3 DEF Feed!Published
    <3> QED BY <3>3, <3>4
  <2>3. ASSUME NEW v \in Workers, worker'[v].pc = "lock"
        PROVE  ~Feed!Published(worker[v].item)'
    <3>1. v # w /\ worker[v].pc = "lock" /\ worker'[v].item = worker[v].item
      BY <1>0, <2>3 DEF TypeOK
    <3>2. worker[v].item # worker[w].item BY <3>1 DEF OwnKinds, Held, KindOf
    <3>3. worker[v].item \in Items BY <3>1, WorkerFields DEF Held
    <3> QED BY <2>2, <3>1, <3>2, <3>3 DEF Once
  <2> QED BY <2>1, <2>2, <2>3 DEF Once, Held
<1> QED BY <1>1, <1>2, <1>3, <1>4, <1>5, <1>6, <1>7, <1>8

\* A stream catches up.
LEMMA SendKeepsIInv ==
  ASSUME IInv, NEW w \in Workers, NEW s \in Subs, Send(w, s)
  PROVE  IInv'
<1> USE DEF IInv, Send
<1>0. /\ worker[w] \in [pc : {"send"}, item : Items, todo : SUBSET Subs, newList : SUBSET Subs]
      /\ worker' = [worker EXCEPT ![w] = [worker[w] EXCEPT !.todo = @ \ {s},
                                                           !.newList = @ \cup {s}]]
  BY WorkerFields
<1>1. TypeOK'
  <2>0. worker'[w] = [worker[w] EXCEPT !.todo = @ \ {s}, !.newList = @ \cup {s}]
    BY <1>0 DEF TypeOK
  <2>1. worker'[w] \in [pc : {"send"}, item : Items, todo : SUBSET Subs, newList : SUBSET Subs]
    BY <1>0, <2>0, SplitStep
  <2>2. worker' \in [Workers -> WorkerStates] BY <2>1, <1>0 DEF TypeOK, WorkerStates
  <2>3. received' \in [Subs -> Seq(Items)] BY <1>0 DEF TypeOK
  <2> QED BY <2>2, <2>3 DEF TypeOK
<1>a. \A v \in Workers : Sending(v) <=> v = w
  BY DEF LockHeld
<1>b. /\ worker'[w].todo = worker[w].todo \ {s}
      /\ \A v \in Workers : Sending(v)' <=> v = w
  BY <1>0, <1>a DEF Sending, TypeOK
<1>2. LockHeld' BY DEF LockHeld, Sending, TypeOK
<1>3. OwnKinds' BY DEF OwnKinds, Held, KindOf, TypeOK
<1>4. Listed' BY DEF Listed, TypeOK
<1>5. Loop' BY DEF Loop, Sending, KindOf, TypeOK
<1>6. StaysListed' BY DEF StaysListed, Live, Sending, TypeOK
<1>7. Reads'
  <2>1. ASSUME NEW t \in Subs PROVE InFlight(t)' <=> t \in worker[w].todo \ {s}
    BY <1>b DEF InFlight
  <2>2. ASSUME NEW t \in Subs PROVE InFlight(t) <=> t \in worker[w].todo
    BY <1>a DEF InFlight
  <2>3. ASSUME NEW t \in Subs \ {s}, Live(t) PROVE Prefix(t)'
    <3>1. Behind(t)' = Behind(t) BY <2>1, <2>2 DEF Behind
    <3>2. received'[t] = received[t] BY DEF TypeOK
    <3> QED BY <2>3, <3>1, <3>2 DEF Reads, Prefix
  <2>4. Prefix(s)'
    <3> DEFINE all == dispatched[SubKind[s]]
    <3>1. Prefix(s) /\ Behind(s) = 1 BY <2>2 DEF Reads, Live, Behind
    <3>2. Behind(s)' = 0 BY <2>1 DEF Behind
    <3>3. SubKind[s] = KindOf(w) BY <1>a, WorkerFields DEF Loop, Listed, Held, Sending
    <3>4. all[Len(all)] = worker[w].item BY <1>a, <3>3 DEF Loop
    <3>5. received'[s] = Append(received[s], worker[w].item) BY DEF TypeOK
    <3>6. /\ received[s] \in Seq(Items) /\ Len(received[s]) \in Nat /\ since[s] \in Nat
          /\ Len(all) \in Nat /\ worker[w].item \in Items
      BY <1>0 DEF TypeOK
    <3>7. /\ Len(received'[s]) = Len(received[s]) + 1
          /\ \A n \in 1..Len(received[s]) : received'[s][n] = received[s][n]
          /\ received'[s][Len(received[s]) + 1] = worker[w].item
      BY <3>5, <3>6, AppendProperties
    <3>8. since[s] + Len(received[s]) + 1 = Len(all) BY <3>1, <3>6 DEF Prefix
    <3>9. \A n \in 1..Len(received'[s]) : received'[s][n] = all[since[s] + n]
      <4> TAKE n \in 1..Len(received'[s])
      <4>1. CASE n = Len(received[s]) + 1
        <5>1. since[s] + (Len(received[s]) + 1) = Len(all)
          <6> HIDE DEF all
          <6> QED BY <3>6, <3>8
        <5> QED BY <3>4, <3>7, <4>1, <5>1
      <4>2. CASE n # Len(received[s]) + 1
        <5>1. n \in 1..Len(received[s]) BY <3>6, <3>7, <4>2
        <5> QED BY <3>1, <3>7, <5>1 DEF Prefix
      <4> QED BY <4>1, <4>2
    <3>10. Len(received'[s]) + since[s] + Behind(s)' = Len(all)
      BY <3>2, <3>6, <3>7, <3>8
    <3> QED BY <3>9, <3>10 DEF Prefix
  <2> QED BY <2>3, <2>4 DEF Reads, Live, TypeOK
<1>8. Once' BY DEF Once, Held, Feed!Published, TypeOK
<1> QED BY <1>1, <1>2, <1>3, <1>4, <1>5, <1>6, <1>7, <1>8

\* A stream that is gone is left out or kept.
LEMMA SendToGoneKeepsIInv ==
  ASSUME IInv, NEW w \in Workers, NEW s \in Subs, SendToGone(w, s)
  PROVE  IInv'
<1> USE DEF IInv, SendToGone
<1>0. PICK kept \in {{}, {s}} :
        worker' = [worker EXCEPT ![w] = [worker[w] EXCEPT !.todo = @ \ {s},
                                                          !.newList = @ \cup kept]]
  OBVIOUS
<1>c. worker[w] \in [pc : {"send"}, item : Items, todo : SUBSET Subs, newList : SUBSET Subs]
  BY WorkerFields
<1>1. TypeOK'
  <2>1. worker'[w] \in [pc : {"send"}, item : Items, todo : SUBSET Subs, newList : SUBSET Subs]
    BY <1>0, <1>c DEF TypeOK
  <2>2. worker' \in [Workers -> WorkerStates] BY <2>1, <1>0 DEF TypeOK, WorkerStates
  <2> QED BY <2>2 DEF TypeOK
<1>a. \A v \in Workers : Sending(v) <=> v = w
  BY DEF LockHeld
<1>b. /\ worker'[w].todo = worker[w].todo \ {s}
      /\ \A v \in Workers : Sending(v)' <=> v = w
  BY <1>0, <1>c, <1>a DEF Sending, TypeOK
<1>2. LockHeld' BY DEF LockHeld, Sending, TypeOK
<1>3. OwnKinds' BY DEF OwnKinds, Held, KindOf, TypeOK
<1>4. Listed' BY DEF Listed, TypeOK
<1>5. Loop' BY DEF Loop, Sending, KindOf, TypeOK
<1>6. StaysListed' BY DEF StaysListed, Live, Sending, TypeOK
<1>7. Reads'
  <2>1. ASSUME NEW t \in Subs, Live(t) PROVE Prefix(t)'
    <3>1. t # s BY <2>1 DEF Live
    <3>2. InFlight(t)' <=> t \in worker[w].todo \ {s} BY <1>b DEF InFlight
    <3>3. InFlight(t) <=> t \in worker[w].todo BY <1>a DEF InFlight
    <3>4. Behind(t)' = Behind(t) BY <3>1, <3>2, <3>3 DEF Behind
    <3> QED BY <2>1, <3>4 DEF Reads, Prefix
  <2> QED BY <2>1 DEF Reads, Live
<1>8. Once' BY DEF Once, Held, Feed!Published, TypeOK
<1> QED BY <1>1, <1>2, <1>3, <1>4, <1>5, <1>6, <1>7, <1>8

\* The list is replaced.
LEMMA FinishKeepsIInv ==
  ASSUME IInv, NEW w \in Workers, Finish(w)
  PROVE  IInv'
<1> USE DEF IInv, Finish
<1>0. worker[w] \in [pc : {"send"}, item : Items, todo : SUBSET Subs, newList : SUBSET Subs]
  BY WorkerFields
<1>1. TypeOK'
  <2>1. worker' \in [Workers -> WorkerStates] BY DEF TypeOK, WorkerStates
  <2>2. exporters' \in [Kinds -> SUBSET Subs] BY <1>0 DEF TypeOK
  <2> QED BY <2>1, <2>2 DEF TypeOK
<1>a. \A v \in Workers : Sending(v) <=> v = w
  BY DEF LockHeld
<1>b. \A v \in Workers : ~Sending(v)'
  BY <1>a DEF Sending, TypeOK
<1>2. LockHeld' BY DEF LockHeld, Sending, TypeOK
<1>3. OwnKinds' BY DEF OwnKinds, Held, KindOf, TypeOK
<1>4. Listed'
  <2>1. worker[w].newList \subseteq exporters[KindOf(w)] BY <1>a DEF Loop
  <2> QED BY <2>1 DEF Listed, KindOf, TypeOK
<1>5. Loop' BY <1>b DEF Loop
<1>6. StaysListed'
  <2> SUFFICES ASSUME NEW s \in Subs, Live(s) PROVE s \in exporters'[SubKind[s]]
    BY <1>b DEF StaysListed, Live
  <2>1. CASE SubKind[s] = KindOf(w)
    BY <1>a, <2>1 DEF StaysListed, KindOf, TypeOK
  <2>2. CASE SubKind[s] # KindOf(w)
    BY <2>2 DEF StaysListed, KindOf, TypeOK
  <2> QED BY <2>1, <2>2
<1>7. Reads'
  <2>1. ASSUME NEW s \in Subs PROVE Behind(s)' = Behind(s)
    BY <1>a, <1>b DEF Behind, InFlight
  <2> QED BY <2>1 DEF Reads, Prefix, Live
<1>8. Once' BY DEF Once, Held, Feed!Published, TypeOK
<1> QED BY <1>1, <1>2, <1>3, <1>4, <1>5, <1>6, <1>7, <1>8

\* A stream joins at the end of its log.
LEMMA SubscribeKeepsIInv ==
  ASSUME IInv, NEW s \in Subs, Subscribe(s)
  PROVE  IInv'
<1> USE DEF IInv, Subscribe
<1>a. (\A w \in Workers : ~Sending(w)) /\ (\A t \in Subs : ~InFlight(t))
  BY FreeMeansIdle
<1>1. TypeOK' BY DEF TypeOK, WorkerStates
<1>2. LockHeld' BY DEF LockHeld, Sending, TypeOK
<1>3. OwnKinds' BY DEF OwnKinds, Held, KindOf, TypeOK
<1>4. Listed'
  <2>1. ASSUME NEW k \in Kinds, NEW t \in exporters'[k]
        PROVE  t \in exporters[k] \/ (t = s /\ k = SubKind[s])
    BY DEF TypeOK
  <2> QED BY <2>1 DEF Listed, TypeOK
<1>5. Loop' BY <1>a DEF Loop, Sending
<1>6. StaysListed'
  <2> SUFFICES ASSUME NEW t \in Subs, Live(t)' PROVE t \in exporters'[SubKind[t]]
    BY <1>a DEF StaysListed, Sending
  <2>1. CASE t = s BY <2>1 DEF TypeOK
  <2>2. CASE t # s BY <2>2 DEF StaysListed, Live, TypeOK
  <2> QED BY <2>1, <2>2
<1>7. Reads'
  <2>1. \A t \in Subs : Behind(t) = 0 /\ Behind(t)' = 0
    BY <1>a DEF Behind, InFlight, Sending
  <2>2. ASSUME NEW t \in Subs \ {s} PROVE stream'[t] = stream[t] /\ since'[t] = since[t]
    BY DEF TypeOK
  <2>3. ASSUME NEW t \in Subs \ {s}, Live(t) PROVE Prefix(t)'
    BY <2>1, <2>2, <2>3 DEF Reads, Prefix
  <2>4. Prefix(s)'
    <3>1. received[s] = <<>> BY DEF Reads
    <3>2. since'[s] = Len(dispatched[SubKind[s]]) /\ Len(dispatched[SubKind[s]]) \in Nat
      BY DEF TypeOK
    <3> QED BY <2>1, <3>1, <3>2 DEF Prefix
  <2> QED BY <2>2, <2>3, <2>4 DEF Reads, Live, TypeOK
<1>8. Once' BY DEF Once, Held, Feed!Published, TypeOK
<1> QED BY <1>1, <1>2, <1>3, <1>4, <1>5, <1>6, <1>7, <1>8

\* The client stops reading.
LEMMA StallKeepsIInv ==
  ASSUME IInv, NEW s \in Subs, Stall(s)
  PROVE  IInv'
<1> USE DEF IInv, Stall
<1>1. TypeOK' BY DEF TypeOK, WorkerStates
<1>2. LockHeld' BY DEF LockHeld, Sending, TypeOK
<1>3. OwnKinds' BY DEF OwnKinds, Held, KindOf, TypeOK
<1>4. Listed' BY DEF Listed, TypeOK
<1>5. Loop' BY DEF Loop, Sending, KindOf, TypeOK
<1>6. StaysListed' BY DEF StaysListed, Live, Sending, TypeOK
<1>7. Reads' BY DEF Reads, Prefix, Behind, Live, InFlight, Sending, TypeOK
<1>8. Once' BY DEF Once, Held, Feed!Published, TypeOK
<1> QED BY <1>1, <1>2, <1>3, <1>4, <1>5, <1>6, <1>7, <1>8

\* It reads again.
LEMMA ResumeKeepsIInv ==
  ASSUME IInv, NEW s \in Subs, Resume(s)
  PROVE  IInv'
<1> USE DEF IInv, Resume
<1>1. TypeOK' BY DEF TypeOK, WorkerStates
<1>2. LockHeld' BY DEF LockHeld, Sending, TypeOK
<1>3. OwnKinds' BY DEF OwnKinds, Held, KindOf, TypeOK
<1>4. Listed' BY DEF Listed, TypeOK
<1>5. Loop' BY DEF Loop, Sending, KindOf, TypeOK
<1>6. StaysListed' BY DEF StaysListed, Live, Sending, TypeOK
<1>7. Reads' BY DEF Reads, Prefix, Behind, Live, InFlight, Sending, TypeOK
<1>8. Once' BY DEF Once, Held, Feed!Published, TypeOK
<1> QED BY <1>1, <1>2, <1>3, <1>4, <1>5, <1>6, <1>7, <1>8

\* It goes away.
LEMMA DisconnectKeepsIInv ==
  ASSUME IInv, NEW s \in Subs, Disconnect(s)
  PROVE  IInv'
<1> USE DEF IInv, Disconnect
<1>1. TypeOK' BY DEF TypeOK, WorkerStates
<1>2. LockHeld' BY DEF LockHeld, Sending, TypeOK
<1>3. OwnKinds' BY DEF OwnKinds, Held, KindOf, TypeOK
<1>4. Listed' BY DEF Listed, TypeOK
<1>5. Loop' BY DEF Loop, Sending, KindOf, TypeOK
<1>6. StaysListed' BY DEF StaysListed, Live, Sending, TypeOK
<1>7. Reads' BY DEF Reads, Prefix, Behind, Live, InFlight, Sending, TypeOK
<1>8. Once' BY DEF Once, Held, Feed!Published, TypeOK
<1> QED BY <1>1, <1>2, <1>3, <1>4, <1>5, <1>6, <1>7, <1>8

-----------------------------------------------------------------------------
\* The theorems.

LEMMA NextKeepsIInv == IInv /\ [Next]_vars => IInv'
<1> SUFFICES ASSUME IInv, [Next]_vars PROVE IInv' OBVIOUS
<1>1. ASSUME NEW i \in Items, Insert(i) PROVE IInv'
  BY <1>1, InsertKeepsIInv
<1>2. ASSUME NEW w \in Workers, WorkerStep(w) PROVE IInv'
  BY <1>2, ReceiveKeepsIInv, AcquireKeepsIInv, SendKeepsIInv, SendToGoneKeepsIInv,
     FinishKeepsIInv DEF WorkerStep
<1>3. ASSUME NEW s \in Subs, Client(s) PROVE IInv'
  BY <1>3, SubscribeKeepsIInv, StallKeepsIInv, ResumeKeepsIInv, DisconnectKeepsIInv DEF Client
<1>4. CASE UNCHANGED vars
  BY <1>4 DEF vars, IInv, TypeOK, LockHeld, OwnKinds, Listed, Loop, StaysListed, Reads, Once,
     Prefix, Behind, InFlight, Sending, Held, KindOf, Live, Feed!Published
<1> QED BY <1>1, <1>2, <1>3, <1>4 DEF Next

(***************************************************************************)
(* The invariant holds in every state, with any clients and any events.    *)
(***************************************************************************)
THEOREM ExporterInvariant == Spec => []IInv
<1> QED BY InitIInv, NextKeepsIInv, PTL DEF Spec

(***************************************************************************)
(* Every variable of the exporter keeps its type.                          *)
(***************************************************************************)
THEOREM ExporterTypeCorrect == Spec => []TypeOK
<1>1. IInv => TypeOK BY DEF IInv
<1> QED BY <1>1, ExporterInvariant, PTL

(***************************************************************************)
(* One worker at a time rebuilds a list: the one that holds exporterLock.  *)
(***************************************************************************)
THEOREM LockExclusive == Spec => []LockHeld
<1>1. IInv => LockHeld BY DEF IInv
<1> QED BY <1>1, ExporterInvariant, PTL

(***************************************************************************)
(* No Send function loses a subscription: a live stream stays listed.      *)
(***************************************************************************)
THEOREM NoStreamLost == Spec => []StaysListed
<1>1. IInv => StaysListed BY DEF IInv
<1> QED BY <1>1, ExporterInvariant, PTL

\* A prefix of a log from a position on, as a subsequence.
LEMMA PrefixIsSubSeq ==
  ASSUME NEW S, NEW log \in Seq(S), NEW got \in Seq(S), NEW from \in Nat, NEW to \in Nat,
         to <= Len(log), Len(got) + from = to,
         \A n \in 1..Len(got) : got[n] = log[from + n]
  PROVE  got = SubSeq(log, from + 1, to)
<1>1. \A i \in from + 1 .. to : log[i] \in S
  OBVIOUS
<1> DEFINE cut == SubSeq(log, from + 1, to)
<1>2. /\ cut \in Seq(S)
      /\ Len(cut) = IF from + 1 <= to THEN to - (from + 1) + 1 ELSE 0
      /\ \A i \in 1 .. to - (from + 1) + 1 : cut[i] = log[(from + 1) + i - 1]
  BY <1>1, SubSeqProperties
<1> HIDE DEF cut
<1>3. Len(got) \in Nat OBVIOUS
<1>4. Len(cut) = Len(got) BY <1>2, <1>3
<1>5. \A i \in 1..Len(got) : got[i] = cut[i]
  <2> TAKE i \in 1..Len(got)
  <2>1. i \in 1 .. to - (from + 1) + 1 /\ (from + 1) + i - 1 = from + i BY <1>3
  <2> QED BY <1>2, <2>1
<1>6. got = cut BY <1>2, <1>4, <1>5, SeqEqual
<1> QED BY <1>6 DEF cut

(***************************************************************************)
(* Every client of a live stream has received exactly what was dispatched  *)
(* since its subscription, in order, but for the one item on its way.      *)
(***************************************************************************)
THEOREM DeliveredInOrder == Spec => []Delivery
<1>1. ASSUME IInv PROVE Delivery
  <2> SUFFICES ASSUME NEW s \in Subs, Live(s)
               PROVE  received[s] = SubSeq(dispatched[SubKind[s]], since[s] + 1,
                                           IF InFlight(s) THEN Len(dispatched[SubKind[s]]) - 1
                                           ELSE Len(dispatched[SubKind[s]]))
    BY DEF Delivery
  <2> DEFINE all == dispatched[SubKind[s]]
             to == IF InFlight(s) THEN Len(all) - 1 ELSE Len(all)
  <2>1. /\ all \in Seq(Items) /\ received[s] \in Seq(Items) /\ since[s] \in Nat
        /\ Len(all) \in Nat /\ Len(received[s]) \in Nat
    BY <1>1 DEF IInv, TypeOK
  <2>2. Prefix(s) BY <1>1 DEF IInv, Reads
  <2>3. Len(received[s]) + since[s] + Behind(s) = Len(all) BY <2>2 DEF Prefix
  <2>4. to = Len(all) - Behind(s) BY <2>1 DEF Behind
  <2>5. Behind(s) \in {0, 1} BY DEF Behind
  <2>6. \A n \in 1..Len(received[s]) : received[s][n] = all[since[s] + n]
    BY <2>2 DEF Prefix
  <2> HIDE DEF all, to
  <2>7. to \in Nat /\ to <= Len(all) /\ Len(received[s]) + since[s] = to
    BY <2>1, <2>3, <2>4, <2>5
  <2>8. received[s] = SubSeq(all, since[s] + 1, to)
    BY <2>1, <2>6, <2>7, PrefixIsSubSeq
  <2> QED BY <2>8 DEF all, to
<1> QED BY <1>1, ExporterInvariant, PTL

-----------------------------------------------------------------------------
\* Every step is one of Broadcast, or changes nothing there.

LEMMA StepRefines == IInv /\ [Next]_vars => [Feed!Next]_(Feed!vars)
<1> SUFFICES ASSUME IInv, [Next]_vars PROVE [Feed!Next]_(Feed!vars) OBVIOUS
<1> DEFINE joined == {s \in Subs : stream[s] # "none"}
           left == {s \in Subs : stream[s] = "gone"}
           Same == UNCHANGED <<dispatched, stream, since, received>>
<1>1. Same => UNCHANGED Feed!vars BY DEF Feed!vars
<1>2. ASSUME NEW i \in Items, Insert(i) PROVE Same BY <1>2 DEF Insert
<1>3. ASSUME NEW w \in Workers, NEW i \in Items, Receive(w, i) PROVE Same
  BY <1>3 DEF Receive
<1>4. ASSUME NEW w \in Workers, NEW s \in Subs, SendToGone(w, s) PROVE Same
  BY <1>4 DEF SendToGone
<1>5. ASSUME NEW w \in Workers, Finish(w) PROVE Same BY <1>5 DEF Finish
<1>6. ASSUME NEW s \in Subs, Stall(s) \/ Resume(s) PROVE UNCHANGED Feed!vars
  <2>1. /\ {t \in Subs : stream'[t] # "none"} = joined
        /\ {t \in Subs : stream'[t] = "gone"} = left
    BY <1>6 DEF IInv, TypeOK, Stall, Resume
  <2> QED BY <1>6, <2>1 DEF Feed!vars, Stall, Resume
<1>7. ASSUME NEW w \in Workers, Acquire(w) PROVE Feed!Next
  <2>1. worker[w].item \in Items /\ ~Feed!Published(worker[w].item)
    BY <1>7, WorkerFields DEF IInv, Once, Held, Acquire
  <2>2. Feed!Publish(worker[w].item)
    BY <1>7, <2>1 DEF Feed!Publish, Acquire
  <2> QED BY <2>1, <2>2 DEF Feed!Next
<1>8. ASSUME NEW w \in Workers, NEW s \in Subs, Send(w, s) PROVE Feed!Next
  <2> DEFINE all == dispatched[SubKind[s]]
  <2>1. s \in joined \ left /\ Live(s) BY <1>8 DEF Send, Live
  <2>2. Prefix(s) /\ Behind(s) = 1
    BY <1>8, <2>1 DEF IInv, Reads, Behind, InFlight, Send
  <2>3. SubKind[s] = KindOf(w) /\ all[Len(all)] = worker[w].item
    BY <1>8, WorkerFields DEF IInv, Loop, Listed, Send, Sending, Held
  <2>4. /\ Len(received[s]) \in Nat /\ since[s] \in Nat /\ Len(all) \in Nat
    BY DEF IInv, TypeOK
  <2>5. since[s] + Len(received[s]) + 1 = Len(all)
    BY <2>2, <2>4 DEF Prefix
  <2>6. Feed!Position(s) = Len(all) BY <2>5 DEF Feed!Position
  <2>7. received' = [received EXCEPT ![s] = Append(@, all[Feed!Position(s)])]
    BY <1>8, <2>3, <2>6 DEF Send
  <2>8. Feed!Position(s) <= Len(all) BY <2>4, <2>6
  <2>9. Feed!Deliver(s)
    BY <1>8, <2>1, <2>7, <2>8 DEF Feed!Deliver, Send
  <2> QED BY <2>9 DEF Feed!Next
<1>9. ASSUME NEW s \in Subs, Subscribe(s) PROVE Feed!Next
  <2>1. /\ s \notin joined
        /\ {t \in Subs : stream'[t] # "none"} = joined \cup {s}
        /\ {t \in Subs : stream'[t] = "gone"} = left
    BY <1>9 DEF IInv, TypeOK, Subscribe
  <2>2. Feed!Join(s) BY <1>9, <2>1 DEF Feed!Join, Subscribe
  <2> QED BY <2>2 DEF Feed!Next
<1>10. ASSUME NEW s \in Subs, Disconnect(s) PROVE Feed!Next
  <2>1. /\ s \in joined \ left
        /\ {t \in Subs : stream'[t] # "none"} = joined
        /\ {t \in Subs : stream'[t] = "gone"} = left \cup {s}
    BY <1>10 DEF IInv, TypeOK, Disconnect, Live
  <2>2. Feed!Leave(s) BY <1>10, <2>1 DEF Feed!Leave, Disconnect
  <2> QED BY <2>2 DEF Feed!Next
<1>11. CASE UNCHANGED vars BY <1>1, <1>11 DEF vars
<1> QED
  BY <1>1, <1>2, <1>3, <1>4, <1>5, <1>6, <1>7, <1>8, <1>9, <1>10, <1>11
  DEF Next, WorkerStep, Client

(***************************************************************************)
(* The exporter implements the broadcast logs: every behaviour of its      *)
(* workers, lists and streams is one of logs that clients read from where  *)
(* they joined, without a gap or a repetition.                             *)
(***************************************************************************)
THEOREM ExporterImplementsBroadcast == Spec => Feed!SafeSpec
<1>1. Init => Feed!Init BY DEF Init, Feed!Init
<1> QED BY <1>1, StepRefines, ExporterInvariant, PTL DEF Spec, Feed!SafeSpec

-----------------------------------------------------------------------------
(***************************************************************************)
(* What is still ahead: each item is received, enters its log, is offered  *)
(* to each stream of the list and is finished with, each at most once.     *)
(***************************************************************************)
NotReceived == {i \in Items : i \notin inserted \ pending}
NotLogged == {i \in Items : ~Feed!Published(i)}
SentBy(w, i) == Sending(w) /\ worker[w].item = i
NotFinished == {i \in Items : ~Feed!Published(i) \/ \E w \in Workers : SentBy(w, i)}
NotOffered == {o \in Items \X Subs :
                 \/ ~Feed!Published(o[1])
                 \/ \E w \in Workers : SentBy(w, o[1]) /\ o[2] \in worker[w].todo}

Ahead == (NotReceived \X {"receive"}) \cup (NotLogged \X {"log"})
         \cup (NotFinished \X {"finish"}) \cup (NotOffered \X {"offer"})

AWorkerSteps == \E w \in Workers : WorkerStep(w)

\* A step that makes one of the four smaller and none larger.
LEMMA OneLess ==
  ASSUME NotReceived' \subseteq NotReceived, NotLogged' \subseteq NotLogged,
         NotFinished' \subseteq NotFinished, NotOffered' \subseteq NotOffered,
         \/ NotReceived' # NotReceived \/ NotLogged' # NotLogged
         \/ NotFinished' # NotFinished \/ NotOffered' # NotOffered
  PROVE  Ahead' \subseteq Ahead /\ Ahead' # Ahead
<1>1. Ahead' \subseteq Ahead BY DEF Ahead
<1>2. \A x : /\ x \in NotReceived <=> <<x, "receive">> \in Ahead
             /\ x \in NotLogged <=> <<x, "log">> \in Ahead
             /\ x \in NotFinished <=> <<x, "finish">> \in Ahead
             /\ x \in NotOffered <=> <<x, "offer">> \in Ahead
  BY DEF Ahead
<1>3. \A x : /\ x \in NotReceived' <=> <<x, "receive">> \in Ahead'
             /\ x \in NotLogged' <=> <<x, "log">> \in Ahead'
             /\ x \in NotFinished' <=> <<x, "finish">> \in Ahead'
             /\ x \in NotOffered' <=> <<x, "offer">> \in Ahead'
  BY DEF Ahead
<1> QED BY <1>1, <1>2, <1>3

\* Only a worker's step changes a worker or the lock.
LEMMA OthersLeaveWork ==
  ASSUME TypeOK, [Next]_vars, ~AWorkerSteps
  PROVE  /\ UNCHANGED <<worker, lock, dispatched>> /\ pending \subseteq pending'
         /\ \A s \in Subs : stream[s] = "gone" => stream'[s] = "gone"
         /\ Ahead' = Ahead
<1>1. ASSUME NEW i \in Items, Insert(i)
      PROVE  /\ UNCHANGED <<worker, lock, dispatched, stream>> /\ pending \subseteq pending'
             /\ NotReceived' = NotReceived
  BY <1>1 DEF Insert, NotReceived
<1>2. ASSUME NEW s \in Subs, Client(s)
      PROVE  /\ UNCHANGED <<worker, lock, dispatched, pending, inserted>>
             /\ \A t \in Subs : stream[t] = "gone" => stream'[t] = "gone"
  BY <1>2 DEF Client, Subscribe, Stall, Resume, Disconnect, Live, TypeOK
<1>3. CASE UNCHANGED vars BY <1>3 DEF vars, NotReceived, Ahead, NotLogged, NotFinished,
                                     NotOffered, SentBy, Sending, Feed!Published
<1>4. /\ UNCHANGED <<worker, lock, dispatched>> /\ pending \subseteq pending'
      /\ \A s \in Subs : stream[s] = "gone" => stream'[s] = "gone"
      /\ NotReceived' = NotReceived
  BY <1>1, <1>2, <1>3 DEF Next, AWorkerSteps, NotReceived, vars
<1>5. NotLogged' = NotLogged /\ NotFinished' = NotFinished /\ NotOffered' = NotOffered
  BY <1>4 DEF NotLogged, NotFinished, NotOffered, SentBy, Sending, Feed!Published
<1> QED BY <1>4, <1>5 DEF Ahead

\* Every step of a worker is one of those that are ahead.
LEMMA WorkerIsLess ==
  ASSUME IInv, NEW w \in Workers, WorkerStep(w)
  PROVE  Ahead' \subseteq Ahead /\ Ahead' # Ahead
<1> USE DEF IInv
<1>0. /\ worker \in [Workers -> WorkerStates]
      /\ \A v \in Workers : Sending(v) => v = lock
  BY DEF TypeOK, LockHeld
<1>1. ASSUME NEW i \in Items, Receive(w, i) PROVE Ahead' \subseteq Ahead /\ Ahead' # Ahead
  <2>1. NotReceived' \subseteq NotReceived /\ i \in NotReceived \ NotReceived'
    BY <1>1 DEF Receive, NotReceived, TypeOK
  <2>2. \A v \in Workers : Sending(v)' => Sending(v) /\ worker'[v] = worker[v]
    BY <1>0, <1>1 DEF Receive, Sending
  <2>3. \A j \in Items : Feed!Published(j)' <=> Feed!Published(j)
    BY <1>1 DEF Receive, Feed!Published
  <2>4. NotLogged' \subseteq NotLogged /\ NotFinished' \subseteq NotFinished
        /\ NotOffered' \subseteq NotOffered
    BY <2>2, <2>3 DEF NotLogged, NotFinished, NotOffered, SentBy
  <2> QED BY <2>1, <2>4, OneLess
<1>2. CASE Acquire(w)
  <2>0. worker[w].item \in Items /\ ~Feed!Published(worker[w].item)
    BY <1>2, WorkerFields DEF Acquire, Held, Once
  <2> PICK i \in Items : i = worker[w].item BY <2>0
  <2>1. ItemKind[i] \in Kinds /\ ~Feed!Published(i) BY <2>0
  <2>2. /\ dispatched' = [dispatched EXCEPT ![ItemKind[i]] = Append(@, i)]
        /\ worker' = [worker EXCEPT ![w] = [pc |-> "send", item |-> i,
                                            todo |-> exporters[ItemKind[i]], newList |-> {}]]
        /\ inserted' = inserted /\ pending' = pending
    BY <1>2 DEF Acquire
  <2>3. dispatched[ItemKind[i]] \in Seq(Items) BY <2>1 DEF TypeOK
  <2>4. \A j \in Items : Feed!Published(j) => Feed!Published(j)'
    <3>1. ASSUME NEW j \in Items, NEW n \in DOMAIN dispatched[ItemKind[j]],
                 dispatched[ItemKind[j]][n] = j
          PROVE  \E m \in DOMAIN dispatched'[ItemKind[j]] : dispatched'[ItemKind[j]][m] = j
      <4>1. CASE ItemKind[j] = ItemKind[i]
        <5>1. dispatched'[ItemKind[j]] = Append(dispatched[ItemKind[i]], i)
          BY <2>1, <2>2, <4>1 DEF TypeOK
        <5> QED BY <2>3, <3>1, <4>1, <5>1
      <4>2. CASE ItemKind[j] # ItemKind[i]
        <5>1. dispatched'[ItemKind[j]] = dispatched[ItemKind[j]] BY <2>2, <4>2
        <5> QED BY <3>1, <5>1
      <4> QED BY <4>1, <4>2
    <3> QED BY <3>1 DEF Feed!Published
  <2>5. Feed!Published(i)'
    <3>1. dispatched'[ItemKind[i]] = Append(dispatched[ItemKind[i]], i)
      BY <2>1, <2>2 DEF TypeOK
    <3>2. Len(dispatched[ItemKind[i]]) + 1 \in DOMAIN dispatched'[ItemKind[i]]
          /\ dispatched'[ItemKind[i]][Len(dispatched[ItemKind[i]]) + 1] = i
      BY <2>3, <3>1
    <3> QED BY <3>2 DEF Feed!Published
  <2>6. \A v \in Workers : v # w => worker'[v] = worker[v] BY <2>2
  <2>7. worker'[w].item = i BY <1>0, <2>2
  <2>8. ASSUME NEW j \in Items, NEW v \in Workers, SentBy(v, j)'
        PROVE  ~Feed!Published(j) \/ (SentBy(v, j) /\ worker'[v] = worker[v])
    BY <2>1, <2>6, <2>7, <2>8 DEF SentBy, Sending
  <2>9. NotReceived' = NotReceived BY <2>2 DEF NotReceived
  <2>10. NotLogged' \subseteq NotLogged /\ i \in NotLogged \ NotLogged'
    BY <2>1, <2>4, <2>5 DEF NotLogged
  <2>11. NotFinished' \subseteq NotFinished BY <2>4, <2>8 DEF NotFinished
  <2>12. ASSUME NEW j \in Items, NEW s \in Subs, <<j, s>> \in NotOffered'
         PROVE  <<j, s>> \in NotOffered
    BY <2>4, <2>8, <2>12 DEF NotOffered
  <2>13. NotOffered' \subseteq NotOffered BY <2>12 DEF NotOffered
  <2> QED BY <2>9, <2>10, <2>11, <2>13, OneLess
<1>3. ASSUME NEW s \in Subs, Send(w, s) \/ SendToGone(w, s)
      PROVE  Ahead' \subseteq Ahead /\ Ahead' # Ahead
  <2>0. /\ Sending(w) /\ s \in worker[w].todo
        /\ inserted' = inserted /\ pending' = pending /\ dispatched' = dispatched
    BY <1>3 DEF Send, SendToGone
  <2> PICK i \in Items : i = worker[w].item BY <2>0, WorkerFields DEF Sending, Held
  <2>a. PICK kept \in {{}, {s}} :
          worker' = [worker EXCEPT ![w] = [worker[w] EXCEPT !.todo = @ \ {s},
                                                            !.newList = @ \cup kept]]
    BY <1>3 DEF Send, SendToGone
  <2>1. \A v \in Workers : v # w => worker'[v] = worker[v] BY <2>a
  <2>2. /\ worker'[w].pc = "send" /\ worker'[w].item = i
        /\ worker'[w].todo = worker[w].todo \ {s}
    <3>1. worker[w] \in [pc : {"send"}, item : Items, todo : SUBSET Subs, newList : SUBSET Subs]
      BY <2>0, WorkerFields
    <3> QED BY <1>0, <2>a, <3>1
  <2>3. Feed!Published(i)
    <3>1. KindOf(w) \in Kinds BY <2>0, WorkerFields DEF Sending, Held
    <3>2. dispatched[KindOf(w)] \in Seq(Items) BY <3>1 DEF TypeOK
    <3> QED BY <2>0, <3>1, <3>2 DEF Loop, Feed!Published, KindOf
  <2>4. \A v \in Workers : Sending(v) => v = w BY <1>0, <2>0
  <2>5. \A j \in Items : Feed!Published(j)' <=> Feed!Published(j)
    BY <2>0 DEF Feed!Published
  <2>6. \A v \in Workers, j \in Items : SentBy(v, j)' <=> SentBy(v, j)
    BY <2>0, <2>1, <2>2 DEF SentBy, Sending
  <2>7. \A v \in Workers : Sending(v) => worker'[v].todo \subseteq worker[v].todo
    BY <2>2, <2>4
  <2>8. NotReceived' = NotReceived /\ NotLogged' = NotLogged /\ NotFinished' = NotFinished
    BY <2>0, <2>5, <2>6 DEF NotReceived, NotLogged, NotFinished
  <2>9. NotOffered' \subseteq NotOffered BY <2>5, <2>6, <2>7 DEF NotOffered, SentBy
  <2>10. <<i, s>> \in NotOffered BY <2>0, <2>3 DEF NotOffered, SentBy
  <2>11. <<i, s>> \notin NotOffered'
    BY <2>2, <2>3, <2>4, <2>5, <2>6 DEF NotOffered, SentBy
  <2> QED BY <2>8, <2>9, <2>10, <2>11, OneLess
<1>4. CASE Finish(w)
  <2>0. Sending(w) BY <1>4 DEF Finish
  <2> PICK i \in Items : i = worker[w].item BY <2>0, WorkerFields DEF Sending, Held
  <2>1. /\ Sending(w) /\ inserted' = inserted /\ pending' = pending
        /\ dispatched' = dispatched
        /\ \A v \in Workers : v # w => worker'[v] = worker[v]
        /\ ~Sending(w)'
    BY <1>0, <1>4 DEF Finish, Sending
  <2>2. Feed!Published(i)
    <3>1. KindOf(w) \in Kinds BY <2>1, WorkerFields DEF Sending, Held
    <3>2. dispatched[KindOf(w)] \in Seq(Items) BY <3>1 DEF TypeOK
    <3> QED BY <2>1, <3>1, <3>2 DEF Loop, Feed!Published, KindOf
  <2>3. \A v \in Workers : ~Sending(v)'
    BY <1>0, <2>1 DEF Sending
  <2>4. \A j \in Items : Feed!Published(j)' <=> Feed!Published(j)
    BY <2>1 DEF Feed!Published
  <2>5. NotReceived' = NotReceived /\ NotLogged' = NotLogged
    BY <2>1, <2>4 DEF NotReceived, NotLogged
  <2>6. NotFinished' \subseteq NotFinished /\ NotOffered' \subseteq NotOffered
    BY <2>3, <2>4 DEF NotFinished, NotOffered, SentBy
  <2>7. i \in NotFinished \ NotFinished'
    BY <2>1, <2>2, <2>3, <2>4 DEF NotFinished, SentBy
  <2> QED BY <2>5, <2>6, <2>7, OneLess
<1> QED BY <1>1, <1>2, <1>3, <1>4 DEF WorkerStep

LEMMA WorkIsFinite ==
  ASSUME IsFiniteSet(Items), IsFiniteSet(Subs)
  PROVE  IsFiniteSet(Ahead) /\ Cardinality(Ahead) \in Nat
<1>1. ASSUME NEW S, NEW x, IsFiniteSet(S) PROVE IsFiniteSet(S \X {x})
  BY <1>1, FS_Singleton, FS_Product
<1>2. IsFiniteSet(Items \X Subs) BY FS_Product
<1>3. NotReceived \in SUBSET Items /\ NotLogged \in SUBSET Items /\ NotFinished \in SUBSET Items
      /\ NotOffered \in SUBSET (Items \X Subs)
  BY DEF NotReceived, NotLogged, NotFinished, NotOffered
<1>4. /\ IsFiniteSet(NotReceived) /\ IsFiniteSet(NotLogged) /\ IsFiniteSet(NotFinished)
      /\ IsFiniteSet(NotOffered)
  BY <1>2, <1>3, FS_Subset
<1>5. /\ IsFiniteSet(NotReceived \X {"receive"}) /\ IsFiniteSet(NotLogged \X {"log"})
      /\ IsFiniteSet(NotFinished \X {"finish"}) /\ IsFiniteSet(NotOffered \X {"offer"})
  BY <1>1, <1>4
<1>6. IsFiniteSet((NotReceived \X {"receive"}) \cup (NotLogged \X {"log"}))
  BY <1>5, FS_Union
<1>7. IsFiniteSet((NotReceived \X {"receive"}) \cup (NotLogged \X {"log"})
                  \cup (NotFinished \X {"finish"}))
  BY <1>5, <1>6, FS_Union
<1>8. IsFiniteSet(Ahead) BY <1>5, <1>7, FS_Union DEF Ahead
<1> QED BY <1>8, FS_CardinalityType

LEMMA LessAhead ==
  ASSUME IsFiniteSet(Items), IsFiniteSet(Subs), IInv
  PROVE  /\ AWorkerSteps => Cardinality(Ahead') < Cardinality(Ahead)
         /\ Cardinality(Ahead) \in Nat
<1>1. IsFiniteSet(Ahead) /\ Cardinality(Ahead) \in Nat BY WorkIsFinite
<1>2. ASSUME AWorkerSteps PROVE Cardinality(Ahead') < Cardinality(Ahead)
  <2>1. Ahead' \in SUBSET Ahead /\ Ahead' # Ahead BY <1>2, WorkerIsLess DEF AWorkerSteps
  <2>2. /\ IsFiniteSet(Ahead') /\ Cardinality(Ahead') <= Cardinality(Ahead)
        /\ Cardinality(Ahead) # Cardinality(Ahead')
    BY <1>1, <2>1, FS_Subset
  <2>3. Cardinality(Ahead') \in Nat BY <2>2, FS_CardinalityType
  <2> QED BY <1>1, <2>2, <2>3
<1> QED BY <1>1, <1>2

(***************************************************************************)
(* With finitely many events and subscriptions the workers take finitely   *)
(* many steps: each one leaves less ahead, and nothing that handlers and   *)
(* clients do adds to it.  No client can keep the exporter busy for ever.  *)
(***************************************************************************)
THEOREM WorkerStepIsProgress ==
  ASSUME IsFiniteSet(Items), IsFiniteSet(Subs)
  PROVE  Spec => [][IF AWorkerSteps THEN Cardinality(Ahead') < Cardinality(Ahead)
                    ELSE Ahead' = Ahead]_vars
<1>1. IInv /\ [Next]_vars => [IF AWorkerSteps THEN Cardinality(Ahead') < Cardinality(Ahead)
                              ELSE Ahead' = Ahead]_vars
  BY LessAhead, OthersLeaveWork DEF IInv
<1> QED BY <1>1, ExporterInvariant, PTL DEF Spec

-----------------------------------------------------------------------------
\* When the steps of a worker are possible, and when only a client can go on.
Awaited(w) == \E i \in pending : WorkerOf[ItemKind[i]] = w
CanReceive(w) == worker[w].pc = "select" /\ Awaited(w)
CanAcquire(w) == worker[w].pc = "lock" /\ lock = Free
CanFinish(w) == Sending(w) /\ worker[w].todo = {}
Offers(w, s) == Sending(w) /\ s \in worker[w].todo
WaitsFor(w, s) == Offers(w, s) /\ stream[s] = "stalled"

WorkerCan(w) ==
    \/ CanReceive(w) \/ CanAcquire(w) \/ CanFinish(w)
    \/ \E s \in Subs : Offers(w, s) /\ stream[s] \in {"open", "gone"}

\* An item for which a worker has nothing to do but to offer it to somebody.
LEMMA SomethingGoesOn ==
  ASSUME IInv, NEW v \in Workers, Awaited(v) \/ Held(v)
  PROVE  \E w \in Workers : \/ CanReceive(w) \/ CanAcquire(w) \/ CanFinish(w)
                            \/ \E s \in Subs : Offers(w, s)
<1> USE DEF IInv
<1>1. worker[v].pc \in {"select", "lock", "send"} BY WorkerFields
<1>2. CASE worker[v].pc = "select" BY <1>2 DEF Held, CanReceive
<1>3. ASSUME NEW w \in Workers, Sending(w)
      PROVE  CanFinish(w) \/ \E s \in Subs : Offers(w, s)
  <2>1. worker[w] \in [pc : {"send"}, item : Items, todo : SUBSET Subs, newList : SUBSET Subs]
    BY <1>3, WorkerFields
  <2> QED BY <1>3, <2>1 DEF CanFinish, Offers
<1>4. CASE worker[v].pc = "lock" /\ lock # Free
  <2>1. lock \in Workers /\ Sending(lock) BY <1>4 DEF TypeOK, LockHeld
  <2> QED BY <1>3, <2>1
<1> QED BY <1>1, <1>2, <1>3, <1>4 DEF CanAcquire, Sending

LEMMA StreamStates ==
  ASSUME IInv, NEW w \in Workers, NEW s \in Subs, Offers(w, s)
  PROVE  stream[s] \in {"open", "stalled", "gone"}
<1>1. KindOf(w) \in Kinds BY WorkerFields DEF IInv, Offers, Sending, Held
<1>2. s \in exporters[KindOf(w)] BY DEF IInv, Loop, Offers
<1>3. stream[s] # "none" BY <1>1, <1>2 DEF IInv, Listed
<1> QED BY <1>3 DEF IInv, TypeOK

(***************************************************************************)
(* As long as an Insert call waits or a worker has an event, a worker can  *)
(* take a step, or it waits in Send for a client that does not read: the   *)
(* lock, the channels and the workers never wait for one another.          *)
(***************************************************************************)
THEOREM ExporterNeverStuck ==
  Spec => [](((\E i \in Items : i \in pending) \/ \E w \in Workers : Held(w)) =>
                \E w \in Workers : WorkerCan(w) \/ \E s \in Subs : WaitsFor(w, s))
<1>1. IInv => (((\E i \in Items : i \in pending) \/ \E w \in Workers : Held(w)) =>
                 \E w \in Workers : WorkerCan(w) \/ \E s \in Subs : WaitsFor(w, s))
  <2> SUFFICES ASSUME IInv, (\E i \in Items : i \in pending) \/ \E w \in Workers : Held(w)
               PROVE  \E w \in Workers : WorkerCan(w) \/ \E s \in Subs : WaitsFor(w, s)
    OBVIOUS
  <2>1. PICK v \in Workers : Awaited(v) \/ Held(v) BY DEF Awaited
  <2>2. PICK w \in Workers : \/ CanReceive(w) \/ CanAcquire(w) \/ CanFinish(w)
                             \/ \E s \in Subs : Offers(w, s)
    BY <2>1, SomethingGoesOn
  <2> QED BY <2>2, StreamStates DEF WorkerCan, WaitsFor
<1> QED BY <1>1, ExporterInvariant, PTL

(***************************************************************************)
(* One client that does not read stops the whole exporter: as long as an   *)
(* event is on its way to it, no event of any kind is dispatched, no list  *)
(* changes and nobody can subscribe.                                       *)
(***************************************************************************)
THEOREM StalledClientStopsAll ==
  Spec => [][\A s \in Subs : (InFlight(s) /\ stream[s] = "stalled") =>
                UNCHANGED <<lock, dispatched, exporters>>]_vars
<1>1. ASSUME IInv, [Next]_vars, NEW s \in Subs, InFlight(s), stream[s] = "stalled"
      PROVE  UNCHANGED <<lock, dispatched, exporters>>
  <2>1. PICK w \in Workers : Sending(w) /\ s \in worker[w].todo BY <1>1 DEF InFlight
  <2>2. lock = w /\ lock # Free /\ \A v \in Workers : Sending(v) => v = w
    BY <1>1, <2>1 DEF IInv, LockHeld
  <2>3. ASSUME NEW v \in Workers, WorkerStep(v) PROVE UNCHANGED <<lock, dispatched, exporters>>
    BY <2>1, <2>2, <2>3 DEF WorkerStep, Receive, Acquire, Send, SendToGone, Finish
  <2>4. ASSUME NEW t \in Subs, Client(t) PROVE UNCHANGED <<lock, dispatched, exporters>>
    BY <2>2, <2>4 DEF Client, Subscribe, Stall, Resume, Disconnect
  <2> QED BY <1>1, <2>3, <2>4 DEF Next, Insert, vars
<1>2. IInv /\ [Next]_vars =>
        [\A s \in Subs : (InFlight(s) /\ stream[s] = "stalled") =>
            UNCHANGED <<lock, dispatched, exporters>>]_vars
  BY <1>1
<1> QED BY <1>2, ExporterInvariant, PTL DEF Spec

-----------------------------------------------------------------------------
\* The fairness of FairSpec, with the guard of each action for its ENABLED.
\* Weak fairness does for the lock: whoever else takes it leaves less ahead.
Receives(w) == \E i \in Items : Receive(w, i)
ReceiveFair(w) == <>~CanReceive(w) \/ <><<Receives(w)>>_vars
AcquireFair(w) == <>~CanAcquire(w) \/ <><<Acquire(w)>>_vars
FinishFair(w) == <>~CanFinish(w) \/ <><<Finish(w)>>_vars
SendFair(w, s) ==
    <>[]~(Offers(w, s) /\ stream[s] = "open") \/ []<><<Send(w, s)>>_vars
DropFair(w, s) ==
    <>~(Offers(w, s) /\ stream[s] = "gone") \/ <><<SendToGone(w, s)>>_vars
ResumeFair(s) == <>(stream[s] # "stalled") \/ <><<Resume(s)>>_vars

WorkersFair == \A w \in Workers : ReceiveFair(w) /\ AcquireFair(w) /\ FinishFair(w)
StreamsFair == \A w \in Workers, s \in Subs : SendFair(w, s) /\ DropFair(w, s) /\ ResumeFair(s)

Fairness == []WorkersFair /\ []StreamsFair

(***************************************************************************)
(* The step of InsertReturns, for any finite number of events and clients: *)
(* while an Insert call waits with n steps ahead of the workers, in the    *)
(* end it has returned or fewer than n are ahead, if a stalled client      *)
(* reads again or leaves.  As n cannot fall for ever, the call returns.    *)
(***************************************************************************)
THEOREM InsertComesCloser ==
  ASSUME IsFiniteSet(Items), IsFiniteSet(Subs), NEW i \in Items, NEW n \in Nat
  PROVE  Init /\ [][Next]_vars /\ Fairness =>
            ((i \in pending /\ Cardinality(Ahead) = n)
                ~> (i \notin pending \/ Cardinality(Ahead) < n))
<1> DEFINE As == Cardinality(Ahead) = n
           Lower == Cardinality(Ahead) < n
           Still == UNCHANGED <<worker, lock>> /\ pending \subseteq pending'
           H == []IInv /\ [][Next]_vars /\ Fairness
           G(w) == \/ CanReceive(w) \/ CanAcquire(w) \/ CanFinish(w)
                   \/ \E s \in Subs : Offers(w, s)
<1>1. IInv /\ As /\ AWorkerSteps => Lower' BY LessAhead
<1>2. IInv /\ As /\ [Next]_vars => Lower' \/ (As' /\ Still /\ ~AWorkerSteps)
  <2>1. IInv /\ [Next]_vars /\ ~AWorkerSteps => Ahead' = Ahead /\ Still
    BY OthersLeaveWork DEF IInv
  <2> QED BY <1>1, <2>1
<1>3. IInv /\ As /\ As' /\ [Next]_vars => Still
  <2>1. \A m \in Nat : ~(m < m) OBVIOUS
  <2>2. As' => ~Lower' OBVIOUS
  <2> QED BY <1>2, <2>2
<1>4. IInv => (i \in pending => \E w \in Workers : G(w))
  <2>1. i \in pending => Awaited(WorkerOf[ItemKind[i]]) /\ WorkerOf[ItemKind[i]] \in Workers
    BY DEF Awaited
  <2> QED BY <2>1, SomethingGoesOn
<1> HIDE DEF As, Lower
<1>5. ASSUME NEW w \in Workers
      PROVE  H => (As /\ (CanReceive(w) \/ CanAcquire(w) \/ CanFinish(w)) => <>Lower)
  <2>1. WorkersFair => ReceiveFair(w) /\ AcquireFair(w) /\ FinishFair(w) BY DEF WorkersFair
  <2>2. Fairness => [](ReceiveFair(w) /\ AcquireFair(w) /\ FinishFair(w))
    BY <2>1, PTL DEF Fairness
  <2>3. IInv /\ As /\ As' /\ [Next]_vars => /\ CanReceive(w) => CanReceive(w)'
                                            /\ CanAcquire(w) => CanAcquire(w)'
                                            /\ CanFinish(w) => CanFinish(w)'
    BY <1>3 DEF CanReceive, CanAcquire, CanFinish, Sending, Awaited
  <2>4. IInv /\ As /\ <<Receives(w)>>_vars => Lower'
    BY <1>1 DEF AWorkerSteps, WorkerStep, Receives
  <2>5. IInv /\ As /\ <<Acquire(w)>>_vars => Lower' BY <1>1 DEF AWorkerSteps, WorkerStep
  <2>6. IInv /\ As /\ <<Finish(w)>>_vars => Lower' BY <1>1 DEF AWorkerSteps, WorkerStep
  <2>7. IInv /\ As /\ [Next]_vars => Lower' \/ As' BY <1>2
  <2> QED BY <2>2, <2>3, <2>4, <2>5, <2>6, <2>7, PTL DEF ReceiveFair, AcquireFair, FinishFair
<1>6. ASSUME NEW w \in Workers, NEW s \in Subs
      PROVE  H => (As /\ Offers(w, s) => <>Lower)
  <2> DEFINE Open == stream[s] = "open"
             Gone == stream[s] = "gone"
             Stalled == stream[s] = "stalled"
  <2>1. StreamsFair => SendFair(w, s) /\ DropFair(w, s) /\ ResumeFair(s) BY DEF StreamsFair
  <2>2. Fairness => [](SendFair(w, s) /\ DropFair(w, s) /\ ResumeFair(s))
    BY <2>1, PTL DEF Fairness
  <2>3. IInv /\ As /\ As' /\ [Next]_vars => (Offers(w, s) => Offers(w, s)')
    BY <1>3 DEF Offers, Sending
  <2>4. IInv /\ As /\ [Next]_vars => (Gone => Gone' \/ Lower')
    BY <1>2, OthersLeaveWork DEF IInv
  <2>5. IInv => (Offers(w, s) => Open \/ Gone \/ Stalled) BY StreamStates
  <2>6. IInv /\ As /\ <<Send(w, s)>>_vars => Lower' BY <1>1 DEF AWorkerSteps, WorkerStep
  <2>7. IInv /\ As /\ <<SendToGone(w, s)>>_vars => Lower' BY <1>1 DEF AWorkerSteps, WorkerStep
  <2>8. IInv /\ <<Resume(s)>>_vars => Open' BY DEF IInv, TypeOK, Resume
  <2>9. IInv /\ As /\ [Next]_vars => Lower' \/ As' BY <1>2
  <2>10. stream[s] # "stalled" <=> ~Stalled OBVIOUS
  <2> HIDE DEF Open, Gone, Stalled
  <2>11. [](SendFair(w, s) /\ DropFair(w, s) /\ ResumeFair(s)) =>
            /\ [](<>[]~(Offers(w, s) /\ Open) \/ []<><<Send(w, s)>>_vars)
            /\ [](<>~(Offers(w, s) /\ Gone) \/ <><<SendToGone(w, s)>>_vars)
            /\ [](<>~Stalled \/ <><<Resume(s)>>_vars)
    BY <2>10, PTL DEF SendFair, DropFair, ResumeFair, Open, Gone
  <2> QED BY <2>2, <2>3, <2>4, <2>5, <2>6, <2>7, <2>8, <2>9, <2>11, PTL
<1>7. H => (As /\ (\E w \in Workers : G(w)) => <>Lower)
  <2> HIDE DEF H
  <2> QED BY <1>5, <1>6
<1> HIDE DEF G
<1>8. Init /\ [][Next]_vars /\ Fairness => ((i \in pending /\ As) ~> (i \notin pending \/ Lower))
  <2> DEFINE Some == \E w \in Workers : G(w)
  <2>1. IInv => (i \in pending => Some) BY <1>4
  <2>2. H => (As /\ Some => <>Lower) BY <1>7
  <2> HIDE DEF Some
  <2> QED BY InitIInv, NextKeepsIInv, <2>1, <2>2, PTL DEF Fairness
<1> QED BY <1>8 DEF As, Lower
=============================================================================
