-------------------------- MODULE ServiceIndexProofs --------------------------
(***************************************************************************)
(* Theorems about the manager's service index, for any number of services, *)
(* IPs and handlers.  IInv is inductive; Sound and Complete are two of its *)
(* conjuncts, and AttributionIsCurrent follows from Sound.                 *)
(***************************************************************************)
EXTENDS ServiceIndex, TLAPS

USE SentinelsAssumption

\* What the initial states and a restart have in common.
Empty ==
    /\ svcCache = [s \in {} |-> {}]
    /\ ipToService = [i \in IPs |-> NoService]
    /\ handler = [h \in Handlers |-> Away("idle")]
    /\ logger = Waiting
    /\ overlapped = {}
    /\ contested = {}

\* The empty index satisfies the invariant.
LEMMA EmptyIInv == Empty => IInv
<1> SUFFICES ASSUME Empty PROVE IInv OBVIOUS
<1> USE DEF Empty
<1>1. TypeOK BY DEF TypeOK, Away, Waiting, Calls, LogStates, Owners, Ends
<1>2. \A h \in Handlers : handler[h] = Away("idle") OBVIOUS
<1>3. Serial BY <1>2 DEF Serial, ActiveOn, Away
<1>4. HandlerOK BY <1>2 DEF HandlerOK, Away
<1>5. Sound BY DEF Sound
<1>6. Complete BY DEF Complete, Cached
<1>7. Written BY <1>2 DEF Written, InMaps, ActiveOn, Away
<1>8. UniqueHolder BY <1>2 DEF UniqueHolder, Holds, Cached, ActiveOn, Away
<1> QED BY <1>1, <1>3, <1>4, <1>5, <1>6, <1>7, <1>8 DEF IInv

\* A call arrives.
LEMMA BeginKeepsIInv ==
  ASSUME IInv, NEW h \in Handlers, NEW s \in Services, NEW op \in {"Add", "Update", "Delete"},
         NEW ips \in SUBSET IPs, op = "Delete" => ips = {}, Begin(h, op, s, ips)
  PROVE  IInv'
<1> USE DEF IInv, Begin
<1>1. TypeOK'
  BY DEF TypeOK, Calls, Owners
<1>2. Serial'
  BY DEF Serial, ActiveOn
<1>3. HandlerOK'
  BY DEF HandlerOK
<1>4. Sound'
  BY DEF ActiveOn, Sound, InMaps, Cached
<1>5. Complete'
  BY DEF ActiveOn, Complete, InMaps, Cached
<1>6. Written'
  BY DEF ActiveOn, Written, InMaps
<1>7. UniqueHolder'
  <2>1. ASSUME NEW t \in Services, NEW i \in IPs, Holds(t, i)'
        PROVE  Holds(t, i) \/ (t = s /\ i \in ips)
    BY <2>1 DEF Holds, Cached, ActiveOn
  <2>2. ASSUME NEW t \in Services \ {s}, NEW i \in ips, Holds(t, i)
        PROVE  i \in contested'
    BY <2>2
  <2>3. SUFFICES ASSUME NEW i \in IPs \ contested', NEW t \in Services, NEW u \in Services,
                        Holds(t, i)', Holds(u, i)'
                 PROVE  t = u
    BY DEF UniqueHolder
  <2>4. i \notin contested OBVIOUS
  <2>5. CASE t = s /\ u # s
    <3>1. Holds(u, i) BY <2>1, <2>3, <2>5
    <3>2. i \notin ips BY <2>2, <2>3, <2>5, <3>1
    <3>3. Holds(t, i) BY <2>1, <2>3, <3>2
    <3> QED BY <2>3, <2>4, <3>1, <3>3 DEF UniqueHolder
  <2>6. CASE t # s /\ u = s
    BY <2>1, <2>2, <2>3, <2>4, <2>6 DEF UniqueHolder
  <2>7. CASE t # s /\ u # s
    BY <2>1, <2>3, <2>4, <2>7 DEF UniqueHolder
  <2> QED BY <2>5, <2>6, <2>7
<1> QED BY <1>1, <1>2, <1>3, <1>4, <1>5, <1>6, <1>7

\* The old message is looked up.
LEMMA LookupKeepsIInv ==
  ASSUME IInv, NEW h \in Handlers, Lookup(h)
  PROVE  IInv'
<1> USE DEF IInv, Lookup, Away
<1>1. TypeOK'
  <2>1. Cached(handler[h].svc) => svcCache[handler[h].svc] \in SUBSET IPs
    BY DEF TypeOK, Cached
  <2>2. handler'[h] \in Calls
    BY <2>1 DEF TypeOK, Calls, Owners
  <2> QED BY <2>2 DEF TypeOK
<1>2. Serial'
  BY DEF Serial, ActiveOn
<1>3. HandlerOK'
  BY DEF HandlerOK
<1>4. Sound'
  BY DEF ActiveOn, Sound, InMaps, Cached
<1>5. Complete'
  BY DEF ActiveOn, Complete, InMaps, Cached
<1>6. Written'
  BY DEF ActiveOn, Written, InMaps
<1>7. UniqueHolder'
  BY DEF UniqueHolder, Holds, Cached, ActiveOn
<1> QED BY <1>1, <1>2, <1>3, <1>4, <1>5, <1>6, <1>7

\* An old entry is deleted.
LEMMA PurgeIPKeepsIInv ==
  ASSUME IInv, NEW h \in Handlers, NEW ip \in IPs, PurgeIP(h, ip)
  PROVE  IInv'
<1> USE DEF IInv, PurgeIP
<1>1. TypeOK'
  BY DEF TypeOK, Calls, Owners
<1>2. Serial'
  BY DEF Serial, ActiveOn
<1>3. HandlerOK'
  BY DEF HandlerOK
<1>4. Sound'
  BY DEF TypeOK, ActiveOn, Sound, InMaps, Cached
<1>5. Complete'
  BY DEF HandlerOK, ActiveOn, UniqueHolder, Complete, InMaps, Cached, Holds
<1>6. Written'
  BY DEF HandlerOK, Serial, ActiveOn, UniqueHolder, Written, InMaps, Holds
<1>7. UniqueHolder'
  BY DEF UniqueHolder, Holds, Cached, ActiveOn
<1> QED BY <1>1, <1>2, <1>3, <1>4, <1>5, <1>6, <1>7

\* A new entry is written.
LEMMA WriteIPKeepsIInv ==
  ASSUME IInv, NEW h \in Handlers, NEW ip \in IPs, WriteIP(h, ip)
  PROVE  IInv'
<1> USE DEF IInv, WriteIP
<1>1. TypeOK'
  BY DEF TypeOK, Calls
<1>2. Serial'
  BY DEF Serial, ActiveOn
<1>3. HandlerOK'
  BY DEF HandlerOK
<1>4. Sound'
  BY DEF TypeOK, HandlerOK, ActiveOn, Sound, InMaps, Cached
<1>5. Complete'
  BY DEF HandlerOK, ActiveOn, UniqueHolder, Complete, InMaps, Cached, Holds
<1>6. Written'
  BY DEF TypeOK, HandlerOK, ActiveOn, UniqueHolder, Written, InMaps, Holds
<1>7. UniqueHolder'
  BY DEF UniqueHolder, Holds, Cached, ActiveOn
<1> QED BY <1>1, <1>2, <1>3, <1>4, <1>5, <1>6, <1>7

\* The message is cached or its key deleted.
LEMMA StoreCacheKeepsIInv ==
  ASSUME IInv, NEW h \in Handlers, StoreCache(h)
  PROVE  IInv'
<1> USE DEF IInv, StoreCache, Away
<1>1. TypeOK'
  BY DEF HandlerOK, TypeOK, Calls, Owners
<1>2. Serial'
  BY DEF Serial, ActiveOn
<1>3. HandlerOK'
  BY DEF HandlerOK
<1>4. Sound'
  BY DEF HandlerOK, Serial, ActiveOn, Sound, InMaps, Cached
<1>5. Complete'
  BY DEF ActiveOn, Written, Complete, InMaps, Cached
<1>6. Written'
  BY DEF ActiveOn, Written, InMaps
<1>7. UniqueHolder'
  BY DEF UniqueHolder, Holds, Cached, ActiveOn
<1> QED BY <1>1, <1>2, <1>3, <1>4, <1>5, <1>6, <1>7

\* The exporter takes the event.
LEMMA InsertSvcKeepsIInv ==
  ASSUME IInv, NEW h \in Handlers, InsertSvc(h)
  PROVE  IInv'
<1> USE DEF IInv, InsertSvc, Away
<1>1. TypeOK'
  BY DEF TypeOK, Calls, Owners
<1>2. Serial'
  BY DEF Serial, ActiveOn
<1>3. HandlerOK'
  BY DEF HandlerOK
<1>4. Sound'
  BY DEF HandlerOK, Sound, InMaps, ActiveOn, Cached
<1>5. Complete'
  BY DEF HandlerOK, Complete, InMaps, ActiveOn, Cached
<1>6. Written'
  BY DEF HandlerOK, Written, InMaps, ActiveOn
<1>7. UniqueHolder'
  BY DEF UniqueHolder, Holds, Cached, ActiveOn
<1> QED BY <1>1, <1>2, <1>3, <1>4, <1>5, <1>6, <1>7

\* The log worker only reads the maps.
LEMMA LoggerKeepsIInv ==
  ASSUME IInv, LoggerStep
  PROVE  IInv'
<1> USE DEF IInv
<1>1. UNCHANGED <<svcCache, ipToService, handler, overlapped, contested>>
  BY DEF LoggerStep, TakeLog, LookupDst, LookupSrc, Forward
<1>2. logger' \in LogStates
  <2>1. ASSUME NEW end \in Ends PROVE Attribution(end) \in Owners
    BY DEF Attribution, TypeOK, Ends, Owners
  <2>2. Waiting \in LogStates
    BY DEF Waiting, LogStates, Ends, Owners
  <2>3. ASSUME NEW dst \in Ends, NEW src \in Ends, TakeLog(dst, src)
        PROVE  logger' \in LogStates
    BY <2>3, <2>2 DEF TakeLog, LogStates
  <2>4. CASE LookupDst
    BY <2>1, <2>4 DEF LookupDst, TypeOK, LogStates
  <2>5. CASE LookupSrc
    BY <2>1, <2>5 DEF LookupSrc, TypeOK, LogStates
  <2>6. CASE Forward
    BY <2>2, <2>6 DEF Forward
  <2> QED BY <2>3, <2>4, <2>5, <2>6 DEF LoggerStep
<1>3. TypeOK'
  BY <1>1, <1>2 DEF TypeOK
<1>4. Serial' /\ HandlerOK' /\ Sound' /\ Complete' /\ Written' /\ UniqueHolder'
  BY <1>1 DEF Serial, HandlerOK, Sound, Complete, Written, UniqueHolder,
              Holds, InMaps, ActiveOn, Cached
<1> QED BY <1>3, <1>4

LEMMA StutterKeepsIInv == IInv /\ UNCHANGED vars => IInv'
BY DEF vars, IInv, TypeOK, Serial, HandlerOK, Sound, Complete, Written,
       UniqueHolder, Holds, InMaps, ActiveOn, Cached

\* Every step keeps the invariant; a restart leaves the initial state.
LEMMA NextKeepsIInv == IInv /\ [Next]_vars => IInv'
<1> SUFFICES ASSUME IInv, [Next]_vars PROVE IInv' OBVIOUS
<1>1. ASSUME NEW h \in Handlers, HandlerStep(h) PROVE IInv'
  <2>1. ASSUME NEW s \in Services, NEW ips \in SUBSET IPs,
               AddSvcEvent(h, s, ips) \/ UpdateSvcEvent(h, s, ips)
        PROVE  IInv'
    BY <2>1, BeginKeepsIInv DEF AddSvcEvent, UpdateSvcEvent
  <2>2. ASSUME NEW s \in Services, DeleteSvcEvent(h, s) PROVE IInv'
    BY <2>2, BeginKeepsIInv DEF DeleteSvcEvent
  <2>3. CASE Lookup(h) BY <2>3, LookupKeepsIInv
  <2>4. ASSUME NEW ip \in IPs, PurgeIP(h, ip) \/ WriteIP(h, ip) PROVE IInv'
    BY <2>4, PurgeIPKeepsIInv, WriteIPKeepsIInv
  <2>5. CASE StoreCache(h) BY <2>5, StoreCacheKeepsIInv
  <2>6. CASE InsertSvc(h) BY <2>6, InsertSvcKeepsIInv
  <2> QED BY <1>1, <2>1, <2>2, <2>3, <2>4, <2>5, <2>6 DEF HandlerStep
<1>2. CASE LoggerStep BY <1>2, LoggerKeepsIInv
<1>3. CASE FatalErrorRestart
  <2>1. Empty' BY <1>3 DEF FatalErrorRestart, Empty
  <2> QED BY <2>1, EmptyIInv, PTL
<1>4. CASE UNCHANGED vars BY <1>4, StutterKeepsIInv
<1> QED BY <1>1, <1>2, <1>3, <1>4 DEF Next

(***************************************************************************)
(* The inductive invariant holds in every reachable state, whatever the    *)
(* handlers' interleaving and however often the process dies of a race.    *)
(***************************************************************************)
THEOREM IndexInvariant == Spec => []IInv
<1>1. Init => IInv BY EmptyIInv DEF Init, Empty
<1> QED BY <1>1, NextKeepsIInv, PTL DEF Spec

\* The maps, the handlers and the log worker keep their types.
THEOREM TypeCorrect == Spec => []TypeOK
<1>1. IInv => TypeOK BY DEF IInv
<1> QED BY <1>1, IndexInvariant, PTL

(***************************************************************************)
(* An entry of ipToService names a service that claims the IP, unless two  *)
(* handlers changed that service at once.                                  *)
(***************************************************************************)
THEOREM IndexSound == Spec => []Sound
<1>1. IInv => Sound BY DEF IInv
<1> QED BY <1>1, IndexInvariant, PTL

(***************************************************************************)
(* Every uncontested IP of a cached message is attributed to its service   *)
(* once its handler is done.                                               *)
(***************************************************************************)
THEOREM IndexComplete == Spec => []Complete
<1>1. IInv => Complete BY DEF IInv
<1> QED BY <1>1, IndexInvariant, PTL

\* An entry names a service that holds the IP.
LEMMA SoundHolds ==
  ASSUME IInv, NEW ip \in IPs, ipToService[ip] \in Services \ overlapped
  PROVE  Holds(ipToService[ip], ip)
BY DEF IInv, Sound, Holds, InMaps

\* What the log worker records of an end is the entry of ipToService.
LEMMA AttributionHolds ==
  ASSUME IInv, NEW end \in Ends, Attribution(end) # NoService
  PROVE  Attribution(end) \in overlapped \/ Holds(Attribution(end), end)
<1>1. end \in IPs /\ Attribution(end) = ipToService[end] BY DEF Attribution, Ends
<1>2. ipToService[end] \in Services BY <1>1 DEF IInv, TypeOK, Owners
<1> QED BY <1>1, <1>2, SoundHolds

(***************************************************************************)
(* When the log worker names an end of a log, the service it names claims  *)
(* that IP at that moment.                                                 *)
(***************************************************************************)
THEOREM LogsAttributed == Spec => AttributionIsCurrent
<1> DEFINE A == /\ (logger.pc = "dst" /\ logger'.pc = "src" /\ logger'.dstSvc # NoService)
                      => logger'.dstSvc \in overlapped \/ Holds(logger'.dstSvc, logger.dst)
                /\ (logger.pc = "src" /\ logger'.pc = "forward" /\ logger'.srcSvc # NoService)
                      => logger'.srcSvc \in overlapped \/ Holds(logger'.srcSvc, logger.src)
<1>1. ASSUME IInv, [Next]_vars PROVE [A]_vars
  <2>1. logger \in LogStates BY <1>1 DEF IInv, TypeOK
  <2>2. CASE LookupDst
    <3>1. logger.pc = "dst" /\ logger'.pc = "src" /\ logger'.dstSvc = Attribution(logger.dst)
      BY <2>1, <2>2 DEF LookupDst, LogStates
    <3>2. logger.dst \in Ends BY <2>1 DEF LogStates
    <3> QED BY <1>1, <3>1, <3>2, AttributionHolds
  <2>3. CASE LookupSrc
    <3>1. logger.pc = "src" /\ logger'.pc = "forward" /\ logger'.srcSvc = Attribution(logger.src)
      BY <2>1, <2>3 DEF LookupSrc, LogStates
    <3>2. logger.src \in Ends BY <2>1 DEF LogStates
    <3> QED BY <1>1, <3>1, <3>2, AttributionHolds
  <2>4. CASE \E h \in Handlers : HandlerStep(h)
    <3>1. logger' = logger
      BY <2>4 DEF HandlerStep, AddSvcEvent, UpdateSvcEvent, DeleteSvcEvent, Begin,
                  Lookup, PurgeIP, WriteIP, StoreCache, InsertSvc
    <3> QED BY <3>1
  <2>5. CASE \E dst, src \in Ends : TakeLog(dst, src)
    BY <2>5 DEF TakeLog
  <2>6. CASE Forward BY <2>6 DEF Forward
  <2>7. CASE FatalErrorRestart BY <2>7 DEF FatalErrorRestart, Waiting
  <2>8. CASE UNCHANGED vars BY <2>8 DEF vars
  <2> QED BY <1>1, <2>2, <2>3, <2>4, <2>5, <2>6, <2>7, <2>8 DEF Next, LoggerStep
<1> QED BY <1>1, IndexInvariant, PTL DEF Spec, AttributionIsCurrent
===============================================================================
