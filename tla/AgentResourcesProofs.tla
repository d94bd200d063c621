------------------------- MODULE AgentResourcesProofs -------------------------
(***************************************************************************)
(* Theorems about the agent's maps, for any pods, services, IPs and        *)
(* lookups.  The pods' and the services' halves of the state are changed   *)
(* by different goroutines, so the invariant is proved half by half.       *)
(***************************************************************************)
EXTENDS AgentResources, TLAPS

USE ResourcesAssumption

\* The half of the invariant that the informer of the pods keeps.
PodTypeOK ==
    /\ podMap \in [IPs -> Pods \cup {Nobody}]
    /\ pods \in [Pods -> IPs \cup {NoIP, Absent}]
    /\ moved \subseteq Pods
    /\ shared \subseteq IPs

PodPart == PodTypeOK /\ PodSound /\ PodComplete

\* The half that the informer of the services keeps.
ServiceTypeOK ==
    /\ serviceMap \in [IPs -> Services \cup {Nobody}]
    /\ services \in [Services -> ServiceSpecs \cup {Absent}]
    /\ callback \in [pc : {"idle", "maps"}, svc : Services \cup {Nobody},
                     purge : SUBSET IPs, write : SUBSET IPs]
    /\ contested \subseteq IPs

ServicePart ==
    ServiceTypeOK /\ CallbackOK /\ ServiceSound /\ ServiceComplete /\ Written /\ UniqueClaim

ReaderTypeOK ==
    reader \in [Readers -> [pc : {"idle", "pod", "service", "insert"},
                            ip : IPs \cup {NoIP}, res : Pods \cup Services \cup {Nobody}]]

ReaderPart == ReaderTypeOK /\ ReaderOK

LEMMA Parts == IInv <=> PodPart /\ ServicePart /\ ReaderPart
BY DEF IInv, TypeOK, PodPart, PodTypeOK, ServicePart, ServiceTypeOK, ReaderPart, ReaderTypeOK

\* The IPs a version of a service is indexed under.
LEMMA IndexedType == \A spec \in ServiceSpecs : Indexed(spec) \in SUBSET IPs
BY DEF Indexed, Versions

LEMMA IPsOfType == ASSUME ServiceTypeOK, NEW s \in Services PROVE IPsOf(s) \in SUBSET IPs
BY IndexedType DEF ServiceTypeOK, IPsOf

-----------------------------------------------------------------------------
\* What the initial states and a restart have in common.
Empty ==
    /\ podMap = [i \in IPs |-> Nobody]
    /\ serviceMap = [i \in IPs |-> Nobody]
    /\ pods = [p \in Pods |-> Absent]
    /\ services = [s \in Services |-> Absent]
    /\ callback = Idle
    /\ reader = [r \in Readers |-> NoLookup]
    /\ moved = {} /\ shared = {} /\ contested = {}

\* Empty maps satisfy the invariant.
LEMMA EmptyIInv == Empty => IInv
<1> SUFFICES ASSUME Empty PROVE IInv OBVIOUS
<1> USE DEF Empty
<1>1. PodPart
  BY DEF PodPart, PodTypeOK, PodSound, PodComplete
<1>2. ServicePart
  <2>1. ServiceTypeOK BY DEF ServiceTypeOK, Idle
  <2>2. CallbackOK BY DEF CallbackOK, Idle
  <2>3. ServiceSound BY DEF ServiceSound
  <2>4. \A s \in Services : IPsOf(s) = {} /\ ~InCallback(s)
    BY DEF IPsOf, InCallback, Idle
  <2>5. ServiceComplete BY <2>4 DEF ServiceComplete
  <2>6. Written BY <2>4 DEF Written
  <2>7. UniqueClaim BY <2>4 DEF UniqueClaim, Claims
  <2> QED BY <2>1, <2>2, <2>3, <2>5, <2>6, <2>7 DEF ServicePart
<1>3. ReaderPart
  BY DEF ReaderPart, ReaderTypeOK, ReaderOK, NoLookup
<1> QED BY <1>1, <1>2, <1>3, Parts

LEMMA RestartedKeepsIInv == IInv /\ Restarted => IInv'
<1> SUFFICES ASSUME IInv, Restarted PROVE IInv' OBVIOUS
<1>1. Empty' BY DEF Empty, Restarted, IInv, TypeOK
<1> QED BY <1>1, EmptyIInv, PTL

-----------------------------------------------------------------------------
\* Each half depends on its own variables.
LEMMA PodPartStays == PodPart /\ UNCHANGED podVars => PodPart'
BY DEF PodPart, PodTypeOK, PodSound, PodComplete, podVars

LEMMA ServicePartStays == ServicePart /\ UNCHANGED serviceVars => ServicePart'
BY DEF ServicePart, ServiceTypeOK, CallbackOK, ServiceSound, ServiceComplete, Written,
       UniqueClaim, Claims, IPsOf, InCallback, serviceVars

LEMMA ReaderPartStays == ReaderPart /\ UNCHANGED reader => ReaderPart'
BY DEF ReaderPart, ReaderTypeOK, ReaderOK

-----------------------------------------------------------------------------
\* The informer of the pods.

\* A pod is added or updated.
LEMMA PodSeenKeeps ==
  ASSUME PodPart, NEW p \in Pods, NEW ip \in IPs \cup {NoIP},
         PodAddFunc(p, ip) \/ PodUpdateFunc(p, ip)
  PROVE  PodPart'
<1> USE DEF PodPart, PodTypeOK
<1>1. PodSeen(p, ip) BY DEF PodAddFunc, PodUpdateFunc
<1>2. /\ moved \subseteq moved'
      /\ pods[p] \in IPs /\ pods[p] # ip => p \in moved'
      /\ moved' \subseteq Pods
  BY DEF PodAddFunc, PodUpdateFunc
<1>3. PodTypeOK'
  BY <1>1, <1>2 DEF PodSeen
<1>4. PodSound'
  <2> SUFFICES ASSUME NEW i \in IPs, NEW q \in Pods \ moved', podMap'[i] = q
               PROVE  pods'[q] = i
    BY DEF PodSound
  <2>1. CASE i = ip
    BY <1>1, <2>1 DEF PodSeen
  <2>2. CASE i # ip
    <3>1. podMap[i] = q /\ q \notin moved
      BY <1>1, <1>2, <2>2 DEF PodSeen
    <3>2. pods[q] = i
      BY <3>1 DEF PodSound
    <3>3. q # p
      BY <1>2, <2>2, <3>2
    <3> QED BY <1>1, <3>2, <3>3 DEF PodSeen
  <2> QED BY <2>1, <2>2
<1>5. PodComplete'
  <2> SUFFICES ASSUME NEW q \in Pods, NEW i \in IPs \ shared', pods'[q] = i
               PROVE  podMap'[i] = q
    BY DEF PodComplete
  <2>1. CASE q = p
    BY <1>1, <2>1 DEF PodSeen
  <2>2. CASE q # p
    <3>1. pods[q] = i /\ i \notin shared
      BY <1>1, <2>2 DEF PodSeen
    <3>2. i # ip
      BY <1>1, <2>2, <3>1 DEF PodSeen
    <3> QED BY <1>1, <3>1, <3>2 DEF PodSeen, PodComplete
  <2> QED BY <2>1, <2>2
<1> QED BY <1>3, <1>4, <1>5

\* A pod goes away.
LEMMA PodDeleteFuncKeeps ==
  ASSUME PodPart, NEW p \in Pods, PodDeleteFunc(p)
  PROVE  PodPart'
<1> USE DEF PodPart, PodTypeOK, PodDeleteFunc
<1>1. PodTypeOK' OBVIOUS
<1>2. PodSound'
  <2> SUFFICES ASSUME NEW i \in IPs, NEW q \in Pods \ moved', podMap'[i] = q
               PROVE  pods'[q] = i
    BY DEF PodSound
  <2>1. podMap[i] = q OBVIOUS
  <2>2. pods[q] = i BY <2>1 DEF PodSound
  <2>3. q # p
    BY <2>2
  <2> QED BY <2>2, <2>3
<1>3. ASSUME NEW q \in Pods, q # p, NEW i \in IPs \ shared, pods[q] = i
      PROVE  pods[p] # i
  <2>1. podMap[i] = q BY <1>3 DEF PodComplete
  <2>2. pods[p] = i => podMap[i] = p BY <1>3 DEF PodComplete
  <2> QED BY <1>3, <2>1, <2>2
<1>4. PodComplete'
  BY <1>3 DEF PodComplete
<1> QED BY <1>1, <1>2, <1>4

-----------------------------------------------------------------------------
\* The informer of the services.

\* A callback begins, for a service that is added, updated or deleted.
LEMMA ServiceSeenKeeps ==
  ASSUME ServicePart, NEW s \in Services, NEW spec \in ServiceSpecs \cup {Absent},
         NEW write \in SUBSET IPs,
         write = IF spec = Absent THEN {} ELSE Indexed(spec),
         ServiceSeen(s, spec, IPsOf(s), write)
  PROVE  ServicePart'
<1> USE DEF ServicePart, ServiceTypeOK, ServiceSeen
<1>1. IPsOf(s)' = write /\ \A t \in Services \ {s} : IPsOf(t)' = IPsOf(t)
  BY DEF IPsOf
<1>2. \A t \in Services : ~InCallback(t)
  BY DEF InCallback, CallbackOK, Idle
<1>3. InCallback(s)' /\ \A t \in Services \ {s} : ~InCallback(t)'
  BY DEF InCallback
<1>4. ServiceTypeOK' BY IPsOfType
<1>5. CallbackOK' BY <1>1 DEF CallbackOK, Idle
<1>6. ServiceSound'
  BY <1>1, <1>2, <1>3 DEF ServiceSound
<1>7. ServiceComplete'
  BY <1>1, <1>2, <1>3 DEF ServiceComplete
<1>8. Written'
  BY <1>1, <1>3 DEF Written
<1>9. UniqueClaim'
  <2>1. \A t \in Services : Claims(t) = IPsOf(t) BY <1>2 DEF Claims
  <2>2. Claims(s)' = write \cup IPsOf(s)
    BY <1>1, <1>3 DEF Claims
  <2>3. \A t \in Services \ {s} : Claims(t)' = IPsOf(t)
    BY <1>1, <1>3 DEF Claims
  <2> SUFFICES ASSUME NEW ip \in IPs \ contested', NEW t \in Services, NEW u \in Services,
                      ip \in Claims(t)', ip \in Claims(u)', t # u
               PROVE  FALSE
    BY DEF UniqueClaim
  <2>4. ip \notin contested OBVIOUS
  <2>5. ASSUME NEW v \in Services \ {s}, ip \in IPsOf(v)
        PROVE  ip \notin write /\ ip \notin IPsOf(s)
    BY <2>1, <2>4, <2>5 DEF UniqueClaim
  <2>6. CASE t = s BY <2>2, <2>3, <2>5, <2>6
  <2>7. CASE u = s BY <2>2, <2>3, <2>5, <2>7
  <2>8. CASE t # s /\ u # s BY <2>1, <2>3, <2>4, <2>8 DEF UniqueClaim
  <2> QED BY <2>6, <2>7, <2>8
<1> QED BY <1>4, <1>5, <1>6, <1>7, <1>8, <1>9

\* An entry of the old version is deleted.
LEMMA removeServiceIPsKeeps ==
  ASSUME ServicePart, NEW ip \in IPs, removeServiceIPs(ip)
  PROVE  ServicePart'
<1> USE DEF ServicePart, ServiceTypeOK, removeServiceIPs
<1>1. PICK s \in Services : InCallback(s) /\ callback.pc = "maps"
  BY DEF CallbackOK, InCallback, Idle
<1>2. \A t \in Services : (InCallback(t)' <=> t = s) /\ (InCallback(t) <=> t = s)
  BY <1>1 DEF InCallback
<1>3. \A t \in Services : IPsOf(t)' = IPsOf(t)
  BY DEF IPsOf
<1>4. callback.write = IPsOf(s)
  BY <1>1 DEF CallbackOK, InCallback
<1>5. ServiceTypeOK' OBVIOUS
<1>6. CallbackOK' BY <1>1, <1>3 DEF CallbackOK, InCallback
<1>7. ServiceSound'
  BY <1>2, <1>3 DEF ServiceSound
<1>8. ServiceComplete'
  <2>1. \A t \in Services : ip \in IPsOf(t) \ contested => t = s
    BY <1>1 DEF UniqueClaim, Claims
  <2> QED BY <1>2, <1>3, <2>1 DEF ServiceComplete
<1>9. Written'
  BY <1>2, <1>3, <1>4 DEF Written
<1>10. UniqueClaim'
  BY <1>2, <1>3 DEF UniqueClaim, Claims
<1> QED BY <1>5, <1>6, <1>7, <1>8, <1>9, <1>10

\* An entry of the new version is written.
LEMMA addOrUpdateServiceIPsKeeps ==
  ASSUME ServicePart, NEW ip \in IPs, addOrUpdateServiceIPs(ip)
  PROVE  ServicePart'
<1> USE DEF ServicePart, ServiceTypeOK, addOrUpdateServiceIPs
<1>1. PICK s \in Services : InCallback(s) /\ callback.pc = "maps"
  BY DEF CallbackOK, InCallback, Idle
<1>2. \A t \in Services : (InCallback(t)' <=> t = s) /\ (InCallback(t) <=> t = s)
  BY <1>1 DEF InCallback
<1>3. \A t \in Services : IPsOf(t)' = IPsOf(t)
  BY DEF IPsOf
<1>4. ip \in IPsOf(s) /\ callback.svc = s
  BY <1>1 DEF CallbackOK, InCallback
<1>5. ServiceTypeOK' BY <1>4
<1>6. CallbackOK' BY <1>1, <1>3 DEF CallbackOK, InCallback
<1>7. ServiceSound'
  BY <1>2, <1>3, <1>4 DEF ServiceSound
<1>8. ServiceComplete'
  <2>1. \A t \in Services : ip \in IPsOf(t) \ contested => t = s
    BY <1>4 DEF UniqueClaim, Claims
  <2> QED BY <1>2, <1>3, <2>1 DEF ServiceComplete
<1>9. Written'
  BY <1>2, <1>3, <1>4 DEF Written
<1>10. UniqueClaim'
  BY <1>2, <1>3 DEF UniqueClaim, Claims
<1> QED BY <1>5, <1>6, <1>7, <1>8, <1>9, <1>10

\* A callback returns.
LEMMA CallbackReturnsKeeps ==
  ASSUME ServicePart, CallbackReturns
  PROVE  ServicePart'
<1> USE DEF ServicePart, ServiceTypeOK, CallbackReturns
<1>1. PICK s \in Services : InCallback(s)
  BY DEF CallbackOK, InCallback
<1>2. \A t \in Services : InCallback(t) <=> t = s
  BY <1>1 DEF InCallback
<1>3. \A t \in Services : IPsOf(t)' = IPsOf(t) /\ ~InCallback(t)'
  BY DEF IPsOf, InCallback, Idle
<1>4. ServiceTypeOK' BY DEF Idle
<1>5. CallbackOK' BY DEF CallbackOK, Idle
<1>6. ServiceSound'
  BY <1>2, <1>3 DEF ServiceSound
<1>7. ServiceComplete'
  BY <1>2, <1>3 DEF ServiceComplete, Written
<1>8. Written'
  BY <1>3 DEF Written
<1>9. UniqueClaim'
  BY <1>3 DEF UniqueClaim, Claims
<1> QED BY <1>4, <1>5, <1>6, <1>7, <1>8, <1>9

\* Any step of the informer of the services.
LEMMA ServiceInformerKeeps == ServicePart /\ ServiceInformer => ServicePart'
<1> SUFFICES ASSUME ServicePart, ServiceInformer PROVE ServicePart' OBVIOUS
<1> USE IndexedType
<1>1. ASSUME NEW s \in Services, NEW spec \in ServiceSpecs, SvcAddFunc(s, spec)
      PROVE  ServicePart'
  <2>1. IPsOf(s) = {} BY <1>1 DEF SvcAddFunc, IPsOf
  <2> QED BY <1>1, <2>1, ServiceSeenKeeps DEF SvcAddFunc, Versions
<1>2. ASSUME NEW s \in Services, NEW spec \in ServiceSpecs, SvcUpdateFunc(s, spec)
      PROVE  ServicePart'
  BY <1>2, ServiceSeenKeeps DEF SvcUpdateFunc, Versions
<1>3. ASSUME NEW s \in Services, SvcDeleteFunc(s) PROVE ServicePart'
  BY <1>3, ServiceSeenKeeps DEF SvcDeleteFunc
<1>4. ASSUME NEW ip \in IPs, removeServiceIPs(ip) PROVE ServicePart'
  BY <1>4, removeServiceIPsKeeps
<1>5. ASSUME NEW ip \in IPs, addOrUpdateServiceIPs(ip) PROVE ServicePart'
  BY <1>5, addOrUpdateServiceIPsKeeps
<1>6. CASE CallbackReturns BY <1>6, CallbackReturnsKeeps
<1> QED BY <1>1, <1>2, <1>3, <1>4, <1>5, <1>6 DEF ServiceInformer

-----------------------------------------------------------------------------
\* A lookup changes its own state.
LEMMA LookupKeeps ==
  ASSUME IInv, NEW r \in Readers, LookupK8sResource(r)
  PROVE  ReaderPart'
<1> USE DEF ReaderPart, ReaderTypeOK, ReaderOK, IInv, TypeOK, NoLookup, Look
<1>1. ASSUME NEW ip \in IPs, Receive(r, ip) PROVE ReaderPart'
  BY <1>1 DEF Receive
<1>2. CASE LookForPod(r)
  <2>1. reader[r].ip \in IPs /\ podMap[reader[r].ip] \in Pods \cup {Nobody}
    BY <1>2 DEF LookForPod
  <2>2. CASE podMap[reader[r].ip] = Nobody
    <3>1. reader' = [reader EXCEPT ![r] = [reader[r] EXCEPT !.pc = "service"]]
      BY <1>2, <2>2 DEF LookForPod
    <3> QED BY <2>1, <3>1
  <2>3. CASE podMap[reader[r].ip] # Nobody
    <3>1. reader' = [reader EXCEPT ![r] = Found(r, podMap[reader[r].ip])]
      BY <1>2, <2>3 DEF LookForPod
    <3> QED BY <2>1, <3>1 DEF Found
  <2> QED BY <2>2, <2>3
<1>3. CASE LookForService(r) BY <1>3 DEF LookForService, Found
<1>4. CASE InsertAPILog(r) BY <1>4 DEF InsertAPILog
<1> QED BY <1>1, <1>2, <1>3, <1>4 DEF LookupK8sResource

\* What a step of a lookup leaves alone.
LEMMA LookupOnly ==
  ASSUME NEW r \in Readers, LookupK8sResource(r)
  PROVE  UNCHANGED <<podVars, serviceVars>>
BY DEF LookupK8sResource, Receive, LookForPod, LookForService, InsertAPILog, Look

LEMMA NextParts == PodPart' /\ ServicePart' /\ ReaderPart' => IInv'
BY Parts, PTL

LEMMA StepKeepsIInv == IInv /\ [Next]_vars => IInv'
<1> SUFFICES ASSUME IInv, [Next]_vars PROVE IInv' OBVIOUS
<1>1. CASE PodInformer
  <2>1. UNCHANGED <<serviceVars, reader>>
    BY <1>1 DEF PodInformer, PodAddFunc, PodUpdateFunc, PodDeleteFunc, PodSeen
  <2>2. PodPart'
    BY <1>1, Parts, PodSeenKeeps, PodDeleteFuncKeeps DEF PodInformer
  <2> QED BY <2>1, <2>2, Parts, NextParts, ServicePartStays, ReaderPartStays
<1>2. CASE ServiceInformer
  <2>1. UNCHANGED <<podVars, reader>>
    BY <1>2 DEF ServiceInformer, SvcAddFunc, SvcUpdateFunc, SvcDeleteFunc, ServiceSeen,
                removeServiceIPs, addOrUpdateServiceIPs, CallbackReturns
  <2>2. ServicePart' BY <1>2, Parts, ServiceInformerKeeps
  <2> QED BY <2>1, <2>2, Parts, NextParts, PodPartStays, ReaderPartStays
<1>3. ASSUME NEW r \in Readers, LookupK8sResource(r) PROVE IInv'
  <2>1. UNCHANGED podVars /\ UNCHANGED serviceVars
    BY <1>3, LookupOnly
  <2>2. ReaderPart' BY <1>3, LookupKeeps
  <2> QED BY <2>1, <2>2, Parts, NextParts, PodPartStays, ServicePartStays
<1>4. CASE TombstonePanics \/ FatalErrorRestart
  BY <1>4, RestartedKeepsIInv DEF TombstonePanics, FatalErrorRestart
<1>5. CASE UNCHANGED vars
  <2>1. UNCHANGED podVars /\ UNCHANGED serviceVars /\ UNCHANGED reader
    BY <1>5 DEF vars
  <2> QED BY <2>1, Parts, NextParts, PodPartStays, ServicePartStays, ReaderPartStays
<1> QED BY <1>1, <1>2, <1>3, <1>4, <1>5 DEF Next

-----------------------------------------------------------------------------
(***************************************************************************)
(* The invariant of the agent's maps holds in every state.                 *)
(***************************************************************************)
THEOREM ResourcesInvariant == Spec => []IInv
<1>1. Init => IInv
  BY EmptyIInv DEF Init, Empty
<1> QED BY <1>1, StepKeepsIInv, PTL DEF Spec

(***************************************************************************)
(* Every variable of the agent's maps keeps its type.                      *)
(***************************************************************************)
THEOREM ResourcesTypeCorrect == Spec => []TypeOK
<1>1. IInv => TypeOK BY DEF IInv
<1> QED BY <1>1, ResourcesInvariant, PTL

(***************************************************************************)
(* An entry of podMap names a pod that has the IP, or one that moved: the  *)
(* update of initInformers deletes no old entry.                           *)
(***************************************************************************)
THEOREM PodMapSound == Spec => []PodSound
<1>1. IInv => PodSound BY DEF IInv
<1> QED BY <1>1, ResourcesInvariant, PTL

(***************************************************************************)
(* A pod is found under its IP unless two pods shared the IP.              *)
(***************************************************************************)
THEOREM PodMapComplete == Spec => []PodComplete
<1>1. IInv => PodComplete BY DEF IInv
<1> QED BY <1>1, ResourcesInvariant, PTL

(***************************************************************************)
(* An entry of serviceMap names a service that has the IP, or one whose    *)
(* callback is about to delete or has just written it.                     *)
(***************************************************************************)
THEOREM ServiceMapSound == Spec => []ServiceSound
<1>1. IInv => ServiceSound BY DEF IInv
<1> QED BY <1>1, ResourcesInvariant, PTL

(***************************************************************************)
(* A service is found under its indexed IPs between its callbacks.         *)
(***************************************************************************)
THEOREM ServiceMapComplete == Spec => []ServiceComplete
<1>1. IInv => ServiceComplete BY DEF IInv
<1> QED BY <1>1, ResourcesInvariant, PTL

-----------------------------------------------------------------------------
\* A step of a lookup answers rightly.
LEMMA LookupAnswers ==
  ASSUME IInv, NEW q \in Readers, LookupK8sResource(q), NEW r \in Readers
  PROVE  Answered(r) /\ Missed(r)
<1> USE DEF IInv, TypeOK, Answered, Missed
<1>1. ASSUME NEW ip \in IPs, Receive(q, ip) PROVE Answered(r) /\ Missed(r)
  BY <1>1 DEF Receive, Look, NoLookup
<1>2. CASE LookForPod(q)
  <2> DEFINE ip == reader[q].ip
  <2>1. ip \in IPs /\ reader[q].pc = "pod" /\ UNCHANGED podVars
    BY <1>2 DEF LookForPod, ReaderOK, Look
  <2>2. CASE podMap[ip] = Nobody
    <3>1. reader' = [reader EXCEPT ![q] = [reader[q] EXCEPT !.pc = "service"]]
      BY <1>2, <2>2 DEF LookForPod, Look
    <3>2. \A p \in Pods : pods[p] = ip => ip \in shared
      BY <2>1, <2>2 DEF PodComplete
    <3> QED BY <2>1, <3>1, <3>2 DEF podVars
  <2>3. CASE podMap[ip] # Nobody
    <3>1. reader' = [reader EXCEPT ![q] = Found(q, podMap[ip])]
      BY <1>2, <2>3 DEF LookForPod, Look
    <3>2. AnswerIsRight(ip, podMap[ip])
      BY <2>1, <2>3 DEF AnswerIsRight, PodSound
    <3> QED BY <2>1, <3>1, <3>2 DEF Found
  <2> QED BY <2>2, <2>3
<1>3. CASE LookForService(q)
  <2> DEFINE ip == reader[q].ip
  <2>1. ip \in IPs /\ reader' = [reader EXCEPT ![q] = Found(q, serviceMap[ip])]
    BY <1>3 DEF LookForService, ReaderOK, Look
  <2>2. AnswerIsRight(ip, serviceMap[ip])
    <3>1. serviceMap[ip] \notin Pods BY <2>1
    <3>2. \A s \in Services : serviceMap[ip] = s =>
             ip \in IPsOf(s) \/ (InCallback(s) /\ ip \in callback.purge)
      BY <2>1 DEF ServiceSound
    <3>3. serviceMap[ip] = Nobody =>
             \A s \in Services : ip \notin IPsOf(s) \ contested \/ InCallback(s)
      BY <2>1 DEF ServiceComplete
    <3> QED BY <3>1, <3>2, <3>3 DEF AnswerIsRight
  <2> QED BY <2>1, <2>2 DEF Found
<1>4. CASE InsertAPILog(q) BY <1>4 DEF InsertAPILog, Look, NoLookup
<1> QED BY <1>1, <1>2, <1>3, <1>4 DEF LookupK8sResource

(***************************************************************************)
(* LookupK8sResource names a pod or service that has the IP when it reads  *)
(* the entry, and misses one only as LookupIsRight says.                   *)
(***************************************************************************)
THEOREM LookupsAreRight == Spec => LookupIsRight
<1>1. IInv /\ [Next]_vars => [\A r \in Readers : Answered(r) /\ Missed(r)]_vars
  <2> SUFFICES ASSUME IInv, Next, NEW r \in Readers
               PROVE  Answered(r) /\ Missed(r)
    OBVIOUS
  <2>1. CASE PodInformer \/ ServiceInformer
    <3>1. reader' = reader
      BY <2>1 DEF PodInformer, PodAddFunc, PodUpdateFunc, PodDeleteFunc, PodSeen,
                  ServiceInformer, SvcAddFunc, SvcUpdateFunc, SvcDeleteFunc, ServiceSeen,
                  removeServiceIPs, addOrUpdateServiceIPs, CallbackReturns
    <3> QED BY <3>1 DEF Answered, Missed
  <2>2. ASSUME NEW q \in Readers, LookupK8sResource(q) PROVE Answered(r) /\ Missed(r)
    BY <2>2, LookupAnswers
  <2>3. CASE TombstonePanics \/ FatalErrorRestart
    <3>1. reader'[r].pc = "idle"
      BY <2>3 DEF TombstonePanics, FatalErrorRestart, Restarted, NoLookup
    <3> QED BY <3>1 DEF Answered, Missed
  <2> QED BY <2>1, <2>2, <2>3 DEF Next
<1> QED BY <1>1, ResourcesInvariant, PTL DEF Spec, LookupIsRight
=============================================================================
