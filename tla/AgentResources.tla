---------------------------- MODULE AgentResources ----------------------------
(***************************************************************************)
(* The agent's maps from an IP to the pod or the service that has it       *)
(* (agent/k8s), which the collectors ask to name the ends of a log.        *)
(*                                                                         *)
(* The informer of the pods calls back in a goroutine of its own and the   *)
(* informer of the services in another; each is the only writer of its     *)
(* map.  A pod's callback is one map access, a service's is one per IP.    *)
(* The collectors' gRPC handlers read both maps, and no mutex guards them  *)
(* ("NOT thread safe").  client-go (external) calls back for one object at *)
(* a time and in order, with the objects it has delivered before; objects  *)
(* change and go away in any order.                                        *)
(***************************************************************************)

CONSTANTS
    Pods, Services,
    IPs,
    ServiceSpecs,  \* the versions of a service the instance looks at
    Readers,       \* handlers of the collectors that look up an IP at a time
    NoIP,          \* the IP of a pod that has none
    Absent,        \* not, or no longer, delivered by the informer
    Nobody         \* no entry in a map, resource "Unknown"

\* Type is LoadBalancer; the cluster and external IPs; the load balancer's.
Versions == [lb : BOOLEAN, own : SUBSET IPs, ingress : SUBSET IPs]

ASSUME ResourcesAssumption ==
    /\ ServiceSpecs \subseteq Versions
    /\ Pods \cap Services = {} /\ Nobody \notin Pods \cup Services
    /\ NoIP \notin IPs
    /\ Absent \notin IPs \cup {NoIP} \cup Versions

VARIABLES
    podMap,     \* IP -> pod or Nobody
    serviceMap, \* IP -> service or Nobody
    pods,       \* pod -> the IP of the object last delivered, NoIP or Absent
    services,   \* service -> the object last delivered, or Absent
    callback,   \* the service informer's goroutine
    reader,     \* the local state of each handler that looks up an IP
    moved,      \* history: pods that changed or lost their IP
    shared,     \* history: IPs that two pods had at the same time
    contested   \* history: IPs that two services had at the same time

podVars == <<podMap, pods, moved, shared>>
serviceVars == <<serviceMap, services, callback, contested>>
vars == <<podVars, serviceVars, reader>>

Idle == [pc |-> "idle", svc |-> Nobody, purge |-> {}, write |-> {}]
NoLookup == [pc |-> "idle", ip |-> NoIP, res |-> Nobody]

TypeOK ==
    /\ podMap \in [IPs -> Pods \cup {Nobody}]
    /\ serviceMap \in [IPs -> Services \cup {Nobody}]
    /\ pods \in [Pods -> IPs \cup {NoIP, Absent}]
    /\ services \in [Services -> ServiceSpecs \cup {Absent}]
    /\ callback \in [pc : {"idle", "maps"}, svc : Services \cup {Nobody},
                     purge : SUBSET IPs, write : SUBSET IPs]
    /\ reader \in [Readers -> [pc : {"idle", "pod", "service", "insert"},
                               ip : IPs \cup {NoIP}, res : Pods \cup Services \cup {Nobody}]]
    /\ moved \subseteq Pods
    /\ shared \subseteq IPs /\ contested \subseteq IPs

Init ==
    /\ podMap = [i \in IPs |-> Nobody]
    /\ serviceMap = [i \in IPs |-> Nobody]
    /\ pods = [p \in Pods |-> Absent]
    /\ services = [s \in Services |-> Absent]
    /\ callback = Idle
    /\ reader = [r \in Readers |-> NoLookup]
    /\ moved = {} /\ shared = {} /\ contested = {}

-----------------------------------------------------------------------------
\* The informer of the pods.

\* Mutant: an entry that is there already is kept.
PodSeenKeepsOld(p, ip) ==
    /\ pods' = [pods EXCEPT ![p] = ip]
    /\ podMap' = [i \in IPs |-> IF i = ip /\ podMap[i] = Nobody THEN p ELSE podMap[i]]
    /\ shared' = shared \cup {i \in IPs \cap {ip} : \E q \in Pods \ {p} : pods[q] = i}
    /\ UNCHANGED <<serviceVars, reader>>

\* podMap[ip] = pod, and go UploadClusterEvent (EventPipeline has the upload);
\* nothing for a pod with no IP.
PodSeen(p, ip) ==
    /\ pods' = [pods EXCEPT ![p] = ip]
    /\ podMap' = [i \in IPs |-> IF i = ip THEN p ELSE podMap[i]]
    /\ shared' = shared \cup {i \in IPs \cap {ip} : \E q \in Pods \ {p} : pods[q] = i}
    /\ UNCHANGED <<serviceVars, reader>>

PodAddFunc(p, ip) ==
    /\ pods[p] = Absent
    /\ PodSeen(p, ip)
    /\ UNCHANGED moved

PodUpdateFunc(p, ip) ==
    /\ pods[p] # Absent
    /\ PodSeen(p, ip)
    /\ moved' = IF pods[p] \in {NoIP, ip} THEN moved ELSE moved \cup {p}

\* Mutant: the entry is not deleted.
PodDeleteFuncKeepsEntry(p) ==
    /\ pods[p] # Absent
    /\ pods' = [pods EXCEPT ![p] = Absent]
    /\ UNCHANGED <<podMap, moved, shared, serviceVars, reader>>

\* delete(podMap, ip), whichever pod has the entry by now, and go
\* UploadClusterEvent; nothing, not even the upload, for a pod with no IP.
PodDeleteFunc(p) ==
    /\ pods[p] # Absent
    /\ pods' = [pods EXCEPT ![p] = Absent]
    /\ podMap' = [ip \in IPs |-> IF ip = pods[p] THEN Nobody ELSE podMap[ip]]
    /\ UNCHANGED <<moved, shared, serviceVars, reader>>

-----------------------------------------------------------------------------
\* The informer of the services.

\* The IPs that addOrUpdateServiceIPs and removeServiceIPs go through: those
\* of a load balancer are not looked up by its cluster IP.
Indexed(spec) == IF spec.lb THEN spec.ingress ELSE spec.own
IPsOf(s) == IF services[s] = Absent THEN {} ELSE Indexed(services[s])

InCallback(s) == callback.svc = s

\* A callback begins: removeServiceIPs(old), then addOrUpdateServiceIPs(new).
ServiceSeen(s, spec, purge, write) ==
    /\ callback.pc = "idle"
    /\ services' = [services EXCEPT ![s] = spec]
    /\ callback' = [pc |-> "maps", svc |-> s, purge |-> purge, write |-> write]
    /\ contested' = contested \cup {i \in write : \E t \in Services \ {s} : i \in IPsOf(t)}
    /\ UNCHANGED <<serviceMap, podVars, reader>>

SvcAddFunc(s, spec) ==
    /\ services[s] = Absent
    /\ ServiceSeen(s, spec, {}, Indexed(spec))

\* Mutant: the old version's IPs stay when the service changes.
SvcUpdateFuncKeepsOld(s, spec) ==
    /\ services[s] # Absent
    /\ ServiceSeen(s, spec, {}, Indexed(spec))

SvcUpdateFunc(s, spec) ==
    /\ services[s] # Absent
    /\ ServiceSeen(s, spec, IPsOf(s), Indexed(spec))

SvcDeleteFunc(s) ==
    /\ services[s] # Absent
    /\ ServiceSeen(s, Absent, IPsOf(s), {})

\* Mutant: the entry is set to nil instead of being deleted.
removeServiceIPsNil(ip) ==
    /\ ip \in callback.purge
    /\ serviceMap' = [serviceMap EXCEPT ![ip] = Absent]
    /\ callback' = [callback EXCEPT !.purge = @ \ {ip}]
    /\ UNCHANGED <<services, contested, podVars, reader>>

\* delete(serviceMap, ip), whichever service has the entry by now.
removeServiceIPs(ip) ==
    /\ ip \in callback.purge
    /\ serviceMap' = [serviceMap EXCEPT ![ip] = Nobody]
    /\ callback' = [callback EXCEPT !.purge = @ \ {ip}]
    /\ UNCHANGED <<services, contested, podVars, reader>>

\* Mutant: the new version's IPs are not written after the old ones are gone.
addServiceIPsAnyTime(ip) ==
    /\ ip \in callback.write
    /\ serviceMap' = [serviceMap EXCEPT ![ip] = callback.svc]
    /\ callback' = [callback EXCEPT !.write = @ \ {ip}]
    /\ UNCHANGED <<services, contested, podVars, reader>>

addOrUpdateServiceIPs(ip) ==
    /\ callback.purge = {}
    /\ ip \in callback.write
    /\ serviceMap' = [serviceMap EXCEPT ![ip] = callback.svc]
    /\ callback' = [callback EXCEPT !.write = @ \ {ip}]
    /\ UNCHANGED <<services, contested, podVars, reader>>

\* go uploader.UplH.UploadClusterEvent(...), and the callback returns.
CallbackReturns ==
    /\ callback.pc = "maps"
    /\ callback.purge = {} /\ callback.write = {}
    /\ callback' = Idle
    /\ UNCHANGED <<serviceMap, services, contested, podVars, reader>>

-----------------------------------------------------------------------------
\* LookupK8sResource, called by a collector's handler for an end of a log.

Look(r, state) ==
    /\ reader' = [reader EXCEPT ![r] = state]
    /\ UNCHANGED <<podVars, serviceVars>>

Receive(r, ip) ==
    /\ reader[r].pc = "idle"
    /\ Look(r, [NoLookup EXCEPT !.pc = "pod", !.ip = ip])

Found(r, res) == [pc |-> "insert", ip |-> reader[r].ip, res |-> res]

\* Mutant: the service map is not asked.
LookForPodOnly(r) ==
    /\ reader[r].pc = "pod"
    /\ Look(r, Found(r, podMap[reader[r].ip]))

\* Look for the pod map first; a pod hides a service with the same IP.
LookForPod(r) ==
    LET p == podMap[reader[r].ip] IN
    /\ reader[r].pc = "pod"
    /\ Look(r, IF p = Nobody THEN [reader[r] EXCEPT !.pc = "service"]
                             ELSE Found(r, p))

LookForService(r) ==
    /\ reader[r].pc = "service"
    /\ Look(r, Found(r, serviceMap[reader[r].ip]))

\* processor.InsertAPILog with the names found, or "Unknown".
InsertAPILog(r) ==
    /\ reader[r].pc = "insert"
    /\ Look(r, NoLookup)

-----------------------------------------------------------------------------
\* The agent's process dies and starts again; the informers announce anew.

Restarted ==
    /\ podMap' = [i \in IPs |-> Nobody]
    /\ serviceMap' = [i \in IPs |-> Nobody]
    /\ pods' = [p \in Pods |-> Absent]
    /\ services' = [s \in Services |-> Absent]
    /\ callback' = Idle
    /\ reader' = [r \in Readers |-> NoLookup]
    /\ moved' = {} /\ shared' = {} /\ contested' = {}

\* An object went away while the watch was broken: the informer delivers a
\* DeletedFinalStateUnknown, and the callback's type assertion panics.
TombstonePanics ==
    /\ \/ \E p \in Pods : pods[p] # Absent
       \/ callback.pc = "idle" /\ \E s \in Services : services[s] # Absent
    /\ Restarted

\* A lookup overlaps a write of the same map: the Go runtime may throw
\* "concurrent map read and map write".
FatalErrorRestart ==
    /\ \/ \E r \in Readers : reader[r].pc = "pod"
       \/ /\ callback.purge \cup callback.write # {}
          /\ \E r \in Readers : reader[r].pc = "service"
    /\ Restarted

-----------------------------------------------------------------------------
PodInformer ==
    \/ \E p \in Pods, ip \in IPs \cup {NoIP} : PodAddFunc(p, ip) \/ PodUpdateFunc(p, ip)
    \/ \E p \in Pods : PodDeleteFunc(p)

ServiceInformer ==
    \/ \E s \in Services, spec \in ServiceSpecs : SvcAddFunc(s, spec) \/ SvcUpdateFunc(s, spec)
    \/ \E s \in Services : SvcDeleteFunc(s)
    \/ \E ip \in IPs : removeServiceIPs(ip) \/ addOrUpdateServiceIPs(ip)
    \/ CallbackReturns

LookupK8sResource(r) ==
    \/ \E ip \in IPs : Receive(r, ip)
    \/ LookForPod(r) \/ LookForService(r) \/ InsertAPILog(r)

Next ==
    \/ PodInformer
    \/ ServiceInformer
    \/ \E r \in Readers : LookupK8sResource(r)
    \/ TombstonePanics
    \/ FatalErrorRestart

Spec == Init /\ [][Next]_vars

-----------------------------------------------------------------------------
(***************************************************************************)
(* PodSound: an entry of podMap names a pod that has the IP, but for the   *)
(* entry under an IP that a pod has left: the update writes the new IP and *)
(* deletes nothing, so the old entry stays, even when the pod has gone.    *)
(***************************************************************************)
PodSound ==
    \A ip \in IPs : \A p \in Pods \ moved : podMap[ip] = p => pods[p] = ip

(***************************************************************************)
(* PodComplete: a pod is found under its IP, unless two pods had the IP at *)
(* the same time (pods on the host's network; a finished pod whose IP was  *)
(* given away): the end of one deletes the entry of the other.             *)
(***************************************************************************)
PodComplete ==
    \A p \in Pods : \A ip \in IPs \ shared : pods[p] = ip => podMap[ip] = p

(***************************************************************************)
(* ServiceSound: an entry of serviceMap names a service that has the IP,   *)
(* or one whose callback has still to delete that entry or has just        *)
(* written it.                                                             *)
(***************************************************************************)
ServiceSound ==
    \A ip \in IPs : \A s \in Services :
        serviceMap[ip] = s =>
            ip \in IF InCallback(s) THEN callback.purge \cup (IPsOf(s) \ callback.write)
                                    ELSE IPsOf(s)

(***************************************************************************)
(* ServiceComplete: a service is found under each of its indexed IPs when  *)
(* no callback is between its accesses for it, unless two services had the *)
(* IP at the same time.                                                    *)
(***************************************************************************)
ServiceComplete ==
    \A s \in Services : ~InCallback(s) =>
        \A ip \in IPsOf(s) \ contested : serviceMap[ip] = s

\* What an answer says of the moment it is read.
AnswerIsRight(ip, res) ==
    /\ res \in Pods => res \in moved \/ pods[res] = ip
    /\ res \in Services => ip \in IPsOf(res) \/ (InCallback(res) /\ ip \in callback.purge)
    /\ res = Nobody => \A s \in Services : \/ ip \notin IPsOf(s) \ contested
                                           \/ InCallback(s)

Answered(r) ==
    reader'[r].pc = "insert" /\ reader[r].pc # "insert" =>
        AnswerIsRight(reader[r].ip, reader'[r].res)

Missed(r) ==
    reader'[r].pc = "service" =>
        \A p \in Pods : pods'[p] = reader[r].ip =>
            reader[r].ip \in shared' \/ reader[r].pc = "service"

(***************************************************************************)
(* LookupIsRight: a lookup names only a pod or service that has the IP     *)
(* when it reads the entry, and misses only a pod whose IP is shared, or a *)
(* service that is being updated or whose IP is contested; informers may   *)
(* be anywhere between two accesses.                                       *)
(***************************************************************************)
LookupIsRight == [][\A r \in Readers : Answered(r) /\ Missed(r)]_vars

-----------------------------------------------------------------------------
\* The inductive invariant: the above, and what a callback knows.

CallbackOK ==
    /\ callback.pc = "maps" <=> callback.svc \in Services
    /\ callback.pc = "idle" => callback = Idle
    /\ callback.pc = "maps" => callback.write \subseteq IPsOf(callback.svc)
    /\ callback.purge # {} => callback.write = IPsOf(callback.svc)

\* Past the purge, what a callback has written is still there.
Written ==
    \A s \in Services : (InCallback(s) /\ callback.purge = {}) =>
        \A ip \in (IPsOf(s) \ callback.write) \ contested : serviceMap[ip] = s

Claims(s) == IPsOf(s) \cup (IF InCallback(s) THEN callback.purge ELSE {})

UniqueClaim ==
    \A ip \in IPs \ contested : \A s, t \in Services :
        ip \in Claims(s) /\ ip \in Claims(t) => s = t

\* A lookup under way looks for an IP.
ReaderOK == \A r \in Readers : reader[r].pc \in {"pod", "service"} => reader[r].ip \in IPs

IInv == /\ TypeOK
        /\ PodSound /\ PodComplete
        /\ CallbackOK /\ ServiceSound /\ ServiceComplete /\ Written /\ UniqueClaim
        /\ ReaderOK
=============================================================================
