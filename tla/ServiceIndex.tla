----------------------------- MODULE ServiceIndex -----------------------------
(***************************************************************************)
(* The manager's service index (manager/collector).                        *)
(*                                                                         *)
(* The Collector keeps two Go maps: svcCache, the last message received    *)
(* for a service, and ipToService, the owner of each external or load      *)
(* balancer IP.  Three gRPC handlers change both, and the API log worker   *)
(* reads ipToService to name the ends of a log.  gRPC runs each call in a  *)
(* goroutine of its own and no mutex guards the maps, so the accesses of   *)
(* several calls and of the worker interleave one map access at a time, or *)
(* overlap and are killed by the Go runtime's map race detector.           *)
(***************************************************************************)
EXTENDS FiniteSets

CONSTANTS
    Services,   \* keys "cluster/namespace/name"
    IPs,        \* external and load balancer IPs
    Handlers,   \* goroutines that may serve a service event at a time
    Logs,       \* the ends <<dst, src>> of the API logs that arrive
    NoService,  \* no entry in ipToService
    Known       \* an end of a log that the agent has already resolved

ASSUME SentinelsAssumption == NoService \notin Services /\ Known \notin IPs

ASSUME LogsAssumption == Logs \subseteq (IPs \cup {Known}) \X (IPs \cup {Known})

VARIABLES
    svcCache,    \* the cached services -> the IPs of the cached message
    ipToService, \* IP -> service, or NoService
    handler,     \* the local state of each service event handler
    logger,      \* the local state of the API log worker
    overlapped,  \* history: services two handlers changed at the same time
    contested    \* history: IPs two services claimed at the same time

vars == <<svcCache, ipToService, handler, logger, overlapped, contested>>

Ends == IPs \cup {Known}
Owners == Services \cup {NoService}

Calls == [pc : {"idle", "lookup", "maps", "insert"},
          op : {"Add", "Update", "Delete"},
          svc : Owners,
          ips : SUBSET IPs,     \* the IPs of the message
          purge : SUBSET IPs,   \* entries still to delete
          write : SUBSET IPs]   \* entries still to write

LogStates == [pc : {"select", "dst", "src", "forward"},
              dst : Ends, src : Ends, dstSvc : Owners, srcSvc : Owners]

\* A handler that holds no service: none running, or past its map accesses.
Away(pc) == [pc |-> pc, op |-> "Add", svc |-> NoService,
             ips |-> {}, purge |-> {}, write |-> {}]

Waiting == [pc |-> "select", dst |-> Known, src |-> Known,
            dstSvc |-> NoService, srcSvc |-> NoService]

TypeOK ==
    /\ DOMAIN svcCache \subseteq Services
    /\ svcCache \in [DOMAIN svcCache -> SUBSET IPs]
    /\ ipToService \in [IPs -> Owners]
    /\ handler \in [Handlers -> Calls]
    /\ logger \in LogStates
    /\ overlapped \subseteq Services
    /\ contested \subseteq IPs

Init ==
    /\ svcCache = [s \in {} |-> {}]
    /\ ipToService = [i \in IPs |-> NoService]
    /\ handler = [h \in Handlers |-> Away("idle")]
    /\ logger = Waiting
    /\ overlapped = {}
    /\ contested = {}

-----------------------------------------------------------------------------
\* Handlers of service events.

Cached(s) == s \in DOMAIN svcCache
ActiveOn(h, s) == handler[h].svc = s
InMaps(h, s) == ActiveOn(h, s) /\ handler[h].pc = "maps"

\* s claims ip: in its cached message, or in a message being applied.
Holds(s, ip) ==
    \/ Cached(s) /\ ip \in svcCache[s]
    \/ \E h \in Handlers : ActiveOn(h, s) /\ ip \in handler[h].ips \cup handler[h].purge

\* A call arrives; the history variables record the claims it conflicts with.
Begin(h, op, s, ips) ==
    /\ handler[h].pc = "idle"
    /\ handler' = [handler EXCEPT ![h] = [pc |-> "lookup", op |-> op, svc |-> s,
                                          ips |-> ips, purge |-> {}, write |-> {}]]
    /\ overlapped' = overlapped \cup {t \in {s} : \E g \in Handlers : ActiveOn(g, t)}
    /\ contested' = contested \cup {i \in ips : \E t \in Services \ {s} : Holds(t, i)}
    /\ UNCHANGED <<svcCache, ipToService, logger>>

AddSvcEvent(h, s, ips) == Begin(h, "Add", s, ips)
UpdateSvcEvent(h, s, ips) == Begin(h, "Update", s, ips)
\* The agent's DELETE message carries no IPs.
DeleteSvcEvent(h, s) == Begin(h, "Delete", s, {})

\* Mutant: the entries of the old message are not purged.
LookupKeepsOld(h) ==
    LET c == handler[h] IN
    /\ c.pc = "lookup"
    /\ handler' = [handler EXCEPT ![h] = [c EXCEPT !.pc = "maps", !.write = c.ips]]
    /\ UNCHANGED <<svcCache, ipToService, logger, overlapped, contested>>

\* Read svcCache[key] and enter the map updates with the old message's IPs.
\* A Delete that finds nothing skips them: its IP lists are empty.
Lookup(h) ==
    LET c == handler[h] IN
    /\ c.pc = "lookup"
    /\ handler' = [handler EXCEPT ![h] =
         IF c.op = "Delete" /\ ~Cached(c.svc)
         THEN Away("insert")
         ELSE [c EXCEPT !.pc = "maps",
                        !.purge = IF Cached(c.svc) THEN svcCache[c.svc] ELSE {},
                        !.write = c.ips]]
    /\ UNCHANGED <<svcCache, ipToService, logger, overlapped, contested>>

\* delete(ipToService, oldIP), whoever owns the entry by now.
PurgeIP(h, ip) ==
    /\ handler[h].pc = "maps"
    /\ ip \in handler[h].purge
    /\ ipToService' = [ipToService EXCEPT ![ip] = NoService]
    /\ handler' = [handler EXCEPT ![h].purge = @ \ {ip}]
    /\ UNCHANGED <<svcCache, logger, overlapped, contested>>

\* Mutant: the new entries are not kept after the old ones are gone.
WriteIPAnyTime(h, ip) ==
    /\ handler[h].pc = "maps"
    /\ ip \in handler[h].write
    /\ ipToService' = [ipToService EXCEPT ![ip] = handler[h].svc]
    /\ handler' = [handler EXCEPT ![h].write = @ \ {ip}]
    /\ UNCHANGED <<svcCache, logger, overlapped, contested>>

\* ipToService[ip] = svc, after the last old entry is gone.
WriteIP(h, ip) ==
    /\ handler[h].pc = "maps"
    /\ handler[h].purge = {}
    /\ ip \in handler[h].write
    /\ ipToService' = [ipToService EXCEPT ![ip] = handler[h].svc]
    /\ handler' = [handler EXCEPT ![h].write = @ \ {ip}]
    /\ UNCHANGED <<svcCache, logger, overlapped, contested>>

\* Mutant: the message is cached before the old entries are purged.
StoreCacheEarly(h) ==
    LET c == handler[h] IN
    /\ c.pc = "maps"
    /\ c.write = {}
    /\ svcCache' = IF c.op = "Delete"
                   THEN [s \in DOMAIN svcCache \ {c.svc} |-> svcCache[s]]
                   ELSE [s \in DOMAIN svcCache \cup {c.svc} |->
                           IF s = c.svc THEN c.ips ELSE svcCache[s]]
    /\ handler' = [handler EXCEPT ![h] = Away("insert")]
    /\ UNCHANGED <<ipToService, logger, overlapped, contested>>

\* svcCache[key] = svc, or delete(svcCache, key); then the exporter's channel.
StoreCache(h) ==
    LET c == handler[h] IN
    /\ c.pc = "maps"
    /\ c.purge = {}
    /\ c.write = {}
    /\ svcCache' = IF c.op = "Delete"
                   THEN [s \in DOMAIN svcCache \ {c.svc} |-> svcCache[s]]
                   ELSE [s \in DOMAIN svcCache \cup {c.svc} |->
                           IF s = c.svc THEN c.ips ELSE svcCache[s]]
    /\ handler' = [handler EXCEPT ![h] = Away("insert")]
    /\ UNCHANGED <<ipToService, logger, overlapped, contested>>

\* exporter.InsertSvc* is taken by the exporter's worker and the call returns.
InsertSvc(h) ==
    /\ handler[h].pc = "insert"
    /\ handler' = [handler EXCEPT ![h] = Away("idle")]
    /\ UNCHANGED <<svcCache, ipToService, logger, overlapped, contested>>

-----------------------------------------------------------------------------
\* ProcessAPILogs: one log at a time, destination first.

TakeLog(dst, src) ==
    /\ logger.pc = "select"
    /\ <<dst, src>> \in Logs
    /\ logger' = [Waiting EXCEPT !.pc = "dst", !.dst = dst, !.src = src]
    /\ UNCHANGED <<svcCache, ipToService, handler, overlapped, contested>>

\* Mutant: an end with no entry is named by its address.
AttributionFallsBack(end) ==
    IF end = Known THEN NoService
    ELSE IF ipToService[end] = NoService THEN end ELSE ipToService[end]

\* An end that is not "Unknown" is left alone; so is one with no entry.
Attribution(end) == IF end = Known THEN NoService ELSE ipToService[end]

LookupDst ==
    /\ logger.pc = "dst"
    /\ logger' = [logger EXCEPT !.pc = "src", !.dstSvc = Attribution(logger.dst)]
    /\ UNCHANGED <<svcCache, ipToService, handler, overlapped, contested>>

LookupSrc ==
    /\ logger.pc = "src"
    /\ logger' = [logger EXCEPT !.pc = "forward", !.srcSvc = Attribution(logger.src)]
    /\ UNCHANGED <<svcCache, ipToService, handler, overlapped, contested>>

\* go exporter.InsertAPILog(apiLog)
Forward ==
    /\ logger.pc = "forward"
    /\ logger' = Waiting
    /\ UNCHANGED <<svcCache, ipToService, handler, overlapped, contested>>

-----------------------------------------------------------------------------
\* Two goroutines in one map, one of them writing: the Go runtime may throw
\* "concurrent map writes" or "concurrent map read and map write".

WritesIndex(h) == handler[h].pc = "maps" /\ handler[h].purge \cup handler[h].write # {}
WritesCache(h) == handler[h].pc = "maps" /\ handler[h].purge \cup handler[h].write = {}

ReadsIndex == \/ logger.pc = "dst" /\ logger.dst # Known
              \/ logger.pc = "src" /\ logger.src # Known

Racing ==
    \/ \E h \in Handlers : WritesIndex(h) /\ ReadsIndex
    \/ \E h \in Handlers : \E g \in Handlers \ {h} :
          \/ WritesIndex(h) /\ WritesIndex(g)
          \/ WritesCache(h) /\ (WritesCache(g) \/ handler[g].pc = "lookup")

\* The process dies, with every call in it, and starts again with empty maps.
FatalErrorRestart ==
    /\ Racing
    /\ svcCache' = [s \in {} |-> {}]
    /\ ipToService' = [i \in IPs |-> NoService]
    /\ handler' = [h \in Handlers |-> Away("idle")]
    /\ logger' = Waiting
    /\ overlapped' = {}
    /\ contested' = {}

-----------------------------------------------------------------------------
HandlerStep(h) ==
    \/ \E s \in Services, ips \in SUBSET IPs :
          AddSvcEvent(h, s, ips) \/ UpdateSvcEvent(h, s, ips)
    \/ \E s \in Services : DeleteSvcEvent(h, s)
    \/ Lookup(h)
    \/ \E ip \in IPs : PurgeIP(h, ip) \/ WriteIP(h, ip)
    \/ StoreCache(h)
    \/ InsertSvc(h)

LoggerStep ==
    \/ \E dst, src \in Ends : TakeLog(dst, src)
    \/ LookupDst
    \/ LookupSrc
    \/ Forward

Next ==
    \/ \E h \in Handlers : HandlerStep(h)
    \/ LoggerStep
    \/ FatalErrorRestart

Spec == Init /\ [][Next]_vars

-----------------------------------------------------------------------------
\* Safety.

(***************************************************************************)
(* Sound: an entry of ipToService names a service whose cached message     *)
(* lists the IP, or one whose handler is between its accesses and has      *)
(* still to delete that entry or has just written it.  It excludes only    *)
(* the services that two handlers changed at once.  A handler that forgot  *)
(* an old IP would leave logs attributed to a service that moved away.     *)
(***************************************************************************)
Sound ==
    \A ip \in IPs : \A s \in Services \ overlapped :
        ipToService[ip] = s =>
            IF \E h \in Handlers : InMaps(h, s)
            THEN \E h \in Handlers : /\ InMaps(h, s)
                                     /\ ip \in handler[h].purge \cup
                                              (handler[h].ips \ handler[h].write)
            ELSE Cached(s) /\ ip \in svcCache[s]

(***************************************************************************)
(* Complete: every IP of a cached message is attributed to its service     *)
(* once no handler is inside the maps for it, unless two services claimed  *)
(* the IP (the purge of the one deletes the entry of the other) or two     *)
(* handlers changed the service at once.                                   *)
(***************************************************************************)
Complete ==
    \A s \in Services \ overlapped :
        (Cached(s) /\ ~\E h \in Handlers : InMaps(h, s)) =>
            \A ip \in svcCache[s] \ contested : ipToService[ip] = s

(***************************************************************************)
(* AttributionIsCurrent: when the log worker names an end of a log, the    *)
(* service it names claims that IP at that moment, in its cached message   *)
(* or in the message a handler is applying; handlers may be anywhere       *)
(* between two accesses.  Excludes services changed by two handlers.       *)
(***************************************************************************)
AttributionIsCurrent ==
    [][/\ (logger.pc = "dst" /\ logger'.pc = "src" /\ logger'.dstSvc # NoService)
            => logger'.dstSvc \in overlapped \/ Holds(logger'.dstSvc, logger.dst)
       /\ (logger.pc = "src" /\ logger'.pc = "forward" /\ logger'.srcSvc # NoService)
            => logger'.srcSvc \in overlapped \/ Holds(logger'.srcSvc, logger.src)]_vars

-----------------------------------------------------------------------------
\* The inductive invariant: Sound and Complete with what a running handler
\* knows of its own service.

\* Only one handler works on a service that is not overlapped.
Serial ==
    \A s \in Services \ overlapped : \A g, h \in Handlers :
        ActiveOn(g, s) /\ ActiveOn(h, s) => g = h

\* Where a handler is in its accesses.
HandlerOK ==
    \A h \in Handlers :
        LET c == handler[h] IN
        /\ c.svc \in Services <=> c.pc \in {"lookup", "maps"}
        /\ c.op = "Delete" => c.ips = {}
        /\ c.write \subseteq c.ips
        /\ c.pc = "maps" /\ c.purge # {} => c.write = c.ips
        /\ c.pc # "maps" => c.purge = {} /\ c.write = {}

\* Past the purge, what a handler has written is still there.
Written ==
    \A s \in Services \ overlapped : \A h \in Handlers :
        (InMaps(h, s) /\ handler[h].purge = {}) =>
            \A ip \in (handler[h].ips \ handler[h].write) \ contested : ipToService[ip] = s

\* An IP that is not contested is claimed by one service.
UniqueHolder ==
    \A ip \in IPs \ contested : \A s, t \in Services :
        Holds(s, ip) /\ Holds(t, ip) => s = t

IInv == TypeOK /\ Serial /\ HandlerOK /\ Sound /\ Complete /\ Written /\ UniqueHolder
=============================================================================
