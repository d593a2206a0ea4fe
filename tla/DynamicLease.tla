---------------------------- MODULE DynamicLease ----------------------------
(***************************************************************************)
(* Dynamic leases (src/internal/manager/dynamic.go, and what of manager.go *)
(* and store.go they share with the pool): a call acquires an endpoint     *)
(* from the proxy API, probes it, and installs it as the client's lease,   *)
(* while pool calls, releases, expiry, connections and restarts go on. The *)
(* settings a call reads may be any: the API disabled, the front anywhere. *)
(*                                                                         *)
(* Each action is one critical section under Manager.mu, or a step between *)
(* two of them.  The lock per client is ClientMutex, which DynamicGate     *)
(* implements.  The pool takes part as far as it meets dynamic leases: its *)
(* batches, queue order and health checks are those of LeaseManager.       *)
(***************************************************************************)
EXTENDS Naturals, FiniteSets

CONSTANTS
    Clients,    \* client IPs
    Pool,       \* IDs of pool proxies
    Ids,        \* IDs newDynamicProxyID returns
    Addresses,  \* endpoints of the proxy API that are not the pool's
    Params,     \* normalized requests: country and duration
    Calls,      \* slots for concurrent API calls
    Conns,      \* slots for connections of the gateway
    Events      \* which events of the environment may happen

AllEvents == {"pool", "refresh", "expiry", "dbfail", "restart", "conns"}

NoProxy == "noproxy"
NoClient == "noclient"
NoParams == "pool"
NoAddress == "noaddress"
Worker == "worker"
Callers == Calls \cup {Worker}
Proxies == Pool \cup Ids

ASSUME EventsAssumption == Events \subseteq AllEvents
ASSUME NamesAssumption ==
    /\ Pool \cap Ids = {} /\ NoProxy \notin Proxies
    /\ NoClient \notin Clients /\ NoParams \notin Params
    /\ NoAddress \notin Addresses /\ Worker \notin Calls
\* The connections that are open at a time.
ASSUME ConnsAssumption == IsFiniteSet(Conns)

VARIABLES
    proxies,      \* m.proxies
    leases,       \* m.leases; params is NoParams unless Mode is "api"
    pendingNew,   \* m.pendingNew, as a set
    pendingRefs,  \* m.pendingRefs, as a set
    conns,        \* m.conns, with the proxy each connection was given
    calls,        \* the API calls, and the queue worker's, in progress
    sweep,        \* expired clients collected by expireLeases, not yet released
    dropping,     \* dynamic proxies UnregisterConn still deletes from the tables
    rows,         \* the rows of dynamic proxies (proxies and dynamic_proxies)
    dbLeases      \* the leases table

pool == << pendingNew, pendingRefs >>
db == << rows, dbLeases >>
vars == << proxies, leases, pool, conns, calls, sweep, dropping, db >>

Proxy == [status : {"absent", "idle", "checking", "active", "draining", "unhealthy"},
          client : Clients \cup {NoClient}, drainingFor : Clients \cup {NoClient},
          conns : Nat, address : Addresses \cup {NoAddress}, params : Params \cup {NoParams}]
Absent == [status |-> "absent", client |-> NoClient, drainingFor |-> NoClient,
           conns |-> 0, address |-> NoAddress, params |-> NoParams]

Lease == [proxy : Proxies \cup {NoProxy}, params : Params \cup {NoParams}, expired : BOOLEAN]
NoLease == [proxy |-> NoProxy, params |-> NoParams, expired |-> FALSE]

Row == [address : Addresses \cup {NoAddress}, params : Params \cup {NoParams}]
NoRow == [address |-> NoAddress, params |-> NoParams]

FreeConn == [client |-> NoClient, proxy |-> NoProxy]

\* A call: what it asks for, the endpoint it acquired, the pool proxy it probes.
Inside == {"check", "acquire", "duplicate", "probe", "failing"}
Call == [pc : {"idle", "gate", "reserve", "poolprobe", "refused"} \cup Inside,
         client : Clients \cup {NoClient}, params : Params \cup {NoParams}, refresh : BOOLEAN,
         address : Addresses \cup {NoAddress}, proxy : Proxies \cup {NoProxy}]
IdleCall == [pc |-> "idle", client |-> NoClient, params |-> NoParams, refresh |-> FALSE,
             address |-> NoAddress, proxy |-> NoProxy]

Init ==
    /\ proxies = [p \in Proxies |->
                    IF p \in Pool THEN [Absent EXCEPT !.status = "idle"] ELSE Absent]
    /\ leases = [c \in Clients |-> NoLease]
    /\ pendingNew = {} /\ pendingRefs = {}
    /\ conns = [k \in Conns |-> FreeConn]
    /\ calls = [r \in Callers |-> IdleCall]
    /\ sweep = {} /\ dropping = {}
    /\ rows = [i \in Ids |-> NoRow]
    /\ dbLeases = [c \in Clients |-> NoProxy]

----------------------------------------------------------------------------
(* Reading the state.                                                      *)

Present(p) == proxies[p].status # "absent"
HasLease(c) == leases[c].proxy # NoProxy
Live(c) == HasLease(c) /\ ~leases[c].expired
HasActiveLease(ls, p) == \E c \in Clients : ls[c].proxy = p /\ ~ls[c].expired

\* Mutated form of Takeable: without the comparison of Source.
TakeableAny(ps, ls) == {p \in Proxies : ps[p].status = "idle" /\ ~HasActiveLease(ls, p)}
\* What takeIdleProxyLocked may return.
Takeable(ps, ls) == {p \in Pool : ps[p].status = "idle" /\ ~HasActiveLease(ls, p)}

proxyAddressExists(a) == \E p \in Proxies : Present(p) /\ proxies[p].address = a

\* An ID no lease, row, connection or deletion in progress refers to: random
\* IDs do not repeat.
FreshId(i) ==
    /\ ~Present(i) /\ rows[i] = NoRow /\ i \notin dropping
    /\ \A c \in Clients : leases[c].proxy # i /\ dbLeases[c] # i
    /\ \A k \in Conns : conns[k].proxy # i

Stages == [r \in Calls |->
    IF calls[r].pc \in Inside THEN [pc |-> "inside", client |-> calls[r].client]
    ELSE IF calls[r].pc = "gate" THEN [pc |-> "waiting", client |-> calls[r].client]
    ELSE [pc |-> "idle", client |-> NoClient]]
Gate == INSTANCE ClientMutex WITH stage <- Stages

----------------------------------------------------------------------------
(* What happens to one proxy record, as in LeaseManager.                   *)

markProxyIdle(p) ==
    [p EXCEPT !.client = NoClient, !.drainingFor = NoClient, !.conns = 0,
              !.status = IF p.status = "unhealthy" THEN "unhealthy" ELSE "idle"]

releaseProxyBinding(p, c) ==
    IF p.conns > 0
    THEN [p EXCEPT !.client = NoClient, !.drainingFor = c,
                   !.status = IF p.status = "unhealthy" THEN "unhealthy" ELSE "draining"]
    ELSE [p EXCEPT !.client = NoClient, !.drainingFor = NoClient,
                   !.status = IF p.status = "unhealthy" THEN "unhealthy" ELSE "idle"]

drain(p, c) == [p EXCEPT !.status = "draining", !.client = NoClient, !.drainingFor = c]

\* A connection of p closes; the last one of a drained proxy makes it idle.
connClosed(p) ==
    IF p.status = "draining" /\ p.conns = 1 THEN markProxyIdle(p)
    ELSE [p EXCEPT !.conns = @ - 1]

----------------------------------------------------------------------------
(* The tables.  Only activateDynamicProxy looks at the error of a write.   *)

MayFail == "dbfail" \in Events
storeLease(c, p) ==
    \/ dbLeases' = [dbLeases EXCEPT ![c] = p]
    \/ MayFail /\ UNCHANGED dbLeases
deleteRows(ids) ==
    \E kept \in SUBSET ids :
        /\ kept # {} => MayFail
        /\ rows' = [i \in Ids |-> IF i \in ids \ kept THEN NoRow ELSE rows[i]]

----------------------------------------------------------------------------
(* releaseLocked: the lease, the proxies bound to it, and then every       *)
(* dynamic proxy without connections and without an unexpired lease.       *)

releasedLeases(c) == [leases EXCEPT ![c] = NoLease]

unboundProxies(c) ==
    [p \in Proxies |->
        IF \/ p = leases[c].proxy /\ Present(p) /\ ~HasActiveLease(releasedLeases(c), p)
           \/ proxies[p].drainingFor = c
        THEN releaseProxyBinding(proxies[p], c) ELSE proxies[p]]

\* Mutated form of unowned: connections are ignored.
UnownedDespiteConns(ps, ls) ==
    {i \in Ids : ps[i].status # "absent" /\ ~HasActiveLease(ls, i)}

unowned(ps, ls) ==
    {i \in Ids : ps[i].status # "absent" /\ ps[i].conns = 0 /\ ~HasActiveLease(ls, i)}

releasedProxies(c) ==
    LET ps == unboundProxies(c)
        gone == unowned(ps, releasedLeases(c))
    IN [p \in Proxies |-> IF p \in gone THEN Absent ELSE ps[p]]

releaseLease(c) ==
    /\ leases' = releasedLeases(c)
    /\ proxies' = releasedProxies(c)
    /\ storeLease(c, NoProxy)
    /\ deleteRows(unowned(unboundProxies(c), releasedLeases(c)))

removeQueued(c) == pendingNew' = pendingNew \ {c} /\ pendingRefs' = pendingRefs \ {c}

releaseLocked(c) ==
    /\ removeQueued(c)
    /\ \/ HasLease(c) /\ releaseLease(c)
       \/ ~HasLease(c) /\ UNCHANGED << leases, proxies, db >>

Release(c) ==
    /\ releaseLocked(c)
    /\ UNCHANGED << conns, calls, sweep, dropping >>

----------------------------------------------------------------------------
(* The API: which calls a request becomes.                                 *)

Starts(r, c, pc, params, refresh) ==
    calls' = [calls EXCEPT ![r] = [IdleCall EXCEPT !.pc = pc, !.client = c,
                                                   !.params = params, !.refresh = refresh]]
OnlyCalls == UNCHANGED << proxies, leases, pool, conns, sweep, dropping, db >>

\* POST /v1/lease and /v1/lease/refresh with country and duration.
requestDynamic(r, c, params, refresh) ==
    /\ calls[r].pc = "idle"
    /\ refresh => "refresh" \in Events
    /\ Starts(r, c, "gate", params, refresh)
    /\ OnlyCalls

\* POST /v1/lease without a body.
requestPool(r, c) ==
    /\ "pool" \in Events
    /\ calls[r].pc = "idle"
    /\ Starts(r, c, "reserve", NoParams, FALSE)
    /\ OnlyCalls

\* POST /v1/lease/refresh without a body: DynamicRequestForClient decides, and
\* the lease may be another one when the refresh takes place.
requestRefresh(r, c) ==
    /\ "refresh" \in Events
    /\ calls[r].pc = "idle"
    /\ \/ /\ Live(c) /\ leases[c].params # NoParams
          /\ Starts(r, c, "gate", leases[c].params, TRUE)
       \/ /\ ~Live(c) \/ leases[c].params = NoParams
          /\ "pool" \in Events
          /\ Starts(r, c, "reserve", NoParams, TRUE)
    /\ OnlyCalls

----------------------------------------------------------------------------
(* LeaseDynamicContext.                                                    *)

Goto(r, pc) == calls' = [calls EXCEPT ![r].pc = pc]
Returns(r) == calls' = [calls EXCEPT ![r] = IdleCall]

\* Mutated form of enterGate: no lock.
EnterFreely(r) ==
    /\ calls[r].pc = "gate"
    /\ Goto(r, "check")
    /\ OnlyCalls

enterGate(r) ==
    /\ calls[r].pc = "gate"
    /\ Gate!Free(Stages, calls[r].client)
    /\ Goto(r, "check")
    /\ OnlyCalls

gateCanceled(r) ==
    /\ calls[r].pc = "gate"
    /\ Goto(r, "refused")
    /\ OnlyCalls

\* The current lease answers a request it satisfies.
Satisfied(r) ==
    LET l == leases[calls[r].client] IN
    /\ ~calls[r].refresh
    /\ l.proxy # NoProxy /\ l.params = calls[r].params
    /\ calls[r].client \notin pendingRefs

checkCurrent(r) ==
    /\ calls[r].pc = "check"
    /\ \/ Satisfied(r) /\ Returns(r)
       \/ ~Satisfied(r) /\ Goto(r, "acquire")
    /\ OnlyCalls

Fails(r) == calls' = [calls EXCEPT ![r].pc = "failing", ![r].address = NoAddress]

\* The proxy API is disabled, the provider fails, or it returns an endpoint that
\* is neither the front's nor, when it is looked up, the pool's.
acquireEndpoint(r) ==
    /\ calls[r].pc = "acquire"
    /\ \/ Fails(r)
       \/ \E a \in Addresses :
            calls' = [calls EXCEPT ![r].pc = "duplicate", ![r].address = a]
    /\ OnlyCalls

checkDuplicate(r) ==
    /\ calls[r].pc = "duplicate"
    /\ IF proxyAddressExists(calls[r].address) THEN Fails(r) ELSE Goto(r, "probe")
    /\ OnlyCalls

probeFailed(r) ==
    /\ calls[r].pc = "probe"
    /\ Fails(r)
    /\ OnlyCalls

\* The endpoint became a duplicate, or the transaction fails: nothing changes.
activationRefused(r) ==
    /\ calls[r].pc = "probe"
    /\ proxyAddressExists(calls[r].address) \/ MayFail
    /\ Fails(r)
    /\ OnlyCalls

\* The dynamic proxy the new lease replaces and no connection uses.
Replaced(c) == {i \in Ids : i = leases[c].proxy /\ Present(i) /\ proxies[i].conns = 0}

\* The pool once the lease of c is replaced.
replacedProxies(c) ==
    [p \in Proxies |->
        IF p # leases[c].proxy \/ ~Present(p) THEN proxies[p]
        ELSE IF proxies[p].conns > 0 THEN drain(proxies[p], c)
        ELSE IF p \in Ids THEN Absent ELSE markProxyIdle(proxies[p])]

installs(r, i) ==
    LET c == calls[r].client
        q == calls[r].params
        a == calls[r].address
    IN /\ proxies' = [replacedProxies(c) EXCEPT ![i] =
                        [Absent EXCEPT !.status = "active", !.client = c,
                                       !.address = a, !.params = q]]
       /\ leases' = [leases EXCEPT ![c] = [proxy |-> i, params |-> q, expired |-> FALSE]]
       /\ dbLeases' = [dbLeases EXCEPT ![c] = i]
       /\ removeQueued(c)
       /\ Returns(r)
       /\ UNCHANGED << conns, sweep, dropping >>

\* Mutated form of storeDynamic: the rows of the replaced proxy stay.
StoreKeepsOld(c, i, row) == rows' = [rows EXCEPT ![i] = row]
storeDynamic(c, i, row) ==
    rows' = [j \in Ids |-> IF j = i THEN row
                           ELSE IF j \in Replaced(c) THEN NoRow ELSE rows[j]]

\* Mutated form of activateDynamicProxy: the address is not looked up again.
ActivateUnchecked(r) ==
    /\ calls[r].pc = "probe"
    /\ \E i \in Ids :
         /\ FreshId(i)
         /\ storeDynamic(calls[r].client, i,
                         [address |-> calls[r].address, params |-> calls[r].params])
         /\ installs(r, i)

activateDynamicProxy(r) ==
    /\ calls[r].pc = "probe"
    /\ ~proxyAddressExists(calls[r].address)
    /\ \E i \in Ids :
         /\ FreshId(i)
         /\ storeDynamic(calls[r].client, i,
                         [address |-> calls[r].address, params |-> calls[r].params])
         /\ installs(r, i)

\* What currentAssignmentLocked finds, expired or not: the error names it.
currentAssignment(c) == leases[c].proxy

dynamicLeaseError(r) ==
    /\ calls[r].pc \in {"failing", "refused"}
    /\ Returns(r)
    /\ OnlyCalls

----------------------------------------------------------------------------
(* Pool calls, and the queue worker.                                       *)

reserveProxyForLease(r) ==
    LET c == calls[r].client
        stale == HasLease(c) /\ leases[c].expired
        ls == IF stale THEN releasedLeases(c) ELSE leases
        ps == IF stale THEN releasedProxies(c) ELSE proxies
        new == IF stale THEN pendingNew \ {c} ELSE pendingNew
        refs == IF stale THEN pendingRefs \ {c} ELSE pendingRefs
    IN
    /\ calls[r].pc = "reserve"
    /\ leases' = ls
    /\ IF stale
       THEN storeLease(c, NoProxy) /\ deleteRows(unowned(unboundProxies(c), ls))
       ELSE UNCHANGED db
    /\ \/ /\ ~calls[r].refresh /\ ls[c].proxy # NoProxy
          /\ proxies' = ps /\ pendingNew' = new /\ pendingRefs' = refs
          /\ Returns(r)
       \/ /\ calls[r].refresh \/ ls[c].proxy = NoProxy
          /\ Takeable(ps, ls) = {}
          /\ proxies' = ps
          /\ pendingNew' = IF calls[r].refresh THEN new ELSE new \cup {c}
          /\ pendingRefs' = IF calls[r].refresh THEN refs \cup {c} ELSE refs
          /\ Returns(r)
       \/ /\ calls[r].refresh \/ ls[c].proxy = NoProxy
          /\ pendingNew' = new /\ pendingRefs' = refs
          /\ \E p \in Takeable(ps, ls) :
               /\ proxies' = [ps EXCEPT ![p].status = "checking", ![p].client = c,
                                        ![p].drainingFor = NoClient]
               /\ calls' = [calls EXCEPT ![r].pc = "poolprobe", ![r].proxy = p]
    /\ UNCHANGED << conns, sweep, dropping >>

\* The probe of a reserved proxy succeeds; only a refresh gives the proxy of
\* the lease it replaces back, and gives it back as idle whatever its source.
activateCheckedProxy(r) ==
    LET c == calls[r].client
        p == calls[r].proxy
        old == leases[c].proxy
        left == IF calls[r].refresh /\ HasLease(c) /\ Present(old)
                THEN [proxies EXCEPT ![old] = IF @.conns > 0 THEN drain(@, c)
                                              ELSE markProxyIdle(@)]
                ELSE proxies
    IN
    /\ calls[r].pc = "poolprobe"
    /\ proxies' = [left EXCEPT ![p].status = "active", ![p].client = c,
                               ![p].drainingFor = NoClient]
    /\ leases' = [leases EXCEPT ![c] = [proxy |-> p, params |-> NoParams, expired |-> FALSE]]
    /\ removeQueued(c)
    /\ storeLease(c, p)
    /\ Returns(r)
    /\ UNCHANGED << conns, sweep, dropping, rows >>

poolProbeFailed(r) ==
    /\ calls[r].pc = "poolprobe"
    /\ proxies' = [proxies EXCEPT ![calls[r].proxy].status = "unhealthy",
                                  ![calls[r].proxy].client = NoClient]
    /\ calls' = [calls EXCEPT ![r].pc = "reserve", ![r].proxy = NoProxy]
    /\ UNCHANGED << leases, pool, conns, sweep, dropping, db >>

\* The worker takes a client from the queues, new clients first.
nextQueuedClient ==
    /\ calls[Worker].pc = "idle"
    /\ Takeable(proxies, leases) # {}
    /\ \/ \E c \in pendingNew :
            /\ pendingNew' = pendingNew \ {c}
            /\ Starts(Worker, c, "reserve", NoParams, FALSE)
            /\ UNCHANGED pendingRefs
       \/ \E c \in pendingRefs :
            /\ pendingNew = {}
            /\ pendingRefs' = pendingRefs \ {c}
            /\ Starts(Worker, c, "reserve", NoParams, TRUE)
            /\ UNCHANGED pendingNew
    /\ UNCHANGED << proxies, leases, conns, sweep, dropping, db >>

----------------------------------------------------------------------------
(* Expiry and connections.                                                 *)

leaseExpires(c) ==
    /\ "expiry" \in Events
    /\ Live(c)
    /\ leases' = [leases EXCEPT ![c].expired = TRUE]
    /\ UNCHANGED << proxies, pool, conns, calls, sweep, dropping, db >>

collectExpired ==
    /\ sweep = {}
    /\ sweep' = {c \in Clients : HasLease(c) /\ leases[c].expired}
    /\ sweep' # {}
    /\ UNCHANGED << proxies, leases, pool, conns, calls, dropping, db >>

expireLease(c) ==
    /\ c \in sweep
    /\ sweep' = sweep \ {c}
    /\ releaseLocked(c)
    /\ UNCHANGED << conns, calls, dropping >>

AcquireProxyConn(k, c) ==
    LET p == leases[c].proxy IN
    /\ "conns" \in Events
    /\ conns[k] = FreeConn
    /\ Live(c)
    /\ proxies[p].status = "active" /\ proxies[p].client = c
    /\ conns' = [conns EXCEPT ![k] = [client |-> c, proxy |-> p]]
    /\ proxies' = [proxies EXCEPT ![p].conns = @ + 1]
    /\ UNCHANGED << leases, pool, calls, sweep, dropping, db >>

\* The last connection of a dynamic proxy without a lease.
LastUse(p) == p \in Ids /\ proxies[p].conns = 1 /\ ~HasActiveLease(leases, p)

\* Mutated form of UnregisterConn: a drained dynamic proxy is treated as any.
UnregisterToPool(k) ==
    LET p == conns[k].proxy IN
    /\ conns[k] # FreeConn
    /\ conns' = [conns EXCEPT ![k] = FreeConn]
    /\ Present(p) /\ proxies[p].conns > 0
    /\ proxies' = [proxies EXCEPT ![p] = connClosed(@)]
    /\ UNCHANGED << leases, pool, calls, sweep, dropping, db >>

UnregisterConn(k) ==
    LET p == conns[k].proxy IN
    /\ conns[k] # FreeConn
    /\ conns' = [conns EXCEPT ![k] = FreeConn]
    /\ \/ /\ ~Present(p) \/ proxies[p].conns = 0
          /\ UNCHANGED << proxies, dropping >>
       \/ /\ Present(p) /\ LastUse(p)
          /\ proxies' = [proxies EXCEPT ![p] = Absent]
          /\ dropping' = dropping \cup {p}
       \/ /\ Present(p) /\ proxies[p].conns > 0 /\ ~LastUse(p)
          /\ proxies' = [proxies EXCEPT ![p] = connClosed(@)]
          /\ UNCHANGED dropping
    /\ UNCHANGED << leases, pool, calls, sweep, db >>

\* UnregisterConn deletes the rows after it has unlocked.
deleteDropped(i) ==
    /\ i \in dropping
    /\ dropping' = dropping \ {i}
    /\ deleteRows({i})
    /\ UNCHANGED << proxies, leases, pool, conns, calls, sweep, dbLeases >>

----------------------------------------------------------------------------
(* New after a crash: rows whose time is over are deleted, then leases     *)
(* whose proxy is not there, then dynamic proxies without a lease.         *)

\* Clients whose stored lease and, for a dynamic proxy, row may still be valid.
Surviving == {c \in Clients :
    /\ dbLeases[c] # NoProxy
    /\ dbLeases[c] \in Ids => rows[dbLeases[c]] # NoRow
    /\ ~(leases[c].proxy = dbLeases[c] /\ leases[c].expired)}

Restart ==
    /\ "restart" \in Events
    /\ \E survivors \in SUBSET Surviving :
         leases' = [c \in Clients |->
               IF c \notin survivors THEN NoLease
               ELSE [proxy |-> dbLeases[c], expired |-> FALSE,
                     params |-> IF dbLeases[c] \in Ids THEN rows[dbLeases[c]].params
                                ELSE NoParams]]
    /\ dbLeases' = [c \in Clients |-> leases'[c].proxy]
    /\ \E owner \in [Proxies -> Clients \cup {NoClient}] :
         /\ \A p \in Proxies :
               IF \E c \in Clients : leases'[c].proxy = p
               THEN owner[p] # NoClient /\ leases'[owner[p]].proxy = p
               ELSE owner[p] = NoClient
         /\ proxies' = [p \in Proxies |->
               LET row == IF p \in Ids THEN rows[p]
                          ELSE [address |-> proxies[p].address, params |-> NoParams]
               IN IF p \in Ids /\ owner[p] = NoClient THEN Absent
                  ELSE [Absent EXCEPT !.status = IF owner[p] = NoClient THEN "idle" ELSE "active",
                                      !.client = owner[p],
                                      !.address = row.address, !.params = row.params]]
         /\ rows' = [i \in Ids |-> IF owner[i] = NoClient THEN NoRow ELSE rows[i]]
    /\ pendingNew' = {} /\ pendingRefs' = {}
    /\ conns' = [k \in Conns |-> FreeConn]
    /\ calls' = [r \in Callers |-> IdleCall]
    /\ sweep' = {} /\ dropping' = {}

----------------------------------------------------------------------------
DynamicStep(r) ==
    \/ checkCurrent(r)
    \/ acquireEndpoint(r)
    \/ checkDuplicate(r)
    \/ probeFailed(r)
    \/ activationRefused(r)
    \/ activateDynamicProxy(r)
    \/ dynamicLeaseError(r)

PoolStep(r) == reserveProxyForLease(r) \/ activateCheckedProxy(r) \/ poolProbeFailed(r)

Next ==
    \/ \E r \in Calls, c \in Clients :
         \/ \E q \in Params, refresh \in BOOLEAN : requestDynamic(r, c, q, refresh)
         \/ requestPool(r, c)
         \/ requestRefresh(r, c)
    \/ \E r \in Calls : enterGate(r) \/ gateCanceled(r) \/ DynamicStep(r)
    \/ \E r \in Callers : PoolStep(r)
    \/ nextQueuedClient
    \/ \E c \in Clients : Release(c) \/ leaseExpires(c) \/ expireLease(c)
    \/ collectExpired
    \/ \E k \in Conns : UnregisterConn(k) \/ \E c \in Clients : AcquireProxyConn(k, c)
    \/ \E i \in Ids : deleteDropped(i)
    \/ Restart

Spec == Init /\ [][Next]_vars

\* A call inside the gate goes on: the provider request, the probe and the
\* database have timeouts.  The gate serves its blocked callers in order.
FairSpec ==
    /\ Spec
    /\ \A r \in Calls : WF_vars(DynamicStep(r)) /\ SF_vars(enterGate(r))

----------------------------------------------------------------------------
(* Properties.                                                             *)

\* Type invariant of the manager's maps, the calls in progress and the tables.
TypeOK ==
    /\ proxies \in [Proxies -> Proxy]
    /\ leases \in [Clients -> Lease]
    /\ pendingNew \subseteq Clients /\ pendingRefs \subseteq Clients
    /\ conns \in [Conns -> [client : Clients \cup {NoClient}, proxy : Proxies \cup {NoProxy}]]
    /\ calls \in [Callers -> Call]
    /\ sweep \subseteq Clients /\ dropping \subseteq Ids
    /\ rows \in [Ids -> Row]
    /\ dbLeases \in [Clients -> Proxies \cup {NoProxy}]

\* The calls keep to the lock per client that lockDynamicGate implements.
TakesTurns == Gate!Spec

\* The client asked for a new proxy of the pool, and has not got it.
AwaitsRefresh(c) ==
    \/ c \in pendingRefs
    \/ \E r \in Callers : calls[r].client = c /\ calls[r].pc \in {"reserve", "poolprobe"}

\* "The same parameters are reused": a call that is not a refresh does not buy
\* an endpoint while its client holds a live lease with the very parameters it
\* asks for, not even when two such calls come at once (LeaseDynamicContext
\* looks at the lease long before it activates).
NoWastedAcquire ==
    \A r \in Calls :
        LET c == calls[r].client IN
        /\ calls[r].pc \in {"acquire", "duplicate", "probe"}
        /\ ~calls[r].refresh
        /\ ~AwaitsRefresh(c)
        => ~(Live(c) /\ leases[c].params = calls[r].params)

\* Two dynamic proxies in the pool never share an endpoint: the activation
\* looks again, under the lock, after calls of other clients may have put the
\* same endpoint in (proxyAddressExistsLocked).
EndpointsDistinct ==
    \A i, j \in Ids : Present(i) /\ Present(j) /\ proxies[i].address = proxies[j].address => i = j

\* A dynamic proxy is owned by the lease that names it or a connection it drains.
Owned(i) == proxies[i].conns > 0 \/ \E c \in Clients : leases[c].proxy = i

\* A refresh from the pool gives back the proxy of its client's lease, which is i.
Refreshes(r, i) ==
    /\ calls[r].pc = "poolprobe" /\ calls[r].refresh /\ calls'[r].pc = "idle"
    /\ leases[calls[r].client].proxy = i

\* A plain call to the pool overtaken by a dynamic one is about to overwrite the
\* lease on i: it had found its client without a lease, a dynamic one was
\* installed while it probed, and its success does not look at it
\* (activateCheckedProxyLocked does so in a refresh only).
Overtaken(i) ==
    \E r \in Callers :
        calls[r].pc = "poolprobe" /\ ~calls[r].refresh /\ leases[calls[r].client].proxy = i

\* i has lost its last owner in this step, and is still in the pool.
Forgotten(i) == Present(i) /\ Owned(i) /\ ~Owned(i)' /\ Present(i)'

\* A dynamic proxy leaves the pool with its last owner: neither replacement,
\* release and expiry with connections open, nor the last unregistered connection
\* forgets one (releaseLocked, activateDynamicProxy, UnregisterConn).  Only the
\* success of a refresh from the pool does, which ApiNeverIdle is about.  Nothing
\* is said of a proxy while its lease is overtaken.
ApiGoesWithOwner ==
    [][\A i \in Ids : ~Overtaken(i) /\ Forgotten(i) => \E r \in Callers : Refreshes(r, i)]_vars

\* "Dynamic proxies are ... removed after release, expiry, or connection
\* draining": the same without that condition.
ApiAlwaysGoes ==
    [][\A i \in Ids : Forgotten(i) => \E r \in Callers : Refreshes(r, i)]_vars

\* An unexpired lease keeps its proxy, although every release of any client
\* sweeps all dynamic proxies (releaseLocked).
LeaseUsable ==
    \A c \in Clients : Live(c) =>
        LET p == proxies[leases[c].proxy] IN p.status = "active" /\ p.client = c

\* Replacing a lease keeps the old proxy until its connections close, and
\* counts them exactly (activateDynamicProxy, releaseLocked, UnregisterConn).
ConnsKeepProxy ==
    \A k \in Conns : conns[k] # FreeConn =>
        LET p == proxies[conns[k].proxy] IN
        /\ p.status # "absent"
        /\ p.conns = Cardinality({j \in Conns : conns[j].proxy = conns[k].proxy})

\* A dynamic proxy belongs to the client it was acquired for: after the step
\* that installs it nobody is ever given a lease on it (takeIdleProxyLocked).
ApiNeverReassigned ==
    [][\A c \in Clients : leases'[c].proxy \in Ids \ {leases[c].proxy}
          => ~Present(leases'[c].proxy)]_vars

\* As long as no write fails, the tables say what memory says: the lease of
\* each client, and a row for each dynamic proxy, until UnregisterConn has
\* deleted the row of one it dropped.  This is what New starts from.
StoredAsHeld ==
    /\ \A c \in Clients : dbLeases[c] = leases[c].proxy
    /\ \A i \in Ids : rows[i] # NoRow <=> Present(i) \/ i \in dropping

\* Every dynamic lease call ends, however calls of the client queue up.
CallsEnd == \A r \in Calls : calls[r].pc \in Inside \cup {"gate"} ~> calls[r].pc = "idle"

\* "current_lease appears only while the old lease is still valid": the error
\* of a failed call names no expired lease (dynamicLeaseErrorLocked).
ErrorLeaseValid ==
    [][\A r \in Calls :
         calls[r].pc \in {"failing", "refused"} /\ calls'[r].pc = "idle"
             /\ currentAssignment(calls[r].client) # NoProxy => Live(calls[r].client)]_vars

\* "active: client has a usable SOCKS5 assignment": a call answered with the
\* lease the client already holds is answered with an unexpired one.
ReusedLeaseLive ==
    [][\A r \in Calls :
         calls[r].pc = "check" /\ calls'[r].pc = "idle" => Live(calls[r].client)]_vars

\* "Dynamic proxies are never added to the regular idle pool": none is idle.
ApiNeverIdle == \A i \in Ids : proxies[i].status # "idle"
=============================================================================
