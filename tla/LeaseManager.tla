---------------------------- MODULE LeaseManager ----------------------------
(***************************************************************************)
(* The lease manager (src/internal/manager/manager.go, the results of      *)
(* health.go, and the rows of store.go they write): a pool of SOCKS5       *)
(* proxies handed out one per client IP, two waiting queues, the gateway's *)
(* registered connections, and the goroutines that work on them.           *)
(*                                                                         *)
(* Each action is one critical section under Manager.mu, or one step       *)
(* between two of them.  Network probes take place between the sections:   *)
(* their outcome is a choice.  Lease expiry times are kept as an expired   *)
(* flag; the order of proxyOrder, which only decides which of several idle *)
(* proxies is taken, is a choice.                                          *)
(***************************************************************************)
EXTENDS Naturals, Sequences, FiniteSets, SequencesExt

CONSTANTS
    Clients,        \* client IPs
    Proxies,        \* proxy IDs
    ConfigProxies,  \* the ones listed in the configuration file
    Requests,       \* slots for concurrent Lease / Refresh calls of the API
    Conns,          \* slots for client connections of the gateway
    FrontEnabled,   \* a front proxy is configured
    Events,         \* which events of the environment may happen
    MaxWakes        \* bound on the processQueueAsync calls counted as not yet run

AllEvents == {"refresh", "cancel", "expiry", "health", "admin", "dbfail", "restart"}

ASSUME EventsAssumption == Events \subseteq AllEvents
ASSUME ConfigAssumption == ConfigProxies \subseteq Proxies
ASSUME FrontAssumption == FrontEnabled \in BOOLEAN
ASSUME MaxWakesAssumption == MaxWakes \in Nat \ {0}
ASSUME ConnsAssumption == IsFiniteSet(Conns)

VARIABLES
    proxies,       \* m.proxies: a record per ID, "absent" when not in the map
    leases,        \* m.leases
    pendingNew,    \* m.pendingNew
    pendingRefs,   \* m.pendingRefs
    conns,         \* m.conns, with the proxy each connection was given
    reqs,          \* the ensureLease calls in progress
    gate,          \* who holds assignmentGate
    queueActive,   \* the queue worker runs
    queueRetry,    \* a retry timer of the current epoch is armed
    queueBackoff,  \* queueBackoffUntil is in the future
    wakes,         \* processQueueAsync calls about to run
    frontRetry,    \* the connector asks to retry later (circuit open or half-open)
    sweep,         \* expired clients collected by expireLeases, not yet released
    checks,        \* proxies with a health probe in flight
    dbLeases,      \* the leases table: client -> proxy
    dbProxies      \* the proxies table

NoProxy == "noproxy"
NoClient == "noclient"
Nobody == "nobody"
Worker == "worker"
Callers == Requests \cup {Worker}

ASSUME SlotsAssumption ==
    /\ NoProxy \notin Proxies
    /\ NoClient \notin Clients
    /\ Worker \notin Requests
    /\ Nobody \notin Callers

queues == << pendingNew, pendingRefs >>
timers == << queueRetry, queueBackoff >>
worker == << queueActive, wakes >>
outside == << frontRetry, checks >>
db == << dbLeases, dbProxies >>
vars == << proxies, leases, queues, conns, reqs, gate, worker, timers,
           outside, sweep, db >>

Statuses == {"absent", "idle", "checking", "active", "draining", "unhealthy", "disabled"}
Proxy == [status : Statuses, client : Clients \cup {NoClient},
          drainingFor : Clients \cup {NoClient}, conns : Nat, disabled : BOOLEAN]
Absent == [status |-> "absent", client |-> NoClient, drainingFor |-> NoClient,
           conns |-> 0, disabled |-> FALSE]

\* A proxy as New and AddProxy put it into the map.
NewProxy(disabled) ==
    [Absent EXCEPT !.status = IF disabled THEN "disabled" ELSE "idle",
                   !.disabled = disabled]

Lease == [proxy : Proxies \cup {NoProxy}, expired : BOOLEAN]
NoLease == [proxy |-> NoProxy, expired |-> FALSE]

Conn == [client : Clients \cup {NoClient}, proxy : Proxies \cup {NoProxy}, closing : BOOLEAN]
FreeConn == [client |-> NoClient, proxy |-> NoProxy, closing |-> FALSE]

\* One ensureLease call: proxy is the reserved one, ambiguous the batch of
\* ambiguous probes, newBefore and refsBefore the pendingSnapshot, answer what
\* is returned once a batch is resolved.
Phases == {"idle", "gate", "backoff", "snapshot", "reserve", "probe", "evidence",
           "cross", "recheck", "settle", "batch", "next", "finish"}
Request == [pc : Phases, client : Clients \cup {NoClient}, refresh : BOOLEAN,
            proxy : Proxies \cup {NoProxy}, ambiguous : SUBSET Proxies,
            newBefore : BOOLEAN, refsBefore : BOOLEAN, answer : {"active", "pending"}]
IdleRequest == [pc |-> "idle", client |-> NoClient, refresh |-> FALSE,
                proxy |-> NoProxy, ambiguous |-> {}, newBefore |-> FALSE,
                refsBefore |-> FALSE, answer |-> "pending"]

Init ==
    /\ proxies = [p \in Proxies |-> IF p \in ConfigProxies THEN NewProxy(FALSE) ELSE Absent]
    /\ leases = [c \in Clients |-> NoLease]
    /\ pendingNew = << >>
    /\ pendingRefs = << >>
    /\ conns = [k \in Conns |-> FreeConn]
    /\ reqs = [r \in Callers |-> IdleRequest]
    /\ gate = Nobody
    /\ queueActive = FALSE
    /\ queueRetry = FALSE
    /\ queueBackoff = FALSE
    /\ wakes = 0
    /\ frontRetry = FALSE
    /\ sweep = {}
    /\ checks = {}
    /\ dbLeases = [c \in Clients |-> NoProxy]
    /\ dbProxies = [p \in Proxies |-> IF p \in ConfigProxies THEN "enabled" ELSE "absent"]

----------------------------------------------------------------------------
(* Reading the state.                                                      *)

Present(p) == proxies[p].status # "absent"
HasLease(c) == leases[c].proxy # NoProxy
Live(c) == HasLease(c) /\ ~leases[c].expired
InQueue(q, c) == Contains(q, c)
HasQueued == pendingNew # << >> \/ pendingRefs # << >>

\* proxyHasActiveLeaseLocked over a lease table ls.
HasActiveLease(ls, p) == \E c \in Clients : ls[c].proxy = p /\ ~ls[c].expired

\* The proxies takeIdleProxyLocked may return, given a pool ps.
Takeable(ps, ls) ==
    {p \in Proxies : ps[p].status = "idle" /\ ~ps[p].disabled /\ ~HasActiveLease(ls, p)}
HasIdle == Takeable(proxies, leases) # {}

\* frontQueueRetryAfter() > 0.
Deferring == frontRetry \/ queueBackoff

----------------------------------------------------------------------------
(* What happens to one proxy record.                                       *)

markProxyIdle(p) ==
    [p EXCEPT !.client = NoClient, !.drainingFor = NoClient, !.conns = 0,
              !.status = IF p.status = "unhealthy" THEN "unhealthy" ELSE "idle"]

\* Mutated form of releaseProxyBinding: no draining, the proxy is idle at once.
ReleaseToIdle(p, c) == markProxyIdle(p)

releaseProxyBinding(p, c) ==
    IF p.conns > 0
    THEN [p EXCEPT !.client = NoClient, !.drainingFor = c,
                   !.status = IF p.status = "unhealthy" THEN "unhealthy" ELSE "draining"]
    ELSE [p EXCEPT !.client = NoClient, !.drainingFor = NoClient,
                   !.status = IF p.status = "unhealthy" THEN "unhealthy"
                              ELSE IF p.disabled THEN "disabled" ELSE "idle"]

markProbeFailed(p) ==
    [p EXCEPT !.client = NoClient, !.drainingFor = NoClient, !.status = "unhealthy"]

\* A reservation that ends on a proxy disabled in the meantime.
unreserveDisabled(p) ==
    [p EXCEPT !.client = NoClient, !.drainingFor = NoClient, !.status = "disabled"]

\* Mutated form of vacate: connections still open on the old proxy are ignored.
VacateToIdle(p, c) == markProxyIdle(p)

\* The proxy a refresh leaves behind.
vacate(p, c) ==
    IF p.conns > 0
    THEN [p EXCEPT !.client = NoClient, !.drainingFor = c, !.status = "draining"]
    ELSE markProxyIdle(p)

Reserved(ps, p, c) == ps[p].status = "checking" /\ ps[p].client = c

\* restoreAmbiguousProbesLocked and markAmbiguousProbesFailedLocked.
restoreProbes(ps, batch, c) ==
    [p \in Proxies |->
        IF p \in batch /\ Reserved(ps, p, c)
        THEN IF ps[p].disabled THEN unreserveDisabled(ps[p]) ELSE markProxyIdle(ps[p])
        ELSE ps[p]]
failProbes(ps, batch, c) ==
    [p \in Proxies |->
        IF p \in batch /\ Reserved(ps, p, c)
        THEN IF ps[p].disabled THEN unreserveDisabled(ps[p]) ELSE markProbeFailed(ps[p])
        ELSE ps[p]]

recoveredProxy(p, c) ==
    IF c # NoClient
    THEN [proxies[p] EXCEPT !.client = c, !.drainingFor = NoClient, !.status = "active"]
    ELSE IF proxies[p].drainingFor # NoClient /\ proxies[p].conns > 0
    THEN [proxies[p] EXCEPT !.client = NoClient, !.status = "draining"]
    ELSE [proxies[p] EXCEPT !.client = NoClient, !.drainingFor = NoClient, !.status = "idle"]

----------------------------------------------------------------------------
(* Queues, wake-ups, the leases table.                                     *)

\* A client is at most once in a queue.
removeIP(q, c) ==
    IF InQueue(q, c) THEN RemoveAt(q, CHOOSE i \in DOMAIN q : q[i] = c) ELSE q
\* Mutated form of enqueueUnique: no search for an earlier entry.
EnqueueAgain(q, c) == Append(q, c)
enqueueUnique(q, c) == IF InQueue(q, c) THEN q ELSE Append(q, c)

\* enqueuePendingLeaseLocked, and the enqueueing of deferCheckedProxyLocked.
enqueuePending(c, refresh) ==
    /\ pendingNew' = IF refresh THEN pendingNew ELSE enqueueUnique(pendingNew, c)
    /\ pendingRefs' = IF refresh THEN enqueueUnique(pendingRefs, c) ELSE pendingRefs

\* Mutated form of removeQueued: it forgets pendingNew.
RemoveFromRefs(c) ==
    /\ UNCHANGED << pendingNew, queueBackoff, queueRetry >>
    /\ pendingRefs' = removeIP(pendingRefs, c)

\* An emptied queue cancels its backoff and its retry timer.
removeQueued(c) ==
    /\ pendingNew' = removeIP(pendingNew, c)
    /\ pendingRefs' = removeIP(pendingRefs, c)
    /\ LET empty == pendingNew' = << >> /\ pendingRefs' = << >>
       IN /\ queueBackoff' = (queueBackoff /\ ~empty)
          /\ queueRetry' = (queueRetry /\ ~empty)

\* A call of processQueueAsync will run, once the lock is free (only the bound:
\* beyond MaxWakes a call is merged with one that has not run either).
Wake == wakes' = IF wakes < MaxWakes THEN wakes + 1 ELSE wakes

\* UpsertLease or DeleteLease; the manager ignores their errors.
storeLease(c, p) ==
    \/ dbLeases' = [dbLeases EXCEPT ![c] = p]
    \/ "dbfail" \in Events /\ UNCHANGED dbLeases

----------------------------------------------------------------------------
(* releaseLocked: its effect on the pool, the leases and the connections.  *)

releasedLeases(c) == [leases EXCEPT ![c] = NoLease]

releasedProxies(c) ==
    IF ~HasLease(c) THEN proxies
    ELSE [p \in Proxies |->
            IF \/ p = leases[c].proxy /\ Present(p) /\ ~HasActiveLease(releasedLeases(c), p)
               \/ proxies[p].drainingFor = c
            THEN releaseProxyBinding(proxies[p], c)
            ELSE proxies[p]]

\* Mutated form of closedConns: only the connections of the lease's proxy.
ClosedOnLease(c) ==
    [k \in Conns |-> IF conns[k].client = c /\ conns[k].proxy = leases[c].proxy
                     THEN [conns[k] EXCEPT !.closing = TRUE] ELSE conns[k]]

\* closeConnections(connectionSnapshotLocked(c)).
closedConns(c) ==
    IF ~HasLease(c) THEN conns
    ELSE [k \in Conns |-> IF conns[k].client = c THEN [conns[k] EXCEPT !.closing = TRUE]
                                                 ELSE conns[k]]

\* Mutated form of releaseLocked: the row of the lease is not deleted.
ReleaseKeepsRow(c) ==
    /\ leases' = releasedLeases(c)
    /\ proxies' = releasedProxies(c)
    /\ conns' = closedConns(c)
    /\ removeQueued(c)
    /\ UNCHANGED << dbLeases, dbProxies >>

releaseLocked(c) ==
    /\ leases' = releasedLeases(c)
    /\ proxies' = releasedProxies(c)
    /\ conns' = closedConns(c)
    /\ removeQueued(c)
    /\ IF HasLease(c) THEN storeLease(c, NoProxy) ELSE UNCHANGED dbLeases
    /\ UNCHANGED dbProxies

\* Mutated form of Release: nobody is told that a proxy became idle.
ReleaseSilently(c) ==
    /\ releaseLocked(c)
    /\ UNCHANGED << reqs, gate, worker, outside, sweep >>

Release(c) ==
    /\ releaseLocked(c)
    /\ Wake
    /\ UNCHANGED << reqs, gate, queueActive, outside, sweep >>

----------------------------------------------------------------------------
(* ensureLease.                                                            *)

Goto(r, pc) == reqs' = [reqs EXCEPT ![r].pc = pc]

\* ensureLease returns: a request is answered, the queue worker goes on with
\* the next client or, unless the client got its lease, stops.
Return(r, answer) ==
    /\ gate' = IF gate = r THEN Nobody ELSE gate
    /\ reqs' = [reqs EXCEPT ![r] =
                  IF r # Worker THEN IdleRequest
                  ELSE [IdleRequest EXCEPT !.pc = IF answer = "active" THEN "next" ELSE "finish"]]

\* Without a front proxy there is no gate, and neither a front nor a local
\* backoff: the first section that can have an effect is the reservation.
FirstPhase == IF FrontEnabled THEN "gate" ELSE "reserve"

Calling(c, refresh) ==
    [IdleRequest EXCEPT !.pc = FirstPhase, !.client = c, !.refresh = refresh]

\* Only calls of the API carry a context that can end; the worker's ends with
\* the process.
Cancelable(r) == "cancel" \in Events /\ r \in Requests

ensureLease(r, c, refresh) ==
    /\ reqs[r].pc = "idle"
    /\ refresh => "refresh" \in Events
    /\ reqs' = [reqs EXCEPT ![r] = Calling(c, refresh)]
    /\ UNCHANGED << proxies, leases, queues, conns, gate, worker, timers, outside, sweep, db >>

\* Mutated form of AcquireGate: the gate admits a second assignment.
EnterGate(r) ==
    /\ reqs[r].pc = "gate"
    /\ gate' = r
    /\ Goto(r, "backoff")
    /\ UNCHANGED << proxies, leases, queues, conns, worker, timers, outside, sweep, db >>

AcquireGate(r) ==
    /\ reqs[r].pc = "gate"
    /\ gate = Nobody
    /\ gate' = r
    /\ Goto(r, "backoff")
    /\ UNCHANGED << proxies, leases, queues, conns, worker, timers, outside, sweep, db >>

assignmentCanceled(r) ==
    /\ reqs[r].pc = "gate"
    /\ Cancelable(r)
    /\ Return(r, "pending")
    /\ UNCHANGED << proxies, leases, queues, conns, worker, timers, outside, sweep, db >>

frontBackoffAssignment(r) ==
    LET c == reqs[r].client IN
    /\ reqs[r].pc = "backoff"
    /\ \/ /\ ~Deferring
          /\ Goto(r, "snapshot")
          /\ UNCHANGED << queues, gate, wakes >>
       \/ /\ Deferring /\ Live(c) /\ ~reqs[r].refresh
          /\ Return(r, "active")
          /\ UNCHANGED << queues, wakes >>
       \/ /\ Deferring /\ (Live(c) => reqs[r].refresh)
          /\ enqueuePending(c, Live(c))
          /\ Return(r, "pending")
          /\ Wake
    /\ UNCHANGED << proxies, leases, conns, queueActive, timers, outside, sweep, db >>

pendingSnapshot(r) ==
    /\ reqs[r].pc = "snapshot"
    /\ reqs' = [reqs EXCEPT ![r].pc = "reserve",
                            ![r].newBefore = InQueue(pendingNew, reqs[r].client),
                            ![r].refsBefore = InQueue(pendingRefs, reqs[r].client)]
    /\ UNCHANGED << proxies, leases, queues, conns, gate, worker, timers, outside, sweep, db >>

\* No proxy was reserved: return, or first resolve the ambiguous batch.
Unreserved(r, answer) ==
    \/ reqs[r].ambiguous = {} /\ Return(r, answer)
    \/ /\ reqs[r].ambiguous # {}
       /\ reqs' = [reqs EXCEPT ![r].pc = "evidence", ![r].answer = answer]
       /\ UNCHANGED gate

reserveProxyForLease(r) ==
    LET c == reqs[r].client
        stale == HasLease(c) /\ leases[c].expired
        ls == IF stale THEN releasedLeases(c) ELSE leases
        ps == IF stale THEN releasedProxies(c) ELSE proxies
        new == IF stale THEN removeIP(pendingNew, c) ELSE pendingNew
        refs == IF stale THEN removeIP(pendingRefs, c) ELSE pendingRefs
        emptied == stale /\ new = << >> /\ refs = << >>
    IN
    /\ reqs[r].pc = "reserve"
    /\ leases' = ls
    /\ conns' = IF stale THEN closedConns(c) ELSE conns
    /\ IF stale THEN storeLease(c, NoProxy) ELSE UNCHANGED dbLeases
    /\ queueBackoff' = (queueBackoff /\ ~emptied)
    /\ queueRetry' = (queueRetry /\ ~emptied)
    /\ \/ /\ ~reqs[r].refresh /\ ls[c].proxy # NoProxy
          /\ proxies' = ps
          /\ pendingNew' = new /\ pendingRefs' = refs
          /\ Unreserved(r, "active")
       \/ /\ reqs[r].refresh \/ ls[c].proxy = NoProxy
          /\ Takeable(ps, ls) = {}
          /\ proxies' = ps
          /\ pendingNew' = IF reqs[r].refresh THEN new ELSE enqueueUnique(new, c)
          /\ pendingRefs' = IF reqs[r].refresh THEN enqueueUnique(refs, c) ELSE refs
          /\ Unreserved(r, "pending")
       \/ /\ reqs[r].refresh \/ ls[c].proxy = NoProxy
          /\ \E p \in Takeable(ps, ls) :
                /\ proxies' = [ps EXCEPT ![p].status = "checking", ![p].client = c,
                                         ![p].drainingFor = NoClient]
                /\ reqs' = [reqs EXCEPT ![r].pc = "probe", ![r].proxy = p]
          /\ pendingNew' = new /\ pendingRefs' = refs
          /\ UNCHANGED gate
    /\ UNCHANGED << worker, outside, sweep, dbProxies >>

\* The reservation is still this call's when its probe comes back.
StillReserved(r) == Reserved(proxies, reqs[r].proxy, reqs[r].client)
\* Mutated form of Probed: Disabled is not read again after the probe.
ProbedAnyway(r) == reqs[r].pc = "probe" /\ StillReserved(r)

Probed(r) ==
    /\ reqs[r].pc = "probe"
    /\ StillReserved(r)
    /\ ~proxies[reqs[r].proxy].disabled

probeSuperseded(r) ==
    /\ reqs[r].pc = "probe"
    /\ \/ /\ ~StillReserved(r)
          /\ UNCHANGED proxies
       \/ /\ StillReserved(r) /\ proxies[reqs[r].proxy].disabled
          /\ proxies' = [proxies EXCEPT ![reqs[r].proxy] = unreserveDisabled(@)]
    /\ Goto(r, "reserve")
    /\ UNCHANGED << leases, queues, conns, gate, worker, timers, outside, sweep, db >>

\* The caller went away during the probe.
canceledProbeAssignment(r) ==
    /\ Probed(r)
    /\ Cancelable(r)
    /\ proxies' = restoreProbes([proxies EXCEPT ![reqs[r].proxy] = markProxyIdle(@)],
                                reqs[r].ambiguous, reqs[r].client)
    /\ Return(r, "pending")
    /\ UNCHANGED << leases, queues, conns, worker, timers, outside, sweep, db >>

\* The front itself failed, and may have opened its circuit.
probeSharedFailure(r) ==
    /\ Probed(r)
    /\ FrontEnabled
    /\ frontRetry' \in {frontRetry, TRUE}
    /\ proxies' = restoreProbes([proxies EXCEPT ![reqs[r].proxy] = markProxyIdle(@)],
                                reqs[r].ambiguous, reqs[r].client)
    /\ enqueuePending(reqs[r].client, reqs[r].refresh)
    /\ Return(r, "pending")
    /\ Wake
    /\ UNCHANGED << leases, conns, queueActive, timers, checks, sweep, db >>

\* distinctAmbiguousEndpoints(batch) >= 2 needs two proxies, with different
\* addresses and unresolved tokens.
MayBeDistinct(batch) == Cardinality(batch) >= 2

probeAmbiguous(r) ==
    LET batch == reqs[r].ambiguous \cup {reqs[r].proxy} IN
    /\ Probed(r)
    /\ FrontEnabled
    /\ \/ /\ MayBeDistinct(batch)
          /\ reqs' = [reqs EXCEPT ![r].pc = "evidence", ![r].ambiguous = batch,
                                  ![r].answer = "pending"]
          /\ enqueuePending(reqs[r].client, reqs[r].refresh)
       \/ /\ reqs' = [reqs EXCEPT ![r].pc = "reserve", ![r].ambiguous = batch]
          /\ UNCHANGED queues
    /\ UNCHANGED << proxies, leases, conns, gate, worker, timers, outside, sweep, db >>

\* The exit failed.  Having got past the front it may be evidence that some
\* of the earlier ambiguous exits failed by themselves.
probeExitFailure(r) ==
    /\ Probed(r)
    /\ \E validated \in SUBSET reqs[r].ambiguous :
         /\ proxies' = [failProbes(proxies, validated, reqs[r].client)
                            EXCEPT ![reqs[r].proxy] = markProbeFailed(@)]
         /\ reqs' = [reqs EXCEPT ![r].pc = "reserve", ![r].ambiguous = @ \ validated]
    /\ UNCHANGED << leases, queues, conns, gate, worker, timers, outside, sweep, db >>

\* activateCheckedProxyLocked over the pool ps.
activateCheckedProxy(r, ps) ==
    LET c == reqs[r].client
        p == reqs[r].proxy
        old == leases[c].proxy
        left == IF reqs[r].refresh /\ HasLease(c) /\ Present(old)
                THEN [ps EXCEPT ![old] = vacate(@, c)] ELSE ps
    IN
    /\ proxies' = [left EXCEPT ![p].status = "active", ![p].client = c,
                               ![p].drainingFor = NoClient]
    /\ leases' = [leases EXCEPT ![c] = [proxy |-> p, expired |-> FALSE]]
    /\ removeQueued(c)
    /\ storeLease(c, p)
    /\ UNCHANGED dbProxies

probeSucceeded(r) ==
    /\ Probed(r)
    /\ \E validated \in SUBSET reqs[r].ambiguous :
         activateCheckedProxy(r,
            restoreProbes(failProbes(proxies, validated, reqs[r].client),
                          reqs[r].ambiguous, reqs[r].client))
    /\ Return(r, "active")
    /\ UNCHANGED << conns, worker, outside, sweep >>

----------------------------------------------------------------------------
(* resolveAmbiguousLeaseBatch.  Which probes newer evidence validates, and *)
(* whether the batch opens the circuit, is decided by the connector.       *)

\* Mutated form of RestoreBatch: the reservations of the batch are forgotten.
ForgetBatch(r) == UNCHANGED proxies

RestoreBatch(r) ==
    proxies' = restoreProbes(proxies, reqs[r].ambiguous, reqs[r].client)

\* Candidates of activeCrossValidationProxy.
CrossCandidates(r) ==
    {p \in Proxies \ reqs[r].ambiguous :
        proxies[p].status \in {"active", "draining"} /\ ~proxies[p].disabled}

resolveCanceled(r) ==
    LET c == reqs[r].client IN
    /\ \/ reqs[r].pc = "evidence"
       \/ reqs[r].pc = "cross" /\ CrossCandidates(r) # {}
    /\ Cancelable(r)
    /\ RestoreBatch(r)
    /\ pendingNew' = IF reqs[r].newBefore THEN pendingNew ELSE removeIP(pendingNew, c)
    /\ pendingRefs' = IF reqs[r].refsBefore THEN pendingRefs ELSE removeIP(pendingRefs, c)
    /\ Return(r, reqs[r].answer)
    /\ UNCHANGED << leases, conns, worker, timers, outside, sweep, db >>

\* The next phase when no evidence settles the batch.
Unsettled(pc) == IF pc = "evidence" THEN "cross" ELSE "batch"

applyRecentCrossEvidence(r) ==
    /\ reqs[r].pc \in {"evidence", "recheck"}
    /\ \E validated \in SUBSET reqs[r].ambiguous :
         /\ proxies' = failProbes(proxies, validated, reqs[r].client)
         /\ \/ /\ validated = {}
               /\ Goto(r, Unsettled(reqs[r].pc))
               /\ UNCHANGED << gate, wakes >>
            \/ /\ validated # {} /\ validated # reqs[r].ambiguous
               /\ reqs' = [reqs EXCEPT ![r].pc = "settle", ![r].ambiguous = @ \ validated]
               /\ UNCHANGED << gate, wakes >>
            \/ /\ validated = reqs[r].ambiguous
               /\ Return(r, reqs[r].answer)
               /\ Wake
    /\ UNCHANGED << leases, queues, conns, queueActive, timers, outside, sweep, db >>

\* Evidence settled a part of the batch: the rest waits for a local backoff.
settleBatch(r) ==
    /\ reqs[r].pc = "settle"
    /\ queueBackoff' = TRUE
    /\ RestoreBatch(r)
    /\ Return(r, reqs[r].answer)
    /\ Wake
    /\ UNCHANGED << leases, queues, conns, queueActive, queueRetry, outside, sweep, db >>

\* The read-only probe of an exit in use: it finds the front failing, ends
\* ambiguously itself, validates a part of the batch, or tells nothing.
crossValidate(r) ==
    /\ reqs[r].pc = "cross"
    /\ \/ /\ CrossCandidates(r) = {}
          /\ Goto(r, "recheck")
          /\ UNCHANGED << proxies, gate, wakes, queueBackoff, frontRetry >>
       \/ /\ CrossCandidates(r) # {}
          /\ \/ /\ frontRetry' \in {frontRetry, TRUE}
                /\ RestoreBatch(r)
                /\ Return(r, reqs[r].answer)
                /\ Wake
                /\ UNCHANGED queueBackoff
             \/ /\ \E p \in CrossCandidates(r), tokens \in BOOLEAN :
                     reqs' = [reqs EXCEPT ![r].pc = "recheck",
                                ![r].ambiguous = IF tokens THEN @ \cup {p} ELSE @]
                /\ UNCHANGED << proxies, gate, wakes, queueBackoff, frontRetry >>
             \/ /\ \E validated \in (SUBSET reqs[r].ambiguous) \ {{}} :
                     /\ proxies' = restoreProbes(
                                     failProbes(proxies, validated, reqs[r].client),
                                     reqs[r].ambiguous, reqs[r].client)
                     /\ queueBackoff' = (queueBackoff \/ validated # reqs[r].ambiguous)
                /\ Return(r, reqs[r].answer)
                /\ Wake
                /\ UNCHANGED frontRetry
    /\ UNCHANGED << leases, queues, conns, queueActive, queueRetry, checks, sweep, db >>

\* The verdict on the batch: open the shared circuit, or back off locally.
recordBatch(r) ==
    /\ reqs[r].pc = "batch"
    /\ \/ /\ MayBeDistinct(reqs[r].ambiguous)
          /\ frontRetry' = TRUE
          /\ UNCHANGED queueBackoff
       \/ /\ queueBackoff' = TRUE
          /\ UNCHANGED frontRetry
    /\ RestoreBatch(r)
    /\ Return(r, reqs[r].answer)
    /\ Wake
    /\ UNCHANGED << leases, queues, conns, queueActive, queueRetry, checks, sweep, db >>

----------------------------------------------------------------------------
(* The queue worker and its retry timer.                                   *)

processQueueAsync ==
    /\ wakes > 0
    /\ wakes' = wakes - 1
    /\ \/ /\ queueActive \/ queueRetry \/ ~HasQueued \/ ~HasIdle
          /\ UNCHANGED << queueActive, queueRetry, reqs >>
       \/ /\ ~queueActive /\ ~queueRetry /\ HasQueued /\ HasIdle
          /\ Deferring
          /\ queueRetry' = TRUE
          /\ UNCHANGED << queueActive, reqs >>
       \/ /\ ~queueActive /\ ~queueRetry /\ HasQueued /\ HasIdle
          /\ ~Deferring
          /\ queueActive' = TRUE
          /\ Goto(Worker, "next")
          /\ UNCHANGED queueRetry
    /\ UNCHANGED << proxies, leases, queues, conns, gate, queueBackoff, outside, sweep, db >>

nextQueuedClient ==
    /\ reqs[Worker].pc = "next"
    /\ \/ /\ ~HasIdle \/ ~HasQueued
          /\ Goto(Worker, "finish")
          /\ UNCHANGED queues
       \/ /\ HasIdle /\ pendingNew # << >>
          /\ pendingNew' = Tail(pendingNew)
          /\ reqs' = [reqs EXCEPT ![Worker] = Calling(Head(pendingNew), FALSE)]
          /\ UNCHANGED pendingRefs
       \/ /\ HasIdle /\ pendingNew = << >> /\ pendingRefs # << >>
          /\ pendingRefs' = Tail(pendingRefs)
          /\ reqs' = [reqs EXCEPT ![Worker] = Calling(Head(pendingRefs), TRUE)]
          /\ UNCHANGED pendingNew
    /\ UNCHANGED << proxies, leases, conns, gate, worker, timers, outside, sweep, db >>

\* Mutated form of finishQueue: the state is not read again on the way out.
FinishForGood ==
    /\ reqs[Worker].pc = "finish"
    /\ Goto(Worker, "idle")
    /\ queueActive' = FALSE
    /\ UNCHANGED << proxies, leases, queues, conns, gate, wakes, timers, outside, sweep, db >>

\* The worker stops, and starts over if a proxy became idle meanwhile.
finishQueue ==
    /\ reqs[Worker].pc = "finish"
    /\ Goto(Worker, "idle")
    /\ queueActive' = FALSE
    /\ IF HasQueued /\ HasIdle THEN Wake ELSE UNCHANGED wakes
    /\ UNCHANGED << proxies, leases, queues, conns, gate, timers, outside, sweep, db >>

\* The callback of scheduleQueueRetryLocked (one of an older epoch returns
\* without effect).
queueTimerFires ==
    /\ queueRetry
    /\ queueRetry' = FALSE
    /\ IF HasQueued /\ HasIdle THEN Wake ELSE UNCHANGED wakes
    /\ UNCHANGED << proxies, leases, queues, conns, reqs, gate, queueActive,
                    queueBackoff, outside, sweep, db >>

queueBackoffElapses ==
    /\ queueBackoff
    /\ queueBackoff' = FALSE
    /\ UNCHANGED << proxies, leases, queues, conns, reqs, gate, worker, queueRetry,
                    outside, sweep, db >>

\* Other traffic opens the front's circuit, or it closes again.
frontChanges ==
    /\ FrontEnabled
    /\ frontRetry' = ~frontRetry
    /\ UNCHANGED << proxies, leases, queues, conns, reqs, gate, worker, timers,
                    checks, sweep, db >>

----------------------------------------------------------------------------
(* Expiry.                                                                 *)

leaseExpires(c) ==
    /\ "expiry" \in Events
    /\ Live(c)
    /\ leases' = [leases EXCEPT ![c].expired = TRUE]
    /\ UNCHANGED << proxies, queues, conns, reqs, gate, worker, timers, outside, sweep, db >>

\* expireLeases collects the expired clients under the lock ...
collectExpired ==
    /\ sweep = {}
    /\ sweep' = {c \in Clients : HasLease(c) /\ leases[c].expired}
    /\ sweep' # {}
    /\ UNCHANGED << proxies, leases, queues, conns, reqs, gate, worker, timers, outside, db >>

\* ... and releases each one under the lock again.
expireLease(c) ==
    /\ c \in sweep
    /\ sweep' = sweep \ {c}
    /\ releaseLocked(c)
    /\ UNCHANGED << reqs, gate, worker, outside >>

----------------------------------------------------------------------------
(* Connections of the gateway.                                             *)

AcquireProxyConn(k, c) ==
    LET p == leases[c].proxy IN
    /\ conns[k] = FreeConn
    /\ Live(c)
    /\ proxies[p].status = "active" /\ proxies[p].client = c
    /\ conns' = [conns EXCEPT ![k] = [client |-> c, proxy |-> p, closing |-> FALSE]]
    /\ proxies' = [proxies EXCEPT ![p].conns = @ + 1]
    /\ UNCHANGED << leases, queues, reqs, gate, worker, timers, outside, sweep, db >>

\* The last connection of a draining proxy returns it to the pool.
drainedProxy(p) ==
    [p EXCEPT !.conns = 0, !.client = NoClient, !.drainingFor = NoClient,
              !.status = IF p.disabled THEN "disabled" ELSE "idle"]

\* Mutated form of UnregisterConn: the last connection returns any proxy to
\* the pool, not only a draining one.
UnregisterReturns(k) ==
    LET p == conns[k].proxy IN
    /\ conns[k] # FreeConn
    /\ conns' = [conns EXCEPT ![k] = FreeConn]
    /\ proxies[p].conns > 0
    /\ proxies' = IF proxies[p].conns = 1
                    THEN [proxies EXCEPT ![p] = drainedProxy(@)]
                    ELSE [proxies EXCEPT ![p].conns = @ - 1]
    /\ UNCHANGED << leases, queues, reqs, gate, worker, timers, outside, sweep, db >>

UnregisterConn(k) ==
    LET p == conns[k].proxy IN
    /\ conns[k] # FreeConn
    /\ conns' = [conns EXCEPT ![k] = FreeConn]
    /\ \/ /\ ~Present(p) \/ proxies[p].conns = 0
          /\ UNCHANGED << proxies, wakes >>
       \/ /\ Present(p) /\ proxies[p].conns > 0
          /\ ~(proxies[p].status = "draining" /\ proxies[p].conns = 1)
          /\ proxies' = [proxies EXCEPT ![p].conns = @ - 1]
          /\ UNCHANGED wakes
       \/ /\ proxies[p].status = "draining" /\ proxies[p].conns = 1
          /\ proxies' = [proxies EXCEPT ![p] = drainedProxy(@)]
          /\ IF proxies[p].disabled THEN UNCHANGED wakes ELSE Wake
    /\ UNCHANGED << leases, queues, reqs, gate, queueActive, timers, outside, sweep, db >>

----------------------------------------------------------------------------
(* Health results.  A result belongs to a snapshot and is recorded by ID   *)
(* later; the failure and success counters only decide whether a result    *)
(* crosses its threshold, which is a choice here.                          *)

proxyCheckSnapshot(p) ==
    /\ "health" \in Events
    /\ proxies[p].status \notin {"absent", "disabled", "checking"}
    /\ ~proxies[p].disabled
    /\ checks' = checks \cup {p}
    /\ UNCHANGED << proxies, leases, queues, conns, reqs, gate, worker, timers,
                    frontRetry, sweep, db >>

recordHealth(p) ==
    /\ p \in checks
    /\ checks' = checks \ {p}
    /\ \/ UNCHANGED << proxies, wakes >>
       \/ /\ proxies[p].status \notin {"absent", "unhealthy"}
          /\ proxies' = [proxies EXCEPT ![p].status = "unhealthy"]
          /\ UNCHANGED wakes
       \/ /\ proxies[p].status = "unhealthy"
          /\ \E c \in Clients \cup {NoClient} :
               /\ IF HasActiveLease(leases, p)
                  THEN c # NoClient /\ leases[c].proxy = p /\ Live(c)
                  ELSE c = NoClient
               /\ proxies' = [proxies EXCEPT ![p] = recoveredProxy(p, c)]
          /\ Wake
    /\ UNCHANGED << leases, queues, conns, reqs, gate, queueActive, timers,
                    frontRetry, sweep, db >>

----------------------------------------------------------------------------
(* Administration of the pool.                                             *)

Row(disabled) == IF disabled THEN "disabled" ELSE "enabled"

AddProxy(p, disabled) ==
    /\ "admin" \in Events
    /\ ~Present(p)
    /\ proxies' = [proxies EXCEPT ![p] = NewProxy(disabled)]
    /\ dbProxies' = [dbProxies EXCEPT ![p] = Row(disabled)]
    /\ Wake
    /\ UNCHANGED << leases, queues, conns, reqs, gate, queueActive, timers, outside,
                    sweep, dbLeases >>

\* UpdateProxy and SetProxyDisabled differ on a disabled proxy that stays so.
updatedStatus(p, disabled) ==
    IF disabled /\ p.status = "idle" THEN "disabled"
    ELSE IF p.status = "disabled" THEN "idle" ELSE p.status
disabledStatus(p, disabled) ==
    IF disabled /\ p.status = "idle" THEN "disabled"
    ELSE IF ~disabled /\ p.status = "disabled" THEN "idle" ELSE p.status

\* The record in memory changes first; if the row cannot be written the call
\* returns its error and wakes nobody.
ChangeProxy(p, disabled, status) ==
    /\ "admin" \in Events
    /\ Present(p)
    /\ proxies' = [proxies EXCEPT ![p].disabled = disabled, ![p].status = status]
    /\ \/ /\ dbProxies' = [dbProxies EXCEPT ![p] = Row(disabled)]
          /\ Wake
       \/ "dbfail" \in Events /\ UNCHANGED << dbProxies, wakes >>
    /\ UNCHANGED << leases, queues, conns, reqs, gate, queueActive, timers, outside,
                    sweep, dbLeases >>

UpdateProxy(p, disabled) == ChangeProxy(p, disabled, updatedStatus(proxies[p], disabled))
SetProxyDisabled(p, disabled) == ChangeProxy(p, disabled, disabledStatus(proxies[p], disabled))

InUse(p) == p.status \in {"active", "checking", "draining"} \/ p.conns > 0

DeleteProxy(p) ==
    /\ "admin" \in Events
    /\ Present(p)
    /\ ~InUse(proxies[p])
    /\ proxies' = [proxies EXCEPT ![p] = Absent]
    /\ dbProxies' = [dbProxies EXCEPT ![p] = "absent"]
    /\ UNCHANGED << leases, queues, conns, reqs, gate, worker, timers, outside,
                    sweep, dbLeases >>

----------------------------------------------------------------------------
(* The process stops at any point and New starts over from the tables.     *)

\* Rows that outlive the downtime and whose proxy still exists.
LoadedLeases(rows, survivors) ==
    [c \in Clients |->
        IF c \in survivors /\ rows[c] # NoProxy
        THEN [proxy |-> rows[c], expired |-> FALSE] ELSE NoLease]

Restart ==
    /\ "restart" \in Events
    /\ dbProxies' = [p \in Proxies |-> IF p \in ConfigProxies THEN "enabled" ELSE dbProxies[p]]
    /\ \E survivors \in SUBSET {c \in Clients :
            /\ dbLeases[c] # NoProxy
            /\ dbProxies'[dbLeases[c]] # "absent"
            /\ ~(leases[c].proxy = dbLeases[c] /\ leases[c].expired)} :
         /\ leases' = LoadedLeases(dbLeases, survivors)
         /\ dbLeases' = [c \in Clients |-> leases'[c].proxy]
    /\ \E owner \in [Proxies -> Clients \cup {NoClient}] :
         /\ \A p \in Proxies :
               IF \E c \in Clients : leases'[c].proxy = p
               THEN owner[p] # NoClient /\ leases'[owner[p]].proxy = p
               ELSE owner[p] = NoClient
         /\ proxies' = [p \in Proxies |->
               IF dbProxies'[p] = "absent" THEN Absent
               ELSE IF owner[p] = NoClient THEN NewProxy(dbProxies'[p] = "disabled")
               ELSE [NewProxy(dbProxies'[p] = "disabled")
                        EXCEPT !.status = "active", !.client = owner[p]]]
    /\ pendingNew' = << >> /\ pendingRefs' = << >>
    /\ conns' = [k \in Conns |-> FreeConn]
    /\ reqs' = [r \in Callers |-> IdleRequest]
    /\ gate' = Nobody
    /\ queueActive' = FALSE /\ queueRetry' = FALSE /\ queueBackoff' = FALSE
    /\ wakes' = 0
    /\ frontRetry' = FALSE
    /\ sweep' = {} /\ checks' = {}

----------------------------------------------------------------------------
EnsureStep(r) ==
    \/ AcquireGate(r)
    \/ assignmentCanceled(r)
    \/ frontBackoffAssignment(r)
    \/ pendingSnapshot(r)
    \/ reserveProxyForLease(r)
    \/ probeSuperseded(r)
    \/ canceledProbeAssignment(r)
    \/ probeSharedFailure(r)
    \/ probeAmbiguous(r)
    \/ probeExitFailure(r)
    \/ probeSucceeded(r)
    \/ resolveCanceled(r)
    \/ applyRecentCrossEvidence(r)
    \/ settleBatch(r)
    \/ crossValidate(r)
    \/ recordBatch(r)

QueueStep ==
    \/ processQueueAsync
    \/ nextQueuedClient
    \/ finishQueue
    \/ queueTimerFires
    \/ queueBackoffElapses

Next ==
    \/ \E r \in Requests, c \in Clients, refresh \in BOOLEAN : ensureLease(r, c, refresh)
    \/ \E r \in Callers : EnsureStep(r)
    \/ QueueStep
    \/ frontChanges
    \/ \E c \in Clients : Release(c) \/ leaseExpires(c) \/ expireLease(c)
    \/ collectExpired
    \/ \E k \in Conns : UnregisterConn(k) \/ \E c \in Clients : AcquireProxyConn(k, c)
    \/ \E p \in Proxies : proxyCheckSnapshot(p) \/ recordHealth(p) \/ DeleteProxy(p)
    \/ \E p \in Proxies, d \in BOOLEAN :
          AddProxy(p, d) \/ UpdateProxy(p, d) \/ SetProxyDisabled(p, d)
    \/ Restart

Spec == Init /\ [][Next]_vars

\* Every goroutine that has started goes on: an assignment's probes have a
\* timeout, timers fire, and the expiry loop ticks.  The environment (API
\* calls, connections, health results, the front, crashes) owes nothing.
FairSpec ==
    /\ Spec
    /\ \A r \in Callers : WF_vars(EnsureStep(r))
    /\ WF_vars(processQueueAsync)
    /\ WF_vars(nextQueuedClient)
    /\ WF_vars(finishQueue)
    /\ WF_vars(queueTimerFires)
    /\ WF_vars(queueBackoffElapses)
    /\ WF_vars(collectExpired)
    /\ \A c \in Clients : WF_vars(expireLease(c))

----------------------------------------------------------------------------
(* Properties.                                                             *)

\* Type invariant of the manager's maps, queues and calls in progress; a client
\* waits at most once in each queue.
TypeOK ==
    /\ proxies \in [Proxies -> Proxy]
    /\ leases \in [Clients -> Lease]
    /\ pendingNew \in Seq(Clients) /\ IsInjective(pendingNew)
    /\ pendingRefs \in Seq(Clients) /\ IsInjective(pendingRefs)
    /\ conns \in [Conns -> Conn]
    /\ reqs \in [Callers -> Request]
    /\ gate \in Callers \cup {Nobody}
    /\ queueActive \in BOOLEAN
    /\ queueRetry \in BOOLEAN
    /\ queueBackoff \in BOOLEAN
    /\ wakes \in 0..MaxWakes
    /\ frontRetry \in BOOLEAN
    /\ sweep \subseteq Clients
    /\ checks \subseteq Proxies
    /\ dbLeases \in [Clients -> Proxies \cup {NoProxy}]
    /\ dbProxies \in [Proxies -> {"absent", "enabled", "disabled"}]

\* "A SOCKS5 proxy is exclusive to one client while active": two clients never
\* hold unexpired leases on the same proxy.
ExclusiveLease ==
    \A c, d \in Clients :
        Live(c) /\ Live(d) /\ leases[c].proxy = leases[d].proxy => c = d

\* A proxy is not leased to another client while a connection that was opened
\* through it is still registered ("the old proxy stays draining until old
\* connections close").
ExclusiveUse ==
    \A k \in Conns, c \in Clients :
        conns[k] # FreeConn /\ Live(c) /\ leases[c].proxy = conns[k].proxy
            => c = conns[k].client

\* The service the manager gives its clients: an expired lease counts no more,
\* and what reservations, queues and drains do in between is not seen.
Service == INSTANCE LeaseService WITH
    holds <- [c \in Clients |-> IF Live(c) THEN leases[c].proxy ELSE NoProxy],
    uses <- [k \in Conns |-> [client |-> conns[k].client, proxy |-> conns[k].proxy]]

\* The manager implements LeaseService: grants, connections, expiry, drains and
\* restarts together never show a client anything else.
ImplementsService == Service!Spec

\* ActiveConns counts the registered connections of the proxy exactly, whatever
\* refreshes, releases, expiries and drains happened in between.
ConnCountExact ==
    \A p \in Proxies : Present(p) =>
        proxies[p].conns = Cardinality({k \in Conns : conns[k].proxy = p})

\* Release and expiry close every connection of the client, those draining on
\* earlier proxies included: without a lease none is left open.
ReleaseClosesConns ==
    \A k \in Conns :
        conns[k] # FreeConn /\ ~HasLease(conns[k].client) => conns[k].closing

\* No reservation leaks: a proxy being checked belongs to an ensureLease call
\* in progress for that client, which will give it back or activate it.
ReservationOwned ==
    \A p \in Proxies : proxies[p].status = "checking" =>
        \E r \in Callers :
            /\ reqs[r].client = proxies[p].client
            /\ \/ reqs[r].pc = "probe" /\ reqs[r].proxy = p
               \/ p \in reqs[r].ambiguous

\* "Assigns one idle SOCKS5 proxy to each client IP": an active proxy is the
\* one its client's lease names; none is left behind, active for ever.
NoOrphan ==
    \A p \in Proxies : proxies[p].status = "active" => leases[proxies[p].client].proxy = p

\* An unexpired lease is usable: its proxy is active for that client, unless
\* health checks took it out.
LeaseUsable ==
    \A c \in Clients : Live(c) =>
        LET p == proxies[leases[c].proxy]
        IN p.status = "unhealthy" \/ (p.status = "active" /\ p.client = c)

\* Nobody waits in pendingNew while holding an unexpired lease.
WaitingHasNoLease ==
    \A c \in Clients : InQueue(pendingNew, c) => ~Live(c)

Resolving(r) == reqs[r].pc \in {"evidence", "cross", "recheck", "settle", "batch"}

\* "pending: client is waiting for an idle SOCKS5": when a client waits and a
\* proxy is idle, the worker runs, its timer is armed, or a call that will
\* wake it is on its way.
NoLostWakeup ==
    HasQueued /\ HasIdle =>
        queueActive \/ queueRetry \/ wakes > 0 \/ \E r \in Callers : Resolving(r)

\* An idle proxy and a waiting client do not stay beside each other: the queue
\* worker gets to them although wake-ups, timers and the worker's own end race.
NoStall == HasQueued /\ HasIdle ~> ~(HasQueued /\ HasIdle)

\* A proxy disabled by the administrator is never given to a new lease.
DisabledNotAssigned ==
    [][\A c \in Clients :
         leases'[c].proxy \notin {leases[c].proxy, NoProxy}
             => ~proxies[leases'[c].proxy].disabled]_vars

\* expireLeases releases only expired leases.
SweepReleasesExpired ==
    [][\A c \in Clients : c \in sweep /\ c \notin sweep' => ~Live(c)]_vars

\* docs/api.md: DELETE /v1/admin/proxies/{id} "deletes an idle exit proxy": the
\* deletion of a proxy takes no unexpired lease with it.
DeletesUnleased ==
    [][\A p \in Proxies :
         proxies[p].status # "absent" /\ proxies'[p].status = "absent"
             => ~\E c \in Clients : Live(c) /\ leases[c].proxy = p]_vars
=============================================================================
