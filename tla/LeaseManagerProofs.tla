------------------------- MODULE LeaseManagerProofs -------------------------
(***************************************************************************)
(* Proofs about LeaseManager, for every set of clients, proxies, calls and *)
(* connections: its types; exclusive leases; what a release leaves open;   *)
(* who holds the gate and the reservations; the connections of a proxy and *)
(* the service the manager implements; and the pool behind a front.  Each  *)
(* part begins with the inductive invariant it adds to the ones before.    *)
(***************************************************************************)
EXTENDS LeaseManager, FiniteSetTheorems, SequenceTheorems, TLAPS

\* A call in progress names its client, and its reserved proxy while probing.
CallsTyped ==
    \A r \in Callers :
        /\ reqs[r].pc \notin {"idle", "next", "finish"} => reqs[r].client \in Clients
        /\ reqs[r].pc = "probe" => reqs[r].proxy \in Proxies

TInv == TypeOK /\ CallsTyped

\* A reservation is only made of, and a lease only made from, a proxy nobody
\* holds an unexpired lease on.
ReservedUnleased ==
    \A p \in Proxies : proxies[p].status = "checking" => ~HasActiveLease(leases, p)

\* The table names the leases in memory, unless a write of it failed.
RowsMatch ==
    "dbfail" \notin Events => \A c \in Clients : dbLeases[c] = leases[c].proxy

IInv == TInv /\ ExclusiveLease /\ ReservedUnleased /\ RowsMatch

\* No proxy is reserved in qs that was not reserved in ps.
NoNewReservation(ps, qs) ==
    \A p \in Proxies : qs[p].status = "checking" => ps[p].status = "checking"

----------------------------------------------------------------------------
(* The records of one proxy: every operation yields a record of the type,  *)
(* and none of them makes a reservation.                                   *)

LEMMA IdleForm ==
    ASSUME NEW x \in Proxy
    PROVE  markProxyIdle(x) \in Proxy /\ markProxyIdle(x).status # "checking"
BY DEF markProxyIdle, Proxy, Statuses

LEMMA ReleaseForm ==
    ASSUME NEW x \in Proxy, NEW c \in Clients
    PROVE  /\ releaseProxyBinding(x, c) \in Proxy
           /\ releaseProxyBinding(x, c).status # "checking"
BY DEF releaseProxyBinding, Proxy, Statuses

LEMMA FailedForm ==
    ASSUME NEW x \in Proxy
    PROVE  markProbeFailed(x) \in Proxy /\ markProbeFailed(x).status # "checking"
BY DEF markProbeFailed, Proxy, Statuses

LEMMA UnreservedForm ==
    ASSUME NEW x \in Proxy
    PROVE  unreserveDisabled(x) \in Proxy /\ unreserveDisabled(x).status # "checking"
BY DEF unreserveDisabled, Proxy, Statuses

LEMMA VacatedForm ==
    ASSUME NEW x \in Proxy, NEW c \in Clients
    PROVE  vacate(x, c) \in Proxy /\ vacate(x, c).status # "checking"
<1>1. CASE x.conns > 0
  BY <1>1 DEF vacate, Proxy, Statuses
<1>2. CASE ~(x.conns > 0)
  BY <1>2, IdleForm DEF vacate
<1> QED BY <1>1, <1>2

LEMMA DrainedForm ==
    ASSUME NEW x \in Proxy
    PROVE  drainedProxy(x) \in Proxy /\ drainedProxy(x).status # "checking"
BY DEF drainedProxy, Proxy, Statuses

LEMMA NewForm ==
    ASSUME NEW d \in BOOLEAN
    PROVE  NewProxy(d) \in Proxy /\ NewProxy(d).status # "checking"
BY DEF NewProxy, Absent, Proxy, Statuses

LEMMA AbsentForm == Absent \in Proxy /\ Absent.status # "checking"
BY DEF Absent, Proxy, Statuses

LEMMA RestoredPool ==
    ASSUME NEW ps \in [Proxies -> Proxy], NEW batch, NEW c
    PROVE  /\ restoreProbes(ps, batch, c) \in [Proxies -> Proxy]
           /\ NoNewReservation(ps, restoreProbes(ps, batch, c))
           /\ \A p \in Proxies : p \notin batch => restoreProbes(ps, batch, c)[p] = ps[p]
BY IdleForm, UnreservedForm DEF restoreProbes, NoNewReservation

LEMMA FailedPool ==
    ASSUME NEW ps \in [Proxies -> Proxy], NEW batch, NEW c
    PROVE  /\ failProbes(ps, batch, c) \in [Proxies -> Proxy]
           /\ NoNewReservation(ps, failProbes(ps, batch, c))
           /\ \A p \in Proxies : p \notin batch => failProbes(ps, batch, c)[p] = ps[p]
BY FailedForm, UnreservedForm DEF failProbes, NoNewReservation

LEMMA ReleasedPool ==
    ASSUME TypeOK, NEW c \in Clients
    PROVE  /\ releasedProxies(c) \in [Proxies -> Proxy]
           /\ NoNewReservation(proxies, releasedProxies(c))
BY ReleaseForm DEF releasedProxies, NoNewReservation, TypeOK

LEMMA RecoveredForm ==
    ASSUME TypeOK, NEW p \in Proxies, NEW c \in Clients \cup {NoClient}
    PROVE  recoveredProxy(p, c) \in Proxy /\ recoveredProxy(p, c).status # "checking"
<1>1. proxies[p] \in Proxy
  BY DEF TypeOK
<1>2. \A x \in Proxy : [x EXCEPT !.client = c, !.drainingFor = NoClient, !.status = "active"] \in Proxy
  BY DEF Proxy, Statuses
<1>3. \A x \in Proxy : [x EXCEPT !.client = NoClient, !.status = "draining"] \in Proxy
  BY DEF Proxy, Statuses
<1>4. \A x \in Proxy :
         [x EXCEPT !.client = NoClient, !.drainingFor = NoClient, !.status = "idle"] \in Proxy
  BY DEF Proxy, Statuses
<1>5. recoveredProxy(p, c) \in Proxy
  BY <1>1, <1>2, <1>3, <1>4 DEF recoveredProxy
<1>6. recoveredProxy(p, c).status \in {"active", "draining", "idle"}
  BY <1>1 DEF recoveredProxy, Proxy
<1> QED BY <1>5, <1>6

LEMMA ReleasedLeases ==
    ASSUME TypeOK, NEW c \in Clients
    PROVE  releasedLeases(c) \in [Clients -> Lease]
BY DEF releasedLeases, NoLease, Lease, TypeOK

LEMMA ClosedConns ==
    ASSUME TypeOK, NEW c \in Clients
    PROVE  closedConns(c) \in [Conns -> Conn]
<1>1. \A k \in Conns : conns[k] \in Conn
  BY DEF TypeOK
<1>2. \A x \in Conn : [x EXCEPT !.closing = TRUE] \in Conn
  BY DEF Conn
<1> QED BY <1>1, <1>2 DEF closedConns, TypeOK

----------------------------------------------------------------------------
(* The queues.                                                             *)

LEMMA RemoveType ==
    ASSUME NEW S, NEW q \in Seq(S), NEW c
    PROVE  removeIP(q, c) \in Seq(S)
<1>1. CASE InQueue(q, c)
  <2> DEFINE i == CHOOSE i \in DOMAIN q : q[i] = c
  <2>1. i \in 1..Len(q)
    BY <1>1 DEF InQueue, Contains
  <2> HIDE DEF i
  <2>2. removeIP(q, c) = SubSeq(q, 1, i-1) \o SubSeq(q, i+1, Len(q))
    BY <1>1 DEF removeIP, RemoveAt, i
  <2>3. SubSeq(q, 1, i-1) \in Seq(S)
    BY <2>1, SubSeqProperties
  <2>4. SubSeq(q, i+1, Len(q)) \in Seq(S)
    BY <2>1, SubSeqProperties
  <2> QED BY <2>2, <2>3, <2>4
<1>2. CASE ~InQueue(q, c)
  BY <1>2 DEF removeIP
<1> QED BY <1>1, <1>2

LEMMA RemoveInjective ==
    ASSUME NEW S, NEW q \in Seq(S), NEW c, IsInjective(q)
    PROVE  IsInjective(removeIP(q, c))
<1>1. CASE InQueue(q, c)
  <2> DEFINE i == CHOOSE i \in DOMAIN q : q[i] = c
  <2>1. i \in 1..Len(q)
    BY <1>1 DEF InQueue, Contains
  <2> HIDE DEF i
  <2>2. removeIP(q, c) = SubSeq(q, 1, i-1) \o SubSeq(q, i+1, Len(q))
    BY <1>1 DEF removeIP, RemoveAt, i
  <2> DEFINE f == SubSeq(q, 1, i-1)
             g == SubSeq(q, i+1, Len(q))
  <2>3. f \in Seq(S) /\ Len(f) = i - 1 /\ \A k \in 1..(i-1) : f[k] = q[k]
    BY <2>1, SubSeqProperties
  <2>4. g \in Seq(S) /\ Len(g) = Len(q) - i /\ \A k \in 1..(Len(q)-i) : g[k] = q[k + i]
    BY <2>1, SubSeqProperties
  <2> HIDE DEF f, g
  <2>5. Len(f \o g) = Len(q) - 1 /\ f \o g \in Seq(S)
    <3>1. f \in Seq(S) /\ g \in Seq(S)
      BY <2>3, <2>4
    <3>2. f \o g \in Seq(S) /\ Len(f \o g) = Len(f) + Len(g)
      BY <3>1, ConcatProperties, Zenon
    <3> QED BY <2>1, <2>3, <2>4, <3>2
  <2>6. \A k \in 1..(Len(q)-1) : (f \o g)[k] = IF k < i THEN q[k] ELSE q[k+1]
    BY <2>1, <2>3, <2>4
  <2>7. ASSUME NEW a \in 1..(Len(q)-1), NEW b \in 1..(Len(q)-1), (f \o g)[a] = (f \o g)[b]
        PROVE  a = b
    <3> DEFINE u(k) == IF k < i THEN k ELSE k + 1
    <3>1. u(a) \in 1..Len(q) /\ u(b) \in 1..Len(q)
      BY <2>1, <2>7
    <3>2. q[u(a)] = q[u(b)]
      BY <2>6, <2>7
    <3>3. u(a) = u(b)
      BY <3>1, <3>2 DEF IsInjective
    <3> QED BY <3>3, <2>1
  <2>8. DOMAIN (f \o g) = 1..(Len(q)-1)
    BY <2>5
  <2> QED BY <2>2, <2>7, <2>8 DEF f, g, IsInjective
<1>2. CASE ~InQueue(q, c)
  BY <1>2 DEF removeIP
<1> QED BY <1>1, <1>2

LEMMA EnqueueProperties ==
    ASSUME NEW S, NEW q \in Seq(S), NEW c \in S, IsInjective(q)
    PROVE  enqueueUnique(q, c) \in Seq(S) /\ IsInjective(enqueueUnique(q, c))
<1>1. CASE InQueue(q, c)
  BY <1>1 DEF enqueueUnique
<1>2. CASE ~InQueue(q, c)
  <2>1. enqueueUnique(q, c) = Append(q, c)
    BY <1>2 DEF enqueueUnique
  <2>2. \A k \in 1..Len(q) : q[k] # c
    BY <1>2 DEF InQueue, Contains
  <2>3. IsInjective(Append(q, c))
    BY <2>2 DEF IsInjective
  <2> QED BY <2>1, <2>3
<1> QED BY <1>1, <1>2

LEMMA TailProperties ==
    ASSUME NEW S, NEW q \in Seq(S), q # << >>, IsInjective(q)
    PROVE  Tail(q) \in Seq(S) /\ IsInjective(Tail(q)) /\ Head(q) \in S
<1>1. Tail(q) \in Seq(S) /\ Head(q) \in S
  BY HeadTailProperties
<1>2. Len(Tail(q)) = Len(q) - 1 /\ \A k \in 1..Len(Tail(q)) : Tail(q)[k] = q[k+1]
  BY HeadTailProperties
<1>3. DOMAIN Tail(q) = 1..(Len(q)-1) /\ DOMAIN q = 1..Len(q) /\ Len(q) \in Nat
  BY <1>1, <1>2
<1>4. ASSUME NEW a \in DOMAIN Tail(q), NEW b \in DOMAIN Tail(q), Tail(q)[a] = Tail(q)[b]
      PROVE  a = b
  <2>1. a+1 \in DOMAIN q /\ b+1 \in DOMAIN q /\ q[a+1] = q[b+1]
    BY <1>2, <1>3, <1>4
  <2> QED BY <2>1, <1>3, <1>4 DEF IsInjective
<1> QED BY <1>1, <1>4 DEF IsInjective

LEMMA EmptyInjective == IsInjective(<< >>) /\ << >> \in Seq(Clients)
BY DEF IsInjective

QueuesTyped ==
    /\ pendingNew \in Seq(Clients) /\ IsInjective(pendingNew)
    /\ pendingRefs \in Seq(Clients) /\ IsInjective(pendingRefs)

----------------------------------------------------------------------------
(* The types, part by part: an action is argued about only in the parts it *)
(* changes.                                                                *)

PoolTyped ==
    /\ proxies \in [Proxies -> Proxy]
    /\ leases \in [Clients -> Lease]
    /\ conns \in [Conns -> Conn]

CallsOK ==
    /\ reqs \in [Callers -> Request]
    /\ gate \in Callers \cup {Nobody}
    /\ CallsTyped

WorkerTyped ==
    /\ queueActive \in BOOLEAN
    /\ queueRetry \in BOOLEAN
    /\ queueBackoff \in BOOLEAN
    /\ wakes \in 0..MaxWakes

OutsideTyped ==
    /\ frontRetry \in BOOLEAN
    /\ sweep \subseteq Clients
    /\ checks \subseteq Proxies

RowsTyped ==
    /\ dbLeases \in [Clients -> Proxies \cup {NoProxy}]
    /\ dbProxies \in [Proxies -> {"absent", "enabled", "disabled"}]

LEMMA Parts ==
    TInv <=> PoolTyped /\ QueuesTyped /\ CallsOK /\ WorkerTyped /\ OutsideTyped /\ RowsTyped
BY Zenon DEF TInv, TypeOK, PoolTyped, QueuesTyped, CallsOK, WorkerTyped, OutsideTyped, RowsTyped

LEMMA PartsNext ==
    TInv' <=> /\ PoolTyped' /\ QueuesTyped' /\ CallsOK' /\ WorkerTyped'
              /\ OutsideTyped' /\ RowsTyped'
BY Zenon DEF TInv, TypeOK, PoolTyped, QueuesTyped, CallsOK, WorkerTyped, OutsideTyped, RowsTyped

LEMMA Frames ==
    ASSUME TInv
    PROVE  /\ UNCHANGED << proxies, leases, conns >> => PoolTyped'
           /\ UNCHANGED queues => QueuesTyped'
           /\ UNCHANGED << reqs, gate >> => CallsOK'
           /\ UNCHANGED << worker, timers >> => WorkerTyped'
           /\ UNCHANGED << outside, sweep >> => OutsideTyped'
           /\ UNCHANGED db => RowsTyped'
<1>1. PoolTyped /\ QueuesTyped /\ CallsOK /\ WorkerTyped /\ OutsideTyped /\ RowsTyped
  BY Parts
<1>2. UNCHANGED << proxies, leases, conns >> => PoolTyped'
  BY <1>1 DEF PoolTyped
<1>3. UNCHANGED queues => QueuesTyped'
  BY <1>1 DEF QueuesTyped, queues
<1>4. UNCHANGED << reqs, gate >> => CallsOK'
  BY <1>1, Zenon DEF CallsOK, CallsTyped
<1>5. UNCHANGED << worker, timers >> => WorkerTyped'
  BY <1>1, Zenon DEF WorkerTyped, worker, timers
<1>6. UNCHANGED << outside, sweep >> => OutsideTyped'
  BY <1>1, Zenon DEF OutsideTyped, outside
<1>7. UNCHANGED db => RowsTyped'
  BY <1>1 DEF RowsTyped, db
<1> QED BY <1>2, <1>3, <1>4, <1>5, <1>6, <1>7

\* The state of a call between two sections.
Running(x) == x.pc \notin {"idle", "next", "finish"}
ProperCall(x) ==
    /\ x \in Request
    /\ Running(x) => x.client \in Clients
    /\ x.pc = "probe" => x.proxy \in Proxies

LEMMA CallsProper == ASSUME TInv PROVE \A r \in Callers : ProperCall(reqs[r])
BY DEF TInv, TypeOK, CallsTyped, ProperCall, Running

LEMMA CallUpdated ==
    ASSUME TInv, NEW r \in Callers, NEW x, ProperCall(x), reqs' = [reqs EXCEPT ![r] = x],
           gate' \in Callers \cup {Nobody}
    PROVE  CallsOK'
<1>1. reqs' \in [Callers -> Request]
  BY DEF TInv, TypeOK, ProperCall
<1>2. \A s \in Callers : ProperCall(reqs'[s])
  BY CallsProper DEF TInv, TypeOK
<1>3. CallsTyped'
  BY <1>2 DEF CallsTyped, ProperCall, Running
<1> QED BY <1>1, <1>3 DEF CallsOK

LEMMA CallMoves ==
    ASSUME TInv, NEW r \in Callers, NEW pc \in Phases, pc # "probe",
           Running(reqs[r]) \/ pc \in {"idle", "next", "finish"},
           Goto(r, pc), gate' \in Callers \cup {Nobody}
    PROVE  CallsOK'
<1> DEFINE x == [reqs[r] EXCEPT !.pc = pc]
<1>1. ProperCall(reqs[r]) /\ reqs \in [Callers -> Request]
  BY CallsProper DEF TInv, TypeOK
<1>2. x \in Request
  BY <1>1 DEF ProperCall, Request
<1>3. ProperCall(x)
  BY <1>1, <1>2 DEF ProperCall, Running, Request
<1>4. reqs' = [reqs EXCEPT ![r] = x]
  BY <1>1 DEF Goto
<1> QED BY <1>3, <1>4, CallUpdated

LEMMA GateKept == ASSUME TInv, UNCHANGED gate PROVE gate' \in Callers \cup {Nobody}
BY DEF TInv, TypeOK

LEMMA IdleProper == ProperCall(IdleRequest)
BY DEF ProperCall, Running, IdleRequest, Request, Phases

LEMMA CallReturns ==
    ASSUME TInv, NEW r \in Callers, NEW answer, Return(r, answer)
    PROVE  CallsOK'
<1>1. gate' \in Callers \cup {Nobody}
  BY DEF TInv, TypeOK, Return
<1>2. \A pc \in {"next", "finish"} : ProperCall([IdleRequest EXCEPT !.pc = pc])
  BY DEF ProperCall, Running, IdleRequest, Request, Phases
<1>3. PICK x : ProperCall(x) /\ reqs' = [reqs EXCEPT ![r] = x]
  BY <1>2, IdleProper DEF Return
<1> QED BY <1>1, <1>3, CallUpdated

LEMMA CallStarts ==
    ASSUME NEW c \in Clients, NEW refresh \in BOOLEAN
    PROVE  ProperCall(Calling(c, refresh))
BY DEF ProperCall, Running, Calling, FirstPhase, IdleRequest, Request, Phases

LEMMA Woken == ASSUME TInv, Wake PROVE wakes' \in 0..MaxWakes
BY MaxWakesAssumption DEF TInv, TypeOK, Wake

LEMMA MaybeWoken ==
    ASSUME TInv, UNCHANGED << queueActive, timers >>, Wake \/ UNCHANGED wakes
    PROVE  WorkerTyped'
<1>1. wakes' \in 0..MaxWakes
  BY Woken DEF TInv, TypeOK
<1> QED BY <1>1, Zenon DEF TInv, TypeOK, WorkerTyped, timers

LEMMA Stored ==
    ASSUME TInv, NEW c \in Clients, NEW p \in Proxies \cup {NoProxy}, storeLease(c, p)
    PROVE  dbLeases' \in [Clients -> Proxies \cup {NoProxy}]
BY DEF TInv, TypeOK, storeLease

LEMMA QueuesEnqueued ==
    ASSUME TInv, NEW c \in Clients, NEW refresh, enqueuePending(c, refresh)
    PROVE  QueuesTyped'
BY EnqueueProperties DEF TInv, TypeOK, enqueuePending, QueuesTyped

LEMMA QueuesRemoved ==
    ASSUME TInv, NEW c \in Clients, removeQueued(c)
    PROVE  QueuesTyped' /\ queueBackoff' \in BOOLEAN /\ queueRetry' \in BOOLEAN
<1>1. QueuesTyped'
  BY RemoveType, RemoveInjective DEF TInv, TypeOK, removeQueued, QueuesTyped
<1>2. queueBackoff' \in BOOLEAN
  BY Zenon DEF TInv, TypeOK, removeQueued
<1>3. queueRetry' \in BOOLEAN
  BY Zenon DEF TInv, TypeOK, removeQueued
<1> QED BY <1>1, <1>2, <1>3

LEMMA Released ==
    ASSUME TInv, NEW c \in Clients, releaseLocked(c)
    PROVE  /\ PoolTyped' /\ QueuesTyped' /\ RowsTyped'
           /\ queueBackoff' \in BOOLEAN /\ queueRetry' \in BOOLEAN
<1>1. PoolTyped'
  BY ReleasedPool, ReleasedLeases, ClosedConns DEF releaseLocked, PoolTyped, TInv
<1>2. QueuesTyped' /\ queueBackoff' \in BOOLEAN /\ queueRetry' \in BOOLEAN
  BY QueuesRemoved DEF releaseLocked
<1>3. dbLeases' \in [Clients -> Proxies \cup {NoProxy}]
  BY Stored DEF releaseLocked, TInv, TypeOK
<1>4. RowsTyped'
  BY <1>3 DEF releaseLocked, RowsTyped, TInv, TypeOK
<1> QED BY <1>1, <1>2, <1>4

----------------------------------------------------------------------------
(* Every action preserves the types: requests and releases.                *)

LEMMA ReleaseTypes ==
    ASSUME TInv, NEW c \in Clients, Release(c)
    PROVE  TInv'
<1>1. PoolTyped' /\ QueuesTyped' /\ RowsTyped'
  BY Released DEF Release
<1>2. CallsOK' /\ OutsideTyped'
  BY Frames DEF Release
<1>3. wakes' \in 0..MaxWakes
  BY Woken DEF Release
<1>4. queueBackoff' \in BOOLEAN /\ queueRetry' \in BOOLEAN
  BY Released DEF Release
<1>5. WorkerTyped'
  BY <1>3, <1>4, Zenon DEF WorkerTyped, Release, TInv, TypeOK
<1> QED BY <1>1, <1>2, <1>5, PartsNext

LEMMA ExpireTypes ==
    ASSUME TInv, NEW c \in Clients, expireLease(c)
    PROVE  TInv'
<1>1. PoolTyped' /\ QueuesTyped' /\ RowsTyped' /\ queueBackoff' \in BOOLEAN /\ queueRetry' \in BOOLEAN
  BY Released DEF expireLease
<1>2. CallsOK'
  BY Frames DEF expireLease
<1>3. OutsideTyped'
  BY Zenon DEF expireLease, OutsideTyped, outside, TInv, TypeOK
<1>4. WorkerTyped'
  BY <1>1, Zenon DEF WorkerTyped, expireLease, worker, TInv, TypeOK
<1> QED BY <1>1, <1>2, <1>3, <1>4, PartsNext

LEMMA LeaseExpiresTypes ==
    ASSUME TInv, NEW c \in Clients, leaseExpires(c)
    PROVE  TInv'
<1>1. [leases[c] EXCEPT !.expired = TRUE] \in Lease
  BY DEF Lease, TInv, TypeOK
<1>2. leases' \in [Clients -> Lease]
  BY <1>1 DEF leaseExpires, TInv, TypeOK
<1>3. PoolTyped'
  BY <1>2 DEF leaseExpires, PoolTyped, TInv, TypeOK
<1>4. QueuesTyped' /\ CallsOK' /\ WorkerTyped' /\ OutsideTyped' /\ RowsTyped'
  BY Frames DEF leaseExpires
<1> QED BY <1>3, <1>4, PartsNext

LEMMA CollectTypes == ASSUME TInv, collectExpired PROVE TInv'
<1>1. OutsideTyped'
  BY Zenon DEF collectExpired, OutsideTyped, outside, TInv, TypeOK
<1>2. PoolTyped' /\ QueuesTyped' /\ CallsOK' /\ WorkerTyped' /\ RowsTyped'
  BY Frames DEF collectExpired
<1> QED BY <1>1, <1>2, PartsNext

LEMMA EnsureTypes ==
    ASSUME TInv, NEW r \in Requests, NEW c \in Clients, NEW refresh \in BOOLEAN,
           ensureLease(r, c, refresh)
    PROVE  TInv'
<1>1. CallsOK'
  BY CallStarts, CallUpdated, GateKept DEF ensureLease, Callers
<1>2. PoolTyped' /\ QueuesTyped' /\ WorkerTyped' /\ OutsideTyped' /\ RowsTyped'
  BY Frames DEF ensureLease
<1> QED BY <1>1, <1>2, PartsNext

----------------------------------------------------------------------------
(* The steps of ensureLease.                                               *)

LEMMA AcquireGateTypes ==
    ASSUME TInv, NEW r \in Callers, AcquireGate(r)
    PROVE  TInv'
<1>1. CallsOK'
  BY CallMoves DEF AcquireGate, Running, Phases
<1>2. PoolTyped' /\ QueuesTyped' /\ WorkerTyped' /\ OutsideTyped' /\ RowsTyped'
  BY Frames DEF AcquireGate
<1> QED BY <1>1, <1>2, PartsNext

LEMMA AssignmentCanceledTypes ==
    ASSUME TInv, NEW r \in Callers, assignmentCanceled(r)
    PROVE  TInv'
<1>1. CallsOK'
  BY CallReturns DEF assignmentCanceled
<1>2. PoolTyped' /\ QueuesTyped' /\ WorkerTyped' /\ OutsideTyped' /\ RowsTyped'
  BY Frames DEF assignmentCanceled
<1> QED BY <1>1, <1>2, PartsNext

LEMMA CallClient ==
    ASSUME TInv, NEW r \in Callers, Running(reqs[r])
    PROVE  reqs[r].client \in Clients
BY CallsProper DEF ProperCall

LEMMA FrontBackoffTypes ==
    ASSUME TInv, NEW r \in Callers, frontBackoffAssignment(r)
    PROVE  TInv'
<1>1. reqs[r].client \in Clients
  BY CallClient DEF frontBackoffAssignment, Running
<1>2. CallsOK' /\ QueuesTyped' /\ WorkerTyped'
  <2>1. CASE ~Deferring /\ Goto(r, "snapshot") /\ UNCHANGED << queues, gate, wakes >>
    <3>1. CallsOK'
      BY <2>1, CallMoves, GateKept DEF frontBackoffAssignment, Running, Phases
    <3>2. QueuesTyped' /\ WorkerTyped'
      BY <2>1, Frames, MaybeWoken DEF frontBackoffAssignment
    <3> QED BY <3>1, <3>2
  <2>2. CASE Return(r, "active") /\ UNCHANGED << queues, wakes >>
    BY <2>2, CallReturns, Frames, MaybeWoken DEF frontBackoffAssignment
  <2>3. CASE /\ enqueuePending(reqs[r].client, Live(reqs[r].client))
             /\ Return(r, "pending") /\ Wake
    BY <1>1, <2>3, CallReturns, QueuesEnqueued, MaybeWoken DEF frontBackoffAssignment
  <2> QED BY <2>1, <2>2, <2>3 DEF frontBackoffAssignment
<1>3. PoolTyped' /\ OutsideTyped' /\ RowsTyped'
  BY Frames DEF frontBackoffAssignment
<1> QED BY <1>2, <1>3, PartsNext

LEMMA SnapshotTypes ==
    ASSUME TInv, NEW r \in Callers, pendingSnapshot(r)
    PROVE  TInv'
<1>1. \A n, m \in BOOLEAN, x \in Request :
        x.client \in Clients =>
          ProperCall([x EXCEPT !.pc = "reserve", !.newBefore = n, !.refsBefore = m])
  <2> SUFFICES ASSUME NEW n \in BOOLEAN, NEW m \in BOOLEAN, NEW x \in Request,
                      x.client \in Clients
               PROVE  ProperCall([x EXCEPT !.pc = "reserve", !.newBefore = n, !.refsBefore = m])
    OBVIOUS
  <2> DEFINE y == [x EXCEPT !.pc = "reserve", !.newBefore = n, !.refsBefore = m]
  <2>1. y \in Request
    BY Zenon DEF Request, Phases
  <2>2. y.pc = "reserve" /\ y.client = x.client
    BY DEF Request
  <2> QED BY <2>1, <2>2 DEF ProperCall, Running
<1>2. reqs[r] \in Request /\ reqs[r].client \in Clients
  BY CallsProper, CallClient DEF pendingSnapshot, Running, ProperCall
<1>3. InQueue(pendingNew, reqs[r].client) \in BOOLEAN /\ InQueue(pendingRefs, reqs[r].client) \in BOOLEAN
  BY Zenon DEF InQueue, Contains
<1>4. reqs' = [reqs EXCEPT ![r] =
                 [reqs[r] EXCEPT !.pc = "reserve",
                                 !.newBefore = InQueue(pendingNew, reqs[r].client),
                                 !.refsBefore = InQueue(pendingRefs, reqs[r].client)]]
  BY DEF pendingSnapshot, TInv, TypeOK
<1>5. CallsOK'
  BY <1>1, <1>2, <1>3, <1>4, CallUpdated, GateKept DEF pendingSnapshot
<1>6. PoolTyped' /\ QueuesTyped' /\ WorkerTyped' /\ OutsideTyped' /\ RowsTyped'
  BY Frames DEF pendingSnapshot
<1> QED BY <1>5, <1>6, PartsNext

LEMMA UnreservedCalls ==
    ASSUME TInv, NEW r \in Callers, reqs[r].pc = "reserve",
           NEW answer \in {"active", "pending"}, Unreserved(r, answer)
    PROVE  CallsOK'
<1>1. CASE Return(r, answer)
  BY <1>1, CallReturns
<1>2. CASE /\ reqs' = [reqs EXCEPT ![r].pc = "evidence", ![r].answer = answer]
           /\ UNCHANGED gate
  <2>1. \A x \in Request : x.client \in Clients =>
          ProperCall([x EXCEPT !.pc = "evidence", !.answer = answer])
    BY DEF ProperCall, Running, Request, Phases
  <2>2. reqs[r] \in Request /\ reqs[r].client \in Clients
    BY CallsProper, CallClient DEF Running, ProperCall
  <2>3. reqs' = [reqs EXCEPT ![r] = [reqs[r] EXCEPT !.pc = "evidence", !.answer = answer]]
    BY <1>2 DEF TInv, TypeOK
  <2> QED BY <1>2, <2>1, <2>2, <2>3, CallUpdated, GateKept
<1> QED BY <1>1, <1>2 DEF Unreserved

\* The pool, leases and queues the reservation of client c starts from.
StaleLease(c) == HasLease(c) /\ leases[c].expired
ReserveLeases(c) == IF StaleLease(c) THEN releasedLeases(c) ELSE leases
ReservePool(c) == IF StaleLease(c) THEN releasedProxies(c) ELSE proxies
ReserveNew(c) == IF StaleLease(c) THEN removeIP(pendingNew, c) ELSE pendingNew
ReserveRefs(c) == IF StaleLease(c) THEN removeIP(pendingRefs, c) ELSE pendingRefs

LEMMA ReserveStart ==
    ASSUME TInv, NEW c \in Clients
    PROVE  /\ ReserveLeases(c) \in [Clients -> Lease]
           /\ ReservePool(c) \in [Proxies -> Proxy]
           /\ NoNewReservation(proxies, ReservePool(c))
           /\ ReserveNew(c) \in Seq(Clients) /\ IsInjective(ReserveNew(c))
           /\ ReserveRefs(c) \in Seq(Clients) /\ IsInjective(ReserveRefs(c))
<1>1. TypeOK
  BY DEF TInv
<1>2. ReserveLeases(c) \in [Clients -> Lease]
  BY <1>1, ReleasedLeases DEF ReserveLeases, TypeOK
<1>3. ReservePool(c) \in [Proxies -> Proxy] /\ NoNewReservation(proxies, ReservePool(c))
  BY <1>1, ReleasedPool DEF ReservePool, NoNewReservation, TypeOK
<1>4. ReserveNew(c) \in Seq(Clients) /\ IsInjective(ReserveNew(c))
  BY <1>1, RemoveType, RemoveInjective DEF ReserveNew, TypeOK
<1>5. ReserveRefs(c) \in Seq(Clients) /\ IsInjective(ReserveRefs(c))
  BY <1>1, RemoveType, RemoveInjective DEF ReserveRefs, TypeOK
<1> QED BY <1>2, <1>3, <1>4, <1>5

\* The branches of reserveProxyForLease: the lease is still good, no proxy is
\* idle, a proxy is reserved.
KeepsLease(r) ==
    LET c == reqs[r].client IN
    /\ proxies' = ReservePool(c)
    /\ pendingNew' = ReserveNew(c) /\ pendingRefs' = ReserveRefs(c)
    /\ Unreserved(r, "active")
Waits(r) ==
    LET c == reqs[r].client IN
    /\ proxies' = ReservePool(c)
    /\ pendingNew' = IF reqs[r].refresh THEN ReserveNew(c) ELSE enqueueUnique(ReserveNew(c), c)
    /\ pendingRefs' = IF reqs[r].refresh THEN enqueueUnique(ReserveRefs(c), c) ELSE ReserveRefs(c)
    /\ Unreserved(r, "pending")
Reserves(r) ==
    LET c == reqs[r].client IN
    /\ \E p \in Takeable(ReservePool(c), ReserveLeases(c)) :
          /\ proxies' = [ReservePool(c) EXCEPT ![p].status = "checking", ![p].client = c,
                                               ![p].drainingFor = NoClient]
          /\ reqs' = [reqs EXCEPT ![r].pc = "probe", ![r].proxy = p]
    /\ pendingNew' = ReserveNew(c) /\ pendingRefs' = ReserveRefs(c)
    /\ UNCHANGED gate

LEMMA ReserveBranches ==
    ASSUME NEW r \in Callers, reserveProxyForLease(r)
    PROVE  /\ reqs[r].pc = "reserve"
           /\ leases' = ReserveLeases(reqs[r].client)
           /\ conns' = IF StaleLease(reqs[r].client) THEN closedConns(reqs[r].client) ELSE conns
           /\ IF StaleLease(reqs[r].client)
              THEN storeLease(reqs[r].client, NoProxy) ELSE UNCHANGED dbLeases
           /\ KeepsLease(r) \/ Waits(r) \/ Reserves(r)
           /\ UNCHANGED << worker, outside, sweep, dbProxies >>
BY Zenon DEF reserveProxyForLease, ReserveLeases, ReservePool, ReserveNew, ReserveRefs,
             StaleLease, KeepsLease, Waits, Reserves

LEMMA ReserveTimers ==
    ASSUME TInv, NEW r \in Callers, reserveProxyForLease(r)
    PROVE  queueBackoff' \in BOOLEAN /\ queueRetry' \in BOOLEAN
BY Zenon DEF reserveProxyForLease, TInv, TypeOK

LEMMA ReservedForm ==
    ASSUME NEW x \in Proxy, NEW c \in Clients
    PROVE  /\ [x EXCEPT !.status = "checking", !.client = c, !.drainingFor = NoClient] \in Proxy
           /\ [x EXCEPT !.status = "active", !.client = c, !.drainingFor = NoClient] \in Proxy
BY DEF Proxy, Statuses

LEMMA ReserveTypes ==
    ASSUME TInv, NEW r \in Callers, reserveProxyForLease(r)
    PROVE  TInv'
<1> DEFINE c == reqs[r].client
<1>1. reqs[r].pc = "reserve" /\ c \in Clients
  BY ReserveBranches, CallClient DEF Running
<1> HIDE DEF c
<1>2. /\ ReserveLeases(c) \in [Clients -> Lease]
      /\ ReservePool(c) \in [Proxies -> Proxy]
      /\ ReserveNew(c) \in Seq(Clients) /\ IsInjective(ReserveNew(c))
      /\ ReserveRefs(c) \in Seq(Clients) /\ IsInjective(ReserveRefs(c))
  BY <1>1, ReserveStart
<1>3. leases' \in [Clients -> Lease] /\ conns' \in [Conns -> Conn]
  BY <1>1, <1>2, ReserveBranches, ClosedConns DEF c, TInv, TypeOK
<1>4. RowsTyped'
  BY <1>1, ReserveBranches, Stored DEF c, RowsTyped, TInv, TypeOK
<1>5. WorkerTyped'
  BY ReserveBranches, ReserveTimers, Zenon DEF WorkerTyped, worker, TInv, TypeOK
<1>6. OutsideTyped'
  BY ReserveBranches, Frames
<1>7. proxies' \in [Proxies -> Proxy] /\ QueuesTyped' /\ CallsOK'
  <2>1. CASE KeepsLease(r)
    BY <1>1, <1>2, <2>1, UnreservedCalls DEF c, KeepsLease, QueuesTyped
  <2>2. CASE Waits(r)
    <3>1. QueuesTyped'
      BY <1>1, <1>2, <2>2, EnqueueProperties DEF c, Waits, QueuesTyped
    <3>2. proxies' \in [Proxies -> Proxy] /\ CallsOK'
      BY <1>1, <1>2, <2>2, UnreservedCalls DEF c, Waits
    <3> QED BY <3>1, <3>2
  <2>3. CASE Reserves(r)
    <3>1. PICK p \in Takeable(ReservePool(c), ReserveLeases(c)) :
             /\ proxies' = [ReservePool(c) EXCEPT ![p].status = "checking", ![p].client = c,
                                                  ![p].drainingFor = NoClient]
             /\ reqs' = [reqs EXCEPT ![r].pc = "probe", ![r].proxy = p]
      BY <2>3 DEF Reserves, c
    <3>2. p \in Proxies
      BY DEF Takeable
    <3>3. proxies' \in [Proxies -> Proxy]
      <4> DEFINE x == ReservePool(c)[p]
      <4>1. x \in Proxy
        BY <1>2, <3>2
      <4>2. proxies' = [ReservePool(c) EXCEPT ![p] =
               [x EXCEPT !.status = "checking", !.client = c, !.drainingFor = NoClient]]
        BY <1>2, <3>1, <3>2
      <4> HIDE DEF x
      <4>3. [x EXCEPT !.status = "checking", !.client = c, !.drainingFor = NoClient] \in Proxy
        BY <1>1, <4>1, ReservedForm
      <4> QED BY <1>2, <4>2, <4>3
    <3>4. CallsOK'
      <4>1. \A x \in Request : x.client \in Clients =>
              ProperCall([x EXCEPT !.pc = "probe", !.proxy = p])
        BY <3>2 DEF ProperCall, Running, Request, Phases
      <4>2. reqs[r] \in Request
        BY DEF TInv, TypeOK
      <4>3. reqs' = [reqs EXCEPT ![r] = [reqs[r] EXCEPT !.pc = "probe", !.proxy = p]]
        BY <3>1 DEF TInv, TypeOK
      <4>4. gate' \in Callers \cup {Nobody}
        BY <2>3, GateKept DEF Reserves
      <4>5. ProperCall([reqs[r] EXCEPT !.pc = "probe", !.proxy = p])
        BY <1>1, <4>1, <4>2 DEF c
      <4> QED BY <4>3, <4>4, <4>5, CallUpdated
    <3>5. QueuesTyped'
      BY <1>2, <2>3 DEF c, Reserves, QueuesTyped
    <3> QED BY <3>3, <3>4, <3>5
  <2> QED BY <2>1, <2>2, <2>3, ReserveBranches
<1>8. PoolTyped'
  BY <1>3, <1>7 DEF PoolTyped
<1> QED BY <1>4, <1>5, <1>6, <1>7, <1>8, PartsNext

----------------------------------------------------------------------------
(* The results of a probe.                                                 *)

LEMMA ProbeTyped ==
    ASSUME TInv, NEW r \in Callers, reqs[r].pc = "probe"
    PROVE  /\ reqs[r].client \in Clients
           /\ reqs[r].proxy \in Proxies
           /\ proxies \in [Proxies -> Proxy]
           /\ reqs \in [Callers -> Request]
           /\ reqs[r] \in Request
BY CallsProper DEF ProperCall, Running, TInv, TypeOK

LEMMA PoolChanged ==
    ASSUME TInv, proxies' \in [Proxies -> Proxy], UNCHANGED << leases, conns >>
    PROVE  PoolTyped'
BY DEF PoolTyped, TInv, TypeOK

LEMMA SupersededTypes ==
    ASSUME TInv, NEW r \in Callers, probeSuperseded(r)
    PROVE  TInv'
<1>1. reqs[r].pc = "probe"
  BY DEF probeSuperseded
<1>2. proxies' \in [Proxies -> Proxy]
  BY <1>1, ProbeTyped, UnreservedForm DEF probeSuperseded
<1>3. PoolTyped'
  BY <1>2, PoolChanged DEF probeSuperseded
<1>4. CallsOK'
  BY <1>1, CallMoves, GateKept DEF probeSuperseded, Running, Phases
<1>5. QueuesTyped' /\ WorkerTyped' /\ OutsideTyped' /\ RowsTyped'
  BY Frames DEF probeSuperseded
<1> QED BY <1>3, <1>4, <1>5, PartsNext

\* The reserved proxy and the batch are given back.
LEMMA GivenBack ==
    ASSUME TInv, NEW r \in Callers, reqs[r].pc = "probe",
           proxies' = restoreProbes([proxies EXCEPT ![reqs[r].proxy] = markProxyIdle(@)],
                                    reqs[r].ambiguous, reqs[r].client)
    PROVE  proxies' \in [Proxies -> Proxy] /\ NoNewReservation(proxies, proxies')
<1> DEFINE ps == [proxies EXCEPT ![reqs[r].proxy] = markProxyIdle(@)]
<1>1. ps \in [Proxies -> Proxy] /\ NoNewReservation(proxies, ps)
  BY ProbeTyped, IdleForm DEF NoNewReservation
<1> HIDE DEF ps
<1>2. proxies' = restoreProbes(ps, reqs[r].ambiguous, reqs[r].client)
  BY DEF ps
<1> DEFINE qs == restoreProbes(ps, reqs[r].ambiguous, reqs[r].client)
<1>3. qs \in [Proxies -> Proxy] /\ NoNewReservation(ps, qs)
  BY <1>1, RestoredPool
<1>4. proxies' \in [Proxies -> Proxy] /\ NoNewReservation(ps, proxies')
  BY <1>2, <1>3 DEF NoNewReservation
<1> QED BY <1>1, <1>4 DEF NoNewReservation

LEMMA CanceledTypes ==
    ASSUME TInv, NEW r \in Callers, canceledProbeAssignment(r)
    PROVE  TInv'
<1>1. PoolTyped'
  BY GivenBack, PoolChanged DEF canceledProbeAssignment, Probed
<1>2. CallsOK'
  BY CallReturns DEF canceledProbeAssignment
<1>3. QueuesTyped' /\ WorkerTyped' /\ OutsideTyped' /\ RowsTyped'
  BY Frames DEF canceledProbeAssignment
<1> QED BY <1>1, <1>2, <1>3, PartsNext

LEMMA SharedFailureTypes ==
    ASSUME TInv, NEW r \in Callers, probeSharedFailure(r)
    PROVE  TInv'
<1>1. PoolTyped'
  BY GivenBack, PoolChanged DEF probeSharedFailure, Probed
<1>2. CallsOK'
  BY CallReturns DEF probeSharedFailure
<1>3. QueuesTyped'
  BY ProbeTyped, QueuesEnqueued DEF probeSharedFailure, Probed
<1>4. WorkerTyped'
  BY MaybeWoken DEF probeSharedFailure
<1>5. OutsideTyped'
  BY Zenon DEF probeSharedFailure, OutsideTyped, TInv, TypeOK
<1>6. RowsTyped'
  BY Frames DEF probeSharedFailure
<1> QED BY <1>1, <1>2, <1>3, <1>4, <1>5, <1>6, PartsNext

LEMMA AmbiguousTypes ==
    ASSUME TInv, NEW r \in Callers, probeAmbiguous(r)
    PROVE  TInv'
<1> DEFINE batch == reqs[r].ambiguous \cup {reqs[r].proxy}
<1>1. reqs[r].pc = "probe"
  BY DEF probeAmbiguous, Probed
<1>2. batch \in SUBSET Proxies
  BY <1>1, ProbeTyped DEF Request
<1> HIDE DEF batch
<1>3. CallsOK' /\ QueuesTyped'
  <2>1. CASE /\ reqs' = [reqs EXCEPT ![r].pc = "evidence", ![r].ambiguous = batch,
                                     ![r].answer = "pending"]
             /\ enqueuePending(reqs[r].client, reqs[r].refresh)
    <3>1. \A x \in Request : x.client \in Clients =>
            ProperCall([x EXCEPT !.pc = "evidence", !.ambiguous = batch, !.answer = "pending"])
      BY <1>2 DEF ProperCall, Running, Request, Phases
    <3>2. reqs' = [reqs EXCEPT ![r] =
            [reqs[r] EXCEPT !.pc = "evidence", !.ambiguous = batch, !.answer = "pending"]]
      BY <1>1, <2>1, ProbeTyped
    <3>3. CallsOK'
      BY <1>1, <3>1, <3>2, ProbeTyped, CallUpdated, GateKept DEF probeAmbiguous
    <3>4. QueuesTyped'
      BY <1>1, <2>1, ProbeTyped, QueuesEnqueued
    <3> QED BY <3>3, <3>4
  <2>2. CASE /\ reqs' = [reqs EXCEPT ![r].pc = "reserve", ![r].ambiguous = batch]
             /\ UNCHANGED queues
    <3>1. \A x \in Request : x.client \in Clients =>
            ProperCall([x EXCEPT !.pc = "reserve", !.ambiguous = batch])
      BY <1>2 DEF ProperCall, Running, Request, Phases
    <3>2. reqs' = [reqs EXCEPT ![r] = [reqs[r] EXCEPT !.pc = "reserve", !.ambiguous = batch]]
      BY <1>1, <2>2, ProbeTyped
    <3>3. CallsOK'
      BY <1>1, <3>1, <3>2, ProbeTyped, CallUpdated, GateKept DEF probeAmbiguous
    <3> QED BY <2>2, <3>3, Frames
  <2> QED BY <2>1, <2>2 DEF probeAmbiguous, batch
<1>4. PoolTyped' /\ WorkerTyped' /\ OutsideTyped' /\ RowsTyped'
  BY Frames DEF probeAmbiguous
<1> QED BY <1>3, <1>4, PartsNext

LEMMA ExitFailurePool ==
    ASSUME TInv, NEW r \in Callers, probeExitFailure(r)
    PROVE  proxies' \in [Proxies -> Proxy] /\ NoNewReservation(proxies, proxies')
<1>1. reqs[r].pc = "probe"
  BY DEF probeExitFailure, Probed
<1>2. PICK validated \in SUBSET reqs[r].ambiguous :
         proxies' = [failProbes(proxies, validated, reqs[r].client)
                        EXCEPT ![reqs[r].proxy] = markProbeFailed(@)]
  BY DEF probeExitFailure
<1>3. /\ failProbes(proxies, validated, reqs[r].client) \in [Proxies -> Proxy]
      /\ NoNewReservation(proxies, failProbes(proxies, validated, reqs[r].client))
  BY <1>1, ProbeTyped, FailedPool
<1> QED BY <1>1, <1>2, <1>3, ProbeTyped, FailedForm DEF NoNewReservation

LEMMA ExitFailureTypes ==
    ASSUME TInv, NEW r \in Callers, probeExitFailure(r)
    PROVE  TInv'
<1>1. reqs[r].pc = "probe"
  BY DEF probeExitFailure, Probed
<1>2. PICK validated \in SUBSET reqs[r].ambiguous :
         reqs' = [reqs EXCEPT ![r].pc = "reserve", ![r].ambiguous = @ \ validated]
  BY DEF probeExitFailure
<1>3. \A x \in Request : x.client \in Clients =>
        ProperCall([x EXCEPT !.pc = "reserve", !.ambiguous = x.ambiguous \ validated])
  BY DEF ProperCall, Running, Request, Phases
<1>4. reqs' = [reqs EXCEPT ![r] =
         [reqs[r] EXCEPT !.pc = "reserve", !.ambiguous = reqs[r].ambiguous \ validated]]
  BY <1>1, <1>2, ProbeTyped
<1>5. CallsOK'
  BY <1>1, <1>3, <1>4, ProbeTyped, CallUpdated, GateKept DEF probeExitFailure
<1>6. PoolTyped'
  BY ExitFailurePool, PoolChanged DEF probeExitFailure
<1>7. QueuesTyped' /\ WorkerTyped' /\ OutsideTyped' /\ RowsTyped'
  BY Frames DEF probeExitFailure
<1> QED BY <1>5, <1>6, <1>7, PartsNext

\* activateCheckedProxyLocked: p becomes the lease of c; any other proxy is
\* what it was in ps, or was left by the refresh.
LEMMA Activated ==
    ASSUME TInv, NEW r \in Callers, reqs[r].pc = "probe",
           NEW ps \in [Proxies -> Proxy], activateCheckedProxy(r, ps)
    PROVE  /\ proxies' \in [Proxies -> Proxy]
           /\ leases' = [leases EXCEPT ![reqs[r].client] =
                            [proxy |-> reqs[r].proxy, expired |-> FALSE]]
           /\ leases' \in [Clients -> Lease]
           /\ \A q \in Proxies : proxies'[q].status = "checking" =>
                 q # reqs[r].proxy /\ ps[q].status = "checking"
<1> DEFINE c == reqs[r].client
           p == reqs[r].proxy
           old == leases[c].proxy
           left == IF reqs[r].refresh /\ HasLease(c) /\ Present(old)
                   THEN [ps EXCEPT ![old] = vacate(@, c)] ELSE ps
<1>1. c \in Clients /\ p \in Proxies
  BY ProbeTyped
<1>2. /\ proxies' = [left EXCEPT ![p].status = "active", ![p].client = c,
                                 ![p].drainingFor = NoClient]
      /\ leases' = [leases EXCEPT ![c] = [proxy |-> p, expired |-> FALSE]]
  BY DEF activateCheckedProxy
<1>3. left \in [Proxies -> Proxy] /\ NoNewReservation(ps, left)
  BY <1>1, VacatedForm DEF NoNewReservation
<1> HIDE DEF left, p, c
<1>4. proxies' = [left EXCEPT ![p] =
         [left[p] EXCEPT !.status = "active", !.client = c, !.drainingFor = NoClient]]
  BY <1>1, <1>2, <1>3
<1>5. left[p] \in Proxy
  BY <1>1, <1>3
<1>6. [left[p] EXCEPT !.status = "active", !.client = c, !.drainingFor = NoClient] \in Proxy
  BY <1>1, <1>5, ReservedForm
<1>7. proxies' \in [Proxies -> Proxy]
  BY <1>3, <1>4, <1>6
<1>8. leases' \in [Clients -> Lease]
  BY <1>1, <1>2 DEF Lease, TInv, TypeOK
<1>9. proxies'[p].status = "active"
  BY <1>1, <1>3, <1>4, <1>5 DEF Proxy
<1>10. \A q \in Proxies : q # p => proxies'[q] = left[q]
  BY <1>3, <1>4
<1>11. \A q \in Proxies : proxies'[q].status = "checking" => q # p /\ ps[q].status = "checking"
  BY <1>3, <1>9, <1>10 DEF NoNewReservation
<1> QED BY <1>2, <1>7, <1>8, <1>11 DEF p, c

LEMMA SucceededPool ==
    ASSUME TInv, NEW r \in Callers, probeSucceeded(r)
    PROVE  /\ proxies' \in [Proxies -> Proxy]
           /\ leases' = [leases EXCEPT ![reqs[r].client] =
                            [proxy |-> reqs[r].proxy, expired |-> FALSE]]
           /\ leases' \in [Clients -> Lease]
           /\ \A q \in Proxies : proxies'[q].status = "checking" =>
                 q # reqs[r].proxy /\ proxies[q].status = "checking"
<1>1. reqs[r].pc = "probe"
  BY DEF probeSucceeded, Probed
<1>2. PICK validated \in SUBSET reqs[r].ambiguous :
         activateCheckedProxy(r, restoreProbes(failProbes(proxies, validated, reqs[r].client),
                                               reqs[r].ambiguous, reqs[r].client))
  BY DEF probeSucceeded
<1> DEFINE fs == failProbes(proxies, validated, reqs[r].client)
           ps == restoreProbes(fs, reqs[r].ambiguous, reqs[r].client)
<1>3. fs \in [Proxies -> Proxy] /\ NoNewReservation(proxies, fs)
  BY <1>1, ProbeTyped, FailedPool
<1> HIDE DEF fs
<1>4. ps \in [Proxies -> Proxy] /\ NoNewReservation(fs, ps)
  BY <1>3, RestoredPool
<1>5. activateCheckedProxy(r, ps)
  BY <1>2 DEF fs
<1> HIDE DEF ps
<1>6. /\ proxies' \in [Proxies -> Proxy]
      /\ leases' = [leases EXCEPT ![reqs[r].client] =
                       [proxy |-> reqs[r].proxy, expired |-> FALSE]]
      /\ leases' \in [Clients -> Lease]
      /\ \A q \in Proxies : proxies'[q].status = "checking" =>
            q # reqs[r].proxy /\ ps[q].status = "checking"
  BY <1>1, <1>4, <1>5, Activated
<1> QED BY <1>3, <1>4, <1>6 DEF NoNewReservation

LEMMA SucceededTypes ==
    ASSUME TInv, NEW r \in Callers, probeSucceeded(r)
    PROVE  TInv'
<1>1. reqs[r].pc = "probe"
  BY DEF probeSucceeded, Probed
<1>2. PICK ps : activateCheckedProxy(r, ps)
  BY DEF probeSucceeded
<1>3. PoolTyped'
  BY SucceededPool DEF probeSucceeded, PoolTyped, TInv, TypeOK
<1>4. QueuesTyped' /\ queueBackoff' \in BOOLEAN /\ queueRetry' \in BOOLEAN
  BY <1>1, <1>2, ProbeTyped, QueuesRemoved DEF activateCheckedProxy
<1>5. RowsTyped'
  BY <1>1, <1>2, ProbeTyped, Stored DEF activateCheckedProxy, RowsTyped, TInv, TypeOK
<1>6. CallsOK'
  BY CallReturns DEF probeSucceeded
<1>7. WorkerTyped'
  BY <1>4, Zenon DEF probeSucceeded, WorkerTyped, worker, TInv, TypeOK
<1>8. OutsideTyped'
  BY Frames DEF probeSucceeded
<1> QED BY <1>3, <1>4, <1>5, <1>6, <1>7, <1>8, PartsNext

----------------------------------------------------------------------------
(* The batches of ambiguous probes.                                        *)

BatchPhases == {"evidence", "cross", "recheck", "settle", "batch"}

LEMMA BatchTyped ==
    ASSUME TInv, NEW r \in Callers, reqs[r].pc \in BatchPhases
    PROVE  /\ reqs[r].client \in Clients
           /\ Running(reqs[r]) /\ reqs[r].pc # "probe"
           /\ proxies \in [Proxies -> Proxy]
           /\ reqs \in [Callers -> Request]
           /\ reqs[r] \in Request
           /\ reqs[r].ambiguous \subseteq Proxies
BY CallsProper DEF ProperCall, Running, BatchPhases, Request, TInv, TypeOK

LEMMA BatchRestored ==
    ASSUME TInv, NEW r \in Callers, RestoreBatch(r)
    PROVE  proxies' \in [Proxies -> Proxy] /\ NoNewReservation(proxies, proxies')
<1> DEFINE qs == restoreProbes(proxies, reqs[r].ambiguous, reqs[r].client)
<1>1. qs \in [Proxies -> Proxy] /\ NoNewReservation(proxies, qs)
  BY RestoredPool DEF TInv, TypeOK
<1> QED BY <1>1 DEF RestoreBatch, NoNewReservation

LEMMA ResolveCanceledTypes ==
    ASSUME TInv, NEW r \in Callers, resolveCanceled(r)
    PROVE  TInv'
<1>1. PoolTyped'
  BY BatchRestored, PoolChanged DEF resolveCanceled
<1>2. QueuesTyped'
  BY RemoveType, RemoveInjective DEF resolveCanceled, QueuesTyped, TInv, TypeOK
<1>3. CallsOK'
  BY CallReturns DEF resolveCanceled
<1>4. WorkerTyped' /\ OutsideTyped' /\ RowsTyped'
  BY Frames DEF resolveCanceled
<1> QED BY <1>1, <1>2, <1>3, <1>4, PartsNext

\* A step from one phase of a batch to a later one, with a changed batch.
LEMMA BatchMoves ==
    ASSUME TInv, NEW r \in Callers, reqs[r].pc \in BatchPhases, UNCHANGED gate,
           NEW pc \in BatchPhases, NEW batch \in SUBSET Proxies,
           reqs' = [reqs EXCEPT ![r].pc = pc, ![r].ambiguous = batch]
    PROVE  CallsOK'
<1>1. \A x \in Request : x.client \in Clients =>
        ProperCall([x EXCEPT !.pc = pc, !.ambiguous = batch])
  BY DEF ProperCall, Running, Request, Phases, BatchPhases
<1>2. reqs' = [reqs EXCEPT ![r] = [reqs[r] EXCEPT !.pc = pc, !.ambiguous = batch]]
  BY BatchTyped
<1> QED BY <1>1, <1>2, BatchTyped, CallUpdated, GateKept

LEMMA EvidencePool ==
    ASSUME TInv, NEW r \in Callers, applyRecentCrossEvidence(r)
    PROVE  proxies' \in [Proxies -> Proxy] /\ NoNewReservation(proxies, proxies')
<1>1. PICK validated : proxies' = failProbes(proxies, validated, reqs[r].client)
  BY DEF applyRecentCrossEvidence
<1> DEFINE qs == failProbes(proxies, validated, reqs[r].client)
<1>2. qs \in [Proxies -> Proxy] /\ NoNewReservation(proxies, qs)
  BY FailedPool DEF TInv, TypeOK
<1> QED BY <1>1, <1>2 DEF NoNewReservation

LEMMA EvidenceTypes ==
    ASSUME TInv, NEW r \in Callers, applyRecentCrossEvidence(r)
    PROVE  TInv'
<1>1. reqs[r].pc \in BatchPhases
  BY DEF applyRecentCrossEvidence, BatchPhases
<1>2. PoolTyped'
  BY EvidencePool, PoolChanged DEF applyRecentCrossEvidence
<1>3. PICK validated \in SUBSET reqs[r].ambiguous :
         \/ Goto(r, Unsettled(reqs[r].pc)) /\ UNCHANGED << gate, wakes >>
         \/ /\ reqs' = [reqs EXCEPT ![r].pc = "settle", ![r].ambiguous = @ \ validated]
            /\ UNCHANGED << gate, wakes >>
         \/ Return(r, reqs[r].answer) /\ Wake
  BY DEF applyRecentCrossEvidence
<1>4. CallsOK' /\ WorkerTyped'
  <2>1. CASE Goto(r, Unsettled(reqs[r].pc)) /\ UNCHANGED << gate, wakes >>
    <3>1. Unsettled(reqs[r].pc) \in Phases /\ Unsettled(reqs[r].pc) # "probe"
      BY DEF Unsettled, Phases
    <3> QED BY <1>1, <2>1, <3>1, BatchTyped, CallMoves, GateKept, MaybeWoken
            DEF applyRecentCrossEvidence
  <2>2. CASE /\ reqs' = [reqs EXCEPT ![r].pc = "settle", ![r].ambiguous = @ \ validated]
             /\ UNCHANGED << gate, wakes >>
    <3>1. reqs[r].ambiguous \ validated \in SUBSET Proxies
      BY <1>1, BatchTyped
    <3>2. reqs' = [reqs EXCEPT ![r].pc = "settle", ![r].ambiguous = reqs[r].ambiguous \ validated]
      BY <1>1, <2>2, BatchTyped
    <3>3. CallsOK'
      BY <1>1, <2>2, <3>1, <3>2, BatchMoves DEF BatchPhases
    <3> QED BY <2>2, <3>3, MaybeWoken DEF applyRecentCrossEvidence
  <2>3. CASE Return(r, reqs[r].answer) /\ Wake
    BY <2>3, CallReturns, MaybeWoken DEF applyRecentCrossEvidence
  <2> QED BY <1>3, <2>1, <2>2, <2>3
<1>5. QueuesTyped' /\ OutsideTyped' /\ RowsTyped'
  BY Frames DEF applyRecentCrossEvidence
<1> QED BY <1>2, <1>4, <1>5, PartsNext

LEMMA SettleTypes ==
    ASSUME TInv, NEW r \in Callers, settleBatch(r)
    PROVE  TInv'
<1>1. PoolTyped'
  BY BatchRestored, PoolChanged DEF settleBatch
<1>2. CallsOK'
  BY CallReturns DEF settleBatch
<1>3. wakes' \in 0..MaxWakes
  BY Woken DEF settleBatch
<1>4. WorkerTyped'
  BY <1>3, Zenon DEF settleBatch, WorkerTyped, TInv, TypeOK
<1>5. QueuesTyped' /\ OutsideTyped' /\ RowsTyped'
  BY Frames DEF settleBatch
<1> QED BY <1>1, <1>2, <1>4, <1>5, PartsNext

LEMMA RecordBatchTypes ==
    ASSUME TInv, NEW r \in Callers, recordBatch(r)
    PROVE  TInv'
<1>1. PoolTyped'
  BY BatchRestored, PoolChanged DEF recordBatch
<1>2. CallsOK'
  BY CallReturns DEF recordBatch
<1>3. wakes' \in 0..MaxWakes
  BY Woken DEF recordBatch
<1>4. WorkerTyped'
  BY <1>3, Zenon DEF recordBatch, WorkerTyped, TInv, TypeOK
<1>5. OutsideTyped'
  BY Zenon DEF recordBatch, OutsideTyped, TInv, TypeOK
<1>6. QueuesTyped' /\ RowsTyped'
  BY Frames DEF recordBatch
<1> QED BY <1>1, <1>2, <1>4, <1>5, <1>6, PartsNext

\* The four outcomes of crossValidate.
NoCandidate(r) ==
    /\ Goto(r, "recheck")
    /\ UNCHANGED << proxies, gate, wakes, queueBackoff, frontRetry >>
CrossShared(r) ==
    /\ frontRetry' \in {frontRetry, TRUE}
    /\ RestoreBatch(r)
    /\ Return(r, reqs[r].answer)
    /\ Wake
    /\ UNCHANGED queueBackoff
CrossUndecided(r) ==
    /\ \E p \in CrossCandidates(r), tokens \in BOOLEAN :
         reqs' = [reqs EXCEPT ![r].pc = "recheck",
                    ![r].ambiguous = IF tokens THEN @ \cup {p} ELSE @]
    /\ UNCHANGED << proxies, gate, wakes, queueBackoff, frontRetry >>
CrossValidates(r) ==
    /\ \E validated \in (SUBSET reqs[r].ambiguous) \ {{}} :
         /\ proxies' = restoreProbes(failProbes(proxies, validated, reqs[r].client),
                                     reqs[r].ambiguous, reqs[r].client)
         /\ queueBackoff' = (queueBackoff \/ validated # reqs[r].ambiguous)
    /\ Return(r, reqs[r].answer)
    /\ Wake
    /\ UNCHANGED frontRetry

LEMMA CrossOutcomes ==
    ASSUME NEW r \in Callers, crossValidate(r)
    PROVE  /\ reqs[r].pc = "cross"
           /\ NoCandidate(r) \/ CrossShared(r) \/ CrossUndecided(r) \/ CrossValidates(r)
           /\ UNCHANGED << leases, queues, conns, queueActive, queueRetry, checks, sweep, db >>
BY Zenon DEF crossValidate, NoCandidate, CrossShared, CrossUndecided, CrossValidates

LEMMA CrossPool ==
    ASSUME TInv, NEW r \in Callers, crossValidate(r)
    PROVE  proxies' \in [Proxies -> Proxy] /\ NoNewReservation(proxies, proxies')
<1>1. CASE NoCandidate(r) \/ CrossUndecided(r)
  <2>1. UNCHANGED proxies
    BY <1>1 DEF NoCandidate, CrossUndecided
  <2> QED BY <2>1 DEF NoNewReservation, TInv, TypeOK
<1>2. CASE CrossShared(r)
  BY <1>2, BatchRestored DEF CrossShared
<1>3. CASE CrossValidates(r)
  <2>1. PICK validated :
          proxies' = restoreProbes(failProbes(proxies, validated, reqs[r].client),
                                   reqs[r].ambiguous, reqs[r].client)
    BY <1>3 DEF CrossValidates
  <2> DEFINE fs == failProbes(proxies, validated, reqs[r].client)
             qs == restoreProbes(fs, reqs[r].ambiguous, reqs[r].client)
  <2>2. fs \in [Proxies -> Proxy] /\ NoNewReservation(proxies, fs)
    BY FailedPool DEF TInv, TypeOK
  <2> HIDE DEF fs
  <2>3. qs \in [Proxies -> Proxy] /\ NoNewReservation(fs, qs)
    BY <2>2, RestoredPool
  <2>4. proxies' = qs
    BY <2>1 DEF fs
  <2> QED BY <2>2, <2>3, <2>4 DEF NoNewReservation
<1> QED BY <1>1, <1>2, <1>3, CrossOutcomes

LEMMA CrossTypes ==
    ASSUME TInv, NEW r \in Callers, crossValidate(r)
    PROVE  TInv'
<1>1. /\ reqs[r].pc = "cross"
      /\ UNCHANGED << leases, queues, conns, queueActive, queueRetry, checks, sweep, db >>
  BY CrossOutcomes
<1>2. PoolTyped'
  BY <1>1, CrossPool, PoolChanged
<1>3. CallsOK'
  <2>1. CASE NoCandidate(r)
    BY <1>1, <2>1, CallMoves, GateKept DEF NoCandidate, Running, Phases
  <2>2. CASE CrossShared(r) \/ CrossValidates(r)
    BY <2>2, CallReturns DEF CrossShared, CrossValidates
  <2>3. CASE CrossUndecided(r)
    <3>1. PICK p \in CrossCandidates(r), tokens \in BOOLEAN :
             reqs' = [reqs EXCEPT ![r].pc = "recheck",
                        ![r].ambiguous = IF tokens THEN @ \cup {p} ELSE @]
      BY <2>3 DEF CrossUndecided
    <3> DEFINE batch == IF tokens THEN reqs[r].ambiguous \cup {p} ELSE reqs[r].ambiguous
    <3>2. batch \in SUBSET Proxies
      BY <1>1, BatchTyped DEF BatchPhases, CrossCandidates
    <3>3. reqs' = [reqs EXCEPT ![r].pc = "recheck", ![r].ambiguous = batch]
      BY <1>1, <3>1, BatchTyped DEF BatchPhases
    <3> HIDE DEF batch
    <3> QED BY <1>1, <2>3, <3>2, <3>3, BatchMoves DEF BatchPhases, CrossUndecided
  <2> QED BY <2>1, <2>2, <2>3, CrossOutcomes
<1>4. wakes' \in 0..MaxWakes
  BY CrossOutcomes, Woken DEF NoCandidate, CrossShared, CrossUndecided, CrossValidates,
                              TInv, TypeOK
<1>5. queueBackoff' \in BOOLEAN
  BY CrossOutcomes, Zenon DEF NoCandidate, CrossShared, CrossUndecided, CrossValidates,
                              TInv, TypeOK
<1>6. frontRetry' \in BOOLEAN
  BY CrossOutcomes, Zenon DEF NoCandidate, CrossShared, CrossUndecided, CrossValidates,
                              TInv, TypeOK
<1>7. WorkerTyped'
  BY <1>1, <1>4, <1>5, Zenon DEF WorkerTyped, TInv, TypeOK
<1>8. OutsideTyped'
  BY <1>1, <1>6, Zenon DEF OutsideTyped, TInv, TypeOK
<1>9. QueuesTyped' /\ RowsTyped'
  BY <1>1, Frames
<1> QED BY <1>2, <1>3, <1>7, <1>8, <1>9, PartsNext

----------------------------------------------------------------------------
(* The queue worker, timers and the front.                                 *)

LEMMA WorkerIsCaller == Worker \in Callers
BY DEF Callers

LEMMA ProcessQueueTypes == ASSUME TInv, processQueueAsync PROVE TInv'
<1>1. wakes' \in 0..MaxWakes
  BY MaxWakesAssumption DEF processQueueAsync, TInv, TypeOK
<1>2. WorkerTyped'
  BY <1>1, Zenon DEF processQueueAsync, WorkerTyped, TInv, TypeOK
<1>3. CallsOK'
  <2>1. CASE UNCHANGED reqs
    BY <2>1, Frames DEF processQueueAsync
  <2>2. CASE Goto(Worker, "next")
    BY <2>2, WorkerIsCaller, CallMoves, GateKept DEF processQueueAsync, Phases
  <2> QED BY <2>1, <2>2 DEF processQueueAsync
<1>4. PoolTyped' /\ QueuesTyped' /\ OutsideTyped' /\ RowsTyped'
  BY Frames DEF processQueueAsync
<1> QED BY <1>2, <1>3, <1>4, PartsNext

LEMMA NextQueuedTypes == ASSUME TInv, nextQueuedClient PROVE TInv'
<1>1. CallsOK' /\ QueuesTyped'
  <2>1. CASE Goto(Worker, "finish") /\ UNCHANGED queues
    BY <2>1, WorkerIsCaller, CallMoves, GateKept, Frames DEF nextQueuedClient, Phases
  <2>2. CASE /\ pendingNew # << >>
             /\ pendingNew' = Tail(pendingNew)
             /\ reqs' = [reqs EXCEPT ![Worker] = Calling(Head(pendingNew), FALSE)]
             /\ UNCHANGED pendingRefs
    <3>1. /\ Tail(pendingNew) \in Seq(Clients) /\ IsInjective(Tail(pendingNew))
          /\ Head(pendingNew) \in Clients
      BY <2>2, TailProperties DEF TInv, TypeOK
    <3>2. CallsOK'
      BY <2>2, <3>1, WorkerIsCaller, CallStarts, CallUpdated, GateKept DEF nextQueuedClient
    <3> QED BY <2>2, <3>1, <3>2 DEF QueuesTyped, TInv, TypeOK
  <2>3. CASE /\ pendingRefs # << >>
             /\ pendingRefs' = Tail(pendingRefs)
             /\ reqs' = [reqs EXCEPT ![Worker] = Calling(Head(pendingRefs), TRUE)]
             /\ UNCHANGED pendingNew
    <3>1. /\ Tail(pendingRefs) \in Seq(Clients) /\ IsInjective(Tail(pendingRefs))
          /\ Head(pendingRefs) \in Clients
      BY <2>3, TailProperties DEF TInv, TypeOK
    <3>2. CallsOK'
      BY <2>3, <3>1, WorkerIsCaller, CallStarts, CallUpdated, GateKept DEF nextQueuedClient
    <3> QED BY <2>3, <3>1, <3>2 DEF QueuesTyped, TInv, TypeOK
  <2> QED BY <2>1, <2>2, <2>3 DEF nextQueuedClient
<1>2. PoolTyped' /\ WorkerTyped' /\ OutsideTyped' /\ RowsTyped'
  BY Frames DEF nextQueuedClient
<1> QED BY <1>1, <1>2, PartsNext

LEMMA FinishQueueTypes == ASSUME TInv, finishQueue PROVE TInv'
<1>1. CallsOK'
  BY WorkerIsCaller, CallMoves, GateKept DEF finishQueue, Phases
<1>2. wakes' \in 0..MaxWakes
  BY Woken DEF finishQueue, TInv, TypeOK
<1>3. WorkerTyped'
  BY <1>2, Zenon DEF finishQueue, timers, WorkerTyped, TInv, TypeOK
<1>4. PoolTyped' /\ QueuesTyped' /\ OutsideTyped' /\ RowsTyped'
  BY Frames DEF finishQueue
<1> QED BY <1>1, <1>3, <1>4, PartsNext

LEMMA TimerTypes == ASSUME TInv, queueTimerFires PROVE TInv'
<1>1. wakes' \in 0..MaxWakes
  BY Woken DEF queueTimerFires, TInv, TypeOK
<1>2. WorkerTyped'
  BY <1>1, Zenon DEF queueTimerFires, WorkerTyped, TInv, TypeOK
<1>3. PoolTyped' /\ QueuesTyped' /\ CallsOK' /\ OutsideTyped' /\ RowsTyped'
  BY Frames DEF queueTimerFires
<1> QED BY <1>2, <1>3, PartsNext

LEMMA BackoffTypes == ASSUME TInv, queueBackoffElapses PROVE TInv'
<1>1. WorkerTyped'
  BY Zenon DEF queueBackoffElapses, worker, WorkerTyped, TInv, TypeOK
<1>2. PoolTyped' /\ QueuesTyped' /\ CallsOK' /\ OutsideTyped' /\ RowsTyped'
  BY Frames DEF queueBackoffElapses
<1> QED BY <1>1, <1>2, PartsNext

LEMMA FrontTypes == ASSUME TInv, frontChanges PROVE TInv'
<1>1. OutsideTyped'
  BY Zenon DEF frontChanges, OutsideTyped, TInv, TypeOK
<1>2. PoolTyped' /\ QueuesTyped' /\ CallsOK' /\ WorkerTyped' /\ RowsTyped'
  BY Frames DEF frontChanges
<1> QED BY <1>1, <1>2, PartsNext

----------------------------------------------------------------------------
(* Connections, health results, administration.                            *)

LEMMA CountForm ==
    ASSUME NEW x \in Proxy
    PROVE  /\ [x EXCEPT !.conns = x.conns + 1] \in Proxy
           /\ x.conns > 0 => [x EXCEPT !.conns = x.conns - 1] \in Proxy
           /\ [x EXCEPT !.conns = x.conns + 1].status = x.status
           /\ [x EXCEPT !.conns = x.conns - 1].status = x.status
BY DEF Proxy

LEMMA AcquirePool ==
    ASSUME TInv, NEW k \in Conns, NEW c \in Clients, AcquireProxyConn(k, c)
    PROVE  proxies' \in [Proxies -> Proxy] /\ NoNewReservation(proxies, proxies')
<1>1. proxies' = [proxies EXCEPT ![leases[c].proxy].conns = @ + 1]
  BY DEF AcquireProxyConn
<1>2. leases[c].proxy \in Proxies
  BY DEF AcquireProxyConn, Live, HasLease, Lease, TInv, TypeOK
<1> DEFINE p == leases[c].proxy
<1>3. proxies' = [proxies EXCEPT ![p] = [proxies[p] EXCEPT !.conns = proxies[p].conns + 1]]
  BY <1>1, <1>2 DEF TInv, TypeOK
<1> QED BY <1>2, <1>3, CountForm DEF NoNewReservation, TInv, TypeOK

LEMMA AcquireTypes ==
    ASSUME TInv, NEW k \in Conns, NEW c \in Clients, AcquireProxyConn(k, c)
    PROVE  TInv'
<1>1. leases[c] \in Lease
  BY DEF TInv, TypeOK
<1>2. [client |-> c, proxy |-> leases[c].proxy, closing |-> FALSE] \in Conn
  BY <1>1 DEF Conn, Lease
<1>3. conns' \in [Conns -> Conn]
  BY <1>2 DEF AcquireProxyConn, TInv, TypeOK
<1>4. PoolTyped'
  BY <1>3, AcquirePool DEF AcquireProxyConn, PoolTyped, TInv, TypeOK
<1>5. QueuesTyped' /\ CallsOK' /\ WorkerTyped' /\ OutsideTyped' /\ RowsTyped'
  BY Frames DEF AcquireProxyConn
<1> QED BY <1>4, <1>5, PartsNext

LEMMA UnregisterPool ==
    ASSUME TInv, NEW k \in Conns, UnregisterConn(k)
    PROVE  proxies' \in [Proxies -> Proxy] /\ NoNewReservation(proxies, proxies')
<1> DEFINE p == conns[k].proxy
<1>1. proxies \in [Proxies -> Proxy]
  BY DEF TInv, TypeOK
<1>2. CASE UNCHANGED proxies
  BY <1>1, <1>2 DEF NoNewReservation
<1>3. CASE proxies[p].conns > 0 /\ proxies' = [proxies EXCEPT ![p].conns = @ - 1]
  <2> DEFINE x == [proxies[p] EXCEPT !.conns = proxies[p].conns - 1]
  <2>1. CASE p \in Proxies
    <3>1. x \in Proxy /\ x.status = proxies[p].status
      BY <1>1, <1>3, <2>1, CountForm
    <3>2. proxies' = [proxies EXCEPT ![p] = x]
      BY <1>3
    <3> HIDE DEF x
    <3> QED BY <1>1, <3>1, <3>2 DEF NoNewReservation
  <2>2. CASE p \notin Proxies
    BY <1>1, <1>3, <2>2 DEF NoNewReservation
  <2> QED BY <2>1, <2>2
<1>4. CASE proxies' = [proxies EXCEPT ![p] = drainedProxy(@)]
  BY <1>1, <1>4, DrainedForm DEF NoNewReservation
<1> QED BY <1>2, <1>3, <1>4 DEF UnregisterConn

LEMMA UnregisterTypes ==
    ASSUME TInv, NEW k \in Conns, UnregisterConn(k)
    PROVE  TInv'
<1>1. FreeConn \in Conn
  BY DEF FreeConn, Conn
<1>2. PoolTyped'
  BY <1>1, UnregisterPool DEF UnregisterConn, PoolTyped, TInv, TypeOK
<1>3. WorkerTyped'
  BY MaybeWoken DEF UnregisterConn
<1>4. QueuesTyped' /\ CallsOK' /\ OutsideTyped' /\ RowsTyped'
  BY Frames DEF UnregisterConn
<1> QED BY <1>2, <1>3, <1>4, PartsNext

LEMMA CheckTypes ==
    ASSUME TInv, NEW p \in Proxies, proxyCheckSnapshot(p)
    PROVE  TInv'
<1>1. OutsideTyped'
  BY Zenon DEF proxyCheckSnapshot, OutsideTyped, TInv, TypeOK
<1>2. PoolTyped' /\ QueuesTyped' /\ CallsOK' /\ WorkerTyped' /\ RowsTyped'
  BY Frames DEF proxyCheckSnapshot
<1> QED BY <1>1, <1>2, PartsNext

LEMMA HealthPool ==
    ASSUME TInv, NEW p \in Proxies, recordHealth(p)
    PROVE  proxies' \in [Proxies -> Proxy] /\ NoNewReservation(proxies, proxies')
<1>1. proxies \in [Proxies -> Proxy]
  BY DEF TInv, TypeOK
<1>2. CASE UNCHANGED proxies
  BY <1>1, <1>2 DEF NoNewReservation
<1>3. CASE proxies' = [proxies EXCEPT ![p].status = "unhealthy"]
  BY <1>1, <1>3 DEF NoNewReservation, Proxy, Statuses
<1>4. ASSUME NEW c \in Clients \cup {NoClient},
             proxies' = [proxies EXCEPT ![p] = recoveredProxy(p, c)]
      PROVE  proxies' \in [Proxies -> Proxy] /\ NoNewReservation(proxies, proxies')
  BY <1>1, <1>4, RecoveredForm DEF NoNewReservation, TInv
<1> QED BY <1>2, <1>3, <1>4 DEF recordHealth

LEMMA HealthTypes ==
    ASSUME TInv, NEW p \in Proxies, recordHealth(p)
    PROVE  TInv'
<1>1. PoolTyped'
  BY HealthPool, PoolChanged DEF recordHealth
<1>2. WorkerTyped'
  BY MaybeWoken DEF recordHealth
<1>3. OutsideTyped'
  BY Zenon DEF recordHealth, OutsideTyped, TInv, TypeOK
<1>4. QueuesTyped' /\ CallsOK' /\ RowsTyped'
  BY Frames DEF recordHealth
<1> QED BY <1>1, <1>2, <1>3, <1>4, PartsNext

LEMMA RowForm == ASSUME NEW d \in BOOLEAN PROVE Row(d) \in {"absent", "enabled", "disabled"}
BY DEF Row

LEMMA AddTypes ==
    ASSUME TInv, NEW p \in Proxies, NEW d \in BOOLEAN, AddProxy(p, d)
    PROVE  TInv' /\ NoNewReservation(proxies, proxies')
<1>1. proxies' \in [Proxies -> Proxy] /\ NoNewReservation(proxies, proxies')
  BY NewForm DEF AddProxy, NoNewReservation, TInv, TypeOK
<1>2. PoolTyped'
  BY <1>1, PoolChanged DEF AddProxy
<1>3. RowsTyped'
  BY RowForm DEF AddProxy, RowsTyped, TInv, TypeOK
<1>4. WorkerTyped'
  BY MaybeWoken DEF AddProxy
<1>5. QueuesTyped' /\ CallsOK' /\ OutsideTyped'
  BY Frames DEF AddProxy
<1> QED BY <1>1, <1>2, <1>3, <1>4, <1>5, PartsNext

LEMMA ChangeTypes ==
    ASSUME TInv, NEW p \in Proxies, NEW d \in BOOLEAN, NEW status \in Statuses,
           status = "checking" => proxies[p].status = "checking",
           ChangeProxy(p, d, status)
    PROVE  TInv' /\ NoNewReservation(proxies, proxies')
<1> DEFINE x == [proxies[p] EXCEPT !.disabled = d, !.status = status]
<1>1. proxies \in [Proxies -> Proxy] /\ proxies[p] \in Proxy
  BY DEF TInv, TypeOK
<1>2. x \in Proxy
  BY <1>1, Zenon DEF Proxy
<1>3. x.status = status
  BY <1>1 DEF Proxy
<1>4. proxies' = [proxies EXCEPT ![p] = x]
  BY <1>1 DEF ChangeProxy
<1> HIDE DEF x
<1>5. proxies' \in [Proxies -> Proxy] /\ NoNewReservation(proxies, proxies')
  BY <1>1, <1>2, <1>3, <1>4 DEF NoNewReservation
<1>6. PoolTyped'
  BY <1>5, PoolChanged DEF ChangeProxy
<1>7. RowsTyped'
  BY RowForm DEF ChangeProxy, RowsTyped, TInv, TypeOK
<1>8. WorkerTyped'
  BY MaybeWoken DEF ChangeProxy
<1>9. QueuesTyped' /\ CallsOK' /\ OutsideTyped'
  BY Frames DEF ChangeProxy
<1> QED BY <1>5, <1>6, <1>7, <1>8, <1>9, PartsNext

LEMMA AdminTypes ==
    ASSUME TInv, NEW p \in Proxies, NEW d \in BOOLEAN,
           UpdateProxy(p, d) \/ SetProxyDisabled(p, d)
    PROVE  TInv' /\ NoNewReservation(proxies, proxies')
<1> DEFINE u == updatedStatus(proxies[p], d)
           s == disabledStatus(proxies[p], d)
<1>1. proxies[p].status \in Statuses
  BY DEF TInv, TypeOK, Proxy
<1>2. u \in Statuses /\ (u = "checking" => proxies[p].status = "checking")
  BY <1>1 DEF updatedStatus, Statuses
<1>3. s \in Statuses /\ (s = "checking" => proxies[p].status = "checking")
  BY <1>1 DEF disabledStatus, Statuses
<1>4. CASE ChangeProxy(p, d, u)
  BY <1>2, <1>4, ChangeTypes
<1>5. CASE ChangeProxy(p, d, s)
  BY <1>3, <1>5, ChangeTypes
<1> QED BY <1>4, <1>5 DEF UpdateProxy, SetProxyDisabled

LEMMA DeleteTypes ==
    ASSUME TInv, NEW p \in Proxies, DeleteProxy(p)
    PROVE  TInv' /\ NoNewReservation(proxies, proxies')
<1>1. proxies' \in [Proxies -> Proxy] /\ NoNewReservation(proxies, proxies')
  BY AbsentForm DEF DeleteProxy, NoNewReservation, TInv, TypeOK
<1>2. PoolTyped'
  BY <1>1, PoolChanged DEF DeleteProxy
<1>3. RowsTyped'
  BY DEF DeleteProxy, RowsTyped, TInv, TypeOK
<1>4. QueuesTyped' /\ CallsOK' /\ WorkerTyped' /\ OutsideTyped'
  BY Frames DEF DeleteProxy
<1> QED BY <1>1, <1>2, <1>3, <1>4, PartsNext


----------------------------------------------------------------------------
(* Restart, the initial state, and the types as an invariant.              *)

LEMMA ActiveForm ==
    ASSUME NEW d \in BOOLEAN, NEW c \in Clients
    PROVE  /\ [NewProxy(d) EXCEPT !.status = "active", !.client = c] \in Proxy
           /\ [NewProxy(d) EXCEPT !.status = "active", !.client = c].status # "checking"
BY DEF NewProxy, Absent, Proxy, Statuses

\* After a restart nothing is reserved.
LEMMA RestartPool ==
    ASSUME TInv, Restart
    PROVE  /\ proxies' \in [Proxies -> Proxy]
           /\ \A p \in Proxies : proxies'[p].status # "checking"
<1>1. PICK owner \in [Proxies -> Clients \cup {NoClient}] :
         proxies' = [p \in Proxies |->
               IF dbProxies'[p] = "absent" THEN Absent
               ELSE IF owner[p] = NoClient THEN NewProxy(dbProxies'[p] = "disabled")
               ELSE [NewProxy(dbProxies'[p] = "disabled")
                        EXCEPT !.status = "active", !.client = owner[p]]]
  BY DEF Restart
<1>2. ASSUME NEW p \in Proxies
      PROVE  proxies'[p] \in Proxy /\ proxies'[p].status # "checking"
  <2> DEFINE d == dbProxies'[p] = "disabled"
  <2>1. d \in BOOLEAN
    OBVIOUS
  <2>2. \/ proxies'[p] = Absent
        \/ proxies'[p] = NewProxy(d)
        \/ /\ owner[p] \in Clients
           /\ proxies'[p] = [NewProxy(d) EXCEPT !.status = "active", !.client = owner[p]]
    BY <1>1
  <2> HIDE DEF d
  <2> QED BY <2>1, <2>2, AbsentForm, NewForm, ActiveForm
<1> QED BY <1>1, <1>2

\* The leases a restart loads, and the rows it leaves in the table.
LEMMA RestartLeases ==
    ASSUME TInv, Restart
    PROVE  /\ leases' \in [Clients -> Lease]
           /\ \A c \in Clients : leases'[c].proxy # NoProxy =>
                 /\ leases'[c].proxy = dbLeases[c]
                 /\ ~(leases[c].proxy = dbLeases[c] /\ leases[c].expired)
           /\ dbLeases' \in [Clients -> Proxies \cup {NoProxy}]
           /\ \A c \in Clients : dbLeases'[c] = leases'[c].proxy
<1>1. PICK survivors \in SUBSET {c \in Clients :
            /\ dbLeases[c] # NoProxy
            /\ dbProxies'[dbLeases[c]] # "absent"
            /\ ~(leases[c].proxy = dbLeases[c] /\ leases[c].expired)} :
         /\ leases' = LoadedLeases(dbLeases, survivors)
         /\ dbLeases' = [c \in Clients |-> leases'[c].proxy]
  BY DEF Restart
<1>2. dbLeases \in [Clients -> Proxies \cup {NoProxy}]
  BY DEF TInv, TypeOK
<1>3. leases' \in [Clients -> Lease]
  BY <1>1, <1>2 DEF LoadedLeases, NoLease, Lease
<1>4. \A c \in Clients : leases'[c].proxy # NoProxy =>
         c \in survivors /\ leases'[c].proxy = dbLeases[c]
  BY <1>1 DEF LoadedLeases, NoLease
<1>5. dbLeases' \in [Clients -> Proxies \cup {NoProxy}]
  BY <1>1, <1>3 DEF Lease
<1> QED BY <1>1, <1>3, <1>4, <1>5

LEMMA RestartTypes == ASSUME TInv, Restart PROVE TInv'
<1>1. conns' \in [Conns -> Conn]
  BY DEF Restart, FreeConn, Conn
<1>2. PoolTyped'
  BY <1>1, RestartPool, RestartLeases DEF PoolTyped
<1>3. QueuesTyped'
  BY EmptyInjective DEF Restart, QueuesTyped
<1>4. CallsOK'
  <2>1. reqs' = [r \in Callers |-> IdleRequest] /\ gate' = Nobody
    BY DEF Restart
  <2>2. \A r \in Callers : ProperCall(reqs'[r])
    BY <2>1, IdleProper
  <2>3. reqs' \in [Callers -> Request]
    BY <2>1, IdleProper DEF ProperCall
  <2>4. CallsTyped'
    BY <2>2 DEF CallsTyped, ProperCall, Running
  <2> QED BY <2>1, <2>3, <2>4 DEF CallsOK
<1>5. wakes' \in 0..MaxWakes
  <2>1. wakes' = 0
    BY Zenon DEF Restart
  <2> QED BY <2>1, MaxWakesAssumption
<1>6. WorkerTyped'
  BY <1>5, Zenon DEF Restart, WorkerTyped
<1>7. OutsideTyped'
  BY Zenon DEF Restart, OutsideTyped
<1>8. dbProxies' \in [Proxies -> {"absent", "enabled", "disabled"}]
  BY DEF Restart, TInv, TypeOK
<1>9. RowsTyped'
  BY <1>8, RestartLeases DEF RowsTyped
<1> QED BY <1>2, <1>3, <1>4, <1>6, <1>7, <1>9, PartsNext

LEMMA InitTypes == Init => TInv
<1> SUFFICES ASSUME Init PROVE TInv
  OBVIOUS
<1>1. PoolTyped
  BY NewForm, AbsentForm DEF Init, PoolTyped, NoLease, Lease, FreeConn, Conn
<1>2. QueuesTyped
  BY EmptyInjective DEF Init, QueuesTyped
<1>3. CallsOK
  <2>1. reqs = [r \in Callers |-> IdleRequest] /\ gate = Nobody
    BY DEF Init
  <2>2. reqs \in [Callers -> Request] /\ \A r \in Callers : ProperCall(reqs[r])
    BY <2>1, IdleProper DEF ProperCall
  <2> QED BY <2>1, <2>2 DEF CallsOK, CallsTyped, ProperCall, Running
<1>4. wakes \in 0..MaxWakes
  BY MaxWakesAssumption DEF Init
<1>5. WorkerTyped
  BY <1>4, Zenon DEF Init, WorkerTyped
<1>6. OutsideTyped
  BY Zenon DEF Init, OutsideTyped
<1>7. RowsTyped
  BY DEF Init, RowsTyped
<1> QED BY <1>1, <1>2, <1>3, <1>5, <1>6, <1>7, Parts

LEMMA EnsureStepTypes ==
    ASSUME TInv, NEW r \in Callers, EnsureStep(r)
    PROVE  TInv'
BY AcquireGateTypes, AssignmentCanceledTypes, FrontBackoffTypes, SnapshotTypes,
   ReserveTypes, SupersededTypes, CanceledTypes, SharedFailureTypes, AmbiguousTypes,
   ExitFailureTypes, SucceededTypes, ResolveCanceledTypes, EvidenceTypes, SettleTypes,
   CrossTypes, RecordBatchTypes, Zenon
   DEF EnsureStep

LEMMA QueueStepTypes == ASSUME TInv, QueueStep PROVE TInv'
BY ProcessQueueTypes, NextQueuedTypes, FinishQueueTypes, TimerTypes, BackoffTypes, Zenon
   DEF QueueStep

LEMMA TypeStep == TInv /\ [Next]_vars => TInv'
<1> SUFFICES ASSUME TInv, [Next]_vars PROVE TInv'
  OBVIOUS
<1>1. CASE UNCHANGED vars
  BY <1>1, Frames, PartsNext DEF vars
<1>2. CASE \E r \in Requests, c \in Clients, refresh \in BOOLEAN : ensureLease(r, c, refresh)
  BY <1>2, EnsureTypes
<1>3. CASE \E r \in Callers : EnsureStep(r)
  BY <1>3, EnsureStepTypes
<1>4. CASE QueueStep
  BY <1>4, QueueStepTypes
<1>5. CASE frontChanges
  BY <1>5, FrontTypes
<1>6. CASE \E c \in Clients : Release(c) \/ leaseExpires(c) \/ expireLease(c)
  BY <1>6, ReleaseTypes, LeaseExpiresTypes, ExpireTypes
<1>7. CASE collectExpired
  BY <1>7, CollectTypes
<1>8. CASE \E k \in Conns : UnregisterConn(k) \/ \E c \in Clients : AcquireProxyConn(k, c)
  BY <1>8, UnregisterTypes, AcquireTypes
<1>9. CASE \E p \in Proxies : proxyCheckSnapshot(p) \/ recordHealth(p) \/ DeleteProxy(p)
  BY <1>9, CheckTypes, HealthTypes, DeleteTypes
<1>10. CASE \E p \in Proxies, d \in BOOLEAN :
               AddProxy(p, d) \/ UpdateProxy(p, d) \/ SetProxyDisabled(p, d)
  BY <1>10, AddTypes, AdminTypes
<1>11. CASE Restart
  BY <1>11, RestartTypes
<1> QED BY <1>1, <1>2, <1>3, <1>4, <1>5, <1>6, <1>7, <1>8, <1>9, <1>10, <1>11, Zenon DEF Next

\* The maps, queues and calls in progress of the manager keep their types, and
\* no client is twice in a queue, whatever steps of Lease, Refresh, the queue
\* worker, expiry, health checks, administration and restarts interleave.
THEOREM TypesCorrect == Spec => []TypeOK
<1>1. Init => TInv
  BY InitTypes
<1>2. TInv /\ [Next]_vars => TInv'
  BY TypeStep
<1>3. TInv => TypeOK
  BY DEF TInv
<1> QED BY <1>1, <1>2, <1>3, PTL DEF Spec

----------------------------------------------------------------------------
(* Exclusive leases.  LeasesSafe is the part of IInv beyond the types.     *)

LeasesSafe == ExclusiveLease /\ ReservedUnleased /\ RowsMatch

\* No unexpired lease of ms that ls does not have: releases, expiries.
FewerLeases(ls, ms) ==
    \A c \in Clients :
        ms[c].proxy # NoProxy /\ ~ms[c].expired
            => ms[c].proxy = ls[c].proxy /\ ~ls[c].expired

\* Fewer leases and no new reservation keep the leases safe; the table is
\* another matter.
LEMMA Shrinks ==
    ASSUME TInv, LeasesSafe, FewerLeases(leases, leases'), NoNewReservation(proxies, proxies')
    PROVE  ExclusiveLease' /\ ReservedUnleased'
<1>1. \A c \in Clients : Live(c)' => Live(c) /\ leases'[c].proxy = leases[c].proxy
  BY DEF FewerLeases, Live, HasLease
<1>2. ExclusiveLease'
  BY <1>1 DEF LeasesSafe, ExclusiveLease
<1>3. \A p \in Proxies : HasActiveLease(leases', p) => HasActiveLease(leases, p)
  BY SlotsAssumption DEF FewerLeases, HasActiveLease
<1>4. ReservedUnleased'
  BY <1>3 DEF LeasesSafe, ReservedUnleased, NoNewReservation
<1> QED BY <1>2, <1>4

LEMMA KeepsLeases ==
    ASSUME TInv, LeasesSafe, UNCHANGED << leases, dbLeases >>,
           NoNewReservation(proxies, proxies')
    PROVE  LeasesSafe'
<1>1. FewerLeases(leases, leases')
  BY DEF FewerLeases
<1>2. RowsMatch'
  BY DEF LeasesSafe, RowsMatch
<1> QED BY <1>1, <1>2, Shrinks DEF LeasesSafe

LEMMA KeepsPool ==
    ASSUME TInv, LeasesSafe, UNCHANGED << leases, dbLeases, proxies >>
    PROVE  LeasesSafe'
BY KeepsLeases DEF NoNewReservation

LEMMA RowsStored ==
    ASSUME TInv, LeasesSafe, NEW c \in Clients, NEW l \in Lease,
           leases' = [leases EXCEPT ![c] = l], storeLease(c, l.proxy)
    PROVE  RowsMatch'
BY DEF LeasesSafe, RowsMatch, storeLease, TInv, TypeOK

\* The lease of c is dropped, and its row with it.
LEMMA DropsLease ==
    ASSUME TInv, LeasesSafe, NEW c \in Clients, leases' = releasedLeases(c),
           IF HasLease(c) THEN storeLease(c, NoProxy) ELSE UNCHANGED dbLeases
    PROVE  FewerLeases(leases, leases') /\ RowsMatch'
<1>1. leases' = [leases EXCEPT ![c] = NoLease] /\ leases \in [Clients -> Lease]
  BY DEF releasedLeases, TInv, TypeOK
<1>2. FewerLeases(leases, leases')
  BY <1>1 DEF FewerLeases, NoLease
<1>3. NoLease \in Lease /\ NoLease.proxy = NoProxy
  BY DEF NoLease, Lease
<1>4. ASSUME HasLease(c) PROVE RowsMatch'
  BY <1>1, <1>3, <1>4, RowsStored
<1>5. ASSUME ~HasLease(c) PROVE RowsMatch'
  BY <1>1, <1>3, <1>5 DEF LeasesSafe, RowsMatch, HasLease
<1> QED BY <1>2, <1>4, <1>5

LEMMA ReleasedSafe ==
    ASSUME TInv, LeasesSafe, NEW c \in Clients, releaseLocked(c)
    PROVE  LeasesSafe'
<1>1. FewerLeases(leases, leases') /\ RowsMatch'
  BY DropsLease DEF releaseLocked
<1>2. NoNewReservation(proxies, proxies')
  BY ReleasedPool DEF releaseLocked, TInv
<1> QED BY <1>1, <1>2, Shrinks DEF LeasesSafe

LEMMA LeaseExpiresSafe ==
    ASSUME TInv, LeasesSafe, NEW c \in Clients, leaseExpires(c)
    PROVE  LeasesSafe'
<1>1. /\ leases \in [Clients -> Lease]
      /\ leases' = [leases EXCEPT ![c] = [leases[c] EXCEPT !.expired = TRUE]]
  BY DEF leaseExpires, TInv, TypeOK
<1>2. \A d \in Clients : leases'[d].proxy = leases[d].proxy /\ (~leases'[d].expired => ~leases[d].expired)
  <2>1. \A d \in Clients : d # c => leases'[d] = leases[d]
    BY <1>1
  <2>2. leases'[c].proxy = leases[c].proxy /\ leases'[c].expired
    BY <1>1 DEF Lease
  <2> QED BY <2>1, <2>2
<1>3. FewerLeases(leases, leases')
  BY <1>2 DEF FewerLeases
<1>4. RowsMatch'
  BY <1>2 DEF leaseExpires, db, LeasesSafe, RowsMatch
<1>5. NoNewReservation(proxies, proxies')
  BY DEF leaseExpires, NoNewReservation
<1> QED BY <1>3, <1>4, <1>5, Shrinks DEF LeasesSafe

\* Only a proxy without an unexpired lease is reserved.
LEMMA ReserveSafe ==
    ASSUME TInv, LeasesSafe, NEW r \in Callers, reserveProxyForLease(r)
    PROVE  LeasesSafe'
<1> DEFINE c == reqs[r].client
<1>1. c \in Clients
  BY ReserveBranches, CallClient DEF Running
<1>2. leases' = ReserveLeases(c)
  BY ReserveBranches
<1>3. IF StaleLease(c) THEN storeLease(c, NoProxy) ELSE UNCHANGED dbLeases
  BY ReserveBranches
<1>4. \/ proxies' = ReservePool(c)
      \/ \E p \in Takeable(ReservePool(c), ReserveLeases(c)) :
            proxies' = [ReservePool(c) EXCEPT ![p].status = "checking", ![p].client = c,
                                              ![p].drainingFor = NoClient]
  BY ReserveBranches DEF KeepsLease, Waits, Reserves
<1> HIDE DEF c
<1>5. FewerLeases(leases, leases') /\ RowsMatch'
  <2>1. CASE StaleLease(c)
    BY <1>1, <1>2, <1>3, <2>1, DropsLease DEF StaleLease, ReserveLeases
  <2>2. CASE ~StaleLease(c)
    BY <1>2, <1>3, <2>2 DEF ReserveLeases, FewerLeases, LeasesSafe, RowsMatch
  <2> QED BY <2>1, <2>2
<1>6. /\ ReservePool(c) \in [Proxies -> Proxy]
      /\ NoNewReservation(proxies, ReservePool(c))
  BY <1>1, ReserveStart
<1>7. \A p \in Proxies : ReservePool(c)[p].status = "checking" => ~HasActiveLease(leases', p)
  <2>1. \A p \in Proxies : HasActiveLease(leases', p) => HasActiveLease(leases, p)
    BY <1>5, SlotsAssumption DEF FewerLeases, HasActiveLease
  <2> QED BY <1>6, <2>1 DEF LeasesSafe, ReservedUnleased, NoNewReservation
<1>8. ReservedUnleased'
  <2>1. CASE proxies' = ReservePool(c)
    BY <1>7, <2>1 DEF ReservedUnleased
  <2>2. ASSUME NEW p \in Takeable(ReservePool(c), ReserveLeases(c)),
               proxies' = [ReservePool(c) EXCEPT ![p].status = "checking", ![p].client = c,
                                                 ![p].drainingFor = NoClient]
        PROVE  ReservedUnleased'
    <3>1. p \in Proxies /\ ~HasActiveLease(leases', p)
      BY <1>2 DEF Takeable
    <3>2. \A q \in Proxies : q # p => proxies'[q] = ReservePool(c)[q]
      BY <1>6, <2>2
    <3> QED BY <1>7, <3>1, <3>2 DEF ReservedUnleased
  <2> QED BY <1>4, <2>1, <2>2
<1>9. ExclusiveLease'
  BY <1>5 DEF FewerLeases, Live, HasLease, LeasesSafe, ExclusiveLease
<1> QED BY <1>5, <1>8, <1>9 DEF LeasesSafe

\* The reserved proxy was still reserved, hence leased to nobody, when its
\* probe came back; the lease is made in the same section.
LEMMA SucceededSafe ==
    ASSUME TInv, LeasesSafe, NEW r \in Callers, probeSucceeded(r)
    PROVE  LeasesSafe'
<1> DEFINE c == reqs[r].client
           p == reqs[r].proxy
<1>1. c \in Clients /\ p \in Proxies
  BY ProbeTyped DEF probeSucceeded, Probed
<1>2. proxies[p].status = "checking"
  BY DEF probeSucceeded, Probed, StillReserved, Reserved
<1>3. leases' = [leases EXCEPT ![c] = [proxy |-> p, expired |-> FALSE]]
  BY SucceededPool
<1>4. \A q \in Proxies : proxies'[q].status = "checking" => q # p /\ proxies[q].status = "checking"
  BY SucceededPool
<1>5. storeLease(c, p)
  BY DEF probeSucceeded, activateCheckedProxy
<1> HIDE DEF c, p
<1>6. leases \in [Clients -> Lease]
  BY DEF TInv, TypeOK
<1>7. ~HasActiveLease(leases, p)
  BY <1>1, <1>2 DEF LeasesSafe, ReservedUnleased
<1>8. \A d \in Clients : d # c => leases'[d] = leases[d]
  BY <1>3, <1>6
<1>9. leases'[c].proxy = p /\ ~leases'[c].expired
  BY <1>1, <1>3, <1>6
<1>10. ExclusiveLease'
  BY <1>7, <1>8, <1>9 DEF ExclusiveLease, Live, HasLease, HasActiveLease, LeasesSafe
<1>11. ReservedUnleased'
  BY <1>4, <1>8, <1>9 DEF ReservedUnleased, HasActiveLease, LeasesSafe
<1>12. RowsMatch'
  <2>1. [proxy |-> p, expired |-> FALSE] \in Lease
    BY <1>1 DEF Lease
  <2> QED BY <1>1, <1>3, <1>5, <2>1, RowsStored
<1> QED BY <1>10, <1>11, <1>12 DEF LeasesSafe

\* The steps that neither make, drop nor expire a lease, by what they do to
\* the pool.
LEMMA AssignmentSafe ==
    ASSUME TInv, LeasesSafe, NEW r \in Callers, EnsureStep(r)
    PROVE  LeasesSafe'
<1>1. CASE AcquireGate(r) \/ assignmentCanceled(r) \/ frontBackoffAssignment(r)
           \/ pendingSnapshot(r) \/ probeAmbiguous(r)
  BY <1>1, KeepsPool DEF AcquireGate, assignmentCanceled, frontBackoffAssignment,
                         pendingSnapshot, probeAmbiguous, db
<1>2. CASE reserveProxyForLease(r)
  BY <1>2, ReserveSafe
<1>3. CASE probeSuperseded(r)
  <2>1. NoNewReservation(proxies, proxies')
    BY <1>3, UnreservedForm, ProbeTyped DEF probeSuperseded, NoNewReservation
  <2> QED BY <1>3, <2>1, KeepsLeases DEF probeSuperseded, db
<1>4. CASE canceledProbeAssignment(r)
  BY <1>4, GivenBack, KeepsLeases DEF canceledProbeAssignment, Probed, db
<1>5. CASE probeSharedFailure(r)
  BY <1>5, GivenBack, KeepsLeases DEF probeSharedFailure, Probed, db
<1>6. CASE probeExitFailure(r)
  BY <1>6, ExitFailurePool, KeepsLeases DEF probeExitFailure, db
<1>7. CASE probeSucceeded(r)
  BY <1>7, SucceededSafe
<1>8. CASE resolveCanceled(r)
  BY <1>8, BatchRestored, KeepsLeases DEF resolveCanceled, db
<1>9. CASE applyRecentCrossEvidence(r)
  BY <1>9, EvidencePool, KeepsLeases DEF applyRecentCrossEvidence, db
<1>10. CASE settleBatch(r)
  BY <1>10, BatchRestored, KeepsLeases DEF settleBatch, db
<1>11. CASE crossValidate(r)
  BY <1>11, CrossPool, KeepsLeases DEF crossValidate, db
<1>12. CASE recordBatch(r)
  BY <1>12, BatchRestored, KeepsLeases DEF recordBatch, db
<1> QED BY <1>1, <1>2, <1>3, <1>4, <1>5, <1>6, <1>7, <1>8, <1>9, <1>10, <1>11, <1>12, Zenon
           DEF EnsureStep

LEMMA QueueSafe == ASSUME TInv, LeasesSafe, QueueStep PROVE LeasesSafe'
BY KeepsPool DEF QueueStep, processQueueAsync, nextQueuedClient, finishQueue,
                 queueTimerFires, queueBackoffElapses, db

LEMMA AdministrationSafe ==
    ASSUME TInv, LeasesSafe, NEW p \in Proxies, NEW d \in BOOLEAN,
           AddProxy(p, d) \/ UpdateProxy(p, d) \/ SetProxyDisabled(p, d) \/ DeleteProxy(p)
    PROVE  LeasesSafe'
<1>1. NoNewReservation(proxies, proxies')
  BY AddTypes, AdminTypes, DeleteTypes
<1>2. UNCHANGED << leases, dbLeases >>
  BY DEF AddProxy, UpdateProxy, SetProxyDisabled, ChangeProxy, DeleteProxy
<1> QED BY <1>1, <1>2, KeepsLeases

\* The rows a restart loads are the leases of the stopped process, as long as
\* no write of the table failed before.
LEMMA RestartSafe ==
    ASSUME TInv, LeasesSafe, Restart, "dbfail" \notin Events
    PROVE  LeasesSafe'
<1>1. \A c \in Clients : dbLeases[c] = leases[c].proxy
  BY DEF LeasesSafe, RowsMatch
<1>2. FewerLeases(leases, leases')
  BY <1>1, RestartLeases DEF FewerLeases
<1>3. \A p \in Proxies : proxies'[p].status # "checking"
  BY RestartPool
<1>4. ExclusiveLease' /\ ReservedUnleased'
  BY <1>2, <1>3, Shrinks DEF NoNewReservation
<1>5. RowsMatch'
  BY RestartLeases DEF RowsMatch
<1> QED BY <1>4, <1>5 DEF LeasesSafe

LEMMA SafeStep ==
    ASSUME "dbfail" \notin Events \/ "restart" \notin Events,
           TInv, LeasesSafe, [Next]_vars
    PROVE  LeasesSafe'
<1>1. CASE UNCHANGED vars
  BY <1>1, KeepsPool DEF vars, db
<1>2. CASE \E r \in Requests, c \in Clients, refresh \in BOOLEAN : ensureLease(r, c, refresh)
  BY <1>2, KeepsPool DEF ensureLease, db
<1>3. CASE \E r \in Callers : EnsureStep(r)
  BY <1>3, AssignmentSafe
<1>4. CASE QueueStep
  BY <1>4, QueueSafe
<1>5. CASE frontChanges
  BY <1>5, KeepsPool DEF frontChanges, db
<1>6. CASE \E c \in Clients : Release(c) \/ leaseExpires(c) \/ expireLease(c)
  BY <1>6, ReleasedSafe, LeaseExpiresSafe DEF Release, expireLease
<1>7. CASE collectExpired
  BY <1>7, KeepsPool DEF collectExpired, db
<1>8. CASE \E k \in Conns : UnregisterConn(k) \/ \E c \in Clients : AcquireProxyConn(k, c)
  <2>1. NoNewReservation(proxies, proxies')
    BY <1>8, UnregisterPool, AcquirePool
  <2>2. UNCHANGED << leases, dbLeases >>
    BY <1>8 DEF UnregisterConn, AcquireProxyConn, db
  <2> QED BY <2>1, <2>2, KeepsLeases
<1>9. CASE \E p \in Proxies : proxyCheckSnapshot(p) \/ recordHealth(p) \/ DeleteProxy(p)
  <2>1. ASSUME NEW p \in Proxies, proxyCheckSnapshot(p) PROVE LeasesSafe'
    BY <2>1, KeepsPool DEF proxyCheckSnapshot, db
  <2>2. ASSUME NEW p \in Proxies, recordHealth(p) PROVE LeasesSafe'
    BY <2>2, HealthPool, KeepsLeases DEF recordHealth, db
  <2> QED BY <1>9, <2>1, <2>2, AdministrationSafe
<1>10. CASE \E p \in Proxies, d \in BOOLEAN :
               AddProxy(p, d) \/ UpdateProxy(p, d) \/ SetProxyDisabled(p, d)
  BY <1>10, AdministrationSafe
<1>11. CASE Restart
  <2>1. "dbfail" \notin Events
    BY <1>11 DEF Restart
  <2> QED BY <1>11, <2>1, RestartSafe
<1> QED BY <1>1, <1>2, <1>3, <1>4, <1>5, <1>6, <1>7, <1>8, <1>9, <1>10, <1>11, Zenon DEF Next

LEMMA LeasesInvariant ==
    ASSUME "dbfail" \notin Events \/ "restart" \notin Events
    PROVE  Spec => []IInv
<1>1. Init => IInv
  <2> SUFFICES ASSUME Init PROVE IInv
    OBVIOUS
  <2>1. TInv
    BY InitTypes
  <2>2. \A c \in Clients : leases[c].proxy = NoProxy /\ dbLeases[c] = NoProxy
    BY DEF Init, NoLease
  <2>3. ExclusiveLease /\ RowsMatch
    BY <2>2 DEF ExclusiveLease, RowsMatch, Live, HasLease
  <2>4. ReservedUnleased
    BY <2>2, SlotsAssumption DEF ReservedUnleased, HasActiveLease
  <2> QED BY <2>1, <2>3, <2>4 DEF IInv
<1>2. IInv /\ [Next]_vars => IInv'
  BY TypeStep, SafeStep DEF IInv, LeasesSafe
<1> QED BY <1>1, <1>2, PTL DEF Spec

\* No two clients hold unexpired leases on the same proxy, whatever probes are
\* in flight while leases are refreshed, released, expired, disabled or loaded
\* again.  Either no write of the leases table fails or the process does not
\* restart: the manager ignores a failed write, and the row of a released lease
\* left behind by one is a lease again after a restart.
THEOREM ExclusiveLeases ==
    ASSUME "dbfail" \notin Events \/ "restart" \notin Events
    PROVE  Spec => []ExclusiveLease
<1>1. Spec => []IInv
  BY LeasesInvariant
<1>2. IInv => ExclusiveLease
  BY DEF IInv
<1> QED BY <1>1, <1>2, PTL

\* The new lease of a step: a probe succeeded, of a proxy that is not disabled,
\* or there is none.
LEMMA AssignsEnabled ==
    ASSUME "dbfail" \notin Events \/ "restart" \notin Events,
           IInv, [Next]_vars, NEW c \in Clients,
           leases'[c].proxy \notin {leases[c].proxy, NoProxy}
    PROVE  ~proxies[leases'[c].proxy].disabled
<1> USE DEF IInv
<1> DEFINE Keeps == \A d \in Clients : leases'[d].proxy \in {leases[d].proxy, NoProxy}
<1>1. SUFFICES ASSUME ~Keeps PROVE \E r \in Callers : probeSucceeded(r)
  <2>1. PICK r \in Callers : probeSucceeded(r)
    BY <1>1
  <2>2. /\ leases \in [Clients -> Lease]
        /\ leases' = [leases EXCEPT ![reqs[r].client] = [proxy |-> reqs[r].proxy, expired |-> FALSE]]
    BY <2>1, SucceededPool DEF TInv, TypeOK
  <2>3. leases'[c].proxy = reqs[r].proxy
    BY <2>2
  <2> QED BY <2>1, <2>3 DEF probeSucceeded, Probed
<1>2. \A d \in Clients : releasedLeases(d) # leases'
  BY <1>1 DEF releasedLeases, NoLease, TInv, TypeOK
<1>3. leases' # leases
  BY <1>1
<1>4. ASSUME NEW d \in Clients, leaseExpires(d) PROVE FALSE
  <2>1. /\ leases \in [Clients -> Lease]
        /\ leases' = [leases EXCEPT ![d] = [leases[d] EXCEPT !.expired = TRUE]]
    BY <1>4 DEF leaseExpires, TInv, TypeOK
  <2>2. \A e \in Clients : leases'[e].proxy = leases[e].proxy
    BY <2>1 DEF Lease
  <2> QED BY <1>1, <2>2
<1>5. ~Restart
  <2> SUFFICES ASSUME Restart PROVE FALSE
    OBVIOUS
  <2>1. \A d \in Clients : dbLeases[d] = leases[d].proxy
    BY DEF Restart, RowsMatch
  <2> QED BY <1>1, <2>1, RestartLeases
<1>6. ASSUME NEW r \in Callers, reserveProxyForLease(r) PROVE FALSE
  <2>1. reqs[r].client \in Clients
    BY <1>6, ReserveBranches, CallClient DEF Running
  <2> QED BY <1>2, <1>3, <1>6, <2>1, ReserveBranches DEF ReserveLeases
<1>7. CASE \E r \in Callers : EnsureStep(r)
  <2>1. PICK r \in Callers : EnsureStep(r)
    BY <1>7
  <2>2. \/ UNCHANGED leases
        \/ reserveProxyForLease(r)
        \/ probeSucceeded(r)
    BY <2>1 DEF EnsureStep, AcquireGate, assignmentCanceled, frontBackoffAssignment,
                pendingSnapshot, probeSuperseded, canceledProbeAssignment,
                probeSharedFailure, probeAmbiguous, probeExitFailure, resolveCanceled,
                applyRecentCrossEvidence, settleBatch, crossValidate, recordBatch
  <2> QED BY <1>3, <1>6, <2>2
<1>8. CASE \E d \in Clients : Release(d) \/ leaseExpires(d) \/ expireLease(d)
  BY <1>2, <1>4, <1>8 DEF Release, expireLease, releaseLocked
<1>9. CASE UNCHANGED leases
  BY <1>3, <1>9
<1>10. QueueStep => UNCHANGED leases
  BY DEF QueueStep, processQueueAsync, nextQueuedClient, finishQueue,
         queueTimerFires, queueBackoffElapses
<1>11. frontChanges \/ collectExpired \/ UNCHANGED vars => UNCHANGED leases
  BY DEF frontChanges, collectExpired, vars
<1>12. \A k \in Conns : UnregisterConn(k) => UNCHANGED leases
  BY DEF UnregisterConn
<1>13. \A k \in Conns, d \in Clients : AcquireProxyConn(k, d) => UNCHANGED leases
  BY DEF AcquireProxyConn
<1>14. \A p \in Proxies : proxyCheckSnapshot(p) \/ recordHealth(p) \/ DeleteProxy(p)
                             => UNCHANGED leases
  BY DEF proxyCheckSnapshot, recordHealth, DeleteProxy
<1>15. \A p \in Proxies, d \in BOOLEAN :
          AddProxy(p, d) \/ UpdateProxy(p, d) \/ SetProxyDisabled(p, d) => UNCHANGED leases
  BY DEF AddProxy, UpdateProxy, SetProxyDisabled, ChangeProxy
<1>16. \A r \in Requests, d \in Clients, refresh \in BOOLEAN :
          ensureLease(r, d, refresh) => UNCHANGED leases
  BY DEF ensureLease
<1> QED BY <1>5, <1>7, <1>8, <1>9, <1>10, <1>11, <1>12, <1>13, <1>14, <1>15, <1>16, Zenon
           DEF Next

\* A proxy the administrator disabled while it was being probed is not assigned:
\* the probe's result is used only after Disabled was read again.  A restart
\* loads the leases there were, disabled proxies included, under the same
\* assumption as above.
THEOREM DisabledNeverAssigned ==
    ASSUME "dbfail" \notin Events \/ "restart" \notin Events
    PROVE  Spec => DisabledNotAssigned
<1>1. Spec => []IInv
  BY LeasesInvariant
<1>2. IInv /\ [Next]_vars =>
        [\A c \in Clients :
            leases'[c].proxy \notin {leases[c].proxy, NoProxy}
                => ~proxies[leases'[c].proxy].disabled]_vars
  BY AssignsEnabled
<1> QED BY <1>1, <1>2, PTL DEF Spec, DisabledNotAssigned

----------------------------------------------------------------------------
(* What a step does to the pool, the leases and the connections, told once *)
(* for the invariants that relate them.                                    *)

\* The record y of a proxy whose record was x: a reservation may have ended.
Ended(x, y) ==
    \/ y = x
    \/ /\ x.status = "checking"
       /\ y \in {markProxyIdle(x), unreserveDisabled(x), markProbeFailed(x)}

ProbesEnd(ps, qs) ==
    /\ qs \in [Proxies -> Proxy]
    /\ \A p \in Proxies : Ended(ps[p], qs[p])

ReleaseEffect(c) ==
    /\ leases' = releasedLeases(c)
    /\ proxies' = releasedProxies(c)
    /\ conns' = closedConns(c)

ReservedPool(ps, p, c) ==
    [ps EXCEPT ![p].status = "checking", ![p].client = c, ![p].drainingFor = NoClient]

ReserveEffect(c) ==
    /\ leases' = ReserveLeases(c)
    /\ conns' = IF StaleLease(c) THEN closedConns(c) ELSE conns
    /\ \/ proxies' = ReservePool(c)
       \/ \E p \in Takeable(ReservePool(c), ReserveLeases(c)) :
             proxies' = ReservedPool(ReservePool(c), p, c)

Administered(p) ==
    \/ DeleteProxy(p)
    \/ \E d \in BOOLEAN : AddProxy(p, d) \/ UpdateProxy(p, d) \/ SetProxyDisabled(p, d)

PoolStep ==
    \/ UNCHANGED << leases, conns >> /\ ProbesEnd(proxies, proxies')
    \/ \E c \in Clients : ReleaseEffect(c) \/ ReserveEffect(c) \/ leaseExpires(c)
    \/ \E r \in Callers : probeSucceeded(r)
    \/ \E k \in Conns : UnregisterConn(k) \/ \E c \in Clients : AcquireProxyConn(k, c)
    \/ \E p \in Proxies : recordHealth(p) \/ Administered(p)
    \/ Restart

LEMMA SameEnded == ASSUME TInv, UNCHANGED proxies PROVE ProbesEnd(proxies, proxies')
BY DEF ProbesEnd, Ended, TInv, TypeOK

LEMMA RestoredEnd ==
    ASSUME NEW ps \in [Proxies -> Proxy], NEW batch, NEW c
    PROVE  ProbesEnd(ps, restoreProbes(ps, batch, c))
<1>1. restoreProbes(ps, batch, c) \in [Proxies -> Proxy]
  BY RestoredPool
<1>2. \A p \in Proxies : Ended(ps[p], restoreProbes(ps, batch, c)[p])
  BY Zenon DEF restoreProbes, Reserved, Ended
<1> QED BY <1>1, <1>2 DEF ProbesEnd

LEMMA FailedEnd ==
    ASSUME NEW ps \in [Proxies -> Proxy], NEW batch, NEW c
    PROVE  ProbesEnd(ps, failProbes(ps, batch, c))
<1>1. failProbes(ps, batch, c) \in [Proxies -> Proxy]
  BY FailedPool
<1>2. \A p \in Proxies : Ended(ps[p], failProbes(ps, batch, c)[p])
  BY Zenon DEF failProbes, Reserved, Ended
<1> QED BY <1>1, <1>2 DEF ProbesEnd

LEMMA EndedTwice ==
    ASSUME NEW ps \in [Proxies -> Proxy], NEW qs, NEW rs, ProbesEnd(ps, qs), ProbesEnd(qs, rs)
    PROVE  ProbesEnd(ps, rs)
<1>1. \A p \in Proxies : qs[p] # ps[p] => qs[p].status # "checking"
  BY IdleForm, UnreservedForm, FailedForm DEF ProbesEnd, Ended
<1>2. \A p \in Proxies : Ended(ps[p], rs[p])
  BY <1>1 DEF ProbesEnd, Ended
<1> QED BY <1>2 DEF ProbesEnd

\* One reservation of the pool ends.
LEMMA OneEnds ==
    ASSUME NEW ps \in [Proxies -> Proxy], NEW p \in Proxies, ps[p].status = "checking",
           NEW y \in {markProxyIdle(ps[p]), unreserveDisabled(ps[p]), markProbeFailed(ps[p])}
    PROVE  ProbesEnd(ps, [ps EXCEPT ![p] = y])
<1>1. y \in Proxy
  BY IdleForm, UnreservedForm, FailedForm
<1>2. \A q \in Proxies : [ps EXCEPT ![p] = y][q] = IF q = p THEN y ELSE ps[q]
  OBVIOUS
<1>3. [ps EXCEPT ![p] = y] \in [Proxies -> Proxy]
  BY <1>1
<1> QED BY <1>2, <1>3, Zenon DEF ProbesEnd, Ended

LEMMA ProbedReserved ==
    ASSUME TInv, NEW r \in Callers, Probed(r)
    PROVE  /\ reqs[r].proxy \in Proxies /\ reqs[r].client \in Clients
           /\ proxies \in [Proxies -> Proxy]
           /\ proxies[reqs[r].proxy].status = "checking"
           /\ proxies[reqs[r].proxy].client = reqs[r].client
BY ProbeTyped DEF Probed, StillReserved, Reserved

LEMMA GivenBackEnd ==
    ASSUME TInv, NEW r \in Callers, Probed(r),
           proxies' = restoreProbes([proxies EXCEPT ![reqs[r].proxy] = markProxyIdle(@)],
                                    reqs[r].ambiguous, reqs[r].client)
    PROVE  ProbesEnd(proxies, proxies')
<1> DEFINE ps == [proxies EXCEPT ![reqs[r].proxy] = markProxyIdle(proxies[reqs[r].proxy])]
<1>1. ProbesEnd(proxies, ps)
  BY ProbedReserved, OneEnds
<1>2. proxies' = restoreProbes(ps, reqs[r].ambiguous, reqs[r].client)
  OBVIOUS
<1> HIDE DEF ps
<1>3. ps \in [Proxies -> Proxy]
  BY <1>1 DEF ProbesEnd
<1>4. ProbesEnd(ps, restoreProbes(ps, reqs[r].ambiguous, reqs[r].client))
  BY <1>3, RestoredEnd
<1>5. ProbesEnd(ps, proxies')
  BY <1>2, <1>4, Zenon
<1> QED BY <1>1, <1>5, ProbedReserved, EndedTwice

LEMMA ExitFailureEnd ==
    ASSUME TInv, NEW r \in Callers, probeExitFailure(r)
    PROVE  ProbesEnd(proxies, proxies')
<1> DEFINE p == reqs[r].proxy
<1>1. PICK validated \in SUBSET reqs[r].ambiguous :
         proxies' = [failProbes(proxies, validated, reqs[r].client)
                        EXCEPT ![p] = markProbeFailed(@)]
  BY DEF probeExitFailure
<1> DEFINE fs == failProbes(proxies, validated, reqs[r].client)
<1>2. /\ p \in Proxies /\ proxies \in [Proxies -> Proxy] /\ proxies[p].status = "checking"
  BY ProbedReserved DEF probeExitFailure
<1>3. ProbesEnd(proxies, fs)
  BY <1>2, FailedEnd
<1>4. fs[p] \in {proxies[p], unreserveDisabled(proxies[p]), markProbeFailed(proxies[p])}
  BY <1>2, Zenon DEF failProbes
<1>5. proxies' = [fs EXCEPT ![p] = markProbeFailed(fs[p])]
  BY <1>1
<1>6. ~proxies[p].disabled
  BY DEF probeExitFailure, Probed
<1>7. fs[p] \in {proxies[p], markProbeFailed(proxies[p])}
  BY <1>2, <1>6, Zenon DEF failProbes
<1> HIDE DEF fs, p
<1>8. markProbeFailed(fs[p]) = markProbeFailed(proxies[p])
  BY <1>2, <1>7 DEF markProbeFailed, Proxy
<1>9. \A q \in Proxies : proxies'[q] = IF q = p THEN markProbeFailed(proxies[p]) ELSE fs[q]
  BY <1>3, <1>5, <1>8 DEF ProbesEnd
<1>10. proxies' \in [Proxies -> Proxy]
  BY <1>2, <1>3, <1>5, <1>8, FailedForm DEF ProbesEnd
<1> QED BY <1>2, <1>3, <1>9, <1>10, Zenon DEF ProbesEnd, Ended

LEMMA EnsureStepPool ==
    ASSUME TInv, NEW r \in Callers, EnsureStep(r)
    PROVE  \/ UNCHANGED << leases, conns >> /\ ProbesEnd(proxies, proxies')
           \/ reserveProxyForLease(r) /\ \E c \in Clients : ReserveEffect(c)
           \/ probeSucceeded(r)
<1>0. proxies \in [Proxies -> Proxy]
  BY DEF TInv, TypeOK
<1>1. CASE AcquireGate(r) \/ assignmentCanceled(r) \/ frontBackoffAssignment(r)
           \/ pendingSnapshot(r) \/ probeAmbiguous(r)
  BY <1>1, SameEnded DEF AcquireGate, assignmentCanceled, frontBackoffAssignment,
                         pendingSnapshot, probeAmbiguous
<1>2. CASE reserveProxyForLease(r)
  <2>1. reqs[r].client \in Clients
    BY <1>2, ReserveBranches, CallClient DEF Running
  <2>2. ReserveEffect(reqs[r].client)
    BY <1>2, ReserveBranches DEF KeepsLease, Waits, Reserves, ReserveEffect, ReservedPool
  <2> QED BY <1>2, <2>1, <2>2
<1>3. CASE probeSuperseded(r)
  <2>1. CASE UNCHANGED proxies
    BY <1>3, <2>1, SameEnded DEF probeSuperseded
  <2>2. CASE /\ StillReserved(r)
             /\ proxies' = [proxies EXCEPT ![reqs[r].proxy] = unreserveDisabled(@)]
    <3>1. reqs[r].proxy \in Proxies /\ proxies[reqs[r].proxy].status = "checking"
      BY <1>3, <2>2, ProbeTyped DEF probeSuperseded, StillReserved, Reserved
    <3>2. ProbesEnd(proxies, [proxies EXCEPT ![reqs[r].proxy] = unreserveDisabled(proxies[reqs[r].proxy])])
      BY <1>0, <3>1, OneEnds
    <3> QED BY <1>3, <2>2, <3>2 DEF probeSuperseded
  <2> QED BY <1>3, <2>1, <2>2 DEF probeSuperseded
<1>4. CASE canceledProbeAssignment(r)
  BY <1>4, GivenBackEnd DEF canceledProbeAssignment
<1>5. CASE probeSharedFailure(r)
  BY <1>5, GivenBackEnd DEF probeSharedFailure
<1>6. CASE probeExitFailure(r)
  BY <1>6, ExitFailureEnd DEF probeExitFailure
<1>7. CASE resolveCanceled(r) \/ settleBatch(r) \/ recordBatch(r)
  <2>1. proxies' = restoreProbes(proxies, reqs[r].ambiguous, reqs[r].client)
    BY <1>7 DEF resolveCanceled, settleBatch, recordBatch, RestoreBatch
  <2>2. ProbesEnd(proxies, proxies')
    BY <1>0, <2>1, RestoredEnd
  <2> QED BY <1>7, <2>2 DEF resolveCanceled, settleBatch, recordBatch
<1>8. CASE applyRecentCrossEvidence(r)
  <2>1. PICK validated : proxies' = failProbes(proxies, validated, reqs[r].client)
    BY <1>8 DEF applyRecentCrossEvidence
  <2>2. ProbesEnd(proxies, proxies')
    BY <1>0, <2>1, FailedEnd
  <2> QED BY <1>8, <2>2 DEF applyRecentCrossEvidence
<1>9. CASE crossValidate(r)
  <2>1. UNCHANGED << leases, conns >>
    BY <1>9, CrossOutcomes
  <2>2. CASE NoCandidate(r) \/ CrossUndecided(r)
    BY <2>1, <2>2, SameEnded DEF NoCandidate, CrossUndecided
  <2>3. CASE CrossShared(r)
    <3>1. proxies' = restoreProbes(proxies, reqs[r].ambiguous, reqs[r].client)
      BY <2>3 DEF CrossShared, RestoreBatch
    <3> QED BY <1>0, <2>1, <3>1, RestoredEnd
  <2>4. CASE CrossValidates(r)
    <3>1. PICK validated :
            proxies' = restoreProbes(failProbes(proxies, validated, reqs[r].client),
                                     reqs[r].ambiguous, reqs[r].client)
      BY <2>4 DEF CrossValidates
    <3> DEFINE fs == failProbes(proxies, validated, reqs[r].client)
    <3>2. ProbesEnd(proxies, fs)
      BY <1>0, FailedEnd
    <3> HIDE DEF fs
    <3>3. ProbesEnd(fs, restoreProbes(fs, reqs[r].ambiguous, reqs[r].client))
      BY <3>2, RestoredEnd DEF ProbesEnd
    <3>4. ProbesEnd(fs, proxies')
      BY <3>1, <3>3 DEF fs
    <3> QED BY <1>0, <2>1, <3>2, <3>4, EndedTwice
  <2> QED BY <1>9, <2>2, <2>3, <2>4, CrossOutcomes
<1>10. CASE probeSucceeded(r)
  BY <1>10
<1> QED BY <1>1, <1>2, <1>3, <1>4, <1>5, <1>6, <1>7, <1>8, <1>9, <1>10, Zenon DEF EnsureStep

\* Every step of the manager is one of these to the pool.
LEMMA PoolSteps == ASSUME TInv, [Next]_vars PROVE PoolStep
<1>1. CASE \/ UNCHANGED vars
           \/ \E r \in Requests, c \in Clients, refresh \in BOOLEAN : ensureLease(r, c, refresh)
           \/ QueueStep \/ frontChanges \/ collectExpired
           \/ \E p \in Proxies : proxyCheckSnapshot(p)
  <2>1. UNCHANGED << proxies, leases, conns >>
    BY <1>1 DEF vars, ensureLease, QueueStep, processQueueAsync, nextQueuedClient, finishQueue,
                queueTimerFires, queueBackoffElapses, frontChanges, collectExpired,
                proxyCheckSnapshot
  <2> QED BY <2>1, SameEnded DEF PoolStep
<1>2. CASE \E r \in Callers : EnsureStep(r)
  BY <1>2, EnsureStepPool, Zenon DEF PoolStep
<1>3. CASE \E c \in Clients : Release(c) \/ leaseExpires(c) \/ expireLease(c)
  BY <1>3, Zenon DEF PoolStep, Release, expireLease, releaseLocked, ReleaseEffect
<1>4. CASE \E k \in Conns : UnregisterConn(k) \/ \E c \in Clients : AcquireProxyConn(k, c)
  BY <1>4, Zenon DEF PoolStep
<1>5. CASE \E p \in Proxies : recordHealth(p) \/ DeleteProxy(p)
  BY <1>5, Zenon DEF PoolStep, Administered
<1>6. CASE \E p \in Proxies, d \in BOOLEAN :
               AddProxy(p, d) \/ UpdateProxy(p, d) \/ SetProxyDisabled(p, d)
  BY <1>6, Zenon DEF PoolStep, Administered
<1>7. CASE Restart
  BY <1>7 DEF PoolStep
<1> QED BY <1>1, <1>2, <1>3, <1>4, <1>5, <1>6, <1>7, Zenon DEF Next

----------------------------------------------------------------------------
(* Release closes every connection of its client.                          *)

\* A registered connection names its client and proxy, and is being closed if
\* its client has no lease, in the leases ls and the connections cs.
ClosedWithout(ls, cs) ==
    \A k \in Conns : cs[k] # FreeConn =>
        /\ cs[k].client \in Clients
        /\ cs[k].proxy \in Proxies
        /\ ls[cs[k].client].proxy = NoProxy => cs[k].closing

LEMMA ReleaseCloses ==
    ASSUME TInv, ClosedWithout(leases, conns), NEW c \in Clients
    PROVE  ClosedWithout(releasedLeases(c), closedConns(c))
<1> DEFINE ls == releasedLeases(c)
           cs == closedConns(c)
<1>1. conns \in [Conns -> Conn] /\ leases \in [Clients -> Lease]
  BY DEF TInv, TypeOK
<1>2. \A d \in Clients : d # c => ls[d] = leases[d]
  BY <1>1 DEF releasedLeases
<1>3. CASE ~HasLease(c)
  <2>1. cs = conns /\ leases[c].proxy = NoProxy
    BY <1>3 DEF closedConns, HasLease
  <2> HIDE DEF ls, cs
  <2>2. ClosedWithout(ls, cs)
    BY <1>2, <2>1 DEF ClosedWithout
  <2> QED BY <2>2 DEF ls, cs
<1>4. CASE HasLease(c)
  <2>1. \A k \in Conns : cs[k] = IF conns[k].client = c
                                 THEN [conns[k] EXCEPT !.closing = TRUE] ELSE conns[k]
    BY <1>4 DEF closedConns
  <2>2. \A k \in Conns : /\ cs[k].client = conns[k].client /\ cs[k].proxy = conns[k].proxy
                         /\ conns[k].closing => cs[k].closing
                         /\ conns[k].client = c => cs[k].closing
                         /\ conns[k] = FreeConn => cs[k] = FreeConn
    <3> SUFFICES ASSUME NEW k \in Conns
                 PROVE  /\ cs[k].client = conns[k].client /\ cs[k].proxy = conns[k].proxy
                        /\ conns[k].closing => cs[k].closing
                        /\ conns[k].client = c => cs[k].closing
                        /\ conns[k] = FreeConn => cs[k] = FreeConn
      OBVIOUS
    <3>1. conns[k] \in Conn
      BY <1>1
    <3>2. FreeConn.client # c
      BY SlotsAssumption DEF FreeConn
    <3>3. CASE conns[k].client = c
      BY <2>1, <3>1, <3>2, <3>3 DEF Conn
    <3>4. CASE conns[k].client # c
      BY <2>1, <3>4
    <3> QED BY <3>3, <3>4
  <2> HIDE DEF ls, cs
  <2>3. ClosedWithout(ls, cs)
    BY <1>2, <2>2 DEF ClosedWithout
  <2> QED BY <2>3 DEF ls, cs
<1> QED BY <1>3, <1>4

\* Connections stay as they are, and no client loses its lease.
LEMMA KeepsClosed ==
    ASSUME ClosedWithout(leases, conns), UNCHANGED conns,
           \A c \in Clients : leases[c].proxy # NoProxy => leases'[c].proxy # NoProxy
    PROVE  ClosedWithout(leases', conns')
BY DEF ClosedWithout

LEMMA ConnectionCloses ==
    ASSUME TInv, ClosedWithout(leases, conns), NEW k \in Conns,
           UnregisterConn(k) \/ \E c \in Clients : AcquireProxyConn(k, c)
    PROVE  ClosedWithout(leases', conns')
<1>1. conns \in [Conns -> Conn] /\ UNCHANGED leases
  BY DEF TInv, TypeOK, UnregisterConn, AcquireProxyConn
<1>2. CASE UnregisterConn(k)
  <2>1. conns' = [conns EXCEPT ![k] = FreeConn]
    BY <1>2 DEF UnregisterConn
  <2> QED BY <1>1, <2>1 DEF ClosedWithout
<1>3. ASSUME NEW c \in Clients, AcquireProxyConn(k, c)
      PROVE  ClosedWithout(leases', conns')
  <2>1. conns' = [conns EXCEPT ![k] = [client |-> c, proxy |-> leases[c].proxy, closing |-> FALSE]]
    BY <1>3 DEF AcquireProxyConn
  <2>2. leases[c].proxy \in Proxies /\ leases[c].proxy # NoProxy
    BY <1>3 DEF AcquireProxyConn, Live, HasLease, Lease, TInv, TypeOK
  <2>3. /\ conns'[k].client = c /\ conns'[k].proxy = leases[c].proxy
        /\ \A j \in Conns : j # k => conns'[j] = conns[j]
    BY <1>1, <2>1
  <2> QED BY <1>1, <2>2, <2>3 DEF ClosedWithout
<1> QED BY <1>2, <1>3

LEMMA ClosedStep ==
    ASSUME TInv, ClosedWithout(leases, conns), [Next]_vars
    PROVE  ClosedWithout(leases', conns')
<1>1. CASE UNCHANGED << leases, conns >>
  BY <1>1, KeepsClosed
<1>2. ASSUME NEW c \in Clients, ReleaseEffect(c)
      PROVE  ClosedWithout(leases', conns')
  BY <1>2, ReleaseCloses DEF ReleaseEffect
<1>3. ASSUME NEW c \in Clients, ReserveEffect(c)
      PROVE  ClosedWithout(leases', conns')
  BY <1>3, ReleaseCloses DEF ReserveEffect, ReserveLeases
<1>4. ASSUME NEW c \in Clients, leaseExpires(c)
      PROVE  ClosedWithout(leases', conns')
  <2>1. /\ leases \in [Clients -> Lease] /\ UNCHANGED conns
        /\ leases' = [leases EXCEPT ![c] = [leases[c] EXCEPT !.expired = TRUE]]
    BY <1>4 DEF leaseExpires, TInv, TypeOK
  <2>2. \A d \in Clients : leases'[d].proxy = leases[d].proxy
    BY <2>1 DEF Lease
  <2> QED BY <2>1, <2>2, KeepsClosed
<1>5. ASSUME NEW r \in Callers, probeSucceeded(r)
      PROVE  ClosedWithout(leases', conns')
  <2>1. /\ leases \in [Clients -> Lease]
        /\ leases' = [leases EXCEPT ![reqs[r].client] = [proxy |-> reqs[r].proxy, expired |-> FALSE]]
    BY <1>5, SucceededPool DEF TInv, TypeOK
  <2>2. reqs[r].proxy # NoProxy /\ UNCHANGED conns
    BY <1>5, ProbedReserved, SlotsAssumption DEF probeSucceeded
  <2> QED BY <2>1, <2>2, KeepsClosed
<1>6. ASSUME NEW k \in Conns, UnregisterConn(k) \/ \E c \in Clients : AcquireProxyConn(k, c)
      PROVE  ClosedWithout(leases', conns')
  BY <1>6, ConnectionCloses
<1>7. ASSUME NEW p \in Proxies, recordHealth(p) \/ Administered(p)
      PROVE  ClosedWithout(leases', conns')
  <2>1. UNCHANGED << leases, conns >>
    BY <1>7 DEF recordHealth, Administered, AddProxy, UpdateProxy, SetProxyDisabled, ChangeProxy,
                DeleteProxy
  <2> QED BY <2>1, KeepsClosed
<1>8. CASE Restart
  <2>1. \A k \in Conns : conns'[k] = FreeConn
    BY <1>8 DEF Restart
  <2> QED BY <2>1 DEF ClosedWithout
<1> QED BY <1>1, <1>2, <1>3, <1>4, <1>5, <1>6, <1>7, <1>8, PoolSteps, Zenon DEF PoolStep

\* A client without a lease has no connection left open, those it still had on
\* the proxies it held before included, whatever its leases went through.
THEOREM ReleaseCloseConnections == Spec => []ReleaseClosesConns
<1>1. Init => TInv /\ ClosedWithout(leases, conns)
  <2> SUFFICES ASSUME Init PROVE ClosedWithout(leases, conns)
    BY InitTypes
  <2>1. \A k \in Conns : conns[k] = FreeConn
    BY DEF Init
  <2> QED BY <2>1 DEF ClosedWithout
<1>2. TInv /\ ClosedWithout(leases, conns) /\ [Next]_vars => (TInv /\ ClosedWithout(leases, conns))'
  BY TypeStep, ClosedStep
<1>3. ClosedWithout(leases, conns) => ReleaseClosesConns
  BY DEF ClosedWithout, ReleaseClosesConns, HasLease
<1> QED BY <1>1, <1>2, <1>3, PTL DEF Spec

----------------------------------------------------------------------------
(* What a step does to the calls in progress.  With a front, the gate      *)
(* admits one of them at a time past its first phase.                      *)

Past == {"backoff", "snapshot", "reserve", "probe", "evidence", "cross", "recheck",
         "settle", "batch"}

\* Only the call r changes; it enters a probe by a reservation, passes the gate
\* when that is free, and gives it back when it returns.
CallStep(r) ==
    /\ \A s \in Callers \ {r} : reqs'[s] = reqs[s]
    /\ reqs'[r].pc = "probe" => reserveProxyForLease(r)
    /\ \/ UNCHANGED gate /\ (reqs'[r].pc \in Past => ~FrontEnabled \/ reqs[r].pc \in Past)
       \/ gate = Nobody /\ gate' = r
       \/ reqs'[r].pc \notin Past /\ gate' = IF gate = r THEN Nobody ELSE gate

\* The call r moves from a phase past the gate to another one.
LEMMA MovesOn ==
    ASSUME TInv, NEW r \in Callers, NEW x, reqs' = [reqs EXCEPT ![r] = x], UNCHANGED gate,
           x.pc # "probe", reqs[r].pc \in Past \/ x.pc \notin Past
    PROVE  CallStep(r)
BY DEF CallStep, TInv, TypeOK

LEMMA GoesOn ==
    ASSUME TInv, NEW r \in Callers, NEW pc \in Phases, Goto(r, pc), UNCHANGED gate,
           pc # "probe", reqs[r].pc \in Past \/ pc \notin Past
    PROVE  CallStep(r)
<1> DEFINE x == [reqs[r] EXCEPT !.pc = pc]
<1>1. reqs' = [reqs EXCEPT ![r] = x] /\ x.pc = pc
  BY DEF Goto, TInv, TypeOK, Request
<1> HIDE DEF x
<1> QED BY <1>1, MovesOn

LEMMA ReturnsOnce ==
    ASSUME TInv, NEW r \in Callers, NEW answer, Return(r, answer)
    PROVE  CallStep(r)
<1>1. PICK x \in {IdleRequest} \cup {[IdleRequest EXCEPT !.pc = pc] : pc \in {"next", "finish"}} :
         reqs' = [reqs EXCEPT ![r] = x]
  BY DEF Return
<1>2. x.pc \in {"idle", "next", "finish"}
  BY DEF IdleRequest
<1>3. gate' = IF gate = r THEN Nobody ELSE gate
  BY DEF Return
<1> QED BY <1>1, <1>2, <1>3 DEF CallStep, Past, TInv, TypeOK

LEMMA CallTyped == ASSUME TInv, NEW r \in Callers PROVE reqs[r] \in Request /\ reqs \in [Callers -> Request]
BY DEF TInv, TypeOK

LEMMA UnreservedCall ==
    ASSUME TInv, NEW r \in Callers, reqs[r].pc = "reserve", NEW answer \in {"active", "pending"},
           Unreserved(r, answer)
    PROVE  CallStep(r)
<1>1. CASE Return(r, answer)
  BY <1>1, ReturnsOnce
<1>2. CASE /\ reqs' = [reqs EXCEPT ![r].pc = "evidence", ![r].answer = answer]
           /\ UNCHANGED gate
  <2> DEFINE x == [reqs[r] EXCEPT !.pc = "evidence", !.answer = answer]
  <2>1. reqs' = [reqs EXCEPT ![r] = x] /\ x.pc = "evidence"
    BY <1>2, CallTyped DEF Request
  <2> HIDE DEF x
  <2> QED BY <1>2, <2>1, MovesOn DEF Past
<1> QED BY <1>1, <1>2 DEF Unreserved

LEMMA EnsureStepCall ==
    ASSUME TInv, NEW r \in Callers, EnsureStep(r)
    PROVE  CallStep(r)
<1>0. reqs[r] \in Request /\ reqs \in [Callers -> Request]
  BY CallTyped
<1>1. CASE AcquireGate(r)
  <2>1. gate = Nobody /\ gate' = r /\ Goto(r, "backoff")
    BY <1>1 DEF AcquireGate
  <2>2. reqs'[r].pc = "backoff" /\ \A s \in Callers \ {r} : reqs'[s] = reqs[s]
    BY <1>0, <2>1 DEF Goto, Request
  <2> QED BY <2>1, <2>2 DEF CallStep
<1>2. CASE assignmentCanceled(r)
  BY <1>2, ReturnsOnce DEF assignmentCanceled
<1>3. CASE frontBackoffAssignment(r)
  BY <1>3, ReturnsOnce, GoesOn DEF frontBackoffAssignment, Past, Phases
<1>4. CASE pendingSnapshot(r)
  <2> DEFINE x == [reqs[r] EXCEPT !.pc = "reserve",
                                  !.newBefore = InQueue(pendingNew, reqs[r].client),
                                  !.refsBefore = InQueue(pendingRefs, reqs[r].client)]
  <2>1. reqs' = [reqs EXCEPT ![r] = x] /\ x.pc = "reserve" /\ reqs[r].pc = "snapshot"
    BY <1>0, <1>4 DEF pendingSnapshot, Request
  <2> HIDE DEF x
  <2> QED BY <1>4, <2>1, MovesOn DEF Past, pendingSnapshot
<1>5. CASE reserveProxyForLease(r)
  <2>1. reqs[r].pc = "reserve"
    BY <1>5, ReserveBranches
  <2>2. CASE KeepsLease(r) \/ Waits(r)
    BY <2>1, <2>2, UnreservedCall DEF KeepsLease, Waits
  <2>3. CASE Reserves(r)
    <3>1. PICK p : reqs' = [reqs EXCEPT ![r].pc = "probe", ![r].proxy = p]
      BY <2>3 DEF Reserves
    <3>2. \A s \in Callers \ {r} : reqs'[s] = reqs[s]
      BY <1>0, <3>1
    <3> QED BY <1>5, <2>1, <2>3, <3>2 DEF CallStep, Reserves, Past
  <2> QED BY <1>5, <2>2, <2>3, ReserveBranches
<1>6. CASE probeSuperseded(r)
  BY <1>6, GoesOn DEF probeSuperseded, Past, Phases
<1>7. CASE canceledProbeAssignment(r) \/ probeSharedFailure(r) \/ probeSucceeded(r)
           \/ resolveCanceled(r) \/ settleBatch(r) \/ recordBatch(r)
  BY <1>7, ReturnsOnce DEF canceledProbeAssignment, probeSharedFailure, probeSucceeded,
                           resolveCanceled, settleBatch, recordBatch
<1>8. CASE probeAmbiguous(r)
  <2>1. reqs[r].pc \in Past /\ UNCHANGED gate
    BY <1>8 DEF probeAmbiguous, Probed, Past
  <2>2. PICK batch :
           \/ reqs' = [reqs EXCEPT ![r].pc = "evidence", ![r].ambiguous = batch,
                                   ![r].answer = "pending"]
           \/ reqs' = [reqs EXCEPT ![r].pc = "reserve", ![r].ambiguous = batch]
    BY <1>8 DEF probeAmbiguous
  <2>3. CASE reqs' = [reqs EXCEPT ![r].pc = "evidence", ![r].ambiguous = batch,
                                  ![r].answer = "pending"]
    <3> DEFINE x == [reqs[r] EXCEPT !.pc = "evidence", !.ambiguous = batch, !.answer = "pending"]
    <3>1. reqs' = [reqs EXCEPT ![r] = x] /\ x.pc = "evidence"
      BY <1>0, <2>3 DEF Request
    <3> HIDE DEF x
    <3> QED BY <2>1, <3>1, MovesOn
  <2>4. CASE reqs' = [reqs EXCEPT ![r].pc = "reserve", ![r].ambiguous = batch]
    <3> DEFINE x == [reqs[r] EXCEPT !.pc = "reserve", !.ambiguous = batch]
    <3>1. reqs' = [reqs EXCEPT ![r] = x] /\ x.pc = "reserve"
      BY <1>0, <2>4 DEF Request
    <3> HIDE DEF x
    <3> QED BY <2>1, <3>1, MovesOn
  <2> QED BY <2>2, <2>3, <2>4
<1>9. CASE probeExitFailure(r)
  <2>1. reqs[r].pc \in Past /\ UNCHANGED gate
    BY <1>9 DEF probeExitFailure, Probed, Past
  <2>2. PICK validated : reqs' = [reqs EXCEPT ![r].pc = "reserve", ![r].ambiguous = @ \ validated]
    BY <1>9 DEF probeExitFailure
  <2> DEFINE x == [reqs[r] EXCEPT !.pc = "reserve", !.ambiguous = @ \ validated]
  <2>3. reqs' = [reqs EXCEPT ![r] = x] /\ x.pc = "reserve"
    BY <1>0, <2>2 DEF Request
  <2> HIDE DEF x
  <2> QED BY <2>1, <2>3, MovesOn
<1>10. CASE applyRecentCrossEvidence(r)
  <2>1. reqs[r].pc \in Past
    BY <1>10 DEF applyRecentCrossEvidence, Past
  <2>2. PICK validated :
           \/ Goto(r, Unsettled(reqs[r].pc)) /\ UNCHANGED gate
           \/ /\ reqs' = [reqs EXCEPT ![r].pc = "settle", ![r].ambiguous = @ \ validated]
              /\ UNCHANGED gate
           \/ Return(r, reqs[r].answer)
    BY <1>10 DEF applyRecentCrossEvidence
  <2>3. CASE Goto(r, Unsettled(reqs[r].pc)) /\ UNCHANGED gate
    BY <2>1, <2>3, GoesOn DEF Unsettled, Phases
  <2>4. CASE /\ reqs' = [reqs EXCEPT ![r].pc = "settle", ![r].ambiguous = @ \ validated]
             /\ UNCHANGED gate
    <3> DEFINE x == [reqs[r] EXCEPT !.pc = "settle", !.ambiguous = @ \ validated]
    <3>1. reqs' = [reqs EXCEPT ![r] = x] /\ x.pc = "settle"
      BY <1>0, <2>4 DEF Request
    <3> HIDE DEF x
    <3> QED BY <2>1, <2>4, <3>1, MovesOn
  <2> QED BY <2>2, <2>3, <2>4, ReturnsOnce
<1>11. CASE crossValidate(r)
  <2>1. reqs[r].pc \in Past
    BY <1>11, CrossOutcomes DEF Past
  <2>2. CASE NoCandidate(r)
    BY <2>1, <2>2, GoesOn DEF NoCandidate, Phases
  <2>3. CASE CrossShared(r) \/ CrossValidates(r)
    BY <2>3, ReturnsOnce DEF CrossShared, CrossValidates
  <2>4. CASE CrossUndecided(r)
    <3>1. PICK p, tokens :
             reqs' = [reqs EXCEPT ![r].pc = "recheck",
                        ![r].ambiguous = IF tokens THEN @ \cup {p} ELSE @]
      BY <2>4 DEF CrossUndecided
    <3> DEFINE batch == IF tokens THEN reqs[r].ambiguous \cup {p} ELSE reqs[r].ambiguous
               x == [reqs[r] EXCEPT !.pc = "recheck", !.ambiguous = batch]
    <3>2. reqs' = [reqs EXCEPT ![r] = x] /\ x.pc = "recheck"
      BY <1>0, <3>1 DEF Request
    <3> HIDE DEF x
    <3> QED BY <2>1, <2>4, <3>2, MovesOn DEF CrossUndecided
  <2> QED BY <1>11, <2>2, <2>3, <2>4, CrossOutcomes
<1> QED BY <1>1, <1>2, <1>3, <1>4, <1>5, <1>6, <1>7, <1>8, <1>9, <1>10, <1>11, Zenon DEF EnsureStep

LEMMA StartsCall ==
    ASSUME TInv, NEW r \in Callers, NEW c, NEW refresh, UNCHANGED gate,
           reqs' = [reqs EXCEPT ![r] = Calling(c, refresh)]
    PROVE  CallStep(r)
<1>1. reqs'[r].pc = FirstPhase /\ \A s \in Callers \ {r} : reqs'[s] = reqs[s]
  BY CallTyped DEF Calling, IdleRequest
<1> QED BY <1>1 DEF CallStep, FirstPhase, Past

LEMMA CallSteps ==
    ASSUME TInv, [Next]_vars
    PROVE  UNCHANGED << reqs, gate >> \/ (\E r \in Callers : CallStep(r)) \/ Restart
<1>1. ASSUME NEW r \in Requests, NEW c \in Clients, NEW refresh \in BOOLEAN, ensureLease(r, c, refresh)
      PROVE  \E s \in Callers : CallStep(s)
  BY <1>1, StartsCall DEF ensureLease, Callers
<1>2. ASSUME QueueStep
      PROVE  UNCHANGED << reqs, gate >> \/ CallStep(Worker)
  <2>1. CASE processQueueAsync
    BY <2>1, WorkerIsCaller, GoesOn DEF processQueueAsync, Past, Phases
  <2>2. CASE nextQueuedClient
    BY <2>2, WorkerIsCaller, GoesOn, StartsCall DEF nextQueuedClient, Past, Phases
  <2>3. CASE finishQueue
    BY <2>3, WorkerIsCaller, GoesOn DEF finishQueue, Past, Phases
  <2>4. CASE queueTimerFires \/ queueBackoffElapses
    BY <2>4 DEF queueTimerFires, queueBackoffElapses
  <2> QED BY <1>2, <2>1, <2>2, <2>3, <2>4 DEF QueueStep
<1>3. ASSUME \/ UNCHANGED vars \/ frontChanges \/ collectExpired
             \/ \E c \in Clients : Release(c) \/ leaseExpires(c) \/ expireLease(c)
             \/ \E k \in Conns : UnregisterConn(k) \/ \E c \in Clients : AcquireProxyConn(k, c)
             \/ \E p \in Proxies : proxyCheckSnapshot(p) \/ recordHealth(p) \/ DeleteProxy(p)
             \/ \E p \in Proxies, d \in BOOLEAN :
                   AddProxy(p, d) \/ UpdateProxy(p, d) \/ SetProxyDisabled(p, d)
      PROVE  UNCHANGED << reqs, gate >>
  BY <1>3 DEF vars, frontChanges, collectExpired, Release, leaseExpires, expireLease, UnregisterConn,
              AcquireProxyConn, proxyCheckSnapshot, recordHealth, DeleteProxy, AddProxy,
              UpdateProxy, SetProxyDisabled, ChangeProxy
<1> QED BY <1>1, <1>2, <1>3, EnsureStepCall, WorkerIsCaller, Zenon DEF Next

----------------------------------------------------------------------------
(* A probe that succeeded.                                                 *)

\* What activateCheckedProxyLocked leaves of the pool ps: the probed proxy,
\* the one a refresh leaves behind, and the rest.
LEMMA ActivatedPool ==
    ASSUME TInv, NEW r \in Callers, reqs[r].pc = "probe", NEW ps \in [Proxies -> Proxy],
           activateCheckedProxy(r, ps)
    PROVE  LET c == reqs[r].client
               p == reqs[r].proxy
               old == leases[c].proxy IN
           /\ proxies'[p].status = "active" /\ proxies'[p].client = c
           /\ proxies'[p].drainingFor = NoClient
           /\ \A q \in Proxies : q # p =>
                 IF reqs[r].refresh /\ HasLease(c) /\ Present(q) /\ q = old
                 THEN proxies'[q] = vacate(ps[q], c)
                 ELSE proxies'[q] = ps[q]
<1> DEFINE c == reqs[r].client
           p == reqs[r].proxy
           old == leases[c].proxy
           left == IF reqs[r].refresh /\ HasLease(c) /\ Present(old)
                   THEN [ps EXCEPT ![old] = vacate(@, c)] ELSE ps
<1>1. c \in Clients /\ p \in Proxies
  BY ProbeTyped
<1>2. proxies' = [left EXCEPT ![p].status = "active", ![p].client = c, ![p].drainingFor = NoClient]
  BY DEF activateCheckedProxy
<1>3. \A q \in Proxies :
         left[q] = IF reqs[r].refresh /\ HasLease(c) /\ Present(q) /\ q = old
                   THEN vacate(ps[q], c) ELSE ps[q]
  OBVIOUS
<1>4. left \in [Proxies -> Proxy]
  BY <1>1, VacatedForm
<1> HIDE DEF left
<1>5. \A q \in Proxies : q # p => proxies'[q] = left[q]
  BY <1>1, <1>2, <1>4
<1>6. /\ proxies'[p].status = "active" /\ proxies'[p].client = c
      /\ proxies'[p].drainingFor = NoClient
  <2>1. left[p] \in Proxy /\ DOMAIN left = Proxies
    BY <1>1, <1>4
  <2>2. proxies'[p] = [left[p] EXCEPT !.status = "active", !.client = c, !.drainingFor = NoClient]
    BY <1>1, <1>2, <2>1
  <2>3. \A x \in Proxy :
           LET y == [x EXCEPT !.status = "active", !.client = c, !.drainingFor = NoClient]
           IN  y.status = "active" /\ y.client = c /\ y.drainingFor = NoClient
    BY DEF Proxy
  <2> QED BY <2>1, <2>2, <2>3
<1> QED BY <1>3, <1>5, <1>6

\* The pool a successful probe starts its activation from.
LEMMA SucceededFrom ==
    ASSUME TInv, NEW r \in Callers, probeSucceeded(r)
    PROVE  \E ps \in [Proxies -> Proxy] : ProbesEnd(proxies, ps) /\ activateCheckedProxy(r, ps)
<1>1. proxies \in [Proxies -> Proxy]
  BY DEF TInv, TypeOK
<1>2. PICK validated \in SUBSET reqs[r].ambiguous :
         activateCheckedProxy(r, restoreProbes(failProbes(proxies, validated, reqs[r].client),
                                               reqs[r].ambiguous, reqs[r].client))
  BY DEF probeSucceeded
<1> DEFINE fs == failProbes(proxies, validated, reqs[r].client)
           ps == restoreProbes(fs, reqs[r].ambiguous, reqs[r].client)
<1>3. ProbesEnd(proxies, fs)
  BY <1>1, FailedEnd
<1> HIDE DEF fs
<1>4. ProbesEnd(fs, ps)
  BY <1>3, RestoredEnd DEF ProbesEnd
<1>5. activateCheckedProxy(r, ps)
  BY <1>2 DEF fs
<1> HIDE DEF ps
<1>6. ProbesEnd(proxies, ps)
  BY <1>1, <1>3, <1>4, EndedTwice
<1> QED BY <1>5, <1>6 DEF ProbesEnd

----------------------------------------------------------------------------
(* The pool without health results: who uses a proxy is written in its     *)
(* record.  A health result loses that (recoveredProxy), see the README.   *)

ConnsOf(cs, p) == {k \in Conns : cs[k].proxy = p}

\* A lease, expired or not, is on a proxy that is active for its client.
LeasedActive(ps, ls) ==
    \A c \in Clients : ls[c].proxy # NoProxy =>
        /\ ps[ls[c].proxy].status = "active"
        /\ ps[ls[c].proxy].client = c

DrainsOnly(ps) ==
    \A p \in Proxies : ps[p].drainingFor # NoClient => ps[p].status = "draining"

UsedBy(x, c) ==
    \/ x.status = "active" /\ x.client = c
    \/ x.status = "draining" /\ x.drainingFor = c

ConnsUsed(ps, cs) ==
    \A k \in Conns : cs[k] # FreeConn =>
        /\ cs[k].client \in Clients
        /\ cs[k].proxy \in Proxies
        /\ UsedBy(ps[cs[k].proxy], cs[k].client)

Counted(ps, cs) == \A p \in Proxies : ps[p].conns = Cardinality(ConnsOf(cs, p))

QuietPool(ps, ls, cs) ==
    LeasedActive(ps, ls) /\ DrainsOnly(ps) /\ ConnsUsed(ps, cs) /\ Counted(ps, cs)

Spare(x) == x.status \notin {"active", "draining"}

LEMMA ConnsFinite ==
    ASSUME NEW cs, NEW p
    PROVE  IsFiniteSet(ConnsOf(cs, p)) /\ Cardinality(ConnsOf(cs, p)) \in Nat
<1>1. ConnsOf(cs, p) \in SUBSET Conns
  BY DEF ConnsOf
<1>2. IsFiniteSet(ConnsOf(cs, p))
  BY <1>1, FS_Subset, ConnsAssumption
<1> QED BY <1>2, FS_CardinalityType

LEMMA NotFree == ASSUME NEW cs, NEW k \in Conns, NEW p \in Proxies, cs[k].proxy = p PROVE cs[k] # FreeConn
BY SlotsAssumption DEF FreeConn

\* Nobody has a connection on a proxy that is neither active nor draining.
LEMMA SpareUnused ==
    ASSUME NEW ps, NEW cs, ConnsUsed(ps, cs), Counted(ps, cs), NEW p \in Proxies, Spare(ps[p])
    PROVE  ConnsOf(cs, p) = {} /\ ps[p].conns = 0
<1>1. ConnsOf(cs, p) = {}
  BY NotFree DEF ConnsOf, ConnsUsed, UsedBy, Spare
<1> QED BY <1>1, FS_EmptySet DEF Counted

\* What happens to a proxy nobody uses, or does not touch who uses it.
KeepsUse(x, y) ==
    \/ /\ y.status = x.status /\ y.client = x.client
       /\ y.drainingFor = x.drainingFor /\ y.conns = x.conns
    \/ /\ Spare(x)
       /\ y.conns \in {x.conns, 0}
       /\ y.drainingFor \in {x.drainingFor, NoClient}
       /\ y.drainingFor = NoClient \/ y.status = "draining"

LEMMA UseKept ==
    ASSUME NEW ps, NEW ls, NEW ms, NEW cs, NEW qs, QuietPool(ps, ls, cs),
           ls \in [Clients -> Lease],
           \A p \in Proxies : KeepsUse(ps[p], qs[p]),
           \A c \in Clients : ms[c].proxy = ls[c].proxy
    PROVE  QuietPool(qs, ms, cs)
<1> USE DEF QuietPool
<1>1. \A p \in Proxies : ~Spare(ps[p]) =>
        /\ qs[p].status = ps[p].status /\ qs[p].client = ps[p].client
        /\ qs[p].drainingFor = ps[p].drainingFor /\ qs[p].conns = ps[p].conns
  BY DEF KeepsUse
<1>2. LeasedActive(qs, ms)
  <2> SUFFICES ASSUME NEW c \in Clients, ms[c].proxy # NoProxy
               PROVE  qs[ms[c].proxy].status = "active" /\ qs[ms[c].proxy].client = c
    BY DEF LeasedActive
  <2>1. ls[c].proxy \in Proxies /\ ms[c].proxy = ls[c].proxy
    BY DEF Lease
  <2> QED BY <1>1, <2>1 DEF LeasedActive, Spare
<1>3. DrainsOnly(qs)
  BY DEF DrainsOnly, KeepsUse
<1>4. ConnsUsed(qs, cs)
  BY <1>1 DEF ConnsUsed, UsedBy, Spare
<1>5. ASSUME NEW p \in Proxies PROVE qs[p].conns = ps[p].conns
  BY SpareUnused DEF KeepsUse
<1>6. Counted(qs, cs)
  BY <1>5 DEF Counted
<1> QED BY <1>2, <1>3, <1>4, <1>6

LEMMA EndedKeepsUse == ASSUME NEW x \in Proxy, NEW y, Ended(x, y) PROVE KeepsUse(x, y)
<1>1. CASE y = x
  BY <1>1 DEF KeepsUse
<1>2. CASE x.status = "checking" /\ y = markProxyIdle(x)
  BY <1>2 DEF KeepsUse, Spare, markProxyIdle, Proxy
<1>3. CASE x.status = "checking" /\ y = unreserveDisabled(x)
  BY <1>3 DEF KeepsUse, Spare, unreserveDisabled, Proxy
<1>4. CASE x.status = "checking" /\ y = markProbeFailed(x)
  BY <1>4 DEF KeepsUse, Spare, markProbeFailed, Proxy
<1> QED BY <1>1, <1>2, <1>3, <1>4 DEF Ended

LEMMA QuietProbesEnd ==
    ASSUME NEW ps \in [Proxies -> Proxy], NEW ls \in [Clients -> Lease], NEW cs, NEW qs,
           QuietPool(ps, ls, cs), ProbesEnd(ps, qs)
    PROVE  QuietPool(qs, ls, cs)
<1>1. \A p \in Proxies : KeepsUse(ps[p], qs[p])
  BY EndedKeepsUse DEF ProbesEnd
<1> QED BY <1>1, UseKept

LEMMA QuietReserved ==
    ASSUME NEW ps \in [Proxies -> Proxy], NEW ls \in [Clients -> Lease], NEW cs,
           QuietPool(ps, ls, cs), NEW p \in Takeable(ps, ls), NEW c
    PROVE  QuietPool(ReservedPool(ps, p, c), ls, cs)
<1> DEFINE qs == ReservedPool(ps, p, c)
<1>1. p \in Proxies /\ ps[p].status = "idle"
  BY DEF Takeable
<1>2. /\ qs[p].drainingFor = NoClient /\ qs[p].conns = ps[p].conns
      /\ \A q \in Proxies : q # p => qs[q] = ps[q]
  BY <1>1 DEF ReservedPool, Proxy
<1> HIDE DEF qs
<1>3. \A q \in Proxies : KeepsUse(ps[q], qs[q])
  BY <1>1, <1>2 DEF KeepsUse, Spare
<1>4. QuietPool(qs, ls, cs)
  BY <1>3, UseKept
<1> QED BY <1>4 DEF qs

\* The connections of a released client are closed, not forgotten.
LEMMA ClosedUses ==
    ASSUME TInv, NEW c \in Clients
    PROVE  \A k \in Conns : /\ closedConns(c)[k].client = conns[k].client
                            /\ closedConns(c)[k].proxy = conns[k].proxy
                            /\ closedConns(c)[k] = FreeConn <=> conns[k] = FreeConn
<1> SUFFICES ASSUME NEW k \in Conns
             PROVE  /\ closedConns(c)[k].client = conns[k].client
                    /\ closedConns(c)[k].proxy = conns[k].proxy
                    /\ closedConns(c)[k] = FreeConn <=> conns[k] = FreeConn
  OBVIOUS
<1>1. conns[k] \in Conn
  BY DEF TInv, TypeOK
<1>2. CASE HasLease(c) /\ conns[k].client = c
  <2>1. closedConns(c)[k] = [conns[k] EXCEPT !.closing = TRUE]
    BY <1>2 DEF closedConns
  <2>2. FreeConn.client # c
    BY SlotsAssumption DEF FreeConn
  <2> QED BY <1>1, <1>2, <2>1, <2>2 DEF Conn
<1>3. CASE ~(HasLease(c) /\ conns[k].client = c)
  BY <1>3 DEF closedConns
<1> QED BY <1>2, <1>3

LEMMA SameUses ==
    ASSUME NEW ps, NEW cs, NEW ds, ConnsUsed(ps, cs), Counted(ps, cs),
           \A k \in Conns : /\ ds[k].client = cs[k].client /\ ds[k].proxy = cs[k].proxy
                            /\ ds[k] = FreeConn <=> cs[k] = FreeConn
    PROVE  ConnsUsed(ps, ds) /\ Counted(ps, ds)
<1>1. \A p \in Proxies : ConnsOf(ds, p) = ConnsOf(cs, p)
  BY DEF ConnsOf
<1> QED BY <1>1 DEF ConnsUsed, Counted

\* The released proxy drains as long as there are connections on it.
LEMMA ReleasedUse ==
    ASSUME NEW x \in Proxy, NEW c \in Clients, NEW d, UsedBy(x, d) => d = c,
           x.status \in {"active", "draining"}
    PROVE  LET y == releaseProxyBinding(x, c) IN
           /\ y.conns = x.conns
           /\ y.drainingFor # NoClient => y.status = "draining"
           /\ x.conns > 0 /\ UsedBy(x, d) => UsedBy(y, d)
<1>1. CASE x.conns > 0
  BY <1>1 DEF releaseProxyBinding, UsedBy, Proxy
<1>2. CASE ~(x.conns > 0)
  BY <1>2 DEF releaseProxyBinding, UsedBy, Proxy
<1> QED BY <1>1, <1>2

LEMMA QuietReleased ==
    ASSUME TInv, QuietPool(proxies, leases, conns), NEW c \in Clients
    PROVE  QuietPool(releasedProxies(c), releasedLeases(c), closedConns(c))
<1> DEFINE ps == releasedProxies(c)
           ls == releasedLeases(c)
           cs == closedConns(c)
           L == leases[c].proxy
<1> USE DEF QuietPool
<1>1. proxies \in [Proxies -> Proxy] /\ leases \in [Clients -> Lease]
  BY DEF TInv, TypeOK
<1>2. ls[c].proxy = NoProxy /\ \A d \in Clients : d # c => ls[d] = leases[d]
  BY <1>1 DEF releasedLeases, NoLease
<1>3. CASE ~HasLease(c)
  <2>1. ps = proxies /\ cs = conns
    BY <1>3 DEF releasedProxies, closedConns
  <2>2. \A d \in Clients : ls[d].proxy = leases[d].proxy
    BY <1>2, <1>3 DEF HasLease
  <2> HIDE DEF ps, ls, cs
  <2>3. \A p \in Proxies : KeepsUse(proxies[p], ps[p])
    BY <2>1 DEF KeepsUse
  <2>4. QuietPool(ps, ls, conns)
    BY <1>1, <2>2, <2>3, UseKept
  <2>5. QuietPool(ps, ls, cs)
    BY <2>1, <2>4, Zenon
  <2> QED BY <2>5 DEF ps, ls, cs
<1>4. CASE HasLease(c)
  <2>1. /\ L \in Proxies /\ proxies[L].status = "active" /\ proxies[L].client = c
    BY <1>1, <1>4 DEF HasLease, Lease, LeasedActive
  <2>2. \A d \in Clients : ls[d].proxy # L
    BY <1>2, <2>1, SlotsAssumption DEF LeasedActive
  <2>3. \A p \in Proxies :
          /\ p = L \/ proxies[p].drainingFor = c => ps[p] = releaseProxyBinding(proxies[p], c)
          /\ p # L /\ proxies[p].drainingFor # c => ps[p] = proxies[p]
    BY <1>4, <2>1, <2>2 DEF releasedProxies, HasActiveLease, Present
  <2>4. \A k \in Conns : /\ cs[k].client = conns[k].client /\ cs[k].proxy = conns[k].proxy
                         /\ cs[k] = FreeConn <=> conns[k] = FreeConn
    BY ClosedUses
  <2> HIDE DEF ps, ls, cs, L
  <2>5. ASSUME NEW p \in Proxies
        PROVE  /\ ps[p].conns = proxies[p].conns
               /\ ps[p].drainingFor # NoClient => ps[p].status = "draining"
               /\ \A d \in Clients : proxies[p].conns > 0 /\ UsedBy(proxies[p], d) => UsedBy(ps[p], d)
    <3>1. CASE p = L \/ proxies[p].drainingFor = c
      <4>1. c # NoClient
        BY SlotsAssumption
      <4>2. proxies[p].status \in {"active", "draining"} /\ \A d \in Clients : UsedBy(proxies[p], d) => d = c
        BY <2>1, <3>1, <4>1 DEF DrainsOnly, UsedBy
      <4>3. proxies[p] \in Proxy /\ ps[p] = releaseProxyBinding(proxies[p], c)
        BY <1>1, <2>3, <3>1
      <4> QED BY <4>2, <4>3, ReleasedUse
    <3>2. CASE p # L /\ proxies[p].drainingFor # c
      BY <2>3, <3>2 DEF DrainsOnly
    <3> QED BY <3>1, <3>2
  <2>6. LeasedActive(ps, ls)
    <3> SUFFICES ASSUME NEW d \in Clients, ls[d].proxy # NoProxy
                 PROVE  ps[ls[d].proxy].status = "active" /\ ps[ls[d].proxy].client = d
      BY DEF LeasedActive
    <3>1. d # c /\ ls[d].proxy = leases[d].proxy /\ leases[d].proxy # L
      BY <1>2, <2>2
    <3>2. /\ leases[d].proxy \in Proxies
          /\ proxies[leases[d].proxy].status = "active" /\ proxies[leases[d].proxy].client = d
      BY <1>1, <3>1 DEF Lease, LeasedActive
    <3>3. proxies[leases[d].proxy].drainingFor # c
      BY <3>2, SlotsAssumption DEF DrainsOnly
    <3> QED BY <2>3, <3>1, <3>2, <3>3
  <2>7. DrainsOnly(ps)
    BY <2>5 DEF DrainsOnly
  <2>8. Counted(ps, conns)
    BY <2>5 DEF Counted
  <2>9. ConnsUsed(ps, conns)
    <3> SUFFICES ASSUME NEW k \in Conns, conns[k] # FreeConn
                 PROVE  /\ conns[k].client \in Clients /\ conns[k].proxy \in Proxies
                        /\ UsedBy(ps[conns[k].proxy], conns[k].client)
      BY DEF ConnsUsed
    <3>1. /\ conns[k].client \in Clients /\ conns[k].proxy \in Proxies
          /\ UsedBy(proxies[conns[k].proxy], conns[k].client)
      BY DEF ConnsUsed
    <3>2. proxies[conns[k].proxy].conns > 0
      <4>1. k \in ConnsOf(conns, conns[k].proxy)
        BY DEF ConnsOf
      <4>2. Cardinality(ConnsOf(conns, conns[k].proxy)) # 0
        BY <4>1, ConnsFinite, FS_EmptySet
      <4> QED BY <3>1, <4>2, ConnsFinite DEF Counted
    <3> QED BY <2>5, <3>1, <3>2
  <2>10. ConnsUsed(ps, cs) /\ Counted(ps, cs)
    BY <2>4, <2>8, <2>9, SameUses
  <2>11. QuietPool(ps, ls, cs)
    BY <2>6, <2>7, <2>10
  <2> QED BY <2>11 DEF ps, ls, cs
<1> QED BY <1>3, <1>4

\* A pool that differs in one record, and the leases that differ in one.
LEMMA QuietActivated ==
    ASSUME TInv, NEW r \in Callers, reqs[r].pc = "probe", NEW ps \in [Proxies -> Proxy],
           QuietPool(ps, leases, conns), Spare(ps[reqs[r].proxy]), activateCheckedProxy(r, ps)
    PROVE  QuietPool(proxies', leases', conns)
<1> DEFINE c == reqs[r].client
           p == reqs[r].proxy
           old == leases[c].proxy
           vacates == reqs[r].refresh /\ HasLease(c) /\ Present(old)
           left == IF vacates THEN [ps EXCEPT ![old] = vacate(@, c)] ELSE ps
<1> USE DEF QuietPool
<1>1. c \in Clients /\ p \in Proxies /\ leases \in [Clients -> Lease] /\ c # NoClient
  BY ProbeTyped, SlotsAssumption DEF TInv, TypeOK
<1>2. /\ proxies' = [left EXCEPT ![p].status = "active", ![p].client = c,
                                 ![p].drainingFor = NoClient]
      /\ leases' = [leases EXCEPT ![c] = [proxy |-> p, expired |-> FALSE]]
  BY DEF activateCheckedProxy
<1>3. vacates => old \in Proxies /\ old # p /\ ps[old].status = "active" /\ ps[old].client = c
  <2> SUFFICES ASSUME vacates
               PROVE  /\ old \in Proxies /\ old # p
                      /\ ps[old].status = "active" /\ ps[old].client = c
    OBVIOUS
  <2>1. old # NoProxy
    BY DEF HasLease
  <2>2. old \in Proxies
    BY <1>1, <2>1 DEF Lease
  <2>3. LeasedActive(ps, leases)
    OBVIOUS
  <2>4. ps[old].status = "active" /\ ps[old].client = c
    BY <1>1, <2>1, <2>3 DEF LeasedActive
  <2>5. ps[p].status # "active"
    BY DEF Spare
  <2> QED BY <2>2, <2>4, <2>5
<1>4. \A q \in Proxies : left[q] = IF vacates /\ q = old THEN vacate(ps[q], c) ELSE ps[q]
  OBVIOUS
<1>5. left \in [Proxies -> Proxy]
  BY <1>1, VacatedForm
<1>6. left[p] = ps[p]
  BY <1>1, <1>3, <1>4
<1>7. \A d \in Clients : leases'[d] = IF d = c THEN [proxy |-> p, expired |-> FALSE] ELSE leases[d]
  BY <1>1, <1>2
<1> HIDE DEF left, p, c, old, vacates
<1>8. /\ proxies'[p].status = "active" /\ proxies'[p].client = c
      /\ proxies'[p].drainingFor = NoClient /\ proxies'[p].conns = ps[p].conns
      /\ \A q \in Proxies : q # p => proxies'[q] = left[q]
  BY <1>1, <1>2, <1>5, <1>6 DEF Proxy
<1>9. ConnsOf(conns, p) = {} /\ ps[p].conns = 0
  BY <1>1, SpareUnused DEF p
<1>10. ASSUME NEW q \in Proxies, q # p, vacates, q = old
       PROVE  /\ proxies'[q].conns = ps[q].conns
              /\ proxies'[q].drainingFor # NoClient => proxies'[q].status = "draining"
              /\ \A d \in Clients : ps[q].conns > 0 /\ UsedBy(ps[q], d) => UsedBy(proxies'[q], d)
  <2>1. proxies'[q] = vacate(ps[q], c) /\ ps[q].status = "active" /\ ps[q].client = c /\ ps[q] \in Proxy
    BY <1>3, <1>4, <1>8, <1>10
  <2>2. CASE ps[q].conns > 0
    BY <2>1, <2>2 DEF vacate, UsedBy, Proxy
  <2>3. CASE ~(ps[q].conns > 0)
    BY <2>1, <2>3 DEF vacate, markProxyIdle, Proxy
  <2> QED BY <2>2, <2>3
<1>11. ASSUME NEW q \in Proxies, q # p
       PROVE  /\ proxies'[q].conns = ps[q].conns
              /\ proxies'[q].drainingFor # NoClient => proxies'[q].status = "draining"
              /\ \A d \in Clients : ps[q].conns > 0 /\ UsedBy(ps[q], d) => UsedBy(proxies'[q], d)
  <2>1. CASE vacates /\ q = old
    BY <1>10, <1>11, <2>1
  <2>2. CASE ~(vacates /\ q = old)
    BY <1>4, <1>8, <1>11, <2>2 DEF DrainsOnly
  <2> QED BY <2>1, <2>2
<1>12. LeasedActive(proxies', leases')
  <2> SUFFICES ASSUME NEW d \in Clients, leases'[d].proxy # NoProxy
               PROVE  /\ proxies'[leases'[d].proxy].status = "active"
                      /\ proxies'[leases'[d].proxy].client = d
    BY DEF LeasedActive
  <2>1. CASE d = c
    BY <1>7, <1>8, <2>1
  <2>2. CASE d # c
    <3>1. /\ leases'[d].proxy = leases[d].proxy /\ leases[d].proxy \in Proxies
          /\ ps[leases[d].proxy].status = "active" /\ ps[leases[d].proxy].client = d
      BY <1>1, <1>7, <2>2 DEF Lease, LeasedActive
    <3>2. leases[d].proxy # p /\ ~(vacates /\ leases[d].proxy = old)
      BY <1>3, <2>2, <3>1 DEF Spare, p
    <3> QED BY <1>4, <1>8, <3>1, <3>2
  <2> QED BY <2>1, <2>2
<1>13. DrainsOnly(proxies')
  BY <1>8, <1>11 DEF DrainsOnly
<1>14. Counted(proxies', conns)
  BY <1>8, <1>11 DEF Counted
<1>15. ConnsUsed(proxies', conns)
  <2> SUFFICES ASSUME NEW k \in Conns, conns[k] # FreeConn
               PROVE  /\ conns[k].client \in Clients /\ conns[k].proxy \in Proxies
                      /\ UsedBy(proxies'[conns[k].proxy], conns[k].client)
    BY DEF ConnsUsed
  <2>1. /\ conns[k].client \in Clients /\ conns[k].proxy \in Proxies
        /\ UsedBy(ps[conns[k].proxy], conns[k].client)
    BY DEF ConnsUsed
  <2>2. k \in ConnsOf(conns, conns[k].proxy)
    BY DEF ConnsOf
  <2>3. conns[k].proxy # p
    BY <1>9, <2>2
  <2>4. ps[conns[k].proxy].conns > 0
    BY <2>1, <2>2, ConnsFinite, FS_EmptySet DEF Counted
  <2> QED BY <1>11, <2>1, <2>3, <2>4
<1> QED BY <1>12, <1>13, <1>14, <1>15

LEMMA EndedSpare ==
    ASSUME NEW x \in Proxy, NEW y, Ended(x, y), x.status = "checking"
    PROVE  Spare(y)
<1>1. CASE y = x
  BY <1>1 DEF Spare
<1>2. CASE y = markProxyIdle(x)
  BY <1>2 DEF Spare, markProxyIdle, Proxy
<1>3. CASE y = unreserveDisabled(x)
  BY <1>3 DEF Spare, unreserveDisabled, Proxy
<1>4. CASE y = markProbeFailed(x)
  BY <1>4 DEF Spare, markProbeFailed, Proxy
<1> QED BY <1>1, <1>2, <1>3, <1>4 DEF Ended

LEMMA QuietSucceeded ==
    ASSUME TInv, QuietPool(proxies, leases, conns), NEW r \in Callers, probeSucceeded(r)
    PROVE  QuietPool(proxies', leases', conns')
<1>1. /\ proxies \in [Proxies -> Proxy] /\ leases \in [Clients -> Lease]
      /\ reqs[r].pc = "probe" /\ reqs[r].proxy \in Proxies
      /\ proxies[reqs[r].proxy].status = "checking"
  BY ProbedReserved DEF probeSucceeded, Probed, TInv, TypeOK
<1>2. PICK ps \in [Proxies -> Proxy] : ProbesEnd(proxies, ps) /\ activateCheckedProxy(r, ps)
  BY SucceededFrom
<1>3. QuietPool(ps, leases, conns)
  BY <1>1, <1>2, QuietProbesEnd
<1>4. Spare(ps[reqs[r].proxy])
  BY <1>1, <1>2, EndedSpare DEF ProbesEnd
<1>5. QuietPool(proxies', leases', conns)
  BY <1>1, <1>2, <1>3, <1>4, QuietActivated
<1>6. UNCHANGED conns
  BY DEF probeSucceeded
<1> QED BY <1>5, <1>6, Zenon

LEMMA QuietAcquired ==
    ASSUME TInv, QuietPool(proxies, leases, conns), NEW k \in Conns, NEW c \in Clients,
           AcquireProxyConn(k, c)
    PROVE  QuietPool(proxies', leases', conns')
<1> DEFINE p == leases[c].proxy
<1> USE DEF QuietPool
<1>1. /\ conns[k] = FreeConn /\ UNCHANGED leases
      /\ proxies[p].status = "active" /\ proxies[p].client = c
      /\ conns' = [conns EXCEPT ![k] = [client |-> c, proxy |-> p, closing |-> FALSE]]
      /\ proxies' = [proxies EXCEPT ![p].conns = @ + 1]
  BY DEF AcquireProxyConn
<1>2. /\ proxies \in [Proxies -> Proxy] /\ conns \in [Conns -> Conn]
      /\ p \in Proxies
  BY DEF AcquireProxyConn, Live, HasLease, Lease, TInv, TypeOK
<1> HIDE DEF p
<1>3. \A q \in Proxies : /\ proxies'[q].status = proxies[q].status
                         /\ proxies'[q].client = proxies[q].client
                         /\ proxies'[q].drainingFor = proxies[q].drainingFor
                         /\ proxies'[q].conns = IF q = p THEN proxies[q].conns + 1 ELSE proxies[q].conns
  BY <1>1, <1>2 DEF Proxy
<1>4. /\ conns'[k].client = c /\ conns'[k].proxy = p
      /\ \A j \in Conns : j # k => conns'[j] = conns[j]
  BY <1>1, <1>2
<1>5. LeasedActive(proxies', leases')
  BY <1>1, <1>3 DEF LeasedActive, Lease, TInv, TypeOK
<1>6. DrainsOnly(proxies')
  BY <1>3 DEF DrainsOnly
<1>7. ConnsUsed(proxies', conns')
  BY <1>1, <1>2, <1>3, <1>4 DEF ConnsUsed, UsedBy
<1>8. k \notin ConnsOf(conns, p)
  BY <1>1, <1>2, NotFree DEF ConnsOf
<1>9. /\ ConnsOf(conns', p) = ConnsOf(conns, p) \cup {k}
      /\ \A q \in Proxies : q # p => ConnsOf(conns', q) = ConnsOf(conns, q)
  <2>1. conns[k].proxy \notin Proxies
    BY <1>1, SlotsAssumption DEF FreeConn
  <2> QED BY <1>2, <1>4, <2>1 DEF ConnsOf
<1>10. Cardinality(ConnsOf(conns', p)) = Cardinality(ConnsOf(conns, p)) + 1
  BY <1>8, <1>9, ConnsFinite, FS_AddElement
<1>11. Counted(proxies', conns')
  BY <1>3, <1>9, <1>10 DEF Counted
<1> QED BY <1>5, <1>6, <1>7, <1>11

LEMMA QuietUnregistered ==
    ASSUME TInv, QuietPool(proxies, leases, conns), NEW k \in Conns, UnregisterConn(k)
    PROVE  QuietPool(proxies', leases', conns')
<1> DEFINE p == conns[k].proxy
<1> USE DEF QuietPool
<1>1. /\ conns[k] # FreeConn /\ UNCHANGED leases
      /\ conns' = [conns EXCEPT ![k] = FreeConn]
  BY DEF UnregisterConn
<1>2. /\ proxies \in [Proxies -> Proxy] /\ conns \in [Conns -> Conn] /\ leases \in [Clients -> Lease]
      /\ p \in Proxies /\ UsedBy(proxies[p], conns[k].client)
  BY <1>1 DEF ConnsUsed, TInv, TypeOK
<1>3. k \in ConnsOf(conns, p)
  BY DEF ConnsOf
<1>4. proxies[p].conns = Cardinality(ConnsOf(conns, p)) /\ proxies[p].conns > 0 /\ proxies[p].conns \in Nat
  BY <1>2, <1>3, ConnsFinite, FS_EmptySet DEF Counted
<1>5. Present(p)
  BY <1>2 DEF Present, UsedBy
<1>6. \/ /\ ~(proxies[p].status = "draining" /\ proxies[p].conns = 1)
         /\ proxies' = [proxies EXCEPT ![p].conns = @ - 1]
      \/ /\ proxies[p].status = "draining" /\ proxies[p].conns = 1
         /\ proxies' = [proxies EXCEPT ![p] = drainedProxy(@)]
  BY <1>4, <1>5 DEF UnregisterConn
<1> HIDE DEF p
<1>7. /\ conns'[k] = FreeConn
      /\ \A j \in Conns : j # k => conns'[j] = conns[j]
  BY <1>1, <1>2
<1>8. FreeConn.proxy \notin Proxies
  BY SlotsAssumption DEF FreeConn
<1>9. /\ ConnsOf(conns', p) = ConnsOf(conns, p) \ {k}
      /\ \A q \in Proxies : q # p => ConnsOf(conns', q) = ConnsOf(conns, q)
  BY <1>2, <1>7, <1>8 DEF ConnsOf, p
<1>10. Cardinality(ConnsOf(conns', p)) = proxies[p].conns - 1
  BY <1>3, <1>4, <1>9, ConnsFinite, FS_RemoveElement
<1>11. CASE /\ ~(proxies[p].status = "draining" /\ proxies[p].conns = 1)
            /\ proxies' = [proxies EXCEPT ![p].conns = @ - 1]
  <2>1. \A q \in Proxies : /\ proxies'[q].status = proxies[q].status
                           /\ proxies'[q].client = proxies[q].client
                           /\ proxies'[q].drainingFor = proxies[q].drainingFor
                           /\ proxies'[q].conns = IF q = p THEN proxies[q].conns - 1 ELSE proxies[q].conns
    BY <1>2, <1>11 DEF Proxy
  <2>2. LeasedActive(proxies', leases') /\ DrainsOnly(proxies')
    BY <1>1, <1>2, <2>1 DEF LeasedActive, Lease, DrainsOnly
  <2>3. ConnsUsed(proxies', conns')
    BY <1>7, <2>1 DEF ConnsUsed, UsedBy
  <2>4. Counted(proxies', conns')
    BY <1>9, <1>10, <2>1 DEF Counted
  <2> QED BY <2>2, <2>3, <2>4
<1>12. CASE /\ proxies[p].status = "draining" /\ proxies[p].conns = 1
            /\ proxies' = [proxies EXCEPT ![p] = drainedProxy(@)]
  <2>1. /\ proxies'[p].conns = 0 /\ proxies'[p].drainingFor = NoClient
        /\ \A q \in Proxies : q # p => proxies'[q] = proxies[q]
    BY <1>2, <1>12 DEF drainedProxy, Proxy
  <2>2. \A c \in Clients : leases[c].proxy # p \/ leases[c].proxy = NoProxy
    BY <1>12 DEF LeasedActive
  <2>3. LeasedActive(proxies', leases') /\ DrainsOnly(proxies')
    BY <1>1, <1>2, <2>1, <2>2 DEF LeasedActive, Lease, DrainsOnly
  <2>4. Counted(proxies', conns')
    <3>1. proxies'[p].conns = Cardinality(ConnsOf(conns', p))
      BY <1>10, <1>12, <2>1
    <3>2. \A q \in Proxies : q # p => proxies'[q].conns = Cardinality(ConnsOf(conns', q))
      BY <1>9, <2>1 DEF Counted
    <3> QED BY <3>1, <3>2 DEF Counted
  <2>5. ConnsOf(conns', p) = {}
    BY <1>10, <1>12, ConnsFinite, FS_EmptySet
  <2>6. ConnsUsed(proxies', conns')
    BY <1>7, <2>1, <2>5 DEF ConnsUsed, ConnsOf
  <2> QED BY <2>3, <2>4, <2>6
<1> QED BY <1>6, <1>11, <1>12

LEMMA ChangedUse ==
    ASSUME TInv, QuietPool(proxies, leases, conns), NEW p \in Proxies, NEW d \in BOOLEAN, NEW status,
           ChangeProxy(p, d, status),
           status = proxies[p].status \/ (Spare(proxies[p]) /\ status \in Statuses)
    PROVE  \A q \in Proxies : KeepsUse(proxies[q], proxies'[q])
<1>1. proxies' = [proxies EXCEPT ![p].disabled = d, ![p].status = status] /\ proxies \in [Proxies -> Proxy]
  BY DEF ChangeProxy, TInv, TypeOK
<1>2. /\ \A q \in Proxies : q # p => proxies'[q] = proxies[q]
      /\ proxies'[p].status = status /\ proxies'[p].client = proxies[p].client
      /\ proxies'[p].drainingFor = proxies[p].drainingFor /\ proxies'[p].conns = proxies[p].conns
  BY <1>1 DEF Proxy
<1>3. Spare(proxies[p]) => proxies[p].drainingFor = NoClient
  BY DEF QuietPool, DrainsOnly, Spare
<1> QED BY <1>2, <1>3 DEF KeepsUse

LEMMA QuietAdministered ==
    ASSUME TInv, QuietPool(proxies, leases, conns), NEW p \in Proxies, Administered(p)
    PROVE  QuietPool(proxies', leases', conns')
<1>1. proxies \in [Proxies -> Proxy] /\ leases \in [Clients -> Lease]
  BY DEF TInv, TypeOK
<1>2. CASE DeleteProxy(p)
  <2>1. Spare(proxies[p]) /\ proxies' = [proxies EXCEPT ![p] = Absent]
    BY <1>2 DEF DeleteProxy, InUse, Spare
  <2>2. \A q \in Proxies : KeepsUse(proxies[q], proxies'[q])
    BY <1>1, <2>1 DEF KeepsUse, Absent
  <2> QED BY <1>1, <1>2, <2>2, UseKept DEF DeleteProxy
<1>3. ASSUME NEW d \in BOOLEAN, AddProxy(p, d)
      PROVE  QuietPool(proxies', leases', conns')
  <2>1. Spare(proxies[p]) /\ proxies' = [proxies EXCEPT ![p] = NewProxy(d)]
    BY <1>3 DEF AddProxy, Present, Spare
  <2>2. \A q \in Proxies : KeepsUse(proxies[q], proxies'[q])
    BY <1>1, <2>1 DEF KeepsUse, NewProxy, Absent
  <2> QED BY <1>1, <1>3, <2>2, UseKept DEF AddProxy
<1>4. ASSUME NEW d \in BOOLEAN, UpdateProxy(p, d) \/ SetProxyDisabled(p, d)
      PROVE  QuietPool(proxies', leases', conns')
  <2>1. PICK status : /\ ChangeProxy(p, d, status)
                      /\ status = proxies[p].status \/ (Spare(proxies[p]) /\ status \in Statuses)
    BY <1>4 DEF UpdateProxy, SetProxyDisabled, updatedStatus, disabledStatus, Spare, Statuses
  <2>2. \A q \in Proxies : KeepsUse(proxies[q], proxies'[q])
    BY <2>1, ChangedUse
  <2> QED BY <1>1, <2>1, <2>2, UseKept DEF ChangeProxy
<1> QED BY <1>2, <1>3, <1>4 DEF Administered

\* The pool a restart builds from the tables, if these are up to date: each
\* proxy of a lease is active for the only client it belongs to.
LEMMA QuietRestart ==
    ASSUME TInv, QuietPool(proxies, leases, conns), RowsMatch, "dbfail" \notin Events, Restart
    PROVE  QuietPool(proxies', leases', conns')
<1>1. \A k \in Conns : conns'[k] = FreeConn
  BY DEF Restart
<1>2. /\ leases' \in [Clients -> Lease]
      /\ \A c \in Clients : leases'[c].proxy # NoProxy => leases'[c].proxy = leases[c].proxy
  BY RestartLeases DEF RowsMatch
<1>3. \A c, d \in Clients : leases'[c].proxy # NoProxy /\ leases'[c].proxy = leases'[d].proxy => c = d
  BY <1>2 DEF QuietPool, LeasedActive
<1>4. PICK survivors \in SUBSET {c \in Clients :
            /\ dbLeases[c] # NoProxy
            /\ dbProxies'[dbLeases[c]] # "absent"
            /\ ~(leases[c].proxy = dbLeases[c] /\ leases[c].expired)} :
         leases' = LoadedLeases(dbLeases, survivors)
  BY DEF Restart
<1>5. PICK owner \in [Proxies -> Clients \cup {NoClient}] :
         /\ \A p \in Proxies :
               IF \E c \in Clients : leases'[c].proxy = p
               THEN owner[p] # NoClient /\ leases'[owner[p]].proxy = p
               ELSE owner[p] = NoClient
         /\ proxies' = [p \in Proxies |->
               IF dbProxies'[p] = "absent" THEN Absent
               ELSE IF owner[p] = NoClient THEN NewProxy(dbProxies'[p] = "disabled")
               ELSE [NewProxy(dbProxies'[p] = "disabled")
                        EXCEPT !.status = "active", !.client = owner[p]]]
  BY DEF Restart
<1>6. ASSUME NEW p \in Proxies
      PROVE  proxies'[p].conns = 0 /\ proxies'[p].drainingFor = NoClient
  BY <1>5 DEF NewProxy, Absent
<1>7. ASSUME NEW c \in Clients, leases'[c].proxy # NoProxy
      PROVE  /\ proxies'[leases'[c].proxy].status = "active"
             /\ proxies'[leases'[c].proxy].client = c
  <2> DEFINE p == leases'[c].proxy
  <2>1. p \in Proxies
    BY <1>2, <1>7 DEF Lease
  <2>2. c \in survivors /\ p = dbLeases[c]
    BY <1>4, <1>7 DEF LoadedLeases, NoLease
  <2>3. dbProxies'[p] # "absent"
    BY <1>4, <2>2
  <2>4. owner[p] = c
    <3>1. /\ \E d \in Clients : leases'[d].proxy = p
          /\ p # NoProxy
      BY <1>7
    <3>2. owner[p] # NoClient /\ leases'[owner[p]].proxy = p
      <4> HIDE DEF p
      <4> QED BY <1>5, <2>1, <3>1
    <3>3. owner[p] \in Clients
      <4> HIDE DEF p
      <4> QED BY <2>1, <3>2
    <3> QED BY <1>3, <3>1, <3>2, <3>3
  <2>5. p \in Proxies /\ dbProxies'[p] # "absent" /\ owner[p] = c /\ c # NoClient
    BY <2>1, <2>3, <2>4, SlotsAssumption
  <2> HIDE DEF p
  <2>6. proxies'[p] = [NewProxy(dbProxies'[p] = "disabled") EXCEPT !.status = "active", !.client = c]
    BY <1>5, <2>5
  <2>7. proxies'[p].status = "active" /\ proxies'[p].client = c
    BY <2>6 DEF NewProxy, Absent
  <2> QED BY <2>7 DEF p
<1>8. \A p \in Proxies : ConnsOf(conns', p) = {}
  BY <1>1, SlotsAssumption DEF ConnsOf, FreeConn
<1>9. Counted(proxies', conns')
  BY <1>6, <1>8, FS_EmptySet DEF Counted
<1> QED BY <1>1, <1>6, <1>7, <1>9 DEF QuietPool, LeasedActive, DrainsOnly, ConnsUsed

LEMMA QuietStep ==
    ASSUME "dbfail" \notin Events \/ "restart" \notin Events,
           IInv, QuietPool(proxies, leases, conns), checks = {}, [Next]_vars
    PROVE  QuietPool(proxies', leases', conns')
<1>0. /\ TInv /\ RowsMatch
      /\ proxies \in [Proxies -> Proxy] /\ leases \in [Clients -> Lease]
  BY DEF IInv, TInv, TypeOK
<1>1. CASE UNCHANGED << leases, conns >> /\ ProbesEnd(proxies, proxies')
  BY <1>0, <1>1, QuietProbesEnd
<1>2. ASSUME NEW c \in Clients, ReleaseEffect(c)
      PROVE  QuietPool(proxies', leases', conns')
  BY <1>0, <1>2, QuietReleased DEF ReleaseEffect
<1>3. ASSUME NEW c \in Clients, ReserveEffect(c)
      PROVE  QuietPool(proxies', leases', conns')
  <2>1. /\ QuietPool(ReservePool(c), leases', conns')
        /\ ReservePool(c) \in [Proxies -> Proxy] /\ leases' \in [Clients -> Lease]
    BY <1>0, <1>3, QuietReleased, ReserveStart DEF ReserveEffect, ReserveLeases, ReservePool
  <2> QED BY <1>3, <2>1, QuietReserved DEF ReserveEffect
<1>4. ASSUME NEW c \in Clients, leaseExpires(c)
      PROVE  QuietPool(proxies', leases', conns')
  <2>1. /\ UNCHANGED << proxies, conns >>
        /\ leases' = [leases EXCEPT ![c] = [leases[c] EXCEPT !.expired = TRUE]]
    BY <1>0, <1>4 DEF leaseExpires
  <2>2. \A d \in Clients : leases'[d].proxy = leases[d].proxy
    BY <1>0, <2>1 DEF Lease
  <2>3. \A p \in Proxies : KeepsUse(proxies[p], proxies'[p])
    BY <2>1 DEF KeepsUse
  <2>4. QuietPool(proxies', leases', conns)
    BY <1>0, <2>2, <2>3, UseKept
  <2> QED BY <2>1, <2>4, Zenon
<1>5. ASSUME NEW r \in Callers, probeSucceeded(r)
      PROVE  QuietPool(proxies', leases', conns')
  BY <1>0, <1>5, QuietSucceeded
<1>6. ASSUME NEW k \in Conns, UnregisterConn(k) \/ \E c \in Clients : AcquireProxyConn(k, c)
      PROVE  QuietPool(proxies', leases', conns')
  BY <1>0, <1>6, QuietUnregistered, QuietAcquired
<1>7. ASSUME NEW p \in Proxies, recordHealth(p) \/ Administered(p)
      PROVE  QuietPool(proxies', leases', conns')
  BY <1>0, <1>7, QuietAdministered DEF recordHealth
<1>8. CASE Restart
  <2>1. "dbfail" \notin Events
    BY <1>8 DEF Restart
  <2> QED BY <1>0, <1>8, <2>1, QuietRestart
<1> QED BY <1>0, <1>1, <1>2, <1>3, <1>4, <1>5, <1>6, <1>7, <1>8, PoolSteps, Zenon DEF PoolStep

LEMMA ChecksStep ==
    ASSUME "health" \notin Events, checks = {}, [Next]_vars
    PROVE  checks' = {}
<1>1. ASSUME NEW r \in Callers, EnsureStep(r)
      PROVE  UNCHANGED checks
  BY <1>1 DEF EnsureStep, AcquireGate, assignmentCanceled, frontBackoffAssignment, pendingSnapshot,
       reserveProxyForLease, probeSuperseded, canceledProbeAssignment, probeSharedFailure,
       probeAmbiguous, probeExitFailure, probeSucceeded, resolveCanceled,
       applyRecentCrossEvidence, settleBatch, crossValidate, recordBatch, outside
<1>2. ASSUME QueueStep
      PROVE  UNCHANGED checks
  BY <1>2 DEF QueueStep, processQueueAsync, nextQueuedClient, finishQueue,
       queueTimerFires, queueBackoffElapses, outside
<1>3. ASSUME \/ \E r \in Requests, c \in Clients, refresh \in BOOLEAN : ensureLease(r, c, refresh)
             \/ UNCHANGED vars \/ frontChanges \/ collectExpired
             \/ \E c \in Clients : Release(c) \/ leaseExpires(c) \/ expireLease(c)
             \/ \E k \in Conns : UnregisterConn(k) \/ \E c \in Clients : AcquireProxyConn(k, c)
             \/ \E p \in Proxies : DeleteProxy(p)
             \/ \E p \in Proxies, d \in BOOLEAN :
                   AddProxy(p, d) \/ UpdateProxy(p, d) \/ SetProxyDisabled(p, d)
      PROVE  UNCHANGED checks
  BY <1>3 DEF vars, ensureLease, frontChanges, collectExpired, Release, leaseExpires, expireLease,
              UnregisterConn, AcquireProxyConn, DeleteProxy, AddProxy, UpdateProxy,
              SetProxyDisabled, ChangeProxy, outside
<1>4. \A p \in Proxies : ~proxyCheckSnapshot(p) /\ ~recordHealth(p)
  BY DEF proxyCheckSnapshot, recordHealth
<1>5. Restart => checks' = {}
  BY DEF Restart
<1> QED BY <1>1, <1>2, <1>3, <1>4, <1>5, Zenon DEF Next

QInv == IInv /\ QuietPool(proxies, leases, conns) /\ checks = {}

LEMMA QuietInvariant ==
    ASSUME "health" \notin Events,
           "dbfail" \notin Events \/ "restart" \notin Events
    PROVE  Spec => []QInv
<1>1. Init => QuietPool(proxies, leases, conns) /\ checks = {}
  <2> SUFFICES ASSUME Init PROVE QuietPool(proxies, leases, conns) /\ checks = {}
    OBVIOUS
  <2>1. \A k \in Conns : conns[k] = FreeConn
    BY DEF Init
  <2>2. \A p \in Proxies : proxies[p].conns = 0 /\ proxies[p].drainingFor = NoClient
    BY DEF Init, NewProxy, Absent
  <2>3. \A c \in Clients : leases[c].proxy = NoProxy
    BY DEF Init, NoLease
  <2>4. \A p \in Proxies : ConnsOf(conns, p) = {}
    BY <2>1, SlotsAssumption DEF ConnsOf, FreeConn
  <2>5. Counted(proxies, conns)
    BY <2>2, <2>4, FS_EmptySet DEF Counted
  <2>6. checks = {}
    BY DEF Init
  <2> QED BY <2>1, <2>2, <2>3, <2>5, <2>6 DEF QuietPool, LeasedActive, DrainsOnly, ConnsUsed
<1>2. Spec => []IInv
  BY LeasesInvariant
<1>3. IInv /\ QuietPool(proxies, leases, conns) /\ checks = {} /\ [Next]_vars
        => (QuietPool(proxies, leases, conns) /\ checks = {})'
  BY QuietStep, ChecksStep
<1> QED BY <1>1, <1>2, <1>3, PTL DEF Spec, QInv

\* ActiveConns counts the registered connections of a proxy through all its
\* refreshes, releases, drains and restarts, as long as no health result comes
\* in between (see above) and no row of a released lease is loaded again.
THEOREM ConnectionsCounted ==
    ASSUME "health" \notin Events,
           "dbfail" \notin Events \/ "restart" \notin Events
    PROVE  Spec => []ConnCountExact
<1>1. Spec => []QInv
  BY QuietInvariant
<1>2. QInv => ConnCountExact
  BY DEF QInv, QuietPool, Counted, ConnCountExact, ConnsOf
<1> QED BY <1>1, <1>2, PTL

\* An unexpired lease is usable, even when several calls assign proxies to its
\* client at once; under the same assumptions.
THEOREM LeasesUsable ==
    ASSUME "health" \notin Events,
           "dbfail" \notin Events \/ "restart" \notin Events
    PROVE  Spec => []LeaseUsable
<1>1. Spec => []QInv
  BY QuietInvariant
<1>2. QInv => LeaseUsable
  BY DEF QInv, QuietPool, LeasedActive, LeaseUsable, Live, HasLease
<1> QED BY <1>1, <1>2, PTL

\* Nobody is given a proxy through which another client's connection goes.
THEOREM UseExclusive ==
    ASSUME "health" \notin Events,
           "dbfail" \notin Events \/ "restart" \notin Events
    PROVE  Spec => []ExclusiveUse
<1>1. Spec => []QInv
  BY QuietInvariant
<1>2. QInv => ExclusiveUse
  BY DEF QInv, QuietPool, LeasedActive, ConnsUsed, UsedBy, ExclusiveUse, Live, HasLease
<1> QED BY <1>1, <1>2, PTL

----------------------------------------------------------------------------
(* The manager implements LeaseService.  Holding and Using are the states  *)
(* that the refinement maps of a state are made from.                      *)

Holding(ls) ==
    [c \in Clients |-> IF ls[c].proxy # NoProxy /\ ~ls[c].expired THEN ls[c].proxy ELSE NoProxy]
Using(cs) == [k \in Conns |-> [client |-> cs[k].client, proxy |-> cs[k].proxy]]

\* What the actions of LeaseService say of the manager's variables.
LEMMA ServiceInit ==
    Service!Init <=> /\ Holding(leases) = [c \in Clients |-> NoProxy]
                     /\ Using(conns) = [k \in Conns |-> Service!Unused]
BY DEF Service!Init, Holding, Using, Live, HasLease, NoProxy, Service!NoProxy

LEMMA ServiceUnchanged ==
    ASSUME Holding(leases') = Holding(leases), Using(conns') = Using(conns)
    PROVE  UNCHANGED Service!vars
BY DEF Service!vars, Holding, Using, Live, HasLease

LEMMA ServiceGrant ==
    ASSUME NEW c \in Clients, NEW p \in Proxies,
           \A d \in Clients \ {c} : Holding(leases)[d] # p,
           \A k \in Conns : Using(conns)[k].proxy = p => Using(conns)[k].client = c,
           Holding(leases') = [Holding(leases) EXCEPT ![c] = p],
           Using(conns') = Using(conns)
    PROVE  Service!Grant(c, p)
BY DEF Service!Grant, Service!Unshared, Holding, Using, Live, HasLease

LEMMA ServiceWithdraw ==
    ASSUME NEW c \in Clients,
           Holding(leases') = [d \in Clients |-> IF d = c THEN NoProxy ELSE Holding(leases)[d]],
           Using(conns') = Using(conns)
    PROVE  Service!Withdraw(c)
BY DEF Service!Withdraw, Service!Revoke, Service!NoProxy, NoProxy, Holding, Using, Live, HasLease

LEMMA ServiceOpen ==
    ASSUME NEW c \in Clients, NEW k \in Conns,
           Using(conns)[k] = Service!Unused, Holding(leases)[c] # NoProxy,
           Using(conns') = [Using(conns) EXCEPT ![k] = [client |-> c, proxy |-> Holding(leases)[c]]],
           Holding(leases') = Holding(leases)
    PROVE  Service!Open(k, c)
BY DEF Service!Open, Service!NoProxy, NoProxy, Holding, Using, Live, HasLease

LEMMA ServiceClose ==
    ASSUME NEW k \in Conns,
           Using(conns') = [Using(conns) EXCEPT ![k] = Service!Unused],
           Holding(leases') = Holding(leases)
    PROVE  Service!Close(k)
BY DEF Service!Close, Holding, Using, Live, HasLease

LEMMA ServiceCrash ==
    ASSUME NEW lost \in SUBSET Clients,
           Holding(leases') = [d \in Clients |-> IF d \in lost THEN NoProxy ELSE Holding(leases)[d]],
           Using(conns') = [k \in Conns |-> Service!Unused]
    PROVE  Service!Crash
BY DEF Service!Crash, Service!Revoke, Service!NoProxy, NoProxy, Holding, Using, Live, HasLease

LEMMA ServiceRelease ==
    ASSUME TInv, NEW c \in Clients, ReleaseEffect(c)
    PROVE  Service!Withdraw(c)
<1>1. leases' = [leases EXCEPT ![c] = NoLease] /\ leases \in [Clients -> Lease]
  BY DEF ReleaseEffect, releasedLeases, TInv, TypeOK
<1>2. Holding(leases') = [d \in Clients |-> IF d = c THEN NoProxy ELSE Holding(leases)[d]]
  BY <1>1 DEF Holding, NoLease
<1>3. Using(conns') = Using(conns)
  BY ClosedUses DEF ReleaseEffect, Using
<1> QED BY <1>2, <1>3, ServiceWithdraw

\* A reservation drops the expired lease of its client, which counted no more.
LEMMA ServiceReserve ==
    ASSUME TInv, NEW c \in Clients, ReserveEffect(c)
    PROVE  UNCHANGED Service!vars
<1>1. Holding(leases') = Holding(leases)
  <2>1. leases \in [Clients -> Lease] /\ leases' = ReserveLeases(c)
    BY DEF ReserveEffect, TInv, TypeOK
  <2>2. CASE StaleLease(c)
    <3>1. leases' = [leases EXCEPT ![c] = NoLease] /\ leases[c].expired
      BY <2>1, <2>2 DEF ReserveLeases, releasedLeases, StaleLease
    <3> QED BY <2>1, <3>1 DEF Holding, NoLease
  <2>3. CASE ~StaleLease(c)
    BY <2>1, <2>3 DEF ReserveLeases
  <2> QED BY <2>2, <2>3
<1>2. Using(conns') = Using(conns)
  BY ClosedUses DEF ReserveEffect, Using
<1> QED BY <1>1, <1>2, ServiceUnchanged

LEMMA ServiceExpires ==
    ASSUME TInv, NEW c \in Clients, leaseExpires(c)
    PROVE  Service!Withdraw(c)
<1>1. /\ leases \in [Clients -> Lease] /\ UNCHANGED conns
      /\ leases' = [leases EXCEPT ![c] = [leases[c] EXCEPT !.expired = TRUE]]
  BY DEF leaseExpires, TInv, TypeOK
<1>2. leases'[c].expired /\ \A d \in Clients : d # c => leases'[d] = leases[d]
  BY <1>1 DEF Lease
<1>3. Holding(leases') = [d \in Clients |-> IF d = c THEN NoProxy ELSE Holding(leases)[d]]
  BY <1>2 DEF Holding
<1> QED BY <1>1, <1>3, ServiceWithdraw

\* The probed proxy is nobody's: its reservation excluded leases, and without
\* health results connections as well.
LEMMA ServiceSucceeded ==
    ASSUME QInv, NEW r \in Callers, probeSucceeded(r)
    PROVE  \E c \in Clients, p \in Proxies : Service!Grant(c, p)
<1>1. TInv /\ ReservedUnleased /\ QuietPool(proxies, leases, conns)
  BY DEF QInv, IInv
<1>2. /\ reqs[r].client \in Clients /\ reqs[r].proxy \in Proxies
      /\ proxies[reqs[r].proxy].status = "checking" /\ leases \in [Clients -> Lease]
  BY <1>1, ProbedReserved DEF probeSucceeded, TInv, TypeOK
<1>3. PICK c \in Clients, p \in Proxies : c = reqs[r].client /\ p = reqs[r].proxy
  BY <1>2
<1>4. leases' = [leases EXCEPT ![c] = [proxy |-> p, expired |-> FALSE]] /\ UNCHANGED conns
  BY <1>1, <1>3, SucceededPool DEF probeSucceeded
<1>5. \A d \in Clients \ {c} : Holding(leases)[d] # p
  BY <1>1, <1>2, <1>3, SlotsAssumption DEF Holding, ReservedUnleased, HasActiveLease
<1>6. \A k \in Conns : Using(conns)[k].proxy = p => Using(conns)[k].client = c
  <2>1. ConnsOf(conns, p) = {}
    BY <1>1, <1>2, <1>3, SpareUnused DEF QuietPool, Spare
  <2> QED BY <2>1 DEF ConnsOf, Using
<1>7. Holding(leases') = [Holding(leases) EXCEPT ![c] = p]
  BY <1>2, <1>4, SlotsAssumption DEF Holding
<1>8. Using(conns') = Using(conns)
  BY <1>4
<1>9. Service!Grant(c, p)
  BY <1>5, <1>6, <1>7, <1>8, ServiceGrant
<1> QED BY <1>9

LEMMA ServiceConnection ==
    ASSUME TInv, NEW k \in Conns, UnregisterConn(k) \/ \E c \in Clients : AcquireProxyConn(k, c)
    PROVE  Service!Close(k) \/ \E c \in Clients : Service!Open(k, c)
<1>1. conns \in [Conns -> Conn] /\ UNCHANGED leases
  BY DEF TInv, TypeOK, UnregisterConn, AcquireProxyConn
<1>2. Holding(leases') = Holding(leases)
  BY <1>1
<1>3. CASE UnregisterConn(k)
  <2>1. conns' = [conns EXCEPT ![k] = FreeConn]
    BY <1>3 DEF UnregisterConn
  <2>2. Using(conns') = [Using(conns) EXCEPT ![k] = Service!Unused]
    BY <1>1, <2>1 DEF Using, FreeConn, Service!Unused, NoClient, NoProxy, Service!NoClient, Service!NoProxy
  <2> QED BY <1>2, <2>2, ServiceClose
<1>4. ASSUME NEW c \in Clients, AcquireProxyConn(k, c)
      PROVE  Service!Open(k, c)
  <2>1. /\ conns[k] = FreeConn /\ Live(c)
        /\ conns' = [conns EXCEPT ![k] = [client |-> c, proxy |-> leases[c].proxy, closing |-> FALSE]]
    BY <1>4 DEF AcquireProxyConn
  <2>2. Using(conns)[k] = Service!Unused
    BY <2>1 DEF Using, FreeConn, Service!Unused, NoClient, NoProxy, Service!NoClient, Service!NoProxy
  <2>3. Holding(leases)[c] = leases[c].proxy /\ Holding(leases)[c] # NoProxy
    BY <2>1 DEF Holding, Live, HasLease
  <2>4. Using(conns') = [Using(conns) EXCEPT ![k] = [client |-> c, proxy |-> Holding(leases)[c]]]
    BY <1>1, <2>1, <2>3 DEF Using
  <2> QED BY <1>2, <2>2, <2>3, <2>4, ServiceOpen
<1> QED BY <1>3, <1>4

\* The clients whose lease was not loaded again have lost it.
LEMMA ServiceRestart ==
    ASSUME TInv, RowsMatch, "dbfail" \notin Events, Restart
    PROVE  Service!Crash
<1> DEFINE lost == {c \in Clients : leases'[c].proxy = NoProxy}
<1>1. PICK survivors : leases' = LoadedLeases(dbLeases, survivors)
  BY DEF Restart
<1>2. \A c \in Clients : leases'[c].proxy # NoProxy =>
        /\ leases'[c].proxy = leases[c].proxy /\ ~leases[c].expired
        /\ ~leases'[c].expired
  BY <1>1, RestartLeases DEF RowsMatch, LoadedLeases, NoLease
<1>3. Holding(leases') = [d \in Clients |-> IF d \in lost THEN NoProxy ELSE Holding(leases)[d]]
  BY <1>2 DEF Holding
<1>4. \A k \in Conns : conns'[k] = FreeConn
  BY DEF Restart
<1>5. Using(conns') = [k \in Conns |-> Service!Unused]
  BY <1>4 DEF Using, FreeConn, Service!Unused, NoClient, NoProxy, Service!NoClient, Service!NoProxy
<1> QED BY <1>3, <1>5, ServiceCrash

LEMMA ServiceStep ==
    ASSUME "dbfail" \notin Events \/ "restart" \notin Events,
           QInv, [Next]_vars
    PROVE  [Service!Next]_(Service!vars)
<1>0. TInv /\ RowsMatch
  BY DEF QInv, IInv
<1>1. CASE UNCHANGED << leases, conns >>
  BY <1>1, ServiceUnchanged
<1>2. ASSUME NEW c \in Clients, ReleaseEffect(c) \/ leaseExpires(c)
      PROVE  Service!Next
  <2>1. Service!Withdraw(c)
    BY <1>0, <1>2, ServiceRelease, ServiceExpires
  <2> QED BY <2>1 DEF Service!Next
<1>3. ASSUME NEW c \in Clients, ReserveEffect(c)
      PROVE  UNCHANGED Service!vars
  BY <1>0, <1>3, ServiceReserve
<1>4. ASSUME NEW r \in Callers, probeSucceeded(r)
      PROVE  Service!Next
  BY <1>4, ServiceSucceeded DEF Service!Next
<1>5. ASSUME NEW k \in Conns, UnregisterConn(k) \/ \E c \in Clients : AcquireProxyConn(k, c)
      PROVE  Service!Next
  BY <1>0, <1>5, ServiceConnection DEF Service!Next
<1>6. ASSUME NEW p \in Proxies, recordHealth(p) \/ Administered(p)
      PROVE  UNCHANGED Service!vars
  <2>1. UNCHANGED << leases, conns >>
    BY <1>6 DEF recordHealth, Administered, AddProxy, UpdateProxy, SetProxyDisabled, ChangeProxy,
                DeleteProxy
  <2> QED BY <2>1, ServiceUnchanged
<1>7. CASE Restart
  <2>1. "dbfail" \notin Events
    BY <1>7 DEF Restart
  <2> QED BY <1>0, <1>7, <2>1, ServiceRestart DEF Service!Next
<1> QED BY <1>0, <1>1, <1>2, <1>3, <1>4, <1>5, <1>6, <1>7, PoolSteps, Zenon DEF PoolStep

\* The manager implements the service its clients see: whatever reservations,
\* batches, queues and drains do in between, a client is granted a proxy only
\* when nobody else holds it or has a connection on it, and opens connections
\* only through the one it holds.
THEOREM ServiceImplemented ==
    ASSUME "health" \notin Events,
           "dbfail" \notin Events \/ "restart" \notin Events
    PROVE  Spec => ImplementsService
<1>1. Init => Service!Init
  <2> SUFFICES ASSUME Init PROVE Service!Init
    OBVIOUS
  <2>1. (\A c \in Clients : leases[c] = NoLease) /\ \A k \in Conns : conns[k] = FreeConn
    BY DEF Init
  <2>2. Holding(leases) = [c \in Clients |-> NoProxy]
    BY <2>1 DEF Holding, NoLease
  <2>3. Using(conns) = [k \in Conns |-> Service!Unused]
    BY <2>1 DEF Using, FreeConn, Service!Unused, NoClient, NoProxy, Service!NoClient, Service!NoProxy
  <2> QED BY <2>2, <2>3, ServiceInit
<1>2. QInv /\ [Next]_vars => [Service!Next]_(Service!vars)
  BY ServiceStep
<1>3. Spec => []QInv
  BY QuietInvariant
<1> QED BY <1>1, <1>2, <1>3, PTL DEF Spec, ImplementsService, Service!Spec

----------------------------------------------------------------------------
(* Who waits.  A step adds a client to pendingNew only if it has no lease. *)

LEMMA RemovedQueue ==
    ASSUME NEW S, NEW q \in Seq(S), IsInjective(q), NEW c
    PROVE  /\ \A d : InQueue(removeIP(q, c), d) => InQueue(q, d)
           /\ ~InQueue(removeIP(q, c), c)
<1>1. CASE InQueue(q, c)
  <2> DEFINE i == CHOOSE i \in DOMAIN q : q[i] = c
  <2>1. i \in 1..Len(q) /\ q[i] = c
    BY <1>1 DEF InQueue, Contains
  <2> HIDE DEF i
  <2>2. removeIP(q, c) = SubSeq(q, 1, i-1) \o SubSeq(q, i+1, Len(q))
    BY <1>1 DEF removeIP, RemoveAt, i
  <2> DEFINE f == SubSeq(q, 1, i-1)
             g == SubSeq(q, i+1, Len(q))
  <2>3. f \in Seq(S) /\ Len(f) = i - 1 /\ \A k \in 1..(i-1) : f[k] = q[k]
    BY <2>1, SubSeqProperties
  <2>4. g \in Seq(S) /\ Len(g) = Len(q) - i /\ \A k \in 1..(Len(q)-i) : g[k] = q[k + i]
    BY <2>1, SubSeqProperties
  <2> HIDE DEF f, g
  <2>5. Len(f \o g) = Len(q) - 1
    <3>1. f \in Seq(S) /\ g \in Seq(S)
      BY <2>3, <2>4
    <3>2. Len(f \o g) = Len(f) + Len(g)
      BY <3>1, ConcatProperties, Zenon
    <3> QED BY <2>1, <2>3, <2>4, <3>2
  <2>6. \A k \in 1..(Len(q)-1) : (f \o g)[k] = IF k < i THEN q[k] ELSE q[k+1]
    BY <2>1, <2>3, <2>4
  <2>7. \A k \in 1..(Len(q)-1) : \E j \in 1..Len(q) : j # i /\ (f \o g)[k] = q[j]
    <3> TAKE k \in 1..(Len(q)-1)
    <3>1. CASE k < i
      <4>1. k \in 1..Len(q) /\ k # i
        BY <2>1, <3>1
      <4> QED BY <2>6, <3>1, <4>1
    <3>2. CASE ~(k < i)
      <4>1. k+1 \in 1..Len(q) /\ k+1 # i
        BY <2>1, <3>2
      <4> QED BY <2>6, <3>2, <4>1
    <3> QED BY <3>1, <3>2
  <2>8. \A j \in 1..Len(q) : j # i => q[j] # c
    BY <2>1 DEF IsInjective
  <2>9. removeIP(q, c) = f \o g
    BY <2>2 DEF f, g
  <2> QED BY <2>5, <2>7, <2>8, <2>9 DEF InQueue, Contains
<1>2. CASE ~InQueue(q, c)
  BY <1>2 DEF removeIP
<1> QED BY <1>1, <1>2

LEMMA EnqueuedQueue ==
    ASSUME NEW S, NEW q \in Seq(S), NEW c, NEW d, InQueue(enqueueUnique(q, c), d)
    PROVE  InQueue(q, d) \/ d = c
BY DEF InQueue, Contains, enqueueUnique

LEMMA EmptyQueue == ASSUME NEW c PROVE ~InQueue(<< >>, c)
BY DEF InQueue, Contains

LEMMA TailQueue ==
    ASSUME NEW S, NEW q \in Seq(S), q # << >>, NEW d, InQueue(Tail(q), d)
    PROVE  InQueue(q, d)
<1>1. Tail(q) \in Seq(S) /\ Len(Tail(q)) = Len(q) - 1 /\ \A k \in 1..Len(Tail(q)) : Tail(q)[k] = q[k+1]
  BY HeadTailProperties
<1>2. PICK i \in 1..Len(Tail(q)) : Tail(q)[i] = d
  BY DEF InQueue, Contains
<1>3. i + 1 \in 1..Len(q) /\ q[i+1] = d
  BY <1>1, <1>2
<1> QED BY <1>3 DEF InQueue, Contains

\* With a front, assignmentGate serialises the assignments.
GateHeld == FrontEnabled => \A r \in Callers : reqs[r].pc \in Past => gate = r

\* With a front, a new lease is only probed for a client that has none.
NewUnleased ==
    FrontEnabled => \A r \in Callers :
        reqs[r].pc = "probe" /\ ~reqs[r].refresh => ~HasLease(reqs[r].client)

LEMMA GateStep == ASSUME TInv, GateHeld, [Next]_vars PROVE GateHeld'
<1>0. gate \in Callers \cup {Nobody} /\ Nobody \notin Callers
  BY SlotsAssumption DEF TInv, TypeOK
<1>1. CASE UNCHANGED << reqs, gate >>
  BY <1>1 DEF GateHeld
<1>2. ASSUME NEW r \in Callers, CallStep(r)
      PROVE  GateHeld'
  <2> SUFFICES ASSUME FrontEnabled, NEW s \in Callers, reqs'[s].pc \in Past
               PROVE  gate' = s
    BY DEF GateHeld
  <2>1. CASE s = r
    BY <1>2, <2>1 DEF CallStep, GateHeld
  <2>2. CASE s # r
    <3>1. gate = s
      BY <1>2, <2>2 DEF CallStep, GateHeld
    <3> QED BY <1>0, <1>2, <2>2, <3>1 DEF CallStep
  <2> QED BY <2>1, <2>2
<1>3. CASE Restart
  <2>1. \A r \in Callers : reqs'[r].pc = "idle"
    BY <1>3 DEF Restart, IdleRequest
  <2> QED BY <2>1 DEF GateHeld, Past
<1> QED BY <1>1, <1>2, <1>3, CallSteps

\* A client gets another lease, or an unexpired one, by a probe that succeeds
\* or by a restart.
LEMMA LeaseGained ==
    ASSUME TInv, [Next]_vars, NEW c \in Clients, leases'[c].proxy # NoProxy,
           leases'[c].proxy # leases[c].proxy \/ (leases[c].expired /\ ~leases'[c].expired)
    PROVE  Restart \/ \E r \in Callers : probeSucceeded(r) /\ reqs[r].client = c
<1>0. leases \in [Clients -> Lease]
  BY DEF TInv, TypeOK
<1>1. UNCHANGED leases => FALSE
  OBVIOUS
<1>2. ASSUME NEW d \in Clients, leases' = releasedLeases(d)
      PROVE  FALSE
  BY <1>0, <1>2 DEF releasedLeases, NoLease
<1>3. ASSUME NEW d \in Clients, ReleaseEffect(d) \/ ReserveEffect(d)
      PROVE  FALSE
  BY <1>1, <1>2, <1>3 DEF ReleaseEffect, ReserveEffect, ReserveLeases
<1>4. ASSUME NEW d \in Clients, leaseExpires(d)
      PROVE  FALSE
  <2>1. leases' = [leases EXCEPT ![d] = [leases[d] EXCEPT !.expired = TRUE]]
    BY <1>0, <1>4 DEF leaseExpires
  <2>2. \A e \in Clients : leases'[e].proxy = leases[e].proxy /\ (leases[e].expired => leases'[e].expired)
    BY <1>0, <2>1 DEF Lease
  <2> QED BY <2>2
<1>5. ASSUME NEW r \in Callers, probeSucceeded(r)
      PROVE  reqs[r].client = c
  <2>1. leases' = [leases EXCEPT ![reqs[r].client] = [proxy |-> reqs[r].proxy, expired |-> FALSE]]
    BY <1>5, SucceededPool
  <2> QED BY <1>0, <2>1
<1>6. \A k \in Conns : ~UnregisterConn(k) /\ \A d \in Clients : ~AcquireProxyConn(k, d)
  BY <1>1 DEF UnregisterConn, AcquireProxyConn
<1>7. \A p \in Proxies : ~recordHealth(p) /\ ~Administered(p)
  BY <1>1 DEF recordHealth, Administered, AddProxy, UpdateProxy, SetProxyDisabled, ChangeProxy,
              DeleteProxy
<1> QED BY <1>1, <1>3, <1>4, <1>5, <1>6, <1>7, PoolSteps, Zenon DEF PoolStep

\* What the reservation of a new lease found: the client had none left.
LEMMA ReservedNew ==
    ASSUME TInv, NEW r \in Callers, reserveProxyForLease(r), reqs'[r].pc = "probe"
    PROVE  /\ reqs'[r].refresh = reqs[r].refresh /\ reqs'[r].client = reqs[r].client
           /\ ~reqs[r].refresh => leases'[reqs[r].client].proxy = NoProxy
<1>0. reqs[r] \in Request /\ reqs \in [Callers -> Request]
  BY CallTyped
<1>1. ASSUME NEW answer, Unreserved(r, answer)
      PROVE  FALSE
  <2>1. CASE Return(r, answer)
    BY <1>0, <2>1 DEF Return, IdleRequest
  <2>2. CASE reqs' = [reqs EXCEPT ![r].pc = "evidence", ![r].answer = answer]
    BY <1>0, <2>2 DEF Request
  <2> QED BY <1>1, <2>1, <2>2 DEF Unreserved
<1>2. /\ reqs[r].refresh \/ leases'[reqs[r].client].proxy = NoProxy
      /\ \E p : reqs' = [reqs EXCEPT ![r].pc = "probe", ![r].proxy = p]
  BY <1>1, Zenon DEF reserveProxyForLease
<1> QED BY <1>0, <1>2 DEF Request

LEMMA NewUnleasedStep == ASSUME TInv, GateHeld, NewUnleased, [Next]_vars PROVE NewUnleased'
<1> SUFFICES ASSUME FrontEnabled, NEW s \in Callers, reqs'[s].pc = "probe", ~reqs'[s].refresh
             PROVE  leases'[reqs'[s].client].proxy = NoProxy
  BY DEF NewUnleased, HasLease
<1>0. reqs[s] \in Request /\ reqs \in [Callers -> Request]
  BY CallTyped
<1>1. ~Restart
  <2> SUFFICES ASSUME Restart PROVE FALSE
    OBVIOUS
  <2>1. reqs'[s].pc = "idle"
    BY DEF Restart, IdleRequest
  <2> QED BY <2>1
<1>2. CASE reqs'[s] = reqs[s]
  <2> DEFINE c == reqs[s].client
  <2>1. c \in Clients /\ leases[c].proxy = NoProxy
    BY <1>2, ProbeTyped DEF NewUnleased, HasLease
  <2>2. SUFFICES ASSUME leases'[c].proxy # NoProxy PROVE FALSE
    BY <1>2
  <2>3. PICK r \in Callers : probeSucceeded(r) /\ reqs[r].client = c
    BY <1>1, <2>1, <2>2, LeaseGained
  <2>4. reqs[r].pc = "probe" /\ reqs'[r].pc # "probe"
    BY <2>3, CallTyped DEF probeSucceeded, Probed, Return, IdleRequest
  <2>5. gate = r /\ gate = s
    BY <1>2, <2>4 DEF GateHeld, Past
  <2> QED BY <2>4, <2>5
<1>3. CASE reqs'[s] # reqs[s]
  <2>1. CallStep(s)
    BY <1>1, <1>3, CallSteps DEF CallStep
  <2>2. reserveProxyForLease(s)
    BY <2>1 DEF CallStep
  <2> QED BY <2>2, ReservedNew
<1> QED BY <1>2, <1>3

\* A client that is new in pendingNew has no unexpired lease after the step.
LEMMA EnqueuedUnleased ==
    ASSUME TInv, NewUnleased, NEW r \in Callers, EnsureStep(r), NEW c \in Clients,
           InQueue(pendingNew', c), ~InQueue(pendingNew, c)
    PROVE  ~(leases'[c].proxy # NoProxy /\ ~leases'[c].expired)
<1>0. pendingNew \in Seq(Clients) /\ IsInjective(pendingNew)
  BY DEF TInv, TypeOK
<1>1. ~UNCHANGED pendingNew
  OBVIOUS
<1>2. ASSUME NEW d PROVE pendingNew' # removeIP(pendingNew, d)
  BY <1>0, RemovedQueue
<1>3. CASE frontBackoffAssignment(r)
  <2>1. enqueuePending(reqs[r].client, Live(reqs[r].client)) /\ UNCHANGED leases
    BY <1>1, <1>3 DEF frontBackoffAssignment, queues
  <2>2. ~Live(reqs[r].client) /\ c = reqs[r].client
    BY <1>0, <1>1, <2>1, EnqueuedQueue DEF enqueuePending
  <2> QED BY <2>1, <2>2 DEF Live, HasLease
<1>4. CASE reserveProxyForLease(r)
  <2> DEFINE d == reqs[r].client
  <2>1. d \in Clients
    BY <1>4, ReserveBranches, CallClient DEF Running
  <2>2. pendingNew' # ReserveNew(d)
    BY <1>1, <1>2 DEF ReserveNew
  <2>3. /\ ~reqs[r].refresh /\ leases'[d].proxy = NoProxy
        /\ pendingNew' = enqueueUnique(ReserveNew(d), d)
    BY <1>4, <2>2, Zenon DEF reserveProxyForLease, ReserveNew, StaleLease
  <2>4. ~InQueue(ReserveNew(d), c)
    BY <1>0, RemovedQueue DEF ReserveNew
  <2>5. c = d
    BY <2>1, <2>3, <2>4, EnqueuedQueue, ReserveStart
  <2> QED BY <2>3, <2>5
<1>5. CASE probeSharedFailure(r) \/ probeAmbiguous(r)
  <2>1. /\ enqueuePending(reqs[r].client, reqs[r].refresh)
        /\ UNCHANGED leases /\ FrontEnabled /\ reqs[r].pc = "probe"
    BY <1>1, <1>5 DEF probeSharedFailure, probeAmbiguous, queues, Probed
  <2>2. ~reqs[r].refresh /\ c = reqs[r].client
    BY <1>0, <1>1, <2>1, EnqueuedQueue DEF enqueuePending
  <2> QED BY <2>1, <2>2 DEF NewUnleased, HasLease
<1>6. ~probeSucceeded(r)
  BY <1>2 DEF probeSucceeded, activateCheckedProxy, removeQueued
<1>7. ~resolveCanceled(r)
  BY <1>1, <1>2 DEF resolveCanceled
<1>8. /\ ~AcquireGate(r) /\ ~assignmentCanceled(r) /\ ~pendingSnapshot(r) /\ ~probeSuperseded(r)
      /\ ~canceledProbeAssignment(r) /\ ~probeExitFailure(r) /\ ~applyRecentCrossEvidence(r)
      /\ ~settleBatch(r) /\ ~crossValidate(r) /\ ~recordBatch(r)
  BY <1>1 DEF AcquireGate, assignmentCanceled, pendingSnapshot, probeSuperseded,
       canceledProbeAssignment, probeExitFailure, applyRecentCrossEvidence, settleBatch,
       crossValidate, recordBatch, queues
<1> QED BY <1>3, <1>4, <1>5, <1>6, <1>7, <1>8, Zenon DEF EnsureStep

LEMMA OnlyCallsEnqueue ==
    ASSUME TInv, [Next]_vars, NEW c \in Clients, InQueue(pendingNew', c), ~InQueue(pendingNew, c)
    PROVE  \E r \in Callers : EnsureStep(r)
<1>0. pendingNew \in Seq(Clients) /\ IsInjective(pendingNew)
  BY DEF TInv, TypeOK
<1>1. ~UNCHANGED pendingNew
  OBVIOUS
<1>2. ASSUME NEW d PROVE pendingNew' # removeIP(pendingNew, d)
  BY <1>0, RemovedQueue
<1>3. \A d \in Clients : ~Release(d) /\ ~leaseExpires(d) /\ ~expireLease(d)
  BY <1>1, <1>2 DEF Release, leaseExpires, expireLease, releaseLocked, removeQueued, queues
<1>4. ~nextQueuedClient
  BY <1>0, <1>1, TailQueue DEF nextQueuedClient, queues
<1>5. ~QueueStep
  BY <1>1, <1>4 DEF QueueStep, processQueueAsync, finishQueue, queueTimerFires,
                    queueBackoffElapses, queues
<1>6. ~Restart
  <2> SUFFICES ASSUME Restart PROVE FALSE
    OBVIOUS
  <2>1. pendingNew' = << >>
    BY DEF Restart
  <2> QED BY <2>1, EmptyQueue
<1>7. /\ ~UNCHANGED vars /\ ~frontChanges /\ ~collectExpired
      /\ \A r \in Requests, d \in Clients, refresh \in BOOLEAN : ~ensureLease(r, d, refresh)
      /\ \A k \in Conns : ~UnregisterConn(k) /\ \A d \in Clients : ~AcquireProxyConn(k, d)
      /\ \A p \in Proxies : ~proxyCheckSnapshot(p) /\ ~recordHealth(p) /\ ~DeleteProxy(p)
      /\ \A p \in Proxies, d \in BOOLEAN :
            ~AddProxy(p, d) /\ ~UpdateProxy(p, d) /\ ~SetProxyDisabled(p, d)
  BY <1>1 DEF vars, frontChanges, collectExpired, ensureLease, UnregisterConn, AcquireProxyConn,
       proxyCheckSnapshot, recordHealth, DeleteProxy, AddProxy, UpdateProxy, SetProxyDisabled,
       ChangeProxy, queues
<1> QED BY <1>3, <1>5, <1>6, <1>7, Zenon DEF Next

LEMMA WaitingStep ==
    ASSUME TInv, NewUnleased, WaitingHasNoLease, [Next]_vars
    PROVE  WaitingHasNoLease'
<1> SUFFICES ASSUME NEW c \in Clients, InQueue(pendingNew', c),
                    leases'[c].proxy # NoProxy, ~leases'[c].expired
             PROVE  FALSE
  BY DEF WaitingHasNoLease, Live, HasLease
<1>1. InQueue(pendingNew, c)
  BY OnlyCallsEnqueue, EnqueuedUnleased
<1>2. leases'[c].proxy # leases[c].proxy \/ (leases[c].expired /\ ~leases'[c].expired)
  BY <1>1 DEF WaitingHasNoLease, Live, HasLease
<1>3. Restart \/ \E r \in Callers : probeSucceeded(r) /\ reqs[r].client = c
  BY <1>2, LeaseGained
<1>4. ~Restart
  <2> SUFFICES ASSUME Restart PROVE FALSE
    OBVIOUS
  <2>1. pendingNew' = << >>
    BY DEF Restart
  <2> QED BY <2>1, EmptyQueue
<1>5. PICK r \in Callers : probeSucceeded(r) /\ reqs[r].client = c
  BY <1>3, <1>4
<1>6. pendingNew' = removeIP(pendingNew, c)
  BY <1>5 DEF probeSucceeded, activateCheckedProxy, removeQueued
<1> QED BY <1>6, RemovedQueue DEF TInv, TypeOK

WInv == TInv /\ GateHeld /\ NewUnleased

LEMMA GateInvariant == Spec => []WInv
<1>1. Init => TInv /\ GateHeld /\ NewUnleased
  <2> SUFFICES ASSUME Init PROVE GateHeld /\ NewUnleased
    BY InitTypes
  <2>1. \A r \in Callers : reqs[r].pc = "idle"
    BY DEF Init, IdleRequest
  <2> QED BY <2>1 DEF GateHeld, NewUnleased, Past
<1>2. WInv /\ [Next]_vars => WInv'
  BY TypeStep, GateStep, NewUnleasedStep DEF WInv
<1> QED BY <1>1, <1>2, PTL DEF Spec, WInv

\* Nobody waits for a first lease while holding an unexpired one, although the
\* lease, the queue and the call's idea of both change in different sections.
THEOREM WaitingUnleased == Spec => []WaitingHasNoLease
<1>1. Init => WaitingHasNoLease
  BY DEF Init, WaitingHasNoLease, InQueue, Contains
<1>2. WInv /\ WaitingHasNoLease /\ [Next]_vars => WaitingHasNoLease'
  BY WaitingStep DEF WInv
<1> QED BY <1>1, <1>2, GateInvariant, PTL DEF Spec

----------------------------------------------------------------------------
(* The pool behind a front, health results included: with one assignment   *)
(* at a time no active proxy is left behind.                               *)

\* In the pool ps and the leases ls: the client of an active proxy has a lease
\* on it, and whoever has an unexpired one is its client.
FrontPool(ps, ls) ==
    /\ \A p \in Proxies : ps[p].status = "active" =>
          ps[p].client \in Clients /\ ls[ps[p].client].proxy = p
    /\ \A p \in Proxies, c \in Clients :
          ps[p].status = "active" /\ ls[c].proxy = p /\ ~ls[c].expired => ps[p].client = c

\* An active proxy of qs was active in ps, for the same client.
NoneActivated(ps, qs) ==
    \A p \in Proxies : qs[p].status = "active" =>
        ps[p].status = "active" /\ qs[p].client = ps[p].client

LEMMA FrontKept ==
    ASSUME NEW ps, NEW qs, NEW ls, NEW ms, FrontPool(ps, ls), NoneActivated(ps, qs),
           \A c \in Clients : /\ ms[c].proxy = ls[c].proxy
                              /\ ls[c].expired => ms[c].expired
    PROVE  FrontPool(qs, ms)
BY DEF FrontPool, NoneActivated

LEMMA EndedNotActive ==
    ASSUME NEW x \in Proxy, NEW y, Ended(x, y), y.status = "active"
    PROVE  y = x
<1>1. CASE y = markProxyIdle(x)
  BY <1>1 DEF markProxyIdle, Proxy
<1>2. CASE y = unreserveDisabled(x)
  BY <1>2 DEF unreserveDisabled, Proxy
<1>3. CASE y = markProbeFailed(x)
  BY <1>3 DEF markProbeFailed, Proxy
<1> QED BY <1>1, <1>2, <1>3 DEF Ended

LEMMA EndActivatesNone ==
    ASSUME NEW ps \in [Proxies -> Proxy], NEW qs, ProbesEnd(ps, qs)
    PROVE  NoneActivated(ps, qs)
BY EndedNotActive DEF ProbesEnd, NoneActivated

LEMMA ReleaseNotActive ==
    ASSUME NEW x \in Proxy, NEW c
    PROVE  releaseProxyBinding(x, c).status # "active" /\ vacate(x, c).status # "active"
<1>1. releaseProxyBinding(x, c).status # "active"
  BY DEF releaseProxyBinding, Proxy
<1>2. vacate(x, c).status # "active"
  BY DEF vacate, markProxyIdle, Proxy
<1> QED BY <1>1, <1>2

LEMMA FrontReleased ==
    ASSUME TInv, FrontPool(proxies, leases), NEW c \in Clients
    PROVE  FrontPool(releasedProxies(c), releasedLeases(c))
<1> DEFINE ps == releasedProxies(c)
           ls == releasedLeases(c)
<1>1. proxies \in [Proxies -> Proxy] /\ leases \in [Clients -> Lease]
  BY DEF TInv, TypeOK
<1>2. ls[c].proxy = NoProxy /\ \A d \in Clients : d # c => ls[d] = leases[d]
  BY <1>1 DEF releasedLeases, NoLease
<1>3. ASSUME NEW p \in Proxies, ps[p].status = "active"
      PROVE  ps[p] = proxies[p] /\ (p = leases[c].proxy => HasActiveLease(ls, p))
  <2>1. CASE ~HasLease(c)
    <3>1. ps = proxies
      BY <2>1 DEF releasedProxies
    <3> QED BY <2>1, <3>1, SlotsAssumption DEF HasLease
  <2>2. CASE HasLease(c)
    BY <1>1, <1>3, <2>2, ReleaseNotActive DEF releasedProxies, Present
  <2> QED BY <2>1, <2>2
<1> HIDE DEF ps, ls
<1>4. ASSUME NEW p \in Proxies, ps[p].status = "active"
      PROVE  ps[p].client \in Clients /\ ls[ps[p].client].proxy = p
  <2>1. proxies[p].client \in Clients /\ leases[proxies[p].client].proxy = p /\ ps[p] = proxies[p]
    BY <1>3, <1>4 DEF FrontPool
  <2>2. proxies[p].client # c
    <3> SUFFICES ASSUME proxies[p].client = c PROVE FALSE
      OBVIOUS
    <3>1. PICK d \in Clients : ls[d].proxy = p /\ ~ls[d].expired
      BY <1>3, <1>4, <2>1 DEF HasActiveLease
    <3>2. d # c
      BY <1>2, <3>1, SlotsAssumption
    <3> QED BY <1>2, <1>4, <2>1, <3>1, <3>2 DEF FrontPool
  <2> QED BY <1>2, <2>1, <2>2
<1>5. ASSUME NEW p \in Proxies, NEW d \in Clients,
             ps[p].status = "active", ls[d].proxy = p, ~ls[d].expired
      PROVE  ps[p].client = d
  <2>1. d # c
    BY <1>2, <1>5, SlotsAssumption
  <2> QED BY <1>2, <1>3, <1>5, <2>1 DEF FrontPool
<1>6. FrontPool(ps, ls)
  BY <1>4, <1>5 DEF FrontPool
<1> QED BY <1>6 DEF ps, ls


\* The client had no other lease, or its old proxy is left by the refresh.
LEMMA FrontSucceeded ==
    ASSUME FrontEnabled, WInv, ReservedUnleased, FrontPool(proxies, leases),
           NEW r \in Callers, probeSucceeded(r)
    PROVE  FrontPool(proxies', leases')
<1> DEFINE c == reqs[r].client
           p == reqs[r].proxy
           old == leases[c].proxy
<1>1. /\ TInv /\ c \in Clients /\ p \in Proxies /\ reqs[r].pc = "probe"
      /\ proxies \in [Proxies -> Proxy] /\ leases \in [Clients -> Lease]
      /\ proxies[p].status = "checking"
  BY ProbedReserved DEF WInv, probeSucceeded, Probed, TInv, TypeOK
<1>2. PICK ps \in [Proxies -> Proxy] : ProbesEnd(proxies, ps) /\ activateCheckedProxy(r, ps)
  BY <1>1, SucceededFrom
<1>3. FrontPool(ps, leases)
  BY <1>1, <1>2, EndActivatesNone, FrontKept
<1>4. /\ proxies'[p].status = "active" /\ proxies'[p].client = c
      /\ \A q \in Proxies : q # p =>
            IF reqs[r].refresh /\ HasLease(c) /\ Present(q) /\ q = old
            THEN proxies'[q] = vacate(ps[q], c)
            ELSE proxies'[q] = ps[q]
  BY <1>1, <1>2, ActivatedPool
<1>5. \A d \in Clients : leases'[d] = IF d = c THEN [proxy |-> p, expired |-> FALSE] ELSE leases[d]
  BY <1>1, SucceededPool
<1>6. ~reqs[r].refresh => ~HasLease(c)
  BY <1>1 DEF WInv, NewUnleased
<1>7. ~HasActiveLease(leases, p)
  BY <1>1 DEF ReservedUnleased
<1> HIDE DEF c, p, old
<1>8. ASSUME NEW q \in Proxies, q # p, proxies'[q].status = "active"
      PROVE  /\ proxies'[q] = ps[q]
             /\ ps[q].client # c /\ ps[q].client \in Clients /\ leases[ps[q].client].proxy = q
  <2>1. proxies'[q] = ps[q]
    BY <1>1, <1>2, <1>4, <1>8, ReleaseNotActive
  <2>2. ps[q].client \in Clients /\ leases[ps[q].client].proxy = q
    BY <1>3, <1>8, <2>1 DEF FrontPool
  <2>3. ps[q].client # c
    <3> SUFFICES ASSUME ps[q].client = c PROVE FALSE
      OBVIOUS
    <3>1. old = q /\ HasLease(c) /\ reqs[r].refresh
      BY <1>6, <2>2, SlotsAssumption DEF old, HasLease
    <3>2. Present(q)
      <4>1. Ended(proxies[q], ps[q])
        BY <1>2 DEF ProbesEnd
      <4>2. ps[q] = proxies[q]
        BY <1>1, <1>8, <2>1, <4>1, EndedNotActive
      <4> QED BY <1>8, <2>1, <4>2 DEF Present
    <3>3. proxies'[q] = vacate(ps[q], c)
      BY <1>4, <1>8, <3>1, <3>2
    <3> QED BY <1>2, <1>8, <3>3, ReleaseNotActive
  <2> QED BY <2>1, <2>2, <2>3
<1>9. ASSUME NEW q \in Proxies, proxies'[q].status = "active"
      PROVE  proxies'[q].client \in Clients /\ leases'[proxies'[q].client].proxy = q
  <2>1. CASE q = p
    BY <1>1, <1>4, <1>5, <2>1
  <2>2. CASE q # p
    BY <1>5, <1>8, <1>9, <2>2
  <2> QED BY <2>1, <2>2
<1>10. ASSUME NEW q \in Proxies, NEW d \in Clients, proxies'[q].status = "active",
              leases'[d].proxy = q, ~leases'[d].expired
       PROVE  proxies'[q].client = d
  <2>1. CASE q = p
    <3>1. d = c
      BY <1>5, <1>7, <1>10, <2>1 DEF HasActiveLease
    <3> QED BY <1>4, <2>1, <3>1
  <2>2. CASE q # p
    <3>1. d # c
      BY <1>5, <1>10, <2>2
    <3> QED BY <1>3, <1>5, <1>8, <1>10, <2>2, <3>1 DEF FrontPool
  <2> QED BY <2>1, <2>2
<1> QED BY <1>9, <1>10 DEF FrontPool

LEMMA FrontHealth ==
    ASSUME TInv, ExclusiveLease, FrontPool(proxies, leases), NEW p \in Proxies, recordHealth(p)
    PROVE  FrontPool(proxies', leases')
<1>1. proxies \in [Proxies -> Proxy] /\ UNCHANGED leases
  BY DEF TInv, TypeOK, recordHealth
<1>2. CASE UNCHANGED proxies
  BY <1>1, <1>2 DEF FrontPool
<1>3. CASE proxies' = [proxies EXCEPT ![p].status = "unhealthy"]
  <2>1. NoneActivated(proxies, proxies')
    BY <1>1, <1>3 DEF NoneActivated, Proxy
  <2> QED BY <1>1, <2>1, FrontKept
<1>4. ASSUME NEW c \in Clients \cup {NoClient},
             IF HasActiveLease(leases, p) THEN c # NoClient /\ leases[c].proxy = p /\ Live(c)
                                          ELSE c = NoClient,
             proxies' = [proxies EXCEPT ![p] = recoveredProxy(p, c)]
      PROVE  FrontPool(proxies', leases')
  <2>1. proxies'[p] = recoveredProxy(p, c) /\ \A q \in Proxies : q # p => proxies'[q] = proxies[q]
    BY <1>1, <1>4
  <2>2. CASE c = NoClient
    <3>1. recoveredProxy(p, c).status # "active"
      BY <1>1, <2>2 DEF recoveredProxy, Proxy
    <3>2. NoneActivated(proxies, proxies')
      BY <2>1, <3>1 DEF NoneActivated
    <3> QED BY <1>1, <3>2, FrontKept
  <2>3. CASE c # NoClient
    <3>1. c \in Clients /\ leases[c].proxy = p /\ Live(c)
      BY <1>4, <2>3
    <3>2. proxies'[p].client = c
      BY <1>1, <2>1, <2>3 DEF recoveredProxy, Proxy
    <3>3. \A d \in Clients : leases[d].proxy = p /\ ~leases[d].expired => d = c
      BY <3>1, SlotsAssumption DEF ExclusiveLease, Live, HasLease
    <3> QED BY <1>1, <2>1, <3>1, <3>2, <3>3 DEF FrontPool
  <2> QED BY <2>2, <2>3
<1> QED BY <1>2, <1>3, <1>4 DEF recordHealth

LEMMA AdministeredNotActivated ==
    ASSUME TInv, NEW p \in Proxies, Administered(p)
    PROVE  NoneActivated(proxies, proxies')
<1>1. proxies \in [Proxies -> Proxy]
  BY DEF TInv, TypeOK
<1>2. CASE DeleteProxy(p)
  BY <1>1, <1>2 DEF DeleteProxy, Absent, NoneActivated
<1>3. ASSUME NEW d \in BOOLEAN, AddProxy(p, d)
      PROVE  NoneActivated(proxies, proxies')
  BY <1>1, <1>3 DEF AddProxy, NewProxy, Absent, NoneActivated
<1>4. ASSUME NEW d \in BOOLEAN, UpdateProxy(p, d) \/ SetProxyDisabled(p, d)
      PROVE  NoneActivated(proxies, proxies')
  <2>1. PICK status : /\ proxies' = [proxies EXCEPT ![p].disabled = d, ![p].status = status]
                      /\ status = "active" => proxies[p].status = "active"
    BY <1>4 DEF UpdateProxy, SetProxyDisabled, ChangeProxy, updatedStatus, disabledStatus
  <2>2. /\ \A q \in Proxies : q # p => proxies'[q] = proxies[q]
        /\ proxies'[p].status = status /\ proxies'[p].client = proxies[p].client
    BY <1>1, <2>1 DEF Proxy
  <2> QED BY <2>1, <2>2 DEF NoneActivated
<1> QED BY <1>2, <1>3, <1>4 DEF Administered

LEMMA ConnectionNotActivates ==
    ASSUME TInv, NEW k \in Conns, UnregisterConn(k) \/ \E c \in Clients : AcquireProxyConn(k, c)
    PROVE  NoneActivated(proxies, proxies')
<1>1. proxies \in [Proxies -> Proxy]
  BY DEF TInv, TypeOK
<1>2. CASE UnregisterConn(k)
  <2> DEFINE p == conns[k].proxy
  <2>1. CASE UNCHANGED proxies
    BY <2>1 DEF NoneActivated
  <2>2. CASE proxies' = [proxies EXCEPT ![p].conns = @ - 1]
    BY <1>1, <2>2 DEF NoneActivated, Proxy
  <2>3. CASE proxies' = [proxies EXCEPT ![p] = drainedProxy(@)]
    BY <1>1, <2>3 DEF NoneActivated, drainedProxy, Proxy
  <2> QED BY <1>2, <2>1, <2>2, <2>3 DEF UnregisterConn
<1>3. ASSUME NEW c \in Clients, AcquireProxyConn(k, c)
      PROVE  NoneActivated(proxies, proxies')
  <2> DEFINE p == leases[c].proxy
             x == [proxies[p] EXCEPT !.conns = @ + 1]
  <2>1. proxies' = [proxies EXCEPT ![p] = x] /\ proxies[p].status = "active"
    BY <1>3 DEF AcquireProxyConn
  <2>2. CASE p \in Proxies
    <3>1. x.status = proxies[p].status /\ x.client = proxies[p].client
      BY <1>1, <2>2 DEF Proxy
    <3> HIDE DEF x, p
    <3> QED BY <1>1, <2>1, <2>2, <3>1 DEF NoneActivated
  <2>3. CASE p \notin Proxies
    BY <1>1, <2>1, <2>3 DEF NoneActivated
  <2> QED BY <2>2, <2>3
<1> QED BY <1>2, <1>3

LEMMA ReservedNotActive ==
    ASSUME NEW ps \in [Proxies -> Proxy], NEW p \in Proxies, NEW c
    PROVE  NoneActivated(ps, ReservedPool(ps, p, c))
BY DEF NoneActivated, ReservedPool, Proxy

LEMMA FrontRestart ==
    ASSUME TInv, Restart, ExclusiveLease'
    PROVE  FrontPool(proxies', leases')
<1>1. PICK survivors : leases' = LoadedLeases(dbLeases, survivors)
  BY DEF Restart
<1>2. \A c \in Clients : ~leases'[c].expired
  BY <1>1 DEF LoadedLeases, NoLease
<1>3. \A c, d \in Clients : leases'[c].proxy # NoProxy /\ leases'[c].proxy = leases'[d].proxy => c = d
  BY <1>2 DEF ExclusiveLease, Live, HasLease
<1>4. PICK owner \in [Proxies -> Clients \cup {NoClient}] :
         /\ \A p \in Proxies :
               IF \E c \in Clients : leases'[c].proxy = p
               THEN owner[p] # NoClient /\ leases'[owner[p]].proxy = p
               ELSE owner[p] = NoClient
         /\ proxies' = [p \in Proxies |->
               IF dbProxies'[p] = "absent" THEN Absent
               ELSE IF owner[p] = NoClient THEN NewProxy(dbProxies'[p] = "disabled")
               ELSE [NewProxy(dbProxies'[p] = "disabled")
                        EXCEPT !.status = "active", !.client = owner[p]]]
  BY DEF Restart
<1>5. ASSUME NEW p \in Proxies, proxies'[p].status = "active"
      PROVE  proxies'[p].client = owner[p] /\ owner[p] \in Clients /\ leases'[owner[p]].proxy = p
  <2>1. owner[p] # NoClient
    BY <1>4, <1>5 DEF NewProxy, Absent
  <2> QED BY <1>4, <1>5, <2>1 DEF NewProxy, Absent
<1> QED BY <1>3, <1>5, SlotsAssumption DEF FrontPool

LEMMA FrontStep ==
    ASSUME FrontEnabled, "dbfail" \notin Events \/ "restart" \notin Events,
           IInv, WInv, FrontPool(proxies, leases), [Next]_vars
    PROVE  FrontPool(proxies', leases')
<1>0. /\ TInv /\ ExclusiveLease /\ ReservedUnleased
      /\ proxies \in [Proxies -> Proxy] /\ leases \in [Clients -> Lease]
  BY DEF IInv, TInv, TypeOK
<1>1. CASE UNCHANGED << leases, conns >> /\ ProbesEnd(proxies, proxies')
  BY <1>0, <1>1, EndActivatesNone, FrontKept
<1>2. ASSUME NEW c \in Clients, ReleaseEffect(c)
      PROVE  FrontPool(proxies', leases')
  BY <1>0, <1>2, FrontReleased DEF ReleaseEffect
<1>3. ASSUME NEW c \in Clients, ReserveEffect(c)
      PROVE  FrontPool(proxies', leases')
  <2>1. /\ FrontPool(ReservePool(c), leases')
        /\ ReservePool(c) \in [Proxies -> Proxy]
    BY <1>0, <1>3, FrontReleased, ReserveStart DEF ReserveEffect, ReserveLeases, ReservePool
  <2>2. CASE proxies' = ReservePool(c)
    BY <2>1, <2>2
  <2>3. ASSUME NEW p \in Takeable(ReservePool(c), ReserveLeases(c)),
               proxies' = ReservedPool(ReservePool(c), p, c)
        PROVE  FrontPool(proxies', leases')
    <3>1. NoneActivated(ReservePool(c), proxies')
      BY <2>1, <2>3, ReservedNotActive DEF Takeable
    <3> QED BY <2>1, <3>1, FrontKept
  <2> QED BY <1>3, <2>2, <2>3 DEF ReserveEffect
<1>4. ASSUME NEW c \in Clients, leaseExpires(c)
      PROVE  FrontPool(proxies', leases')
  <2>1. /\ UNCHANGED proxies
        /\ leases' = [leases EXCEPT ![c] = [leases[c] EXCEPT !.expired = TRUE]]
    BY <1>0, <1>4 DEF leaseExpires
  <2>2. \A d \in Clients : leases'[d].proxy = leases[d].proxy /\ (leases[d].expired => leases'[d].expired)
    BY <1>0, <2>1 DEF Lease
  <2> QED BY <2>1, <2>2, FrontKept DEF NoneActivated
<1>5. ASSUME NEW r \in Callers, probeSucceeded(r)
      PROVE  FrontPool(proxies', leases')
  BY <1>0, <1>5, FrontSucceeded
<1>6. ASSUME NEW k \in Conns, UnregisterConn(k) \/ \E c \in Clients : AcquireProxyConn(k, c)
      PROVE  FrontPool(proxies', leases')
  <2>1. UNCHANGED leases
    BY <1>6 DEF UnregisterConn, AcquireProxyConn
  <2> QED BY <1>0, <1>6, <2>1, ConnectionNotActivates, FrontKept
<1>7. ASSUME NEW p \in Proxies, recordHealth(p)
      PROVE  FrontPool(proxies', leases')
  BY <1>0, <1>7, FrontHealth
<1>8. ASSUME NEW p \in Proxies, Administered(p)
      PROVE  FrontPool(proxies', leases')
  <2>1. UNCHANGED leases
    BY <1>8 DEF Administered, AddProxy, UpdateProxy, SetProxyDisabled, ChangeProxy, DeleteProxy
  <2> QED BY <1>0, <1>8, <2>1, AdministeredNotActivated, FrontKept
<1>9. CASE Restart
  <2>1. ExclusiveLease'
    BY <1>0, SafeStep DEF LeasesSafe, IInv
  <2> QED BY <1>0, <1>9, <2>1, FrontRestart
<1> QED BY <1>0, <1>1, <1>2, <1>3, <1>4, <1>5, <1>6, <1>7, <1>8, <1>9, PoolSteps, Zenon DEF PoolStep

LEMMA FrontInvariant ==
    ASSUME FrontEnabled, "dbfail" \notin Events \/ "restart" \notin Events
    PROVE  Spec => [](IInv /\ WInv /\ FrontPool(proxies, leases))
<1>1. Init => FrontPool(proxies, leases)
  BY SlotsAssumption DEF Init, FrontPool, NewProxy, Absent, NoLease
<1>2. IInv /\ WInv /\ FrontPool(proxies, leases) /\ [Next]_vars => FrontPool(proxies, leases)'
  BY FrontStep
<1>3. Spec => []IInv
  BY LeasesInvariant
<1> QED BY <1>1, <1>2, <1>3, GateInvariant, PTL DEF Spec

\* With a front, an active proxy is always the one its client's lease names:
\* none is left behind, active for ever, whatever health results, expiries and
\* restarts do.  Without a front two assignments of one client do that.
THEOREM NoneOrphaned ==
    ASSUME FrontEnabled, "dbfail" \notin Events \/ "restart" \notin Events
    PROVE  Spec => []NoOrphan
<1>1. Spec => [](IInv /\ WInv /\ FrontPool(proxies, leases))
  BY FrontInvariant
<1>2. FrontPool(proxies, leases) => NoOrphan
  BY DEF FrontPool, NoOrphan
<1> QED BY <1>1, <1>2, PTL

----------------------------------------------------------------------------
(* Usable leases behind a front, health results included.                  *)

\* The proxy of an unexpired lease is active, or health checks took it out; it
\* drains for nobody.
LeasedUsable(ps, ls) ==
    \A c \in Clients : ls[c].proxy # NoProxy /\ ~ls[c].expired =>
        /\ ps[ls[c].proxy].status \in {"active", "unhealthy"}
        /\ ps[ls[c].proxy].drainingFor = NoClient

\* Nobody else has the lease a refresh in progress is about to leave.
RefreshAlone ==
    FrontEnabled => \A r \in Callers, d \in Clients :
        reqs[r].pc = "probe" /\ Live(d) /\ d # reqs[r].client
            => leases[d].proxy # leases[reqs[r].client].proxy

LEMMA RefreshAloneStep ==
    ASSUME TInv, GateHeld, RefreshAlone, ExclusiveLease', [Next]_vars
    PROVE  RefreshAlone'
<1> SUFFICES ASSUME FrontEnabled, NEW s \in Callers, NEW d \in Clients,
                    reqs'[s].pc = "probe", leases'[d].proxy # NoProxy, ~leases'[d].expired,
                    d # reqs'[s].client, leases'[d].proxy = leases'[reqs'[s].client].proxy
             PROVE  FALSE
  BY DEF RefreshAlone, Live, HasLease
<1>0. reqs[s] \in Request /\ reqs \in [Callers -> Request] /\ leases \in [Clients -> Lease]
  BY CallTyped DEF TInv, TypeOK
<1>1. ~Restart
  <2> SUFFICES ASSUME Restart PROVE FALSE
    OBVIOUS
  <2>1. reqs'[s].pc = "idle"
    BY DEF Restart, IdleRequest
  <2> QED BY <2>1
<1>2. CASE reqs'[s] = reqs[s]
  <2>1. ASSUME NEW r \in Callers, probeSucceeded(r)
        PROVE  FALSE
    <3>1. reqs[r].pc = "probe" /\ reqs'[r].pc # "probe"
      BY <2>1, CallTyped DEF probeSucceeded, Probed, Return, IdleRequest
    <3>2. gate = r /\ gate = s
      BY <1>2, <3>1 DEF GateHeld, Past
    <3> QED BY <3>1, <3>2
  <2>2. reqs[s].client \in Clients
    BY <1>2, ProbeTyped
  <2>3. leases'[reqs[s].client].proxy = leases[reqs[s].client].proxy
    BY <1>1, <1>2, <2>1, <2>2, LeaseGained
  <2>4. leases'[d].proxy = leases[d].proxy /\ ~leases[d].expired
    BY <1>1, <2>1, LeaseGained
  <2> QED BY <1>2, <2>3, <2>4 DEF RefreshAlone, Live, HasLease
<1>3. CASE reqs'[s] # reqs[s]
  <2>1. CallStep(s)
    BY <1>1, <1>3, CallSteps DEF CallStep
  <2>2. reserveProxyForLease(s)
    BY <2>1 DEF CallStep
  <2> DEFINE c == reqs[s].client
  <2>3. c \in Clients /\ reqs'[s].client = c
    BY <2>2, ReserveBranches, CallClient, ReservedNew DEF Running
  <2>4. leases' = ReserveLeases(c)
    BY <2>2, ReserveBranches
  <2>5. leases'[c].proxy = NoProxy \/ ~leases'[c].expired
    BY <1>0, <2>3, <2>4 DEF ReserveLeases, StaleLease, HasLease, releasedLeases, NoLease
  <2> QED BY <2>3, <2>5 DEF ExclusiveLease, Live, HasLease
<1> QED BY <1>2, <1>3

\* A usable proxy stays so.
KeepsUsable(ps, qs, p) ==
    ps[p].status \in {"active", "unhealthy"} /\ ps[p].drainingFor = NoClient =>
        qs[p].status \in {"active", "unhealthy"} /\ qs[p].drainingFor = NoClient

LEMMA UsableKept ==
    ASSUME NEW ps, NEW qs, NEW ls \in [Clients -> Lease], NEW ms, LeasedUsable(ps, ls),
           FewerLeases(ls, ms),
           \A p \in Proxies : HasActiveLease(ms, p) => KeepsUsable(ps, qs, p)
    PROVE  LeasedUsable(qs, ms)
<1> SUFFICES ASSUME NEW c \in Clients, ms[c].proxy # NoProxy, ~ms[c].expired
             PROVE  /\ qs[ms[c].proxy].status \in {"active", "unhealthy"}
                    /\ qs[ms[c].proxy].drainingFor = NoClient
  BY DEF LeasedUsable
<1>1. ms[c].proxy = ls[c].proxy /\ ~ls[c].expired /\ ls[c].proxy \in Proxies
  BY DEF FewerLeases, Lease
<1>2. HasActiveLease(ms, ms[c].proxy)
  BY DEF HasActiveLease
<1> QED BY <1>1, <1>2 DEF LeasedUsable, KeepsUsable

LEMMA UsableReleased ==
    ASSUME TInv, LeasedUsable(proxies, leases), NEW c \in Clients
    PROVE  LeasedUsable(releasedProxies(c), releasedLeases(c)) /\ FewerLeases(leases, releasedLeases(c))
<1> DEFINE ps == releasedProxies(c)
           ls == releasedLeases(c)
<1>1. proxies \in [Proxies -> Proxy] /\ leases \in [Clients -> Lease]
  BY DEF TInv, TypeOK
<1>2. FewerLeases(leases, ls)
  BY <1>1 DEF FewerLeases, releasedLeases, NoLease
<1>3. \A p \in Proxies : HasActiveLease(ls, p) /\ proxies[p].drainingFor = NoClient => ps[p] = proxies[p]
  BY SlotsAssumption DEF releasedProxies
<1> HIDE DEF ps, ls
<1>5. \A p \in Proxies : HasActiveLease(ls, p) => KeepsUsable(proxies, ps, p)
  BY <1>3 DEF KeepsUsable
<1>4. LeasedUsable(ps, ls)
  BY <1>1, <1>2, <1>5, UsableKept
<1> QED BY <1>2, <1>4 DEF ps, ls

LEMMA UsableSucceeded ==
    ASSUME TInv, ReservedUnleased, LeasedUsable(proxies, leases),
           NEW r \in Callers, probeSucceeded(r),
           (FrontEnabled /\ RefreshAlone) \/ ~reqs[r].refresh
    PROVE  LeasedUsable(proxies', leases')
<1> DEFINE c == reqs[r].client
           p == reqs[r].proxy
           old == leases[c].proxy
<1>1. /\ c \in Clients /\ p \in Proxies /\ reqs[r].pc = "probe"
      /\ proxies \in [Proxies -> Proxy] /\ leases \in [Clients -> Lease]
      /\ proxies[p].status = "checking"
  BY ProbedReserved DEF probeSucceeded, Probed, TInv, TypeOK
<1>2. PICK ps \in [Proxies -> Proxy] : ProbesEnd(proxies, ps) /\ activateCheckedProxy(r, ps)
  BY SucceededFrom
<1>3. /\ proxies'[p].status = "active" /\ proxies'[p].drainingFor = NoClient
      /\ \A q \in Proxies : q # p /\ (q # old \/ ~reqs[r].refresh) => proxies'[q] = ps[q]
  BY <1>1, <1>2, ActivatedPool
<1>4. \A d \in Clients : leases'[d] = IF d = c THEN [proxy |-> p, expired |-> FALSE] ELSE leases[d]
  BY <1>1, SucceededPool
<1>5. \A d \in Clients : d # c /\ Live(d) =>
         leases[d].proxy # p /\ (leases[d].proxy # old \/ ~reqs[r].refresh)
  BY <1>1 DEF RefreshAlone, ReservedUnleased, HasActiveLease, Live
<1>6. \A q \in Proxies : proxies[q].status # "checking" => ps[q] = proxies[q]
  BY <1>2 DEF ProbesEnd, Ended
<1> HIDE DEF c, p, old
<1> SUFFICES ASSUME NEW d \in Clients, leases'[d].proxy # NoProxy, ~leases'[d].expired
             PROVE  /\ proxies'[leases'[d].proxy].status \in {"active", "unhealthy"}
                    /\ proxies'[leases'[d].proxy].drainingFor = NoClient
  BY DEF LeasedUsable
<1>7. CASE d = c
  BY <1>1, <1>3, <1>4, <1>7
<1>8. CASE d # c
  <2> DEFINE q == leases[d].proxy
  <2>1. Live(d) /\ leases'[d] = leases[d] /\ q \in Proxies
    BY <1>1, <1>4, <1>8 DEF Live, HasLease, Lease
  <2>2. proxies[q].status \in {"active", "unhealthy"} /\ proxies[q].drainingFor = NoClient
    BY <2>1 DEF LeasedUsable, Live, HasLease
  <2>3. proxies'[q] = proxies[q]
    BY <1>3, <1>5, <1>6, <1>8, <2>1, <2>2
  <2> QED BY <2>1, <2>2, <2>3
<1> QED BY <1>7, <1>8

LEMMA UsableHealth ==
    ASSUME TInv, LeasedUsable(proxies, leases), NEW p \in Proxies, recordHealth(p)
    PROVE  LeasedUsable(proxies', leases')
<1>1. proxies \in [Proxies -> Proxy] /\ leases \in [Clients -> Lease] /\ UNCHANGED leases
  BY DEF TInv, TypeOK, recordHealth
<1>2. FewerLeases(leases, leases')
  BY <1>1 DEF FewerLeases
<1>3. CASE UNCHANGED proxies
  BY <1>1, <1>3 DEF LeasedUsable
<1>4. CASE proxies' = [proxies EXCEPT ![p].status = "unhealthy"]
  <2>1. \A q \in Proxies : /\ proxies'[q].drainingFor = proxies[q].drainingFor
                           /\ proxies'[q].status \in {"unhealthy", proxies[q].status}
    BY <1>1, <1>4 DEF Proxy
  <2>2. \A q \in Proxies : KeepsUsable(proxies, proxies', q)
    BY <2>1 DEF KeepsUsable
  <2> QED BY <1>1, <1>2, <2>2, UsableKept
<1>5. ASSUME NEW c \in Clients \cup {NoClient},
             IF HasActiveLease(leases, p) THEN c # NoClient /\ leases[c].proxy = p /\ Live(c)
                                          ELSE c = NoClient,
             proxies' = [proxies EXCEPT ![p] = recoveredProxy(p, c)]
      PROVE  LeasedUsable(proxies', leases')
  <2>1. proxies'[p] = recoveredProxy(p, c) /\ \A q \in Proxies : q # p => proxies'[q] = proxies[q]
    BY <1>1, <1>5
  <2>2. CASE HasActiveLease(leases, p)
    <3>1. proxies'[p].status = "active" /\ proxies'[p].drainingFor = NoClient
      BY <1>1, <1>5, <2>1, <2>2 DEF recoveredProxy, Proxy
    <3>2. \A q \in Proxies : KeepsUsable(proxies, proxies', q)
      BY <2>1, <3>1 DEF KeepsUsable
    <3> QED BY <1>1, <1>2, <3>2, UsableKept
  <2>3. CASE ~HasActiveLease(leases, p)
    <3>1. \A q \in Proxies : HasActiveLease(leases', q) => KeepsUsable(proxies, proxies', q)
      BY <1>1, <2>1, <2>3 DEF KeepsUsable
    <3> QED BY <1>1, <1>2, <3>1, UsableKept
  <2> QED BY <2>2, <2>3
<1> QED BY <1>3, <1>4, <1>5 DEF recordHealth

LEMMA UsableConnection ==
    ASSUME TInv, LeasedUsable(proxies, leases), NEW k \in Conns,
           UnregisterConn(k) \/ \E c \in Clients : AcquireProxyConn(k, c)
    PROVE  LeasedUsable(proxies', leases')
<1>1. proxies \in [Proxies -> Proxy] /\ leases \in [Clients -> Lease] /\ UNCHANGED leases
  BY DEF TInv, TypeOK, UnregisterConn, AcquireProxyConn
<1>2. FewerLeases(leases, leases')
  BY <1>1 DEF FewerLeases
<1>3. \A p \in Proxies : proxies[p].status \in {"active", "unhealthy"} =>
         /\ proxies'[p].status = proxies[p].status
         /\ proxies'[p].drainingFor = proxies[p].drainingFor
  <2>1. CASE UnregisterConn(k)
    <3> DEFINE q == conns[k].proxy
    <3>1. CASE UNCHANGED proxies
      BY <3>1
    <3>2. CASE proxies' = [proxies EXCEPT ![q].conns = @ - 1]
      BY <1>1, <3>2 DEF Proxy
    <3>3. CASE proxies[q].status = "draining" /\ proxies' = [proxies EXCEPT ![q] = drainedProxy(@)]
      BY <1>1, <3>3
    <3> QED BY <2>1, <3>1, <3>2, <3>3 DEF UnregisterConn
  <2>2. ASSUME NEW c \in Clients, AcquireProxyConn(k, c)
        PROVE  \A p \in Proxies : /\ proxies'[p].status = proxies[p].status
                                  /\ proxies'[p].drainingFor = proxies[p].drainingFor
    <3> DEFINE q == leases[c].proxy
               x == [proxies[q] EXCEPT !.conns = @ + 1]
    <3>1. proxies' = [proxies EXCEPT ![q] = x]
      BY <2>2 DEF AcquireProxyConn
    <3>2. q \in Proxies => x.status = proxies[q].status /\ x.drainingFor = proxies[q].drainingFor
      BY <1>1 DEF Proxy
    <3> HIDE DEF q, x
    <3> QED BY <1>1, <3>1, <3>2
  <2> QED BY <2>1, <2>2
<1>4. \A p \in Proxies : KeepsUsable(proxies, proxies', p)
  BY <1>3 DEF KeepsUsable
<1> QED BY <1>1, <1>2, <1>4, UsableKept

LEMMA UsableRestart ==
    ASSUME TInv, Restart
    PROVE  LeasedUsable(proxies', leases')
<1> SUFFICES ASSUME NEW c \in Clients, leases'[c].proxy # NoProxy
             PROVE  /\ proxies'[leases'[c].proxy].status \in {"active", "unhealthy"}
                    /\ proxies'[leases'[c].proxy].drainingFor = NoClient
  BY DEF LeasedUsable
<1> DEFINE p == leases'[c].proxy
<1>1. PICK survivors \in SUBSET {d \in Clients :
            /\ dbLeases[d] # NoProxy
            /\ dbProxies'[dbLeases[d]] # "absent"
            /\ ~(leases[d].proxy = dbLeases[d] /\ leases[d].expired)} :
         leases' = LoadedLeases(dbLeases, survivors)
  BY DEF Restart
<1>2. PICK owner \in [Proxies -> Clients \cup {NoClient}] :
         /\ \A q \in Proxies :
               IF \E d \in Clients : leases'[d].proxy = q
               THEN owner[q] # NoClient /\ leases'[owner[q]].proxy = q
               ELSE owner[q] = NoClient
         /\ proxies' = [q \in Proxies |->
               IF dbProxies'[q] = "absent" THEN Absent
               ELSE IF owner[q] = NoClient THEN NewProxy(dbProxies'[q] = "disabled")
               ELSE [NewProxy(dbProxies'[q] = "disabled")
                        EXCEPT !.status = "active", !.client = owner[q]]]
  BY DEF Restart
<1>3. p \in Proxies
  BY RestartLeases DEF Lease
<1>4. c \in survivors /\ p = dbLeases[c]
  BY <1>1 DEF LoadedLeases, NoLease
<1>5. dbProxies'[p] # "absent"
  BY <1>1, <1>4
<1>6. owner[p] # NoClient
  <2>1. \E d \in Clients : leases'[d].proxy = p
    OBVIOUS
  <2> HIDE DEF p
  <2> QED BY <1>2, <1>3, <2>1
<1> HIDE DEF p
<1>7. proxies'[p] = [NewProxy(dbProxies'[p] = "disabled")
                        EXCEPT !.status = "active", !.client = owner[p]]
  BY <1>2, <1>3, <1>5, <1>6
<1>8. proxies'[p].status = "active" /\ proxies'[p].drainingFor = NoClient
  BY <1>7 DEF NewProxy, Absent
<1> QED BY <1>8 DEF p

LEMMA UsableStep ==
    ASSUME "admin" \notin Events, IInv, LeasedUsable(proxies, leases), [Next]_vars,
           (FrontEnabled /\ RefreshAlone) \/ \A r \in Callers : ~reqs[r].refresh
    PROVE  LeasedUsable(proxies', leases')
<1>0. /\ TInv /\ ReservedUnleased
      /\ proxies \in [Proxies -> Proxy] /\ leases \in [Clients -> Lease]
  BY DEF IInv, TInv, TypeOK
<1>1. CASE UNCHANGED << leases, conns >> /\ ProbesEnd(proxies, proxies')
  <2>1. \A p \in Proxies : KeepsUsable(proxies, proxies', p)
    BY <1>1 DEF ProbesEnd, Ended, KeepsUsable
  <2>2. FewerLeases(leases, leases')
    BY <1>1 DEF FewerLeases
  <2> QED BY <1>0, <1>1, <2>1, <2>2, UsableKept
<1>2. ASSUME NEW c \in Clients, ReleaseEffect(c)
      PROVE  LeasedUsable(proxies', leases')
  BY <1>0, <1>2, UsableReleased DEF ReleaseEffect
<1>3. ASSUME NEW c \in Clients, ReserveEffect(c)
      PROVE  LeasedUsable(proxies', leases')
  <2> DEFINE ps == ReservePool(c)
             ls == ReserveLeases(c)
  <2>1. LeasedUsable(ps, ls)
    BY <1>0, <1>3, UsableReleased DEF ReserveLeases, ReservePool
  <2>2. ps \in [Proxies -> Proxy] /\ ls \in [Clients -> Lease] /\ leases' = ls
    BY <1>0, <1>3, ReserveStart DEF ReserveEffect
  <2>3. CASE proxies' = ps
    BY <2>1, <2>2, <2>3
  <2>4. ASSUME NEW p \in Takeable(ps, ls), proxies' = ReservedPool(ps, p, c)
        PROVE  LeasedUsable(proxies', leases')
    <3> HIDE DEF ps, ls
    <3>1. ps[p].status = "idle" /\ \A q \in Proxies : q # p => proxies'[q] = ps[q]
      BY <2>2, <2>4 DEF Takeable, ReservedPool
    <3>2. \A q \in Proxies : KeepsUsable(ps, proxies', q)
      BY <3>1 DEF KeepsUsable
    <3>3. FewerLeases(ls, leases')
      BY <2>2 DEF FewerLeases
    <3> QED BY <2>1, <2>2, <3>2, <3>3, UsableKept
  <2> QED BY <1>3, <2>3, <2>4 DEF ReserveEffect
<1>4. ASSUME NEW c \in Clients, leaseExpires(c)
      PROVE  LeasedUsable(proxies', leases')
  <2>1. /\ UNCHANGED proxies
        /\ leases' = [leases EXCEPT ![c] = [leases[c] EXCEPT !.expired = TRUE]]
    BY <1>0, <1>4 DEF leaseExpires
  <2>2. FewerLeases(leases, leases')
    BY <1>0, <2>1 DEF FewerLeases, Lease
  <2>3. \A p \in Proxies : KeepsUsable(proxies, proxies', p)
    BY <2>1 DEF KeepsUsable
  <2> QED BY <1>0, <2>2, <2>3, UsableKept
<1>5. ASSUME NEW r \in Callers, probeSucceeded(r)
      PROVE  LeasedUsable(proxies', leases')
  BY <1>0, <1>5, UsableSucceeded
<1>6. ASSUME NEW k \in Conns, UnregisterConn(k) \/ \E c \in Clients : AcquireProxyConn(k, c)
      PROVE  LeasedUsable(proxies', leases')
  BY <1>0, <1>6, UsableConnection
<1>7. ASSUME NEW p \in Proxies, recordHealth(p)
      PROVE  LeasedUsable(proxies', leases')
  BY <1>0, <1>7, UsableHealth
<1>8. ASSUME NEW p \in Proxies, Administered(p)
      PROVE  FALSE
  BY <1>8 DEF Administered, AddProxy, UpdateProxy, SetProxyDisabled, ChangeProxy, DeleteProxy
<1>9. CASE Restart
  BY <1>0, <1>9, UsableRestart
<1> QED BY <1>0, <1>1, <1>2, <1>3, <1>4, <1>5, <1>6, <1>7, <1>8, <1>9, PoolSteps, Zenon DEF PoolStep

\* Behind a front an unexpired lease stays usable although health results, the
\* refresh of the lease and its expiry overlap: the gate lets nobody else be
\* assigned the proxy a refresh is about to leave.  The administrator deletes no
\* proxy meanwhile: an unhealthy one may go while it is leased.
THEOREM LeasesUsableBehindFront ==
    ASSUME FrontEnabled, "admin" \notin Events, "dbfail" \notin Events \/ "restart" \notin Events
    PROVE  Spec => []LeaseUsable
<1> DEFINE Inv == IInv /\ WInv /\ FrontPool(proxies, leases)
           Usable == LeasedUsable(proxies, leases) /\ RefreshAlone
<1>1. Spec => []Inv
  BY FrontInvariant
<1>2. Init => Usable
  <2> SUFFICES ASSUME Init PROVE Usable
    OBVIOUS
  <2>1. \A r \in Callers : reqs[r].pc = "idle"
    BY DEF Init, IdleRequest
  <2>2. \A c \in Clients : leases[c].proxy = NoProxy
    BY DEF Init, NoLease
  <2> QED BY <2>1, <2>2 DEF LeasedUsable, RefreshAlone
<1>3. Inv /\ Inv' /\ Usable /\ [Next]_vars => Usable'
  <2> SUFFICES ASSUME Inv, Inv', Usable, [Next]_vars PROVE Usable'
    OBVIOUS
  <2>1. TInv /\ GateHeld /\ ExclusiveLease'
    BY DEF IInv, WInv
  <2>2. RefreshAlone'
    BY <2>1, RefreshAloneStep
  <2>3. LeasedUsable(proxies', leases')
    BY UsableStep
  <2> QED BY <2>2, <2>3 DEF LeasedUsable
<1>4. Inv /\ Usable => LeaseUsable
  <2> SUFFICES ASSUME Inv, Usable, NEW c \in Clients, Live(c)
               PROVE  LET p == proxies[leases[c].proxy]
                      IN p.status = "unhealthy" \/ (p.status = "active" /\ p.client = c)
    BY DEF LeaseUsable
  <2>1. leases[c].proxy \in Proxies
    BY DEF IInv, TInv, TypeOK, Live, HasLease, Lease
  <2> QED BY <2>1 DEF LeasedUsable, FrontPool, Live, HasLease
<1> HIDE DEF Inv, Usable
<1> QED BY <1>1, <1>2, <1>3, <1>4, PTL DEF Spec

----------------------------------------------------------------------------
(* Reservations have an owner.  The batch of a call is empty before its    *)
(* first reservation; the worker's call is idle unless the worker runs.    *)

Early == {"idle", "next", "finish", "gate", "backoff", "snapshot"}
EarlyEmpty == \A r \in Callers : reqs[r].pc \in Early => reqs[r].ambiguous = {}
WorkerRuns == queueActive <=> reqs[Worker].pc # "idle"

\* The call x holds the reservation of p for the client c.
HeldBy(x, p, c) ==
    /\ x.client = c
    /\ \/ x.pc = "probe" /\ x.proxy = p
       \/ p \in x.ambiguous

\* The reservations r holds that are not given back stay with it.
KeepsHeld(r) ==
    \A p \in Proxies :
        /\ proxies[p].status = "checking" /\ HeldBy(reqs[r], p, proxies[p].client)
        /\ proxies'[p] = proxies[p]
        => HeldBy(reqs'[r], p, proxies'[p].client)

\* What a call that returns, or is about to start, holds: nothing.
LEMMA ReturnEmpty ==
    ASSUME TInv, NEW r \in Callers, NEW answer, Return(r, answer)
    PROVE  /\ reqs'[r].ambiguous = {} /\ reqs'[r].pc \in {"idle", "next", "finish"}
           /\ r \in Requests => reqs'[r].pc = "idle"
           /\ r = Worker => reqs'[r].pc # "idle"
<1>1. reqs' = [reqs EXCEPT ![r] = IF r # Worker THEN IdleRequest
                  ELSE [IdleRequest EXCEPT !.pc = IF answer = "active" THEN "next" ELSE "finish"]]
  BY DEF Return
<1>2. reqs'[r] = IF r # Worker THEN IdleRequest
                 ELSE [IdleRequest EXCEPT !.pc = IF answer = "active" THEN "next" ELSE "finish"]
  BY <1>1, CallTyped
<1> QED BY <1>2, SlotsAssumption DEF IdleRequest

LEMMA RestoredNone ==
    ASSUME NEW ps \in [Proxies -> Proxy], NEW batch, NEW c, NEW p \in Proxies, p \in batch
    PROVE  ~Reserved(restoreProbes(ps, batch, c), p, c)
<1>1. markProxyIdle(ps[p]).status # "checking" /\ unreserveDisabled(ps[p]).status # "checking"
  BY DEF markProxyIdle, unreserveDisabled, Proxy
<1>2. restoreProbes(ps, batch, c)[p] =
        IF Reserved(ps, p, c)
        THEN IF ps[p].disabled THEN unreserveDisabled(ps[p]) ELSE markProxyIdle(ps[p])
        ELSE ps[p]
  BY Zenon DEF restoreProbes
<1> QED BY <1>1, <1>2 DEF Reserved

LEMMA FailedNone ==
    ASSUME NEW ps \in [Proxies -> Proxy], NEW batch, NEW c, NEW p \in Proxies, p \in batch
    PROVE  ~Reserved(failProbes(ps, batch, c), p, c)
<1>1. markProbeFailed(ps[p]).status # "checking" /\ unreserveDisabled(ps[p]).status # "checking"
  BY DEF markProbeFailed, unreserveDisabled, Proxy
<1>2. failProbes(ps, batch, c)[p] =
        IF Reserved(ps, p, c)
        THEN IF ps[p].disabled THEN unreserveDisabled(ps[p]) ELSE markProbeFailed(ps[p])
        ELSE ps[p]
  BY Zenon DEF failProbes
<1> QED BY <1>1, <1>2 DEF Reserved

\* A probe given back, with the batch of its call.
LEMMA GivenBackNone ==
    ASSUME TInv, NEW r \in Callers, Probed(r), NEW p \in Proxies,
           proxies' = restoreProbes([proxies EXCEPT ![reqs[r].proxy] = markProxyIdle(@)],
                                    reqs[r].ambiguous, reqs[r].client),
           HeldBy(reqs[r], p, reqs[r].client)
    PROVE  ~Reserved(proxies', p, reqs[r].client)
<1> DEFINE q == reqs[r].proxy
           ps == [proxies EXCEPT ![q] = markProxyIdle(@)]
<1>1. q \in Proxies /\ proxies \in [Proxies -> Proxy]
  BY ProbedReserved
<1>2. ps \in [Proxies -> Proxy] /\ ps[q].status # "checking"
  BY <1>1, IdleForm DEF markProxyIdle
<1>3. proxies' = restoreProbes(ps, reqs[r].ambiguous, reqs[r].client)
  OBVIOUS
<1> HIDE DEF ps
<1>4. CASE p \in reqs[r].ambiguous
  BY <1>2, <1>3, <1>4, RestoredNone
<1>5. CASE p \notin reqs[r].ambiguous
  <2>1. proxies'[p] = ps[p] /\ p = q
    BY <1>3, <1>5 DEF restoreProbes, HeldBy
  <2> QED BY <1>2, <2>1 DEF Reserved
<1> QED BY <1>4, <1>5

\* What a step of the call r makes of its batch.
BatchStep(r) ==
    /\ reqs'[r].pc \in Early => reqs'[r].ambiguous = {}
    /\ reqs[r].pc # "idle" /\ (r = Worker => reqs'[r].pc # "idle")
    /\ UNCHANGED queueActive
    /\ KeepsHeld(r)

LEMMA ReturnsBatch ==
    ASSUME TInv, NEW r \in Callers, NEW answer, Return(r, answer), reqs[r].pc # "idle",
           UNCHANGED queueActive,
           \A p \in Proxies : HeldBy(reqs[r], p, reqs[r].client) =>
               ~Reserved(proxies, p, reqs[r].client) \/ ~Reserved(proxies', p, reqs[r].client)
    PROVE  BatchStep(r)
<1>1. KeepsHeld(r)
  BY DEF KeepsHeld, HeldBy, Reserved
<1> QED BY <1>1, ReturnEmpty DEF BatchStep

\* The call goes on, and drops from its batch only probes that are over.
LEMMA MovesBatch ==
    ASSUME TInv, NEW r \in Callers, NEW x, reqs' = [reqs EXCEPT ![r] = x],
           x.client = reqs[r].client, x.pc \notin Early \/ x.ambiguous = {}, x.pc # "idle",
           reqs[r].pc # "idle", UNCHANGED queueActive,
           \A p \in Proxies : HeldBy(reqs[r], p, reqs[r].client) =>
               p \in x.ambiguous \/ ~Reserved(proxies, p, reqs[r].client)
                                \/ ~Reserved(proxies', p, reqs[r].client)
    PROVE  BatchStep(r)
<1>1. reqs'[r] = x
  BY CallTyped
<1>2. KeepsHeld(r)
  BY <1>1 DEF KeepsHeld, HeldBy, Reserved
<1> QED BY <1>1, <1>2 DEF BatchStep

LEMMA GoesBatch ==
    ASSUME TInv, NEW r \in Callers, NEW pc \in Phases, Goto(r, pc),
           pc \notin Early \/ reqs[r].ambiguous = {}, pc # "idle", reqs[r].pc # "idle",
           UNCHANGED queueActive,
           reqs[r].pc = "probe" => \/ ~Reserved(proxies, reqs[r].proxy, reqs[r].client)
                                   \/ ~Reserved(proxies', reqs[r].proxy, reqs[r].client)
    PROVE  BatchStep(r)
<1> DEFINE x == [reqs[r] EXCEPT !.pc = pc]
<1>1. reqs' = [reqs EXCEPT ![r] = x] /\ x.pc = pc /\ x.client = reqs[r].client
      /\ x.ambiguous = reqs[r].ambiguous
  BY CallTyped DEF Goto, Request
<1> HIDE DEF x
<1>2. \A p \in Proxies : HeldBy(reqs[r], p, reqs[r].client) =>
         p \in x.ambiguous \/ ~Reserved(proxies, p, reqs[r].client)
                          \/ ~Reserved(proxies', p, reqs[r].client)
  BY <1>1 DEF HeldBy
<1> QED BY <1>1, <1>2, MovesBatch

LEMMA ReserveBatch ==
    ASSUME TInv, NEW r \in Callers, reserveProxyForLease(r)
    PROVE  BatchStep(r)
<1>1. reqs[r].pc = "reserve" /\ UNCHANGED queueActive
  BY ReserveBranches DEF worker
<1>2. CASE KeepsLease(r) \/ Waits(r)
  <2>1. PICK answer \in {"active", "pending"} : Unreserved(r, answer)
    BY <1>2 DEF KeepsLease, Waits
  <2>2. CASE reqs[r].ambiguous = {} /\ Return(r, answer)
    <3>1. \A p \in Proxies : ~HeldBy(reqs[r], p, reqs[r].client)
      BY <1>1, <2>2 DEF HeldBy
    <3> QED BY <1>1, <2>2, <3>1, ReturnsBatch
  <2>3. CASE reqs' = [reqs EXCEPT ![r].pc = "evidence", ![r].answer = answer]
    <3> DEFINE x == [reqs[r] EXCEPT !.pc = "evidence", !.answer = answer]
    <3>1. reqs' = [reqs EXCEPT ![r] = x] /\ x.pc = "evidence" /\ x.client = reqs[r].client
          /\ x.ambiguous = reqs[r].ambiguous
      BY <2>3, CallTyped DEF Request
    <3> HIDE DEF x
    <3>2. \A p \in Proxies : HeldBy(reqs[r], p, reqs[r].client) => p \in x.ambiguous
      BY <1>1, <3>1 DEF HeldBy
    <3> QED BY <1>1, <3>1, <3>2, MovesBatch DEF Early
  <2> QED BY <2>1, <2>2, <2>3 DEF Unreserved
<1>3. CASE Reserves(r)
  <2>1. PICK q : reqs' = [reqs EXCEPT ![r].pc = "probe", ![r].proxy = q]
    BY <1>3 DEF Reserves
  <2> DEFINE x == [reqs[r] EXCEPT !.pc = "probe", !.proxy = q]
  <2>2. reqs' = [reqs EXCEPT ![r] = x] /\ x.pc = "probe" /\ x.client = reqs[r].client
        /\ x.ambiguous = reqs[r].ambiguous
    BY <2>1, CallTyped DEF Request
  <2> HIDE DEF x
  <2>3. \A p \in Proxies : HeldBy(reqs[r], p, reqs[r].client) => p \in x.ambiguous
    BY <1>1, <2>2 DEF HeldBy
  <2> QED BY <1>1, <2>2, <2>3, MovesBatch DEF Early
<1> QED BY <1>2, <1>3, ReserveBranches

LEMMA SucceededBatch ==
    ASSUME TInv, NEW r \in Callers, probeSucceeded(r)
    PROVE  BatchStep(r)
<1> DEFINE c == reqs[r].client
           q == reqs[r].proxy
<1>1. proxies \in [Proxies -> Proxy] /\ reqs[r].pc = "probe" /\ UNCHANGED queueActive
  BY DEF TInv, TypeOK, probeSucceeded, Probed, worker
<1>2. PICK validated \in SUBSET reqs[r].ambiguous :
         activateCheckedProxy(r, restoreProbes(failProbes(proxies, validated, c),
                                               reqs[r].ambiguous, c))
  BY DEF probeSucceeded
<1> DEFINE fs == failProbes(proxies, validated, c)
           ps == restoreProbes(fs, reqs[r].ambiguous, c)
<1>3. fs \in [Proxies -> Proxy]
  BY <1>1, FailedEnd DEF ProbesEnd
<1> HIDE DEF fs
<1>4. ps \in [Proxies -> Proxy]
  BY <1>3, RestoredEnd DEF ProbesEnd
<1>5. \A p \in Proxies : p \in reqs[r].ambiguous => ~Reserved(ps, p, c)
  BY <1>3, RestoredNone
<1>6. activateCheckedProxy(r, ps)
  BY <1>2 DEF fs
<1> HIDE DEF ps
<1>7. ASSUME NEW p \in Proxies, HeldBy(reqs[r], p, c)
      PROVE  ~Reserved(proxies', p, c)
  <2>1. CASE p = q
    BY <1>1, <1>4, <1>6, <2>1, ActivatedPool DEF Reserved
  <2>2. CASE p # q
    <3>1. ~Reserved(ps, p, c)
      BY <1>5, <1>7, <2>2 DEF HeldBy
    <3>2. proxies'[p] \in {ps[p], vacate(ps[p], c)}
      BY <1>1, <1>4, <1>6, <2>2, ActivatedPool
    <3>3. vacate(ps[p], c).status # "checking"
      BY <1>4 DEF vacate, markProxyIdle, Proxy
    <3> QED BY <3>1, <3>2, <3>3 DEF Reserved
  <2> QED BY <2>1, <2>2
<1>8. Return(r, "active")
  BY DEF probeSucceeded
<1> HIDE DEF c, q
<1> QED BY <1>1, <1>7, <1>8, ReturnsBatch DEF c

LEMMA EnsureStepBatch ==
    ASSUME TInv, EarlyEmpty, NEW r \in Callers, EnsureStep(r)
    PROVE  BatchStep(r)
<1> DEFINE c == reqs[r].client
<1>0. /\ proxies \in [Proxies -> Proxy]
      /\ reqs[r].pc \in Early => \A p \in Proxies : ~HeldBy(reqs[r], p, c)
      /\ reqs[r].pc # "probe" => \A p \in Proxies : HeldBy(reqs[r], p, c) => p \in reqs[r].ambiguous
  BY DEF TInv, TypeOK, EarlyEmpty, HeldBy, Early
<1>1. CASE AcquireGate(r)
  BY <1>1, GoesBatch DEF AcquireGate, EarlyEmpty, Early, Phases, worker
<1>2. CASE assignmentCanceled(r)
  BY <1>0, <1>2, ReturnsBatch DEF assignmentCanceled, Early, worker
<1>3. CASE frontBackoffAssignment(r)
  <2>1. reqs[r].pc = "backoff" /\ UNCHANGED queueActive /\ reqs[r].ambiguous = {}
    BY <1>3 DEF frontBackoffAssignment, EarlyEmpty, Early
  <2>2. CASE Goto(r, "snapshot")
    BY <2>1, <2>2, GoesBatch DEF Phases
  <2>3. ASSUME NEW answer, Return(r, answer)
        PROVE  BatchStep(r)
    BY <1>0, <2>1, <2>3, ReturnsBatch DEF Early
  <2> QED BY <1>3, <2>2, <2>3 DEF frontBackoffAssignment
<1>4. CASE pendingSnapshot(r)
  <2> DEFINE x == [reqs[r] EXCEPT !.pc = "reserve",
                                  !.newBefore = InQueue(pendingNew, reqs[r].client),
                                  !.refsBefore = InQueue(pendingRefs, reqs[r].client)]
  <2>1. reqs' = [reqs EXCEPT ![r] = x] /\ x.pc = "reserve" /\ x.client = c
        /\ reqs[r].pc = "snapshot" /\ UNCHANGED queueActive
    BY <1>4, CallTyped DEF pendingSnapshot, Request, worker
  <2> HIDE DEF x
  <2> QED BY <1>0, <2>1, MovesBatch DEF Early
<1>5. CASE reserveProxyForLease(r)
  BY <1>5, ReserveBatch
<1>6. CASE probeSuperseded(r)
  <2>1. reqs[r].pc = "probe" /\ reqs[r].proxy \in Proxies /\ Goto(r, "reserve") /\ UNCHANGED queueActive
    BY <1>6, ProbeTyped DEF probeSuperseded, worker
  <2>2. CASE ~StillReserved(r)
    BY <2>1, <2>2, GoesBatch DEF StillReserved, Early, Phases
  <2>3. CASE proxies' = [proxies EXCEPT ![reqs[r].proxy] = unreserveDisabled(@)]
    <3>1. ~Reserved(proxies', reqs[r].proxy, c)
      BY <1>0, <2>1, <2>3 DEF Reserved, unreserveDisabled, Proxy
    <3> QED BY <2>1, <3>1, GoesBatch DEF Early, Phases
  <2> QED BY <1>6, <2>2, <2>3 DEF probeSuperseded
<1>7. CASE canceledProbeAssignment(r) \/ probeSharedFailure(r)
  <2>1. Probed(r) /\ UNCHANGED queueActive /\ Return(r, "pending")
    BY <1>7 DEF canceledProbeAssignment, probeSharedFailure, worker
  <2>2. proxies' = restoreProbes([proxies EXCEPT ![reqs[r].proxy] = markProxyIdle(@)],
                                 reqs[r].ambiguous, c)
    BY <1>7 DEF canceledProbeAssignment, probeSharedFailure
  <2>3. \A p \in Proxies : HeldBy(reqs[r], p, c) => ~Reserved(proxies', p, c)
    BY <2>1, <2>2, GivenBackNone
  <2> QED BY <2>1, <2>3, ReturnsBatch DEF Probed
<1>8. CASE probeAmbiguous(r)
  <2> DEFINE batch == reqs[r].ambiguous \cup {reqs[r].proxy}
  <2>1. reqs[r].pc = "probe" /\ UNCHANGED queueActive
    BY <1>8 DEF probeAmbiguous, Probed, worker
  <2>2. \A p \in Proxies : HeldBy(reqs[r], p, c) => p \in batch
    BY DEF HeldBy
  <2> HIDE DEF batch
  <2>3. \/ reqs' = [reqs EXCEPT ![r].pc = "evidence", ![r].ambiguous = batch,
                                ![r].answer = "pending"]
        \/ reqs' = [reqs EXCEPT ![r].pc = "reserve", ![r].ambiguous = batch]
    BY <1>8 DEF probeAmbiguous, batch
  <2>4. CASE reqs' = [reqs EXCEPT ![r].pc = "evidence", ![r].ambiguous = batch,
                                  ![r].answer = "pending"]
    <3> DEFINE x == [reqs[r] EXCEPT !.pc = "evidence", !.ambiguous = batch, !.answer = "pending"]
    <3>1. reqs' = [reqs EXCEPT ![r] = x] /\ x.pc = "evidence" /\ x.client = c /\ x.ambiguous = batch
      BY <2>4, CallTyped DEF Request
    <3> HIDE DEF x
    <3> QED BY <2>1, <2>2, <3>1, MovesBatch DEF Early
  <2>5. CASE reqs' = [reqs EXCEPT ![r].pc = "reserve", ![r].ambiguous = batch]
    <3> DEFINE x == [reqs[r] EXCEPT !.pc = "reserve", !.ambiguous = batch]
    <3>1. reqs' = [reqs EXCEPT ![r] = x] /\ x.pc = "reserve" /\ x.client = c /\ x.ambiguous = batch
      BY <2>5, CallTyped DEF Request
    <3> HIDE DEF x
    <3> QED BY <2>1, <2>2, <3>1, MovesBatch DEF Early
  <2> QED BY <2>3, <2>4, <2>5
<1>9. CASE probeExitFailure(r)
  <2>1. reqs[r].pc = "probe" /\ UNCHANGED queueActive /\ reqs[r].proxy \in Proxies
    BY <1>9, ProbeTyped DEF probeExitFailure, Probed, worker
  <2>2. PICK validated \in SUBSET reqs[r].ambiguous :
           /\ proxies' = [failProbes(proxies, validated, c) EXCEPT ![reqs[r].proxy] = markProbeFailed(@)]
           /\ reqs' = [reqs EXCEPT ![r].pc = "reserve", ![r].ambiguous = @ \ validated]
    BY <1>9 DEF probeExitFailure
  <2> DEFINE fs == failProbes(proxies, validated, c)
  <2>3. fs \in [Proxies -> Proxy] /\ \A p \in Proxies : p \in validated => ~Reserved(fs, p, c)
    BY <1>0, FailedEnd, FailedNone DEF ProbesEnd
  <2> HIDE DEF fs
  <2>4. proxies' = [fs EXCEPT ![reqs[r].proxy] = markProbeFailed(@)]
    BY <2>2 DEF fs
  <2>5. \A p \in Proxies : p \in validated \/ p = reqs[r].proxy => ~Reserved(proxies', p, c)
    BY <2>1, <2>3, <2>4 DEF Reserved, markProbeFailed, Proxy
  <2> DEFINE x == [reqs[r] EXCEPT !.pc = "reserve", !.ambiguous = @ \ validated]
  <2>6. reqs' = [reqs EXCEPT ![r] = x] /\ x.pc = "reserve" /\ x.client = c
        /\ x.ambiguous = reqs[r].ambiguous \ validated
    BY <2>2, CallTyped DEF Request
  <2> HIDE DEF x
  <2>7. \A p \in Proxies : HeldBy(reqs[r], p, c) => p \in x.ambiguous \/ ~Reserved(proxies', p, c)
    BY <2>5, <2>6 DEF HeldBy
  <2> QED BY <2>1, <2>6, <2>7, MovesBatch DEF Early
<1>10. CASE resolveCanceled(r) \/ settleBatch(r) \/ recordBatch(r)
  <2>1. /\ reqs[r].pc \in {"evidence", "cross", "settle", "batch"} /\ UNCHANGED queueActive
        /\ Return(r, reqs[r].answer)
        /\ proxies' = restoreProbes(proxies, reqs[r].ambiguous, c)
    BY <1>10 DEF resolveCanceled, settleBatch, recordBatch, RestoreBatch, worker
  <2>2. \A p \in Proxies : p \in reqs[r].ambiguous => ~Reserved(proxies', p, c)
    BY <1>0, <2>1, RestoredNone
  <2> QED BY <1>0, <2>1, <2>2, ReturnsBatch
<1>11. CASE applyRecentCrossEvidence(r)
  <2>1. reqs[r].pc \in {"evidence", "recheck"} /\ UNCHANGED queueActive
    BY <1>11 DEF applyRecentCrossEvidence
  <2>2. PICK validated \in SUBSET reqs[r].ambiguous :
           /\ proxies' = failProbes(proxies, validated, c)
           /\ \/ Goto(r, Unsettled(reqs[r].pc))
              \/ reqs' = [reqs EXCEPT ![r].pc = "settle", ![r].ambiguous = @ \ validated]
              \/ validated = reqs[r].ambiguous /\ Return(r, reqs[r].answer)
    BY <1>11, Zenon DEF applyRecentCrossEvidence
  <2>3. \A p \in Proxies : p \in validated => ~Reserved(proxies', p, c)
    BY <1>0, <2>2, FailedNone
  <2>4. CASE Goto(r, Unsettled(reqs[r].pc))
    BY <2>1, <2>4, GoesBatch DEF Unsettled, Phases, Early
  <2>5. CASE reqs' = [reqs EXCEPT ![r].pc = "settle", ![r].ambiguous = @ \ validated]
    <3> DEFINE x == [reqs[r] EXCEPT !.pc = "settle", !.ambiguous = @ \ validated]
    <3>1. reqs' = [reqs EXCEPT ![r] = x] /\ x.pc = "settle" /\ x.client = c
          /\ x.ambiguous = reqs[r].ambiguous \ validated
      BY <2>5, CallTyped DEF Request
    <3> HIDE DEF x
    <3>2. \A p \in Proxies : HeldBy(reqs[r], p, c) => p \in x.ambiguous \/ ~Reserved(proxies', p, c)
      BY <1>0, <2>1, <2>3, <3>1
    <3> QED BY <2>1, <3>1, <3>2, MovesBatch DEF Early
  <2>6. CASE validated = reqs[r].ambiguous /\ Return(r, reqs[r].answer)
    BY <1>0, <2>1, <2>3, <2>6, ReturnsBatch
  <2> QED BY <2>2, <2>4, <2>5, <2>6
<1>12. CASE crossValidate(r)
  <2>1. reqs[r].pc = "cross" /\ UNCHANGED queueActive
    BY <1>12, CrossOutcomes
  <2>2. CASE NoCandidate(r)
    BY <2>1, <2>2, GoesBatch DEF NoCandidate, Phases, Early
  <2>3. CASE CrossShared(r)
    <3>1. Return(r, reqs[r].answer) /\ proxies' = restoreProbes(proxies, reqs[r].ambiguous, c)
      BY <2>3 DEF CrossShared, RestoreBatch
    <3>2. \A p \in Proxies : p \in reqs[r].ambiguous => ~Reserved(proxies', p, c)
      BY <1>0, <3>1, RestoredNone
    <3> QED BY <1>0, <2>1, <3>1, <3>2, ReturnsBatch
  <2>4. CASE CrossValidates(r)
    <3>1. PICK validated : proxies' = restoreProbes(failProbes(proxies, validated, c),
                                                    reqs[r].ambiguous, c)
      BY <2>4 DEF CrossValidates
    <3> DEFINE fs == failProbes(proxies, validated, c)
    <3>2. fs \in [Proxies -> Proxy]
      BY <1>0, FailedEnd DEF ProbesEnd
    <3>3. proxies' = restoreProbes(fs, reqs[r].ambiguous, c)
      BY <3>1
    <3> HIDE DEF fs
    <3>4. \A p \in Proxies : p \in reqs[r].ambiguous => ~Reserved(proxies', p, c)
      BY <3>2, <3>3, RestoredNone
    <3>5. Return(r, reqs[r].answer)
      BY <2>4 DEF CrossValidates
    <3> QED BY <1>0, <2>1, <3>4, <3>5, ReturnsBatch
  <2>5. CASE CrossUndecided(r)
    <3>1. PICK p, tokens :
             reqs' = [reqs EXCEPT ![r].pc = "recheck",
                        ![r].ambiguous = IF tokens THEN @ \cup {p} ELSE @]
      BY <2>5 DEF CrossUndecided
    <3> DEFINE batch == IF tokens THEN reqs[r].ambiguous \cup {p} ELSE reqs[r].ambiguous
               x == [reqs[r] EXCEPT !.pc = "recheck", !.ambiguous = batch]
    <3>2. reqs' = [reqs EXCEPT ![r] = x] /\ x.pc = "recheck" /\ x.client = c
          /\ reqs[r].ambiguous \subseteq x.ambiguous
      BY <3>1, CallTyped DEF Request
    <3> HIDE DEF x
    <3>3. \A q \in Proxies : HeldBy(reqs[r], q, c) => q \in x.ambiguous
      BY <1>0, <2>1, <3>2
    <3> QED BY <2>1, <3>2, <3>3, MovesBatch DEF Early
  <2> QED BY <1>12, <2>2, <2>3, <2>4, <2>5, CrossOutcomes
<1>13. CASE probeSucceeded(r)
  BY <1>13, SucceededBatch
<1> QED BY <1>1, <1>2, <1>3, <1>4, <1>5, <1>6, <1>7, <1>8, <1>9, <1>10, <1>11, <1>12, <1>13, Zenon
        DEF EnsureStep

\* Every reservation of qs is one of ps, for the same client.
SameReservations(ps, qs) ==
    \A p \in Proxies : qs[p].status = "checking" =>
        ps[p].status = "checking" /\ qs[p].client = ps[p].client

LEMMA EndedSame ==
    ASSUME NEW ps \in [Proxies -> Proxy], NEW qs, ProbesEnd(ps, qs)
    PROVE  \A p \in Proxies : qs[p].status = "checking" => qs[p] = ps[p]
<1>1. \A p \in Proxies : /\ markProxyIdle(ps[p]).status # "checking"
                         /\ unreserveDisabled(ps[p]).status # "checking"
                         /\ markProbeFailed(ps[p]).status # "checking"
  BY DEF markProxyIdle, unreserveDisabled, markProbeFailed, Proxy
<1> QED BY <1>1 DEF ProbesEnd, Ended

LEMMA ReleasedSame ==
    ASSUME TInv, NEW c \in Clients
    PROVE  \A p \in Proxies : releasedProxies(c)[p].status = "checking" => releasedProxies(c)[p] = proxies[p]
<1>1. proxies \in [Proxies -> Proxy]
  BY DEF TInv, TypeOK
<1>2. \A p \in Proxies : releaseProxyBinding(proxies[p], c).status # "checking"
  BY <1>1, ReleaseForm
<1>3. \A p \in Proxies : releasedProxies(c)[p] \in {proxies[p], releaseProxyBinding(proxies[p], c)}
  BY Zenon DEF releasedProxies
<1> QED BY <1>2, <1>3

LEMMA ConnectionSame ==
    ASSUME TInv, NEW k \in Conns, UnregisterConn(k) \/ \E c \in Clients : AcquireProxyConn(k, c)
    PROVE  SameReservations(proxies, proxies')
<1>1. proxies \in [Proxies -> Proxy]
  BY DEF TInv, TypeOK
<1>2. CASE UnregisterConn(k)
  <2> DEFINE p == conns[k].proxy
  <2>1. CASE UNCHANGED proxies
    BY <2>1 DEF SameReservations
  <2>2. CASE proxies' = [proxies EXCEPT ![p].conns = @ - 1]
    BY <1>1, <2>2 DEF SameReservations, Proxy
  <2>3. CASE proxies' = [proxies EXCEPT ![p] = drainedProxy(@)]
    BY <1>1, <2>3 DEF SameReservations, drainedProxy, Proxy
  <2> QED BY <1>2, <2>1, <2>2, <2>3 DEF UnregisterConn
<1>3. ASSUME NEW c \in Clients, AcquireProxyConn(k, c)
      PROVE  SameReservations(proxies, proxies')
  <2> DEFINE p == leases[c].proxy
             x == [proxies[p] EXCEPT !.conns = @ + 1]
  <2>1. proxies' = [proxies EXCEPT ![p] = x] /\ proxies[p].status = "active"
    BY <1>3 DEF AcquireProxyConn
  <2>2. CASE p \in Proxies
    <3>1. x.status = proxies[p].status /\ x.client = proxies[p].client
      BY <1>1, <2>2 DEF Proxy
    <3> HIDE DEF x, p
    <3> QED BY <1>1, <2>1, <2>2, <3>1 DEF SameReservations
  <2>3. CASE p \notin Proxies
    BY <1>1, <2>1, <2>3 DEF SameReservations
  <2> QED BY <2>2, <2>3
<1> QED BY <1>2, <1>3

LEMMA HealthSame ==
    ASSUME TInv, NEW p \in Proxies, recordHealth(p)
    PROVE  SameReservations(proxies, proxies')
<1>1. proxies \in [Proxies -> Proxy]
  BY DEF TInv, TypeOK
<1>2. CASE proxies' = proxies
  BY <1>2 DEF SameReservations
<1>3. CASE proxies' = [proxies EXCEPT ![p].status = "unhealthy"]
  BY <1>1, <1>3 DEF SameReservations, Proxy
<1>4. ASSUME NEW c \in Clients \cup {NoClient}, proxies' = [proxies EXCEPT ![p] = recoveredProxy(p, c)]
      PROVE  SameReservations(proxies, proxies')
  <2>1. recoveredProxy(p, c).status # "checking"
    BY <1>1 DEF recoveredProxy, Proxy
  <2> QED BY <1>1, <1>4, <2>1 DEF SameReservations
<1>5. \/ proxies' = proxies
      \/ proxies' = [proxies EXCEPT ![p].status = "unhealthy"]
      \/ \E c \in Clients \cup {NoClient} : proxies' = [proxies EXCEPT ![p] = recoveredProxy(p, c)]
  BY Zenon DEF recordHealth
<1> QED BY <1>2, <1>3, <1>4, <1>5

LEMMA AdministeredSame ==
    ASSUME TInv, NEW p \in Proxies, Administered(p)
    PROVE  SameReservations(proxies, proxies')
<1>1. proxies \in [Proxies -> Proxy]
  BY DEF TInv, TypeOK
<1>2. CASE DeleteProxy(p)
  BY <1>1, <1>2 DEF DeleteProxy, Absent, SameReservations
<1>3. ASSUME NEW d \in BOOLEAN, AddProxy(p, d)
      PROVE  SameReservations(proxies, proxies')
  BY <1>1, <1>3 DEF AddProxy, NewProxy, Absent, SameReservations
<1>4. ASSUME NEW d \in BOOLEAN, UpdateProxy(p, d) \/ SetProxyDisabled(p, d)
      PROVE  SameReservations(proxies, proxies')
  <2>1. PICK status : /\ proxies' = [proxies EXCEPT ![p].disabled = d, ![p].status = status]
                      /\ status = "checking" => proxies[p].status = "checking"
    BY <1>4 DEF UpdateProxy, SetProxyDisabled, ChangeProxy, updatedStatus, disabledStatus
  <2>2. /\ \A q \in Proxies : q # p => proxies'[q] = proxies[q]
        /\ proxies'[p].status = status /\ proxies'[p].client = proxies[p].client
    BY <1>1, <2>1 DEF Proxy
  <2> QED BY <2>1, <2>2 DEF SameReservations
<1> QED BY <1>2, <1>3, <1>4 DEF Administered

\* A step that is no call's makes no reservation.
LEMMA OtherSame ==
    ASSUME TInv, [Next]_vars, \A r \in Callers : ~EnsureStep(r)
    PROVE  SameReservations(proxies, proxies')
<1>0. proxies \in [Proxies -> Proxy]
  BY DEF TInv, TypeOK
<1>1. CASE \/ UNCHANGED vars
           \/ \E r \in Requests, c \in Clients, refresh \in BOOLEAN : ensureLease(r, c, refresh)
           \/ QueueStep \/ frontChanges \/ collectExpired
           \/ \E c \in Clients : leaseExpires(c)
           \/ \E p \in Proxies : proxyCheckSnapshot(p)
  <2>1. UNCHANGED proxies
    BY <1>1 DEF vars, ensureLease, QueueStep, processQueueAsync, nextQueuedClient, finishQueue,
                queueTimerFires, queueBackoffElapses, frontChanges, collectExpired, leaseExpires,
                proxyCheckSnapshot
  <2> QED BY <2>1 DEF SameReservations
<1>2. ASSUME NEW c \in Clients, Release(c) \/ expireLease(c)
      PROVE  SameReservations(proxies, proxies')
  <2>1. proxies' = releasedProxies(c)
    BY <1>2 DEF Release, expireLease, releaseLocked
  <2> QED BY <2>1, ReleasedSame DEF SameReservations
<1>3. CASE \E k \in Conns : UnregisterConn(k) \/ \E c \in Clients : AcquireProxyConn(k, c)
  BY <1>3, ConnectionSame
<1>4. CASE \E p \in Proxies : recordHealth(p) \/ DeleteProxy(p)
  BY <1>4, HealthSame, AdministeredSame DEF Administered
<1>5. CASE \E p \in Proxies, d \in BOOLEAN :
               AddProxy(p, d) \/ UpdateProxy(p, d) \/ SetProxyDisabled(p, d)
  BY <1>5, AdministeredSame DEF Administered
<1>6. CASE Restart
  BY <1>6, RestartPool DEF SameReservations
<1> QED BY <1>1, <1>2, <1>3, <1>4, <1>5, <1>6, Zenon DEF Next

\* A call starts with an empty batch, and only an idle call starts; the worker
\* starts when it does not run and runs until it stops.
LEMMA StartsEmpty ==
    ASSUME TInv, EarlyEmpty, NEW r \in Callers, NEW c, NEW refresh,
           reqs' = [reqs EXCEPT ![r] = Calling(c, refresh)]
    PROVE  /\ reqs'[r].ambiguous = {} /\ reqs'[r].pc # "idle"
           /\ \A s \in Callers \ {r} : reqs'[s] = reqs[s]
BY CallTyped DEF Calling, FirstPhase, IdleRequest

LEMMA GoesEmpty ==
    ASSUME TInv, EarlyEmpty, NEW r \in Callers, NEW pc, Goto(r, pc), reqs[r].pc \in Early
    PROVE  /\ reqs'[r].ambiguous = {} /\ reqs'[r].pc = pc
           /\ \A s \in Callers \ {r} : reqs'[s] = reqs[s]
BY CallTyped DEF Goto, EarlyEmpty, Request

\* The calls a step outside EnsureStep changes hold nothing before it.
LEMMA OtherCalls ==
    ASSUME TInv, EarlyEmpty, WorkerRuns, [Next]_vars, \A r \in Callers : ~EnsureStep(r), ~Restart
    PROVE  /\ EarlyEmpty' /\ WorkerRuns'
           /\ \A r \in Callers : reqs'[r] = reqs[r] \/ (reqs[r].ambiguous = {} /\ reqs[r].pc # "probe")
<1> DEFINE Goal == /\ EarlyEmpty' /\ WorkerRuns'
                   /\ \A r \in Callers :
                         reqs'[r] = reqs[r] \/ (reqs[r].ambiguous = {} /\ reqs[r].pc # "probe")
<1>0. Worker \in Callers /\ Worker \notin Requests
  BY WorkerIsCaller, SlotsAssumption
<1>1. CASE UNCHANGED << reqs, queueActive >>
  BY <1>1 DEF EarlyEmpty, WorkerRuns
<1>2. ASSUME NEW r \in Requests, NEW c \in Clients, NEW refresh \in BOOLEAN, ensureLease(r, c, refresh)
      PROVE  Goal
  <2>1. /\ r \in Callers /\ r # Worker /\ UNCHANGED queueActive /\ reqs[r].pc = "idle"
        /\ reqs' = [reqs EXCEPT ![r] = Calling(c, refresh)]
    BY <1>0, <1>2 DEF ensureLease, Callers, worker
  <2>2. /\ reqs'[r].ambiguous = {} /\ \A s \in Callers \ {r} : reqs'[s] = reqs[s]
    BY <2>1, StartsEmpty
  <2>3. reqs[r].ambiguous = {}
    BY <2>1 DEF EarlyEmpty, Early
  <2> QED BY <1>0, <2>1, <2>2, <2>3 DEF EarlyEmpty, WorkerRuns
<1>3. CASE QueueStep
  <2>1. CASE processQueueAsync
    <3>1. CASE UNCHANGED << reqs, queueActive >>
      BY <1>1, <3>1
    <3>2. CASE ~queueActive /\ queueActive' = TRUE /\ Goto(Worker, "next")
      <4>1. reqs[Worker].pc = "idle"
        BY <3>2 DEF WorkerRuns
      <4>2. /\ reqs'[Worker].ambiguous = {} /\ reqs'[Worker].pc = "next"
            /\ \A s \in Callers \ {Worker} : reqs'[s] = reqs[s]
        BY <1>0, <3>2, <4>1, GoesEmpty DEF Early
      <4> QED BY <1>0, <3>2, <4>1, <4>2 DEF EarlyEmpty, Early, WorkerRuns
    <3> QED BY <2>1, <3>1, <3>2 DEF processQueueAsync
  <2>2. CASE nextQueuedClient
    <3>1. reqs[Worker].pc = "next" /\ UNCHANGED queueActive
      BY <2>2 DEF nextQueuedClient, worker
    <3>2. /\ reqs'[Worker].ambiguous = {} /\ reqs'[Worker].pc # "idle"
          /\ \A s \in Callers \ {Worker} : reqs'[s] = reqs[s]
      <4>1. CASE Goto(Worker, "finish")
        BY <1>0, <3>1, <4>1, GoesEmpty DEF Early
      <4>2. ASSUME NEW c, NEW refresh, reqs' = [reqs EXCEPT ![Worker] = Calling(c, refresh)]
            PROVE  /\ reqs'[Worker].ambiguous = {} /\ reqs'[Worker].pc # "idle"
                   /\ \A s \in Callers \ {Worker} : reqs'[s] = reqs[s]
        BY <1>0, <4>2, StartsEmpty
      <4> QED BY <2>2, <4>1, <4>2 DEF nextQueuedClient
    <3> QED BY <1>0, <3>1, <3>2 DEF EarlyEmpty, Early, WorkerRuns
  <2>3. CASE finishQueue
    <3>1. reqs[Worker].pc = "finish" /\ queueActive' = FALSE /\ Goto(Worker, "idle")
      BY <2>3 DEF finishQueue
    <3>2. /\ reqs'[Worker].ambiguous = {} /\ reqs'[Worker].pc = "idle"
          /\ \A s \in Callers \ {Worker} : reqs'[s] = reqs[s]
      BY <1>0, <3>1, GoesEmpty DEF Early
    <3> QED BY <1>0, <3>1, <3>2 DEF EarlyEmpty, Early, WorkerRuns
  <2>4. CASE queueTimerFires \/ queueBackoffElapses
    BY <1>1, <2>4 DEF queueTimerFires, queueBackoffElapses, worker
  <2> QED BY <1>3, <2>1, <2>2, <2>3, <2>4 DEF QueueStep
<1>4. ASSUME \/ UNCHANGED vars \/ frontChanges \/ collectExpired
             \/ \E c \in Clients : Release(c) \/ leaseExpires(c) \/ expireLease(c)
             \/ \E k \in Conns : UnregisterConn(k) \/ \E c \in Clients : AcquireProxyConn(k, c)
             \/ \E p \in Proxies : proxyCheckSnapshot(p) \/ recordHealth(p) \/ DeleteProxy(p)
             \/ \E p \in Proxies, d \in BOOLEAN :
                   AddProxy(p, d) \/ UpdateProxy(p, d) \/ SetProxyDisabled(p, d)
      PROVE  UNCHANGED << reqs, queueActive >>
  BY <1>4 DEF vars, frontChanges, collectExpired, Release, leaseExpires, expireLease, UnregisterConn,
              AcquireProxyConn, proxyCheckSnapshot, recordHealth, DeleteProxy, AddProxy,
              UpdateProxy, SetProxyDisabled, ChangeProxy, worker
<1> QED BY <1>1, <1>2, <1>3, <1>4, Zenon DEF Next

\* The owner of a reservation keeps it until the reservation ends.
LEMMA OwnerStays ==
    ASSUME TInv, ReservationOwned, NEW r \in Callers, BatchStep(r),
           \A s \in Callers \ {r} : reqs'[s] = reqs[s],
           NEW p \in Proxies, proxies[p].status = "checking", proxies'[p] = proxies[p]
    PROVE  \E s \in Callers : HeldBy(reqs'[s], p, proxies'[p].client)
<1>1. PICK s \in Callers : HeldBy(reqs[s], p, proxies[p].client)
  BY DEF ReservationOwned, HeldBy
<1>2. CASE s = r
  BY <1>1, <1>2 DEF BatchStep, KeepsHeld
<1>3. CASE s # r
  BY <1>1, <1>3
<1> QED BY <1>2, <1>3

LEMMA EnsureStepOwned ==
    ASSUME TInv, EarlyEmpty, WorkerRuns, ReservationOwned, NEW r \in Callers, EnsureStep(r)
    PROVE  EarlyEmpty' /\ WorkerRuns' /\ ReservationOwned'
<1>0. proxies \in [Proxies -> Proxy]
  BY DEF TInv, TypeOK
<1>1. BatchStep(r) /\ \A s \in Callers \ {r} : reqs'[s] = reqs[s]
  BY EnsureStepBatch, EnsureStepCall DEF CallStep
<1>2. EarlyEmpty' /\ WorkerRuns'
  BY <1>1, WorkerIsCaller DEF BatchStep, EarlyEmpty, WorkerRuns
<1>3. ASSUME NEW p \in Proxies, proxies'[p].status = "checking"
      PROVE  \E s \in Callers : HeldBy(reqs'[s], p, proxies'[p].client)
  <2>1. CASE ProbesEnd(proxies, proxies')
    <3>1. proxies'[p] = proxies[p]
      BY <1>0, <1>3, <2>1, EndedSame
    <3> QED BY <1>1, <1>3, <3>1, OwnerStays
  <2>2. CASE reserveProxyForLease(r)
    <3> DEFINE c == reqs[r].client
               ps == ReservePool(c)
    <3>1. reqs[r].pc = "reserve" /\ c \in Clients
      BY <2>2, ReserveBranches, CallClient DEF Running
    <3>2. ps \in [Proxies -> Proxy] /\ \A q \in Proxies : ps[q].status = "checking" => ps[q] = proxies[q]
      BY <3>1, ReserveStart, ReleasedSame DEF ReservePool
    <3> HIDE DEF ps
    <3>3. CASE proxies' = ps
      <4>1. proxies'[p] = proxies[p]
        BY <1>3, <3>2, <3>3
      <4> QED BY <1>1, <1>3, <4>1, OwnerStays
    <3>4. CASE Reserves(r)
      <4>1. PICK q \in Proxies :
               /\ proxies' = [ps EXCEPT ![q].status = "checking", ![q].client = c,
                                        ![q].drainingFor = NoClient]
               /\ reqs' = [reqs EXCEPT ![r].pc = "probe", ![r].proxy = q]
        BY <3>4 DEF Reserves, Takeable, ps
      <4>2. reqs'[r].pc = "probe" /\ reqs'[r].proxy = q /\ reqs'[r].client = c
        BY <4>1, CallTyped DEF Request
      <4>3. CASE p = q
        <5>1. proxies'[q].client = c
          BY <3>2, <4>1 DEF Proxy
        <5> QED BY <4>2, <4>3, <5>1 DEF HeldBy
      <4>4. CASE p # q
        <5>1. proxies'[p] = proxies[p]
          BY <1>3, <3>2, <4>1, <4>4
        <5> QED BY <1>1, <1>3, <5>1, OwnerStays
      <4> QED BY <4>3, <4>4
    <3> QED BY <2>2, <3>3, <3>4, ReserveBranches DEF KeepsLease, Waits, ps
  <2>3. CASE probeSucceeded(r)
    <3>1. PICK ps \in [Proxies -> Proxy] : ProbesEnd(proxies, ps) /\ activateCheckedProxy(r, ps)
      BY <2>3, SucceededFrom
    <3>2. reqs[r].pc = "probe" /\ p # reqs[r].proxy /\ proxies'[p] \in {ps[p], vacate(ps[p], reqs[r].client)}
      BY <1>3, <2>3, <3>1, ActivatedPool DEF probeSucceeded, Probed
    <3>3. vacate(ps[p], reqs[r].client).status # "checking"
      BY DEF vacate, markProxyIdle, Proxy
    <3>4. proxies'[p] = proxies[p]
      BY <1>0, <1>3, <3>1, <3>2, <3>3, EndedSame
    <3> QED BY <1>1, <1>3, <3>4, OwnerStays
  <2> QED BY <2>1, <2>2, <2>3, EnsureStepPool
<1> QED BY <1>2, <1>3 DEF ReservationOwned, HeldBy

LEMMA OwnedStep ==
    ASSUME TInv, EarlyEmpty, WorkerRuns, ReservationOwned, [Next]_vars
    PROVE  EarlyEmpty' /\ WorkerRuns' /\ ReservationOwned'
<1>1. CASE \E r \in Callers : EnsureStep(r)
  BY <1>1, EnsureStepOwned
<1>2. CASE Restart
  <2>1. \A r \in Callers : reqs'[r] = IdleRequest
    BY <1>2 DEF Restart
  <2>2. queueActive' = FALSE /\ \A p \in Proxies : proxies'[p].status # "checking"
    BY <1>2, RestartPool DEF Restart
  <2> QED BY <2>1, <2>2, WorkerIsCaller DEF EarlyEmpty, WorkerRuns, ReservationOwned, IdleRequest
<1>3. CASE ~Restart /\ \A r \in Callers : ~EnsureStep(r)
  <2>1. /\ EarlyEmpty' /\ WorkerRuns'
        /\ \A r \in Callers : reqs'[r] = reqs[r] \/ (reqs[r].ambiguous = {} /\ reqs[r].pc # "probe")
    BY <1>3, OtherCalls
  <2>2. SameReservations(proxies, proxies')
    BY <1>3, OtherSame
  <2>3. ASSUME NEW p \in Proxies, proxies'[p].status = "checking"
        PROVE  \E s \in Callers : HeldBy(reqs'[s], p, proxies'[p].client)
    <3>1. PICK s \in Callers : HeldBy(reqs[s], p, proxies'[p].client)
      BY <2>2, <2>3 DEF SameReservations, ReservationOwned, HeldBy
    <3> QED BY <2>1, <3>1 DEF HeldBy
  <2> QED BY <2>1, <2>3 DEF ReservationOwned, HeldBy
<1> QED BY <1>1, <1>2, <1>3

\* No reservation leaks, whatever overtakes the probe it waits for: a proxy being
\* checked belongs to a call in progress for that client, as the one it probes
\* or in its batch of ambiguous ones.
THEOREM ReservationsOwned == Spec => []ReservationOwned
<1> DEFINE Inv == TInv /\ EarlyEmpty /\ WorkerRuns /\ ReservationOwned
<1>1. Init => Inv
  <2> SUFFICES ASSUME Init PROVE EarlyEmpty /\ WorkerRuns /\ ReservationOwned
    BY InitTypes
  <2>1. \A r \in Callers : reqs[r] = IdleRequest
    BY DEF Init
  <2>2. ~queueActive /\ \A p \in Proxies : proxies[p].status # "checking"
    BY DEF Init, NewProxy, Absent
  <2> QED BY <2>1, <2>2, WorkerIsCaller DEF EarlyEmpty, WorkerRuns, ReservationOwned, IdleRequest
<1>2. Inv /\ [Next]_vars => Inv'
  BY TypeStep, OwnedStep
<1>3. Inv => ReservationOwned
  OBVIOUS
<1> HIDE DEF Inv
<1> QED BY <1>1, <1>2, <1>3, PTL DEF Spec
----------------------------------------------------------------------------
(* Wake-ups.  Without a front, refreshes, cancelled calls, expiry and      *)
(* failed writes, a call of ensureLease only reserves, probes and returns. *)

PlainCall(x) ==
    x.pc \in {"idle", "reserve", "probe", "next", "finish"} /\ ~x.refresh /\ x.ambiguous = {}
PlainCalls == \A r \in Callers : PlainCall(reqs[r])
NoneExpired == \A c \in Clients : ~leases[c].expired
Plain == pendingRefs = << >> /\ sweep = {} /\ NoneExpired /\ PlainCalls

NotifyingEvents == ~FrontEnabled /\ Events \subseteq {"health", "admin", "restart"}

\* The branches of a reservation when no lease is expired.
PlainReserve(r) ==
    LET c == reqs[r].client IN
    /\ UNCHANGED << leases, conns, timers, worker, sweep >>
    /\ \/ UNCHANGED << proxies, queues >> /\ Return(r, "active")
       \/ /\ ~HasIdle
          /\ UNCHANGED << proxies, pendingRefs >>
          /\ Return(r, "pending")
       \/ /\ \E p \in Takeable(proxies, leases) :
                /\ proxies' = ReservedPool(proxies, p, c)
                /\ reqs' = [reqs EXCEPT ![r].pc = "probe", ![r].proxy = p]
          /\ UNCHANGED queues

LEMMA PlainReserves ==
    ASSUME TInv, Plain, NEW r \in Callers, reserveProxyForLease(r)
    PROVE  PlainReserve(r)
<1> DEFINE c == reqs[r].client
<1>1. reqs[r].pc = "reserve" /\ c \in Clients
  BY ReserveBranches, CallClient DEF Running
<1>2. ~StaleLease(c) /\ ~reqs[r].refresh /\ reqs[r].ambiguous = {}
  BY <1>1 DEF Plain, NoneExpired, PlainCalls, PlainCall, StaleLease
<1>3. /\ ReserveLeases(c) = leases /\ ReservePool(c) = proxies
      /\ ReserveNew(c) = pendingNew /\ ReserveRefs(c) = pendingRefs
  BY <1>2 DEF ReserveLeases, ReservePool, ReserveNew, ReserveRefs
<1>4. UNCHANGED << leases, conns, worker, sweep >>
  BY <1>2, <1>3, ReserveBranches
<1>5. UNCHANGED timers
  <2>1. queueBackoff \in BOOLEAN /\ queueRetry \in BOOLEAN
    BY DEF TInv, TypeOK
  <2>2. /\ queueBackoff' = (queueBackoff /\ ~FALSE)
        /\ queueRetry' = (queueRetry /\ ~FALSE)
    BY <1>2, Zenon DEF reserveProxyForLease, StaleLease
  <2> QED BY <2>1, <2>2 DEF timers
<1>6. \/ KeepsLease(r)
      \/ Takeable(ReservePool(c), ReserveLeases(c)) = {} /\ Waits(r)
      \/ Reserves(r)
  BY Zenon DEF reserveProxyForLease, ReserveLeases, ReservePool, ReserveNew, ReserveRefs,
               StaleLease, KeepsLease, Waits, Reserves
<1>7. CASE KeepsLease(r)
  BY <1>2, <1>3, <1>4, <1>5, <1>7 DEF KeepsLease, PlainReserve, Unreserved, queues
<1>8. CASE Takeable(ReservePool(c), ReserveLeases(c)) = {} /\ Waits(r)
  <2>1. Return(r, "pending") /\ UNCHANGED << proxies, pendingRefs >>
    BY <1>2, <1>3, <1>8 DEF Waits, Unreserved
  <2>2. ~HasIdle
    BY <1>3, <1>8 DEF HasIdle
  <2> QED BY <1>4, <1>5, <2>1, <2>2 DEF PlainReserve
<1>9. CASE Reserves(r)
  BY <1>3, <1>4, <1>5, <1>9 DEF Reserves, PlainReserve, ReservedPool, queues
<1> QED BY <1>6, <1>7, <1>8, <1>9

LEMMA PlainEnsure ==
    ASSUME NotifyingEvents, Plain, NEW r \in Callers, EnsureStep(r)
    PROVE  \/ reserveProxyForLease(r) \/ probeSuperseded(r)
           \/ probeExitFailure(r) \/ probeSucceeded(r)
<1>1. reqs[r].pc \in {"idle", "reserve", "probe", "next", "finish"}
  BY DEF Plain, PlainCalls, PlainCall
<1>2. ~FrontEnabled /\ ~Cancelable(r)
  BY DEF NotifyingEvents, Cancelable
<1> QED BY <1>1, <1>2 DEF EnsureStep, AcquireGate, assignmentCanceled, frontBackoffAssignment,
            pendingSnapshot, canceledProbeAssignment, probeSharedFailure, probeAmbiguous,
            resolveCanceled, applyRecentCrossEvidence, settleBatch, crossValidate, recordBatch

LEMMA PlainCallUpdated ==
    ASSUME TInv, PlainCalls, NEW r \in Callers, NEW x, PlainCall(x),
           reqs' = [reqs EXCEPT ![r] = x]
    PROVE  PlainCalls'
BY CallTyped DEF PlainCalls, TInv, TypeOK

LEMMA PlainReturns ==
    ASSUME TInv, PlainCalls, NEW r \in Callers, NEW answer, Return(r, answer)
    PROVE  PlainCalls'
<1>1. \A pc \in {"next", "finish"} : PlainCall([IdleRequest EXCEPT !.pc = pc])
  BY DEF PlainCall, IdleRequest
<1>2. PlainCall(IdleRequest)
  BY DEF PlainCall, IdleRequest
<1>3. PICK x : PlainCall(x) /\ reqs' = [reqs EXCEPT ![r] = x]
  BY <1>1, <1>2 DEF Return
<1> QED BY <1>3, PlainCallUpdated

LEMMA PlainGoes ==
    ASSUME TInv, PlainCalls, NEW r \in Callers,
           NEW pc \in {"idle", "reserve", "next", "finish"}, Goto(r, pc)
    PROVE  PlainCalls'
<1> DEFINE x == [reqs[r] EXCEPT !.pc = pc]
<1>1. reqs' = [reqs EXCEPT ![r] = x] /\ PlainCall(x)
  BY CallTyped DEF Goto, PlainCalls, PlainCall, Request
<1> HIDE DEF x
<1> QED BY <1>1, PlainCallUpdated

LEMMA PlainStarts ==
    ASSUME TInv, PlainCalls, NotifyingEvents, NEW r \in Callers, NEW c,
           reqs' = [reqs EXCEPT ![r] = Calling(c, FALSE)]
    PROVE  PlainCalls'
<1>1. PlainCall(Calling(c, FALSE))
  BY DEF PlainCall, Calling, FirstPhase, IdleRequest, NotifyingEvents
<1> QED BY <1>1, PlainCallUpdated

LEMMA PlainEnsureCalls ==
    ASSUME TInv, Plain, NotifyingEvents, NEW r \in Callers, EnsureStep(r)
    PROVE  PlainCalls'
<1>0. PlainCalls /\ reqs[r] \in Request
  BY CallTyped DEF Plain
<1>1. CASE reserveProxyForLease(r)
  <2>1. ASSUME NEW p, reqs' = [reqs EXCEPT ![r].pc = "probe", ![r].proxy = p]
        PROVE  PlainCalls'
    <3> DEFINE x == [reqs[r] EXCEPT !.pc = "probe", !.proxy = p]
    <3>1. reqs' = [reqs EXCEPT ![r] = x] /\ PlainCall(x)
      BY <1>0, <2>1, CallTyped DEF PlainCalls, PlainCall, Request
    <3> HIDE DEF x
    <3> QED BY <1>0, <3>1, PlainCallUpdated
  <2> QED BY <1>0, <1>1, <2>1, PlainReserves, PlainReturns DEF PlainReserve
<1>2. CASE probeSuperseded(r)
  BY <1>0, <1>2, PlainGoes DEF probeSuperseded
<1>3. CASE probeExitFailure(r)
  <2>1. PICK validated \in SUBSET reqs[r].ambiguous :
           reqs' = [reqs EXCEPT ![r].pc = "reserve", ![r].ambiguous = @ \ validated]
    BY <1>3 DEF probeExitFailure
  <2> DEFINE x == [reqs[r] EXCEPT !.pc = "reserve", !.ambiguous = @ \ validated]
  <2>2. reqs' = [reqs EXCEPT ![r] = x] /\ PlainCall(x)
    BY <1>0, <2>1, CallTyped DEF PlainCalls, PlainCall, Request
  <2> HIDE DEF x
  <2> QED BY <1>0, <2>2, PlainCallUpdated
<1>4. CASE probeSucceeded(r)
  BY <1>0, <1>4, PlainReturns DEF probeSucceeded
<1> QED BY <1>1, <1>2, <1>3, <1>4, PlainEnsure

LEMMA PlainQueueCalls ==
    ASSUME TInv, Plain, NotifyingEvents, QueueStep
    PROVE  PlainCalls' /\ pendingRefs' = << >> /\ UNCHANGED << proxies, leases, sweep >>
<1>0. PlainCalls /\ pendingRefs = << >> /\ Worker \in Callers
  BY WorkerIsCaller DEF Plain
<1>1. CASE processQueueAsync
  <2>1. UNCHANGED reqs \/ Goto(Worker, "next")
    BY <1>1 DEF processQueueAsync
  <2>2. PlainCalls'
    BY <1>0, <2>1, PlainGoes DEF PlainCalls
  <2> QED BY <1>0, <1>1, <2>2 DEF processQueueAsync, queues
<1>2. CASE nextQueuedClient
  <2>1. /\ Goto(Worker, "finish") \/ reqs' = [reqs EXCEPT ![Worker] = Calling(Head(pendingNew), FALSE)]
        /\ pendingRefs' = << >> /\ UNCHANGED << proxies, leases, sweep >>
    BY <1>0, <1>2 DEF nextQueuedClient, queues
  <2>2. PlainCalls'
    BY <1>0, <2>1, PlainGoes, PlainStarts
  <2> QED BY <2>1, <2>2
<1>3. CASE finishQueue
  <2>1. PlainCalls'
    BY <1>0, <1>3, PlainGoes DEF finishQueue
  <2> QED BY <1>0, <1>3, <2>1 DEF finishQueue, queues
<1>4. CASE queueTimerFires \/ queueBackoffElapses
  <2>1. UNCHANGED << reqs, queues, proxies, leases, sweep >>
    BY <1>4 DEF queueTimerFires, queueBackoffElapses
  <2> QED BY <1>0, <2>1 DEF PlainCalls, queues
<1> QED BY <1>1, <1>2, <1>3, <1>4 DEF QueueStep

LEMMA PlainReleased ==
    ASSUME TInv, Plain, NEW c \in Clients, releaseLocked(c)
    PROVE  NoneExpired' /\ pendingRefs' = << >>
<1>1. pendingRefs' = << >>
  BY EmptyQueue DEF releaseLocked, removeQueued, removeIP, Plain
<1>2. leases' = [leases EXCEPT ![c] = NoLease] /\ leases \in [Clients -> Lease]
  BY DEF releaseLocked, releasedLeases, TInv, TypeOK
<1> QED BY <1>1, <1>2 DEF Plain, NoneExpired, NoLease

\* Every step outside ensureLease and the queue worker.
LEMMA PlainOthers ==
    ASSUME NotifyingEvents, Plain, [Next]_vars, \A r \in Callers : ~EnsureStep(r), ~QueueStep
    PROVE  \/ UNCHANGED vars
           \/ \E r \in Requests, c \in Clients : ensureLease(r, c, FALSE)
           \/ \E c \in Clients : Release(c)
           \/ \E k \in Conns : UnregisterConn(k) \/ \E c \in Clients : AcquireProxyConn(k, c)
           \/ \E p \in Proxies : proxyCheckSnapshot(p) \/ recordHealth(p) \/ Administered(p)
           \/ Restart
<1>1. ~frontChanges
  BY DEF frontChanges, NotifyingEvents
<1>2. \A c \in Clients : ~leaseExpires(c) /\ ~expireLease(c)
  BY DEF leaseExpires, expireLease, NotifyingEvents, Plain
<1>3. ~collectExpired
  BY DEF collectExpired, Plain, NoneExpired
<1>4. \A r \in Requests, c \in Clients, refresh \in BOOLEAN :
         ensureLease(r, c, refresh) => ensureLease(r, c, FALSE)
  BY DEF ensureLease, NotifyingEvents
<1>5. \A p \in Proxies : \A d \in BOOLEAN :
         DeleteProxy(p) \/ AddProxy(p, d) \/ UpdateProxy(p, d) \/ SetProxyDisabled(p, d)
            => Administered(p)
  BY Zenon DEF Administered
<1> QED BY <1>1, <1>2, <1>3, <1>4, <1>5, Zenon DEF Next

LEMMA PlainStep ==
    ASSUME NotifyingEvents, TInv, Plain, [Next]_vars
    PROVE  Plain'
<1>0. PlainCalls /\ NoneExpired /\ pendingRefs = << >> /\ sweep = {} /\ leases \in [Clients -> Lease]
  BY DEF Plain, TInv, TypeOK
<1>1. ASSUME NEW r \in Callers, EnsureStep(r)
      PROVE  Plain'
  <2>1. PlainCalls'
    BY <1>1, PlainEnsureCalls
  <2>2. CASE reserveProxyForLease(r)
    BY <1>0, <2>1, <2>2, PlainReserves DEF PlainReserve, Plain, NoneExpired, queues
  <2>3. CASE probeSuperseded(r) \/ probeExitFailure(r)
    BY <1>0, <2>1, <2>3 DEF probeSuperseded, probeExitFailure, Plain, NoneExpired, queues
  <2>4. CASE probeSucceeded(r)
    <3>1. leases' = [leases EXCEPT ![reqs[r].client] = [proxy |-> reqs[r].proxy, expired |-> FALSE]]
      BY <2>4, SucceededPool
    <3>2. NoneExpired'
      BY <1>0, <3>1 DEF NoneExpired
    <3>3. pendingRefs' = << >>
      BY <1>0, <2>4, EmptyQueue DEF probeSucceeded, activateCheckedProxy, removeQueued, removeIP
    <3> QED BY <1>0, <2>1, <2>4, <3>2, <3>3 DEF probeSucceeded, Plain
  <2> QED BY <1>1, <2>2, <2>3, <2>4, PlainEnsure
<1>2. CASE QueueStep
  BY <1>0, <1>2, PlainQueueCalls DEF Plain, NoneExpired
<1>3. ASSUME NEW r \in Requests, NEW c \in Clients, ensureLease(r, c, FALSE)
      PROVE  Plain'
  <2>1. PlainCalls'
    BY <1>0, <1>3, PlainStarts DEF ensureLease, Callers
  <2> QED BY <1>0, <1>3, <2>1 DEF ensureLease, Plain, NoneExpired, queues
<1>4. ASSUME NEW c \in Clients, Release(c)
      PROVE  Plain'
  BY <1>0, <1>4, PlainReleased DEF Release, Plain, PlainCalls
<1>5. ASSUME \/ UNCHANGED vars
             \/ \E k \in Conns : UnregisterConn(k) \/ \E c \in Clients : AcquireProxyConn(k, c)
             \/ \E p \in Proxies : proxyCheckSnapshot(p) \/ recordHealth(p) \/ Administered(p)
      PROVE  Plain'
  <2>1. UNCHANGED << leases, queues, reqs, sweep >>
    BY <1>5 DEF vars, UnregisterConn, AcquireProxyConn, proxyCheckSnapshot, recordHealth,
                Administered, DeleteProxy, AddProxy, UpdateProxy, SetProxyDisabled, ChangeProxy
  <2> QED BY <1>0, <2>1 DEF Plain, NoneExpired, PlainCalls, queues
<1>6. CASE Restart
  <2>1. pendingRefs' = << >> /\ sweep' = {} /\ \A r \in Callers : reqs'[r] = IdleRequest
    BY <1>6 DEF Restart
  <2>2. PICK survivors : leases' = LoadedLeases(dbLeases, survivors)
    BY <1>6 DEF Restart
  <2>3. NoneExpired'
    BY <2>2 DEF NoneExpired, LoadedLeases, NoLease
  <2> QED BY <2>1, <2>3 DEF Plain, PlainCalls, PlainCall, IdleRequest
<1> QED BY <1>1, <1>2, <1>3, <1>4, <1>5, <1>6, PlainOthers

LEMMA PlainInit == Init => Plain
<1> SUFFICES ASSUME Init PROVE Plain
  OBVIOUS
<1>1. pendingRefs = << >> /\ sweep = {} /\ \A r \in Callers : reqs[r] = IdleRequest
  BY DEF Init
<1>2. \A c \in Clients : leases[c] = NoLease
  BY DEF Init
<1> QED BY <1>1, <1>2 DEF Plain, NoneExpired, PlainCalls, PlainCall, IdleRequest, NoLease

\* A leased proxy is not idle in the pool; or there is only one proxy.
LeasedNotIdle ==
    \/ \A p, q \in Proxies : p = q
    \/ \A c \in Clients : Live(c) => proxies[leases[c].proxy].status # "idle"

Awake == queueActive \/ queueRetry \/ wakes > 0
Wakeful == HasQueued /\ HasIdle => Awake

\* Nobody newly waits, no proxy is newly idle.
NothingNew ==
    /\ HasQueued' => HasQueued
    /\ Takeable(proxies', leases') \subseteq Takeable(proxies, leases)

LEMMA NothingNewWakeful ==
    ASSUME Wakeful, NothingNew, UNCHANGED worker, HasQueued' => UNCHANGED queueRetry
    PROVE  Wakeful'
<1>1. HasIdle' => HasIdle
  BY DEF NothingNew, HasIdle
<1> QED BY <1>1 DEF Wakeful, NothingNew, Awake, worker

LEMMA SameNothingNew ==
    ASSUME UNCHANGED << proxies, leases, queues >>
    PROVE  NothingNew
BY DEF NothingNew, HasQueued, queues

LEMMA WokenWakeful ==
    ASSUME TInv, Wake
    PROVE  Wakeful'
<1>1. wakes' > 0
  BY MaxWakesAssumption DEF Wake, TInv, TypeOK
<1> QED BY <1>1 DEF Wakeful, Awake

\* One proxy changes, and is not idle afterwards; the leases stay.
LEMMA ChangedNothingNew ==
    ASSUME TInv, UNCHANGED << leases, queues >>, NEW p, NEW x,
           proxies' = [proxies EXCEPT ![p] = x],
           x.status = "idle" => proxies[p].status = "idle" /\ x.disabled = proxies[p].disabled
    PROVE  NothingNew
<1>1. \A q \in Proxies : proxies'[q] = IF q = p THEN x ELSE proxies[q]
  BY DEF TInv, TypeOK
<1>2. Takeable(proxies', leases') \subseteq Takeable(proxies, leases)
  BY <1>1 DEF Takeable
<1> QED BY <1>2 DEF NothingNew, HasQueued, queues

LEMMA SucceededWakeful ==
    ASSUME TInv, Plain, Wakeful, LeasedNotIdle, NEW r \in Callers, probeSucceeded(r)
    PROVE  Wakeful'
<1> DEFINE c == reqs[r].client
           p == reqs[r].proxy
<1>1. /\ c \in Clients /\ p \in Proxies /\ reqs[r].pc = "probe"
      /\ proxies \in [Proxies -> Proxy] /\ leases \in [Clients -> Lease]
      /\ ~reqs[r].refresh /\ reqs[r].ambiguous = {}
  BY ProbedReserved DEF probeSucceeded, Probed, TInv, TypeOK, Plain, PlainCalls, PlainCall
<1>2. activateCheckedProxy(r, restoreProbes(failProbes(proxies, {}, c), {}, c))
  <2>1. PICK validated \in SUBSET reqs[r].ambiguous :
           activateCheckedProxy(r, restoreProbes(failProbes(proxies, validated, c),
                                                 reqs[r].ambiguous, c))
    BY DEF probeSucceeded
  <2>2. validated = {}
    BY <1>1
  <2> QED BY <1>1, <2>1, <2>2
<1>3. activateCheckedProxy(r, proxies)
  <2>1. failProbes(proxies, {}, c) = proxies /\ restoreProbes(proxies, {}, c) = proxies
    BY <1>1 DEF failProbes, restoreProbes
  <2> QED BY <1>2, <2>1
<1>4. /\ proxies'[p].status = "active"
      /\ \A q \in Proxies : q # p => proxies'[q] = proxies[q]
  BY <1>1, <1>3, ActivatedPool
<1>5. \A d \in Clients : d # c => leases'[d] = leases[d]
  BY <1>1, SucceededPool
<1> HIDE DEF c, p
<1>6. Takeable(proxies', leases') \subseteq Takeable(proxies, leases)
  <2> SUFFICES ASSUME NEW q \in Takeable(proxies', leases')
               PROVE  ~HasActiveLease(leases, q)
    BY <1>4 DEF Takeable
  <2>1. q \in Proxies /\ q # p /\ proxies[q].status = "idle" /\ ~HasActiveLease(leases', q)
    BY <1>4 DEF Takeable
  <2>2. \A d \in Clients : Live(d) => leases[d].proxy # q
    <3>1. CASE \A x, y \in Proxies : x = y
      BY <1>1, <2>1, <3>1
    <3>2. CASE \A d \in Clients : Live(d) => proxies[leases[d].proxy].status # "idle"
      BY <2>1, <3>2
    <3> QED BY <3>1, <3>2 DEF LeasedNotIdle
  <2> QED BY <2>1, <2>2, SlotsAssumption DEF HasActiveLease, Live, HasLease
<1>7. /\ pendingNew' = removeIP(pendingNew, c) /\ pendingRefs' = << >>
      /\ queueRetry' = (queueRetry /\ ~(pendingNew' = << >> /\ pendingRefs' = << >>))
  BY <1>3, EmptyQueue DEF activateCheckedProxy, removeQueued, removeIP, Plain, c
<1>8. HasQueued' => HasQueued
  BY <1>7, EmptyQueue DEF HasQueued, removeIP
<1>9. HasQueued' => UNCHANGED queueRetry
  BY <1>7 DEF HasQueued, TInv, TypeOK
<1> QED BY <1>6, <1>8, <1>9, NothingNewWakeful DEF NothingNew, probeSucceeded

LEMMA EnsureWakeful ==
    ASSUME TInv, Plain, NotifyingEvents, Wakeful, LeasedNotIdle, NEW r \in Callers, EnsureStep(r)
    PROVE  Wakeful'
<1>0. proxies \in [Proxies -> Proxy]
  BY DEF TInv, TypeOK
<1>1. CASE reserveProxyForLease(r)
  <2>1. PlainReserve(r)
    BY <1>1, PlainReserves
  <2>2. CASE UNCHANGED << proxies, queues >>
    BY <2>1, <2>2, SameNothingNew, NothingNewWakeful DEF PlainReserve, timers
  <2>3. CASE ~HasIdle /\ UNCHANGED proxies
    BY <2>1, <2>3 DEF PlainReserve, Wakeful, HasIdle
  <2>4. ASSUME NEW p \in Takeable(proxies, leases), UNCHANGED queues,
               proxies' = ReservedPool(proxies, p, reqs[r].client)
        PROVE  Wakeful'
    <3> DEFINE x == [proxies[p] EXCEPT !.status = "checking", !.client = reqs[r].client,
                                       !.drainingFor = NoClient]
    <3>1. p \in Proxies
      BY DEF Takeable
    <3>2. proxies' = [proxies EXCEPT ![p] = x] /\ x.status = "checking"
      BY <1>0, <2>4, <3>1 DEF ReservedPool, Proxy
    <3> HIDE DEF x
    <3>3. NothingNew
      BY <2>1, <2>4, <3>1, <3>2, ChangedNothingNew DEF PlainReserve
    <3> QED BY <2>1, <3>3, NothingNewWakeful DEF PlainReserve, timers
  <2> QED BY <2>1, <2>2, <2>3, <2>4 DEF PlainReserve
<1>2. CASE probeSuperseded(r)
  <2> DEFINE p == reqs[r].proxy
  <2>1. p \in Proxies
    BY <1>2, ProbeTyped DEF probeSuperseded
  <2>2. CASE UNCHANGED proxies
    BY <1>2, <2>2, SameNothingNew, NothingNewWakeful DEF probeSuperseded, timers
  <2>3. CASE proxies' = [proxies EXCEPT ![p] = unreserveDisabled(@)]
    <3>1. /\ proxies' = [proxies EXCEPT ![p] = unreserveDisabled(proxies[p])]
          /\ unreserveDisabled(proxies[p]).status = "disabled"
      BY <1>0, <2>1, <2>3 DEF unreserveDisabled, Proxy
    <3>2. NothingNew
      BY <1>2, <2>1, <3>1, ChangedNothingNew DEF probeSuperseded
    <3> QED BY <1>2, <3>2, NothingNewWakeful DEF probeSuperseded, timers
  <2> QED BY <1>2, <2>2, <2>3 DEF probeSuperseded
<1>3. CASE probeExitFailure(r)
  <2> DEFINE p == reqs[r].proxy
  <2>1. p \in Proxies /\ reqs[r].ambiguous = {}
    BY <1>3, ProbeTyped DEF probeExitFailure, Probed, Plain, PlainCalls, PlainCall
  <2>2. PICK validated \in SUBSET reqs[r].ambiguous :
           proxies' = [failProbes(proxies, validated, reqs[r].client)
                          EXCEPT ![p] = markProbeFailed(@)]
    BY <1>3 DEF probeExitFailure
  <2>3. failProbes(proxies, validated, reqs[r].client) = proxies
    BY <1>0, <2>1 DEF failProbes
  <2>4. /\ proxies' = [proxies EXCEPT ![p] = markProbeFailed(proxies[p])]
        /\ markProbeFailed(proxies[p]).status = "unhealthy"
    BY <1>0, <2>1, <2>2, <2>3 DEF markProbeFailed, Proxy
  <2>5. NothingNew
    BY <1>3, <2>1, <2>4, ChangedNothingNew DEF probeExitFailure
  <2> QED BY <1>3, <2>5, NothingNewWakeful DEF probeExitFailure, timers
<1>4. CASE probeSucceeded(r)
  BY <1>4, SucceededWakeful
<1> QED BY <1>1, <1>2, <1>3, <1>4, PlainEnsure

LEMMA QueueWakeful ==
    ASSUME TInv, Plain, Wakeful, QueueStep
    PROVE  Wakeful'
<1>0. UNCHANGED << proxies, leases >>
  BY DEF QueueStep, processQueueAsync, nextQueuedClient, finishQueue, queueTimerFires,
         queueBackoffElapses
<1>1. HasIdle' <=> HasIdle
  BY <1>0 DEF HasIdle
<1>2. CASE processQueueAsync
  <2>1. HasQueued' <=> HasQueued
    BY <1>2 DEF processQueueAsync, HasQueued, queues
  <2> QED BY <1>1, <1>2, <2>1 DEF processQueueAsync, Wakeful, Awake
<1>3. CASE nextQueuedClient
  <2>1. HasQueued' => HasQueued
    BY <1>3 DEF nextQueuedClient, HasQueued, queues
  <2> QED BY <1>1, <1>3, <2>1 DEF nextQueuedClient, Wakeful, Awake, worker, timers
<1>4. CASE finishQueue \/ queueTimerFires
  <2>1. HasQueued' <=> HasQueued
    BY <1>4 DEF finishQueue, queueTimerFires, HasQueued, queues
  <2>2. CASE HasQueued /\ HasIdle
    BY <1>4, <2>2, WokenWakeful DEF finishQueue, queueTimerFires
  <2>3. CASE ~(HasQueued /\ HasIdle)
    BY <1>1, <2>1, <2>3 DEF Wakeful
  <2> QED BY <2>2, <2>3
<1>5. CASE queueBackoffElapses
  BY <1>5, SameNothingNew, NothingNewWakeful DEF queueBackoffElapses
<1> QED BY <1>2, <1>3, <1>4, <1>5 DEF QueueStep

LEMMA ConnectionWakeful ==
    ASSUME TInv, Wakeful, NEW k \in Conns,
           UnregisterConn(k) \/ \E c \in Clients : AcquireProxyConn(k, c)
    PROVE  Wakeful'
<1>0. proxies \in [Proxies -> Proxy] /\ leases \in [Clients -> Lease]
  BY DEF TInv, TypeOK
<1>1. CASE UnregisterConn(k)
  <2> DEFINE p == conns[k].proxy
  <2>1. UNCHANGED << leases, queues, queueActive, timers >>
    BY <1>1 DEF UnregisterConn
  <2>2. CASE Wake
    BY <2>2, WokenWakeful
  <2>3. CASE UNCHANGED << proxies, wakes >>
    BY <2>1, <2>3, SameNothingNew, NothingNewWakeful DEF worker, timers
  <2>4. CASE UNCHANGED wakes /\ proxies' = [proxies EXCEPT ![p].conns = @ - 1]
    <3>1. CASE p \in Proxies
      <4> DEFINE x == [proxies[p] EXCEPT !.conns = @ - 1]
      <4>1. /\ proxies' = [proxies EXCEPT ![p] = x]
            /\ x.status = proxies[p].status /\ x.disabled = proxies[p].disabled
        BY <1>0, <2>4, <3>1 DEF Proxy
      <4> HIDE DEF x
      <4>2. NothingNew
        BY <2>1, <4>1, ChangedNothingNew
      <4> QED BY <2>1, <2>4, <4>2, NothingNewWakeful DEF worker, timers
    <3>2. CASE p \notin Proxies
      <4>1. proxies' = proxies
        BY <1>0, <2>4, <3>2
      <4> QED BY <2>3, <2>4, <4>1
    <3> QED BY <3>1, <3>2
  <2>5. CASE /\ UNCHANGED wakes /\ proxies[p].disabled
             /\ proxies' = [proxies EXCEPT ![p] = drainedProxy(@)]
    <3>1. CASE p \in Proxies
      <4>1. /\ proxies' = [proxies EXCEPT ![p] = drainedProxy(proxies[p])]
            /\ drainedProxy(proxies[p]).status = "disabled"
        BY <1>0, <2>5, <3>1 DEF drainedProxy, Proxy
      <4>2. NothingNew
        BY <2>1, <4>1, ChangedNothingNew
      <4> QED BY <2>1, <2>5, <4>2, NothingNewWakeful DEF worker, timers
    <3>2. CASE p \notin Proxies
      <4>1. proxies' = proxies
        BY <1>0, <2>5, <3>2
      <4> QED BY <2>3, <2>5, <4>1
    <3> QED BY <3>1, <3>2
  <2> QED BY <1>1, <2>2, <2>3, <2>4, <2>5 DEF UnregisterConn
<1>2. ASSUME NEW c \in Clients, AcquireProxyConn(k, c)
      PROVE  Wakeful'
  <2> DEFINE p == leases[c].proxy
             x == [proxies[p] EXCEPT !.conns = @ + 1]
  <2>1. p \in Proxies /\ proxies[p].status = "active"
    BY <1>0, <1>2 DEF AcquireProxyConn, Live, HasLease, Lease
  <2>2. proxies' = [proxies EXCEPT ![p] = x] /\ x.status = "active"
    <3>1. proxies' = [proxies EXCEPT ![p] = x]
      BY <1>2 DEF AcquireProxyConn
    <3>2. x.status = proxies[p].status
      BY <1>0, <2>1 DEF Proxy
    <3> QED BY <2>1, <3>1, <3>2
  <2> HIDE DEF x, p
  <2>3. NothingNew
    BY <1>2, <2>2, ChangedNothingNew DEF AcquireProxyConn
  <2> QED BY <1>2, <2>3, NothingNewWakeful DEF AcquireProxyConn, timers
<1> QED BY <1>1, <1>2

LEMMA PoolWakeful ==
    ASSUME NotifyingEvents, TInv, Wakeful, NEW p \in Proxies,
           proxyCheckSnapshot(p) \/ recordHealth(p) \/ Administered(p)
    PROVE  Wakeful'
<1>0. proxies \in [Proxies -> Proxy]
  BY DEF TInv, TypeOK
<1>1. CASE Wake
  BY <1>1, WokenWakeful
<1>2. CASE UNCHANGED << proxies, leases, queues, worker, timers >>
  BY <1>2, SameNothingNew, NothingNewWakeful DEF timers
<1>3. CASE /\ UNCHANGED << leases, queues, worker, timers >>
           /\ proxies' = [proxies EXCEPT ![p].status = "unhealthy"]
  <2> DEFINE x == [proxies[p] EXCEPT !.status = "unhealthy"]
  <2>1. proxies' = [proxies EXCEPT ![p] = x] /\ x.status = "unhealthy"
    BY <1>0, <1>3 DEF Proxy
  <2> HIDE DEF x
  <2>2. NothingNew
    BY <1>3, <2>1, ChangedNothingNew
  <2> QED BY <1>3, <2>2, NothingNewWakeful DEF timers
<1>4. CASE UNCHANGED << leases, queues, worker, timers >> /\ proxies' = [proxies EXCEPT ![p] = Absent]
  <2>1. NothingNew
    BY <1>4, ChangedNothingNew DEF Absent
  <2> QED BY <1>4, <2>1, NothingNewWakeful DEF timers
<1>5. proxyCheckSnapshot(p) => UNCHANGED << proxies, leases, queues, worker, timers >>
  BY DEF proxyCheckSnapshot
<1>6. CASE recordHealth(p)
  BY <1>1, <1>2, <1>3, <1>6 DEF recordHealth, worker
<1>7. CASE Administered(p)
  <2>1. \A d \in BOOLEAN : AddProxy(p, d) \/ UpdateProxy(p, d) \/ SetProxyDisabled(p, d) => Wake
    BY DEF AddProxy, UpdateProxy, SetProxyDisabled, ChangeProxy, NotifyingEvents
  <2>2. DeleteProxy(p) => /\ UNCHANGED << leases, queues, worker, timers >>
                          /\ proxies' = [proxies EXCEPT ![p] = Absent]
    BY DEF DeleteProxy
  <2> QED BY <1>1, <1>4, <1>7, <2>1, <2>2 DEF Administered
<1> QED BY <1>2, <1>5, <1>6, <1>7

LEMMA WakefulStep ==
    ASSUME NotifyingEvents, TInv, Plain, LeasedNotIdle, Wakeful, [Next]_vars
    PROVE  Wakeful'
<1>1. CASE \E r \in Callers : EnsureStep(r)
  BY <1>1, EnsureWakeful
<1>2. CASE QueueStep
  BY <1>2, QueueWakeful
<1>3. CASE UNCHANGED vars \/ \E r \in Requests, c \in Clients : ensureLease(r, c, FALSE)
  <2>1. UNCHANGED << proxies, leases, queues, worker, timers >>
    BY <1>3 DEF vars, ensureLease
  <2> QED BY <2>1, SameNothingNew, NothingNewWakeful DEF timers
<1>4. CASE \E c \in Clients : Release(c)
  BY <1>4, WokenWakeful DEF Release
<1>5. CASE \E k \in Conns : UnregisterConn(k) \/ \E c \in Clients : AcquireProxyConn(k, c)
  BY <1>5, ConnectionWakeful
<1>6. CASE \E p \in Proxies : proxyCheckSnapshot(p) \/ recordHealth(p) \/ Administered(p)
  BY <1>6, PoolWakeful
<1>7. CASE Restart
  BY <1>7 DEF Restart, Wakeful, HasQueued
<1> QED BY <1>1, <1>2, <1>3, <1>4, <1>5, <1>6, <1>7, PlainOthers

\* When nobody deletes proxies, leased ones are active or unhealthy, whatever
\* health results arrive; a refresh, which could leave one, does not happen.
LEMMA UsableInvariant ==
    ASSUME NotifyingEvents, "admin" \notin Events
    PROVE  Spec => [](IInv /\ Plain /\ LeasedUsable(proxies, leases))
<1> DEFINE Usable == LeasedUsable(proxies, leases)
<1>1. Spec => []IInv
  BY LeasesInvariant DEF NotifyingEvents
<1>2. Init => Plain /\ Usable
  <2> SUFFICES ASSUME Init PROVE Usable
    BY PlainInit
  <2>1. \A c \in Clients : leases[c].proxy = NoProxy
    BY DEF Init, NoLease
  <2> QED BY <2>1 DEF LeasedUsable
<1>3. IInv /\ Plain /\ Usable /\ [Next]_vars => (Plain /\ Usable)'
  <2> SUFFICES ASSUME IInv, Plain, Usable, [Next]_vars PROVE Plain' /\ Usable'
    OBVIOUS
  <2>1. Plain'
    BY PlainStep DEF IInv
  <2>2. \A r \in Callers : ~reqs[r].refresh
    BY DEF Plain, PlainCalls, PlainCall
  <2>3. LeasedUsable(proxies', leases')
    BY <2>2, UsableStep
  <2> QED BY <2>1, <2>3 DEF LeasedUsable
<1> HIDE DEF Usable
<1>4. Spec => [](IInv /\ Plain /\ Usable)
  BY <1>1, <1>2, <1>3, PTL DEF Spec
<1> QED BY <1>4 DEF Usable

\* No wake-up is lost: whenever a client waits and a proxy is idle, the queue's
\* worker or its retry timer is active or a wake-up is on its way, however
\* releases, drains, recoveries, administration, restarts and the worker's own
\* end overlap with calls that queue their client.  Without a front (whose
\* batches are given back without a wake-up), cancelled calls, expiry (neither
\* wakes the queue), refreshes and failed writes; and health results and the
\* administrator do not both interfere unless there is only one proxy: together
\* they can make a leased proxy idle, and a second call in progress for its
\* client then frees that proxy without a wake-up.
THEOREM WakeupsKept ==
    ASSUME ~FrontEnabled, Events \subseteq {"health", "admin", "restart"},
           \/ "health" \notin Events
           \/ "admin" \notin Events
           \/ \A p, q \in Proxies : p = q
    PROVE  Spec => []NoLostWakeup
<1> DEFINE Inv == TInv /\ Plain /\ LeasedNotIdle
<1>0. NotifyingEvents /\ "dbfail" \notin Events
  BY DEF NotifyingEvents
<1>1. TInv /\ Plain /\ [Next]_vars => (TInv /\ Plain)'
  BY <1>0, TypeStep, PlainStep
<1>2. Spec => [](TInv /\ Plain)
  BY <1>1, InitTypes, PlainInit, PTL DEF Spec
<1>3. Spec => []Inv
  <2>1. CASE "health" \notin Events
    <3>1. QInv => LeasedNotIdle
      BY DEF QInv, QuietPool, LeasedActive, LeasedNotIdle, Live, HasLease
    <3> QED BY <1>0, <1>2, <2>1, <3>1, QuietInvariant, PTL
  <2>2. CASE "admin" \notin Events
    <3>1. IInv /\ Plain /\ LeasedUsable(proxies, leases) => Inv
      BY DEF IInv, LeasedUsable, LeasedNotIdle, Live, HasLease
    <3> QED BY <1>0, <2>2, <3>1, UsableInvariant, PTL
  <2>3. CASE \A p, q \in Proxies : p = q
    <3>1. TInv /\ Plain => Inv
      BY <2>3 DEF LeasedNotIdle
    <3> QED BY <1>2, <3>1, PTL
  <2> QED BY <2>1, <2>2, <2>3
<1>4. Init => Wakeful
  BY DEF Init, Wakeful, HasQueued
<1>5. Inv /\ Wakeful /\ [Next]_vars => Wakeful'
  BY <1>0, WakefulStep
<1>6. Wakeful => NoLostWakeup
  BY DEF Wakeful, Awake, NoLostWakeup
<1> HIDE DEF Inv
<1> QED BY <1>3, <1>4, <1>5, <1>6, PTL DEF Spec
=============================================================================
