------------------------- MODULE DynamicLeaseProofs -------------------------
(***************************************************************************)
(* Proofs about DynamicLease, for every set of clients, proxies, endpoints *)
(* and connections: what the maps and the tables hold, which proxies a     *)
(* connection and a lease keep, who is given an endpoint, and that the     *)
(* calls of a client take turns as ClientMutex describes it.               *)
(***************************************************************************)
EXTENDS DynamicLease, FiniteSetTheorems, TLAPS

\* What a call between two sections carries.
KnownCall(v) ==
    /\ v.pc # "idle" => v.client \in Clients
    /\ v.pc \in {"gate", "refused"} \cup Inside => v.params \in Params
    /\ v.pc \in {"duplicate", "probe"} => v.address \in Addresses
    /\ v.pc = "poolprobe" => v.proxy \in Pool

ProxyPart ==
    /\ proxies \in [Proxies -> Proxy]
    /\ \A p \in Pool : Present(p)
    /\ \A p \in Proxies : ~Present(p) => proxies[p].conns = 0 /\ proxies[p].drainingFor = NoClient
DropPart == dropping \subseteq Ids /\ \A i \in dropping : ~Present(i)
LeasePart == leases \in [Clients -> Lease]
QueuePart == pendingNew \subseteq Clients /\ pendingRefs \subseteq Clients /\ sweep \subseteq Clients
ConnPart == conns \in [Conns -> [client : Clients \cup {NoClient}, proxy : Proxies \cup {NoProxy}]]
CallPart == calls \in [Callers -> Call] /\ \A r \in Callers : KnownCall(calls[r])
TablePart == rows \in [Ids -> Row] /\ dbLeases \in [Clients -> Proxies \cup {NoProxy}]

Basic ==
    ProxyPart /\ DropPart /\ LeasePart /\ QueuePart /\ ConnPart /\ CallPart /\ TablePart

LEMMA BasicTypes == Basic => TypeOK
BY DEF Basic, ProxyPart, DropPart, LeasePart, QueuePart, ConnPart, CallPart, TablePart, TypeOK

----------------------------------------------------------------------------
(* The records.                                                            *)

LEMMA AbsentForm ==
    /\ Absent \in Proxy /\ Absent.status = "absent" /\ Absent.conns = 0
    /\ Absent.client = NoClient /\ Absent.drainingFor = NoClient
    /\ Absent.address = NoAddress /\ Absent.params = NoParams
BY DEF Absent, Proxy

LEMMA MarkIdleForm ==
    ASSUME NEW p \in Proxy
    PROVE  /\ markProxyIdle(p) \in Proxy
           /\ markProxyIdle(p).client = NoClient /\ markProxyIdle(p).drainingFor = NoClient
           /\ markProxyIdle(p).conns = 0
           /\ markProxyIdle(p).status = IF p.status = "unhealthy" THEN "unhealthy" ELSE "idle"
           /\ markProxyIdle(p).address = p.address /\ markProxyIdle(p).params = p.params
BY DEF markProxyIdle, Proxy

LEMMA UnbindForm ==
    ASSUME NEW p \in Proxy, NEW c \in Clients
    PROVE  LET q == releaseProxyBinding(p, c) IN
           /\ q \in Proxy
           /\ q.client = NoClient /\ q.conns = p.conns
           /\ q.drainingFor = IF p.conns > 0 THEN c ELSE NoClient
           /\ q.status = IF p.status = "unhealthy" THEN "unhealthy"
                         ELSE IF p.conns > 0 THEN "draining" ELSE "idle"
           /\ q.address = p.address /\ q.params = p.params
<1>1. CASE p.conns > 0
  BY <1>1 DEF releaseProxyBinding, Proxy
<1>2. CASE ~(p.conns > 0)
  BY <1>2 DEF releaseProxyBinding, Proxy
<1> QED BY <1>1, <1>2

LEMMA DrainForm ==
    ASSUME NEW p \in Proxy, NEW c \in Clients
    PROVE  LET q == drain(p, c) IN
           /\ q \in Proxy
           /\ q.status = "draining" /\ q.client = NoClient /\ q.drainingFor = c
           /\ q.conns = p.conns /\ q.address = p.address /\ q.params = p.params
BY DEF drain, Proxy

LEMMA NoLeaseForm ==
    /\ NoLease \in Lease /\ NoLease.proxy = NoProxy
    /\ NoLease.params = NoParams /\ NoLease.expired = FALSE
BY DEF NoLease, Lease

LEMMA IdleCallForm == IdleCall \in Call /\ KnownCall(IdleCall) /\ IdleCall.pc = "idle"
BY DEF IdleCall, Call, KnownCall, Inside

LEMMA LeaseProxy ==
    ASSUME LeasePart, NEW c \in Clients
    PROVE  /\ leases[c] \in Lease
           /\ leases[c].proxy \in Proxies \cup {NoProxy}
           /\ leases[c].expired \in BOOLEAN
           /\ HasLease(c) => leases[c].proxy \in Proxies
BY DEF LeasePart, Lease, HasLease

----------------------------------------------------------------------------
(* The release of a lease.                                                 *)

LEMMA UnboundForm ==
    ASSUME Basic, NEW c \in Clients, NEW p \in Proxies
    PROVE  LET q == unboundProxies(c)[p] IN
           /\ q \in Proxy
           /\ q.conns = proxies[p].conns
           /\ q.status = "absent" <=> ~Present(p)
           /\ q.address = proxies[p].address /\ q.params = proxies[p].params
           /\ \/ q = proxies[p]
              \/ /\ q = releaseProxyBinding(proxies[p], c)
                 /\ \/ p = leases[c].proxy /\ Present(p) /\ ~HasActiveLease(releasedLeases(c), p)
                    \/ proxies[p].drainingFor = c
           /\ ~Present(p) => q = proxies[p]
<1>1. proxies[p] \in Proxy /\ (~Present(p) => proxies[p].drainingFor = NoClient) /\ c # NoClient
  BY NamesAssumption DEF Basic, ProxyPart
<1>2. proxies[p].status \in {"absent", "idle", "checking", "active", "draining", "unhealthy"}
  BY <1>1 DEF Proxy
<1>3. CASE /\ unboundProxies(c)[p] = releaseProxyBinding(proxies[p], c)
           /\ Present(p)
           /\ \/ p = leases[c].proxy /\ Present(p) /\ ~HasActiveLease(releasedLeases(c), p)
              \/ proxies[p].drainingFor = c
  <2>1. LET q == releaseProxyBinding(proxies[p], c) IN
        /\ q \in Proxy /\ q.conns = proxies[p].conns /\ q.status # "absent"
        /\ q.address = proxies[p].address /\ q.params = proxies[p].params
    BY <1>1, UnbindForm
  <2> QED BY <1>3, <2>1 DEF Present
<1>4. CASE unboundProxies(c)[p] = proxies[p]
  BY <1>1, <1>4 DEF Present
<1> QED BY <1>1, <1>3, <1>4, Zenon DEF unboundProxies

LEMMA ReleasedForm ==
    ASSUME Basic, NEW c \in Clients, NEW p \in Proxies
    PROVE  LET q == releasedProxies(c)[p] IN
           /\ q \in Proxy
           /\ q.conns = proxies[p].conns
           /\ ~Present(p) => q = proxies[p]
           /\ q.status # "absent" => q.address = proxies[p].address /\ q.params = proxies[p].params
           /\ \/ /\ q = Absent /\ p \in Ids /\ Present(p) /\ proxies[p].conns = 0
                 /\ ~HasActiveLease(releasedLeases(c), p)
                 /\ p \in unowned(unboundProxies(c), releasedLeases(c))
              \/ /\ q = unboundProxies(c)[p]
                 /\ p \notin unowned(unboundProxies(c), releasedLeases(c))
<1> DEFINE gone == unowned(unboundProxies(c), releasedLeases(c))
<1>1. releasedProxies(c)[p] = IF p \in gone THEN Absent ELSE unboundProxies(c)[p]
  BY DEF releasedProxies
<1>2. p \in gone => /\ p \in Ids /\ unboundProxies(c)[p].status # "absent"
                    /\ unboundProxies(c)[p].conns = 0 /\ ~HasActiveLease(releasedLeases(c), p)
  BY DEF unowned
<1>3. LET q == unboundProxies(c)[p] IN
      /\ q \in Proxy
      /\ q.conns = proxies[p].conns
      /\ q.status = "absent" <=> ~Present(p)
      /\ q.address = proxies[p].address /\ q.params = proxies[p].params
      /\ ~Present(p) => q = proxies[p]
  BY UnboundForm
<1>4. CASE p \in gone
  BY <1>1, <1>2, <1>3, <1>4, AbsentForm
<1>5. CASE p \notin gone
  BY <1>1, <1>3, <1>5
<1> QED BY <1>4, <1>5

\* What a release leaves of the pool.
LEMMA ReleasedPool ==
    ASSUME Basic, NEW c \in Clients
    PROVE  /\ releasedProxies(c) \in [Proxies -> Proxy]
           /\ \A p \in Pool : releasedProxies(c)[p].status # "absent"
           /\ \A p \in Proxies : /\ releasedProxies(c)[p].conns = proxies[p].conns
                                 /\ ~Present(p) => releasedProxies(c)[p] = proxies[p]
           /\ \A p \in Proxies : releasedProxies(c)[p].status = "absent" =>
                 releasedProxies(c)[p].conns = 0 /\ releasedProxies(c)[p].drainingFor = NoClient
<1>1. \A p \in Proxies : releasedProxies(c)[p] \in Proxy
  BY ReleasedForm
<1>2. releasedProxies(c) = [p \in Proxies |-> releasedProxies(c)[p]]
  BY DEF releasedProxies
<1>3. \A p \in Proxies : /\ releasedProxies(c)[p].conns = proxies[p].conns
                         /\ ~Present(p) => releasedProxies(c)[p] = proxies[p]
  BY ReleasedForm
<1>4. ASSUME NEW p \in Pool PROVE releasedProxies(c)[p].status # "absent"
  <2>1. Present(p) /\ p \notin Ids /\ p \in Proxies
    BY NamesAssumption DEF Basic, ProxyPart, Proxies
  <2>2. releasedProxies(c)[p] = unboundProxies(c)[p]
    BY <2>1, ReleasedForm
  <2> QED BY <2>1, <2>2, UnboundForm
<1>5. ASSUME NEW p \in Proxies, releasedProxies(c)[p].status = "absent"
      PROVE  releasedProxies(c)[p].conns = 0 /\ releasedProxies(c)[p].drainingFor = NoClient
  <2>1. CASE releasedProxies(c)[p] = Absent
    BY <2>1, AbsentForm
  <2>2. CASE releasedProxies(c)[p] = unboundProxies(c)[p]
    <3>1. ~Present(p)
      BY <1>5, <2>2, UnboundForm
    <3>2. releasedProxies(c)[p] = proxies[p]
      BY <1>3, <3>1
    <3> QED BY <3>1, <3>2 DEF Basic, ProxyPart
  <2> QED BY <2>1, <2>2, ReleasedForm
<1> QED BY <1>1, <1>2, <1>3, <1>4, <1>5

----------------------------------------------------------------------------
(* Calls.                                                                  *)

LEMMA CallStep ==
    ASSUME CallPart, NEW r \in Callers, NEW v \in Call, KnownCall(v),
           calls' = [calls EXCEPT ![r] = v]
    PROVE  CallPart'
BY DEF CallPart, KnownCall

LEMMA GotoForm ==
    ASSUME CallPart, NEW r \in Callers, NEW pc \in {"gate", "reserve", "poolprobe", "refused"} \cup Inside,
           Goto(r, pc)
    PROVE  \E v \in Call :
           /\ calls' = [calls EXCEPT ![r] = v] /\ v.pc = pc
           /\ v.client = calls[r].client /\ v.params = calls[r].params
           /\ v.refresh = calls[r].refresh
           /\ v.address = calls[r].address /\ v.proxy = calls[r].proxy
<1> DEFINE v == [calls[r] EXCEPT !.pc = pc]
<1>1. calls[r] \in Call
  BY DEF CallPart
<1>2. /\ calls' = [calls EXCEPT ![r] = v] /\ v \in Call /\ v.pc = pc
      /\ v.client = calls[r].client /\ v.params = calls[r].params
      /\ v.refresh = calls[r].refresh
      /\ v.address = calls[r].address /\ v.proxy = calls[r].proxy
  BY <1>1 DEF Goto, Call, CallPart
<1> HIDE DEF v
<1> QED BY <1>2

LEMMA StartsForm ==
    ASSUME CallPart, NEW r \in Callers, NEW c \in Clients,
           NEW pc \in {"gate", "reserve"}, NEW q \in Params \cup {NoParams}, NEW b \in BOOLEAN,
           pc = "gate" => q \in Params,
           Starts(r, c, pc, q, b)
    PROVE  \E v \in Call : /\ calls' = [calls EXCEPT ![r] = v] /\ KnownCall(v)
                           /\ v.pc = pc /\ v.client = c /\ v.params = q /\ v.refresh = b
<1> DEFINE v == [IdleCall EXCEPT !.pc = pc, !.client = c, !.params = q, !.refresh = b]
<1>1. /\ calls' = [calls EXCEPT ![r] = v] /\ v \in Call /\ KnownCall(v)
      /\ v.pc = pc /\ v.client = c /\ v.params = q /\ v.refresh = b
  BY DEF Starts, IdleCall, Call, KnownCall, Inside
<1> HIDE DEF v
<1> QED BY <1>1

LEMMA FailsForm ==
    ASSUME CallPart, NEW r \in Callers, Fails(r)
    PROVE  \E v \in Call :
           /\ calls' = [calls EXCEPT ![r] = v] /\ v.pc = "failing"
           /\ v.client = calls[r].client /\ v.params = calls[r].params
           /\ v.refresh = calls[r].refresh
<1> DEFINE v == [calls[r] EXCEPT !.pc = "failing", !.address = NoAddress]
<1>1. calls[r] \in Call
  BY DEF CallPart
<1>2. /\ calls' = [calls EXCEPT ![r] = v] /\ v \in Call /\ v.pc = "failing"
      /\ v.client = calls[r].client /\ v.params = calls[r].params
      /\ v.refresh = calls[r].refresh
  BY <1>1 DEF Fails, Call, CallPart, Inside
<1> HIDE DEF v
<1> QED BY <1>2

LEMMA ReturnsStep ==
    ASSUME CallPart, NEW r \in Callers, Returns(r) PROVE CallPart'
BY IdleCallForm, CallStep DEF Returns

\* The steps of a call that leave the pool, the leases and the tables alone.
Quiet(r) ==
    \/ enterGate(r) \/ gateCanceled(r) \/ checkCurrent(r) \/ acquireEndpoint(r)
    \/ checkDuplicate(r) \/ probeFailed(r) \/ activationRefused(r) \/ dynamicLeaseError(r)

\* What such a step makes of its call.
Onward(v, w) ==
    /\ w.client = v.client /\ w.params = v.params /\ w.refresh = v.refresh
    /\ v.pc # "idle"
    /\ w.pc \in {"duplicate", "probe"} => w.address \in Addresses
    /\ w.pc \notin {"idle", "reserve", "poolprobe", "gate"}
    /\ w.pc = "refused" => v.pc = "gate"
    /\ w.pc # "refused" => (v.pc = "gate" /\ w.pc = "check") \/ v.pc \in Inside

LEMMA QuietForm ==
    ASSUME CallPart, NEW r \in Calls, Quiet(r)
    PROVE  /\ OnlyCalls
           /\ calls[r].pc # "idle"
           /\ \E w \in Call :
                /\ calls' = [calls EXCEPT ![r] = w]
                /\ \/ w = IdleCall
                   \/ Onward(calls[r], w)
<1>0. r \in Callers /\ calls[r] \in Call /\ KnownCall(calls[r])
  BY DEF Callers, CallPart
<1>1. ASSUME NEW pc, pc \in {"refused"} \cup Inside, Goto(r, pc), calls[r].pc # "idle",
             pc \in {"duplicate", "probe"} => calls[r].address \in Addresses,
             pc = "refused" => calls[r].pc = "gate",
             pc # "refused" => (calls[r].pc = "gate" /\ pc = "check") \/ calls[r].pc \in Inside
      PROVE  \E w \in Call : calls' = [calls EXCEPT ![r] = w] /\ Onward(calls[r], w)
  <2>1. pc \in {"gate", "reserve", "poolprobe", "refused"} \cup Inside
    BY <1>1
  <2>2. PICK v \in Call : /\ calls' = [calls EXCEPT ![r] = v] /\ v.pc = pc
           /\ v.client = calls[r].client /\ v.params = calls[r].params
           /\ v.refresh = calls[r].refresh
           /\ v.address = calls[r].address /\ v.proxy = calls[r].proxy
    BY <1>0, <1>1, <2>1, GotoForm
  <2> QED BY <1>1, <2>2 DEF Onward, Inside
<1>2. ASSUME Fails(r), calls[r].pc \in Inside
      PROVE  \E w \in Call : calls' = [calls EXCEPT ![r] = w] /\ Onward(calls[r], w)
  <2>1. PICK v \in Call : /\ calls' = [calls EXCEPT ![r] = v] /\ v.pc = "failing"
           /\ v.client = calls[r].client /\ v.params = calls[r].params
           /\ v.refresh = calls[r].refresh
    BY <1>0, <1>2, FailsForm, Zenon
  <2> QED BY <1>2, <2>1 DEF Onward, Inside
<1>3. ASSUME Returns(r)
      PROVE  \E w \in Call : calls' = [calls EXCEPT ![r] = w] /\ w = IdleCall
  BY <1>3, IdleCallForm DEF Returns
<1>4. CASE enterGate(r)
  BY <1>1, <1>4 DEF enterGate, Inside
<1>5. CASE gateCanceled(r)
  BY <1>1, <1>5 DEF gateCanceled
<1>6. CASE checkCurrent(r)
  <2>1. calls[r].pc = "check" /\ OnlyCalls /\ (Returns(r) \/ Goto(r, "acquire"))
    BY <1>6 DEF checkCurrent
  <2> QED BY <1>1, <1>3, <2>1 DEF Inside
<1>7. CASE acquireEndpoint(r)
  <2>1. calls[r].pc = "acquire" /\ OnlyCalls
    BY <1>7 DEF acquireEndpoint
  <2>2. CASE Fails(r)
    BY <1>2, <2>1, <2>2 DEF Inside
  <2>3. ASSUME NEW a \in Addresses,
               calls' = [calls EXCEPT ![r].pc = "duplicate", ![r].address = a]
        PROVE  \E w \in Call : calls' = [calls EXCEPT ![r] = w] /\ Onward(calls[r], w)
    <3> DEFINE v == [calls[r] EXCEPT !.pc = "duplicate", !.address = a]
    <3>1. /\ v \in Call /\ v.pc = "duplicate" /\ v.address = a /\ v.client = calls[r].client
          /\ v.params = calls[r].params /\ v.refresh = calls[r].refresh
      BY <1>0 DEF Call, Inside
    <3>2. calls' = [calls EXCEPT ![r] = v]
      BY <1>0, <2>3 DEF CallPart, Call
    <3>3. Onward(calls[r], v)
      BY <2>1, <3>1 DEF Onward, Inside
    <3> QED BY <3>1, <3>2, <3>3
  <2> QED BY <1>7, <2>1, <2>2, <2>3 DEF acquireEndpoint
<1>8. CASE checkDuplicate(r)
  <2>1. calls[r].pc = "duplicate" /\ OnlyCalls /\ (Fails(r) \/ Goto(r, "probe"))
    BY <1>8 DEF checkDuplicate
  <2>2. calls[r].address \in Addresses
    BY <1>0, <2>1 DEF KnownCall
  <2> QED BY <1>1, <1>2, <2>1, <2>2 DEF Inside
<1>9. CASE probeFailed(r) \/ activationRefused(r)
  <2>1. calls[r].pc = "probe" /\ OnlyCalls /\ Fails(r)
    BY <1>9 DEF probeFailed, activationRefused
  <2> QED BY <1>2, <2>1 DEF Inside
<1>10. CASE dynamicLeaseError(r)
  BY <1>3, <1>10 DEF dynamicLeaseError
<1> QED BY <1>4, <1>5, <1>6, <1>7, <1>8, <1>9, <1>10 DEF Quiet

\* The requests: a call begins.
Requested(r, c) ==
    \/ \E q \in Params, refresh \in BOOLEAN : requestDynamic(r, c, q, refresh)
    \/ requestPool(r, c)
    \/ requestRefresh(r, c)

LEMMA RequestedForm ==
    ASSUME CallPart, LeasePart, NEW r \in Calls, NEW c \in Clients, Requested(r, c)
    PROVE  /\ OnlyCalls
           /\ calls[r].pc = "idle"
           /\ \E w \in Call :
                /\ calls' = [calls EXCEPT ![r] = w] /\ KnownCall(w)
                /\ w.pc \in {"gate", "reserve"} /\ w.client = c
<1>0. r \in Callers
  BY DEF Callers
<1>1. ASSUME NEW pc \in {"gate", "reserve"}, NEW q \in Params \cup {NoParams}, NEW b \in BOOLEAN,
             pc = "gate" => q \in Params, Starts(r, c, pc, q, b)
      PROVE  \E w \in Call : /\ calls' = [calls EXCEPT ![r] = w] /\ KnownCall(w)
                             /\ w.pc \in {"gate", "reserve"} /\ w.client = c
  <2>1. PICK v \in Call : /\ calls' = [calls EXCEPT ![r] = v] /\ KnownCall(v)
                           /\ v.pc = pc /\ v.client = c
    BY <1>0, <1>1, StartsForm
  <2> QED BY <1>1, <2>1
<1>2. ASSUME NEW q \in Params, NEW b \in BOOLEAN, requestDynamic(r, c, q, b)
      PROVE  /\ OnlyCalls /\ calls[r].pc = "idle"
             /\ \E w \in Call : /\ calls' = [calls EXCEPT ![r] = w] /\ KnownCall(w)
                                /\ w.pc \in {"gate", "reserve"} /\ w.client = c
  BY <1>1, <1>2 DEF requestDynamic
<1>3. CASE requestPool(r, c)
  BY <1>1, <1>3 DEF requestPool
<1>4. CASE requestRefresh(r, c)
  <2>1. leases[c].params \in Params \cup {NoParams}
    BY DEF LeasePart, Lease
  <2>2. /\ OnlyCalls /\ calls[r].pc = "idle"
        /\ \/ leases[c].params # NoParams /\ Starts(r, c, "gate", leases[c].params, TRUE)
           \/ Starts(r, c, "reserve", NoParams, TRUE)
    BY <1>4 DEF requestRefresh
  <2> QED BY <1>1, <2>1, <2>2
<1> QED BY <1>2, <1>3, <1>4 DEF Requested

LEMMA OnlyCallsBasic ==
    ASSUME Basic, OnlyCalls, CallPart' PROVE Basic'
BY DEF Basic, OnlyCalls, pool, db, ProxyPart, DropPart, LeasePart, QueuePart, ConnPart, TablePart, Present

LEMMA QuietBasic == ASSUME Basic, NEW r \in Calls, Quiet(r) PROVE Basic'
<1>0. CallPart /\ r \in Callers /\ KnownCall(calls[r])
  BY DEF Basic, Callers, CallPart
<1>1. PICK w \in Call : /\ calls' = [calls EXCEPT ![r] = w]
                        /\ w = IdleCall \/ Onward(calls[r], w)
  BY <1>0, QuietForm
<1>2. KnownCall(w)
  BY <1>0, <1>1, IdleCallForm DEF Onward, KnownCall, Inside
<1>3. CallPart' /\ OnlyCalls
  BY <1>0, <1>1, <1>2, CallStep, QuietForm
<1> QED BY <1>3, OnlyCallsBasic

LEMMA RequestedBasic == ASSUME Basic, NEW r \in Calls, NEW c \in Clients, Requested(r, c) PROVE Basic'
<1>0. CallPart /\ LeasePart /\ r \in Callers
  BY DEF Basic, Callers
<1>1. CallPart' /\ OnlyCalls
  BY <1>0, RequestedForm, CallStep
<1> QED BY <1>1, OnlyCallsBasic

----------------------------------------------------------------------------
(* The tables.                                                             *)

LEMMA TablesStored ==
    ASSUME TablePart, NEW c \in Clients, NEW p \in Proxies \cup {NoProxy}, storeLease(c, p)
    PROVE  dbLeases' \in [Clients -> Proxies \cup {NoProxy}]
BY DEF TablePart, storeLease

LEMMA TablesDeleted ==
    ASSUME TablePart, NEW ids \in SUBSET Ids, deleteRows(ids)
    PROVE  rows' \in [Ids -> Row]
<1>1. NoRow \in Row
  BY DEF NoRow, Row
<1> QED BY <1>1 DEF TablePart, deleteRows

LEMMA UnownedIds == \A ps, ls : unowned(ps, ls) \in SUBSET Ids
BY DEF unowned

----------------------------------------------------------------------------
(* Releases.                                                               *)

LEMMA ReleaseLeaseBasic ==
    ASSUME Basic, NEW c \in Clients, releaseLease(c), UNCHANGED dropping
    PROVE  ProxyPart' /\ DropPart' /\ LeasePart' /\ TablePart'
<1>1. proxies' = releasedProxies(c) /\ leases' = releasedLeases(c)
  BY DEF releaseLease
<1>2. ProxyPart'
  BY <1>1, ReleasedPool DEF ProxyPart, Present
<1>3. DropPart'
  <2>1. \A i \in dropping : i \in Proxies /\ ~Present(i)
    BY DEF Basic, DropPart, Proxies
  <2>2. \A i \in dropping : proxies'[i] = proxies[i]
    BY <1>1, <2>1, ReleasedPool
  <2> QED BY <2>1, <2>2 DEF Basic, DropPart, Present
<1>4. LeasePart'
  BY <1>1, NoLeaseForm DEF Basic, LeasePart, releasedLeases
<1>5. TablePart'
  <2>1. storeLease(c, NoProxy) /\ deleteRows(unowned(unboundProxies(c), releasedLeases(c))) /\ TablePart
    BY DEF releaseLease, Basic
  <2> QED BY <2>1, TablesStored, TablesDeleted, UnownedIds DEF TablePart
<1> QED BY <1>2, <1>3, <1>4, <1>5

LEMMA ReleaseBasic ==
    ASSUME Basic, NEW c \in Clients, releaseLocked(c), UNCHANGED << conns, calls, dropping >>,
           sweep' \subseteq sweep
    PROVE  Basic'
<1>1. QueuePart' /\ ConnPart' /\ CallPart'
  BY DEF Basic, releaseLocked, removeQueued, QueuePart, ConnPart, CallPart
<1>2. CASE releaseLease(c)
  BY <1>1, <1>2, ReleaseLeaseBasic DEF Basic
<1>3. CASE UNCHANGED << leases, proxies, db >>
  BY <1>1, <1>3 DEF Basic, db, ProxyPart, DropPart, LeasePart, TablePart, Present
<1> QED BY <1>2, <1>3 DEF releaseLocked

----------------------------------------------------------------------------
(* Reservations.                                                           *)

Stale(c) == HasLease(c) /\ leases[c].expired
LeasesAfter(c) == IF Stale(c) THEN releasedLeases(c) ELSE leases
ProxiesAfter(c) == IF Stale(c) THEN releasedProxies(c) ELSE proxies
Taken(q, c) == [q EXCEPT !.status = "checking", !.client = c, !.drainingFor = NoClient]

LEMMA TakenForm ==
    ASSUME NEW q \in Proxy, NEW c \in Clients
    PROVE  /\ Taken(q, c) \in Proxy /\ Taken(q, c).status = "checking" /\ Taken(q, c).client = c
           /\ Taken(q, c).drainingFor = NoClient /\ Taken(q, c).conns = q.conns
           /\ Taken(q, c).address = q.address /\ Taken(q, c).params = q.params
BY DEF Taken, Proxy

LEMMA AfterPool ==
    ASSUME Basic, NEW c \in Clients
    PROVE  /\ ProxiesAfter(c) \in [Proxies -> Proxy]
           /\ \A p \in Pool : ProxiesAfter(c)[p].status # "absent"
           /\ \A p \in Proxies : /\ ProxiesAfter(c)[p].conns = proxies[p].conns
                                 /\ ~Present(p) => ProxiesAfter(c)[p] = proxies[p]
           /\ \A p \in Proxies : ProxiesAfter(c)[p].status = "absent" =>
                 ProxiesAfter(c)[p].conns = 0 /\ ProxiesAfter(c)[p].drainingFor = NoClient
<1>1. CASE Stale(c)
  <2>1. ProxiesAfter(c) = releasedProxies(c)
    BY <1>1 DEF ProxiesAfter
  <2> QED BY <2>1, ReleasedPool
<1>2. CASE ~Stale(c)
  <2>1. ProxiesAfter(c) = proxies
    BY <1>2 DEF ProxiesAfter
  <2> QED BY <2>1 DEF Basic, ProxyPart, Present
<1> QED BY <1>1, <1>2

\* The reservation of p for the call r.
Reserves(r, p) ==
    LET c == calls[r].client IN
    /\ p \in Takeable(ProxiesAfter(c), LeasesAfter(c))
    /\ proxies' = [ProxiesAfter(c) EXCEPT ![p] = Taken(@, c)]
    /\ calls' = [calls EXCEPT ![r].pc = "poolprobe", ![r].proxy = p]

LEMMA ReserveForm ==
    ASSUME Basic, NEW r \in Callers, reserveProxyForLease(r)
    PROVE  LET c == calls[r].client IN
           /\ calls[r].pc = "reserve" /\ c \in Clients
           /\ leases' = LeasesAfter(c)
           /\ IF Stale(c) THEN storeLease(c, NoProxy) /\ deleteRows(unowned(unboundProxies(c), releasedLeases(c)))
              ELSE UNCHANGED db
           /\ UNCHANGED << conns, sweep, dropping >>
           /\ \A d \in pendingRefs : d \in pendingRefs' \/ (d = c /\ Stale(c))
           /\ \/ /\ proxies' = ProxiesAfter(c) /\ Returns(r)
                 /\ calls[r].refresh => c \in pendingRefs'
              \/ \E p \in Takeable(ProxiesAfter(c), LeasesAfter(c)) : Reserves(r, p)
<1> DEFINE c == calls[r].client
<1>1. calls[r].pc = "reserve" /\ c \in Clients
  BY DEF reserveProxyForLease, Basic, CallPart, KnownCall
<1>2. ProxiesAfter(c) \in [Proxies -> Proxy]
  BY <1>1, AfterPool
<1>3. /\ leases' = LeasesAfter(c)
      /\ IF Stale(c) THEN storeLease(c, NoProxy) /\ deleteRows(unowned(unboundProxies(c), LeasesAfter(c)))
         ELSE UNCHANGED db
      /\ UNCHANGED << conns, sweep, dropping >>
  BY Zenon DEF reserveProxyForLease, Stale, LeasesAfter
<1>4. Stale(c) => LeasesAfter(c) = releasedLeases(c)
  BY DEF LeasesAfter
<1>5. \/ proxies' = ProxiesAfter(c) /\ Returns(r) /\ (calls[r].refresh => c \in pendingRefs')
      \/ \E p \in Takeable(ProxiesAfter(c), LeasesAfter(c)) :
           /\ proxies' = [ProxiesAfter(c) EXCEPT ![p].status = "checking", ![p].client = c,
                                                 ![p].drainingFor = NoClient]
           /\ calls' = [calls EXCEPT ![r].pc = "poolprobe", ![r].proxy = p]
  <2> DEFINE refs == IF Stale(c) THEN pendingRefs \ {c} ELSE pendingRefs
  <2>1. \/ ~calls[r].refresh /\ proxies' = ProxiesAfter(c) /\ Returns(r)
        \/ /\ proxies' = ProxiesAfter(c) /\ Returns(r)
           /\ pendingRefs' = IF calls[r].refresh THEN refs \cup {c} ELSE refs
        \/ \E p \in Takeable(ProxiesAfter(c), LeasesAfter(c)) :
             /\ proxies' = [ProxiesAfter(c) EXCEPT ![p].status = "checking", ![p].client = c,
                                                   ![p].drainingFor = NoClient]
             /\ calls' = [calls EXCEPT ![r].pc = "poolprobe", ![r].proxy = p]
    BY Zenon DEF reserveProxyForLease, Stale, LeasesAfter, ProxiesAfter
  <2>2. calls[r].refresh => c \in (IF calls[r].refresh THEN refs \cup {c} ELSE refs)
    OBVIOUS
  <2> QED BY <2>1, <2>2, Zenon
<1>6. ASSUME NEW p \in Takeable(ProxiesAfter(c), LeasesAfter(c))
      PROVE  [ProxiesAfter(c) EXCEPT ![p].status = "checking", ![p].client = c, ![p].drainingFor = NoClient]
                = [ProxiesAfter(c) EXCEPT ![p] = Taken(@, c)]
  <2>1. p \in Proxies
    BY DEF Takeable, Proxies
  <2> QED BY <1>2, <2>1 DEF Taken
<1>7. \/ proxies' = ProxiesAfter(c) /\ Returns(r) /\ (calls[r].refresh => c \in pendingRefs')
      \/ \E p \in Takeable(ProxiesAfter(c), LeasesAfter(c)) : Reserves(r, p)
  BY <1>5, <1>6 DEF Reserves
<1>8. \A d \in pendingRefs : d \in pendingRefs' \/ (d = c /\ Stale(c))
  <2> DEFINE refs == IF Stale(c) THEN pendingRefs \ {c} ELSE pendingRefs
  <2>1. pendingRefs' \in {refs, refs \cup {c}}
    BY DEF reserveProxyForLease, Stale
  <2> QED BY <2>1
<1> QED BY <1>1, <1>3, <1>4, <1>7, <1>8

LEMMA ReserveQueues ==
    ASSUME Basic, NEW r \in Callers, reserveProxyForLease(r)
    PROVE  QueuePart' /\ ConnPart'
<1>1. calls[r].client \in Clients /\ UNCHANGED << conns, sweep, dropping >>
  BY ReserveForm
<1> DEFINE c == calls[r].client
           new == IF Stale(c) THEN pendingNew \ {c} ELSE pendingNew
           refs == IF Stale(c) THEN pendingRefs \ {c} ELSE pendingRefs
<1>2. pendingNew' \in {new, new \cup {c}} /\ pendingRefs' \in {refs, refs \cup {c}}
  BY DEF reserveProxyForLease, Stale
<1> QED BY <1>1, <1>2 DEF Basic, QueuePart, ConnPart

LEMMA HeldCall ==
    ASSUME CallPart, NEW r \in Callers, NEW p \in Pool, calls[r].pc = "reserve",
           calls' = [calls EXCEPT ![r].pc = "poolprobe", ![r].proxy = p]
    PROVE  \E v \in Call : /\ calls' = [calls EXCEPT ![r] = v] /\ KnownCall(v)
                           /\ v.pc = "poolprobe" /\ v.proxy = p
                           /\ v.client = calls[r].client /\ v.refresh = calls[r].refresh
<1> DEFINE v == [calls[r] EXCEPT !.pc = "poolprobe", !.proxy = p]
<1>1. calls[r] \in Call /\ calls[r].client \in Clients /\ p \in Proxies
  BY DEF CallPart, KnownCall, Proxies
<1>2. /\ v \in Call /\ v.pc = "poolprobe" /\ v.proxy = p /\ v.client = calls[r].client
      /\ v.refresh = calls[r].refresh
  BY <1>1 DEF Call
<1>3. calls' = [calls EXCEPT ![r] = v]
  BY <1>1 DEF CallPart, Call
<1> HIDE DEF v
<1>4. KnownCall(v)
  BY <1>1, <1>2 DEF KnownCall, Inside
<1> QED BY <1>2, <1>3, <1>4

LEMMA ReserveBasic == ASSUME Basic, NEW r \in Callers, reserveProxyForLease(r) PROVE Basic'
<1> DEFINE c == calls[r].client
           ps == ProxiesAfter(c)
<1>0. /\ calls[r].pc = "reserve" /\ c \in Clients /\ CallPart /\ TablePart
      /\ leases' = LeasesAfter(c) /\ UNCHANGED << conns, sweep, dropping >>
      /\ IF Stale(c) THEN storeLease(c, NoProxy) /\ deleteRows(unowned(unboundProxies(c), releasedLeases(c)))
         ELSE UNCHANGED db
      /\ \/ proxies' = ps /\ Returns(r)
         \/ \E p \in Takeable(ps, LeasesAfter(c)) : Reserves(r, p)
  BY ReserveForm DEF Basic
<1>1. QueuePart' /\ ConnPart'
  BY ReserveQueues
<1>2. LeasePart'
  BY <1>0, NoLeaseForm DEF Basic, LeasePart, LeasesAfter, releasedLeases
<1>3. TablePart'
  <2>1. CASE Stale(c)
    BY <1>0, <2>1, TablesStored, TablesDeleted, UnownedIds DEF TablePart
  <2>2. CASE ~Stale(c)
    BY <1>0, <2>2 DEF TablePart, db
  <2> QED BY <2>1, <2>2
<1>4. /\ ps \in [Proxies -> Proxy]
      /\ \A p \in Pool : ps[p].status # "absent"
      /\ \A p \in Proxies : ~Present(p) => ps[p] = proxies[p]
      /\ \A p \in Proxies : ps[p].status = "absent" => ps[p].conns = 0 /\ ps[p].drainingFor = NoClient
  BY <1>0, AfterPool
<1>5. \A i \in dropping : i \in Ids /\ i \in Proxies /\ i \notin Pool /\ ps[i].status = "absent"
  BY <1>4, NamesAssumption DEF Basic, DropPart, Proxies, Present
<1>6. CASE proxies' = ps /\ Returns(r)
  <2>1. CallPart'
    BY <1>0, <1>6, ReturnsStep
  <2>2. ProxyPart'
    BY <1>4, <1>6 DEF ProxyPart, Present
  <2>3. DropPart'
    BY <1>0, <1>5, <1>6 DEF DropPart, Present
  <2> QED BY <1>1, <1>2, <1>3, <2>1, <2>2, <2>3 DEF Basic
<1>7. ASSUME NEW p \in Takeable(ps, LeasesAfter(c)), Reserves(r, p) PROVE Basic'
  <2>0. p \in Pool /\ p \in Proxies
    BY DEF Takeable, Proxies
  <2>1. CallPart'
    BY <1>0, <1>7, <2>0, HeldCall, CallStep DEF Reserves
  <2>2. /\ proxies' \in [Proxies -> Proxy]
        /\ proxies'[p] = Taken(ps[p], c) /\ proxies'[p].status = "checking"
        /\ \A q \in Proxies \ {p} : proxies'[q] = ps[q]
    <3>1. ps[p] \in Proxy /\ c \in Clients
      BY <1>0, <1>4, <2>0
    <3>2. Taken(ps[p], c) \in Proxy /\ Taken(ps[p], c).status = "checking"
      BY <3>1, TakenForm
    <3>3. proxies' = [ps EXCEPT ![p] = Taken(ps[p], c)]
      BY <1>7 DEF Reserves
    <3> HIDE DEF ps, c
    <3> QED BY <1>4, <2>0, <3>2, <3>3
  <2>3. ProxyPart'
    BY <1>4, <2>0, <2>2 DEF ProxyPart, Present, Proxies
  <2>4. DropPart'
    BY <1>0, <1>5, <2>0, <2>2 DEF DropPart, Present
  <2> QED BY <1>1, <1>2, <1>3, <2>1, <2>3, <2>4 DEF Basic
<1> QED BY <1>0, <1>6, <1>7

----------------------------------------------------------------------------
(* Activations.                                                            *)

Vacated(q, c) == IF q.conns > 0 THEN drain(q, c) ELSE markProxyIdle(q)
Assigned(q, c) == [q EXCEPT !.status = "active", !.client = c, !.drainingFor = NoClient]
Left(r) ==
    LET c == calls[r].client
        old == leases[c].proxy
    IN IF calls[r].refresh /\ HasLease(c) /\ Present(old)
       THEN [proxies EXCEPT ![old] = Vacated(@, c)] ELSE proxies

LEMMA VacatedForm ==
    ASSUME NEW q \in Proxy, NEW c \in Clients
    PROVE  /\ Vacated(q, c) \in Proxy /\ Vacated(q, c).client = NoClient
           /\ Vacated(q, c).conns = q.conns
           /\ Vacated(q, c).status \in {"draining", "idle", "unhealthy"}
           /\ Vacated(q, c).drainingFor # NoClient => Vacated(q, c).status = "draining"
           /\ Vacated(q, c).status # "draining" => q.conns = 0
           /\ Vacated(q, c).address = q.address /\ Vacated(q, c).params = q.params
<1>1. CASE q.conns > 0
  BY <1>1, DrainForm DEF Vacated, Proxy
<1>2. CASE ~(q.conns > 0)
  <2>1. q.conns = 0
    BY <1>2 DEF Proxy
  <2> QED BY <1>2, <2>1, MarkIdleForm DEF Vacated
<1> QED BY <1>1, <1>2

LEMMA AssignedForm ==
    ASSUME NEW q \in Proxy, NEW c \in Clients
    PROVE  /\ Assigned(q, c) \in Proxy /\ Assigned(q, c).status = "active" /\ Assigned(q, c).client = c
           /\ Assigned(q, c).drainingFor = NoClient /\ Assigned(q, c).conns = q.conns
           /\ Assigned(q, c).address = q.address /\ Assigned(q, c).params = q.params
BY DEF Assigned, Proxy

LEMMA LeftPool ==
    ASSUME Basic, NEW r \in Callers, calls[r].client \in Clients
    PROVE  LET c == calls[r].client IN
           /\ Left(r) \in [Proxies -> Proxy]
           /\ \A q \in Proxies :
                /\ Left(r)[q] = proxies[q]
                   \/ (Left(r)[q] = Vacated(proxies[q], c) /\ Present(q) /\ q = leases[c].proxy
                          /\ calls[r].refresh)
                /\ Left(r)[q].conns = proxies[q].conns
                /\ Left(r)[q].address = proxies[q].address /\ Left(r)[q].params = proxies[q].params
                /\ Left(r)[q].status = "absent" <=> ~Present(q)
                /\ ~Present(q) => Left(r)[q] = proxies[q]
<1> DEFINE c == calls[r].client
           old == leases[c].proxy
<1>0. proxies \in [Proxies -> Proxy]
  BY DEF Basic, ProxyPart
<1>1. CASE calls[r].refresh /\ HasLease(c) /\ Present(old)
  <2>1. old \in Proxies
    BY <1>1, LeaseProxy DEF Basic
  <2>2. Left(r) = [proxies EXCEPT ![old] = Vacated(proxies[old], c)]
    BY <1>0, <1>1, <2>1 DEF Left
  <2>3. /\ Left(r)[old] = Vacated(proxies[old], c)
        /\ \A q \in Proxies \ {old} : Left(r)[q] = proxies[q]
    BY <1>0, <2>1, <2>2
  <2>4. /\ Vacated(proxies[old], c) \in Proxy /\ Vacated(proxies[old], c).status # "absent"
        /\ Vacated(proxies[old], c).conns = proxies[old].conns
        /\ Vacated(proxies[old], c).address = proxies[old].address
        /\ Vacated(proxies[old], c).params = proxies[old].params
    BY <1>0, <2>1, VacatedForm
  <2>5. Left(r) \in [Proxies -> Proxy]
    BY <1>0, <2>1, <2>2, <2>4
  <2> QED BY <1>1, <2>1, <2>3, <2>4, <2>5 DEF Present
<1>2. CASE ~(calls[r].refresh /\ HasLease(c) /\ Present(old))
  <2>1. Left(r) = proxies
    BY <1>2 DEF Left
  <2> QED BY <1>0, <2>1 DEF Present
<1> QED BY <1>1, <1>2

LEMMA ActivateForm ==
    ASSUME Basic, NEW r \in Callers, activateCheckedProxy(r)
    PROVE  LET c == calls[r].client
               p == calls[r].proxy IN
           /\ calls[r].pc = "poolprobe" /\ c \in Clients /\ p \in Pool /\ p \in Proxies
           /\ proxies' = [Left(r) EXCEPT ![p] = Assigned(@, c)]
           /\ proxies' \in [Proxies -> Proxy]
           /\ proxies'[p] = Assigned(Left(r)[p], c)
           /\ \A q \in Proxies \ {p} : proxies'[q] = Left(r)[q]
           /\ leases' = [leases EXCEPT ![c] = [proxy |-> p, params |-> NoParams, expired |-> FALSE]]
           /\ removeQueued(c) /\ storeLease(c, p) /\ Returns(r)
           /\ UNCHANGED << conns, sweep, dropping, rows >>
<1> DEFINE c == calls[r].client
           p == calls[r].proxy
           old == leases[c].proxy
<1>1. calls[r].pc = "poolprobe" /\ c \in Clients /\ p \in Pool /\ p \in Proxies
  BY DEF activateCheckedProxy, Basic, CallPart, KnownCall, Proxies
<1>2. Left(r) \in [Proxies -> Proxy]
  BY <1>1, LeftPool
<1>3. [proxies EXCEPT ![old] = IF @.conns > 0 THEN drain(@, c) ELSE markProxyIdle(@)]
        = [proxies EXCEPT ![old] = Vacated(@, c)]
  BY DEF Vacated
<1>4. proxies' = [Left(r) EXCEPT ![p].status = "active", ![p].client = c, ![p].drainingFor = NoClient]
  BY <1>3, Zenon DEF activateCheckedProxy, Left
<1>5. proxies' = [Left(r) EXCEPT ![p] = Assigned(@, c)]
  BY <1>1, <1>2, <1>4 DEF Assigned
<1>6. /\ proxies' \in [Proxies -> Proxy]
      /\ proxies'[p] = Assigned(Left(r)[p], c)
      /\ \A q \in Proxies \ {p} : proxies'[q] = Left(r)[q]
  BY <1>1, <1>2, <1>5, AssignedForm
<1>7. /\ leases' = [leases EXCEPT ![c] = [proxy |-> p, params |-> NoParams, expired |-> FALSE]]
      /\ removeQueued(c) /\ storeLease(c, p) /\ Returns(r)
      /\ UNCHANGED << conns, sweep, dropping, rows >>
  BY Zenon DEF activateCheckedProxy
<1> QED BY <1>1, <1>5, <1>6, <1>7

LEMMA ActivateBasic == ASSUME Basic, NEW r \in Callers, activateCheckedProxy(r) PROVE Basic'
<1> DEFINE c == calls[r].client
           p == calls[r].proxy
<1>0. /\ calls[r].pc = "poolprobe" /\ c \in Clients /\ p \in Pool /\ p \in Proxies
      /\ proxies' \in [Proxies -> Proxy]
      /\ proxies'[p] = Assigned(Left(r)[p], c)
      /\ \A q \in Proxies \ {p} : proxies'[q] = Left(r)[q]
      /\ leases' = [leases EXCEPT ![c] = [proxy |-> p, params |-> NoParams, expired |-> FALSE]]
      /\ removeQueued(c) /\ storeLease(c, p) /\ Returns(r)
      /\ UNCHANGED << conns, sweep, dropping, rows >>
  BY ActivateForm
<1>1. proxies'[p].status = "active"
  BY <1>0, LeftPool, AssignedForm
<1>2. ProxyPart'
  BY <1>0, <1>1, LeftPool DEF Basic, ProxyPart, Present, Proxies
<1>3. DropPart'
  <2>1. \A i \in dropping : i \in Proxies /\ i # p
    BY <1>0, NamesAssumption DEF Basic, DropPart, Proxies
  <2> QED BY <1>0, <2>1, LeftPool DEF Basic, DropPart, Present
<1>4. LeasePart'
  BY <1>0 DEF Basic, LeasePart, Lease
<1>5. TablePart'
  BY <1>0, TablesStored DEF Basic, TablePart
<1>6. CallPart'
  BY <1>0, ReturnsStep DEF Basic
<1>7. QueuePart' /\ ConnPart'
  BY <1>0 DEF Basic, QueuePart, ConnPart, removeQueued
<1> QED BY <1>2, <1>3, <1>4, <1>5, <1>6, <1>7 DEF Basic

Failed(q) == [q EXCEPT !.status = "unhealthy", !.client = NoClient]

LEMMA FailedProxy ==
    ASSUME NEW q \in Proxy
    PROVE  /\ Failed(q) \in Proxy /\ Failed(q).status = "unhealthy" /\ Failed(q).client = NoClient
           /\ Failed(q).drainingFor = q.drainingFor /\ Failed(q).conns = q.conns
           /\ Failed(q).address = q.address /\ Failed(q).params = q.params
BY DEF Failed, Proxy

LEMMA ProbeFailedForm ==
    ASSUME Basic, NEW r \in Callers, poolProbeFailed(r)
    PROVE  LET p == calls[r].proxy IN
           /\ calls[r].pc = "poolprobe" /\ p \in Pool /\ p \in Proxies
           /\ proxies' \in [Proxies -> Proxy]
           /\ proxies'[p] = Failed(proxies[p])
           /\ \A q \in Proxies \ {p} : proxies'[q] = proxies[q]
           /\ UNCHANGED << leases, pool, conns, sweep, dropping, db >>
           /\ \E v \in Call : /\ calls' = [calls EXCEPT ![r] = v] /\ KnownCall(v)
                              /\ v.pc = "reserve" /\ v.client = calls[r].client
                              /\ v.refresh = calls[r].refresh
<1> DEFINE p == calls[r].proxy
           v == [calls[r] EXCEPT !.pc = "reserve", !.proxy = NoProxy]
<1>0. calls[r].pc = "poolprobe" /\ p \in Pool /\ p \in Proxies /\ calls[r].client \in Clients
  BY DEF poolProbeFailed, Basic, CallPart, KnownCall, Proxies
<1>1. proxies \in [Proxies -> Proxy] /\ calls \in [Callers -> Call]
  BY DEF Basic, ProxyPart, CallPart
<1>2. proxies' = [proxies EXCEPT ![p] = Failed(@)]
  BY <1>0, <1>1 DEF poolProbeFailed, Failed
<1>3. /\ proxies' \in [Proxies -> Proxy]
      /\ proxies'[p] = Failed(proxies[p])
      /\ \A q \in Proxies \ {p} : proxies'[q] = proxies[q]
  BY <1>0, <1>1, <1>2, FailedProxy
<1>4. calls' = [calls EXCEPT ![r] = v]
  BY <1>1 DEF poolProbeFailed, Call
<1>5. v \in Call /\ v.pc = "reserve" /\ v.client = calls[r].client /\ v.refresh = calls[r].refresh
  BY <1>1 DEF Call
<1>6. UNCHANGED << leases, pool, conns, sweep, dropping, db >>
  BY DEF poolProbeFailed
<1> HIDE DEF v
<1>7. KnownCall(v)
  BY <1>0, <1>5 DEF KnownCall, Inside
<1> QED BY <1>0, <1>3, <1>4, <1>5, <1>6, <1>7

LEMMA ProbeFailedBasic == ASSUME Basic, NEW r \in Callers, poolProbeFailed(r) PROVE Basic'
<1> DEFINE p == calls[r].proxy
<1>0. /\ p \in Pool /\ p \in Proxies
      /\ proxies' \in [Proxies -> Proxy]
      /\ proxies'[p] = Failed(proxies[p])
      /\ \A q \in Proxies \ {p} : proxies'[q] = proxies[q]
      /\ UNCHANGED << leases, pool, conns, sweep, dropping, db >>
  BY ProbeFailedForm
<1>1. CallPart'
  BY ProbeFailedForm, CallStep DEF Basic
<1>2. proxies'[p].status = "unhealthy"
  BY <1>0, FailedProxy DEF Basic, ProxyPart
<1>3. ProxyPart' /\ DropPart'
  BY <1>0, <1>2, NamesAssumption DEF Basic, ProxyPart, DropPart, Present, Proxies
<1>4. LeasePart' /\ QueuePart' /\ ConnPart' /\ TablePart'
  BY <1>0 DEF Basic, LeasePart, QueuePart, ConnPart, TablePart, pool, db
<1> QED BY <1>1, <1>3, <1>4 DEF Basic

----------------------------------------------------------------------------
(* activateDynamicProxy.                                                   *)

New(r) == [Absent EXCEPT !.status = "active", !.client = calls[r].client,
                         !.address = calls[r].address, !.params = calls[r].params]
RowOf(r) == [address |-> calls[r].address, params |-> calls[r].params]

LEMMA NewForm ==
    ASSUME CallPart, NEW r \in Calls, calls[r].pc = "probe"
    PROVE  /\ calls[r].client \in Clients /\ calls[r].address \in Addresses /\ calls[r].params \in Params
           /\ New(r) \in Proxy /\ New(r).status = "active" /\ New(r).client = calls[r].client
           /\ New(r).drainingFor = NoClient /\ New(r).conns = 0
           /\ New(r).address = calls[r].address /\ New(r).params = calls[r].params
           /\ RowOf(r) \in Row /\ RowOf(r) # NoRow
           /\ RowOf(r).address = calls[r].address /\ RowOf(r).params = calls[r].params
<1>1. KnownCall(calls[r])
  BY DEF CallPart, Callers
<1>2. calls[r].client \in Clients /\ calls[r].address \in Addresses /\ calls[r].params \in Params
  BY <1>1 DEF KnownCall, Inside
<1>3. RowOf(r) \in Row /\ RowOf(r) # NoRow
  BY <1>2, NamesAssumption DEF RowOf, Row, NoRow
<1>4. RowOf(r).address = calls[r].address /\ RowOf(r).params = calls[r].params
  BY DEF RowOf
<1>5. /\ New(r) \in Proxy /\ New(r).status = "active" /\ New(r).client = calls[r].client
      /\ New(r).drainingFor = NoClient /\ New(r).conns = 0
      /\ New(r).address = calls[r].address /\ New(r).params = calls[r].params
  BY <1>2 DEF New, Absent, Proxy
<1> QED BY <1>2, <1>3, <1>4, <1>5

LEMMA ReplacedPool ==
    ASSUME Basic, NEW c \in Clients
    PROVE  /\ replacedProxies(c) \in [Proxies -> Proxy]
           /\ \A p \in Proxies :
                /\ replacedProxies(c)[p].conns = proxies[p].conns
                /\ ~Present(p) => replacedProxies(c)[p] = proxies[p]
                /\ replacedProxies(c)[p] = proxies[p]
                   \/ (p = leases[c].proxy /\ Present(p)
                        /\ \/ replacedProxies(c)[p] = Vacated(proxies[p], c)
                              /\ (p \in Ids => proxies[p].conns > 0)
                           \/ replacedProxies(c)[p] = Absent /\ p \in Ids /\ proxies[p].conns = 0)
                /\ replacedProxies(c)[p].status # "absent" =>
                      /\ replacedProxies(c)[p].address = proxies[p].address
                      /\ replacedProxies(c)[p].params = proxies[p].params
                /\ replacedProxies(c)[p].status = "absent" =>
                      (replacedProxies(c)[p] = Absent \/ ~Present(p))
           /\ \A p \in Pool : replacedProxies(c)[p].status # "absent"
           /\ \A i \in Ids : replacedProxies(c)[i].status = "absent" <=> ~Present(i) \/ i \in Replaced(c)
<1>0. proxies \in [Proxies -> Proxy] /\ \A p \in Pool : p \in Proxies /\ Present(p) /\ p \notin Ids
  BY NamesAssumption DEF Basic, ProxyPart, Proxies
<1>1. ASSUME NEW p \in Proxies
      PROVE  /\ replacedProxies(c)[p] \in Proxy
             /\ replacedProxies(c)[p].conns = proxies[p].conns
             /\ ~Present(p) => replacedProxies(c)[p] = proxies[p]
             /\ replacedProxies(c)[p] = proxies[p]
                   \/ (p = leases[c].proxy /\ Present(p)
                        /\ \/ replacedProxies(c)[p] = Vacated(proxies[p], c)
                              /\ (p \in Ids => proxies[p].conns > 0)
                           \/ replacedProxies(c)[p] = Absent /\ p \in Ids /\ proxies[p].conns = 0)
             /\ replacedProxies(c)[p].status # "absent" =>
                      /\ replacedProxies(c)[p].address = proxies[p].address
                      /\ replacedProxies(c)[p].params = proxies[p].params
             /\ replacedProxies(c)[p].status = "absent" =>
                      (replacedProxies(c)[p] = Absent \/ ~Present(p))
             /\ p \notin Ids => (replacedProxies(c)[p].status = "absent" <=> ~Present(p))
             /\ p \in Ids => (replacedProxies(c)[p].status = "absent" <=> ~Present(p) \/ p \in Replaced(c))
  <2>0. proxies[p] \in Proxy /\ proxies[p].conns \in Nat
    BY <1>0 DEF Proxy
  <2>1. CASE p # leases[c].proxy \/ ~Present(p)
    <3>1. replacedProxies(c)[p] = proxies[p]
      BY <2>1 DEF replacedProxies
    <3>2. p \notin Replaced(c)
      BY <2>1 DEF Replaced
    <3> QED BY <2>0, <3>1, <3>2 DEF Present
  <2>2. CASE p = leases[c].proxy /\ Present(p) /\ (proxies[p].conns > 0 \/ p \notin Ids)
    <3>1. replacedProxies(c)[p] = Vacated(proxies[p], c)
      BY <2>2 DEF replacedProxies, Vacated
    <3>2. p \notin Replaced(c)
      BY <2>2 DEF Replaced
    <3> QED BY <2>0, <2>2, <3>1, <3>2, VacatedForm DEF Present
  <2>3. CASE p = leases[c].proxy /\ Present(p) /\ ~(proxies[p].conns > 0) /\ p \in Ids
    <3>1. replacedProxies(c)[p] = Absent /\ proxies[p].conns = 0
      BY <2>0, <2>3 DEF replacedProxies
    <3>2. p \in Replaced(c)
      BY <2>3, <3>1 DEF Replaced
    <3> QED BY <2>3, <3>1, <3>2, AbsentForm DEF Present
  <2> QED BY <2>1, <2>2, <2>3
<1>2. replacedProxies(c) = [p \in Proxies |-> replacedProxies(c)[p]]
  BY DEF replacedProxies
<1>3. replacedProxies(c) \in [Proxies -> Proxy]
  BY <1>1, <1>2
<1>4. \A p \in Pool : replacedProxies(c)[p].status # "absent"
  BY <1>0, <1>1
<1>5. \A i \in Ids : i \in Proxies
  BY DEF Proxies
<1> QED BY <1>1, <1>3, <1>4, <1>5

Installs(r, i) ==
    /\ FreshId(i) /\ storeDynamic(calls[r].client, i, RowOf(r)) /\ installs(r, i)

LEMMA InstallForm ==
    ASSUME Basic, NEW r \in Calls, activateDynamicProxy(r)
    PROVE  /\ calls[r].pc = "probe" /\ ~proxyAddressExists(calls[r].address)
           /\ \E i \in Ids : Installs(r, i)
BY DEF activateDynamicProxy, Installs, RowOf

LEMMA InstalledForm ==
    ASSUME Basic, NEW r \in Calls, calls[r].pc = "probe", NEW i \in Ids, Installs(r, i)
    PROVE  LET c == calls[r].client IN
           /\ c \in Clients /\ i \in Proxies /\ ~Present(i) /\ i \notin dropping
           /\ proxies' \in [Proxies -> Proxy]
           /\ proxies'[i] = New(r)
           /\ \A p \in Proxies \ {i} : proxies'[p] = replacedProxies(c)[p]
           /\ leases' = [leases EXCEPT ![c] = [proxy |-> i, params |-> calls[r].params, expired |-> FALSE]]
           /\ dbLeases' = [dbLeases EXCEPT ![c] = i]
           /\ rows' = [j \in Ids |-> IF j = i THEN RowOf(r)
                                     ELSE IF j \in Replaced(c) THEN NoRow ELSE rows[j]]
           /\ removeQueued(c) /\ Returns(r) /\ UNCHANGED << conns, sweep, dropping >>
<1> DEFINE c == calls[r].client
<1>1. CallPart /\ i \in Proxies
  BY DEF Basic, Proxies
<1>2. c \in Clients /\ New(r) \in Proxy
  BY <1>1, NewForm
<1>3. replacedProxies(c) \in [Proxies -> Proxy]
  BY <1>2, ReplacedPool
<1>4. proxies' = [replacedProxies(c) EXCEPT ![i] = New(r)]
  BY DEF Installs, installs, New
<1>5. /\ proxies' \in [Proxies -> Proxy]
      /\ proxies'[i] = New(r)
      /\ \A p \in Proxies \ {i} : proxies'[p] = replacedProxies(c)[p]
  BY <1>1, <1>2, <1>3, <1>4
<1>6. ~Present(i) /\ i \notin dropping
  BY DEF Installs, FreshId
<1>7. /\ leases' = [leases EXCEPT ![c] = [proxy |-> i, params |-> calls[r].params, expired |-> FALSE]]
      /\ dbLeases' = [dbLeases EXCEPT ![c] = i]
      /\ removeQueued(c) /\ Returns(r) /\ UNCHANGED << conns, sweep, dropping >>
  BY Zenon DEF Installs, installs
<1>8. rows' = [j \in Ids |-> IF j = i THEN RowOf(r)
                             ELSE IF j \in Replaced(c) THEN NoRow ELSE rows[j]]
  BY DEF Installs, storeDynamic
<1> QED BY <1>1, <1>2, <1>5, <1>6, <1>7, <1>8

LEMMA InstallBasic == ASSUME Basic, NEW r \in Calls, activateDynamicProxy(r) PROVE Basic'
<1> DEFINE c == calls[r].client
<1>0. calls[r].pc = "probe" /\ CallPart /\ r \in Callers
  BY InstallForm DEF Basic, Callers
<1>1. PICK i \in Ids : Installs(r, i)
  BY InstallForm
<1>2. /\ c \in Clients /\ i \in Proxies /\ ~Present(i) /\ i \notin dropping
      /\ proxies' \in [Proxies -> Proxy]
      /\ proxies'[i] = New(r)
      /\ \A p \in Proxies \ {i} : proxies'[p] = replacedProxies(c)[p]
      /\ leases' = [leases EXCEPT ![c] = [proxy |-> i, params |-> calls[r].params, expired |-> FALSE]]
      /\ dbLeases' = [dbLeases EXCEPT ![c] = i]
      /\ rows' = [j \in Ids |-> IF j = i THEN RowOf(r)
                                ELSE IF j \in Replaced(c) THEN NoRow ELSE rows[j]]
      /\ removeQueued(c) /\ Returns(r) /\ UNCHANGED << conns, sweep, dropping >>
  BY <1>0, <1>1, InstalledForm
<1>3. /\ calls[r].params \in Params /\ RowOf(r) \in Row
      /\ proxies'[i].status = "active" /\ NoRow \in Row
  BY <1>0, <1>2, NewForm DEF NoRow, Row
<1>4. ProxyPart'
  BY <1>2, <1>3, ReplacedPool, AbsentForm DEF Basic, ProxyPart, Present, Proxies
<1>5. DropPart'
  <2>1. \A j \in dropping : j \in Proxies /\ j # i /\ ~Present(j) /\ j \in Ids
    BY <1>2 DEF Basic, DropPart, Proxies
  <2> QED BY <1>2, <2>1, ReplacedPool DEF DropPart, Present
<1>6. LeasePart' /\ TablePart'
  BY <1>2, <1>3 DEF Basic, LeasePart, Lease, TablePart
<1>7. CallPart'
  BY <1>0, <1>2, ReturnsStep
<1>8. QueuePart' /\ ConnPart'
  BY <1>2 DEF Basic, QueuePart, ConnPart, removeQueued
<1> QED BY <1>4, <1>5, <1>6, <1>7, <1>8 DEF Basic

----------------------------------------------------------------------------
(* The queue, expiry, connections, and the deletion of rows.               *)

LEMMA QueuedForm ==
    ASSUME Basic, nextQueuedClient
    PROVE  /\ UNCHANGED << proxies, leases, conns, sweep, dropping, db >>
           /\ calls[Worker].pc = "idle" /\ Worker \in Callers
           /\ pendingNew' \subseteq pendingNew /\ pendingRefs' \subseteq pendingRefs
           /\ \E w \in Call : /\ calls' = [calls EXCEPT ![Worker] = w] /\ KnownCall(w)
                              /\ w.pc = "reserve" /\ w.client \in Clients
                              /\ \/ pendingRefs' = pendingRefs
                                 \/ w.refresh /\ pendingRefs' = pendingRefs \ {w.client}
<1>0. Worker \in Callers /\ CallPart /\ pendingNew \subseteq Clients /\ pendingRefs \subseteq Clients
  BY DEF Callers, Basic, QueuePart
<1>1. UNCHANGED << proxies, leases, conns, sweep, dropping, db >> /\ calls[Worker].pc = "idle"
  BY DEF nextQueuedClient
<1>4. ASSUME NEW c \in Clients, NEW b \in BOOLEAN, Starts(Worker, c, "reserve", NoParams, b)
      PROVE  \E w \in Call : /\ calls' = [calls EXCEPT ![Worker] = w] /\ KnownCall(w)
                             /\ w.pc = "reserve" /\ w.client = c /\ w.refresh = b
  <2>1. /\ "reserve" \in {"gate", "reserve"} /\ NoParams \in Params \cup {NoParams}
        /\ "reserve" = "gate" => NoParams \in Params
    OBVIOUS
  <2> HIDE DEF NoParams
  <2> QED BY <1>0, <1>4, <2>1, StartsForm
<1>2. CASE \E c \in pendingNew :
            /\ pendingNew' = pendingNew \ {c}
            /\ Starts(Worker, c, "reserve", NoParams, FALSE)
            /\ UNCHANGED pendingRefs
  <2>1. PICK c \in pendingNew : /\ pendingNew' = pendingNew \ {c}
                                /\ Starts(Worker, c, "reserve", NoParams, FALSE)
                                /\ UNCHANGED pendingRefs
    BY <1>2
  <2>2. PICK w \in Call : /\ calls' = [calls EXCEPT ![Worker] = w] /\ KnownCall(w)
                          /\ w.pc = "reserve" /\ w.client = c
    BY <1>0, <1>4, <2>1
  <2> QED BY <1>0, <1>1, <2>1, <2>2
<1>3. CASE \E c \in pendingRefs :
            /\ pendingNew = {}
            /\ pendingRefs' = pendingRefs \ {c}
            /\ Starts(Worker, c, "reserve", NoParams, TRUE)
            /\ UNCHANGED pendingNew
  <2>1. PICK c \in pendingRefs : /\ pendingRefs' = pendingRefs \ {c}
                                 /\ Starts(Worker, c, "reserve", NoParams, TRUE)
                                 /\ UNCHANGED pendingNew
    BY <1>3
  <2>2. PICK w \in Call : /\ calls' = [calls EXCEPT ![Worker] = w] /\ KnownCall(w)
                          /\ w.pc = "reserve" /\ w.client = c /\ w.refresh = TRUE
    BY <1>0, <1>4, <2>1
  <2> QED BY <1>0, <1>1, <2>1, <2>2
<1> QED BY <1>2, <1>3 DEF nextQueuedClient

LEMMA QueuedBasic == ASSUME Basic, nextQueuedClient PROVE Basic'
<1>1. /\ UNCHANGED << proxies, leases, conns, sweep, dropping, db >>
      /\ pendingNew' \subseteq pendingNew /\ pendingRefs' \subseteq pendingRefs
  BY QueuedForm
<1>2. CallPart'
  BY QueuedForm, CallStep DEF Basic
<1> QED BY <1>1, <1>2 DEF Basic, ProxyPart, DropPart, LeasePart, QueuePart, ConnPart, TablePart, Present, db

LEMMA ExpiryBasic == ASSUME Basic, NEW c \in Clients, leaseExpires(c) PROVE Basic'
<1>1. /\ UNCHANGED << proxies, pool, conns, calls, sweep, dropping, db >>
      /\ leases' = [leases EXCEPT ![c].expired = TRUE]
  BY DEF leaseExpires
<1>2. LeasePart'
  BY <1>1 DEF Basic, LeasePart, Lease
<1> QED BY <1>1, <1>2 DEF Basic, ProxyPart, DropPart, QueuePart, ConnPart, CallPart, TablePart, Present, pool, db

LEMMA CollectBasic == ASSUME Basic, collectExpired PROVE Basic'
BY DEF Basic, collectExpired, ProxyPart, DropPart, LeasePart, QueuePart, ConnPart, CallPart, TablePart,
       Present, pool, db

LEMMA DroppedBasic == ASSUME Basic, NEW i \in Ids, deleteDropped(i) PROVE Basic'
<1>1. UNCHANGED << proxies, leases, pool, conns, calls, sweep, dbLeases >> /\ dropping' \subseteq dropping
  BY DEF deleteDropped
<1>2. TablePart'
  BY <1>1, TablesDeleted DEF Basic, TablePart, deleteDropped
<1> QED BY <1>1, <1>2 DEF Basic, ProxyPart, DropPart, LeasePart, QueuePart, ConnPart, CallPart, Present, pool

Used(q) == [q EXCEPT !.conns = @ + 1]

LEMMA UsedForm ==
    ASSUME NEW q \in Proxy
    PROVE  /\ Used(q) \in Proxy /\ Used(q).conns = q.conns + 1 /\ Used(q).status = q.status
           /\ Used(q).client = q.client /\ Used(q).drainingFor = q.drainingFor
           /\ Used(q).address = q.address /\ Used(q).params = q.params
BY DEF Used, Proxy

LEMMA ClosedForm ==
    ASSUME NEW q \in Proxy, q.conns > 0
    PROVE  /\ connClosed(q) \in Proxy /\ connClosed(q).conns = q.conns - 1
           /\ \/ q.status = "draining" /\ q.conns = 1 /\ connClosed(q) = markProxyIdle(q)
              \/ /\ connClosed(q).status = q.status /\ connClosed(q).client = q.client
                 /\ connClosed(q).drainingFor = q.drainingFor
           /\ q.status # "absent" => connClosed(q).status # "absent"
           /\ connClosed(q).address = q.address /\ connClosed(q).params = q.params
<1>1. CASE q.status = "draining" /\ q.conns = 1
  BY <1>1, MarkIdleForm DEF connClosed
<1>2. CASE ~(q.status = "draining" /\ q.conns = 1)
  BY <1>2 DEF connClosed, Proxy
<1> QED BY <1>1, <1>2

LEMMA AcquireForm ==
    ASSUME Basic, NEW k \in Conns, NEW c \in Clients, AcquireProxyConn(k, c)
    PROVE  LET p == leases[c].proxy IN
           /\ p \in Proxies /\ Live(c) /\ proxies[p].status = "active" /\ proxies[p].client = c
           /\ conns[k] = FreeConn /\ conns' = [conns EXCEPT ![k] = [client |-> c, proxy |-> p]]
           /\ proxies' = [proxies EXCEPT ![p] = Used(@)]
           /\ proxies' \in [Proxies -> Proxy] /\ proxies'[p] = Used(proxies[p])
           /\ \A q \in Proxies \ {p} : proxies'[q] = proxies[q]
           /\ UNCHANGED << leases, pool, calls, sweep, dropping, db >>
<1> DEFINE p == leases[c].proxy
<1>1. p \in Proxies /\ proxies \in [Proxies -> Proxy]
  BY LeaseProxy DEF AcquireProxyConn, Live, Basic, ProxyPart
<1>2. proxies' = [proxies EXCEPT ![p] = Used(@)]
  BY <1>1 DEF AcquireProxyConn, Used
<1>3. /\ Live(c) /\ proxies[p].status = "active" /\ proxies[p].client = c
      /\ conns[k] = FreeConn /\ conns' = [conns EXCEPT ![k] = [client |-> c, proxy |-> p]]
      /\ UNCHANGED << leases, pool, calls, sweep, dropping, db >>
  BY DEF AcquireProxyConn
<1>4. /\ proxies' \in [Proxies -> Proxy] /\ proxies'[p] = Used(proxies[p])
      /\ \A q \in Proxies \ {p} : proxies'[q] = proxies[q]
  BY <1>1, <1>2, UsedForm
<1> QED BY <1>1, <1>2, <1>3, <1>4

LEMMA AcquireBasic ==
    ASSUME Basic, NEW k \in Conns, NEW c \in Clients, AcquireProxyConn(k, c) PROVE Basic'
<1> DEFINE p == leases[c].proxy
<1>0. /\ p \in Proxies /\ proxies[p].status = "active"
      /\ conns' = [conns EXCEPT ![k] = [client |-> c, proxy |-> p]]
      /\ proxies' \in [Proxies -> Proxy] /\ proxies'[p] = Used(proxies[p])
      /\ \A q \in Proxies \ {p} : proxies'[q] = proxies[q]
      /\ UNCHANGED << leases, pool, calls, sweep, dropping, db >>
  BY AcquireForm
<1>1. proxies'[p].status = "active"
  BY <1>0, UsedForm DEF Basic, ProxyPart
<1>2. ProxyPart' /\ DropPart'
  BY <1>0, <1>1 DEF Basic, ProxyPart, DropPart, Present, Proxies
<1>3. ConnPart'
  BY <1>0 DEF Basic, ConnPart
<1> QED BY <1>0, <1>2, <1>3 DEF Basic, LeasePart, QueuePart, CallPart, TablePart, pool, db

\* How a connection leaves: its proxy is gone, goes with it, or stays.
Nowhere(p) == (p \in Proxies => ~Present(p) \/ proxies[p].conns = 0) /\ UNCHANGED << proxies, dropping >>
LeavesApi(p) ==
    /\ p \in Ids /\ Present(p) /\ proxies[p].conns = 1 /\ ~HasActiveLease(leases, p)
    /\ proxies' = [proxies EXCEPT ![p] = Absent] /\ dropping' = dropping \cup {p}
LeavesProxy(p) ==
    /\ p \in Proxies /\ Present(p) /\ proxies[p].conns > 0
    /\ p \in Ids /\ proxies[p].conns = 1 => HasActiveLease(leases, p)
    /\ proxies' = [proxies EXCEPT ![p] = connClosed(@)] /\ UNCHANGED dropping

LEMMA UnregisterForm ==
    ASSUME Basic, NEW k \in Conns, UnregisterConn(k), \A j \in Conns : conns[j] = FreeConn \/ conns[j].proxy \in Proxies
    PROVE  LET p == conns[k].proxy IN
           /\ conns[k] # FreeConn /\ p \in Proxies
           /\ conns' = [conns EXCEPT ![k] = FreeConn]
           /\ UNCHANGED << leases, pool, calls, sweep, db >>
           /\ Nowhere(p) \/ LeavesApi(p) \/ LeavesProxy(p)
<1> DEFINE p == conns[k].proxy
<1>0. /\ conns[k] # FreeConn /\ conns' = [conns EXCEPT ![k] = FreeConn]
      /\ UNCHANGED << leases, pool, calls, sweep, db >>
  BY DEF UnregisterConn
<1>1. p \in Proxies
  BY <1>0
<1>2. Nowhere(p) \/ LeavesApi(p) \/ LeavesProxy(p)
  <2>1. CASE (~Present(p) \/ proxies[p].conns = 0) /\ UNCHANGED << proxies, dropping >>
    BY <2>1 DEF Nowhere
  <2>2. CASE /\ Present(p) /\ LastUse(p)
             /\ proxies' = [proxies EXCEPT ![p] = Absent]
             /\ dropping' = dropping \cup {p}
    BY <2>2 DEF LeavesApi, LastUse
  <2>3. CASE /\ Present(p) /\ proxies[p].conns > 0 /\ ~LastUse(p)
             /\ proxies' = [proxies EXCEPT ![p] = connClosed(@)]
             /\ UNCHANGED dropping
    BY <1>1, <2>3 DEF LeavesProxy, LastUse
  <2> QED BY <2>1, <2>2, <2>3, Zenon DEF UnregisterConn
<1> QED BY <1>0, <1>1, <1>2

\* A connection in use names a proxy.
Named == \A k \in Conns : conns[k] = FreeConn \/ conns[k].proxy \in Proxies

LEMMA UnregisterBasic == ASSUME Basic, Named, NEW k \in Conns, UnregisterConn(k) PROVE Basic'
<1> DEFINE p == conns[k].proxy
<1>0. /\ p \in Proxies
      /\ conns' = [conns EXCEPT ![k] = FreeConn]
      /\ UNCHANGED << leases, pool, calls, sweep, db >>
      /\ Nowhere(p) \/ LeavesApi(p) \/ LeavesProxy(p)
  BY UnregisterForm DEF Named
<1>1. ConnPart'
  BY <1>0 DEF Basic, ConnPart, FreeConn
<1>2. LeasePart' /\ QueuePart' /\ CallPart' /\ TablePart'
  BY <1>0 DEF Basic, LeasePart, QueuePart, CallPart, TablePart, pool, db
<1>3. proxies \in [Proxies -> Proxy]
  BY DEF Basic, ProxyPart
<1>4. ProxyPart' /\ DropPart'
  <2>1. CASE Nowhere(p)
    BY <2>1 DEF Nowhere, Basic, ProxyPart, DropPart, Present
  <2>2. CASE LeavesApi(p)
    <3>1. /\ proxies' \in [Proxies -> Proxy] /\ proxies'[p] = Absent /\ p \in Ids /\ p \notin Pool
          /\ \A q \in Proxies \ {p} : proxies'[q] = proxies[q]
      BY <1>0, <1>3, <2>2, AbsentForm, NamesAssumption DEF LeavesApi
    <3>2. ProxyPart'
      BY <3>1, AbsentForm DEF Basic, ProxyPart, Present, Proxies
    <3>3. DropPart'
      BY <2>2, <3>1, AbsentForm DEF LeavesApi, Basic, DropPart, Present, Proxies
    <3> QED BY <3>2, <3>3
  <2>3. CASE LeavesProxy(p)
    <3>1. /\ proxies' \in [Proxies -> Proxy] /\ proxies'[p] = connClosed(proxies[p])
          /\ \A q \in Proxies \ {p} : proxies'[q] = proxies[q]
          /\ proxies'[p].status # "absent" /\ Present(p) /\ UNCHANGED dropping
      BY <1>0, <1>3, <2>3, ClosedForm DEF LeavesProxy, Present
    <3> QED BY <3>1 DEF Basic, ProxyPart, DropPart, Present, Proxies
  <2> QED BY <1>0, <2>1, <2>2, <2>3
<1> QED BY <1>1, <1>2, <1>4 DEF Basic

----------------------------------------------------------------------------
(* Restart.                                                                *)

\* What New makes of the tables, for the owners it gives the proxies.
Restored(survivors, owner) ==
    /\ leases' = [c \in Clients |->
               IF c \notin survivors THEN NoLease
               ELSE [proxy |-> dbLeases[c], expired |-> FALSE,
                     params |-> IF dbLeases[c] \in Ids THEN rows[dbLeases[c]].params
                                ELSE NoParams]]
    /\ dbLeases' = [c \in Clients |-> leases'[c].proxy]
    /\ \A p \in Proxies :
               IF \E c \in Clients : leases'[c].proxy = p
               THEN owner[p] # NoClient /\ leases'[owner[p]].proxy = p
               ELSE owner[p] = NoClient
    /\ \A p \in Proxies : /\ proxies'[p] \in Proxy
                          /\ proxies'[p].conns = 0 /\ proxies'[p].drainingFor = NoClient
                          /\ IF p \in Ids /\ owner[p] = NoClient THEN proxies'[p] = Absent
                             ELSE /\ proxies'[p].client = owner[p]
                                  /\ proxies'[p].status = IF owner[p] = NoClient THEN "idle" ELSE "active"
                                  /\ p \in Ids => /\ proxies'[p].address = rows[p].address
                                                  /\ proxies'[p].params = rows[p].params
    /\ proxies' \in [Proxies -> Proxy]
    /\ rows' = [i \in Ids |-> IF owner[i] = NoClient THEN NoRow ELSE rows[i]]
    /\ pendingNew' = {} /\ pendingRefs' = {}
    /\ conns' = [k \in Conns |-> FreeConn]
    /\ calls' = [r \in Callers |-> IdleCall]
    /\ sweep' = {} /\ dropping' = {}

LEMMA RestartForm ==
    ASSUME Basic, Restart
    PROVE  /\ "restart" \in Events
           /\ \E survivors \in SUBSET Surviving, owner \in [Proxies -> Clients \cup {NoClient}] :
                 Restored(survivors, owner)
<1>0. "restart" \in Events
  BY DEF Restart
<1>1. PICK survivors \in SUBSET Surviving :
         leases' = [c \in Clients |->
               IF c \notin survivors THEN NoLease
               ELSE [proxy |-> dbLeases[c], expired |-> FALSE,
                     params |-> IF dbLeases[c] \in Ids THEN rows[dbLeases[c]].params
                                ELSE NoParams]]
  BY DEF Restart
<1> DEFINE rowOf(p) == IF p \in Ids THEN rows[p]
                       ELSE [address |-> proxies[p].address, params |-> NoParams]
           made(owner, p) ==
             IF p \in Ids /\ owner[p] = NoClient THEN Absent
             ELSE [Absent EXCEPT !.status = IF owner[p] = NoClient THEN "idle" ELSE "active",
                                 !.client = owner[p],
                                 !.address = rowOf(p).address, !.params = rowOf(p).params]
<1>2. PICK owner \in [Proxies -> Clients \cup {NoClient}] :
         /\ \A p \in Proxies :
               IF \E c \in Clients : leases'[c].proxy = p
               THEN owner[p] # NoClient /\ leases'[owner[p]].proxy = p
               ELSE owner[p] = NoClient
         /\ proxies' = [p \in Proxies |-> made(owner, p)]
         /\ rows' = [i \in Ids |-> IF owner[i] = NoClient THEN NoRow ELSE rows[i]]
  BY Zenon DEF Restart
<1>3. ASSUME NEW p \in Proxies
      PROVE  /\ made(owner, p) \in Proxy
             /\ made(owner, p).conns = 0 /\ made(owner, p).drainingFor = NoClient
             /\ IF p \in Ids /\ owner[p] = NoClient THEN made(owner, p) = Absent
                ELSE /\ made(owner, p).client = owner[p]
                     /\ made(owner, p).status = IF owner[p] = NoClient THEN "idle" ELSE "active"
                     /\ p \in Ids => /\ made(owner, p).address = rows[p].address
                                     /\ made(owner, p).params = rows[p].params
  <2>0. owner[p] \in Clients \cup {NoClient} /\ proxies[p] \in Proxy
    BY DEF Basic, ProxyPart
  <2>1. /\ rowOf(p).address \in Addresses \cup {NoAddress} /\ rowOf(p).params \in Params \cup {NoParams}
        /\ p \in Ids => rowOf(p) = rows[p]
    BY <2>0 DEF Basic, TablePart, Row, Proxy
  <2> HIDE DEF rowOf
  <2>2. CASE p \in Ids /\ owner[p] = NoClient
    BY <2>2, AbsentForm
  <2>3. CASE ~(p \in Ids /\ owner[p] = NoClient)
    <3> DEFINE st == IF owner[p] = NoClient THEN "idle" ELSE "active"
    <3>1. made(owner, p) = [status |-> st, client |-> owner[p], drainingFor |-> NoClient,
                            conns |-> 0, address |-> rowOf(p).address, params |-> rowOf(p).params]
      BY <2>3 DEF Absent
    <3>2. st \in {"idle", "active"}
      OBVIOUS
    <3> HIDE DEF st, made
    <3>3. made(owner, p) \in Proxy
      BY <2>0, <2>1, <3>1, <3>2 DEF Proxy
    <3>4. /\ made(owner, p).conns = 0 /\ made(owner, p).drainingFor = NoClient
          /\ made(owner, p).client = owner[p] /\ made(owner, p).status = st
          /\ made(owner, p).address = rowOf(p).address /\ made(owner, p).params = rowOf(p).params
      BY <3>1
    <3> QED BY <2>1, <2>3, <3>3, <3>4 DEF st
  <2> QED BY <2>2, <2>3
<1> HIDE DEF made
<1>4. /\ dbLeases' = [c \in Clients |-> leases'[c].proxy]
      /\ pendingNew' = {} /\ pendingRefs' = {}
      /\ conns' = [k \in Conns |-> FreeConn]
      /\ calls' = [r \in Callers |-> IdleCall]
      /\ sweep' = {} /\ dropping' = {}
  BY DEF Restart
<1>5. Restored(survivors, owner)
  BY <1>1, <1>2, <1>3, <1>4 DEF Restored
<1> QED BY <1>0, <1>5

LEMMA RestartBasic == ASSUME Basic, Restart PROVE Basic'
<1>1. PICK survivors \in SUBSET Surviving, owner \in [Proxies -> Clients \cup {NoClient}] :
         Restored(survivors, owner)
  BY RestartForm
<1>2. ASSUME NEW c \in survivors
      PROVE  /\ c \in Clients /\ dbLeases[c] \in Proxies
             /\ dbLeases[c] \in Ids => rows[dbLeases[c]].params \in Params \cup {NoParams}
  BY DEF Basic, TablePart, Surviving, Row
<1>3. LeasePart'
  BY <1>1, <1>2, NoLeaseForm DEF Restored, LeasePart, Lease
<1>4. ProxyPart'
  <2>1. \A p \in Pool : p \in Proxies /\ p \notin Ids
    BY NamesAssumption DEF Proxies
  <2> QED BY <1>1, <2>1, AbsentForm DEF Restored, ProxyPart, Present
<1>5. CallPart' /\ QueuePart' /\ DropPart' /\ ConnPart'
  BY <1>1, IdleCallForm DEF Restored, CallPart, QueuePart, DropPart, ConnPart, FreeConn
<1>6. TablePart'
  <2>1. \A c \in Clients : leases'[c].proxy \in Proxies \cup {NoProxy}
    BY <1>3 DEF LeasePart, Lease
  <2>2. NoRow \in Row
    BY DEF NoRow, Row
  <2> QED BY <1>1, <2>1, <2>2 DEF Restored, Basic, TablePart
<1> QED BY <1>3, <1>4, <1>5, <1>6 DEF Basic

----------------------------------------------------------------------------
(* The next-state relation, by what its steps have in common.              *)

Step ==
    \/ UNCHANGED vars
    \/ \E r \in Calls, c \in Clients : Requested(r, c)
    \/ \E r \in Calls : Quiet(r) \/ activateDynamicProxy(r)
    \/ \E r \in Callers : PoolStep(r)
    \/ nextQueuedClient
    \/ \E c \in Clients : Release(c) \/ leaseExpires(c) \/ expireLease(c)
    \/ collectExpired
    \/ \E k \in Conns : UnregisterConn(k) \/ \E c \in Clients : AcquireProxyConn(k, c)
    \/ \E i \in Ids : deleteDropped(i)
    \/ Restart

LEMMA Steps == [Next]_vars => Step
BY Zenon DEF Next, Step, Requested, Quiet, DynamicStep

LEMMA StutterBasic == ASSUME Basic, UNCHANGED vars PROVE Basic'
BY DEF vars, pool, db, Basic, ProxyPart, DropPart, LeasePart, QueuePart, ConnPart, CallPart, TablePart,
       Present

LEMMA BasicStep == ASSUME Basic, Named, Step PROVE Basic'
<1>1. CASE UNCHANGED vars
  BY <1>1, StutterBasic
<1>2. CASE \E r \in Calls, c \in Clients : Requested(r, c)
  BY <1>2, RequestedBasic
<1>3. CASE \E r \in Calls : Quiet(r) \/ activateDynamicProxy(r)
  BY <1>3, QuietBasic, InstallBasic
<1>4. CASE \E r \in Callers : PoolStep(r)
  BY <1>4, ReserveBasic, ActivateBasic, ProbeFailedBasic DEF PoolStep
<1>5. CASE nextQueuedClient
  BY <1>5, QueuedBasic
<1>6. ASSUME NEW c \in Clients, Release(c) \/ leaseExpires(c) \/ expireLease(c)
      PROVE  Basic'
  BY <1>6, ReleaseBasic, ExpiryBasic DEF Release, expireLease
<1>7. CASE collectExpired
  BY <1>7, CollectBasic
<1>8. CASE \E k \in Conns : UnregisterConn(k) \/ \E c \in Clients : AcquireProxyConn(k, c)
  BY <1>8, UnregisterBasic, AcquireBasic
<1>9. CASE \E i \in Ids : deleteDropped(i)
  BY <1>9, DroppedBasic
<1>10. CASE Restart
  BY <1>10, RestartBasic
<1> QED BY <1>1, <1>2, <1>3, <1>4, <1>5, <1>6, <1>7, <1>8, <1>9, <1>10, Zenon DEF Step

LEMMA InitBasic == Init => Basic
<1> SUFFICES ASSUME Init PROVE Basic
  OBVIOUS
<1>0. \A p \in Pool : p \in Proxies
  BY DEF Proxies
<1>1. proxies = [p \in Proxies |-> IF p \in Pool THEN [Absent EXCEPT !.status = "idle"] ELSE Absent]
  BY DEF Init
<1>2. [Absent EXCEPT !.status = "idle"] \in Proxy /\ [Absent EXCEPT !.status = "idle"].status = "idle"
  BY DEF Absent, Proxy
<1>3. ProxyPart
  <2>1. \A p \in Proxies : p \notin Pool => proxies[p] = Absent
    BY <1>1
  <2>2. \A p \in Pool : proxies[p].status = "idle"
    BY <1>0, <1>1, <1>2
  <2>3. proxies \in [Proxies -> Proxy]
    BY <1>1, <1>2, AbsentForm
  <2> QED BY <2>1, <2>2, <2>3, AbsentForm DEF ProxyPart, Present
<1>4. CallPart
  BY IdleCallForm DEF Init, CallPart
<1>5. DropPart /\ LeasePart /\ QueuePart /\ ConnPart /\ TablePart
  BY NoLeaseForm DEF Init, DropPart, LeasePart, QueuePart, ConnPart, TablePart, FreeConn, NoRow, Row
<1> QED BY <1>3, <1>4, <1>5 DEF Basic

----------------------------------------------------------------------------
(* Connections.                                                            *)

Users(p) == {k \in Conns : conns[k].proxy = p}
Counted == \A p \in Proxies : proxies[p].conns = Cardinality(Users(p))
ConnsInv == Basic /\ Named /\ Counted

\* The steps that open and close no connection.
LEMMA ConnsKept ==
    ASSUME Basic, Step
    PROVE  \/ /\ UNCHANGED conns
              /\ \A p \in Proxies : proxies'[p].conns = proxies[p].conns
           \/ \E k \in Conns : UnregisterConn(k) \/ \E c \in Clients : AcquireProxyConn(k, c)
           \/ Restart
<1> DEFINE Kept == UNCHANGED conns /\ \A p \in Proxies : proxies'[p].conns = proxies[p].conns
<1>0. \A r \in Calls : r \in Callers
  BY DEF Callers
<1>1. UNCHANGED << conns, proxies >> => Kept
  OBVIOUS
<1>2. CASE UNCHANGED vars
  BY <1>1, <1>2 DEF vars
<1>3. ASSUME NEW r \in Calls, NEW c \in Clients, Requested(r, c) PROVE Kept
  BY <1>1, <1>3, RequestedForm DEF Basic, OnlyCalls
<1>4. ASSUME NEW r \in Calls, Quiet(r) PROVE Kept
  BY <1>1, <1>4, QuietForm DEF Basic, OnlyCalls
<1>5. ASSUME NEW r \in Calls, activateDynamicProxy(r) PROVE Kept
  <2>1. PICK i \in Ids : Installs(r, i)
    BY <1>5, InstallForm
  <2>2. calls[r].pc = "probe" /\ CallPart
    BY <1>5, InstallForm DEF Basic
  <2>3. /\ calls[r].client \in Clients /\ i \in Proxies /\ ~Present(i) /\ UNCHANGED conns
        /\ proxies'[i] = New(r)
        /\ \A p \in Proxies \ {i} : proxies'[p] = replacedProxies(calls[r].client)[p]
    BY <2>1, <2>2, InstalledForm
  <2>4. proxies[i].conns = 0 /\ New(r).conns = 0
    BY <2>2, <2>3, NewForm DEF Basic, ProxyPart
  <2> QED BY <2>3, <2>4, ReplacedPool
<1>6. ASSUME NEW r \in Callers, reserveProxyForLease(r) PROVE Kept
  <2> DEFINE c == calls[r].client
  <2>1. /\ c \in Clients /\ UNCHANGED conns
        /\ proxies' = ProxiesAfter(c)
           \/ \E p \in Takeable(ProxiesAfter(c), LeasesAfter(c)) : Reserves(r, p)
    BY <1>6, ReserveForm
  <2>2. ProxiesAfter(c) \in [Proxies -> Proxy] /\ \A p \in Proxies : ProxiesAfter(c)[p].conns = proxies[p].conns
    BY <2>1, AfterPool
  <2>3. ASSUME NEW p \in Takeable(ProxiesAfter(c), LeasesAfter(c)), Reserves(r, p) PROVE Kept
    <3>1. p \in Proxies
      BY DEF Takeable, Proxies
    <3>2. proxies'[p] = Taken(ProxiesAfter(c)[p], c) /\ \A q \in Proxies \ {p} : proxies'[q] = ProxiesAfter(c)[q]
      BY <2>2, <2>3, <3>1 DEF Reserves
    <3> QED BY <2>1, <2>2, <3>1, <3>2, TakenForm
  <2> QED BY <2>1, <2>2, <2>3
<1>7. ASSUME NEW r \in Callers, activateCheckedProxy(r) PROVE Kept
  <2> DEFINE c == calls[r].client
             p == calls[r].proxy
  <2>1. /\ c \in Clients /\ p \in Proxies /\ UNCHANGED conns
        /\ proxies'[p] = Assigned(Left(r)[p], c)
        /\ \A q \in Proxies \ {p} : proxies'[q] = Left(r)[q]
    BY <1>7, ActivateForm
  <2>2. Left(r) \in [Proxies -> Proxy] /\ \A q \in Proxies : Left(r)[q].conns = proxies[q].conns
    BY <2>1, LeftPool
  <2> QED BY <2>1, <2>2, AssignedForm
<1>8. ASSUME NEW r \in Callers, poolProbeFailed(r) PROVE Kept
  <2> DEFINE p == calls[r].proxy
  <2>1. /\ p \in Proxies /\ UNCHANGED conns
        /\ proxies'[p] = Failed(proxies[p])
        /\ \A q \in Proxies \ {p} : proxies'[q] = proxies[q]
    BY <1>8, ProbeFailedForm
  <2> QED BY <2>1, FailedProxy DEF Basic, ProxyPart
<1>9. CASE nextQueuedClient
  BY <1>1, <1>9, QueuedForm
<1>10. ASSUME NEW c \in Clients, Release(c) \/ leaseExpires(c) \/ expireLease(c) PROVE Kept
  <2>1. CASE leaseExpires(c)
    BY <1>1, <2>1 DEF leaseExpires
  <2>2. CASE releaseLocked(c) /\ UNCHANGED conns
    BY <1>1, <2>2, ReleasedPool DEF releaseLocked, releaseLease
  <2> QED BY <1>10, <2>1, <2>2 DEF Release, expireLease
<1>11. CASE collectExpired
  BY <1>1, <1>11 DEF collectExpired
<1>12. ASSUME NEW i \in Ids, deleteDropped(i) PROVE Kept
  BY <1>1, <1>12 DEF deleteDropped
<1> QED BY <1>2, <1>3, <1>4, <1>5, <1>6, <1>7, <1>8, <1>9, <1>10, <1>11, <1>12, Zenon DEF Step, PoolStep

LEMMA UsersFinite == \A p : IsFiniteSet(Users(p)) /\ Cardinality(Users(p)) \in Nat
BY ConnsAssumption, FS_Subset, FS_CardinalityType DEF Users

LEMMA AcquireCounted ==
    ASSUME ConnsInv, NEW k \in Conns, NEW c \in Clients, AcquireProxyConn(k, c)
    PROVE  Named' /\ Counted'
<1>0. PICK p \in Proxies : 
      /\ p = leases[c].proxy /\ conns[k] = FreeConn
      /\ conns' = [conns EXCEPT ![k] = [client |-> c, proxy |-> p]]
      /\ proxies'[p] = Used(proxies[p])
      /\ \A q \in Proxies \ {p} : proxies'[q] = proxies[q]
  BY AcquireForm DEF ConnsInv
<1>1. /\ conns'[k].proxy = p /\ conns[k].proxy = NoProxy /\ NoProxy \notin Proxies
      /\ \A j \in Conns \ {k} : conns'[j] = conns[j]
  BY <1>0, NamesAssumption DEF ConnsInv, Basic, ConnPart, FreeConn
<1>2. Named'
  BY <1>0, <1>1 DEF ConnsInv, Named
<1>3. Users(p)' = Users(p) \cup {k} /\ k \notin Users(p)
  BY <1>0, <1>1 DEF Users
<1>4. \A q \in Proxies \ {p} : Users(q)' = Users(q)
  BY <1>0, <1>1 DEF Users
<1>5. Cardinality(Users(p)') = Cardinality(Users(p)) + 1
  BY <1>3, UsersFinite, FS_AddElement
<1>6. proxies'[p].conns = proxies[p].conns + 1
  BY <1>0, UsedForm DEF ConnsInv, Basic, ProxyPart
<1>7. Counted'
  BY <1>0, <1>4, <1>5, <1>6 DEF ConnsInv, Counted
<1> QED BY <1>2, <1>7

LEMMA UserPresent ==
    ASSUME ConnsInv, NEW k \in Conns, conns[k] # FreeConn
    PROVE  LET p == conns[k].proxy IN
           /\ p \in Proxies /\ Present(p) /\ proxies[p].conns > 0
           /\ k \in Users(p) /\ proxies[p].conns = Cardinality(Users(p))
<1> DEFINE p == conns[k].proxy
<1>1. p \in Proxies /\ k \in Users(p) /\ proxies[p].conns = Cardinality(Users(p))
  BY DEF ConnsInv, Named, Counted, Users
<1>2. Cardinality(Users(p)) \in Nat /\ Cardinality(Users(p)) # 0
  BY <1>1, UsersFinite, FS_EmptySet
<1>3. Present(p)
  BY <1>1, <1>2 DEF ConnsInv, Basic, ProxyPart
<1> QED BY <1>1, <1>2, <1>3

LEMMA UnregisterCounted ==
    ASSUME ConnsInv, NEW k \in Conns, UnregisterConn(k)
    PROVE  Named' /\ Counted'
<1>0. PICK p \in Proxies :
      /\ conns[k] # FreeConn /\ p = conns[k].proxy
      /\ conns' = [conns EXCEPT ![k] = FreeConn]
      /\ Nowhere(p) \/ LeavesApi(p) \/ LeavesProxy(p)
  BY UnregisterForm DEF ConnsInv, Named
<1>1. /\ Present(p) /\ proxies[p].conns > 0 /\ k \in Users(p)
      /\ proxies[p].conns = Cardinality(Users(p))
  BY <1>0, UserPresent
<1>2. /\ conns'[k] = FreeConn /\ conns'[k].proxy = NoProxy /\ NoProxy \notin Proxies
      /\ \A j \in Conns \ {k} : conns'[j] = conns[j]
  BY <1>0, NamesAssumption DEF ConnsInv, Basic, ConnPart, FreeConn
<1>3. Named'
  BY <1>2 DEF ConnsInv, Named
<1>4. Users(p)' = Users(p) \ {k} /\ \A q \in Proxies \ {p} : Users(q)' = Users(q)
  BY <1>0, <1>2 DEF Users
<1>5. Cardinality(Users(p)') = Cardinality(Users(p)) - 1
  BY <1>1, <1>4, UsersFinite, FS_RemoveElement
<1>6. ProxyPart
  BY DEF ConnsInv, Basic
<1>7. proxies'[p].conns = proxies[p].conns - 1 /\ \A q \in Proxies \ {p} : proxies'[q] = proxies[q]
  <2>1. CASE LeavesApi(p)
    BY <1>0, <1>6, <2>1, AbsentForm DEF LeavesApi, ProxyPart
  <2>2. CASE LeavesProxy(p)
    BY <1>0, <1>6, <2>2, ClosedForm DEF LeavesProxy, ProxyPart
  <2> QED BY <1>0, <1>1, <2>1, <2>2 DEF Nowhere
<1>8. Counted'
  BY <1>1, <1>4, <1>5, <1>7 DEF ConnsInv, Counted
<1> QED BY <1>3, <1>8

LEMMA RestartCounted == ASSUME ConnsInv, Restart PROVE Named' /\ Counted'
<1>0. Basic
  BY DEF ConnsInv
<1>1. PICK survivors \in SUBSET Surviving, owner \in [Proxies -> Clients \cup {NoClient}] :
         Restored(survivors, owner)
  BY <1>0, RestartForm
<1>2. conns' = [k \in Conns |-> FreeConn] /\ \A p \in Proxies : proxies'[p].conns = 0
  BY <1>1 DEF Restored
<1>3. \A p \in Proxies : Users(p)' = {}
  BY <1>2, NamesAssumption DEF Users, FreeConn
<1>4. Counted'
  BY <1>2, <1>3, FS_EmptySet DEF Counted
<1> QED BY <1>2, <1>4 DEF Named

LEMMA ConnsInvStep == ASSUME ConnsInv, Step PROVE ConnsInv'
<1>0. Basic /\ Named /\ Basic'
  BY BasicStep DEF ConnsInv
<1>1. CASE UNCHANGED conns /\ \A p \in Proxies : proxies'[p].conns = proxies[p].conns
  BY <1>0, <1>1 DEF ConnsInv, Named, Counted, Users
<1>2. CASE \E k \in Conns : UnregisterConn(k) \/ \E c \in Clients : AcquireProxyConn(k, c)
  BY <1>0, <1>2, UnregisterCounted, AcquireCounted DEF ConnsInv
<1>3. CASE Restart
  BY <1>0, <1>3, RestartCounted DEF ConnsInv
<1> QED BY <1>0, <1>1, <1>2, <1>3, ConnsKept

LEMMA InitConns == Init => ConnsInv
<1> SUFFICES ASSUME Init PROVE ConnsInv
  OBVIOUS
<1>1. \A k \in Conns : conns[k] = FreeConn
  BY DEF Init
<1>2. \A p \in Proxies : proxies[p].conns = 0
  BY DEF Init, Absent
<1>3. \A p \in Proxies : Users(p) = {}
  BY <1>1, NamesAssumption DEF Users, FreeConn
<1> QED BY <1>1, <1>2, <1>3, FS_EmptySet, InitBasic DEF ConnsInv, Named, Counted

\* Whatever steps of lease calls, releases, expiry, connections, failing writes
\* and restarts interleave, the manager's maps, the calls in progress and the
\* tables keep their types (LeaseDynamicContext, UnregisterConn, New).
THEOREM DynamicTypes == Spec => []TypeOK
<1>1. ConnsInv /\ [Next]_vars => ConnsInv'
  BY Steps, ConnsInvStep
<1>2. ConnsInv => TypeOK
  BY BasicTypes DEF ConnsInv
<1> QED BY <1>1, <1>2, InitConns, PTL DEF Spec

\* A proxy is in the pool, with its count right, as long as a connection uses
\* it: UnregisterConn, the sweep of the dynamic proxies and DeleteProxy look at
\* the count, and every one of them runs in one section (removeUnusedApiProxies).
THEOREM ConnsKeepProxies == Spec => []ConnsKeepProxy
<1>1. ConnsInv /\ [Next]_vars => ConnsInv'
  BY Steps, ConnsInvStep
<1>2. ConnsInv => ConnsKeepProxy
  BY UserPresent DEF ConnsKeepProxy, Users, Present
<1> QED BY <1>1, <1>2, InitConns, PTL DEF Spec

----------------------------------------------------------------------------
(* A dynamic proxy and its owners.                                         *)

LEMMA SweptAway ==
    ASSUME Basic, NEW c \in Clients, NEW i \in Ids, proxies[i].conns = 0,
           \A d \in Clients : releasedLeases(c)[d].proxy # i
    PROVE  releasedProxies(c)[i].status = "absent"
<1>0. i \in Proxies /\ ~HasActiveLease(releasedLeases(c), i)
  BY DEF Proxies, HasActiveLease
<1>1. unboundProxies(c)[i].conns = 0
  BY <1>0, UnboundForm
<1>2. CASE i \in unowned(unboundProxies(c), releasedLeases(c))
  <2>1. releasedProxies(c)[i] = Absent
    BY <1>2 DEF releasedProxies, Proxies
  <2> QED BY <2>1, AbsentForm
<1>3. CASE i \notin unowned(unboundProxies(c), releasedLeases(c))
  <2>1. unboundProxies(c)[i].status = "absent"
    BY <1>0, <1>1, <1>3 DEF unowned
  <2>2. releasedProxies(c)[i] = unboundProxies(c)[i]
    BY <1>0, <1>3 DEF releasedProxies
  <2> QED BY <2>1, <2>2
<1> QED BY <1>2, <1>3

LEMMA SameOwners ==
    ASSUME NEW i \in Ids, proxies'[i].conns = proxies[i].conns,
           \A c \in Clients : leases'[c].proxy = leases[c].proxy
    PROVE  ~Forgotten(i)
BY DEF Forgotten, Owned

LEMMA ReleaseForgets ==
    ASSUME Basic, NEW c \in Clients, NEW i \in Ids,
           leases' = releasedLeases(c), proxies'[i] = releasedProxies(c)[i]
    PROVE  ~Forgotten(i)
<1> SUFFICES ASSUME Forgotten(i) PROVE FALSE
  OBVIOUS
<1>1. i \in Proxies
  BY DEF Proxies
<1>2. proxies'[i].conns = proxies[i].conns /\ proxies[i].conns \in Nat
  BY <1>1, ReleasedForm DEF Basic, ProxyPart, Proxy
<1>3. proxies[i].conns = 0 /\ \A d \in Clients : releasedLeases(c)[d].proxy # i
  BY <1>2 DEF Forgotten, Owned
<1> QED BY <1>3, SweptAway DEF Forgotten, Present

LEMMA OwnersKnown ==
    ASSUME ConnsInv, Step, NEW i \in Ids,
           ~ \E r \in Callers : activateCheckedProxy(r)
    PROVE  ~Forgotten(i)
<1>0. /\ Basic /\ i \in Proxies /\ i \notin Pool /\ \A r \in Calls : r \in Callers
      /\ proxies[i].conns \in Nat
  BY NamesAssumption DEF ConnsInv, Basic, ProxyPart, Proxies, Callers, Proxy
<1>1. UNCHANGED << proxies, leases >> => ~Forgotten(i)
  BY SameOwners
<1>2. CASE UNCHANGED vars
  BY <1>1, <1>2 DEF vars
<1>3. ASSUME NEW r \in Calls, NEW c \in Clients, Requested(r, c) PROVE ~Forgotten(i)
  BY <1>0, <1>1, <1>3, RequestedForm DEF Basic, OnlyCalls
<1>4. ASSUME NEW r \in Calls, Quiet(r) PROVE ~Forgotten(i)
  BY <1>0, <1>1, <1>4, QuietForm DEF Basic, OnlyCalls
<1>5. ASSUME NEW r \in Calls, activateDynamicProxy(r) PROVE ~Forgotten(i)
  <2>1. PICK j \in Ids : Installs(r, j)
    BY <1>0, <1>5, InstallForm
  <2> DEFINE c == calls[r].client
  <2>2. /\ c \in Clients /\ ~Present(j)
        /\ \A p \in Proxies \ {j} : proxies'[p] = replacedProxies(c)[p]
        /\ leases' = [leases EXCEPT ![c] = [proxy |-> j, params |-> calls[r].params, expired |-> FALSE]]
    BY <1>0, <1>5, <2>1, InstallForm, InstalledForm
  <2>3. CASE i = j
    BY <2>2, <2>3 DEF Forgotten
  <2>4. CASE i # j
    <3> SUFFICES ASSUME Forgotten(i) PROVE FALSE
      OBVIOUS
    <3>1. /\ proxies'[i] = replacedProxies(c)[i] /\ replacedProxies(c)[i].conns = proxies[i].conns
          /\ replacedProxies(c)[i].status = "absent" <=> ~Present(i) \/ i \in Replaced(c)
      BY <1>0, <2>2, <2>4, ReplacedPool
    <3>2. \A d \in Clients \ {c} : leases'[d] = leases[d]
      BY <1>0, <2>2 DEF Basic, LeasePart
    <3>3. proxies[i].conns = 0 /\ leases[c].proxy = i
      BY <1>0, <3>1, <3>2 DEF Forgotten, Owned
    <3>4. i \in Replaced(c)
      BY <3>3 DEF Forgotten, Replaced
    <3> QED BY <3>1, <3>4 DEF Forgotten, Present
  <2> QED BY <2>3, <2>4
<1>6. ASSUME NEW r \in Callers, reserveProxyForLease(r) PROVE ~Forgotten(i)
  <2> DEFINE c == calls[r].client
  <2>1. /\ c \in Clients /\ leases' = LeasesAfter(c)
        /\ proxies' = ProxiesAfter(c)
           \/ \E p \in Takeable(ProxiesAfter(c), LeasesAfter(c)) : Reserves(r, p)
    BY <1>0, <1>6, ReserveForm
  <2>2. ProxiesAfter(c) \in [Proxies -> Proxy]
    BY <1>0, <2>1, AfterPool
  <2>3. proxies'[i] = ProxiesAfter(c)[i]
    BY <1>0, <2>1, <2>2 DEF Reserves, Takeable
  <2>4. CASE Stale(c)
    BY <1>0, <2>1, <2>3, <2>4, ReleaseForgets DEF LeasesAfter, ProxiesAfter
  <2>5. CASE ~Stale(c)
    BY <2>1, <2>3, <2>5, SameOwners DEF LeasesAfter, ProxiesAfter
  <2> QED BY <2>4, <2>5
<1>7. ASSUME NEW r \in Callers, poolProbeFailed(r) PROVE ~Forgotten(i)
  <2>1. proxies'[i] = proxies[i] /\ UNCHANGED leases
    BY <1>0, <1>7, ProbeFailedForm
  <2> QED BY <2>1, SameOwners
<1>8. CASE nextQueuedClient
  BY <1>0, <1>1, <1>8, QueuedForm
<1>9. ASSUME NEW c \in Clients, Release(c) \/ leaseExpires(c) \/ expireLease(c) PROVE ~Forgotten(i)
  <2>1. CASE leaseExpires(c)
    <3>1. \A d \in Clients : leases'[d].proxy = leases[d].proxy
      BY <1>0, <2>1 DEF leaseExpires, Basic, LeasePart, Lease
    <3>2. UNCHANGED proxies
      BY <2>1 DEF leaseExpires
    <3> QED BY <3>1, <3>2, SameOwners
  <2>2. CASE releaseLocked(c)
    BY <1>0, <1>1, <2>2, ReleaseForgets DEF releaseLocked, releaseLease
  <2> QED BY <1>9, <2>1, <2>2 DEF Release, expireLease
<1>10. CASE collectExpired
  BY <1>1, <1>10 DEF collectExpired
<1>11. ASSUME NEW k \in Conns, NEW c \in Clients, AcquireProxyConn(k, c) PROVE ~Forgotten(i)
  <2> DEFINE p == leases[c].proxy
  <2>1. /\ p \in Proxies /\ proxies'[p] = Used(proxies[p]) /\ UNCHANGED leases
        /\ \A q \in Proxies \ {p} : proxies'[q] = proxies[q]
    BY <1>0, <1>11, AcquireForm
  <2>2. p = i => proxies'[i].conns > 0
    BY <1>0, <2>1, UsedForm DEF Basic, ProxyPart
  <2> QED BY <1>0, <2>1, <2>2, SameOwners DEF Forgotten, Owned
<1>12. ASSUME NEW k \in Conns, UnregisterConn(k) PROVE ~Forgotten(i)
  <2> DEFINE p == conns[k].proxy
  <2>1. /\ p \in Proxies /\ UNCHANGED leases
        /\ Nowhere(p) \/ LeavesApi(p) \/ LeavesProxy(p)
    BY <1>0, <1>12, UnregisterForm DEF ConnsInv, Named
  <2>2. ProxyPart
    BY <1>0 DEF Basic
  <2>3. CASE Nowhere(p)
    BY <1>1, <2>1, <2>3 DEF Nowhere
  <2>4. CASE LeavesApi(p)
    <3>1. proxies'[p] = Absent /\ \A q \in Proxies \ {p} : proxies'[q] = proxies[q]
      BY <2>1, <2>2, <2>4 DEF LeavesApi, ProxyPart
    <3> QED BY <1>0, <2>1, <3>1, AbsentForm, SameOwners DEF Forgotten, Present
  <2>5. CASE LeavesProxy(p)
    <3>1. /\ proxies'[p].conns = proxies[p].conns - 1
          /\ \A q \in Proxies \ {p} : proxies'[q] = proxies[q]
          /\ proxies[p].conns > 0
          /\ p \in Ids /\ proxies[p].conns = 1 => \E c \in Clients : leases[c].proxy = p
      BY <2>1, <2>2, <2>5, ClosedForm DEF LeavesProxy, ProxyPart, HasActiveLease
    <3>2. i = p => Owned(i)'
      BY <1>0, <2>1, <3>1 DEF Owned
    <3> QED BY <1>0, <2>1, <3>1, <3>2, SameOwners DEF Forgotten
  <2> QED BY <2>1, <2>3, <2>4, <2>5
<1>13. ASSUME NEW j \in Ids, deleteDropped(j) PROVE ~Forgotten(i)
  BY <1>1, <1>13 DEF deleteDropped
<1>14. CASE Restart
  <2>1. PICK survivors \in SUBSET Surviving, owner \in [Proxies -> Clients \cup {NoClient}] :
           Restored(survivors, owner)
    BY <1>0, <1>14, RestartForm
  <2>2. CASE owner[i] = NoClient
    BY <1>0, <2>1, <2>2, AbsentForm DEF Restored, Forgotten, Present
  <2>3. CASE owner[i] # NoClient
    <3>1. owner[i] \in Clients /\ leases'[owner[i]].proxy = i
      <4>1. owner[i] \in Clients \cup {NoClient}
        BY <1>0
      <4>2. IF \E c \in Clients : leases'[c].proxy = i
            THEN owner[i] # NoClient /\ leases'[owner[i]].proxy = i ELSE owner[i] = NoClient
        BY <1>0, <2>1, Zenon DEF Restored
      <4> QED BY <2>3, <4>1, <4>2, Zenon
    <3> QED BY <3>1 DEF Forgotten, Owned
  <2> QED BY <2>2, <2>3
<1> QED BY <1>2, <1>3, <1>4, <1>5, <1>6, <1>7, <1>8, <1>9, <1>10, <1>11, <1>12, <1>13, <1>14, Zenon
        DEF Step, PoolStep

\* The success of a call to the pool forgets nothing but the lease it replaces.
LEMMA ActivationForgets ==
    ASSUME ConnsInv, NEW r \in Callers, activateCheckedProxy(r), NEW i \in Ids, Forgotten(i)
    PROVE  leases[calls[r].client].proxy = i
<1> DEFINE c == calls[r].client
           p == calls[r].proxy
<1>1. Basic /\ i \in Proxies /\ i \notin Pool
  BY NamesAssumption DEF ConnsInv, Proxies
<1>2. /\ c \in Clients /\ p \in Pool
      /\ \A q \in Proxies \ {p} : proxies'[q] = Left(r)[q]
      /\ leases' = [leases EXCEPT ![c] = [proxy |-> p, params |-> NoParams, expired |-> FALSE]]
  BY <1>1, ActivateForm
<1>3. \A d \in Clients : d # c => leases'[d].proxy = leases[d].proxy
  BY <1>1, <1>2 DEF Basic, LeasePart
<1>4. proxies'[i].conns = proxies[i].conns
  BY <1>1, <1>2, LeftPool
<1>5. \E d \in Clients : leases[d].proxy = i /\ leases'[d].proxy # i
  BY <1>4 DEF Forgotten, Owned
<1> QED BY <1>3, <1>5

\* A dynamic proxy leaves the pool in the step in which its last lease or
\* connection ends, whichever handler that is, unless a refresh from the pool
\* ends the lease (releaseLocked, activateDynamicProxy, UnregisterConn), or a
\* plain call to the pool that the dynamic one overtook (Overtaken).
THEOREM ApiLeavesWithOwner == Spec => ApiGoesWithOwner
<1> DEFINE A == \A i \in Ids : ~Overtaken(i) /\ Forgotten(i) => \E r \in Callers : Refreshes(r, i)
<1>1. ConnsInv /\ [Next]_vars => ConnsInv'
  BY Steps, ConnsInvStep
<1>2. ConnsInv /\ [Next]_vars => A
  <2> SUFFICES ASSUME ConnsInv, Step, NEW i \in Ids, ~Overtaken(i), Forgotten(i)
               PROVE  \E r \in Callers : Refreshes(r, i)
    BY Steps
  <2>1. PICK r \in Callers : activateCheckedProxy(r)
    BY OwnersKnown
  <2>2. calls[r].pc = "poolprobe" /\ Returns(r) /\ CallPart
    BY <2>1, ActivateForm DEF ConnsInv, Basic
  <2>3. calls'[r].pc = "idle"
    BY <2>2, IdleCallForm DEF Returns, CallPart
  <2>4. leases[calls[r].client].proxy = i
    BY <2>1, ActivationForgets
  <2>5. calls[r].refresh
    BY <2>2, <2>4, ~Overtaken(i) DEF Overtaken, CallPart, Call
  <2> QED BY <2>2, <2>3, <2>4, <2>5 DEF Refreshes
<1>3. ConnsInv /\ [Next]_vars => [A]_vars
  BY <1>2
<1> QED BY <1>1, <1>3, InitConns, PTL DEF Spec, ApiGoesWithOwner

----------------------------------------------------------------------------
(* Calls of one client take turns.                                         *)

GateAlone ==
    \A r, s \in Calls :
        calls[r].pc \in Inside /\ calls[s].pc \in Inside /\ calls[r].client = calls[s].client => r = s

\* What a step makes of the call r of the API, seen from the gate.
Keeps(r) == calls'[r].pc \in Inside => calls[r].pc \in Inside /\ calls'[r].client = calls[r].client

LEMMA OthersKeep ==
    ASSUME CallPart, NEW s \in Callers, NEW w \in Call, calls' = [calls EXCEPT ![s] = w],
           w.pc \notin Inside
    PROVE  \A r \in Calls : Keeps(r)
BY DEF Keeps, CallPart, Callers

LEMMA QuietPc ==
    ASSUME NEW r \in Calls, Quiet(r)
    PROVE  calls[r].pc \in {"gate", "refused"} \cup Inside
BY DEF Quiet, enterGate, gateCanceled, checkCurrent, acquireEndpoint, checkDuplicate, probeFailed,
       activationRefused, dynamicLeaseError, Inside

LEMMA QuietKeeps ==
    ASSUME Basic, NEW s \in Calls, Quiet(s)
    PROVE  \A r \in Calls : Keeps(r) \/ (r = s /\ enterGate(s))
<1>0. CallPart /\ s \in Callers
  BY DEF Basic, Callers
<1>1. CASE enterGate(s)
  <2>1. \A r \in Calls \ {s} : calls'[r] = calls[r]
    BY <1>0, <1>1 DEF enterGate, Goto, CallPart, Callers
  <2> QED BY <1>1, <2>1 DEF Keeps
<1>2. CASE ~enterGate(s)
  <2>1. PICK w \in Call : calls' = [calls EXCEPT ![s] = w] /\ (w = IdleCall \/ Onward(calls[s], w))
    BY <1>0, QuietForm
  <2>2. \A r \in Calls \ {s} : Keeps(r)
    BY <1>0, <2>1 DEF CallPart, Callers, Keeps
  <2>3. calls'[s] = w
    BY <1>0, <2>1 DEF CallPart
  <2>4. CASE w.pc \notin Inside
    BY <2>2, <2>3, <2>4 DEF Keeps
  <2>5. CASE w.pc \in Inside
    <3>1. Onward(calls[s], w)
      BY <2>1, <2>5, IdleCallForm DEF Inside
    <3>2. calls[s].pc # "gate"
      <4>1. CASE gateCanceled(s)
        <5>1. calls'[s].pc = "refused"
          BY <1>0, <4>1, GotoForm DEF gateCanceled, CallPart
        <5> QED BY <2>3, <2>5, <5>1 DEF Inside
      <4>2. CASE ~gateCanceled(s)
        BY <1>2, <4>2 DEF Quiet, checkCurrent, acquireEndpoint, checkDuplicate, probeFailed,
               activationRefused, dynamicLeaseError
      <4> QED BY <4>1, <4>2
    <3>3. calls[s].pc \in Inside
      BY <2>5, <3>1, <3>2 DEF Onward, Inside
    <3> QED BY <2>2, <2>3, <3>1, <3>3 DEF Keeps, Onward
  <2> QED BY <2>4, <2>5
<1> QED BY <1>1, <1>2

LEMMA CallsKeep ==
    ASSUME ConnsInv, Step
    PROVE  \A r \in Calls : Keeps(r) \/ enterGate(r)
<1>0. /\ Basic /\ CallPart /\ \A r \in Calls : r \in Callers /\ Worker \in Callers
      /\ IdleCall.pc \notin Inside
  BY IdleCallForm DEF ConnsInv, Basic, Callers, Inside
<1>1. UNCHANGED calls => \A r \in Calls : Keeps(r)
  BY DEF Keeps
<1>2. \A s \in Callers : Returns(s) => \A r \in Calls : Keeps(r)
  BY <1>0, IdleCallForm, OthersKeep DEF Returns
<1>3. CASE UNCHANGED vars
  BY <1>1, <1>3 DEF vars
<1>4. ASSUME NEW s \in Calls, NEW c \in Clients, Requested(s, c) PROVE \A r \in Calls : Keeps(r)
  <2>1. PICK w \in Call : calls' = [calls EXCEPT ![s] = w] /\ w.pc \in {"gate", "reserve"}
    BY <1>0, <1>4, RequestedForm DEF Basic
  <2>2. w.pc \notin Inside
    BY <2>1 DEF Inside
  <2> QED BY <1>0, <2>1, <2>2, OthersKeep
<1>5. ASSUME NEW s \in Calls, Quiet(s) PROVE \A r \in Calls : Keeps(r) \/ enterGate(r)
  BY <1>0, <1>5, QuietKeeps
<1>6. ASSUME NEW s \in Calls, activateDynamicProxy(s) PROVE \A r \in Calls : Keeps(r)
  <2>1. PICK i \in Ids : Installs(s, i)
    BY <1>0, <1>6, InstallForm
  <2> QED BY <1>0, <1>2, <2>1 DEF Installs, installs
<1>7. ASSUME NEW s \in Callers, reserveProxyForLease(s) PROVE \A r \in Calls : Keeps(r)
  <2> DEFINE c == calls[s].client
  <2>1. /\ calls[s].pc = "reserve"
        /\ Returns(s) \/ \E p \in Takeable(ProxiesAfter(c), LeasesAfter(c)) : Reserves(s, p)
    BY <1>0, <1>7, ReserveForm
  <2>2. ASSUME NEW p \in Takeable(ProxiesAfter(c), LeasesAfter(c)), Reserves(s, p)
        PROVE  \A r \in Calls : Keeps(r)
    <3>1. p \in Pool /\ calls' = [calls EXCEPT ![s].pc = "poolprobe", ![s].proxy = p]
      BY <2>2 DEF Takeable, Reserves
    <3>2. PICK v \in Call : /\ calls' = [calls EXCEPT ![s] = v] /\ v.pc = "poolprobe"
                            /\ v.client = calls[s].client /\ v.refresh = calls[s].refresh
      BY <1>0, <2>1, <3>1, HeldCall
    <3>3. v.pc \notin Inside
      BY <3>2 DEF Inside
    <3> QED BY <1>0, <3>2, <3>3, OthersKeep
  <2> QED BY <1>2, <2>1, <2>2
<1>8. ASSUME NEW s \in Callers, activateCheckedProxy(s) PROVE \A r \in Calls : Keeps(r)
  BY <1>0, <1>2, <1>8, ActivateForm
<1>9. ASSUME NEW s \in Callers, poolProbeFailed(s) PROVE \A r \in Calls : Keeps(r)
  <2>1. PICK v \in Call : calls' = [calls EXCEPT ![s] = v] /\ v.pc = "reserve"
    BY <1>0, <1>9, ProbeFailedForm
  <2>2. v.pc \notin Inside
    BY <2>1 DEF Inside
  <2> QED BY <1>0, <2>1, <2>2, OthersKeep
<1>10. CASE nextQueuedClient
  <2>1. PICK v \in Call : calls' = [calls EXCEPT ![Worker] = v] /\ v.pc = "reserve"
    BY <1>0, <1>10, QueuedForm
  <2>2. v.pc \notin Inside /\ Worker \in Callers
    BY <2>1 DEF Inside, Callers
  <2> QED BY <1>0, <2>1, <2>2, OthersKeep
<1>11. ASSUME NEW c \in Clients, Release(c) \/ leaseExpires(c) \/ expireLease(c)
       PROVE  \A r \in Calls : Keeps(r)
  BY <1>1, <1>11 DEF Release, leaseExpires, expireLease
<1>12. CASE collectExpired
  BY <1>1, <1>12 DEF collectExpired
<1>13. ASSUME NEW k \in Conns, UnregisterConn(k) \/ \E c \in Clients : AcquireProxyConn(k, c)
       PROVE  \A r \in Calls : Keeps(r)
  BY <1>1, <1>13 DEF UnregisterConn, AcquireProxyConn
<1>14. ASSUME NEW i \in Ids, deleteDropped(i) PROVE \A r \in Calls : Keeps(r)
  BY <1>1, <1>14 DEF deleteDropped
<1>15. CASE Restart
  <2>1. calls' = [r \in Callers |-> IdleCall]
    BY <1>15 DEF Restart
  <2> QED BY <1>0, <2>1 DEF Keeps
<1> QED BY <1>3, <1>4, <1>5, <1>6, <1>7, <1>8, <1>9, <1>10, <1>11, <1>12, <1>13, <1>14, <1>15, Zenon
        DEF Step, PoolStep

LEMMA GateStep == ASSUME ConnsInv, GateAlone, Step PROVE GateAlone'
<1>1. \A r \in Calls : Keeps(r) \/ enterGate(r)
  BY CallsKeep
<1>2. CASE \A r \in Calls : Keeps(r)
  BY <1>2 DEF Keeps, GateAlone
<1>3. ASSUME NEW s \in Calls, enterGate(s) PROVE GateAlone'
  <2>0. CallPart /\ s \in Callers
    BY DEF ConnsInv, Basic, Callers
  <2>1. \A r \in Calls : Stages[r] # Gate!Stage("inside", calls[s].client)
    BY <1>3 DEF enterGate, Gate!Free
  <2>2. \A r \in Calls : calls[r].pc \in Inside => calls[r].client # calls[s].client
    BY <2>1 DEF Stages, Gate!Stage
  <2>3. PICK v \in Call : calls' = [calls EXCEPT ![s] = v] /\ v.client = calls[s].client
    <3>1. "check" \in {"gate", "reserve", "poolprobe", "refused"} \cup Inside /\ Goto(s, "check")
      BY <1>3 DEF enterGate, Inside
    <3> QED BY <2>0, <3>1, GotoForm
  <2>4. calls'[s].client = calls[s].client /\ \A r \in Calls \ {s} : calls'[r] = calls[r]
    BY <2>0, <2>3 DEF CallPart, Callers
  <2> QED BY <2>2, <2>4 DEF GateAlone
<1> QED BY <1>1, <1>2, <1>3

----------------------------------------------------------------------------
(* A call that buys an endpoint has a reason to.                           *)

Buying == {"acquire", "duplicate", "probe"}
Wasting(r) ==
    LET c == calls[r].client IN
    calls[r].pc \in Buying /\ ~calls[r].refresh /\ Live(c) /\ leases[c].params = calls[r].params
Renewal(c) ==
    \/ c \in pendingRefs
    \/ \E s \in Callers : /\ calls[s].client = c /\ calls[s].refresh
                          /\ calls[s].pc \in {"reserve", "poolprobe"}
Renewing == \A r \in Calls : Wasting(r) => Renewal(calls[r].client)

TurnsInv == ConnsInv /\ GateAlone /\ Renewing

\* What a step leaves of a renewal: the lease of c is given up or replaced, or
\* somebody still renews it.
LEMMA RenewalKept ==
    ASSUME ConnsInv, Step, ~Restart, NEW c \in Clients, Renewal(c),
           HasLease(c)' /\ ~leases'[c].expired /\ leases'[c].params \in Params,
           \A s \in Calls : activateDynamicProxy(s) => calls[s].client # c
    PROVE  Renewal(c)'
<1>0. /\ Basic /\ CallPart /\ \A r \in Calls : r \in Callers /\ Worker \in Callers
      /\ NoParams \notin Params
  BY NamesAssumption DEF ConnsInv, Basic, Callers
<1>1. ASSUME NEW s \in Callers, NEW w \in Call, calls' = [calls EXCEPT ![s] = w],
             \A d \in pendingRefs : d = c => d \in pendingRefs',
             \/ calls[s].pc \notin {"reserve", "poolprobe"} \/ calls[s].client # c
             \/ /\ w.pc \in {"reserve", "poolprobe"} /\ w.client = calls[s].client
                /\ w.refresh = calls[s].refresh
             \/ calls[s].refresh => c \in pendingRefs'
      PROVE  Renewal(c)'
  <2>1. CASE c \in pendingRefs
    BY <1>1, <2>1 DEF Renewal
  <2>2. ASSUME NEW t \in Callers, calls[t].client = c, calls[t].refresh,
               calls[t].pc \in {"reserve", "poolprobe"}
        PROVE  Renewal(c)'
    <3>1. t # s => calls'[t] = calls[t]
      BY <1>0, <1>1 DEF CallPart
    <3>2. calls'[s] = w
      BY <1>0, <1>1 DEF CallPart
    <3> QED BY <1>1, <2>2, <3>1, <3>2 DEF Renewal
  <2> QED BY <2>1, <2>2 DEF Renewal
<1>2. ASSUME UNCHANGED calls, \A d \in pendingRefs : d = c => d \in pendingRefs'
      PROVE  Renewal(c)'
  BY <1>2 DEF Renewal
<1>3. CASE UNCHANGED vars
  BY <1>2, <1>3 DEF vars, pool
<1>4. ASSUME NEW s \in Calls, NEW d \in Clients, Requested(s, d) PROVE Renewal(c)'
  <2>1. PICK w \in Call : calls' = [calls EXCEPT ![s] = w]
    BY <1>0, <1>4, RequestedForm DEF Basic
  <2>2. calls[s].pc = "idle" /\ OnlyCalls
    BY <1>0, <1>4, RequestedForm DEF Basic
  <2> QED BY <1>0, <1>1, <2>1, <2>2 DEF OnlyCalls, pool
<1>5. ASSUME NEW s \in Calls, Quiet(s) PROVE Renewal(c)'
  <2>1. PICK w \in Call : calls' = [calls EXCEPT ![s] = w]
    BY <1>0, <1>5, QuietForm
  <2>2. calls[s].pc \notin {"reserve", "poolprobe"} /\ OnlyCalls
    BY <1>0, <1>5, QuietPc, QuietForm DEF Inside
  <2> QED BY <1>0, <1>1, <2>1, <2>2 DEF OnlyCalls, pool
<1>6. ASSUME NEW s \in Calls, activateDynamicProxy(s) PROVE Renewal(c)'
  <2>1. PICK i \in Ids : Installs(s, i)
    BY <1>0, <1>6, InstallForm
  <2>2. calls[s].pc = "probe" /\ calls[s].client # c
    BY <1>6, InstallForm, <1>0
  <2>3. Returns(s) /\ removeQueued(calls[s].client)
    BY <2>1 DEF Installs, installs
  <2>4. \A d \in pendingRefs : d = c => d \in pendingRefs'
    BY <2>2, <2>3 DEF removeQueued
  <2> QED BY <1>0, <1>1, <2>2, <2>3, <2>4, IdleCallForm DEF Returns
<1>7. ASSUME NEW s \in Callers, reserveProxyForLease(s) PROVE Renewal(c)'
  <2> DEFINE d == calls[s].client
  <2>1. /\ calls[s].pc = "reserve" /\ d \in Clients /\ leases' = LeasesAfter(d)
        /\ \A e \in pendingRefs : e \in pendingRefs' \/ (e = d /\ Stale(d))
        /\ \/ Returns(s) /\ (calls[s].refresh => d \in pendingRefs')
           \/ \E p \in Takeable(ProxiesAfter(d), LeasesAfter(d)) : Reserves(s, p)
    BY <1>0, <1>7, ReserveForm
  <2>2. ~(c = d /\ Stale(d))
    <3> SUFFICES ASSUME c = d, Stale(d) PROVE FALSE
      OBVIOUS
    <3>1. leases'[c] = NoLease
      BY <1>0, <2>1 DEF LeasesAfter, releasedLeases, Basic, LeasePart
    <3> QED BY <3>1, NoLeaseForm DEF HasLease
  <2>3. \A e \in pendingRefs : e = c => e \in pendingRefs'
    BY <2>1, <2>2
  <2>4. CASE Returns(s) /\ (calls[s].refresh => d \in pendingRefs')
    <3>1. calls[s].client # c \/ (calls[s].refresh => c \in pendingRefs')
      BY <2>4
    <3> QED BY <1>0, <1>1, <2>3, <2>4, <3>1, IdleCallForm DEF Returns
  <2>5. ASSUME NEW p \in Takeable(ProxiesAfter(d), LeasesAfter(d)), Reserves(s, p)
        PROVE  Renewal(c)'
    <3>1. p \in Pool /\ calls' = [calls EXCEPT ![s].pc = "poolprobe", ![s].proxy = p]
      BY <2>5 DEF Takeable, Reserves
    <3>2. PICK v \in Call : /\ calls' = [calls EXCEPT ![s] = v] /\ KnownCall(v)
                            /\ v.pc = "poolprobe" /\ v.proxy = p
                            /\ v.client = calls[s].client /\ v.refresh = calls[s].refresh
      <4>1. CallPart /\ calls[s].pc = "reserve"
        BY <1>0, <2>1
      <4> QED BY <3>1, <4>1, HeldCall
    <3> QED BY <1>1, <2>3, <3>2
  <2> QED BY <2>1, <2>4, <2>5
<1>8. ASSUME NEW s \in Callers, activateCheckedProxy(s) PROVE Renewal(c)'
  <2>1. /\ calls[s].client \in Clients
        /\ leases' = [leases EXCEPT ![calls[s].client] =
                        [proxy |-> calls[s].proxy, params |-> NoParams, expired |-> FALSE]]
        /\ removeQueued(calls[s].client) /\ Returns(s)
    BY <1>0, <1>8, ActivateForm
  <2>2. calls[s].client # c
    <3> SUFFICES ASSUME calls[s].client = c PROVE FALSE
      OBVIOUS
    <3>1. leases'[c].params = NoParams
      BY <1>0, <2>1 DEF Basic, LeasePart
    <3> QED BY <1>0, <3>1
  <2>3. \A d \in pendingRefs : d = c => d \in pendingRefs'
    BY <2>1, <2>2 DEF removeQueued
  <2> QED BY <1>1, <2>1, <2>2, <2>3, IdleCallForm DEF Returns
<1>9. ASSUME NEW s \in Callers, poolProbeFailed(s) PROVE Renewal(c)'
  <2>1. PICK v \in Call : /\ calls' = [calls EXCEPT ![s] = v] /\ v.pc = "reserve"
                          /\ v.client = calls[s].client /\ v.refresh = calls[s].refresh
    BY <1>0, <1>9, ProbeFailedForm
  <2>2. UNCHANGED pendingRefs
    BY <1>0, <1>9, ProbeFailedForm DEF pool
  <2> QED BY <1>1, <2>1, <2>2
<1>10. CASE nextQueuedClient
  <2>1. PICK w \in Call : /\ calls' = [calls EXCEPT ![Worker] = w] /\ w.pc = "reserve"
                          /\ \/ pendingRefs' = pendingRefs
                             \/ w.refresh /\ pendingRefs' = pendingRefs \ {w.client}
    BY <1>0, <1>10, QueuedForm
  <2>2. calls[Worker].pc = "idle" /\ Worker \in Callers /\ calls'[Worker] = w
    BY <1>0, <1>10, <2>1, QueuedForm DEF CallPart
  <2>3. CASE c \in pendingRefs /\ c \notin pendingRefs'
    BY <2>1, <2>2, <2>3 DEF Renewal
  <2>4. CASE \A d \in pendingRefs : d = c => d \in pendingRefs'
    BY <1>1, <2>1, <2>2, <2>4
  <2> QED BY <2>3, <2>4
<1>11. ASSUME NEW d \in Clients, Release(d) \/ leaseExpires(d) \/ expireLease(d) PROVE Renewal(c)'
  <2>1. CASE leaseExpires(d)
    BY <1>2, <2>1 DEF leaseExpires, pool
  <2>2. CASE releaseLocked(d) /\ UNCHANGED calls
    <3>1. c = d => ~HasLease(c)'
      <4>1. HasLease(d) => leases'[d] = NoLease
        BY <1>0, <2>2 DEF releaseLocked, releaseLease, releasedLeases, Basic, LeasePart
      <4>2. ~HasLease(d) => UNCHANGED leases
        BY <2>2 DEF releaseLocked
      <4> QED BY <4>1, <4>2, NoLeaseForm DEF HasLease
    <3> QED BY <1>2, <2>2, <3>1 DEF releaseLocked, removeQueued
  <2> QED BY <1>11, <2>1, <2>2 DEF Release, expireLease
<1>12. CASE collectExpired
  BY <1>2, <1>12 DEF collectExpired, pool
<1>13. ASSUME NEW k \in Conns, UnregisterConn(k) \/ \E d \in Clients : AcquireProxyConn(k, d)
       PROVE  Renewal(c)'
  BY <1>2, <1>13 DEF UnregisterConn, AcquireProxyConn, pool
<1>14. ASSUME NEW i \in Ids, deleteDropped(i) PROVE Renewal(c)'
  BY <1>2, <1>14 DEF deleteDropped, pool
<1> QED BY <1>3, <1>4, <1>5, <1>6, <1>7, <1>8, <1>9, <1>10, <1>11, <1>12, <1>13, <1>14, Zenon
        DEF Step, PoolStep

\* A call that begins to buy has looked at the lease just now.
LEMMA QuietBuys ==
    ASSUME Basic, NEW s \in Calls, Quiet(s), calls'[s].pc \in Buying
    PROVE  /\ calls'[s].client = calls[s].client /\ calls'[s].params = calls[s].params
           /\ calls'[s].refresh = calls[s].refresh
           /\ calls[s].pc \in Buying \/ (calls[s].pc = "check" /\ ~Satisfied(s))
<1>0. CallPart /\ s \in Callers
  BY DEF Basic, Callers
<1>1. PICK w \in Call : calls' = [calls EXCEPT ![s] = w] /\ (w = IdleCall \/ Onward(calls[s], w))
  BY <1>0, QuietForm
<1>2. calls'[s] = w
  BY <1>0, <1>1 DEF CallPart
<1>3. Onward(calls[s], w)
  BY <1>1, <1>2, IdleCallForm DEF Buying
<1>4. \A pc : pc \in {"refused", "check"} /\ Goto(s, pc) => calls'[s].pc = pc
  <2> SUFFICES ASSUME NEW pc \in {"refused", "check"}, Goto(s, pc) PROVE calls'[s].pc = pc
    OBVIOUS
  <2>1. pc \in {"gate", "reserve", "poolprobe", "refused"} \cup Inside
    BY DEF Inside
  <2>2. PICK v \in Call : calls' = [calls EXCEPT ![s] = v] /\ v.pc = pc
    BY <1>0, <2>1, GotoForm
  <2> QED BY <1>0, <2>2 DEF CallPart
<1>5. ~enterGate(s) /\ ~gateCanceled(s)
  BY <1>4 DEF enterGate, gateCanceled, Buying
<1>6. ~probeFailed(s) /\ ~activationRefused(s)
  <2>1. ~Fails(s)
    <3> SUFFICES ASSUME Fails(s) PROVE FALSE
      OBVIOUS
    <3>1. PICK v \in Call : calls' = [calls EXCEPT ![s] = v] /\ v.pc = "failing"
      BY <1>0, FailsForm
    <3> QED BY <1>0, <3>1 DEF CallPart, Buying
  <2> QED BY <2>1 DEF probeFailed, activationRefused
<1>7. ~Returns(s)
  BY <1>0, IdleCallForm DEF Returns, CallPart, Buying
<1>8. calls[s].pc \in Buying \/ (calls[s].pc = "check" /\ ~Satisfied(s))
  BY <1>5, <1>6, <1>7 DEF Quiet, checkCurrent, acquireEndpoint, checkDuplicate, dynamicLeaseError, Buying
<1> QED BY <1>2, <1>3, <1>8 DEF Onward

\* Between two states of a call that buys, only its own steps matter.
LEMMA CallMoves ==
    ASSUME ConnsInv, Step, NEW r \in Calls, calls'[r].pc \in Buying
    PROVE  \/ calls'[r] = calls[r] /\ ~activateDynamicProxy(r)
           \/ Quiet(r)
<1>0. /\ Basic /\ CallPart /\ \A s \in Calls : s \in Callers /\ Worker \in Callers
      /\ Worker \notin Calls
  BY NamesAssumption DEF ConnsInv, Basic, Callers
<1>1. ASSUME NEW s \in Callers, NEW w \in Call, calls' = [calls EXCEPT ![s] = w], w.pc \notin Buying
      PROVE  calls'[r] = calls[r] /\ r # s
  BY <1>0, <1>1 DEF CallPart
<1>2. ~Returns(r)
  BY <1>0, IdleCallForm DEF Returns, CallPart, Buying
<1>3. ~activateDynamicProxy(r)
  BY <1>2 DEF activateDynamicProxy, installs
<1>4. CASE UNCHANGED calls
  BY <1>3, <1>4
<1>5. ASSUME NEW s \in Calls, NEW c \in Clients, Requested(s, c) PROVE calls'[r] = calls[r]
  <2>1. PICK w \in Call : calls' = [calls EXCEPT ![s] = w] /\ w.pc \in {"gate", "reserve"}
    BY <1>0, <1>5, RequestedForm DEF Basic
  <2> QED BY <1>0, <1>1, <2>1 DEF Buying
<1>6. ASSUME NEW s \in Calls, Quiet(s) PROVE calls'[r] = calls[r] \/ Quiet(r)
  <2>1. PICK w \in Call : calls' = [calls EXCEPT ![s] = w]
    BY <1>0, <1>6, QuietForm
  <2> QED BY <1>0, <1>6, <2>1 DEF CallPart
<1>7. ASSUME NEW s \in Callers, Returns(s) PROVE calls'[r] = calls[r]
  BY <1>0, <1>1, <1>7, IdleCallForm DEF Returns, Buying
<1>8. ASSUME NEW s \in Calls, activateDynamicProxy(s) PROVE calls'[r] = calls[r]
  BY <1>0, <1>7, <1>8 DEF activateDynamicProxy, installs
<1>9. ASSUME NEW s \in Callers, reserveProxyForLease(s) PROVE calls'[r] = calls[r]
  <2> DEFINE d == calls[s].client
  <2>1. /\ calls[s].pc = "reserve"
        /\ Returns(s) \/ \E p \in Takeable(ProxiesAfter(d), LeasesAfter(d)) : Reserves(s, p)
    BY <1>0, <1>9, ReserveForm
  <2>2. ASSUME NEW p \in Takeable(ProxiesAfter(d), LeasesAfter(d)), Reserves(s, p)
        PROVE  calls'[r] = calls[r]
    <3>1. p \in Pool /\ calls' = [calls EXCEPT ![s].pc = "poolprobe", ![s].proxy = p]
      BY <2>2 DEF Takeable, Reserves
    <3>2. PICK v \in Call : /\ calls' = [calls EXCEPT ![s] = v] /\ v.pc = "poolprobe"
                            /\ v.client = calls[s].client /\ v.refresh = calls[s].refresh
      BY <1>0, <2>1, <3>1, HeldCall
    <3> QED BY <1>1, <3>2 DEF Buying
  <2> QED BY <1>7, <2>1, <2>2
<1>10. ASSUME NEW s \in Callers, activateCheckedProxy(s) PROVE calls'[r] = calls[r]
  BY <1>0, <1>7, <1>10, ActivateForm
<1>11. ASSUME NEW s \in Callers, poolProbeFailed(s) PROVE calls'[r] = calls[r]
  <2>1. PICK v \in Call : calls' = [calls EXCEPT ![s] = v] /\ v.pc = "reserve"
    BY <1>0, <1>11, ProbeFailedForm
  <2> QED BY <1>1, <2>1 DEF Buying
<1>12. ASSUME nextQueuedClient PROVE calls'[r] = calls[r]
  <2>1. PICK v \in Call : calls' = [calls EXCEPT ![Worker] = v] /\ v.pc = "reserve"
    BY <1>0, <1>12, QueuedForm
  <2> QED BY <1>0, <1>1, <2>1 DEF Buying
<1>13. CASE Restart
  <2>1. calls'[r] = IdleCall
    BY <1>0, <1>13 DEF Restart
  <2> QED BY <2>1, IdleCallForm DEF Buying
<1>14. CASE \/ UNCHANGED vars \/ collectExpired
            \/ \E c \in Clients : Release(c) \/ leaseExpires(c) \/ expireLease(c)
            \/ \E k \in Conns : UnregisterConn(k) \/ \E c \in Clients : AcquireProxyConn(k, c)
            \/ \E i \in Ids : deleteDropped(i)
  BY <1>4, <1>14 DEF vars, collectExpired, Release, leaseExpires, expireLease, UnregisterConn,
         AcquireProxyConn, deleteDropped
<1> QED BY <1>3, <1>5, <1>6, <1>8, <1>9, <1>10, <1>11, <1>12, <1>13, <1>14, Zenon DEF Step, PoolStep

\* A lease with parameters that is in force after a step was so before, unless
\* the step installed it.
LEMMA LeaseInForce ==
    ASSUME ConnsInv, Step, ~Restart, NEW c \in Clients,
           HasLease(c)', ~leases'[c].expired, leases'[c].params \in Params,
           \A s \in Calls : activateDynamicProxy(s) => calls[s].client # c
    PROVE  leases'[c] = leases[c]
<1>0. /\ Basic /\ LeasePart /\ CallPart /\ \A s \in Calls : s \in Callers /\ Worker \in Callers
      /\ NoParams \notin Params /\ NoLease.proxy = NoProxy
  BY NamesAssumption, NoLeaseForm DEF ConnsInv, Basic, Callers
<1>1. leases'[c] # NoLease
  BY <1>0 DEF HasLease
<1>2. ASSUME NEW s \in Calls, activateDynamicProxy(s) PROVE leases'[c] = leases[c]
  <2>1. PICK i \in Ids : Installs(s, i)
    BY <1>0, <1>2, InstallForm
  <2>2. leases' = [leases EXCEPT ![calls[s].client] = [proxy |-> i, params |-> calls[s].params, expired |-> FALSE]]
    BY <2>1 DEF Installs, installs
  <2>3. calls[s].client # c
    BY <1>2
  <2> QED BY <1>0, <2>2, <2>3 DEF LeasePart
<1>3. ASSUME NEW s \in Callers, reserveProxyForLease(s) PROVE leases'[c] = leases[c]
  <2>1. calls[s].client \in Clients /\ leases' = LeasesAfter(calls[s].client)
    BY <1>0, <1>3, ReserveForm
  <2> QED BY <1>0, <1>1, <2>1 DEF LeasesAfter, releasedLeases, LeasePart
<1>4. ASSUME NEW s \in Callers, activateCheckedProxy(s) PROVE leases'[c] = leases[c]
  <2>1. leases' = [leases EXCEPT ![calls[s].client] =
                        [proxy |-> calls[s].proxy, params |-> NoParams, expired |-> FALSE]]
    BY <1>0, <1>4, ActivateForm
  <2>2. calls[s].client = c => leases'[c].params = NoParams
    BY <1>0, <2>1 DEF LeasePart
  <2> QED BY <1>0, <2>1, <2>2 DEF LeasePart
<1>5. ASSUME NEW d \in Clients, leaseExpires(d) PROVE leases'[c] = leases[c]
  BY <1>0, <1>5 DEF leaseExpires, LeasePart, Lease
<1>6. ASSUME NEW d \in Clients, releaseLocked(d) PROVE leases'[c] = leases[c]
  BY <1>0, <1>1, <1>6 DEF releaseLocked, releaseLease, releasedLeases, LeasePart
<1>7. ASSUME NEW s \in Calls, Quiet(s) PROVE leases'[c] = leases[c]
  BY <1>0, <1>7, QuietForm DEF OnlyCalls
<1>8. ASSUME NEW s \in Calls, NEW d \in Clients, Requested(s, d) PROVE leases'[c] = leases[c]
  BY <1>0, <1>8, RequestedForm DEF OnlyCalls
<1>9. ASSUME NEW s \in Callers, poolProbeFailed(s) PROVE leases'[c] = leases[c]
  BY <1>9 DEF poolProbeFailed
<1>10. CASE nextQueuedClient
  BY <1>10 DEF nextQueuedClient
<1>11. CASE \/ UNCHANGED vars \/ collectExpired
            \/ \E k \in Conns : UnregisterConn(k) \/ \E d \in Clients : AcquireProxyConn(k, d)
            \/ \E i \in Ids : deleteDropped(i)
  BY <1>11 DEF vars, collectExpired, UnregisterConn, AcquireProxyConn, deleteDropped
<1>12. CASE \E d \in Clients : Release(d) \/ expireLease(d)
  BY <1>6, <1>12 DEF Release, expireLease
<1> QED BY <1>2, <1>3, <1>4, <1>5, <1>7, <1>8, <1>9, <1>10, <1>11, <1>12, Zenon DEF Step, PoolStep

LEMMA RenewingStep == ASSUME TurnsInv, Step PROVE Renewing'
<1>0. /\ ConnsInv /\ GateAlone /\ Renewing /\ Basic /\ CallPart /\ \A r \in Calls : r \in Callers
      /\ Basic'
  BY BasicStep DEF TurnsInv, ConnsInv, Basic, Callers
<1>1. ASSUME NEW r \in Calls, NEW c \in Clients, calls[r].client = c, calls'[r].client = c,
             calls'[r].pc \in Buying, ~calls'[r].refresh, HasLease(c)', ~leases'[c].expired,
             leases'[c].params = calls'[r].params
      PROVE  Renewal(c)'
  <2>1. ~Restart
    <3> SUFFICES ASSUME Restart PROVE FALSE
      OBVIOUS
    <3>1. calls'[r] = IdleCall
      BY <1>0 DEF Restart
    <3> QED BY <1>1, <3>1, IdleCallForm DEF Buying
  <2>2. /\ calls'[r].params = calls[r].params /\ calls'[r].refresh = calls[r].refresh
        /\ calls[r].pc \in Buying \/ (calls[r].pc = "check" /\ ~Satisfied(r))
        /\ ~activateDynamicProxy(r)
    <3>1. CASE calls'[r] = calls[r] /\ ~activateDynamicProxy(r)
      BY <1>1, <3>1
    <3>2. CASE Quiet(r)
      <4>1. ~activateDynamicProxy(r)
        <5> SUFFICES ASSUME activateDynamicProxy(r) PROVE FALSE
          OBVIOUS
        <5>1. calls'[r] = IdleCall
          BY <1>0 DEF activateDynamicProxy, installs, Returns, CallPart
        <5> QED BY <1>1, <5>1, IdleCallForm DEF Buying
      <4> QED BY <1>0, <1>1, <3>2, <4>1, QuietBuys
    <3> QED BY <1>0, <1>1, <3>1, <3>2, CallMoves
  <2>3. calls[r].pc \in Inside /\ calls[r].params \in Params
    <3>1. calls[r].pc \in Inside
      BY <2>2 DEF Buying, Inside
    <3>2. KnownCall(calls[r])
      BY <1>0 DEF CallPart
    <3> QED BY <3>1, <3>2 DEF KnownCall, Inside
  <2>4. \A s \in Calls : activateDynamicProxy(s) => calls[s].client # c
    <3> SUFFICES ASSUME NEW s \in Calls, activateDynamicProxy(s), calls[s].client = c PROVE FALSE
      OBVIOUS
    <3>1. calls[s].pc \in Inside
      BY DEF activateDynamicProxy, Inside
    <3>2. s = r
      BY <1>0, <1>1, <2>3, <3>1 DEF GateAlone
    <3> QED BY <2>2, <3>2
  <2>5. leases'[c].params \in Params
    BY <1>1, <2>2, <2>3
  <2>6. leases'[c] = leases[c]
    BY <1>0, <1>1, <2>1, <2>4, <2>5, LeaseInForce
  <2>7. HasLease(c) /\ ~leases[c].expired /\ leases[c].params = calls[r].params /\ ~calls[r].refresh
    BY <1>1, <2>2, <2>6 DEF HasLease
  <2>8. Renewal(c)
    <3>1. CASE calls[r].pc \in Buying
      BY <1>0, <1>1, <2>7, <3>1 DEF Renewing, Wasting, Live
    <3>2. CASE calls[r].pc = "check" /\ ~Satisfied(r)
      BY <1>1, <2>7, <3>2 DEF Satisfied, Renewal, HasLease
    <3> QED BY <2>2, <3>1, <3>2
  <2> QED BY <1>0, <1>1, <2>1, <2>3, <2>4, <2>5, <2>8, RenewalKept
<1>2. ASSUME NEW r \in Calls, calls'[r].pc \in Buying
      PROVE  calls'[r].client = calls[r].client /\ calls[r].client \in Clients
  <2>1. calls'[r].client = calls[r].client
    BY <1>0, <1>2, CallMoves, QuietBuys
  <2>2. calls'[r].client \in Clients
    BY <1>0, <1>2 DEF Basic, CallPart, KnownCall, Buying
  <2> QED BY <2>1, <2>2
<1>3. ASSUME NEW r \in Calls,
             calls'[r].pc \in Buying /\ ~calls'[r].refresh
                /\ leases'[calls'[r].client].proxy # NoProxy /\ ~leases'[calls'[r].client].expired
                /\ leases'[calls'[r].client].params = calls'[r].params
      PROVE  \/ calls'[r].client \in pendingRefs'
             \/ \E s \in Callers : /\ calls'[s].client = calls'[r].client /\ calls'[s].refresh
                                   /\ calls'[s].pc \in {"reserve", "poolprobe"}
  <2>1. PICK c \in Clients : calls'[r].client = c /\ calls[r].client = c
    BY <1>2, <1>3
  <2>2. HasLease(c)'
    BY <1>3, <2>1 DEF HasLease
  <2>3. Renewal(c)'
    BY <1>1, <1>3, <2>1, <2>2
  <2> QED BY <2>1, <2>3 DEF Renewal
<1> QED BY <1>3 DEF Renewing, Wasting, Renewal, Live, HasLease

LEMMA TurnsStep == ASSUME TurnsInv, Step PROVE TurnsInv'
BY ConnsInvStep, GateStep, RenewingStep DEF TurnsInv

LEMMA InitTurns == Init => TurnsInv
<1> SUFFICES ASSUME Init PROVE TurnsInv
  OBVIOUS
<1>1. \A r \in Calls : calls[r].pc = "idle"
  BY IdleCallForm DEF Init, Callers
<1>2. GateAlone /\ Renewing
  BY <1>1 DEF GateAlone, Renewing, Wasting, Inside, Buying
<1> QED BY <1>2, InitConns DEF TurnsInv

\* No endpoint is bought for a client that holds a live lease with the same
\* parameters, except by a refresh: the lock per client covers the lookup, the
\* purchase and the activation (LeaseDynamicContext).
THEOREM EndpointsNotWasted == Spec => []NoWastedAcquire
<1>1. TurnsInv /\ [Next]_vars => TurnsInv'
  BY Steps, TurnsStep
<1>2. TurnsInv => NoWastedAcquire
  BY DEF TurnsInv, NoWastedAcquire, Renewing, Wasting, Renewal, AwaitsRefresh, Buying
<1> QED BY <1>1, <1>2, InitTurns, PTL DEF Spec

----------------------------------------------------------------------------
(* The tables, as long as no write fails.                                  *)

AddressStored == \A i \in Ids : Present(i) => rows[i].address = proxies[i].address
StoredInv == ConnsInv /\ StoredAsHeld /\ AddressStored

\* The steps that write no table, and change neither what they record.
LEMMA NothingToStore ==
    ASSUME StoredAsHeld, AddressStored, UNCHANGED << db, dropping >>,
           \A c \in Clients : leases'[c].proxy = leases[c].proxy,
           \A i \in Ids : /\ proxies'[i].status = "absent" <=> proxies[i].status = "absent"
                          /\ Present(i) => proxies'[i].address = proxies[i].address
    PROVE  StoredAsHeld' /\ AddressStored'
BY DEF StoredAsHeld, AddressStored, Present, db

LEMMA RowsDeleted ==
    ASSUME "dbfail" \notin Events, NEW ids \in SUBSET Ids, deleteRows(ids)
    PROVE  rows' = [i \in Ids |-> IF i \in ids THEN NoRow ELSE rows[i]]
<1>1. PICK kept \in SUBSET ids : /\ kept # {} => MayFail
                                 /\ rows' = [i \in Ids |-> IF i \in ids \ kept THEN NoRow ELSE rows[i]]
  BY DEF deleteRows
<1>2. kept = {}
  BY <1>1 DEF MayFail
<1> QED BY <1>1, <1>2

\* The writes of a release, of which the pool ps is what a step leaves.
LEMMA ReleaseStored ==
    ASSUME "dbfail" \notin Events, Basic, StoredAsHeld, AddressStored, NEW c \in Clients,
           leases' = releasedLeases(c), storeLease(c, NoProxy),
           deleteRows(unowned(unboundProxies(c), releasedLeases(c))), UNCHANGED dropping,
           \A i \in Ids : proxies'[i] = releasedProxies(c)[i]
    PROVE  StoredAsHeld' /\ AddressStored'
<1> DEFINE gone == unowned(unboundProxies(c), releasedLeases(c))
<1>0. LeasePart /\ TablePart /\ gone \in SUBSET Ids /\ \A i \in Ids : i \in Proxies
  BY UnownedIds DEF Basic, Proxies
<1>1. rows' = [i \in Ids |-> IF i \in gone THEN NoRow ELSE rows[i]]
  BY <1>0, RowsDeleted
<1>2. dbLeases' = [dbLeases EXCEPT ![c] = NoProxy]
  BY DEF storeLease, MayFail
<1>3. \A d \in Clients : dbLeases'[d] = leases'[d].proxy
  BY <1>0, <1>2, NoLeaseForm DEF releasedLeases, LeasePart, TablePart, StoredAsHeld
<1>4. ASSUME NEW i \in Ids
      PROVE  /\ rows'[i] # NoRow <=> proxies'[i].status # "absent" \/ i \in dropping
             /\ proxies'[i].status # "absent" => rows'[i].address = proxies'[i].address
  <2>1. CASE i \in gone
    <3>1. releasedProxies(c)[i] = Absent /\ Present(i)
      BY <1>0, <2>1, ReleasedForm
    <3>2. i \notin dropping
      BY <3>1 DEF Basic, DropPart
    <3> QED BY <1>1, <2>1, <3>1, <3>2, AbsentForm
  <2>2. CASE i \notin gone
    <3>1. releasedProxies(c)[i] = unboundProxies(c)[i]
      BY <1>0, <2>2, ReleasedForm
    <3>2. /\ releasedProxies(c)[i].status = "absent" <=> ~Present(i)
          /\ releasedProxies(c)[i].address = proxies[i].address
      BY <1>0, <3>1, UnboundForm
    <3> QED BY <1>1, <2>2, <3>2 DEF StoredAsHeld, AddressStored, Present
  <2> QED BY <2>1, <2>2
<1> QED BY <1>3, <1>4 DEF StoredAsHeld, AddressStored, Present

LEMMA InstallStored ==
    ASSUME Basic, StoredAsHeld, AddressStored, NEW r \in Calls, activateDynamicProxy(r)
    PROVE  StoredAsHeld' /\ AddressStored'
<1>0. calls[r].pc = "probe" /\ CallPart
  BY InstallForm DEF Basic
<1>1. PICK i \in Ids : Installs(r, i)
  BY InstallForm
<1>2. PICK c \in Clients : c = calls[r].client
  BY <1>0, NewForm
<1>3. /\ i \in Proxies /\ ~Present(i) /\ i \notin dropping
      /\ proxies'[i] = New(r)
      /\ \A p \in Proxies \ {i} : proxies'[p] = replacedProxies(c)[p]
      /\ leases' = [leases EXCEPT ![c] = [proxy |-> i, params |-> calls[r].params, expired |-> FALSE]]
      /\ dbLeases' = [dbLeases EXCEPT ![c] = i]
      /\ rows' = [j \in Ids |-> IF j = i THEN RowOf(r)
                                ELSE IF j \in Replaced(c) THEN NoRow ELSE rows[j]]
      /\ UNCHANGED dropping
  BY <1>0, <1>1, <1>2, InstalledForm
<1>4. \A d \in Clients : dbLeases'[d] = leases'[d].proxy
  BY <1>2, <1>3 DEF Basic, LeasePart, TablePart, StoredAsHeld
<1>5. ASSUME NEW j \in Ids
      PROVE  /\ rows'[j] # NoRow <=> proxies'[j].status # "absent" \/ j \in dropping
             /\ proxies'[j].status # "absent" => rows'[j].address = proxies'[j].address
  <2>0. j \in Proxies
    BY DEF Proxies
  <2>1. CASE j = i
    BY <1>0, <1>3, <2>1, NewForm
  <2>2. CASE j # i
    <3>1. proxies'[j] = replacedProxies(c)[j]
      BY <1>3, <2>0, <2>2
    <3>2. /\ proxies'[j].status = "absent" <=> ~Present(j) \/ j \in Replaced(c)
          /\ proxies'[j].status # "absent" => proxies'[j].address = proxies[j].address
      BY <2>0, <3>1, ReplacedPool
    <3>3. CASE j \in Replaced(c)
      <4>1. Present(j) /\ j \notin dropping
        BY <3>3 DEF Replaced, Basic, DropPart
      <4> QED BY <1>3, <2>2, <3>2, <3>3, <4>1
    <3>4. CASE j \notin Replaced(c)
      BY <1>3, <2>2, <3>2, <3>4 DEF StoredAsHeld, AddressStored
    <3> QED BY <3>3, <3>4
  <2> QED BY <2>1, <2>2
<1> QED BY <1>3, <1>4, <1>5 DEF StoredAsHeld, AddressStored, Present

LEMMA ReserveStored ==
    ASSUME "dbfail" \notin Events, Basic, StoredAsHeld, AddressStored,
           NEW r \in Callers, reserveProxyForLease(r)
    PROVE  StoredAsHeld' /\ AddressStored'
<1>1. PICK c \in Clients : c = calls[r].client
  BY ReserveForm
<1>2. /\ leases' = LeasesAfter(c) /\ UNCHANGED dropping
      /\ IF Stale(c) THEN storeLease(c, NoProxy) /\ deleteRows(unowned(unboundProxies(c), releasedLeases(c)))
         ELSE UNCHANGED db
      /\ proxies' = ProxiesAfter(c) \/ \E p \in Takeable(ProxiesAfter(c), LeasesAfter(c)) : Reserves(r, p)
  BY <1>1, ReserveForm
<1>3. \A i \in Ids : proxies'[i] = ProxiesAfter(c)[i]
  <2>1. ASSUME NEW p \in Takeable(ProxiesAfter(c), LeasesAfter(c)), Reserves(r, p)
        PROVE  \A i \in Ids : proxies'[i] = ProxiesAfter(c)[i]
    <3>1. ProxiesAfter(c) \in [Proxies -> Proxy]
      BY AfterPool
    <3>2. p \in Pool /\ proxies' = [ProxiesAfter(c) EXCEPT ![p] = Taken(@, c)]
      BY <1>1, <2>1 DEF Reserves, Takeable
    <3> QED BY <3>1, <3>2, NamesAssumption DEF Proxies
  <2> QED BY <1>2, <2>1
<1>4. CASE Stale(c)
  BY <1>2, <1>3, <1>4, ReleaseStored DEF LeasesAfter, ProxiesAfter
<1>5. CASE ~Stale(c)
  BY <1>2, <1>3, <1>5, NothingToStore DEF LeasesAfter, ProxiesAfter
<1> QED BY <1>4, <1>5

LEMMA ActivateStored ==
    ASSUME "dbfail" \notin Events, Basic, StoredAsHeld, AddressStored,
           NEW r \in Callers, activateCheckedProxy(r)
    PROVE  StoredAsHeld' /\ AddressStored'
<1>1. PICK c \in Clients, p \in Pool : c = calls[r].client /\ p = calls[r].proxy
  BY ActivateForm
<1>2. /\ \A q \in Proxies \ {p} : proxies'[q] = Left(r)[q]
      /\ leases' = [leases EXCEPT ![c] = [proxy |-> p, params |-> NoParams, expired |-> FALSE]]
      /\ storeLease(c, p) /\ UNCHANGED << dropping, rows >>
  BY <1>1, ActivateForm
<1>3. dbLeases' = [dbLeases EXCEPT ![c] = p]
  BY <1>2 DEF storeLease, MayFail
<1>4. \A d \in Clients : dbLeases'[d] = leases'[d].proxy
  BY <1>2, <1>3 DEF Basic, LeasePart, TablePart, StoredAsHeld
<1>5. \A i \in Ids : i \in Proxies \ {p}
  BY NamesAssumption DEF Proxies
<1>6. \A i \in Ids : /\ proxies'[i].status = "absent" <=> ~Present(i)
                     /\ proxies'[i].address = proxies[i].address
  BY <1>1, <1>2, <1>5, LeftPool
<1> QED BY <1>2, <1>4, <1>6 DEF StoredAsHeld, AddressStored, Present

LEMMA UnregisterStored ==
    ASSUME ConnsInv, StoredAsHeld, AddressStored, NEW k \in Conns, UnregisterConn(k)
    PROVE  StoredAsHeld' /\ AddressStored'
<1>0. PICK p \in Proxies :
      /\ p = conns[k].proxy /\ UNCHANGED << leases, pool, calls, sweep, db >>
      /\ Nowhere(p) \/ LeavesApi(p) \/ LeavesProxy(p)
  BY UnregisterForm DEF ConnsInv, Named
<1>1. ProxyPart /\ \A i \in Ids : i \in Proxies
  BY DEF ConnsInv, Basic, Proxies
<1>2. CASE Nowhere(p)
  BY <1>0, <1>2, NothingToStore DEF Nowhere
<1>3. CASE LeavesApi(p)
  <2>1. /\ p \in Ids /\ Present(p) /\ proxies'[p] = Absent /\ dropping' = dropping \cup {p}
        /\ \A q \in Proxies \ {p} : proxies'[q] = proxies[q]
    BY <1>1, <1>3 DEF LeavesApi, ProxyPart
  <2> QED BY <1>0, <1>1, <2>1, AbsentForm DEF StoredAsHeld, AddressStored, Present, db
<1>4. CASE LeavesProxy(p)
  <2>1. /\ proxies'[p] = connClosed(proxies[p]) /\ UNCHANGED dropping
        /\ \A q \in Proxies \ {p} : proxies'[q] = proxies[q]
        /\ proxies[p] \in Proxy /\ proxies[p].conns > 0 /\ proxies[p].status # "absent"
    BY <1>1, <1>4 DEF LeavesProxy, ProxyPart, Present
  <2>2. proxies'[p].status # "absent" /\ proxies'[p].address = proxies[p].address
    BY <2>1, ClosedForm
  <2>3. \A i \in Ids : /\ proxies'[i].status = "absent" <=> proxies[i].status = "absent"
                       /\ proxies'[i].address = proxies[i].address
    BY <1>1, <2>1, <2>2
  <2> QED BY <1>0, <2>1, <2>3, NothingToStore
<1> QED BY <1>0, <1>2, <1>3, <1>4

LEMMA RestartStored ==
    ASSUME Basic, Restart PROVE StoredAsHeld' /\ AddressStored'
<1>1. PICK survivors \in SUBSET Surviving, owner \in [Proxies -> Clients \cup {NoClient}] :
         Restored(survivors, owner)
  BY RestartForm
<1>2. \A d \in Clients : dbLeases'[d] = leases'[d].proxy
  BY <1>1 DEF Restored
<1>3. ASSUME NEW i \in Ids
      PROVE  /\ rows'[i] # NoRow <=> proxies'[i].status # "absent"
             /\ proxies'[i].status # "absent" => rows'[i].address = proxies'[i].address
  <2>0. i \in Proxies /\ i # NoProxy
    BY NamesAssumption DEF Proxies
  <2>1. CASE owner[i] = NoClient
    BY <1>1, <2>0, <2>1, AbsentForm DEF Restored
  <2>2. CASE owner[i] # NoClient
    <3>1. PICK c \in Clients : leases'[c].proxy = i
      BY <1>1, <2>0, <2>2 DEF Restored
    <3>2. c \in survivors /\ dbLeases[c] = i
      BY <1>1, <2>0, <3>1, NoLeaseForm DEF Restored
    <3>3. rows[i] # NoRow
      BY <3>2 DEF Surviving
    <3>4. proxies'[i].status = "active" /\ proxies'[i].address = rows[i].address /\ rows'[i] = rows[i]
      BY <1>1, <2>0, <2>2 DEF Restored
    <3> QED BY <3>3, <3>4
  <2> QED BY <2>1, <2>2
<1>4. dropping' = {}
  BY <1>1 DEF Restored
<1> QED BY <1>2, <1>3, <1>4 DEF StoredAsHeld, AddressStored, Present

LEMMA StoredStep ==
    ASSUME "dbfail" \notin Events, StoredInv, Step PROVE StoredInv'
<1>0. /\ ConnsInv /\ Basic /\ CallPart /\ StoredAsHeld /\ AddressStored /\ ConnsInv'
      /\ \A r \in Calls : r \in Callers
  BY ConnsInvStep DEF StoredInv, ConnsInv, Basic, Callers
<1> SUFFICES StoredAsHeld' /\ AddressStored'
  BY <1>0 DEF StoredInv
<1> DEFINE Goal == StoredAsHeld' /\ AddressStored'
<1>1. UNCHANGED << proxies, leases, db, dropping >> => Goal
  BY <1>0, NothingToStore
<1>2. CASE UNCHANGED vars
  BY <1>1, <1>2 DEF vars
<1>3. ASSUME NEW r \in Calls, NEW c \in Clients, Requested(r, c) PROVE Goal
  BY <1>0, <1>1, <1>3, RequestedForm DEF Basic, OnlyCalls
<1>4. ASSUME NEW r \in Calls, Quiet(r) PROVE Goal
  BY <1>0, <1>1, <1>4, QuietForm DEF OnlyCalls
<1>5. ASSUME NEW r \in Calls, activateDynamicProxy(r) PROVE Goal
  BY <1>0, <1>5, InstallStored
<1>6. ASSUME NEW r \in Callers, PoolStep(r) PROVE Goal
  <2>1. CASE poolProbeFailed(r)
    <3>1. PICK p \in Pool : p = calls[r].proxy
      BY <1>0, <2>1, ProbeFailedForm
    <3>2. /\ \A q \in Proxies \ {p} : proxies'[q] = proxies[q]
          /\ UNCHANGED << leases, db, dropping >>
      BY <1>0, <2>1, <3>1, ProbeFailedForm
    <3>3. \A i \in Ids : proxies'[i] = proxies[i]
      BY <3>2, NamesAssumption DEF Proxies
    <3> QED BY <1>0, <3>2, <3>3, NothingToStore
  <2> QED BY <1>0, <1>6, <2>1, ReserveStored, ActivateStored DEF PoolStep
<1>7. CASE nextQueuedClient
  BY <1>0, <1>1, <1>7, QueuedForm
<1>8. ASSUME NEW c \in Clients, Release(c) \/ leaseExpires(c) \/ expireLease(c) PROVE Goal
  <2>1. CASE leaseExpires(c)
    <3>1. /\ UNCHANGED << proxies, db, dropping >>
          /\ leases' = [leases EXCEPT ![c].expired = TRUE]
      BY <2>1 DEF leaseExpires
    <3>2. \A d \in Clients : leases'[d].proxy = leases[d].proxy
      BY <1>0, <3>1 DEF Basic, LeasePart, Lease
    <3> QED BY <1>0, <3>1, <3>2, NothingToStore
  <2>2. CASE releaseLocked(c) /\ UNCHANGED dropping
    BY <1>0, <1>1, <2>2, ReleaseStored DEF releaseLocked, releaseLease
  <2> QED BY <1>8, <2>1, <2>2 DEF Release, expireLease
<1>9. CASE collectExpired
  BY <1>1, <1>9 DEF collectExpired
<1>10. ASSUME NEW k \in Conns, UnregisterConn(k) PROVE Goal
  BY <1>0, <1>10, UnregisterStored
<1>11. ASSUME NEW k \in Conns, NEW c \in Clients, AcquireProxyConn(k, c) PROVE Goal
  <2>1. PICK p \in Proxies : p = leases[c].proxy
    BY <1>0, <1>11, AcquireForm
  <2>2. /\ proxies'[p] = Used(proxies[p]) /\ \A q \in Proxies \ {p} : proxies'[q] = proxies[q]
        /\ UNCHANGED << leases, db, dropping >>
    BY <1>0, <1>11, <2>1, AcquireForm
  <2>3. \A i \in Ids : i \in Proxies /\ proxies'[i].status = proxies[i].status /\ proxies'[i].address = proxies[i].address
    BY <1>0, <2>1, <2>2, UsedForm DEF Basic, ProxyPart, Proxies
  <2> QED BY <1>0, <2>2, <2>3, NothingToStore
<1>12. ASSUME NEW i \in Ids, deleteDropped(i) PROVE Goal
  <2>1. /\ i \in dropping /\ dropping' = dropping \ {i} /\ UNCHANGED << proxies, leases, dbLeases >>
        /\ rows' = [j \in Ids |-> IF j \in {i} THEN NoRow ELSE rows[j]]
    BY <1>12, RowsDeleted DEF deleteDropped
  <2>2. ~Present(i)
    BY <1>0, <2>1 DEF Basic, DropPart
  <2> QED BY <1>0, <2>1, <2>2 DEF StoredAsHeld, AddressStored, Present
<1>13. CASE Restart
  BY <1>0, <1>13, RestartStored
<1> QED BY <1>2, <1>3, <1>4, <1>5, <1>6, <1>7, <1>8, <1>9, <1>10, <1>11, <1>12, <1>13, Zenon DEF Step

LEMMA InitStored == Init => StoredInv
<1> SUFFICES ASSUME Init PROVE StoredInv
  OBVIOUS
<1>1. \A i \in Ids : i \in Proxies /\ i \notin Pool
  BY NamesAssumption DEF Proxies
<1>2. \A i \in Ids : proxies[i].status = "absent" /\ rows[i] = NoRow
  BY <1>1, AbsentForm DEF Init
<1>3. \A c \in Clients : dbLeases[c] = leases[c].proxy
  BY NoLeaseForm DEF Init
<1>4. dropping = {}
  BY DEF Init
<1> QED BY <1>2, <1>3, <1>4, InitConns DEF StoredInv, StoredAsHeld, AddressStored, Present

\* As long as no write fails, the tables say what memory says, after every
\* handler and in every order: activateDynamicProxy, releaseLocked and the
\* deletion UnregisterConn leaves for later write all that New reads.
THEOREM TablesFollowMemory ==
    ASSUME "dbfail" \notin Events
    PROVE  Spec => []StoredAsHeld
<1>1. StoredInv /\ [Next]_vars => StoredInv'
  BY Steps, StoredStep
<1>2. StoredInv => StoredAsHeld
  BY DEF StoredInv
<1> QED BY <1>1, <1>2, InitStored, PTL DEF Spec

----------------------------------------------------------------------------
(* Who holds a proxy.                                                      *)

\* Every lease has its proxy, or has expired and lost a dynamic one.
Held(ps, ls) ==
    \A c \in Clients : ls[c].proxy # NoProxy =>
        \/ ps[ls[c].proxy].status = "active" /\ ps[ls[c].proxy].client = c
        \/ ls[c].proxy \in Ids /\ ls[c].expired /\ ps[ls[c].proxy].status = "absent"
Drains(ps) == \A p \in Proxies : ps[p].drainingFor # NoClient => ps[p].status = "draining"
Probing ==
    /\ \A r \in Callers : calls[r].pc = "poolprobe" => proxies[calls[r].proxy].status = "checking"
    /\ \A r, s \in Callers :
         calls[r].pc = "poolprobe" /\ calls[s].pc = "poolprobe" /\ calls[r].proxy = calls[s].proxy => r = s
OneOwner ==
    \A i \in Ids, c, d \in Clients :
        (leases[c].proxy = i \/ dbLeases[c] = i) /\ (leases[d].proxy = i \/ dbLeases[d] = i) => c = d

Leased == Held(proxies, leases) /\ Drains(proxies)
HeldInv == ConnsInv /\ Leased /\ Probing /\ OneOwner

LEMMA OneHolder ==
    ASSUME Basic, Leased, OneOwner, NEW c \in Clients, NEW d \in Clients, HasLease(c), leases[c].proxy = leases[d].proxy
    PROVE  c = d
<1>1. CASE leases[c].proxy \in Ids
  BY <1>1 DEF OneOwner
<1>2. CASE leases[c].proxy \in Pool
  <2>1. Present(leases[c].proxy) /\ leases[c].proxy \notin Ids
    BY <1>2, NamesAssumption DEF Basic, ProxyPart
  <2> QED BY <2>1 DEF Leased, Held, HasLease, Present
<1> QED BY <1>1, <1>2, LeaseProxy DEF Basic, Proxies

\* A release leaves the proxies of the other leases, and those being probed.
LEMMA ReleaseSpares ==
    ASSUME Basic, Leased, OneOwner, NEW c \in Clients
    PROVE  /\ Held(releasedProxies(c), releasedLeases(c)) /\ Drains(releasedProxies(c))
           /\ \A p \in Pool : proxies[p].status = "checking" <=> releasedProxies(c)[p].status = "checking"
<1>0. LeasePart /\ ProxyPart /\ c # NoClient /\ NoClient \notin Clients
  BY NamesAssumption DEF Basic
<1>1. ASSUME NEW p \in Proxies
      PROVE  \/ releasedProxies(c)[p] = Absent /\ p \in Ids /\ ~HasActiveLease(releasedLeases(c), p)
             \/ releasedProxies(c)[p] = proxies[p]
             \/ /\ releasedProxies(c)[p] = releaseProxyBinding(proxies[p], c)
                /\ \/ proxies[p].status = "active" /\ p = leases[c].proxy
                   \/ proxies[p].status = "draining" /\ proxies[p].drainingFor = c
  <2>1. \/ releasedProxies(c)[p] = Absent /\ p \in Ids /\ ~HasActiveLease(releasedLeases(c), p)
        \/ releasedProxies(c)[p] = unboundProxies(c)[p]
    BY ReleasedForm
  <2>2. \/ unboundProxies(c)[p] = proxies[p]
        \/ /\ unboundProxies(c)[p] = releaseProxyBinding(proxies[p], c)
           /\ (p = leases[c].proxy /\ Present(p)) \/ proxies[p].drainingFor = c
    BY UnboundForm
  <2>3. p = leases[c].proxy /\ Present(p) => proxies[p].status = "active"
    <3>1. p # NoProxy
      BY NamesAssumption
    <3> QED BY <3>1 DEF Leased, Held, Present
  <2>4. proxies[p].drainingFor = c => proxies[p].status = "draining"
    BY <1>0 DEF Leased, Drains
  <2> QED BY <2>1, <2>2, <2>3, <2>4
<1>2. \A p \in Proxies : LET q == releaseProxyBinding(proxies[p], c) IN
        proxies[p].status \in {"active", "draining"} =>
            q.status \in {"draining", "idle"} /\ (q.drainingFor # NoClient => q.status = "draining")
  BY <1>0, UnbindForm DEF ProxyPart
<1>3. Drains(releasedProxies(c))
  BY <1>1, <1>2, AbsentForm DEF Leased, Drains
<1>4. \A p \in Pool : proxies[p].status = "checking" <=> releasedProxies(c)[p].status = "checking"
  <2>1. \A p \in Pool : p \in Proxies /\ p \notin Ids
    BY NamesAssumption DEF Proxies
  <2> QED BY <1>1, <1>2, <2>1
<1>5. ASSUME NEW d \in Clients, releasedLeases(c)[d].proxy # NoProxy
      PROVE  LET p == releasedLeases(c)[d].proxy IN
             \/ releasedProxies(c)[p].status = "active" /\ releasedProxies(c)[p].client = d
             \/ p \in Ids /\ releasedLeases(c)[d].expired /\ releasedProxies(c)[p].status = "absent"
  <2>1. d # c /\ releasedLeases(c)[d] = leases[d]
    BY <1>0, <1>5, NoLeaseForm DEF releasedLeases, LeasePart
  <2>2. HasLease(d) /\ leases[d].proxy \in Proxies /\ leases[d].expired \in BOOLEAN
    BY <1>0, <1>5, <2>1, LeaseProxy DEF HasLease
  <2>3. PICK p \in Proxies : p = leases[d].proxy
    BY <2>2
  <2>4. p # leases[c].proxy
    BY <2>1, <2>2, <2>3, OneHolder
  <2>5. \/ proxies[p].status = "active" /\ proxies[p].client = d
        \/ p \in Ids /\ leases[d].expired /\ proxies[p].status = "absent"
    BY <2>2, <2>3 DEF Leased, Held, HasLease
  <2>6. ~HasActiveLease(releasedLeases(c), p) => leases[d].expired
    BY <2>1, <2>2, <2>3 DEF HasActiveLease
  <2>7. \/ releasedProxies(c)[p] = Absent /\ p \in Ids /\ leases[d].expired
        \/ releasedProxies(c)[p] = proxies[p]
    BY <1>1, <2>4, <2>5, <2>6
  <2> QED BY <2>1, <2>3, <2>5, <2>7, AbsentForm
<1>6. Held(releasedProxies(c), releasedLeases(c))
  BY <1>5 DEF Held
<1> QED BY <1>3, <1>4, <1>6

LEMMA AfterSpares ==
    ASSUME Basic, Leased, OneOwner, NEW c \in Clients
    PROVE  /\ Held(ProxiesAfter(c), LeasesAfter(c)) /\ Drains(ProxiesAfter(c))
           /\ \A p \in Pool : proxies[p].status = "checking" <=> ProxiesAfter(c)[p].status = "checking"
<1>1. CASE Stale(c)
  BY <1>1, ReleaseSpares DEF ProxiesAfter, LeasesAfter
<1>2. CASE ~Stale(c)
  BY <1>2 DEF ProxiesAfter, LeasesAfter, Leased
<1> QED BY <1>1, <1>2

----------------------------------------------------------------------------
(* Which client an ID belongs to.                                          *)

\* The steps that give no ID to a client.
LEMMA NoNewOwner ==
    ASSUME OneOwner, \A c \in Clients : /\ leases'[c].proxy \in Ids => leases'[c].proxy \in {leases[c].proxy, dbLeases[c]}
                                        /\ dbLeases'[c] \in Ids => dbLeases'[c] \in {leases[c].proxy, dbLeases[c]}
    PROVE  OneOwner'
BY DEF OneOwner

LEMMA OwnerStep == ASSUME Basic, OneOwner, Step PROVE OneOwner'
<1>0. /\ LeasePart /\ TablePart /\ CallPart /\ NoProxy \notin Ids /\ \A r \in Calls : r \in Callers
      /\ \A p \in Pool : p \notin Ids
  BY NamesAssumption DEF Basic, Callers, Proxies
<1>1. UNCHANGED << leases, dbLeases >> => OneOwner'
  BY DEF OneOwner
<1>2. CASE UNCHANGED vars
  BY <1>1, <1>2 DEF vars, db
<1>3. ASSUME NEW r \in Calls, NEW c \in Clients, Requested(r, c) PROVE OneOwner'
  BY <1>0, <1>1, <1>3, RequestedForm DEF OnlyCalls, db
<1>4. ASSUME NEW r \in Calls, Quiet(r) PROVE OneOwner'
  BY <1>0, <1>1, <1>4, QuietForm DEF OnlyCalls, db
<1>5. ASSUME NEW r \in Calls, activateDynamicProxy(r) PROVE OneOwner'
  <2>1. calls[r].pc = "probe" /\ \E i \in Ids : Installs(r, i)
    BY <1>5, InstallForm
  <2>2. PICK i \in Ids : Installs(r, i)
    BY <2>1
  <2>3. PICK c \in Clients : c = calls[r].client
    BY <1>0, <2>1, NewForm
  <2>4. \A d \in Clients : leases[d].proxy # i /\ dbLeases[d] # i
    BY <2>2 DEF Installs, FreshId
  <2>5. /\ leases' = [leases EXCEPT ![c] = [proxy |-> i, params |-> calls[r].params, expired |-> FALSE]]
        /\ dbLeases' = [dbLeases EXCEPT ![c] = i]
    BY <2>1, <2>2, <2>3, InstalledForm
  <2>6. /\ leases'[c].proxy = i /\ dbLeases'[c] = i
        /\ \A d \in Clients \ {c} : leases'[d] = leases[d] /\ dbLeases'[d] = dbLeases[d]
    BY <1>0, <2>3, <2>5 DEF LeasePart, TablePart
  <2> QED BY <2>4, <2>6 DEF OneOwner
<1>6. \A c \in Clients, p \in Pool \cup {NoProxy} : storeLease(c, p) =>
        \A d \in Clients : dbLeases'[d] \in Ids => dbLeases'[d] = dbLeases[d]
  BY <1>0 DEF storeLease, TablePart
<1>7. ASSUME NEW c \in Clients
      PROVE  \A d \in Clients : releasedLeases(c)[d].proxy \in Ids => releasedLeases(c)[d] = leases[d]
  BY <1>0, NoLeaseForm DEF releasedLeases, LeasePart
<1>8. ASSUME NEW r \in Callers, reserveProxyForLease(r) PROVE OneOwner'
  <2>1. PICK c \in Clients : c = calls[r].client
    BY <1>8, ReserveForm
  <2>2. leases' = LeasesAfter(c) /\ IF Stale(c) THEN storeLease(c, NoProxy) ELSE UNCHANGED db
    BY <1>8, <2>1, ReserveForm
  <2>3. \A d \in Clients : dbLeases'[d] \in Ids => dbLeases'[d] = dbLeases[d]
    BY <1>6, <2>2 DEF db
  <2>4. \A d \in Clients : leases'[d].proxy \in Ids => leases'[d] = leases[d]
    BY <1>7, <2>2 DEF LeasesAfter
  <2> QED BY <2>3, <2>4, NoNewOwner
<1>9. ASSUME NEW r \in Callers, activateCheckedProxy(r) PROVE OneOwner'
  <2>1. PICK c \in Clients, p \in Pool : c = calls[r].client /\ p = calls[r].proxy
    BY <1>9, ActivateForm
  <2>2. /\ leases' = [leases EXCEPT ![c] = [proxy |-> p, params |-> NoParams, expired |-> FALSE]]
        /\ storeLease(c, p)
    BY <1>9, <2>1, ActivateForm
  <2>3. \A d \in Clients : leases'[d].proxy \in Ids => leases'[d] = leases[d]
    BY <1>0, <2>2 DEF LeasePart
  <2> QED BY <1>6, <2>2, <2>3, NoNewOwner
<1>10. ASSUME NEW r \in Callers, poolProbeFailed(r) PROVE OneOwner'
  BY <1>1, <1>10 DEF poolProbeFailed, db
<1>11. CASE nextQueuedClient
  BY <1>1, <1>11 DEF nextQueuedClient, db
<1>12. ASSUME NEW c \in Clients, Release(c) \/ leaseExpires(c) \/ expireLease(c) PROVE OneOwner'
  <2>1. CASE leaseExpires(c)
    <3>1. UNCHANGED dbLeases /\ leases' = [leases EXCEPT ![c].expired = TRUE]
      BY <2>1 DEF leaseExpires, db
    <3>2. \A d \in Clients : leases'[d].proxy = leases[d].proxy
      BY <1>0, <3>1 DEF LeasePart, Lease
    <3> QED BY <3>1, <3>2, NoNewOwner
  <2>2. CASE releaseLocked(c)
    <3>1. CASE releaseLease(c)
      BY <1>6, <1>7, <3>1, NoNewOwner DEF releaseLease
    <3> QED BY <1>1, <2>2, <3>1 DEF releaseLocked, db
  <2> QED BY <1>12, <2>1, <2>2 DEF Release, expireLease
<1>13. CASE collectExpired
  BY <1>1, <1>13 DEF collectExpired, db
<1>14. ASSUME NEW k \in Conns, UnregisterConn(k) \/ \E c \in Clients : AcquireProxyConn(k, c) PROVE OneOwner'
  BY <1>1, <1>14 DEF UnregisterConn, AcquireProxyConn, db
<1>15. ASSUME NEW i \in Ids, deleteDropped(i) PROVE OneOwner'
  BY <1>1, <1>15 DEF deleteDropped
<1>16. CASE Restart
  <2>1. PICK survivors \in SUBSET Surviving, owner \in [Proxies -> Clients \cup {NoClient}] :
           Restored(survivors, owner)
    BY <1>16, RestartForm
  <2>2. \A c \in Clients : leases'[c].proxy \in {NoProxy, dbLeases[c]} /\ dbLeases'[c] = leases'[c].proxy
    BY <2>1, NoLeaseForm DEF Restored
  <2> QED BY <1>0, <2>2, NoNewOwner
<1> QED BY <1>2, <1>3, <1>4, <1>5, <1>8, <1>9, <1>10, <1>11, <1>12, <1>13, <1>14, <1>15, <1>16, Zenon
        DEF Step, PoolStep

LEMMA ProbingKept ==
    ASSUME CallPart, Probing, NEW s \in Callers, NEW w \in Call, calls' = [calls EXCEPT ![s] = w],
           w.pc # "poolprobe",
           \A p \in Pool : proxies[p].status = "checking" /\ (calls[s].pc = "poolprobe" => p # calls[s].proxy)
               => proxies'[p].status = "checking"
    PROVE  Probing'
<1>1. calls'[s] = w /\ \A r \in Callers \ {s} : calls'[r] = calls[r]
  BY DEF CallPart
<1>2. \A r \in Callers : calls[r].pc = "poolprobe" => calls[r].proxy \in Pool
  BY DEF CallPart, KnownCall
<1> QED BY <1>1, <1>2 DEF Probing

LEMMA ProbingAlone ==
    ASSUME CallPart, Probing, UNCHANGED calls,
           \A p \in Pool : proxies[p].status = "checking" => proxies'[p].status = "checking"
    PROVE  Probing'
BY DEF Probing, CallPart, KnownCall

\* What holds the proxy p when it is neither checking nor active.
LEMMA Unheld ==
    ASSUME NEW ps, NEW ls, Held(ps, ls), NEW p \in Pool, ps[p].status # "active"
    PROVE  \A c \in Clients : ls[c].proxy # p
<1>1. p \notin Ids /\ p # NoProxy
  BY NamesAssumption DEF Proxies
<1> QED BY <1>1 DEF Held

LEMMA InstallHeld ==
    ASSUME HeldInv, NEW r \in Calls, activateDynamicProxy(r) PROVE Leased' /\ Probing'
<1>0. /\ Basic /\ CallPart /\ LeasePart /\ ProxyPart /\ r \in Callers /\ Leased /\ OneOwner /\ Probing
      /\ \A p \in Pool : p \in Proxies /\ p \notin Ids /\ p # NoProxy
  BY NamesAssumption DEF HeldInv, ConnsInv, Basic, Callers, Proxies
<1>1. calls[r].pc = "probe" /\ \E i \in Ids : Installs(r, i)
  BY <1>0, InstallForm
<1>2. PICK i \in Ids : Installs(r, i)
  BY <1>1
<1>3. PICK c \in Clients : c = calls[r].client
  BY <1>0, <1>1, NewForm
<1>4. /\ i \in Proxies /\ ~Present(i) /\ \A d \in Clients : leases[d].proxy # i
      /\ proxies'[i] = New(r)
      /\ \A p \in Proxies \ {i} : proxies'[p] = replacedProxies(c)[p]
      /\ leases' = [leases EXCEPT ![c] = [proxy |-> i, params |-> calls[r].params, expired |-> FALSE]]
      /\ Returns(r)
  BY <1>0, <1>1, <1>2, <1>3, InstalledForm DEF Installs, FreshId
<1>5. New(r).status = "active" /\ New(r).client = c /\ New(r).drainingFor = NoClient
  BY <1>0, <1>1, <1>3, NewForm
<1>6. \A p \in Proxies :
        \/ replacedProxies(c)[p] = proxies[p]
        \/ p = leases[c].proxy /\ Present(p)
              /\ (replacedProxies(c)[p] = Vacated(proxies[p], c) \/ replacedProxies(c)[p] = Absent)
  BY <1>0, ReplacedPool
<1>7. Held(proxies', leases')
  <2> SUFFICES ASSUME NEW d \in Clients, leases'[d].proxy # NoProxy
               PROVE  \/ proxies'[leases'[d].proxy].status = "active" /\ proxies'[leases'[d].proxy].client = d
                      \/ leases'[d].proxy \in Ids /\ leases'[d].expired /\ proxies'[leases'[d].proxy].status = "absent"
    BY DEF Held
  <2>1. CASE d = c
    <3>1. leases'[d].proxy = i
      BY <1>0, <1>3, <1>4, <2>1 DEF LeasePart
    <3> QED BY <1>4, <1>5, <2>1, <3>1
  <2>2. CASE d # c
    <3>1. leases'[d] = leases[d] /\ HasLease(d)
      BY <1>0, <1>3, <1>4, <2>2 DEF LeasePart, HasLease
    <3>2. PICK p \in Proxies : p = leases[d].proxy
      BY <1>0, <3>1, LeaseProxy
    <3>3. p # leases[c].proxy /\ p # i
      BY <1>0, <1>4, <2>2, <3>1, <3>2, OneHolder
    <3>4. proxies'[p] = proxies[p]
      BY <1>4, <1>6, <3>3
    <3> QED BY <1>0, <3>1, <3>2, <3>4 DEF Leased, Held, HasLease
  <2> QED BY <2>1, <2>2
<1>8. Drains(proxies')
  <2>1. \A p \in Proxies : Vacated(proxies[p], c).drainingFor # NoClient => Vacated(proxies[p], c).status = "draining"
    BY <1>0, VacatedForm DEF ProxyPart
  <2> QED BY <1>0, <1>4, <1>5, <1>6, <2>1, AbsentForm DEF Leased, Drains
<1>9. Probing'
  <2>1. \A p \in Pool : proxies[p].status = "checking" => proxies'[p].status = "checking"
    BY <1>0, <1>4, <1>6 DEF Leased, Held
  <2> QED BY <1>0, <1>4, <2>1, ProbingKept, IdleCallForm DEF Returns
<1> QED BY <1>7, <1>8, <1>9 DEF Leased

LEMMA ReserveHeld ==
    ASSUME HeldInv, NEW r \in Callers, reserveProxyForLease(r) PROVE Leased' /\ Probing'
<1>0. /\ Basic /\ CallPart /\ Leased /\ OneOwner /\ Probing
      /\ \A p \in Pool : p \in Proxies /\ p \notin Ids /\ p # NoProxy
  BY NamesAssumption DEF HeldInv, ConnsInv, Basic, Proxies
<1>1. PICK c \in Clients : c = calls[r].client
  BY <1>0, ReserveForm
<1>2. /\ calls[r].pc = "reserve" /\ leases' = LeasesAfter(c)
      /\ \/ proxies' = ProxiesAfter(c) /\ Returns(r)
         \/ \E p \in Takeable(ProxiesAfter(c), LeasesAfter(c)) : Reserves(r, p)
  BY <1>0, <1>1, ReserveForm
<1>3. /\ Held(ProxiesAfter(c), LeasesAfter(c)) /\ Drains(ProxiesAfter(c))
      /\ \A p \in Pool : proxies[p].status = "checking" <=> ProxiesAfter(c)[p].status = "checking"
      /\ ProxiesAfter(c) \in [Proxies -> Proxy]
  BY <1>0, AfterSpares, AfterPool
<1>4. CASE proxies' = ProxiesAfter(c) /\ Returns(r)
  <2>1. Probing'
    BY <1>0, <1>3, <1>4, ProbingKept, IdleCallForm DEF Returns
  <2> QED BY <1>2, <1>3, <1>4, <2>1 DEF Leased
<1>5. ASSUME NEW p \in Takeable(ProxiesAfter(c), LeasesAfter(c)), Reserves(r, p)
      PROVE  Leased' /\ Probing'
  <2>1. p \in Pool /\ p \in Proxies /\ ProxiesAfter(c)[p].status = "idle"
    BY <1>0 DEF Takeable
  <2>2. /\ calls' = [calls EXCEPT ![r].pc = "poolprobe", ![r].proxy = p]
        /\ proxies'[p] = Taken(ProxiesAfter(c)[p], c)
        /\ \A q \in Proxies \ {p} : proxies'[q] = ProxiesAfter(c)[q]
    BY <1>1, <1>3, <1>5, <2>1 DEF Reserves
  <2>3. Taken(ProxiesAfter(c)[p], c).status = "checking" /\ Taken(ProxiesAfter(c)[p], c).drainingFor = NoClient
    BY <1>3, <2>1, TakenForm
  <2>4. \A d \in Clients : leases'[d].proxy # p
    BY <1>2, <1>3, <2>1, Unheld
  <2>5. Held(proxies', leases')
    <3>1. \A d \in Clients : LeasesAfter(c)[d].proxy # NoProxy => LeasesAfter(c)[d].proxy \in Proxies
      BY <1>0, <1>2, ReserveBasic DEF Basic, LeasePart, Lease
    <3> QED BY <1>2, <1>3, <2>2, <2>4, <3>1 DEF Held
  <2>6. Drains(proxies')
    BY <1>3, <2>2, <2>3 DEF Drains
  <2>7. Probing'
    <3>0. /\ CallPart /\ calls[r].pc = "reserve" /\ p \in Pool
          /\ calls' = [calls EXCEPT ![r].pc = "poolprobe", ![r].proxy = p]
      BY <1>0, <1>2, <2>1, <2>2
    <3>1. PICK v \in Call : /\ calls' = [calls EXCEPT ![r] = v] /\ KnownCall(v)
                            /\ v.pc = "poolprobe" /\ v.proxy = p
                            /\ v.client = calls[r].client /\ v.refresh = calls[r].refresh
      BY <3>0, HeldCall
    <3>2. calls'[r] = v /\ \A s \in Callers \ {r} : calls'[s] = calls[s]
      BY <1>0, <3>1 DEF CallPart
    <3>3. \A s \in Callers \ {r} : calls[s].pc = "poolprobe" =>
             /\ calls[s].proxy \in Pool /\ proxies[calls[s].proxy].status = "checking"
             /\ calls[s].proxy # p
      <4>1. \A s \in Callers : calls[s].pc = "poolprobe" => calls[s].proxy \in Pool
        BY <1>0 DEF CallPart, KnownCall
      <4>2. proxies[p].status # "checking"
        BY <1>3, <2>1
      <4> QED BY <1>0, <4>1, <4>2 DEF Probing
    <3>4. \A s \in Callers \ {r} : calls[s].pc = "poolprobe" => proxies'[calls[s].proxy].status = "checking"
      BY <1>0, <1>3, <2>2, <3>3
    <3>5. proxies'[p].status = "checking"
      BY <2>2, <2>3
    <3>6. \A s \in Callers : calls'[s].pc = "poolprobe" =>
             IF s = r THEN calls'[s].proxy = p
             ELSE /\ calls[s].pc = "poolprobe" /\ calls'[s].proxy = calls[s].proxy
                  /\ calls[s].proxy # p
      BY <3>1, <3>2, <3>3
    <3>7. \A s \in Callers : calls'[s].pc = "poolprobe" => proxies'[calls'[s].proxy].status = "checking"
      BY <3>4, <3>5, <3>6
    <3>8. \A s, t \in Callers :
             calls'[s].pc = "poolprobe" /\ calls'[t].pc = "poolprobe" /\ calls'[s].proxy = calls'[t].proxy => s = t
      BY <1>0, <3>6 DEF Probing
    <3> QED BY <3>7, <3>8 DEF Probing
  <2> QED BY <2>5, <2>6, <2>7 DEF Leased
<1> QED BY <1>2, <1>4, <1>5

LEMMA ActivateHeld ==
    ASSUME HeldInv, NEW r \in Callers, activateCheckedProxy(r) PROVE Leased' /\ Probing'
<1>0. /\ Basic /\ CallPart /\ LeasePart /\ ProxyPart /\ Leased /\ OneOwner /\ Probing
      /\ \A p \in Pool : p \in Proxies /\ p \notin Ids /\ p # NoProxy
  BY NamesAssumption DEF HeldInv, ConnsInv, Basic, Proxies
<1>1. PICK c \in Clients, p \in Pool : c = calls[r].client /\ p = calls[r].proxy
  BY <1>0, ActivateForm
<1>2. /\ calls[r].pc = "poolprobe"
      /\ proxies'[p] = Assigned(Left(r)[p], c)
      /\ \A q \in Proxies \ {p} : proxies'[q] = Left(r)[q]
      /\ leases' = [leases EXCEPT ![c] = [proxy |-> p, params |-> NoParams, expired |-> FALSE]]
      /\ Returns(r)
  BY <1>0, <1>1, ActivateForm
<1>3. proxies[p].status = "checking" /\ \A d \in Clients : leases[d].proxy # p
  BY <1>0, <1>1, <1>2, Unheld DEF Probing, Leased
<1>4. /\ Left(r) \in [Proxies -> Proxy]
      /\ \A q \in Proxies :
           Left(r)[q] = proxies[q] \/ (Left(r)[q] = Vacated(proxies[q], c) /\ Present(q) /\ q = leases[c].proxy)
  BY <1>0, <1>1, LeftPool
<1>5. /\ proxies'[p].status = "active" /\ proxies'[p].client = c
      /\ proxies'[p].drainingFor = NoClient
  BY <1>0, <1>2, <1>4, AssignedForm
<1>6. Held(proxies', leases')
  <2> SUFFICES ASSUME NEW d \in Clients, leases'[d].proxy # NoProxy
               PROVE  \/ proxies'[leases'[d].proxy].status = "active" /\ proxies'[leases'[d].proxy].client = d
                      \/ leases'[d].proxy \in Ids /\ leases'[d].expired /\ proxies'[leases'[d].proxy].status = "absent"
    BY DEF Held
  <2>1. CASE d = c
    BY <1>0, <1>2, <1>5, <2>1 DEF LeasePart
  <2>2. CASE d # c
    <3>1. leases'[d] = leases[d] /\ HasLease(d)
      BY <1>0, <1>2, <2>2 DEF LeasePart, HasLease
    <3>2. PICK q \in Proxies : q = leases[d].proxy
      BY <1>0, <3>1, LeaseProxy
    <3>3. q # leases[c].proxy /\ q # p
      BY <1>0, <1>3, <2>2, <3>1, <3>2, OneHolder
    <3>4. proxies'[q] = proxies[q]
      BY <1>2, <1>4, <3>3
    <3> QED BY <1>0, <3>1, <3>2, <3>4 DEF Leased, Held, HasLease
  <2> QED BY <2>1, <2>2
<1>7. Drains(proxies')
  <2>1. \A q \in Proxies : Vacated(proxies[q], c).drainingFor # NoClient => Vacated(proxies[q], c).status = "draining"
    BY <1>0, VacatedForm DEF ProxyPart
  <2> QED BY <1>0, <1>2, <1>4, <1>5, <2>1 DEF Leased, Drains
<1>8. Probing'
  <2>1. \A q \in Pool : proxies[q].status = "checking" /\ q # p => proxies'[q].status = "checking"
    BY <1>0, <1>2, <1>4 DEF Leased, Held
  <2> QED BY <1>0, <1>1, <1>2, <2>1, ProbingKept, IdleCallForm DEF Returns
<1> QED BY <1>6, <1>7, <1>8 DEF Leased

LEMMA ProbeFailedHeld ==
    ASSUME HeldInv, NEW r \in Callers, poolProbeFailed(r) PROVE Leased' /\ Probing'
<1>0. /\ Basic /\ CallPart /\ LeasePart /\ ProxyPart /\ Leased /\ Probing
      /\ \A p \in Pool : p \in Proxies
  BY DEF HeldInv, ConnsInv, Basic, Proxies
<1>1. PICK p \in Pool : p = calls[r].proxy
  BY <1>0, ProbeFailedForm
<1>2. /\ calls[r].pc = "poolprobe" /\ proxies'[p] = Failed(proxies[p])
      /\ \A q \in Proxies \ {p} : proxies'[q] = proxies[q]
      /\ UNCHANGED leases
      /\ \E v \in Call : calls' = [calls EXCEPT ![r] = v] /\ v.pc = "reserve"
  BY <1>0, <1>1, ProbeFailedForm
<1>3. proxies[p].status = "checking" /\ \A d \in Clients : leases[d].proxy # p
  BY <1>0, <1>1, <1>2, Unheld DEF Probing, Leased
<1>4. Failed(proxies[p]).drainingFor = NoClient
  BY <1>0, <1>3, FailedProxy DEF Leased, Drains, ProxyPart
<1>5. Held(proxies', leases') /\ Drains(proxies')
  BY <1>0, <1>2, <1>3, <1>4, LeaseProxy DEF Leased, Held, Drains, HasLease
<1>6. Probing'
  BY <1>0, <1>1, <1>2, ProbingKept
<1> QED BY <1>5, <1>6 DEF Leased

LEMMA UnregisterHeld ==
    ASSUME HeldInv, NEW k \in Conns, UnregisterConn(k) PROVE Leased' /\ Probing'
<1>0. /\ Basic /\ CallPart /\ LeasePart /\ ProxyPart /\ Leased /\ Probing /\ Named
      /\ \A p \in Pool : p \in Proxies /\ p \notin Ids
  BY NamesAssumption DEF HeldInv, ConnsInv, Basic, Proxies
<1>1. PICK p \in Proxies :
      /\ p = conns[k].proxy /\ UNCHANGED << leases, calls >>
      /\ Nowhere(p) \/ LeavesApi(p) \/ LeavesProxy(p)
  BY <1>0, UnregisterForm DEF Named
<1>2. CASE Nowhere(p)
  BY <1>0, <1>1, <1>2, ProbingAlone DEF Nowhere, Leased
<1>3. CASE LeavesApi(p)
  <2>1. /\ p \in Ids /\ proxies'[p] = Absent /\ ~HasActiveLease(leases, p)
        /\ \A q \in Proxies \ {p} : proxies'[q] = proxies[q]
    BY <1>0, <1>3 DEF LeavesApi, ProxyPart
  <2>2. \A c \in Clients : leases[c].proxy = p => leases[c].expired
    BY <1>0, <2>1, LeaseProxy DEF HasActiveLease
  <2>3. Held(proxies', leases')
    BY <1>0, <1>1, <2>1, <2>2, LeaseProxy, AbsentForm DEF Leased, Held, HasLease
  <2>4. Drains(proxies')
    BY <1>0, <2>1, AbsentForm DEF Leased, Drains
  <2>5. Probing'
    BY <1>0, <1>1, <2>1, ProbingAlone
  <2> QED BY <2>3, <2>4, <2>5 DEF Leased
<1>4. CASE LeavesProxy(p)
  <2>1. /\ proxies'[p] = connClosed(proxies[p]) /\ proxies[p] \in Proxy /\ proxies[p].conns > 0
        /\ \A q \in Proxies \ {p} : proxies'[q] = proxies[q]
    BY <1>0, <1>4 DEF LeavesProxy, ProxyPart
  <2>2. \/ proxies[p].status = "draining" /\ proxies'[p].drainingFor = NoClient
        \/ /\ proxies'[p].status = proxies[p].status /\ proxies'[p].client = proxies[p].client
           /\ proxies'[p].drainingFor = proxies[p].drainingFor
    BY <2>1, ClosedForm, MarkIdleForm
  <2>3. Held(proxies', leases')
    BY <1>0, <1>1, <2>1, <2>2, LeaseProxy DEF Leased, Held, HasLease
  <2>4. Drains(proxies')
    BY <1>0, <2>1, <2>2 DEF Leased, Drains
  <2>5. Probing'
    BY <1>0, <1>1, <2>1, <2>2, ProbingAlone
  <2> QED BY <2>3, <2>4, <2>5 DEF Leased
<1> QED BY <1>1, <1>2, <1>3, <1>4

LEMMA AcquireHeld ==
    ASSUME HeldInv, NEW k \in Conns, NEW c \in Clients, AcquireProxyConn(k, c) PROVE Leased' /\ Probing'
<1>0. /\ Basic /\ CallPart /\ LeasePart /\ ProxyPart /\ Leased /\ Probing
      /\ \A p \in Pool : p \in Proxies
  BY DEF HeldInv, ConnsInv, Basic, Proxies
<1>1. PICK p \in Proxies : p = leases[c].proxy
  BY <1>0, AcquireForm
<1>2. /\ proxies'[p] = Used(proxies[p]) /\ \A q \in Proxies \ {p} : proxies'[q] = proxies[q]
      /\ UNCHANGED << leases, calls >>
  BY <1>0, <1>1, AcquireForm
<1>3. \A q \in Proxies : /\ proxies'[q].status = proxies[q].status /\ proxies'[q].client = proxies[q].client
                         /\ proxies'[q].drainingFor = proxies[q].drainingFor
  BY <1>0, <1>2, UsedForm DEF ProxyPart
<1>4. Held(proxies', leases') /\ Drains(proxies')
  BY <1>0, <1>2, <1>3, LeaseProxy DEF Leased, Held, Drains, HasLease
<1> QED BY <1>0, <1>2, <1>3, <1>4, ProbingAlone DEF Leased

LEMMA ReleaseHeld ==
    ASSUME HeldInv, NEW c \in Clients, releaseLocked(c), UNCHANGED calls PROVE Leased' /\ Probing'
<1>0. Basic /\ CallPart /\ Leased /\ OneOwner /\ Probing
  BY DEF HeldInv, ConnsInv, Basic
<1>1. CASE releaseLease(c)
  <2>1. proxies' = releasedProxies(c) /\ leases' = releasedLeases(c)
    BY <1>1 DEF releaseLease
  <2>2. /\ Held(proxies', leases') /\ Drains(proxies')
        /\ \A p \in Pool : proxies[p].status = "checking" => proxies'[p].status = "checking"
    BY <1>0, <2>1, ReleaseSpares
  <2> QED BY <1>0, <2>2, ProbingAlone DEF Leased
<1>2. CASE UNCHANGED << leases, proxies >>
  BY <1>0, <1>2, ProbingAlone DEF Leased
<1> QED BY <1>1, <1>2 DEF releaseLocked

\* The restart gives no proxy to two clients: the tables name one for each ID,
\* and for a pool proxy what memory held if no write failed.
LEMMA RestartHeld ==
    ASSUME HeldInv, Restart, ("dbfail" \notin Events /\ StoredAsHeld) \/ Pool = {}
    PROVE  Leased' /\ Probing'
<1>0. Basic /\ Leased /\ OneOwner /\ TablePart /\ NoProxy \notin Proxies
  BY NamesAssumption DEF HeldInv, ConnsInv, Basic
<1>1. PICK survivors \in SUBSET Surviving, owner \in [Proxies -> Clients \cup {NoClient}] :
         Restored(survivors, owner)
  BY <1>0, RestartForm
<1>2. \A c \in Clients : leases'[c].proxy # NoProxy => c \in survivors /\ leases'[c].proxy = dbLeases[c]
  BY <1>1, NoLeaseForm DEF Restored
<1>3. ASSUME NEW c \in Clients, NEW d \in Clients, dbLeases[c] \in Proxies, dbLeases[c] = dbLeases[d]
      PROVE  c = d
  <2>1. CASE dbLeases[c] \in Ids
    BY <1>0, <1>3, <2>1 DEF OneOwner
  <2>2. CASE dbLeases[c] \in Pool
    <3>1. leases[c].proxy = dbLeases[c] /\ leases[d].proxy = dbLeases[c] /\ HasLease(c)
      BY <1>0, <1>3, <2>2 DEF StoredAsHeld, HasLease
    <3> QED BY <1>0, <3>1, OneHolder
  <2> QED BY <1>3, <2>1, <2>2 DEF Proxies
<1>4. ASSUME NEW c \in Clients, leases'[c].proxy # NoProxy
      PROVE  proxies'[leases'[c].proxy].status = "active" /\ proxies'[leases'[c].proxy].client = c
  <2>1. c \in survivors /\ dbLeases[c] \in Proxies
    BY <1>0, <1>2, <1>4 DEF TablePart
  <2>2. PICK p \in Proxies : p = dbLeases[c] /\ leases'[c].proxy = p
    BY <1>2, <1>4, <2>1
  <2>3. owner[p] # NoClient /\ leases'[owner[p]].proxy = p
    <3>1. \A q \in Proxies : (\E d \in Clients : leases'[d].proxy = q)
                               => owner[q] # NoClient /\ leases'[owner[q]].proxy = q
      BY <1>1, Zenon DEF Restored
    <3> QED BY <2>2, <3>1
  <2>4. owner[p] \in Clients /\ dbLeases[owner[p]] = p
    BY <1>0, <1>2, <2>2, <2>3
  <2>5. owner[p] = c
    BY <1>3, <2>2, <2>4
  <2> QED BY <1>1, <2>2, <2>3, <2>5 DEF Restored
<1>5. Held(proxies', leases')
  BY <1>4 DEF Held
<1>6. Drains(proxies')
  BY <1>1 DEF Restored, Drains
<1>7. Probing'
  BY <1>1, IdleCallForm DEF Restored, Probing
<1> QED BY <1>5, <1>6, <1>7 DEF Leased

LEMMA HeldStep ==
    ASSUME HeldInv, Step,
           "restart" \in Events => ("dbfail" \notin Events /\ StoredAsHeld) \/ Pool = {}
    PROVE  HeldInv'
<1>0. /\ ConnsInv /\ Basic /\ CallPart /\ LeasePart /\ Leased /\ Probing /\ OneOwner
      /\ ConnsInv' /\ OneOwner' /\ \A r \in Calls : r \in Callers
  BY ConnsInvStep, OwnerStep DEF HeldInv, ConnsInv, Basic, Callers
<1> SUFFICES Leased' /\ Probing'
  BY <1>0 DEF HeldInv
<1>1. UNCHANGED << proxies, leases >> => Leased'
  BY <1>0 DEF Leased
<1>2. UNCHANGED << proxies, calls >> => Probing'
  BY <1>0 DEF Probing
<1>3. CASE UNCHANGED vars
  BY <1>1, <1>2, <1>3 DEF vars
<1>4. ASSUME NEW r \in Calls, NEW c \in Clients, Requested(r, c) PROVE Leased' /\ Probing'
  <2>1. PICK w \in Call : calls' = [calls EXCEPT ![r] = w] /\ w.pc \in {"gate", "reserve"}
    BY <1>0, <1>4, RequestedForm
  <2>2. OnlyCalls
    BY <1>0, <1>4, RequestedForm
  <2> QED BY <1>0, <1>1, <2>1, <2>2, ProbingKept DEF OnlyCalls
<1>5. ASSUME NEW r \in Calls, Quiet(r) PROVE Leased' /\ Probing'
  <2>1. PICK w \in Call : calls' = [calls EXCEPT ![r] = w] /\ (w = IdleCall \/ Onward(calls[r], w))
    BY <1>0, <1>5, QuietForm
  <2>2. OnlyCalls /\ w.pc # "poolprobe"
    BY <1>0, <1>5, <2>1, QuietForm, IdleCallForm DEF Onward
  <2> QED BY <1>0, <1>1, <2>1, <2>2, ProbingKept DEF OnlyCalls
<1>6. ASSUME NEW r \in Calls, activateDynamicProxy(r) PROVE Leased' /\ Probing'
  BY <1>6, InstallHeld
<1>7. ASSUME NEW r \in Callers, PoolStep(r) PROVE Leased' /\ Probing'
  BY <1>7, ReserveHeld, ActivateHeld, ProbeFailedHeld DEF PoolStep
<1>8. CASE nextQueuedClient
  <2>1. PICK w \in Call : calls' = [calls EXCEPT ![Worker] = w] /\ w.pc = "reserve"
    BY <1>0, <1>8, QueuedForm
  <2>2. Worker \in Callers /\ UNCHANGED << proxies, leases >>
    BY <1>0, <1>8, QueuedForm
  <2> QED BY <1>0, <1>1, <2>1, <2>2, ProbingKept
<1>9. ASSUME NEW c \in Clients, Release(c) \/ leaseExpires(c) \/ expireLease(c) PROVE Leased' /\ Probing'
  <2>1. CASE leaseExpires(c)
    <3>1. UNCHANGED << proxies, calls >> /\ leases' = [leases EXCEPT ![c].expired = TRUE]
      BY <2>1 DEF leaseExpires
    <3>2. \A d \in Clients : leases'[d].proxy = leases[d].proxy /\ (leases[d].expired => leases'[d].expired)
      BY <1>0, <3>1 DEF LeasePart, Lease
    <3>3. Leased'
      BY <1>0, <3>1, <3>2 DEF Leased, Held
    <3> QED BY <1>2, <3>1, <3>3
  <2>2. CASE releaseLocked(c) /\ UNCHANGED calls
    BY <2>2, ReleaseHeld
  <2> QED BY <1>9, <2>1, <2>2 DEF Release, expireLease
<1>10. CASE collectExpired
  BY <1>1, <1>2, <1>10 DEF collectExpired
<1>11. ASSUME NEW k \in Conns, UnregisterConn(k) \/ \E c \in Clients : AcquireProxyConn(k, c)
       PROVE  Leased' /\ Probing'
  BY <1>11, UnregisterHeld, AcquireHeld
<1>12. ASSUME NEW i \in Ids, deleteDropped(i) PROVE Leased' /\ Probing'
  BY <1>1, <1>2, <1>12 DEF deleteDropped
<1>13. CASE Restart
  BY <1>0, <1>13, RestartForm, RestartHeld
<1> QED BY <1>3, <1>4, <1>5, <1>6, <1>7, <1>8, <1>9, <1>10, <1>11, <1>12, <1>13, Zenon DEF Step

LEMMA InitHeld == Init => HeldInv
<1> SUFFICES ASSUME Init PROVE HeldInv
  OBVIOUS
<1>1. \A c \in Clients : leases[c].proxy = NoProxy /\ dbLeases[c] = NoProxy
  BY NoLeaseForm DEF Init
<1>2. \A p \in Proxies : proxies[p].drainingFor = NoClient
  BY DEF Init, Absent
<1>3. \A r \in Callers : calls[r].pc = "idle"
  BY IdleCallForm DEF Init
<1>4. NoProxy \notin Ids
  BY NamesAssumption DEF Proxies
<1> QED BY <1>1, <1>2, <1>3, <1>4, InitConns DEF HeldInv, Leased, Held, Drains, Probing, OneOwner

\* What New can rely on: no write fails, it never runs, or no pool is there.
Recoverable == "dbfail" \notin Events \/ "restart" \notin Events \/ Pool = {}
TablesInv == HeldInv /\ ("dbfail" \notin Events => StoredInv)

LEMMA TablesStep == ASSUME Recoverable, TablesInv, Step PROVE TablesInv'
<1>1. HeldInv /\ ("dbfail" \notin Events => StoredInv /\ StoredAsHeld)
  BY DEF TablesInv, StoredInv
<1>2. HeldInv'
  BY <1>1, HeldStep DEF Recoverable
<1>3. "dbfail" \notin Events => StoredInv'
  BY <1>1, StoredStep
<1> QED BY <1>2, <1>3 DEF TablesInv

LEMMA InitTables == Init => TablesInv
BY InitHeld, InitStored DEF TablesInv

\* An unexpired lease keeps its proxy whatever other clients do: every release
\* sweeps the dynamic proxies, a pool call may replace a dynamic lease, and New
\* hands out what the tables say (releaseLocked, activateDynamicProxy, New).
THEOREM DynamicLeasesUsable ==
    ASSUME Recoverable
    PROVE  Spec => []LeaseUsable
<1>1. TablesInv /\ [Next]_vars => TablesInv'
  BY Steps, TablesStep
<1>2. TablesInv => LeaseUsable
  <2> SUFFICES ASSUME TablesInv, NEW c \in Clients, Live(c)
               PROVE  proxies[leases[c].proxy].status = "active" /\ proxies[leases[c].proxy].client = c
    BY DEF LeaseUsable
  <2> QED BY DEF TablesInv, HeldInv, Leased, Held, Live, HasLease
<1> QED BY <1>1, <1>2, InitTables, PTL DEF Spec

----------------------------------------------------------------------------
(* Nobody is given a dynamic proxy that is there.                          *)

LEMMA NoReassignment ==
    ASSUME TablesInv, Step, "dbfail" \notin Events \/ "restart" \notin Events,
           NEW c \in Clients, leases'[c].proxy \in Ids \ {leases[c].proxy}
    PROVE  ~Present(leases'[c].proxy)
<1>0. /\ ConnsInv /\ Basic /\ LeasePart /\ TablePart /\ CallPart /\ NoProxy \notin Ids /\ \A r \in Calls : r \in Callers
      /\ \A p \in Pool : p \notin Ids
  BY NamesAssumption DEF TablesInv, HeldInv, ConnsInv, Basic, Callers, Proxies
<1>1. leases'[c].proxy # leases[c].proxy /\ leases'[c] # leases[c] /\ leases'[c].proxy \in Ids
  OBVIOUS
<1>2. ~UNCHANGED leases
  BY <1>1
<1>3. ASSUME NEW d \in Clients PROVE leases' # releasedLeases(d)
  BY <1>0, <1>1, NoLeaseForm DEF releasedLeases, LeasePart
<1>4. CASE UNCHANGED vars
  BY <1>2, <1>4 DEF vars
<1>5. ASSUME NEW r \in Calls, NEW d \in Clients, Requested(r, d) PROVE FALSE
  BY <1>0, <1>2, <1>5, RequestedForm DEF OnlyCalls
<1>6. ASSUME NEW r \in Calls, Quiet(r) PROVE FALSE
  BY <1>0, <1>2, <1>6, QuietForm DEF OnlyCalls
<1>7. ASSUME NEW r \in Calls, activateDynamicProxy(r) PROVE ~Present(leases'[c].proxy)
  <2>1. calls[r].pc = "probe" /\ \E i \in Ids : Installs(r, i)
    BY <1>0, <1>7, InstallForm
  <2>2. PICK i \in Ids : Installs(r, i)
    BY <2>1
  <2>3. PICK d \in Clients : d = calls[r].client
    BY <1>0, <2>1, NewForm
  <2>4. /\ ~Present(i)
        /\ leases' = [leases EXCEPT ![d] = [proxy |-> i, params |-> calls[r].params, expired |-> FALSE]]
    <3>1. Basic /\ calls[r].pc = "probe"
      BY <1>0, <2>1
    <3> QED BY <2>2, <2>3, <3>1, InstalledForm
  <2>5. leases'[c].proxy = i
    BY <1>0, <1>1, <2>4 DEF LeasePart
  <2> QED BY <2>4, <2>5
<1>8. ASSUME NEW r \in Callers, PoolStep(r) PROVE FALSE
  <2>1. ASSUME reserveProxyForLease(r) PROVE FALSE
    <3>1. PICK d \in Clients : d = calls[r].client
      BY <1>0, <2>1, ReserveForm
    <3>2. leases' = LeasesAfter(d)
      BY <1>0, <2>1, <3>1, ReserveForm
    <3> QED BY <1>2, <1>3, <3>2 DEF LeasesAfter
  <2>2. ASSUME activateCheckedProxy(r) PROVE FALSE
    <3>1. PICK d \in Clients, p \in Pool : d = calls[r].client /\ p = calls[r].proxy
      BY <1>0, <2>2, ActivateForm
    <3>2. leases' = [leases EXCEPT ![d] = [proxy |-> p, params |-> NoParams, expired |-> FALSE]]
      BY <1>0, <2>2, <3>1, ActivateForm
    <3> QED BY <1>0, <1>1, <3>2 DEF LeasePart
  <2> QED BY <1>2, <1>8, <2>1, <2>2 DEF PoolStep, poolProbeFailed
<1>9. CASE nextQueuedClient
  BY <1>2, <1>9 DEF nextQueuedClient
<1>10. ASSUME NEW d \in Clients, Release(d) \/ leaseExpires(d) \/ expireLease(d) PROVE FALSE
  <2>1. ~leaseExpires(d)
    <3> SUFFICES ASSUME leaseExpires(d) PROVE FALSE
      OBVIOUS
    <3>1. leases' = [leases EXCEPT ![d].expired = TRUE]
      BY DEF leaseExpires
    <3> QED BY <1>0, <1>1, <3>1 DEF LeasePart, Lease
  <2> QED BY <1>2, <1>3, <1>10, <2>1 DEF Release, expireLease, releaseLocked, releaseLease
<1>11. CASE \/ collectExpired \/ \E i \in Ids : deleteDropped(i)
            \/ \E k \in Conns : UnregisterConn(k) \/ \E d \in Clients : AcquireProxyConn(k, d)
  BY <1>2, <1>11 DEF collectExpired, deleteDropped, UnregisterConn, AcquireProxyConn
<1>12. ASSUME Restart PROVE FALSE
  <2>1. "restart" \in Events /\ \E survivors \in SUBSET Surviving, owner \in [Proxies -> Clients \cup {NoClient}] :
           Restored(survivors, owner)
    BY <1>0, <1>12, RestartForm
  <2>2. leases'[c].proxy \in {NoProxy, dbLeases[c]}
    BY <2>1, NoLeaseForm DEF Restored
  <2>3. dbLeases[c] = leases[c].proxy
    BY <2>1 DEF TablesInv, StoredInv, StoredAsHeld
  <2> QED BY <1>0, <1>1, <2>2, <2>3
<1> QED BY <1>4, <1>5, <1>6, <1>7, <1>8, <1>9, <1>10, <1>11, <1>12, Zenon DEF Step

\* A dynamic proxy stays with the client it was acquired for: no pool call,
\* refresh or restart gives a lease on one that is in the pool already
\* (takeIdleProxyLocked, activateDynamicProxy, New).
THEOREM ApiProxiesNotReassigned ==
    ASSUME "dbfail" \notin Events \/ "restart" \notin Events
    PROVE  Spec => ApiNeverReassigned
<1>0. Recoverable
  BY DEF Recoverable
<1>1. TablesInv /\ [Next]_vars => TablesInv'
  BY <1>0, Steps, TablesStep
<1>2. TablesInv /\ [Next]_vars => [\A c \in Clients : leases'[c].proxy \in Ids \ {leases[c].proxy}
                                        => ~Present(leases'[c].proxy)]_vars
  BY Steps, NoReassignment
<1> QED BY <1>1, <1>2, InitTables, PTL DEF Spec, ApiNeverReassigned

----------------------------------------------------------------------------
(* Endpoints.                                                              *)

\* A dynamic proxy after a step was there before, at the same endpoint.
SameEndpoints ==
    \A i \in Ids : proxies'[i].status # "absent" =>
        proxies[i].status # "absent" /\ proxies'[i].address = proxies[i].address

LEMMA EndpointsStay ==
    ASSUME ConnsInv, Step
    PROVE  SameEndpoints \/ (\E r \in Calls : activateDynamicProxy(r)) \/ Restart
<1>0. /\ Basic /\ CallPart /\ LeasePart /\ ProxyPart /\ Named /\ \A r \in Calls : r \in Callers
      /\ \A i \in Ids : i \in Proxies /\ i \notin Pool
  BY NamesAssumption DEF ConnsInv, Basic, Callers, Proxies
<1>1. UNCHANGED proxies => SameEndpoints
  BY DEF SameEndpoints
<1>2. ASSUME NEW c \in Clients, \A i \in Ids : proxies'[i] = releasedProxies(c)[i] PROVE SameEndpoints
  BY <1>0, <1>2, ReleasedForm DEF SameEndpoints, Present
<1>3. CASE UNCHANGED vars
  BY <1>1, <1>3 DEF vars
<1>4. ASSUME NEW r \in Calls, NEW c \in Clients, Requested(r, c) PROVE SameEndpoints
  BY <1>0, <1>1, <1>4, RequestedForm DEF OnlyCalls
<1>5. ASSUME NEW r \in Calls, Quiet(r) PROVE SameEndpoints
  BY <1>0, <1>1, <1>5, QuietForm DEF OnlyCalls
<1>6. ASSUME NEW r \in Callers, reserveProxyForLease(r) PROVE SameEndpoints
  <2>1. PICK c \in Clients : c = calls[r].client
    BY <1>0, <1>6, ReserveForm
  <2>2. proxies' = ProxiesAfter(c) \/ \E p \in Takeable(ProxiesAfter(c), LeasesAfter(c)) : Reserves(r, p)
    BY <1>0, <1>6, <2>1, ReserveForm
  <2>3. \A i \in Ids : proxies'[i] = ProxiesAfter(c)[i]
    <3>1. ASSUME NEW p \in Takeable(ProxiesAfter(c), LeasesAfter(c)), Reserves(r, p)
          PROVE  \A i \in Ids : proxies'[i] = ProxiesAfter(c)[i]
      <4>1. ProxiesAfter(c) \in [Proxies -> Proxy]
        BY <1>0, AfterPool
      <4>2. p \in Pool /\ proxies' = [ProxiesAfter(c) EXCEPT ![p] = Taken(@, c)]
        BY <2>1, <3>1 DEF Reserves, Takeable
      <4> QED BY <1>0, <4>1, <4>2
    <3> QED BY <2>2, <3>1
  <2> QED BY <1>2, <2>3 DEF ProxiesAfter, SameEndpoints
<1>7. ASSUME NEW r \in Callers, activateCheckedProxy(r) PROVE SameEndpoints
  <2>1. PICK c \in Clients, p \in Pool : c = calls[r].client /\ p = calls[r].proxy
    BY <1>0, <1>7, ActivateForm
  <2>2. \A q \in Proxies \ {p} : proxies'[q] = Left(r)[q]
    BY <1>0, <1>7, <2>1, ActivateForm
  <2>3. \A i \in Ids : /\ proxies'[i].status = "absent" <=> ~Present(i)
                       /\ proxies'[i].address = proxies[i].address
    BY <1>0, <2>1, <2>2, LeftPool
  <2> QED BY <2>3 DEF SameEndpoints, Present
<1>8. ASSUME NEW r \in Callers, poolProbeFailed(r) PROVE SameEndpoints
  <2>1. PICK p \in Pool : p = calls[r].proxy
    BY <1>0, <1>8, ProbeFailedForm
  <2>2. \A q \in Proxies \ {p} : proxies'[q] = proxies[q]
    BY <1>0, <1>8, <2>1, ProbeFailedForm
  <2> QED BY <1>0, <2>2 DEF SameEndpoints
<1>9. CASE nextQueuedClient
  BY <1>1, <1>9 DEF nextQueuedClient
<1>10. ASSUME NEW c \in Clients, Release(c) \/ leaseExpires(c) \/ expireLease(c) PROVE SameEndpoints
  BY <1>1, <1>2, <1>10 DEF Release, leaseExpires, expireLease, releaseLocked, releaseLease
<1>11. CASE collectExpired \/ \E i \in Ids : deleteDropped(i)
  BY <1>1, <1>11 DEF collectExpired, deleteDropped
<1>12. ASSUME NEW k \in Conns, UnregisterConn(k) PROVE SameEndpoints
  <2>1. PICK p \in Proxies : p = conns[k].proxy /\ (Nowhere(p) \/ LeavesApi(p) \/ LeavesProxy(p))
    BY <1>0, <1>12, UnregisterForm DEF Named
  <2>2. CASE LeavesApi(p)
    BY <1>0, <2>1, <2>2, AbsentForm DEF LeavesApi, ProxyPart, SameEndpoints
  <2>3. CASE LeavesProxy(p)
    <3>1. /\ proxies'[p] = connClosed(proxies[p]) /\ proxies[p] \in Proxy /\ proxies[p].conns > 0
          /\ Present(p) /\ \A q \in Proxies \ {p} : proxies'[q] = proxies[q]
      BY <1>0, <2>3 DEF LeavesProxy, ProxyPart
    <3>2. proxies'[p].address = proxies[p].address
      BY <3>1, ClosedForm
    <3> QED BY <1>0, <3>1, <3>2 DEF SameEndpoints, Present
  <2> QED BY <1>1, <2>1, <2>2, <2>3 DEF Nowhere
<1>13. ASSUME NEW k \in Conns, NEW c \in Clients, AcquireProxyConn(k, c) PROVE SameEndpoints
  <2>1. PICK p \in Proxies : p = leases[c].proxy
    BY <1>0, <1>13, AcquireForm
  <2>2. proxies'[p] = Used(proxies[p]) /\ \A q \in Proxies \ {p} : proxies'[q] = proxies[q]
    BY <1>0, <1>13, <2>1, AcquireForm
  <2>3. proxies'[p].status = proxies[p].status /\ proxies'[p].address = proxies[p].address
    BY <1>0, <2>2, UsedForm DEF ProxyPart
  <2> QED BY <1>0, <2>2, <2>3 DEF SameEndpoints
<1> QED BY <1>3, <1>4, <1>5, <1>6, <1>7, <1>8, <1>9, <1>10, <1>11, <1>12, <1>13, Zenon DEF Step, PoolStep

LEMMA EndpointsStep ==
    ASSUME TablesInv, EndpointsDistinct, Step, "dbfail" \notin Events \/ "restart" \notin Events
    PROVE  EndpointsDistinct'
<1>0. /\ HeldInv /\ ConnsInv /\ Basic /\ CallPart /\ NoProxy \notin Proxies
      /\ \A i \in Ids : i \in Proxies
  BY NamesAssumption DEF TablesInv, HeldInv, ConnsInv, Basic, Proxies
<1>1. CASE SameEndpoints
  BY <1>1 DEF SameEndpoints, EndpointsDistinct, Present
<1>2. ASSUME NEW r \in Calls, activateDynamicProxy(r) PROVE EndpointsDistinct'
  <2>1. calls[r].pc = "probe" /\ ~proxyAddressExists(calls[r].address) /\ \E i \in Ids : Installs(r, i)
    BY <1>0, <1>2, InstallForm
  <2>2. PICK i \in Ids : Installs(r, i)
    BY <2>1
  <2>3. PICK c \in Clients : c = calls[r].client
    BY <1>0, <2>1, NewForm
  <2>4. /\ i \in Proxies /\ ~Present(i)
        /\ proxies'[i] = New(r)
        /\ \A p \in Proxies \ {i} : proxies'[p] = replacedProxies(c)[p]
    <3>1. /\ i \in Proxies /\ ~Present(i)
          /\ proxies'[i] = New(r)
          /\ \A p \in Proxies \ {i} : proxies'[p] = replacedProxies(calls[r].client)[p]
      BY <1>0, <2>1, <2>2, InstalledForm
    <3> QED BY <2>3, <3>1
  <2>5. proxies'[i].address = calls[r].address
    BY <1>0, <2>1, <2>4, NewForm
  <2>6. \A j \in Ids \ {i} : proxies'[j].status # "absent" =>
          Present(j) /\ proxies'[j].address = proxies[j].address
    BY <1>0, <2>4, ReplacedPool
  <2>7. \A j \in Ids : Present(j) => proxies[j].address # calls[r].address
    BY <1>0, <2>1 DEF proxyAddressExists
  <2> QED BY <2>5, <2>6, <2>7 DEF EndpointsDistinct, Present
<1>3. ASSUME Restart PROVE EndpointsDistinct'
  <2>1. "restart" \in Events
    BY <1>0, <1>3, RestartForm
  <2>2. StoredAsHeld /\ AddressStored
    BY <2>1 DEF TablesInv, StoredInv
  <2>3. PICK survivors \in SUBSET Surviving, owner \in [Proxies -> Clients \cup {NoClient}] :
           Restored(survivors, owner)
    BY <1>0, <1>3, RestartForm
  <2>4. ASSUME NEW i \in Ids, proxies'[i].status # "absent"
        PROVE  Present(i) /\ proxies'[i].address = proxies[i].address
    <3>1. owner[i] # NoClient
      BY <1>0, <2>3, <2>4, AbsentForm DEF Restored
    <3>2. \E c \in Clients : leases'[c].proxy = i
      BY <1>0, <2>3, <3>1, Zenon DEF Restored
    <3>3. PICK c \in Clients : leases'[c].proxy = i
      BY <3>2
    <3>4. c \in survivors /\ dbLeases[c] = i
      BY <1>0, <2>3, <3>3, NoLeaseForm DEF Restored
    <3>5. leases[c].proxy = i /\ ~leases[c].expired
      BY <2>2, <3>4 DEF StoredAsHeld, Surviving
    <3>6. Present(i)
      BY <1>0, <3>5 DEF HeldInv, Leased, Held, Present
    <3>7. proxies'[i].address = rows[i].address
      BY <1>0, <2>3, <3>1 DEF Restored
    <3> QED BY <2>2, <3>6, <3>7 DEF AddressStored
  <2> QED BY <2>4 DEF EndpointsDistinct, Present
<1> QED BY <1>0, <1>1, <1>2, <1>3, EndpointsStay

\* No two dynamic proxies share an endpoint: calls of different clients are
\* given the same one and probe it at once, but the activation looks again
\* under the lock, and New finds each address in one row
\* (proxyAddressExistsLocked, activateDynamicProxy).
THEOREM EndpointsNotShared ==
    ASSUME "dbfail" \notin Events \/ "restart" \notin Events
    PROVE  Spec => []EndpointsDistinct
<1>0. Recoverable
  BY DEF Recoverable
<1>1. TablesInv /\ EndpointsDistinct /\ [Next]_vars => TablesInv' /\ EndpointsDistinct'
  BY <1>0, Steps, TablesStep, EndpointsStep
<1>2. Init => EndpointsDistinct
  <2> SUFFICES ASSUME Init PROVE EndpointsDistinct
    OBVIOUS
  <2>1. \A i \in Ids : i \in Proxies /\ i \notin Pool
    BY NamesAssumption DEF Proxies
  <2>2. \A i \in Ids : proxies[i].status = "absent"
    BY <2>1, AbsentForm DEF Init
  <2> QED BY <2>2 DEF EndpointsDistinct, Present
<1> QED BY <1>1, <1>2, InitTables, PTL DEF Spec

----------------------------------------------------------------------------
(* The calls keep to the lock per client.                                  *)

\* A call as the lock sees it.
StageOf(v) ==
    IF v.pc \in Inside THEN Gate!Stage("inside", v.client)
    ELSE IF v.pc = "gate" THEN Gate!Stage("waiting", v.client) ELSE Gate!Outside

Turn == Gate!Next \/ UNCHANGED Stages

LEMMA StageMoves ==
    ASSUME CallPart, NEW s \in Calls, NEW w \in Call, calls' = [calls EXCEPT ![s] = w]
    PROVE  /\ Stages[s] = StageOf(calls[s])
           /\ Stages' = [Stages EXCEPT ![s] = StageOf(w)]
<1>1. \A r \in Calls : Stages[r] = StageOf(calls[r])
  BY DEF Stages, StageOf, Gate!Stage, Gate!Outside, Gate!NoClient, NoClient
<1>2. Stages = [r \in Calls |-> StageOf(calls[r])]
  BY DEF Stages, StageOf, Gate!Stage, Gate!Outside, Gate!NoClient, NoClient
<1>3. Stages' = [r \in Calls |-> StageOf(calls'[r])]
  BY DEF Stages, StageOf, Gate!Stage, Gate!Outside, Gate!NoClient, NoClient
<1>4. calls'[s] = w /\ \A r \in Calls \ {s} : calls'[r] = calls[r]
  BY DEF CallPart, Callers
<1> QED BY <1>1, <1>2, <1>3, <1>4

LEMMA StageKept ==
    ASSUME CallPart, NEW s \in Calls, NEW w \in Call, calls' = [calls EXCEPT ![s] = w],
           StageOf(w) = StageOf(calls[s])
    PROVE  UNCHANGED Stages
<1>1. Stages' = [Stages EXCEPT ![s] = Stages[s]]
  BY StageMoves
<1> QED BY <1>1 DEF Stages

LEMMA StagesKept ==
    ASSUME CallPart, NEW s \in Callers, NEW w \in Call, calls' = [calls EXCEPT ![s] = w],
           calls[s].pc \notin Inside \cup {"gate"}, w.pc \notin Inside \cup {"gate"}
    PROVE  UNCHANGED Stages
<1>1. CASE s \in Calls
  BY <1>1, StageKept DEF StageOf
<1>2. CASE s \notin Calls
  BY <1>2 DEF Stages, CallPart
<1> QED BY <1>1, <1>2

LEMMA StageLeft ==
    ASSUME CallPart, NEW s \in Calls, NEW w \in Call, calls' = [calls EXCEPT ![s] = w],
           calls[s].pc # "gate", w.pc \notin Inside \cup {"gate"}
    PROVE  Turn
<1>0. s \in Callers
  BY DEF Callers
<1>1. CASE calls[s].pc \in Inside
  <2>1. PICK c \in Clients : c = calls[s].client
    BY <1>0, <1>1 DEF CallPart, KnownCall, Inside
  <2>2. Stages[s] = Gate!Stage("inside", c) /\ Stages' = [Stages EXCEPT ![s] = Gate!Outside]
    BY <1>1, <2>1, StageMoves DEF StageOf
  <2>3. Gate!Leave(s, c)
    BY <2>2 DEF Gate!Leave
  <2> QED BY <2>3 DEF Turn, Gate!Next
<1>2. CASE calls[s].pc \notin Inside
  BY <1>0, <1>2, StagesKept DEF Turn
<1> QED BY <1>1, <1>2

LEMMA QuietTurn == ASSUME CallPart, NEW s \in Calls, Quiet(s) PROVE Turn
<1>0. s \in Callers /\ calls[s] \in Call /\ KnownCall(calls[s])
  BY DEF CallPart, Callers
<1>1. ASSUME calls[s].pc = "gate"
      PROVE  \E c \in Clients : c = calls[s].client /\ Stages[s] = Gate!Stage("waiting", c)
  <2>1. calls[s].client \in Clients
    BY <1>0, <1>1 DEF KnownCall
  <2>2. Stages[s] = Gate!Stage("waiting", calls[s].client)
    BY <1>1 DEF Stages, Gate!Stage, Inside
  <2> QED BY <2>1, <2>2
<1>2. CASE enterGate(s)
  <2>1. PICK c \in Clients : c = calls[s].client /\ Stages[s] = Gate!Stage("waiting", c)
    BY <1>1, <1>2 DEF enterGate
  <2>2. PICK v \in Call : calls' = [calls EXCEPT ![s] = v] /\ v.pc = "check" /\ v.client = calls[s].client
    <3>1. "check" \in {"gate", "reserve", "poolprobe", "refused"} \cup Inside /\ Goto(s, "check")
      BY <1>2 DEF enterGate, Inside
    <3> QED BY <1>0, <3>1, GotoForm
  <2>3. StageOf(v) = Gate!Stage("inside", c)
    BY <2>1, <2>2 DEF StageOf, Inside
  <2>4. Stages' = [Stages EXCEPT ![s] = Gate!Stage("inside", c)]
    BY <2>2, <2>3, StageMoves
  <2>5. Gate!Free(Stages, c)
    BY <1>2, <2>1 DEF enterGate
  <2>6. Gate!Enter(s, c)
    BY <2>1, <2>4, <2>5 DEF Gate!Enter
  <2> QED BY <2>6 DEF Turn, Gate!Next
<1>3. CASE gateCanceled(s)
  <2>1. PICK c \in Clients : c = calls[s].client /\ Stages[s] = Gate!Stage("waiting", c)
    BY <1>1, <1>3 DEF gateCanceled
  <2>2. PICK v \in Call : calls' = [calls EXCEPT ![s] = v] /\ v.pc = "refused"
    BY <1>0, <1>3, GotoForm DEF gateCanceled
  <2>3. StageOf(v) = Gate!Outside
    BY <2>2 DEF StageOf, Inside
  <2>4. Stages' = [Stages EXCEPT ![s] = Gate!Outside]
    BY <2>2, <2>3, StageMoves
  <2>5. Gate!GiveUp(s, c)
    BY <2>1, <2>4 DEF Gate!GiveUp
  <2> QED BY <2>5 DEF Turn, Gate!Next
<1>4. CASE ~enterGate(s) /\ ~gateCanceled(s)
  <2>1. calls[s].pc # "gate"
    BY <1>4 DEF Quiet, checkCurrent, acquireEndpoint, checkDuplicate, probeFailed, activationRefused,
           dynamicLeaseError
  <2>2. PICK w \in Call : calls' = [calls EXCEPT ![s] = w] /\ (w = IdleCall \/ Onward(calls[s], w))
    BY QuietForm
  <2>3. CASE w = IdleCall
    <3>1. w.pc \notin Inside \cup {"gate"}
      BY <2>3, IdleCallForm DEF Inside
    <3> QED BY <2>1, <2>2, <3>1, StageLeft
  <2>4. CASE Onward(calls[s], w)
    <3>1. calls[s].pc \in Inside /\ w.client = calls[s].client
      BY <2>1, <2>4 DEF Onward
    <3>2. w.pc \in Inside
      BY <2>1, <2>4 DEF Onward, Call
    <3>3. StageOf(w) = StageOf(calls[s])
      BY <3>1, <3>2 DEF StageOf
    <3> QED BY <2>2, <3>3, StageKept DEF Turn
  <2> QED BY <2>2, <2>3, <2>4
<1> QED BY <1>2, <1>3, <1>4

LEMMA RequestedTurn ==
    ASSUME CallPart, LeasePart, NEW s \in Calls, NEW c \in Clients, Requested(s, c) PROVE Turn
<1>1. PICK w \in Call : /\ calls' = [calls EXCEPT ![s] = w] /\ KnownCall(w)
                        /\ w.pc \in {"gate", "reserve"} /\ w.client = c
  BY RequestedForm
<1>2. calls[s].pc = "idle" /\ s \in Callers
  BY RequestedForm DEF Callers
<1>3. CASE w.pc = "gate"
  <2>1. Stages[s] = Gate!Outside /\ StageOf(w) = Gate!Stage("waiting", c)
    BY <1>1, <1>2, <1>3, StageMoves DEF StageOf, Inside
  <2>2. Gate!Ask(s, c)
    BY <1>1, <2>1, StageMoves DEF Gate!Ask
  <2> QED BY <2>2 DEF Turn, Gate!Next
<1>4. CASE w.pc = "reserve"
  BY <1>1, <1>2, <1>4, StagesKept DEF Turn, Inside
<1> QED BY <1>1, <1>3, <1>4

LEMMA TurnStep == ASSUME ConnsInv, Step, "restart" \notin Events PROVE Turn
<1>0. /\ Basic /\ CallPart /\ LeasePart /\ Worker \in Callers
      /\ IdleCall.pc \notin Inside \cup {"gate"}
      /\ \A r \in Calls : r \in Callers
  BY IdleCallForm DEF ConnsInv, Basic, Callers, Inside
<1>1. UNCHANGED calls => Turn
  BY DEF Turn, Stages
<1>2. ASSUME NEW s \in Callers, Returns(s), calls[s].pc \in {"reserve", "poolprobe"} PROVE Turn
  <2>1. calls[s].pc \notin Inside \cup {"gate"}
    BY <1>2 DEF Inside
  <2> QED BY <1>0, <1>2, <2>1, IdleCallForm, StagesKept DEF Returns, Turn
<1>3. CASE UNCHANGED vars
  BY <1>1, <1>3 DEF vars
<1>4. CASE \E r \in Calls, c \in Clients : Requested(r, c)
  BY <1>0, <1>4, RequestedTurn
<1>5. ASSUME NEW r \in Calls, Quiet(r) PROVE Turn
  BY <1>0, <1>5, QuietTurn
<1>6. ASSUME NEW r \in Calls, activateDynamicProxy(r) PROVE Turn
  <2>1. Returns(r) /\ calls[r].pc # "gate"
    BY <1>6 DEF activateDynamicProxy, installs
  <2> QED BY <1>0, <2>1, IdleCallForm, StageLeft DEF Returns
<1>7. ASSUME NEW r \in Callers, reserveProxyForLease(r) PROVE Turn
  <2>1. PICK c \in Clients : c = calls[r].client
    BY <1>0, <1>7, ReserveForm
  <2>2. /\ calls[r].pc = "reserve"
        /\ Returns(r) \/ \E p \in Takeable(ProxiesAfter(c), LeasesAfter(c)) : Reserves(r, p)
    BY <1>0, <1>7, <2>1, ReserveForm
  <2>3. ASSUME NEW p \in Takeable(ProxiesAfter(c), LeasesAfter(c)), Reserves(r, p) PROVE Turn
    <3>1. /\ p \in Pool /\ calls[r].pc = "reserve"
          /\ calls' = [calls EXCEPT ![r].pc = "poolprobe", ![r].proxy = p]
      BY <2>2, <2>3 DEF Takeable, Reserves
    <3>2. PICK v \in Call : /\ calls' = [calls EXCEPT ![r] = v] /\ v.pc = "poolprobe"
                            /\ v.client = calls[r].client /\ v.refresh = calls[r].refresh
      BY <1>0, <3>1, HeldCall
    <3>3. calls[r].pc \notin Inside \cup {"gate"} /\ v.pc \notin Inside \cup {"gate"}
      BY <3>1, <3>2 DEF Inside
    <3> QED BY <1>0, <3>2, <3>3, StagesKept DEF Turn
  <2> QED BY <1>2, <2>2, <2>3
<1>8. ASSUME NEW r \in Callers, activateCheckedProxy(r) PROVE Turn
  BY <1>2, <1>8 DEF activateCheckedProxy
<1>9. ASSUME NEW r \in Callers, poolProbeFailed(r) PROVE Turn
  <2>1. PICK v \in Call : calls' = [calls EXCEPT ![r] = v] /\ v.pc = "reserve"
    BY <1>0, <1>9, ProbeFailedForm
  <2>2. calls[r].pc \notin Inside \cup {"gate"} /\ v.pc \notin Inside \cup {"gate"}
    BY <1>9, <2>1 DEF poolProbeFailed, Inside
  <2> QED BY <1>0, <2>1, <2>2, StagesKept DEF Turn
<1>10. CASE nextQueuedClient
  <2>1. calls[Worker].pc = "idle"
    BY <1>10 DEF nextQueuedClient
  <2>2. PICK w \in Call : calls' = [calls EXCEPT ![Worker] = w] /\ w.pc = "reserve"
    BY <1>0, <1>10, QueuedForm
  <2>3. calls[Worker].pc \notin Inside \cup {"gate"} /\ w.pc \notin Inside \cup {"gate"}
    BY <2>1, <2>2 DEF Inside
  <2> QED BY <1>0, <2>2, <2>3, StagesKept DEF Turn
<1>11. CASE \E c \in Clients : Release(c) \/ leaseExpires(c) \/ expireLease(c)
  BY <1>1, <1>11 DEF Release, leaseExpires, expireLease
<1>12. CASE \/ collectExpired \/ \E i \in Ids : deleteDropped(i)
            \/ \E k \in Conns : UnregisterConn(k) \/ \E c \in Clients : AcquireProxyConn(k, c)
  BY <1>1, <1>12 DEF collectExpired, deleteDropped, UnregisterConn, AcquireProxyConn
<1>13. ~Restart
  BY DEF Restart
<1> QED BY <1>3, <1>4, <1>5, <1>6, <1>7, <1>8, <1>9, <1>10, <1>11, <1>12, <1>13, Zenon DEF Step, PoolStep

\* The calls of one client take turns between the lookup of the lease and the
\* end of the call, whatever way it ends: LeaseDynamicContext, with its early
\* returns, uses the lock as ClientMutex describes it.
THEOREM CallsTakeTurns ==
    ASSUME "restart" \notin Events
    PROVE  Spec => TakesTurns
<1>1. ConnsInv /\ [Next]_vars => ConnsInv'
  BY Steps, ConnsInvStep
<1>2. Init => Gate!Init
  BY IdleCallForm DEF Init, Callers, Stages, Inside, Gate!Init, Gate!Outside, Gate!NoClient, NoClient
<1>3. ConnsInv /\ [Next]_vars => [Gate!Next]_Stages
  BY Steps, TurnStep DEF Turn
<1> QED BY <1>1, <1>2, <1>3, InitConns, PTL DEF Spec, TakesTurns, Gate!Spec
=============================================================================
