------------------------------- MODULE FakeIP -------------------------------
(***************************************************************************)
(* The FakeIP store (src/internal/manager/fakeip.go), the DNS answers      *)
(* taken from it (src/internal/dnsproxy/dnsproxy.go) and the gateway's way *)
(* back from the address to the name (rewriteFakeIPTarget of               *)
(* src/internal/gateway/gateway.go).  Clients keep an answer as long as    *)
(* they like (its TTL is 30 s); the store lives in memory only.            *)
(*                                                                         *)
(* Names are normalized: lower case, no final dot.  Addresses are counted  *)
(* from the first one of the network.                                      *)
(***************************************************************************)
EXTENDS Integers, FiniteSets

CONSTANTS
    Clients,  \* client IPs
    Names,    \* domain names that are asked for
    Size,     \* number of addresses of the network
    Base,     \* host part of the address in dns.fake_ip_cidr
    Events    \* which events of the environment may happen

ASSUME SizeAssumption == Size \in Nat /\ Size >= 4  \* at most /30
ASSUME BaseAssumption == Base \in 0..Size - 1
ASSUME NamesAssumption == IsFiniteSet(Names)
ASSUME EventsAssumption == Events \subseteq {"restart"}

VARIABLES
    nameToIP,  \* address of a name, NoAddress if it was never asked for
    ipToName,  \* name of an address
    next,      \* the next offset
    cache      \* the answer a client keeps: a name and the address it got

vars == << nameToIP, ipToName, next, cache >>

NoAddress == -1
NoName == "noname"
ASSUME NoNameAssumption == NoName \notin Names

\* Offsets handed out: never the first address of the network, nor the last.
Offsets == 1..Size - 2
Given == {Base + o : o \in Offsets}

NoAnswer == [name |-> NoName, address |-> NoAddress]

Init ==
    /\ nameToIP = [n \in Names |-> NoAddress]
    /\ ipToName = [a \in Given |-> NoName]
    /\ next = 1
    /\ cache = [c \in Clients |-> NoAnswer]

\* Mutated form of advance: the store goes round one address too early.
AdvanceEarly == IF next + 1 >= Size - 2 THEN 1 ELSE next + 1

advance == IF next + 1 >= Size - 1 THEN 1 ELSE next + 1

\* A name that has no address gets the next one, whoever had it before.
Assign(n) ==
    LET a == Base + next IN
    /\ nameToIP' = [nameToIP EXCEPT ![n] = a]
    /\ ipToName' = [ipToName EXCEPT ![a] = n]
    /\ next' = advance

\* An A query of client c: Get, and the answer.
Query(c, n) ==
    /\ IF nameToIP[n] # NoAddress
       THEN UNCHANGED << nameToIP, ipToName, next >>
       ELSE Assign(n)
    /\ cache' = [cache EXCEPT ![c] = [name |-> n, address |-> nameToIP'[n]]]

Forget(c) ==
    /\ cache[c] # NoAnswer
    /\ cache' = [cache EXCEPT ![c] = NoAnswer]
    /\ UNCHANGED << nameToIP, ipToName, next >>

\* NewFakeIPStore; what clients keep outlives the process.
Restart ==
    /\ "restart" \in Events
    /\ nameToIP' = [n \in Names |-> NoAddress]
    /\ ipToName' = [a \in Given |-> NoName]
    /\ next' = 1
    /\ UNCHANGED cache

Next ==
    \/ \E c \in Clients : Forget(c) \/ \E n \in Names : Query(c, n)
    \/ Restart

Spec == Init /\ [][Next]_vars

\* network.Contains and the map; NoName stands for "not found".
Lookup(a) == IF a \in 0..Size - 1 /\ a \in Given THEN ipToName[a] ELSE NoName

\* The host a connection to address a is routed and forwarded to: the name,
\* or the address itself when there is none.
Target(a) == IF Lookup(a) = NoName THEN a ELSE Lookup(a)

----------------------------------------------------------------------------
(* Properties.                                                             *)

\* Type invariant of the store and of what clients keep.  Every address the
\* store hands out is an offset from 1 to Size - 2: neither the network's first
\* address nor, with Base = 0, its last.
TypeOK ==
    /\ nameToIP \in [Names -> Given \cup {NoAddress}]
    /\ ipToName \in [Given -> Names \cup {NoName}]
    /\ next \in Offsets
    /\ cache \in [Clients -> [name : Names \cup {NoName}, address : Given \cup {NoAddress}]]

\* An address leads to the last name that got it, even after the store went
\* round: the reverse map never names a domain that answers elsewhere.
ReverseIsForward ==
    \A a \in Given : ipToName[a] # NoName => nameToIP[ipToName[a]] = a

\* "Maps domains through FakeIP": a connection to an address goes to the name
\* it was the answer for.
NameReached ==
    \A c \in Clients : cache[c] # NoAnswer => Target(cache[c].address) = cache[c].name

\* What a query would be answered now leads back to the name asked for.
ForwardLeadsBack ==
    \A n \in Names : nameToIP[n] # NoAddress => Target(nameToIP[n]) = n
=============================================================================
