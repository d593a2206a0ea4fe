-------------------------- MODULE DestinationProofs --------------------------
(***************************************************************************)
(* What holds of the FakeIP store for every network size, host part and    *)
(* set of names, and of the rules for every section and geosite file.      *)
(***************************************************************************)
EXTENDS Destination, SequenceTheorems, NaturalsInduction, WellFoundedInduction,
        FiniteSetTheorems, TLAPS

LEMMA AdvanceStays ==
    ASSUME next \in Offsets
    PROVE  advance \in Offsets
  BY SizeAssumption DEF advance, Offsets

LEMMA AddressesAreIntegers == Given \subseteq Int /\ NoAddress \notin Given
  BY SizeAssumption, BaseAssumption DEF Given, Offsets, NoAddress

LEMMA TypeInit == Init => TypeOK
  <1> SUFFICES ASSUME Init PROVE TypeOK
    OBVIOUS
  <1>1. next \in Offsets
    BY SizeAssumption DEF Init, Offsets
  <1> QED
    BY <1>1 DEF Init, TypeOK, NoAnswer

LEMMA TypeAssign ==
    ASSUME TypeOK, NEW n \in Names, Assign(n)
    PROVE  /\ nameToIP' \in [Names -> Given \cup {NoAddress}]
           /\ ipToName' \in [Given -> Names \cup {NoName}]
           /\ next' \in Offsets
           /\ nameToIP'[n] \in Given
  <1>1. Base + next \in Given
    BY DEF TypeOK, Given
  <1>2. next' \in Offsets
    BY AdvanceStays DEF TypeOK, Assign
  <1> QED
    BY <1>1, <1>2 DEF TypeOK, Assign

LEMMA TypeStep == TypeOK /\ [Next]_vars => TypeOK'
  <1> SUFFICES ASSUME TypeOK, [Next]_vars PROVE TypeOK'
    OBVIOUS
  <1>1. ASSUME NEW c \in Clients, NEW n \in Names, Query(c, n) PROVE TypeOK'
    <2>1. CASE nameToIP[n] # NoAddress
      BY <1>1, <2>1 DEF Query, TypeOK
    <2>2. CASE nameToIP[n] = NoAddress
      BY <1>1, <2>2, TypeAssign DEF Query, TypeOK
    <2> QED
      BY <2>1, <2>2
  <1>2. ASSUME NEW c \in Clients, Forget(c) PROVE TypeOK'
    BY <1>2 DEF Forget, TypeOK, NoAnswer
  <1>3. CASE Restart
    <2>1. 1 \in Offsets
      BY SizeAssumption DEF Offsets
    <2> QED
      BY <1>3, <2>1 DEF Restart, TypeOK
  <1>4. CASE UNCHANGED vars
    BY <1>4 DEF vars, TypeOK
  <1> QED
    BY <1>1, <1>2, <1>3, <1>4 DEF Next

(* fakeip.go: however often the store goes round and restarts, it hands    *)
(* out inner addresses only (TypeOK).                                      *)
THEOREM StoreTypes == Spec => []TypeOK
  BY TypeInit, TypeStep, PTL DEF Spec

----------------------------------------------------------------------------
LEMMA ReverseStep == TypeOK /\ ReverseIsForward /\ [Next]_vars => ReverseIsForward'
  <1> SUFFICES ASSUME TypeOK, ReverseIsForward, [Next]_vars PROVE ReverseIsForward'
    OBVIOUS
  <1>1. ASSUME NEW c \in Clients, NEW n \in Names, Query(c, n) PROVE ReverseIsForward'
    <2>1. CASE nameToIP[n] # NoAddress
      BY <1>1, <2>1 DEF Query, ReverseIsForward
    <2>2. CASE nameToIP[n] = NoAddress
      <3>1. Assign(n)
        BY <1>1, <2>2 DEF Query
      <3>2. SUFFICES ASSUME NEW a \in Given, ipToName'[a] # NoName
                     PROVE  nameToIP'[ipToName'[a]] = a
        BY DEF ReverseIsForward
      <3>3. CASE a = Base + next
        BY <3>1, <3>3 DEF Assign, TypeOK
      <3>4. CASE a # Base + next
        \* The name of a has an address, so it is not n.
        <4>1. ipToName'[a] = ipToName[a] /\ ipToName[a] \in Names
          BY <3>1, <3>2, <3>4 DEF Assign, TypeOK
        <4>2. nameToIP[ipToName[a]] = a
          BY <3>2, <4>1 DEF ReverseIsForward
        <4>3. ipToName[a] # n
          BY <4>2, <2>2, AddressesAreIntegers
        <4> QED
          BY <3>1, <4>1, <4>2, <4>3 DEF Assign, TypeOK
      <3> QED
        BY <3>3, <3>4
    <2> QED
      BY <2>1, <2>2
  <1>2. ASSUME NEW c \in Clients, Forget(c) PROVE ReverseIsForward'
    BY <1>2 DEF Forget, ReverseIsForward
  <1>3. CASE Restart
    BY <1>3 DEF Restart, ReverseIsForward
  <1>4. CASE UNCHANGED vars
    BY <1>4 DEF vars, ReverseIsForward
  <1> QED
    BY <1>1, <1>2, <1>3, <1>4 DEF Next

(* Lookup of fakeip.go never names a domain that is answered with another  *)
(* address, even after the store went round (ReverseIsForward).            *)
THEOREM LastOwnerKnown == Spec => []ReverseIsForward
  <1>1. Init => ReverseIsForward
    BY DEF Init, ReverseIsForward
  <1> QED
    BY <1>1, TypeInit, TypeStep, ReverseStep, PTL DEF Spec

----------------------------------------------------------------------------
(* When answers are safe.  As long as there are no more names than         *)
(* addresses, the store has handed out exactly the first ones.             *)

Named == {n \in Names : nameToIP[n] # NoAddress}

\* The inductive invariant of the store: the addresses given so far are the
\* first ones, one for each name.
OneToOne ==
    /\ next = IF Cardinality(Named) = Size - 2 THEN 1 ELSE Cardinality(Named) + 1
    /\ \A n \in Named :
          /\ nameToIP[n] \in Base + 1..Base + Cardinality(Named)
          /\ ipToName[nameToIP[n]] = n

\* Clients keep current answers only, which a restart would make untrue.
AnswersCurrent ==
    \A c \in Clients : cache[c] # NoAnswer =>
        /\ cache[c].name \in Named
        /\ cache[c].address = nameToIP[cache[c].name]

LEMMA NamedFinite ==
    /\ IsFiniteSet(Named)
    /\ Cardinality(Named) \in Nat
    /\ Cardinality(Named) <= Cardinality(Names)
    /\ Cardinality(Names) \in Nat
  <1>1. Named \subseteq Names
    BY DEF Named
  <1> QED
    BY <1>1, NamesAssumption, FS_Subset, FS_CardinalityType

\* The store as Init and Restart leave it.
LEMMA OneToOneEmpty ==
    /\ (\A n \in Names : nameToIP[n] = NoAddress) /\ next = 1 => OneToOne
    /\ (\A n \in Names : nameToIP'[n] = NoAddress) /\ next' = 1 => OneToOne'
  <1>1. ASSUME \A n \in Names : nameToIP[n] = NoAddress, next = 1 PROVE OneToOne
    <2>1. Named = {}
      BY <1>1 DEF Named
    <2>2. Cardinality(Named) = 0
      BY <2>1, FS_EmptySet
    <2> QED
      BY <1>1, <2>1, <2>2 DEF OneToOne
  <1>2. ASSUME \A n \in Names : nameToIP'[n] = NoAddress, next' = 1 PROVE OneToOne'
    <2>1. Named' = {}
      BY <1>2 DEF Named
    <2>2. Cardinality(Named)' = 0
      BY <2>1, FS_EmptySet
    <2> QED
      BY <1>2, <2>1, <2>2 DEF OneToOne
  <1> QED
    BY <1>1, <1>2

\* A new name gets a new address.
LEMMA OneToOneAssign ==
    ASSUME TypeOK, OneToOne, Cardinality(Names) <= Size - 2,
           NEW c \in Clients, NEW n \in Names, nameToIP[n] = NoAddress, Query(c, n)
    PROVE  OneToOne'
  <1> DEFINE k == Cardinality(Named)
  <1>1. Assign(n)
    BY DEF Query
  <1>2. n \notin Named
    BY DEF Named
  <1>3. k \in Nat /\ Cardinality(Named \cup {n}) = k + 1 /\ Cardinality(Named \cup {n}) <= Cardinality(Names)
    <2>1. Named \cup {n} \subseteq Names
      BY DEF Named
    <2>2. Cardinality(Named \cup {n}) <= Cardinality(Names)
      BY <2>1, NamesAssumption, FS_Subset
    <2>3. Cardinality(Named \cup {n}) = k + 1
      BY <1>2, NamedFinite, FS_AddElement
    <2> QED
      BY <2>2, <2>3, NamedFinite
  <1>4. k + 1 <= Size - 2 /\ next = k + 1 /\ k # Size - 2
    BY <1>3, NamedFinite, SizeAssumption DEF OneToOne
  <1>5. Named' = Named \cup {n}
    <2>1. \A m \in Names : nameToIP'[m] = IF m = n THEN Base + next ELSE nameToIP[m]
      BY <1>1 DEF Assign, TypeOK
    <2>2. Base + next # NoAddress
      BY <1>3, <1>4, BaseAssumption, SizeAssumption DEF NoAddress
    <2> QED
      BY <2>1, <2>2 DEF Named
  <1>6. Cardinality(Named)' = k + 1
    BY <1>3, <1>5
  <1>7. next' = IF Cardinality(Named)' = Size - 2 THEN 1 ELSE Cardinality(Named)' + 1
    <2>1. next' = IF k + 2 >= Size - 1 THEN 1 ELSE k + 2
      BY <1>1, <1>4, <1>3 DEF Assign, advance
    <2> QED
      BY <2>1, <1>6, <1>4, <1>3, SizeAssumption
  <1>8. /\ Base + next \in Given
        /\ nameToIP' = [nameToIP EXCEPT ![n] = Base + next]
        /\ ipToName' = [ipToName EXCEPT ![Base + next] = n]
    BY <1>1 DEF Assign, TypeOK, Given
  <1>9. ASSUME NEW m \in Named'
        PROVE  /\ nameToIP'[m] \in Base + 1..Base + (k + 1)
               /\ ipToName'[nameToIP'[m]] = m
    <2>1. CASE m = n
      <3>1. nameToIP'[m] = Base + next /\ ipToName'[Base + next] = m
        BY <1>8, <2>1 DEF TypeOK
      <3> QED
        BY <3>1, <1>3, <1>4, BaseAssumption, SizeAssumption
    <2>2. CASE m # n
      <3>1. m \in Named /\ m \in Names
        BY <1>5, <2>2 DEF Named
      <3>2. /\ nameToIP'[m] = nameToIP[m]
            /\ nameToIP[m] \in Base + 1..Base + k
            /\ ipToName[nameToIP[m]] = m
        BY <1>8, <2>2, <3>1 DEF TypeOK, OneToOne
      <3>3. nameToIP[m] # Base + next
        BY <3>2, <1>3, <1>4, BaseAssumption, SizeAssumption
      <3>4. nameToIP[m] \in Given
        BY <3>1 DEF TypeOK, Named
      <3>5. ipToName'[nameToIP[m]] = m
        BY <1>8, <3>2, <3>3, <3>4 DEF TypeOK
      <3> QED
        BY <3>2, <3>5, <1>3, BaseAssumption, SizeAssumption
    <2> QED
      BY <2>1, <2>2
  <1> QED
    BY <1>6, <1>7, <1>9 DEF OneToOne

LEMMA OneToOneStep ==
    ASSUME TypeOK, OneToOne, Cardinality(Names) <= Size - 2, [Next]_vars
    PROVE  OneToOne'
  <1>1. ASSUME NEW c \in Clients, NEW n \in Names, Query(c, n) PROVE OneToOne'
    <2>1. CASE nameToIP[n] # NoAddress
      <3>1. UNCHANGED << nameToIP, ipToName, next >> /\ Named' = Named
        BY <1>1, <2>1 DEF Query, Named
      <3> QED
        BY <3>1 DEF OneToOne
    <2> QED
      BY <1>1, <2>1, OneToOneAssign
  <1>2. ASSUME NEW c \in Clients, Forget(c) PROVE OneToOne'
    <2>1. UNCHANGED << nameToIP, ipToName, next >> /\ Named' = Named
      BY <1>2 DEF Forget, Named
    <2> QED
      BY <2>1 DEF OneToOne
  <1>3. CASE Restart
    BY <1>3, OneToOneEmpty DEF Restart
  <1>4. CASE UNCHANGED vars
    <2>1. UNCHANGED << nameToIP, ipToName, next >> /\ Named' = Named
      BY <1>4 DEF vars, Named
    <2> QED
      BY <2>1 DEF OneToOne
  <1> QED
    BY <1>1, <1>2, <1>3, <1>4 DEF Next

LEMMA OneToOneHolds ==
    ASSUME Cardinality(Names) <= Size - 2
    PROVE  Spec => [](TypeOK /\ OneToOne)
  <1>1. Init => TypeOK /\ OneToOne
    BY TypeInit, OneToOneEmpty DEF Init
  <1>2. TypeOK /\ OneToOne /\ [Next]_vars => (TypeOK /\ OneToOne)'
    BY TypeStep, OneToOneStep
  <1> QED
    BY <1>1, <1>2, PTL DEF Spec

\* Without host bits in the network's address, every given address is found.
LEMMA OneToOneLeadsBack ==
    ASSUME TypeOK, OneToOne, Base = 0, NEW n \in Named
    PROVE  Target(nameToIP[n]) = n
  <1>1. nameToIP[n] \in Given /\ ipToName[nameToIP[n]] = n
    BY DEF OneToOne, Named, TypeOK
  <1>2. nameToIP[n] \in 0..Size - 1
    BY <1>1, SizeAssumption DEF Given, Offsets
  <1>3. n # NoName
    BY NoNameAssumption DEF Named
  <1> QED
    BY <1>1, <1>2, <1>3 DEF Target, Lookup

(* Get and Lookup of fakeip.go agree (ForwardLeadsBack): if the network's  *)
(* address has no host bits and no more names are asked for than it has    *)
(* inner addresses, the address a name is answered with leads back to it,  *)
(* however often the process is restarted.                                 *)
THEOREM AnswersLeadBack ==
    ASSUME Base = 0, Cardinality(Names) <= Size - 2
    PROVE  Spec => []ForwardLeadsBack
  <1>1. TypeOK /\ OneToOne => ForwardLeadsBack
    BY OneToOneLeadsBack DEF ForwardLeadsBack, Named
  <1> QED
    BY <1>1, OneToOneHolds, PTL

----------------------------------------------------------------------------
(* What clients keep, as long as the process lives.                        *)

LEMMA AnswersStep ==
    ASSUME TypeOK, AnswersCurrent, Events = {}, [Next]_vars
    PROVE  AnswersCurrent'
  <1>1. ASSUME NEW c \in Clients, NEW n \in Names, Query(c, n) PROVE AnswersCurrent'
    <2>1. /\ \A m \in Named : m \in Named' /\ nameToIP'[m] = nameToIP[m]
          /\ n \in Named'
      <3>1. CASE nameToIP[n] # NoAddress
        BY <1>1, <3>1 DEF Query, Named
      <3>2. CASE nameToIP[n] = NoAddress
        <4>1. Assign(n)
          BY <1>1, <3>2 DEF Query
        <4>2. nameToIP'[n] \in Given
          BY <4>1, TypeAssign
        <4> QED
          BY <4>1, <4>2, <3>2, AddressesAreIntegers DEF Assign, TypeOK, Named
      <3> QED
        BY <3>1, <3>2
    <2>2. SUFFICES ASSUME NEW d \in Clients, cache'[d] # NoAnswer
                   PROVE  /\ cache'[d].name \in Named'
                          /\ cache'[d].address = nameToIP'[cache'[d].name]
      BY DEF AnswersCurrent
    <2>3. CASE d = c
      BY <1>1, <2>1, <2>3 DEF Query, TypeOK
    <2>4. CASE d # c
      <3>1. cache'[d] = cache[d]
        BY <1>1, <2>4 DEF Query, TypeOK
      <3> QED
        BY <2>1, <2>2, <3>1 DEF AnswersCurrent
    <2> QED
      BY <2>3, <2>4
  <1>2. ASSUME NEW c \in Clients, Forget(c) PROVE AnswersCurrent'
    <2>1. UNCHANGED << nameToIP, ipToName, next >> /\ Named' = Named
      BY <1>2 DEF Forget, Named
    <2>2. \A d \in Clients : cache'[d] # NoAnswer => cache'[d] = cache[d]
      BY <1>2 DEF Forget, TypeOK
    <2> QED
      BY <2>1, <2>2 DEF AnswersCurrent
  <1>3. ~Restart
    BY DEF Restart
  <1>4. CASE UNCHANGED vars
    BY <1>4 DEF vars, Named, AnswersCurrent
  <1> QED
    BY <1>1, <1>2, <1>3, <1>4 DEF Next

(* "Maps domains through FakeIP" (NameReached): if moreover the process is *)
(* not restarted, then every connection to an answered address is routed   *)
(* by the name that was asked for.                                         *)
THEOREM NamesReached ==
    ASSUME Base = 0, Cardinality(Names) <= Size - 2, Events = {}
    PROVE  Spec => []NameReached
  <1>1. Init => AnswersCurrent
    BY DEF Init, AnswersCurrent
  <1>2. TypeOK /\ AnswersCurrent /\ [Next]_vars => AnswersCurrent'
    BY AnswersStep
  <1>3. TypeOK /\ OneToOne /\ AnswersCurrent => NameReached
    BY OneToOneLeadsBack DEF AnswersCurrent, NameReached
  <1> QED
    BY <1>1, <1>2, <1>3, OneToOneHolds, PTL DEF Spec

----------------------------------------------------------------------------
(* Sequences of any length.  A set of numbers that is not empty has a      *)
(* least element, which is the induction the lemmas below rest on.         *)

LEMMA Least ==
    ASSUME NEW T, T \subseteq Nat, T # {}
    PROVE  \E m \in T : \A n \in T : m <= n
<1>1. PICK m \in T : \A n \in T : << n, m >> \notin OpToRel(<, Nat)
  BY NatLessThanWellFounded, WFMin
<1>2. \A n \in T : n \in Nat /\ m \in Nat
  OBVIOUS
<1>3. \A n \in T : ~(n < m)
  BY <1>1, <1>2, Zenon DEF OpToRel
<1> QED BY <1>2, <1>3

\* And a last one, if there is a bound.
LEMMA Greatest ==
    ASSUME NEW T, NEW b \in Nat, T \subseteq 0..b, T # {}
    PROVE  \E m \in T : \A n \in T : n <= m
<1> DEFINE U == {b - n : n \in T}
<1>1. \A n \in T : n \in 0..b /\ b - n \in Nat
  OBVIOUS
<1>2. U \subseteq Nat /\ U # {}
  BY <1>1
<1>3. PICK u \in U : \A v \in U : u <= v
  BY <1>2, Least
<1>4. PICK m \in T : u = b - m
  BY <1>3
<1>5. \A n \in T : b - m <= b - n
  BY <1>3, <1>4
<1> QED BY <1>1, <1>5

\* x is the first, or the last, element of s that is in M; none is.
FirstOf(s, M, x) ==
    \E k \in DOMAIN s : s[k] = x /\ x \in M /\ \A l \in DOMAIN s : l < k => s[l] \notin M
LastOf(s, M, x) ==
    \E k \in DOMAIN s : s[k] = x /\ x \in M /\ \A l \in DOMAIN s : l > k => s[l] \notin M
NoneOf(s, M) == \A k \in DOMAIN s : s[k] \notin M

LEMMA NoneOfCat ==
    ASSUME NEW S, NEW s \in Seq(S), NEW t \in Seq(S), NEW M
    PROVE  NoneOf(s \o t, M) <=> NoneOf(s, M) /\ NoneOf(t, M)
<1>1. /\ s \o t \in Seq(S) /\ Len(s \o t) = Len(s) + Len(t)
      /\ \A i \in 1..Len(s) + Len(t) : (s \o t)[i] = IF i <= Len(s) THEN s[i] ELSE t[i - Len(s)]
  BY ConcatProperties
<1> DEFINE u == s \o t
<1> HIDE DEF u
<1>2. ASSUME NoneOf(u, M), NEW k \in DOMAIN s PROVE s[k] \notin M
  BY <1>1, <1>2 DEF NoneOf, u
<1>3. ASSUME NoneOf(u, M), NEW k \in DOMAIN t PROVE t[k] \notin M
  <2>1. Len(s) + k \in DOMAIN u /\ u[Len(s) + k] = t[k]
    BY <1>1 DEF u
  <2> QED BY <1>3, <2>1 DEF NoneOf
<1>4. ASSUME NoneOf(s, M), NoneOf(t, M), NEW k \in DOMAIN u PROVE u[k] \notin M
  BY <1>1, <1>4 DEF NoneOf, u
<1> QED BY <1>2, <1>3, <1>4 DEF NoneOf, u

LEMMA FirstOfCat ==
    ASSUME NEW S, NEW s \in Seq(S), NEW t \in Seq(S), NEW M, NEW x
    PROVE  FirstOf(s \o t, M, x) <=> FirstOf(s, M, x) \/ (NoneOf(s, M) /\ FirstOf(t, M, x))
<1> DEFINE u == s \o t
<1>1. /\ DOMAIN s = 1..Len(s) /\ DOMAIN t = 1..Len(t) /\ DOMAIN u = 1..Len(s) + Len(t)
      /\ Len(s) \in Nat /\ Len(t) \in Nat
      /\ \A i \in 1..Len(s) : u[i] = s[i]
      /\ \A i \in 1..Len(t) : u[Len(s) + i] = t[i]
      /\ \A i \in DOMAIN u : i > Len(s) => i - Len(s) \in 1..Len(t) /\ u[i] = t[i - Len(s)]
  BY ConcatProperties
<1> HIDE DEF u
<1>2. ASSUME FirstOf(u, M, x) PROVE FirstOf(s, M, x) \/ (NoneOf(s, M) /\ FirstOf(t, M, x))
  <2>1. PICK k \in DOMAIN u : u[k] = x /\ x \in M /\ \A l \in DOMAIN u : l < k => u[l] \notin M
    BY <1>2 DEF FirstOf
  <2>2. CASE k <= Len(s)
    BY <1>1, <2>1, <2>2 DEF FirstOf
  <2>3. CASE k > Len(s)
    <3>1. NoneOf(s, M)
      BY <1>1, <2>1, <2>3 DEF NoneOf
    <3>2. k - Len(s) \in DOMAIN t /\ t[k - Len(s)] = x
      BY <1>1, <2>1, <2>3
    <3>3. ASSUME NEW l \in DOMAIN t, l < k - Len(s) PROVE t[l] \notin M
      <4>1. Len(s) + l \in DOMAIN u /\ Len(s) + l < k /\ u[Len(s) + l] = t[l]
        BY <1>1, <3>3, <2>1
      <4> QED BY <2>1, <4>1
    <3> QED BY <2>1, <3>1, <3>2, <3>3 DEF FirstOf
  <2> QED BY <1>1, <2>1, <2>2, <2>3
<1>3. ASSUME FirstOf(s, M, x) PROVE FirstOf(u, M, x)
  <2>1. PICK k \in DOMAIN s : s[k] = x /\ x \in M /\ \A l \in DOMAIN s : l < k => s[l] \notin M
    BY <1>3 DEF FirstOf
  <2>2. k \in DOMAIN u /\ u[k] = x
    BY <1>1, <2>1
  <2>3. ASSUME NEW l \in DOMAIN u, l < k PROVE u[l] \notin M
    BY <1>1, <2>1, <2>3
  <2> QED BY <2>1, <2>2, <2>3 DEF FirstOf
<1>4. ASSUME NoneOf(s, M), FirstOf(t, M, x) PROVE FirstOf(u, M, x)
  <2>1. PICK k \in DOMAIN t : t[k] = x /\ x \in M /\ \A l \in DOMAIN t : l < k => t[l] \notin M
    BY <1>4 DEF FirstOf
  <2>2. Len(s) + k \in DOMAIN u /\ u[Len(s) + k] = x
    BY <1>1, <2>1
  <2>3. ASSUME NEW l \in DOMAIN u, l < Len(s) + k PROVE u[l] \notin M
    <3>1. CASE l <= Len(s)
      <4>1. l \in DOMAIN s /\ u[l] = s[l]
        BY <1>1, <3>1
      <4> QED BY <1>4, <4>1 DEF NoneOf
    <3>2. CASE l > Len(s)
      <4>1. l - Len(s) \in DOMAIN t /\ u[l] = t[l - Len(s)] /\ l - Len(s) < k
        BY <1>1, <2>3, <3>2
      <4> QED BY <2>1, <4>1
    <3> QED BY <1>1, <3>1, <3>2
  <2> QED BY <2>1, <2>2, <2>3 DEF FirstOf
<1> QED BY <1>2, <1>3, <1>4 DEF u

LEMMA LastOfCat ==
    ASSUME NEW S, NEW s \in Seq(S), NEW t \in Seq(S), NEW M, NEW x
    PROVE  LastOf(s \o t, M, x) <=> LastOf(t, M, x) \/ (NoneOf(t, M) /\ LastOf(s, M, x))
<1> DEFINE u == s \o t
<1>1. /\ DOMAIN s = 1..Len(s) /\ DOMAIN t = 1..Len(t) /\ DOMAIN u = 1..Len(s) + Len(t)
      /\ Len(s) \in Nat /\ Len(t) \in Nat
      /\ \A i \in 1..Len(s) : u[i] = s[i]
      /\ \A i \in 1..Len(t) : u[Len(s) + i] = t[i]
      /\ \A i \in DOMAIN u : i > Len(s) => i - Len(s) \in 1..Len(t) /\ u[i] = t[i - Len(s)]
  BY ConcatProperties
<1> HIDE DEF u
<1>2. ASSUME LastOf(u, M, x) PROVE LastOf(t, M, x) \/ (NoneOf(t, M) /\ LastOf(s, M, x))
  <2>1. PICK k \in DOMAIN u : u[k] = x /\ x \in M /\ \A l \in DOMAIN u : l > k => u[l] \notin M
    BY <1>2 DEF LastOf
  <2>2. ASSUME NEW l \in DOMAIN t, Len(s) + l > k PROVE t[l] \notin M
    <3>1. Len(s) + l \in DOMAIN u /\ u[Len(s) + l] = t[l]
      BY <1>1
    <3> QED BY <2>1, <2>2, <3>1
  <2>3. CASE k <= Len(s)
    <3>1. NoneOf(t, M)
      BY <1>1, <2>1, <2>2, <2>3 DEF NoneOf
    <3>2. k \in DOMAIN s /\ s[k] = x
      BY <1>1, <2>1, <2>3
    <3>3. ASSUME NEW l \in DOMAIN s, l > k PROVE s[l] \notin M
      BY <1>1, <2>1, <3>3
    <3> QED BY <2>1, <3>1, <3>2, <3>3 DEF LastOf
  <2>4. CASE k > Len(s)
    <3>1. k - Len(s) \in DOMAIN t /\ t[k - Len(s)] = x
      BY <1>1, <2>1, <2>4
    <3>2. ASSUME NEW l \in DOMAIN t, l > k - Len(s) PROVE t[l] \notin M
      BY <1>1, <2>1, <2>2, <3>2
    <3> QED BY <2>1, <3>1, <3>2 DEF LastOf
  <2> QED BY <1>1, <2>1, <2>3, <2>4
<1>3. ASSUME LastOf(t, M, x) PROVE LastOf(u, M, x)
  <2>1. PICK k \in DOMAIN t : t[k] = x /\ x \in M /\ \A l \in DOMAIN t : l > k => t[l] \notin M
    BY <1>3 DEF LastOf
  <2>2. Len(s) + k \in DOMAIN u /\ u[Len(s) + k] = x
    BY <1>1, <2>1
  <2>3. ASSUME NEW l \in DOMAIN u, l > Len(s) + k PROVE u[l] \notin M
    <3>1. l - Len(s) \in DOMAIN t /\ u[l] = t[l - Len(s)] /\ l - Len(s) > k
      BY <1>1, <2>1, <2>3
    <3> QED BY <2>1, <3>1
  <2> QED BY <2>1, <2>2, <2>3 DEF LastOf
<1>4. ASSUME NoneOf(t, M), LastOf(s, M, x) PROVE LastOf(u, M, x)
  <2>1. PICK k \in DOMAIN s : s[k] = x /\ x \in M /\ \A l \in DOMAIN s : l > k => s[l] \notin M
    BY <1>4 DEF LastOf
  <2>2. k \in DOMAIN u /\ u[k] = x
    BY <1>1, <2>1
  <2>3. ASSUME NEW l \in DOMAIN u, l > k PROVE u[l] \notin M
    <3>1. CASE l <= Len(s)
      BY <1>1, <2>1, <2>3, <3>1
    <3>2. CASE l > Len(s)
      BY <1>1, <1>4, <3>2 DEF NoneOf
    <3> QED BY <1>1, <3>1, <3>2
  <2> QED BY <2>1, <2>2, <2>3 DEF LastOf
<1> QED BY <1>2, <1>3, <1>4 DEF u

\* FlattenSeq joins sequences from the left.
IsFlat(f, ss, n) == f = [i \in 1..n |-> IF i = 1 THEN ss[i] ELSE f[i-1] \o ss[i]]

LEMMA FlatExists ==
    ASSUME NEW ss, NEW n \in Nat
    PROVE  \E f : IsFlat(f, ss, n)
<1> DEFINE T == {m \in Nat : ~\E f : IsFlat(f, ss, m)}
<1> SUFFICES ASSUME T # {} PROVE FALSE
  OBVIOUS
<1>1. PICK m \in T : \A k \in T : m <= k
  BY Least
<1>2. m # 0
  <2>1. IsFlat([i \in 1..0 |-> ss], ss, 0)
    BY DEF IsFlat
  <2> QED BY <1>1, <2>1
<1>3. PICK f : IsFlat(f, ss, m - 1)
  BY <1>1, <1>2
<1> DEFINE e == IF m = 1 THEN ss[m] ELSE f[m-1] \o ss[m]
           g == [i \in 1..m |-> IF i < m THEN f[i] ELSE e]
<1>4. m \in Nat /\ m >= 1
  BY <1>1, <1>2
<1>5. ASSUME NEW i \in 1..m PROVE g[i] = IF i = 1 THEN ss[i] ELSE g[i-1] \o ss[i]
  <2>1. CASE i = m
    <3>1. i # 1 => g[i-1] = f[m-1]
      BY <1>4, <2>1
    <3> QED BY <1>4, <2>1, <3>1
  <2>2. CASE i < m
    <3>1. g[i] = f[i] /\ (i # 1 => g[i-1] = f[i-1]) /\ i \in 1..m-1
      BY <1>4, <2>2
    <3>2. f[i] = IF i = 1 THEN ss[i] ELSE f[i-1] \o ss[i]
      BY <1>3, <3>1 DEF IsFlat
    <3> QED BY <3>1, <3>2
  <2> QED BY <1>4, <2>1, <2>2
<1>6. g = [i \in 1..m |-> g[i]]
  OBVIOUS
<1> HIDE DEF g
<1>7. IsFlat(g, ss, m)
  BY <1>5, <1>6 DEF IsFlat
<1> QED BY <1>1, <1>7

LEMMA FlattenForm ==
    ASSUME NEW S, NEW ss \in Seq(S), Len(ss) # 0
    PROVE  \E f : IsFlat(f, ss, Len(ss)) /\ R!FlattenSeq(ss) = f[Len(ss)]
<1>1. Len(ss) \in Nat
  OBVIOUS
<1>2. \E f : IsFlat(f, ss, Len(ss))
  BY <1>1, FlatExists
<1>3. R!FlattenSeq(ss) = (CHOOSE f : IsFlat(f, ss, Len(ss)))[Len(ss)]
  BY DEF R!FlattenSeq, IsFlat
<1> DEFINE f == CHOOSE f : IsFlat(f, ss, Len(ss))
<1>4. IsFlat(f, ss, Len(ss))
  BY <1>2
<1> QED BY <1>3, <1>4

\* x is the first, or the last, of all the elements of ss up to n in M.
FirstUpTo(ss, n, M, x) ==
    \E i \in 1..n : FirstOf(ss[i], M, x) /\ \A j \in 1..n : j < i => NoneOf(ss[j], M)
LastUpTo(ss, n, M, x) ==
    \E i \in 1..n : LastOf(ss[i], M, x) /\ \A j \in 1..n : j > i => NoneOf(ss[j], M)
NoneUpTo(ss, n, M) == \A i \in 1..n : NoneOf(ss[i], M)

\* t has the elements of ss up to n in their order.
Joins(t, S, ss, n, M) ==
    /\ t \in Seq(S)
    /\ NoneOf(t, M) <=> NoneUpTo(ss, n, M)
    /\ \A x : FirstOf(t, M, x) <=> FirstUpTo(ss, n, M, x)
    /\ \A x : LastOf(t, M, x) <=> LastUpTo(ss, n, M, x)

LEMMA FlatFirst ==
    ASSUME NEW S, NEW ss \in Seq(Seq(S)), NEW M, Len(ss) # 0
    PROVE  Joins(ss[1], S, ss, 1, M)
<1>1. ss[1] \in Seq(S)
  OBVIOUS
<1>2. \A i \in 1..1 : i = 1
  OBVIOUS
<1> QED BY <1>1, <1>2 DEF Joins, NoneUpTo, FirstUpTo, LastUpTo

LEMMA FlatNext ==
    ASSUME NEW S, NEW ss \in Seq(Seq(S)), NEW M, NEW n \in 1..Len(ss) - 1,
           NEW t, Joins(t, S, ss, n, M)
    PROVE  Joins(t \o ss[n + 1], S, ss, n + 1, M)
<1> DEFINE s == ss[n + 1]
<1>1. s \in Seq(S) /\ t \in Seq(S) /\ n \in Nat /\ n >= 1
  BY DEF Joins
<1>2. t \o s \in Seq(S)
  BY <1>1, ConcatProperties
<1>3. \A i : i \in 1..n + 1 <=> i \in 1..n \/ i = n + 1
  BY <1>1
<1>4. \A i \in 1..n : i < n + 1 /\ ~(i > n + 1) /\ ~(n + 1 < i) /\ n + 1 > i
  BY <1>1
<1> HIDE DEF s
<1>5. NoneOf(t \o s, M) <=> NoneUpTo(ss, n + 1, M)
  <2>1. NoneOf(t \o s, M) <=> NoneUpTo(ss, n, M) /\ NoneOf(s, M)
    BY <1>1, NoneOfCat DEF Joins
  <2> QED BY <1>3, <2>1 DEF NoneUpTo, s
<1>6. ASSUME NEW x PROVE FirstOf(t \o s, M, x) <=> FirstUpTo(ss, n + 1, M, x)
  <2>1. FirstOf(t \o s, M, x) <=> FirstUpTo(ss, n, M, x) \/ (NoneUpTo(ss, n, M) /\ FirstOf(s, M, x))
    BY <1>1, FirstOfCat DEF Joins
  <2>2. ASSUME FirstUpTo(ss, n, M, x) PROVE FirstUpTo(ss, n + 1, M, x)
    BY <1>3, <1>4, <2>2 DEF FirstUpTo
  <2>3. ASSUME NoneUpTo(ss, n, M), FirstOf(s, M, x) PROVE FirstUpTo(ss, n + 1, M, x)
    BY <1>1, <1>3, <2>3 DEF FirstUpTo, NoneUpTo, s
  <2>4. ASSUME FirstUpTo(ss, n + 1, M, x)
        PROVE  FirstUpTo(ss, n, M, x) \/ (NoneUpTo(ss, n, M) /\ FirstOf(s, M, x))
    <3>1. PICK i \in 1..n + 1 : FirstOf(ss[i], M, x) /\ \A j \in 1..n + 1 : j < i => NoneOf(ss[j], M)
      BY <2>4 DEF FirstUpTo
    <3>2. CASE i = n + 1
      BY <1>3, <1>4, <3>1, <3>2 DEF NoneUpTo, s
    <3>3. CASE i \in 1..n
      BY <1>3, <3>1, <3>3 DEF FirstUpTo
    <3> QED BY <1>3, <3>2, <3>3
  <2> QED BY <2>1, <2>2, <2>3, <2>4
<1>7. ASSUME NEW x PROVE LastOf(t \o s, M, x) <=> LastUpTo(ss, n + 1, M, x)
  <2>1. LastOf(t \o s, M, x) <=> LastOf(s, M, x) \/ (NoneOf(s, M) /\ LastUpTo(ss, n, M, x))
    BY <1>1, LastOfCat DEF Joins
  <2>2. ASSUME LastOf(s, M, x) PROVE LastUpTo(ss, n + 1, M, x)
    BY <1>1, <1>3, <1>4, <2>2 DEF LastUpTo, s
  <2>3. ASSUME NoneOf(s, M), LastUpTo(ss, n, M, x) PROVE LastUpTo(ss, n + 1, M, x)
    <3>1. PICK i \in 1..n : LastOf(ss[i], M, x) /\ \A j \in 1..n : j > i => NoneOf(ss[j], M)
      BY <2>3 DEF LastUpTo
    <3>2. \A j \in 1..n + 1 : j > i => NoneOf(ss[j], M)
      BY <1>3, <2>3, <3>1 DEF s
    <3> QED BY <1>3, <3>1, <3>2 DEF LastUpTo
  <2>4. ASSUME LastUpTo(ss, n + 1, M, x)
        PROVE  LastOf(s, M, x) \/ (NoneOf(s, M) /\ LastUpTo(ss, n, M, x))
    <3>1. PICK i \in 1..n + 1 : LastOf(ss[i], M, x) /\ \A j \in 1..n + 1 : j > i => NoneOf(ss[j], M)
      BY <2>4 DEF LastUpTo
    <3>2. CASE i = n + 1
      BY <3>1, <3>2 DEF s
    <3>3. CASE i \in 1..n
      BY <1>1, <1>3, <1>4, <3>1, <3>3 DEF LastUpTo, s
    <3> QED BY <1>3, <3>2, <3>3
  <2> QED BY <2>1, <2>2, <2>3, <2>4
<1> QED BY <1>2, <1>5, <1>6, <1>7 DEF Joins, s

\* What FlattenSeq returns, for sequences of any length.
LEMMA FlattenJoins ==
    ASSUME NEW S, NEW ss \in Seq(Seq(S)), NEW M
    PROVE  Joins(R!FlattenSeq(ss), S, ss, Len(ss), M)
<1>1. CASE Len(ss) = 0
  <2>1. R!FlattenSeq(ss) = << >>
    BY <1>1, EmptySeq DEF R!FlattenSeq
  <2> QED BY <1>1, <2>1 DEF Joins, NoneUpTo, FirstUpTo, LastUpTo, NoneOf, FirstOf, LastOf
<1>2. CASE Len(ss) # 0
  <2>1. PICK f : IsFlat(f, ss, Len(ss)) /\ R!FlattenSeq(ss) = f[Len(ss)]
    BY <1>2, FlattenForm
  <2> DEFINE T == {n \in Nat : n \in 1..Len(ss) /\ ~Joins(f[n], S, ss, n, M)}
  <2>2. CASE T = {}
    <3>1. Len(ss) \in 1..Len(ss)
      BY <1>2
    <3> QED BY <2>1, <2>2, <3>1
  <2>3. CASE T # {}
    <3>1. PICK n \in T : \A k \in T : n <= k
      BY <2>3, Least
    <3>2. CASE n = 1
      <4>1. f[n] = ss[1]
        BY <1>2, <2>1, <3>1, <3>2 DEF IsFlat
      <4> QED BY <1>2, <3>1, <3>2, <4>1, FlatFirst
    <3>3. CASE n # 1
      <4>1. n - 1 \in 1..Len(ss) - 1 /\ n - 1 \in Nat /\ n - 1 \in 1..Len(ss) /\ n = (n - 1) + 1
        BY <3>1, <3>3
      <4>2. Joins(f[n - 1], S, ss, n - 1, M)
        BY <3>1, <4>1
      <4>3. f[n] = f[n - 1] \o ss[n]
        BY <2>1, <3>1, <3>3 DEF IsFlat
      <4>4. Joins(f[n - 1] \o ss[(n - 1) + 1], S, ss, (n - 1) + 1, M)
        BY <4>1, <4>2, FlatNext
      <4> QED BY <3>1, <4>1, <4>3, <4>4
    <3> QED BY <3>2, <3>3
  <2> QED BY <2>2, <2>3
<1> QED BY <1>1, <1>2

----------------------------------------------------------------------------
(* The compiled rules.                                                     *)

\* ss is what the passes of a loop over n elements append: x[i] if i is in K.
Passes(ss, n, K, x, S) ==
    /\ ss = [i \in 1..n |-> ss[i]]
    /\ \A i \in 1..n : ss[i] = IF i \in K THEN << x[i] >> ELSE << >>
    /\ \A i \in 1..n : i \in K => x[i] \in S

\* t is what the loop leaves.
Looped(t, n, K, x, S, M) ==
    /\ t \in Seq(S)
    /\ NoneOf(t, M) <=> \A i \in 1..n : i \in K => x[i] \notin M
    /\ \A y : FirstOf(t, M, y) =>
          \E i \in 1..n : /\ i \in K /\ y = x[i] /\ y \in M
                          /\ \A j \in 1..n : j < i /\ j \in K => x[j] \notin M
    /\ \A y : LastOf(t, M, y) =>
          \E i \in 1..n : /\ i \in K /\ y = x[i] /\ y \in M
                          /\ \A j \in 1..n : j > i /\ j \in K => x[j] \notin M

LEMMA Loop ==
    ASSUME NEW S, NEW M, NEW n \in Nat, NEW K, NEW x, NEW ss, Passes(ss, n, K, x, S)
    PROVE  Looped(R!FlattenSeq(ss), n, K, x, S, M)
<1>1. ASSUME NEW i \in 1..n PROVE ss[i] \in Seq(S)
  <2>1. CASE i \in K
    <3>1. ss[i] = << x[i] >> /\ x[i] \in S
      BY <2>1 DEF Passes
    <3> QED BY <3>1
  <2>2. CASE i \notin K
    <3>1. ss[i] = << >>
      BY <2>2 DEF Passes
    <3> QED BY <3>1, EmptySeq
  <2> QED BY <2>1, <2>2
<1>2. ss \in Seq(Seq(S)) /\ Len(ss) = n
  BY <1>1, IsASeq DEF Passes
<1>3. ASSUME NEW i \in 1..n
      PROVE  /\ NoneOf(ss[i], M) <=> (i \in K => x[i] \notin M)
             /\ \A y : FirstOf(ss[i], M, y) => i \in K /\ y = x[i] /\ y \in M
             /\ \A y : LastOf(ss[i], M, y) => i \in K /\ y = x[i] /\ y \in M
  <2>1. CASE i \in K
    <3>1. ss[i] = << x[i] >>
      BY <2>1 DEF Passes
    <3>2. DOMAIN ss[i] = {1} /\ ss[i][1] = x[i]
      BY <3>1
    <3> QED BY <2>1, <3>2 DEF NoneOf, FirstOf, LastOf
  <2>2. CASE i \notin K
    <3>1. ss[i] = << >>
      BY <2>2 DEF Passes
    <3>2. DOMAIN ss[i] = {}
      BY <3>1
    <3> QED BY <2>2, <3>2 DEF NoneOf, FirstOf, LastOf
  <2> QED BY <2>1, <2>2
<1>4. Joins(R!FlattenSeq(ss), S, ss, n, M)
  BY <1>2, FlattenJoins
<1> DEFINE t == R!FlattenSeq(ss)
<1> HIDE DEF t
<1>5. NoneOf(t, M) <=> \A i \in 1..n : i \in K => x[i] \notin M
  BY <1>3, <1>4 DEF Joins, NoneUpTo, t
<1>6. ASSUME NEW y, FirstOf(t, M, y)
      PROVE  \E i \in 1..n : /\ i \in K /\ y = x[i] /\ y \in M
                             /\ \A j \in 1..n : j < i /\ j \in K => x[j] \notin M
  <2>1. PICK i \in 1..n : FirstOf(ss[i], M, y) /\ \A j \in 1..n : j < i => NoneOf(ss[j], M)
    BY <1>4, <1>6 DEF Joins, FirstUpTo, t
  <2> QED BY <1>3, <2>1
<1>7. ASSUME NEW y, LastOf(t, M, y)
      PROVE  \E i \in 1..n : /\ i \in K /\ y = x[i] /\ y \in M
                             /\ \A j \in 1..n : j > i /\ j \in K => x[j] \notin M
  <2>1. PICK i \in 1..n : LastOf(ss[i], M, y) /\ \A j \in 1..n : j > i => NoneOf(ss[j], M)
    BY <1>4, <1>7 DEF Joins, LastUpTo, t
  <2> QED BY <1>3, <2>1
<1> QED BY <1>4, <1>5, <1>6, <1>7 DEF Joins, Looped, t

Matching(d) == {r \in R!Rules : R!Match(r, d)}

LEMMA ListRulesForm ==
    ASSUME NEW list \in Seq(R!Values), NEW action \in R!Actions, NEW d
    PROVE  LET t == R!listRules(list, action) IN
           /\ t \in Seq(R!Rules)
           /\ NoneOf(t, Matching(d)) <=> ~R!ListSays(list, d)
           /\ \A y : FirstOf(t, Matching(d), y) => y.action = action
<1> DEFINE n == Len(list)
           K == {i \in 1..n : R!geositeCode(list[i]) = R!NoName}
           x == [i \in 1..n |-> R!Rule(action, "suffix", list[i])]
           ss == [i \in 1..n |-> IF i \in K THEN << x[i] >> ELSE << >>]
<1>1. n \in Nat /\ DOMAIN list = 1..n /\ \A i \in 1..n : list[i] \in R!Values
  OBVIOUS
<1>2. R!listRules(list, action) = R!FlattenSeq(ss)
  BY <1>1 DEF R!listRules, R!Append1
<1>3. ASSUME NEW i \in 1..n
      PROVE  /\ x[i] \in R!Rules /\ x[i].action = action
             /\ x[i].type = "suffix" /\ x[i].value = list[i]
  <2>1. list[i] \in R!Values /\ action \in R!Actions \cup {""}
    BY <1>1
  <2>2. R!Rule(action, "suffix", list[i]) \in R!Rules
    BY <2>1 DEF R!Rule, R!Rules, R!Types, R!SuffixTypes
  <2> QED BY <2>2 DEF R!Rule
<1>4. ASSUME NEW i \in 1..n
      PROVE  x[i] \in Matching(d) <=> list[i].form # "geosite" /\ R!IsSuffix(list[i].labels, d)
  BY <1>3 DEF Matching, R!Match, R!SuffixTypes
<1>5. \A i \in 1..n : i \in K <=> R!geositeCode(list[i]) = R!NoName
  OBVIOUS
<1>6. R!ListSays(list, d) <=> \E i \in 1..n : i \in K /\ x[i] \in Matching(d)
  BY <1>1, <1>4, <1>5 DEF R!ListSays
<1>7. Passes(ss, n, K, x, R!Rules)
  BY <1>3 DEF Passes
<1> HIDE DEF x, K, n, ss
<1>8. Looped(R!FlattenSeq(ss), n, K, x, R!Rules, Matching(d))
  BY <1>1, <1>7, Loop
<1> QED BY <1>2, <1>3, <1>6, <1>8 DEF Looped

\* The lists and rules of a section.
Known ==
    /\ cfg.direct \in Seq(R!Values) /\ cfg.proxy \in Seq(R!Values) /\ cfg.block \in Seq(R!Values)
    /\ cfg.rules \in Seq(R!Rules)

LEMMA ActionForm ==
    ASSUME NEW r \in R!Rules, NEW a \in R!Actions, NEW d
    PROVE  LET y == [r EXCEPT !.action = a] IN
           /\ y \in R!Rules /\ y.action = a
           /\ R!Match(y, d) <=> R!Match(r, d)
<1> DEFINE y == [r EXCEPT !.action = a]
<1>1. y \in R!Rules /\ y.action = a /\ y.type = r.type /\ y.value = r.value
  BY DEF R!Rules
<1> HIDE DEF y
<1>2. R!Match(y, d) <=> R!Match(r, d)
  BY <1>1 DEF R!Match
<1> QED BY <1>1, <1>2 DEF y

LEMMA NormalForm ==
    ASSUME NEW a \in R!Actions \cup {""}
    PROVE  R!normalizeAction(a) \in R!Actions
  BY DEF R!normalizeAction, R!Actions

LEMMA OwnRulesForm ==
    ASSUME Known, NEW d
    PROVE  LET t == R!ownRules(cfg.rules)
               says == {i \in DOMAIN cfg.rules : R!RuleSays(d, i)} IN
           /\ t \in Seq(R!Rules)
           /\ NoneOf(t, Matching(d)) <=> says = {}
           /\ \A y : FirstOf(t, Matching(d), y) =>
                 \E i \in says : /\ \A j \in says : i <= j
                                 /\ y.action = R!normalizeAction(cfg.rules[i].action)
<1> DEFINE rules == cfg.rules
           says == {i \in DOMAIN cfg.rules : R!RuleSays(d, i)}
           n == Len(rules)
           K == {i \in 1..n : ~R!isGeositeRule(rules[i])}
           x == [i \in 1..n |-> [rules[i] EXCEPT !.action = R!normalizeAction(rules[i].action)]]
           ss == [i \in 1..n |-> IF i \in K THEN << x[i] >> ELSE << >>]
<1>1. n \in Nat /\ DOMAIN rules = 1..n /\ \A i \in 1..n : rules[i] \in R!Rules
  BY DEF Known
<1>2. R!ownRules(rules) = R!FlattenSeq(ss)
  BY <1>1 DEF R!ownRules, R!Append1
<1>3. ASSUME NEW i \in 1..n
      PROVE  /\ x[i] \in R!Rules /\ x[i].action = R!normalizeAction(rules[i].action)
             /\ R!Match(x[i], d) <=> R!Match(rules[i], d)
  <2>1. R!normalizeAction(rules[i].action) \in R!Actions
    BY <1>1, NormalForm DEF R!Rules
  <2> QED BY <1>1, <2>1, ActionForm
<1>4. ASSUME NEW i \in 1..n
      PROVE  i \in says <=> i \in K /\ x[i] \in Matching(d)
  BY <1>1, <1>3 DEF Matching, R!RuleSays
<1>5. Passes(ss, n, K, x, R!Rules)
  BY <1>3 DEF Passes
<1>6. says \subseteq 1..n
  BY <1>1
<1> HIDE DEF x, K, n, ss, says, rules
<1>7. Looped(R!FlattenSeq(ss), n, K, x, R!Rules, Matching(d))
  BY <1>1, <1>5, Loop
<1>8. NoneOf(R!FlattenSeq(ss), Matching(d)) <=> says = {}
  BY <1>4, <1>6, <1>7 DEF Looped
<1>9. ASSUME NEW y, FirstOf(R!FlattenSeq(ss), Matching(d), y)
      PROVE  \E i \in says : /\ \A j \in says : i <= j
                             /\ y.action = R!normalizeAction(rules[i].action)
  <2>1. PICK i \in 1..n : /\ i \in K /\ y = x[i] /\ y \in Matching(d)
                          /\ \A j \in 1..n : j < i /\ j \in K => x[j] \notin Matching(d)
    BY <1>7, <1>9 DEF Looped
  <2>2. i \in says /\ \A j \in says : ~(j < i) /\ j \in 1..n
    BY <1>4, <1>6, <2>1
  <2>3. \A j \in says : i <= j
    BY <2>2
  <2> QED BY <1>3, <2>1, <2>2, <2>3
<1> QED BY <1>2, <1>7, <1>8, <1>9 DEF Looped, says, rules

----------------------------------------------------------------------------
(* What is said about a site.                                              *)

CodeNames == Seq(STRING) \cup {<< t >> : t \in R!Types}
Codes == [code : CodeNames, action : R!Actions]
About(code) == {s \in Codes : s.code = code}

LEMMA CodeForm ==
    ASSUME NEW v \in R!Values
    PROVE  R!geositeCode(v) \in CodeNames
<1>1. v.labels \in Seq(STRING)
  BY DEF R!Values
<1>2. R!NoName \in Seq(STRING)
  BY EmptySeq DEF R!NoName
<1> QED BY <1>1, <1>2 DEF R!geositeCode, CodeNames

LEMMA RuleCodeForm ==
    ASSUME NEW r \in R!Rules
    PROVE  R!ruleCode(r) \in CodeNames
<1>1. r.type \in R!Types /\ r.value \in R!Values
  BY DEF R!Rules
<1> QED BY <1>1, CodeForm DEF R!ruleCode, CodeNames

LEMMA ListCodesForm ==
    ASSUME NEW list \in Seq(R!Values), NEW action \in R!Actions, NEW code
    PROVE  LET t == R!listCodes(list, action) IN
           /\ t \in Seq(Codes)
           /\ NoneOf(t, About(code)) <=> code = R!NoName \/ ~R!Named(list, code)
           /\ \A y : LastOf(t, About(code), y) => y.action = action
<1> DEFINE n == Len(list)
           K == {i \in 1..n : R!geositeCode(list[i]) # R!NoName}
           x == [i \in 1..n |-> [code |-> R!geositeCode(list[i]), action |-> action]]
           ss == [i \in 1..n |-> IF i \in K THEN << x[i] >> ELSE << >>]
<1>1. n \in Nat /\ DOMAIN list = 1..n /\ \A i \in 1..n : list[i] \in R!Values
  OBVIOUS
<1>2. R!listCodes(list, action) = R!FlattenSeq(ss)
  BY <1>1 DEF R!listCodes, R!Append1
<1>3. ASSUME NEW i \in 1..n
      PROVE  x[i] \in Codes /\ x[i].action = action /\ x[i].code = R!geositeCode(list[i])
  BY <1>1, CodeForm DEF Codes
<1>4. code # R!NoName /\ R!Named(list, code) <=> \E i \in 1..n : i \in K /\ x[i] \in About(code)
  BY <1>1, <1>3 DEF R!Named, About
<1>5. Passes(ss, n, K, x, Codes)
  BY <1>3 DEF Passes
<1> HIDE DEF x, K, n, ss
<1>6. Looped(R!FlattenSeq(ss), n, K, x, Codes, About(code))
  BY <1>1, <1>5, Loop
<1> QED BY <1>2, <1>3, <1>4, <1>6 DEF Looped

LEMMA OwnCodesForm ==
    ASSUME Known, NEW code
    PROVE  LET t == R!ownCodes(cfg.rules) IN
           /\ t \in Seq(Codes)
           /\ NoneOf(t, About(code)) <=> code = R!NoName \/ R!RulesOn(code) = {}
           /\ \A y : LastOf(t, About(code), y) => code # R!NoName /\
                 \E i \in R!RulesOn(code) : /\ \A j \in R!RulesOn(code) : j <= i
                                            /\ y.action = R!normalizeAction(cfg.rules[i].action)
<1> DEFINE rules == cfg.rules
           on == {i \in R!RulesOn(code) : code # R!NoName}
           n == Len(rules)
           K == {i \in 1..n : R!isGeositeRule(rules[i]) /\ R!ruleCode(rules[i]) # R!NoName}
           x == [i \in 1..n |-> [code |-> R!ruleCode(rules[i]),
                                 action |-> R!normalizeAction(rules[i].action)]]
           ss == [i \in 1..n |-> IF i \in K THEN << x[i] >> ELSE << >>]
<1>1. n \in Nat /\ DOMAIN rules = 1..n /\ \A i \in 1..n : rules[i] \in R!Rules
  BY DEF Known
<1>2. R!ownCodes(rules) = R!FlattenSeq(ss)
  BY <1>1 DEF R!ownCodes, R!Append1
<1>3. ASSUME NEW i \in 1..n
      PROVE  /\ x[i] \in Codes /\ x[i].action = R!normalizeAction(rules[i].action)
             /\ x[i].code = R!ruleCode(rules[i])
  <2>1. rules[i].action \in R!Actions \cup {""} /\ rules[i] \in R!Rules
    BY <1>1 DEF R!Rules
  <2>2. R!normalizeAction(rules[i].action) \in R!Actions /\ R!ruleCode(rules[i]) \in CodeNames
    BY <2>1, NormalForm, RuleCodeForm
  <2> QED BY <2>2 DEF Codes
<1>4. ASSUME NEW i \in 1..n
      PROVE  i \in on <=> i \in K /\ x[i] \in About(code)
  BY <1>1, <1>3 DEF About, R!RulesOn
<1>5. Passes(ss, n, K, x, Codes)
  BY <1>3 DEF Passes
<1>6. on \subseteq 1..n
  BY <1>1 DEF R!RulesOn
<1> HIDE DEF x, K, n, ss, on, rules
<1>7. Looped(R!FlattenSeq(ss), n, K, x, Codes, About(code))
  BY <1>1, <1>5, Loop
<1>8. NoneOf(R!FlattenSeq(ss), About(code)) <=> on = {}
  BY <1>4, <1>6, <1>7 DEF Looped
<1>9. ASSUME NEW y, LastOf(R!FlattenSeq(ss), About(code), y)
      PROVE  \E i \in on : /\ \A j \in on : j <= i
                           /\ y.action = R!normalizeAction(rules[i].action)
  <2>1. PICK i \in 1..n : /\ i \in K /\ y = x[i] /\ y \in About(code)
                          /\ \A j \in 1..n : j > i /\ j \in K => x[j] \notin About(code)
    BY <1>7, <1>9 DEF Looped
  <2>2. i \in on /\ \A j \in on : ~(j > i) /\ j \in 1..n
    BY <1>4, <1>6, <2>1
  <2>3. \A j \in on : j <= i
    BY <2>2
  <2> QED BY <1>3, <2>1, <2>2, <2>3
<1>10. on = {} <=> code = R!NoName \/ R!RulesOn(code) = {}
  BY DEF on
<1>11. on # {} => code # R!NoName /\ on = R!RulesOn(code)
  BY DEF on
<1> QED BY <1>2, <1>7, <1>8, <1>9, <1>10, <1>11 DEF Looped, rules

\* The last thing said about a code is its action in the map.
LEMMA SiteActionsForm ==
    ASSUME Known, NEW code
    PROVE  LET said == R!siteActions(cfg) IN
           /\ said \in Seq(Codes)
           /\ NoneOf(said, About(code)) => \A b : ~R!SiteSays(code, b)
           /\ \A y : LastOf(said, About(code), y) => R!SiteSays(code, y.action)
<1> DEFINE M == About(code)
           a == R!listCodes(cfg.direct, "direct")
           b == R!listCodes(cfg.proxy, "proxy")
           c == R!listCodes(cfg.block, "block")
           e == R!ownCodes(cfg.rules)
<1>1. R!siteActions(cfg) = ((a \o b) \o c) \o e
  BY DEF R!siteActions
<1>2. "direct" \in R!Actions /\ "proxy" \in R!Actions /\ "block" \in R!Actions
  BY DEF R!Actions
<1>3. /\ a \in Seq(Codes)
      /\ NoneOf(a, M) <=> code = R!NoName \/ ~R!Named(cfg.direct, code)
      /\ \A y : LastOf(a, M, y) => y.action = "direct"
  BY <1>2, ListCodesForm DEF Known
<1>4. /\ b \in Seq(Codes)
      /\ NoneOf(b, M) <=> code = R!NoName \/ ~R!Named(cfg.proxy, code)
      /\ \A y : LastOf(b, M, y) => y.action = "proxy"
  BY <1>2, ListCodesForm DEF Known
<1>5. /\ c \in Seq(Codes)
      /\ NoneOf(c, M) <=> code = R!NoName \/ ~R!Named(cfg.block, code)
      /\ \A y : LastOf(c, M, y) => y.action = "block"
  BY <1>2, ListCodesForm DEF Known
<1>6. /\ e \in Seq(Codes)
      /\ NoneOf(e, M) <=> code = R!NoName \/ R!RulesOn(code) = {}
      /\ \A y : LastOf(e, M, y) => code # R!NoName /\
            \E i \in R!RulesOn(code) : /\ \A j \in R!RulesOn(code) : j <= i
                                       /\ y.action = R!normalizeAction(cfg.rules[i].action)
  BY OwnCodesForm
<1>7. ASSUME NEW y, LastOf(a, M, y) PROVE ~NoneOf(a, M)
  BY <1>7 DEF LastOf, NoneOf
<1>8. ASSUME NEW y, LastOf(b, M, y) PROVE ~NoneOf(b, M)
  BY <1>8 DEF LastOf, NoneOf
<1>9. ASSUME NEW y, LastOf(c, M, y) PROVE ~NoneOf(c, M)
  BY <1>9 DEF LastOf, NoneOf
<1> HIDE DEF a, b, c, e, M
<1>10. a \o b \in Seq(Codes) /\ (a \o b) \o c \in Seq(Codes) /\ ((a \o b) \o c) \o e \in Seq(Codes)
  BY <1>3, <1>4, <1>5, <1>6, ConcatProperties
<1>11. NoneOf(((a \o b) \o c) \o e, M) <=> NoneOf(a, M) /\ NoneOf(b, M) /\ NoneOf(c, M) /\ NoneOf(e, M)
  <2>1. NoneOf(a \o b, M) <=> NoneOf(a, M) /\ NoneOf(b, M)
    BY <1>3, <1>4, NoneOfCat
  <2>2. NoneOf((a \o b) \o c, M) <=> NoneOf(a \o b, M) /\ NoneOf(c, M)
    BY <1>5, <1>10, NoneOfCat
  <2>3. NoneOf(((a \o b) \o c) \o e, M) <=> NoneOf((a \o b) \o c, M) /\ NoneOf(e, M)
    BY <1>6, <1>10, NoneOfCat
  <2> QED BY <2>1, <2>2, <2>3
<1>12. ASSUME NEW y, LastOf(((a \o b) \o c) \o e, M, y)
       PROVE  \/ LastOf(e, M, y)
              \/ NoneOf(e, M) /\ LastOf(c, M, y)
              \/ NoneOf(e, M) /\ NoneOf(c, M) /\ LastOf(b, M, y)
              \/ NoneOf(e, M) /\ NoneOf(c, M) /\ NoneOf(b, M) /\ LastOf(a, M, y)
  <2>1. LastOf(e, M, y) \/ (NoneOf(e, M) /\ LastOf((a \o b) \o c, M, y))
    BY <1>6, <1>10, <1>12, LastOfCat
  <2>2. LastOf((a \o b) \o c, M, y) => LastOf(c, M, y) \/ (NoneOf(c, M) /\ LastOf(a \o b, M, y))
    BY <1>5, <1>10, LastOfCat
  <2>3. LastOf(a \o b, M, y) => LastOf(b, M, y) \/ (NoneOf(b, M) /\ LastOf(a, M, y))
    BY <1>3, <1>4, LastOfCat
  <2> QED BY <2>1, <2>2, <2>3
<1>13. NoneOf(((a \o b) \o c) \o e, M) => \A w : ~R!SiteSays(code, w)
  BY <1>3, <1>4, <1>5, <1>6, <1>11 DEF R!SiteSays
<1>14. ASSUME NEW y, LastOf(((a \o b) \o c) \o e, M, y) PROVE R!SiteSays(code, y.action)
  BY <1>3, <1>4, <1>5, <1>6, <1>7, <1>8, <1>9, <1>12, <1>14 DEF R!SiteSays
<1> QED BY <1>1, <1>10, <1>13, <1>14 DEF M

LEMMA SaysAction ==
    ASSUME Known, NEW code, NEW b, R!SiteSays(code, b)
    PROVE  b \in R!Actions
<1>1. CASE b \in {"block", "proxy", "direct"}
  BY <1>1 DEF R!Actions
<1>2. ASSUME NEW i \in R!RulesOn(code), b = R!normalizeAction(cfg.rules[i].action)
      PROVE  b \in R!Actions
  <2>1. i \in DOMAIN cfg.rules
    BY DEF R!RulesOn
  <2>2. cfg.rules[i] \in R!Rules
    BY <2>1 DEF Known
  <2> QED BY <1>2, <2>2, NormalForm DEF R!Rules
<1> QED BY <1>1, <1>2 DEF R!SiteSays

LEMMA LastSaidForm ==
    ASSUME Known, NEW code
    PROVE  LET said == R!siteActions(cfg)
               l == R!LastSaid(cfg, code) IN
           /\ l = 0 <=> NoneOf(said, About(code))
           /\ l # 0 => LastOf(said, About(code), said[l])
<1> DEFINE said == R!siteActions(cfg)
           T == {i \in 1..Len(said) : said[i].code = code}
<1>1. said \in Seq(Codes)
  BY SiteActionsForm
<1>2. R!LastSaid(cfg, code) = IF T # {} THEN R!Max(T) ELSE 0
  BY DEF R!LastSaid, R!SelectLastInSeq
<1> HIDE DEF said
<1>3. \A i \in 1..Len(said) : said[i] \in About(code) <=> i \in T
  BY <1>1 DEF About
<1>4. DOMAIN said = 1..Len(said) /\ Len(said) \in Nat
  BY <1>1
<1>5. T = {} <=> NoneOf(said, About(code))
  BY <1>3, <1>4 DEF NoneOf
<1>6. T \subseteq 0..Len(said) /\ T \subseteq DOMAIN said
  BY <1>4
<1>7. ASSUME T # {} PROVE R!Max(T) # 0 /\ LastOf(said, About(code), said[R!Max(T)])
  <2>1. \E m \in T : \A n \in T : n <= m
    <3> HIDE DEF T
    <3> QED BY <1>4, <1>6, <1>7, Greatest
  <2>2. PICK m \in T : \A n \in T : n <= m
    BY <2>1
  <2>3. \A n \in T : n \in Nat /\ n # 0
    BY <1>4
  <2>4. \A n \in T : m >= n
    BY <2>2, <2>3
  <2>5. R!Max(T) \in T /\ \A n \in T : R!Max(T) >= n
    <3> HIDE DEF T
    <3> QED BY <2>4 DEF R!Max
  <2>6. \A i \in DOMAIN said : i > R!Max(T) => i \notin T
    <3> HIDE DEF T
    <3> QED BY <1>4, <2>3, <2>5
  <2> QED BY <1>3, <1>4, <2>3, <2>5, <2>6 DEF LastOf
<1> HIDE DEF T
<1> QED BY <1>2, <1>5, <1>7 DEF said

\* The rules of one site.
SiteType == [code : Seq(STRING), domains : Seq(R!Rules)]
SiteOn(site, d) == R!InSite(site, d) /\ \E b \in R!Actions : R!SiteSays(site.code, b)

LEMMA RulesOfForm ==
    ASSUME Known, NEW site \in SiteType, NEW d
    PROVE  LET t == R!rulesOf(cfg, site) IN
           /\ t \in Seq(R!Rules)
           /\ NoneOf(t, Matching(d)) <=> ~SiteOn(site, d)
           /\ \A y : FirstOf(t, Matching(d), y) => R!SiteSays(site.code, y.action)
<1> DEFINE said == R!siteActions(cfg)
           l == R!LastSaid(cfg, site.code)
           t == R!rulesOf(cfg, site)
<1>1. /\ l = 0 <=> NoneOf(said, About(site.code))
      /\ l # 0 => LastOf(said, About(site.code), said[l])
  BY LastSaidForm
<1>2. CASE l = 0
  <2>1. t = << >>
    BY <1>2 DEF R!rulesOf
  <2>2. ~\E b \in R!Actions : R!SiteSays(site.code, b)
    BY <1>1, <1>2, SiteActionsForm
  <2>3. t \in Seq(R!Rules) /\ DOMAIN t = {}
    BY <2>1, EmptySeq
  <2> QED BY <2>2, <2>3 DEF NoneOf, FirstOf, SiteOn
<1>3. CASE l # 0
  <2> DEFINE a == said[l].action
             domains == site.domains
             n == Len(domains)
             K == {i \in 1..n : ~R!Refused(domains[i])}
             x == [i \in 1..n |-> [domains[i] EXCEPT !.action = a]]
             ss == [i \in 1..n |-> IF i \in K THEN << x[i] >> ELSE << >>]
  <2>1. R!SiteSays(site.code, a)
    BY <1>1, <1>3, SiteActionsForm
  <2>2. a \in R!Actions
    BY <2>1, SaysAction
  <2>3. n \in Nat /\ DOMAIN domains = 1..n /\ \A i \in 1..n : domains[i] \in R!Rules
    BY DEF SiteType
  <2>4. t = R!FlattenSeq(ss)
    BY <1>3, <2>3 DEF R!rulesOf, R!Append1
  <2> HIDE DEF a, domains, t
  <2>5. ASSUME NEW i \in 1..n
        PROVE  /\ x[i] \in R!Rules /\ x[i].action = a
               /\ R!Match(x[i], d) <=> R!Match(domains[i], d)
    BY <2>2, <2>3, ActionForm
  <2>6. R!InSite(site, d) <=> \E i \in 1..n : i \in K /\ x[i] \in Matching(d)
    BY <2>3, <2>5 DEF R!InSite, Matching, domains
  <2>7. Passes(ss, n, K, x, R!Rules)
    BY <2>5 DEF Passes
  <2> HIDE DEF x, K, n, ss
  <2>8. Looped(R!FlattenSeq(ss), n, K, x, R!Rules, Matching(d))
    BY <2>3, <2>7, Loop
  <2>9. SiteOn(site, d) <=> R!InSite(site, d)
    BY <2>1, <2>2 DEF SiteOn
  <2>10. NoneOf(t, Matching(d)) <=> ~SiteOn(site, d)
    BY <2>4, <2>6, <2>8, <2>9 DEF Looped
  <2>11. ASSUME NEW y, FirstOf(t, Matching(d), y) PROVE y.action = a
    BY <2>4, <2>5, <2>8, <2>11 DEF Looped
  <2>12. t \in Seq(R!Rules)
    BY <2>4, <2>8 DEF Looped
  <2> QED BY <2>1, <2>10, <2>11, <2>12 DEF t
<1> QED BY <1>2, <1>3

\* The sites of the file that decide about d.
Deciding(d) == {i \in DOMAIN Sites : cfg.path # "" /\ SiteOn(Sites[i], d)}

LEMMA SitesForm ==
    ASSUME Known, NEW d
    PROVE  LET t == R!loadGeositeRules(cfg) IN
           /\ t \in Seq(R!Rules)
           /\ NoneOf(t, Matching(d)) <=> Deciding(d) = {}
           /\ \A y : FirstOf(t, Matching(d), y) =>
                 \E i \in Deciding(d) : /\ \A j \in Deciding(d) : i <= j
                                        /\ R!SiteSays(Sites[i].code, y.action)
<1> DEFINE n == Len(Sites)
           ss == [i \in 1..n |-> R!rulesOf(cfg, Sites[i])]
           t == R!loadGeositeRules(cfg)
           M == Matching(d)
<1>1. n \in Nat /\ DOMAIN Sites = 1..n /\ \A i \in 1..n : Sites[i] \in SiteType
  <2>1. Sites \in Seq(SiteType)
    BY SectionAssumption DEF SiteType
  <2> QED BY <2>1
<1>2. CASE cfg.path = ""
  <2>1. t = << >>
    BY <1>2 DEF R!loadGeositeRules
  <2>2. Deciding(d) = {}
    BY <1>2 DEF Deciding
  <2> HIDE DEF t
  <2>3. t \in Seq(R!Rules) /\ DOMAIN t = {}
    BY <2>1, EmptySeq
  <2>4. NoneOf(t, M) /\ \A y : ~FirstOf(t, M, y)
    BY <2>3 DEF NoneOf, FirstOf
  <2> QED BY <2>2, <2>3, <2>4 DEF t
<1>3. CASE cfg.path # ""
  <2>1. t = R!FlattenSeq(ss)
    BY <1>1, <1>3 DEF R!loadGeositeRules, R!siteRules
  <2>2. ASSUME NEW i \in 1..n
        PROVE  /\ ss[i] \in Seq(R!Rules)
               /\ NoneOf(ss[i], M) <=> i \notin Deciding(d)
               /\ \A y : FirstOf(ss[i], M, y) => R!SiteSays(Sites[i].code, y.action)
    <3>1. Sites[i] \in SiteType /\ ss[i] = R!rulesOf(cfg, Sites[i])
      BY <1>1
    <3>2. i \in Deciding(d) <=> SiteOn(Sites[i], d)
      BY <1>1, <1>3 DEF Deciding
    <3> HIDE DEF ss
    <3> QED BY <3>1, <3>2, RulesOfForm
  <2>3. ss \in Seq(Seq(R!Rules)) /\ Len(ss) = n
    BY <1>1, <2>2, IsASeq
  <2>4. Deciding(d) \subseteq 1..n
    BY <1>1 DEF Deciding
  <2> HIDE DEF ss, n, t, M
  <2>5. Joins(t, R!Rules, ss, n, M)
    BY <2>1, <2>3, FlattenJoins
  <2>6. NoneOf(t, M) <=> Deciding(d) = {}
    BY <2>2, <2>4, <2>5 DEF Joins, NoneUpTo
  <2>7. ASSUME NEW y, FirstOf(t, M, y)
        PROVE  \E i \in Deciding(d) : /\ \A j \in Deciding(d) : i <= j
                                      /\ R!SiteSays(Sites[i].code, y.action)
    <3>1. PICK i \in 1..n : FirstOf(ss[i], M, y) /\ \A j \in 1..n : j < i => NoneOf(ss[j], M)
      BY <2>5, <2>7 DEF Joins, FirstUpTo
    <3>2. ~NoneOf(ss[i], M)
      BY <3>1 DEF FirstOf, NoneOf
    <3>3. i \in Deciding(d) /\ \A j \in Deciding(d) : j \in 1..n /\ ~(j < i)
      BY <2>2, <2>4, <3>1, <3>2
    <3>4. \A j \in Deciding(d) : i <= j
      BY <1>1, <3>3
    <3> QED BY <2>2, <3>1, <3>3, <3>4
  <2> QED BY <2>5, <2>6, <2>7 DEF Joins, t, M
<1> QED BY <1>2, <1>3

----------------------------------------------------------------------------
(* What the compiled rules decide is what the section prescribes.          *)

LEMMA CompiledForm ==
    ASSUME Known, NEW d
    PROVE  LET t == R!domainRules(cfg) \o R!loadGeositeRules(cfg) IN
           /\ t \in Seq(R!Rules)
           /\ NoneOf(t, Matching(d)) => R!Prescribed(d, R!normalizeAction(cfg.default))
           /\ \A y : FirstOf(t, Matching(d), y) => R!Prescribed(d, y.action)
<1> DEFINE M == Matching(d)
           a == R!listRules(cfg.direct, "direct")
           b == R!listRules(cfg.proxy, "proxy")
           c == R!listRules(cfg.block, "block")
           e == R!ownRules(cfg.rules)
           g == R!loadGeositeRules(cfg)
           own == {i \in DOMAIN cfg.rules : R!RuleSays(d, i)}
<1>1. R!domainRules(cfg) = ((a \o b) \o c) \o e
  BY DEF R!domainRules
<1>2. "direct" \in R!Actions /\ "proxy" \in R!Actions /\ "block" \in R!Actions
  BY DEF R!Actions
<1>3. /\ a \in Seq(R!Rules)
      /\ NoneOf(a, M) <=> ~R!ListSays(cfg.direct, d)
      /\ \A y : FirstOf(a, M, y) => y.action = "direct"
  BY <1>2, ListRulesForm DEF Known
<1>4. /\ b \in Seq(R!Rules)
      /\ NoneOf(b, M) <=> ~R!ListSays(cfg.proxy, d)
      /\ \A y : FirstOf(b, M, y) => y.action = "proxy"
  BY <1>2, ListRulesForm DEF Known
<1>5. /\ c \in Seq(R!Rules)
      /\ NoneOf(c, M) <=> ~R!ListSays(cfg.block, d)
      /\ \A y : FirstOf(c, M, y) => y.action = "block"
  BY <1>2, ListRulesForm DEF Known
<1>6. /\ e \in Seq(R!Rules)
      /\ NoneOf(e, M) <=> own = {}
      /\ \A y : FirstOf(e, M, y) =>
            \E i \in own : (\A j \in own : i <= j) /\ y.action = R!normalizeAction(cfg.rules[i].action)
  BY OwnRulesForm
<1>7. /\ g \in Seq(R!Rules)
      /\ NoneOf(g, M) <=> Deciding(d) = {}
      /\ \A y : FirstOf(g, M, y) =>
            \E i \in Deciding(d) : /\ \A j \in Deciding(d) : i <= j
                                   /\ R!SiteSays(Sites[i].code, y.action)
  BY SitesForm
<1>8. Deciding(d) = {i \in DOMAIN Sites : /\ cfg.path # "" /\ R!InSite(Sites[i], d)
                                         /\ \E w \in R!Actions : R!SiteSays(Sites[i].code, w)}
  BY DEF Deciding, SiteOn
<1>9. \A y : /\ FirstOf(a, M, y) => ~NoneOf(a, M)
             /\ FirstOf(b, M, y) => ~NoneOf(b, M)
             /\ FirstOf(c, M, y) => ~NoneOf(c, M)
  <2> HIDE DEF a, b, c, M
  <2> QED BY DEF FirstOf, NoneOf
<1> DEFINE ab == a \o b
           abc == ab \o c
           abce == abc \o e
           t == abce \o g
<1> HIDE DEF a, b, c, e, g, M
<1>10. /\ ab \in Seq(R!Rules) /\ abc \in Seq(R!Rules)
       /\ abce \in Seq(R!Rules) /\ t \in Seq(R!Rules)
  BY <1>3, <1>4, <1>5, <1>6, <1>7, ConcatProperties
<1>11. /\ NoneOf(ab, M) <=> NoneOf(a, M) /\ NoneOf(b, M)
       /\ \A y : FirstOf(ab, M, y) <=> FirstOf(a, M, y) \/ (NoneOf(a, M) /\ FirstOf(b, M, y))
  BY <1>3, <1>4, NoneOfCat, FirstOfCat
<1> HIDE DEF ab
<1>12. /\ NoneOf(abc, M) <=> NoneOf(ab, M) /\ NoneOf(c, M)
       /\ \A y : FirstOf(abc, M, y) <=> FirstOf(ab, M, y) \/ (NoneOf(ab, M) /\ FirstOf(c, M, y))
  BY <1>5, <1>10, NoneOfCat, FirstOfCat
<1> HIDE DEF abc
<1>13. /\ NoneOf(abce, M) <=> NoneOf(abc, M) /\ NoneOf(e, M)
       /\ \A y : FirstOf(abce, M, y) <=> FirstOf(abc, M, y) \/ (NoneOf(abc, M) /\ FirstOf(e, M, y))
  BY <1>6, <1>10, NoneOfCat, FirstOfCat
<1> HIDE DEF abce
<1>14. /\ NoneOf(t, M) <=> NoneOf(abce, M) /\ NoneOf(g, M)
       /\ \A y : FirstOf(t, M, y) <=> FirstOf(abce, M, y) \/ (NoneOf(abce, M) /\ FirstOf(g, M, y))
  BY <1>7, <1>10, NoneOfCat, FirstOfCat
<1> HIDE DEF t
<1> DEFINE listed == R!ListSays(cfg.direct, d) \/ R!ListSays(cfg.proxy, d) \/ R!ListSays(cfg.block, d)
           sites == Deciding(d)
<1>15. ASSUME NEW w
       PROVE  R!Prescribed(d, w) <=>
                \/ w = "direct" /\ R!ListSays(cfg.direct, d)
                \/ w = "proxy" /\ R!ListSays(cfg.proxy, d) /\ ~R!ListSays(cfg.direct, d)
                \/ w = "block" /\ R!ListSays(cfg.block, d) /\ ~R!ListSays(cfg.direct, d)
                                                          /\ ~R!ListSays(cfg.proxy, d)
                \/ ~listed /\ \E i \in own : /\ \A j \in own : i <= j
                                             /\ w = R!normalizeAction(cfg.rules[i].action)
                \/ /\ ~listed /\ own = {}
                   /\ \E i \in sites : (\A j \in sites : i <= j) /\ R!SiteSays(Sites[i].code, w)
                \/ ~listed /\ own = {} /\ sites = {} /\ w = R!normalizeAction(cfg.default)
  BY <1>8, Zenon DEF R!Prescribed
<1> HIDE DEF own, sites
<1>16. NoneOf(t, M) => R!Prescribed(d, R!normalizeAction(cfg.default))
  BY <1>3, <1>4, <1>5, <1>6, <1>7, <1>11, <1>12, <1>13, <1>14, <1>15 DEF sites
<1>17. ASSUME NEW y, FirstOf(t, M, y) PROVE R!Prescribed(d, y.action)
  <2>1. CASE FirstOf(a, M, y)
    BY <1>3, <1>9, <1>15, <2>1
  <2>2. CASE NoneOf(a, M) /\ FirstOf(b, M, y)
    BY <1>3, <1>4, <1>9, <1>15, <2>2
  <2>3. CASE NoneOf(ab, M) /\ FirstOf(c, M, y)
    BY <1>3, <1>4, <1>5, <1>9, <1>11, <1>15, <2>3
  <2>4. CASE NoneOf(abc, M) /\ FirstOf(e, M, y)
    BY <1>3, <1>4, <1>5, <1>6, <1>11, <1>12, <1>15, <2>4
  <2>5. CASE NoneOf(abce, M) /\ FirstOf(g, M, y)
    BY <1>3, <1>4, <1>5, <1>6, <1>7, <1>11, <1>12, <1>13, <1>15, <2>5 DEF sites
  <2> QED BY <1>11, <1>12, <1>13, <1>14, <1>17, <2>1, <2>2, <2>3, <2>4, <2>5
<1>18. R!domainRules(cfg) \o R!loadGeositeRules(cfg) = t
  BY <1>1 DEF t, abce, abc, ab, g
<1> QED BY <1>10, <1>16, <1>17, <1>18 DEF M

\* The matcher is made from the section.
Compiled ==
    /\ matcher.enabled = cfg.enabled /\ matcher.def = R!normalizeAction(cfg.default)
    /\ cfg.enabled => matcher.rules = R!domainRules(cfg) \o R!loadGeositeRules(cfg)

LEMMA FirstMatchForm ==
    ASSUME matcher.rules \in Seq(R!Rules), NEW d
    PROVE  LET k == R!FirstMatch(d) IN
           /\ k = 0 => NoneOf(matcher.rules, Matching(d))
           /\ k # 0 => FirstOf(matcher.rules, Matching(d), matcher.rules[k])
<1> DEFINE s == matcher.rules
           T == {i \in 1..Len(s) : R!Match(s[i], d)}
<1>1. R!FirstMatch(d) = IF T # {} THEN R!Min(T) ELSE 0
  BY DEF R!FirstMatch, R!SelectInSeq
<1>2. DOMAIN s = 1..Len(s) /\ Len(s) \in Nat /\ \A i \in 1..Len(s) : s[i] \in R!Rules
  OBVIOUS
<1> HIDE DEF s
<1>3. \A i \in 1..Len(s) : s[i] \in Matching(d) <=> i \in T
  BY <1>2 DEF Matching
<1>4. T = {} => NoneOf(s, Matching(d))
  BY <1>2, <1>3 DEF NoneOf
<1>5. T \subseteq Nat /\ T \subseteq DOMAIN s /\ 0 \notin T
  BY <1>2
<1>6. ASSUME T # {} PROVE R!Min(T) # 0 /\ FirstOf(s, Matching(d), s[R!Min(T)])
  <2> HIDE DEF T
  <2>1. \E m \in T : \A n \in T : m <= n
    BY <1>5, <1>6, Least
  <2>2. R!Min(T) \in T /\ \A n \in T : R!Min(T) <= n
    BY <2>1 DEF R!Min
  <2>3. PICK m \in T : m = R!Min(T) /\ \A n \in T : m <= n
    BY <2>2, Zenon
  <2>4. m \in Nat /\ m \in 1..Len(s) /\ m # 0
    BY <1>2, <1>5
  <2>5. ASSUME NEW i \in DOMAIN s, i < m PROVE i \notin T
    <3>1. i \in Nat /\ ~(m <= i)
      BY <1>2, <2>4, <2>5
    <3> QED BY <2>3, <3>1
  <2>6. FirstOf(s, Matching(d), s[m])
    BY <1>2, <1>3, <2>4, <2>5 DEF FirstOf
  <2> QED BY <2>3, <2>4, <2>6, Zenon
<1> HIDE DEF T
<1> QED BY <1>1, <1>4, <1>6 DEF s

LEMMA TargetsRouted ==
    ASSUME Known, Compiled, NEW d
    PROVE  R!RoutedAs(d, R!ActionFor(d))
<1>1. CASE ~cfg.enabled
  BY <1>1 DEF Compiled, R!RoutedAs, R!ActionFor
<1>2. CASE cfg.enabled /\ d = R!Address
  BY <1>2 DEF Compiled, R!RoutedAs, R!ActionFor
<1>3. CASE cfg.enabled /\ d # R!Address
  <2>1. /\ matcher.rules = R!domainRules(cfg) \o R!loadGeositeRules(cfg)
        /\ matcher.enabled /\ matcher.def = R!normalizeAction(cfg.default)
    BY <1>3 DEF Compiled
  <2>2. /\ matcher.rules \in Seq(R!Rules)
        /\ NoneOf(matcher.rules, Matching(d)) => R!Prescribed(d, R!normalizeAction(cfg.default))
        /\ \A y : FirstOf(matcher.rules, Matching(d), y) => R!Prescribed(d, y.action)
    BY <2>1, CompiledForm
  <2>3. CASE R!FirstMatch(d) = 0
    BY <1>3, <2>1, <2>2, <2>3, FirstMatchForm DEF R!RoutedAs, R!ActionFor
  <2>4. CASE R!FirstMatch(d) # 0
    <3>1. R!ActionFor(d) = matcher.rules[R!FirstMatch(d)].action
      BY <1>3, <2>1, <2>4 DEF R!ActionFor
    <3>2. FirstOf(matcher.rules, Matching(d), matcher.rules[R!FirstMatch(d)])
      BY <2>2, <2>4, FirstMatchForm
    <3> QED BY <1>3, <2>2, <3>1, <3>2 DEF R!RoutedAs
  <2> QED BY <2>3, <2>4
<1> QED BY <1>1, <1>2, <1>3

----------------------------------------------------------------------------
(* The composition.  The store behaves as it does alone, the section of    *)
(* the file stays what it was, and a process that runs has compiled it.    *)

LEMMA DsStep == [DsNext]_dsVars => [Next]_vars
  <1>1. ASSUME start PROVE UNCHANGED vars
    BY <1>1 DEF start
  <1>2. ASSUME NEW c \in Clients, forget(c) PROVE Next
    BY <1>2 DEF forget, Next
  <1>3. ASSUME NEW c \in Clients, NEW n \in Names, resolve(c, n) PROVE Next
    BY <1>3 DEF resolve, Next
  <1>4. ASSUME crash PROVE Next
    BY <1>4 DEF crash, Next
  <1>5. ASSUME UNCHANGED dsVars PROVE UNCHANGED vars
    BY <1>5 DEF dsVars
  <1> QED
    BY <1>1, <1>2, <1>3, <1>4, <1>5 DEF DsNext

(* The process, which compiles its rules, serves names and dies            *)
(* (src/cmd/sock5gw/main.go), runs a FakeIP store: every behaviour of the  *)
(* composition is one of the store alone, so what is proved of the store   *)
(* holds in it.                                                            *)
THEOREM ProcessRunsStore == DsSpec => Spec
  <1>1. DsInit => Init
    BY DEF DsInit
  <1> QED
    BY <1>1, DsStep, PTL DEF DsSpec, Spec

\* The section is of the form Load accepts, and a process that runs has its matcher.
Loaded == Known /\ (Running => Compiled)

LEMMA LoadedInit == DsInit => Loaded
  <1> SUFFICES ASSUME DsInit PROVE Loaded
    OBVIOUS
  <1>1. /\ cfg.direct \in Lists /\ cfg.proxy \in Lists /\ cfg.block \in Lists
        /\ cfg.rules \in RuleLists /\ matcher = R!NoMatcher
    BY DEF DsInit, R!Init
  <1>2. Known
    BY <1>1, SectionAssumption DEF Known
  <1> QED
    BY <1>1, <1>2 DEF Loaded, Running

LEMMA LoadedKept ==
    ASSUME Loaded, UNCHANGED << cfg, matcher >>
    PROVE  Loaded'
  BY DEF Loaded, Known, Running, Compiled, R!domainRules, R!loadGeositeRules

LEMMA LoadedStep == Loaded /\ [DsNext]_dsVars => Loaded'
  <1> SUFFICES ASSUME Loaded, [DsNext]_dsVars PROVE Loaded'
    OBVIOUS
  <1>1. CASE start
    <2>1. cfg' = cfg /\ matcher' = [enabled |-> cfg.enabled, def |-> R!normalizeAction(cfg.default),
               rules |-> IF cfg.enabled THEN R!domainRules(cfg) \o R!loadGeositeRules(cfg) ELSE << >>]
      BY <1>1 DEF start, R!New
    <2>2. Known'
      BY <2>1 DEF Loaded, Known
    <2>3. Compiled'
      BY <2>1 DEF Compiled
    <2> QED
      BY <2>2, <2>3 DEF Loaded
  <1>2. CASE crash
    <2>1. cfg' = cfg /\ matcher' = R!NoMatcher
      BY <1>2 DEF crash
    <2> QED
      BY <2>1 DEF Loaded, Known, Running
  <1>3. ASSUME NEW c \in Clients, forget(c) PROVE Loaded'
    BY <1>3, LoadedKept DEF forget
  <1>4. ASSUME NEW c \in Clients, NEW n \in Names, resolve(c, n) PROVE Loaded'
    BY <1>4, LoadedKept DEF resolve
  <1>5. CASE UNCHANGED dsVars
    BY <1>5, LoadedKept DEF dsVars
  <1> QED
    BY <1>1, <1>2, <1>3, <1>4, <1>5 DEF DsNext

\* Each target is routed as the section prescribes, asked for or not.
TargetsDecided == Running => \A t : R!RoutedAs(t, R!ActionFor(t))

(* New and ActionFor of routing.go (TargetsDecided): whatever the section  *)
(* and the geosite file, as long as they are, the rules a running process  *)
(* has compiled decide about every target as a reading of the section      *)
(* does, list by list, rule by rule and site by site.                      *)
THEOREM TargetsAreDecided == DsSpec => []TargetsDecided
  <1>1. Loaded => TargetsDecided
    BY TargetsRouted DEF Loaded, TargetsDecided
  <1> QED
    BY <1>1, LoadedInit, LoadedStep, PTL DEF DsSpec

LEMMA RoutedInside == TargetsDecided /\ ForwardLeadsBack => ConnectionRouted
  <1> SUFFICES ASSUME TargetsDecided, ForwardLeadsBack, Running
               PROVE  /\ \A n \in Names : nameToIP[n] # NoAddress =>
                            R!RoutedAs(DomainOf[n], routeAction(nameToIP[n]))
                      /\ R!RoutedAs(R!Address, routeAction(Size))
    BY DEF ConnectionRouted
  <1>1. \A t : R!RoutedAs(t, R!ActionFor(t))
    BY DEF TargetsDecided
  <1>2. ASSUME NEW n \in Names, nameToIP[n] # NoAddress
        PROVE  R!RoutedAs(DomainOf[n], routeAction(nameToIP[n]))
    <2>1. Target(nameToIP[n]) = n
      BY <1>2 DEF ForwardLeadsBack
    <2>2. routeAction(nameToIP[n]) = R!ActionFor(DomainOf[n])
      BY <2>1 DEF routeAction, Rewritten
    <2> QED
      BY <1>1, <2>2
  <1>3. R!RoutedAs(R!Address, routeAction(Size))
    <2>1. Size \notin 0..Size - 1
      BY SizeAssumption
    <2>2. Target(Size) = Size
      BY <2>1 DEF Target, Lookup
    <2>3. routeAction(Size) = R!ActionFor(R!Address)
      BY <2>2, AddressAssumption DEF routeAction, Rewritten
    <2> QED
      BY <1>1, <2>3
  <1> QED
    BY <1>2, <1>3

(* rewriteFakeIPTarget and routeAction of gateway.go, end to end           *)
(* (ConnectionRouted): a connection to the address a name has is routed as *)
(* the section prescribes for the name, and one to another address by the  *)
(* default.  The hypotheses are those under which the store leads back.    *)
THEOREM ConnectionsRouted ==
    ASSUME Base = 0, Cardinality(Names) <= Size - 2
    PROVE  DsSpec => []ConnectionRouted
  <1>1. DsSpec => []ForwardLeadsBack
    BY AnswersLeadBack, ProcessRunsStore, PTL
  <1> QED
    BY <1>1, RoutedInside, TargetsAreDecided, PTL
=============================================================================
