------------------------- MODULE DynamicGateProofs -------------------------
(***************************************************************************)
(* Proofs about DynamicGate: for any sets of clients, calls and gate       *)
(* objects, the gates implement one lock per client.                       *)
(***************************************************************************)
EXTENDS DynamicGate, FiniteSetTheorems, TLAPS

(***************************************************************************)
(* The inductive invariant.  References ties a call to the gate object the *)
(* map names for its client, which is what keeps a second object from      *)
(* being made; Tokens says that a call inside owns the token of its gate.  *)
(***************************************************************************)
References ==
    \A r \in Calls :
        \/ calls[r] = IdleCall
        \/ /\ calls[r].pc # "idle"
           /\ calls[r].client \in Clients
           /\ calls[r].gate \in Gates
           /\ dynamicGates[calls[r].client] = calls[r].gate

Entries ==
    /\ \A c \in Clients : dynamicGates[c] # NoGate =>
          \E r \in Calls : calls[r].gate = dynamicGates[c]
    /\ \A c, d \in Clients : dynamicGates[c] = dynamicGates[d] /\ dynamicGates[c] # NoGate => c = d

Tokens == \A r \in Calls : calls[r].pc = "inside" => token[calls[r].gate] = r

Counts == \A g \in Gates : refs[g] = Cardinality(Users(g))

IInv == TypeOK /\ References /\ Entries /\ Tokens /\ Counts

LEMMA UsersFinite ==
    ASSUME NEW g \in Gates
    PROVE  IsFiniteSet(Users(g)) /\ Cardinality(Users(g)) \in Nat
  BY CallsAssumption, FS_Subset, FS_CardinalityType DEF Users

\* A call that begins to refer to g is one more user of it.
LEMMA UserJoins ==
    ASSUME NEW r \in Calls, NEW g \in Gates, r \notin Users(g),
           Users(g)' = Users(g) \cup {r}
    PROVE  Cardinality(Users(g)') = Cardinality(Users(g)) + 1
  BY UsersFinite, FS_AddElement

LEMMA UserLeaves ==
    ASSUME NEW r \in Calls, NEW g \in Gates, r \in Users(g),
           Users(g)' = Users(g) \ {r}
    PROVE  Cardinality(Users(g)') = Cardinality(Users(g)) - 1
  BY UsersFinite, FS_RemoveElement

LEMMA InitInv == Init => IInv
<1> SUFFICES ASSUME Init PROVE IInv
  OBVIOUS
<1>1. \A g \in Gates : Users(g) = {}
  BY GatesAssumption DEF Init, Users, IdleCall
<1>2. Cardinality({}) = 0
  BY FS_EmptySet
<1>3. TypeOK
  BY DEF Init, TypeOK, Call, IdleCall
<1>4. References /\ Entries /\ Tokens
  BY DEF Init, References, Entries, Tokens, IdleCall
<1>5. Counts
  BY <1>1, <1>2 DEF Counts, Init
<1> QED
  BY <1>3, <1>4, <1>5 DEF IInv

\* releaseRef keeps the invariant when the call holds no token.
LEMMA ReleaseInv ==
    ASSUME IInv, NEW r \in Calls, calls[r].pc \in {"waiting", "leaving"},
           releaseRef(r), token' = token
    PROVE  IInv'
<1>1. PICK g \in Gates, c \in Clients :
         g = calls[r].gate /\ c = calls[r].client /\ dynamicGates[c] = g
  BY DEF IInv, References, IdleCall
<1>2. calls' = [calls EXCEPT ![r] = IdleCall]
  BY DEF releaseRef
<1>3. /\ calls'[r] = IdleCall
      /\ \A s \in Calls : s # r => calls'[s] = calls[s]
  BY <1>2 DEF IInv, TypeOK
<1>4. /\ r \in Users(g) /\ Users(g)' = Users(g) \ {r}
      /\ \A h \in Gates : h # g => Users(h)' = Users(h)
  BY <1>1, <1>3, GatesAssumption DEF Users, IdleCall
<1>5. /\ Cardinality(Users(g)') = Cardinality(Users(g)) - 1
      /\ refs[g] = Cardinality(Users(g)) /\ refs[g] \in Nat
  BY <1>1, <1>4, UserLeaves, UsersFinite DEF IInv, Counts
<1>6. IsFiniteSet(Users(g)') /\ Cardinality(Users(g)') \in Nat
  <2>1. IsFiniteSet(Users(g)) /\ Users(g)' \subseteq Users(g)
    BY <1>4, UsersFinite
  <2>2. IsFiniteSet(Users(g)')
    BY <2>1, FS_Subset
  <2> QED
    BY <2>2, FS_CardinalityType
<1>7. Counts'
  <2> SUFFICES ASSUME NEW h \in Gates PROVE refs'[h] = Cardinality(Users(h)')
    BY DEF Counts, Users
  <2>1. refs' = [refs EXCEPT ![g] = @ - 1] /\ refs \in [Gates -> Nat]
    BY <1>1 DEF releaseRef, IInv, TypeOK
  <2>2. CASE h = g
    BY <1>1, <1>5, <2>1, <2>2
  <2>3. CASE h # g
    BY <1>1, <1>4, <2>1, <2>3 DEF IInv, Counts
  <2> QED
    BY <2>2, <2>3
<1>8. refs[g] = 1 <=> Users(g)' = {}
  <2>1. Cardinality(Users(g)') = 0 <=> Users(g)' = {}
    BY <1>6, FS_EmptySet
  <2> QED
    BY <1>5, <2>1
<1>9. TypeOK'
  <2>1. refs' \in [Gates -> Nat]
    BY <1>1, <1>5, <1>6 DEF releaseRef, IInv, TypeOK
  <2>2. dynamicGates' \in [Clients -> Gates \cup {NoGate}]
    BY <1>1 DEF releaseRef, IInv, TypeOK
  <2>3. calls' \in [Calls -> Call]
    BY <1>2 DEF IInv, TypeOK, Call, IdleCall
  <2> QED
    BY <2>1, <2>2, <2>3 DEF IInv, TypeOK
<1>10. References'
  <2> SUFFICES ASSUME NEW s \in Calls, calls'[s] # IdleCall
               PROVE  /\ calls'[s].pc # "idle"
                      /\ calls'[s].client \in Clients
                      /\ calls'[s].gate \in Gates
                      /\ dynamicGates'[calls'[s].client] = calls'[s].gate
    BY DEF References
  <2>1. s # r /\ calls'[s] = calls[s]
    BY <1>3
  <2>2. /\ calls[s].pc # "idle" /\ calls[s].client \in Clients
        /\ calls[s].gate \in Gates /\ dynamicGates[calls[s].client] = calls[s].gate
    BY <2>1 DEF IInv, References
  <2>3. CASE calls[s].client = c
    <3>1. s \in Users(g)'
      BY <1>1, <2>1, <2>2, <2>3 DEF Users
    <3>2. dynamicGates' = dynamicGates
      BY <1>1, <3>1, <1>8 DEF releaseRef
    <3> QED
      BY <2>1, <2>2, <3>2
  <2>4. CASE calls[s].client # c
    BY <1>1, <2>1, <2>2, <2>4 DEF releaseRef, IInv, TypeOK
  <2> QED
    BY <2>3, <2>4
<1>11. Entries'
  <2>1. ASSUME NEW d \in Clients, dynamicGates'[d] # NoGate
        PROVE  dynamicGates'[d] = dynamicGates[d] /\ \E s \in Calls : calls'[s].gate = dynamicGates'[d]
    <3>1. dynamicGates'[d] = dynamicGates[d]
      BY <1>1, <2>1 DEF releaseRef, IInv, TypeOK
    <3>2. CASE d = c
      <4>1. Users(g)' # {}
        BY <1>1, <1>8, <2>1, <3>2 DEF releaseRef, IInv, TypeOK
      <4> QED
        BY <1>1, <3>1, <3>2, <4>1 DEF Users
    <3>3. CASE d # c
      <4>1. PICK s \in Calls : calls[s].gate = dynamicGates[d]
        BY <2>1, <3>1 DEF IInv, Entries
      <4>2. s # r
        BY <1>1, <2>1, <3>1, <3>3, <4>1 DEF IInv, Entries
      <4> QED
        BY <1>3, <3>1, <4>1, <4>2
    <3> QED
      BY <3>1, <3>2, <3>3
  <2>2. ASSUME NEW d \in Clients, NEW e \in Clients,
               dynamicGates'[d] = dynamicGates'[e], dynamicGates'[d] # NoGate
        PROVE  d = e
    <3>1. dynamicGates'[d] = dynamicGates[d] /\ dynamicGates'[e] = dynamicGates[e]
      BY <2>1, <2>2
    <3> QED
      BY <2>2, <3>1 DEF IInv, Entries
  <2> QED
    BY <2>1, <2>2 DEF Entries
<1>12. Tokens'
  BY <1>3 DEF IInv, Tokens, IdleCall
<1> QED
  BY <1>7, <1>9, <1>10, <1>11, <1>12 DEF IInv

LEMMA RegisterInv ==
    ASSUME IInv, NEW r \in Calls, NEW c \in Clients, Register(r, c)
    PROVE  IInv'
<1>1. PICK g \in Gates :
         /\ \/ /\ dynamicGates[c] = g
               /\ refs' = [refs EXCEPT ![g] = @ + 1]
               /\ UNCHANGED << dynamicGates, token >>
            \/ /\ dynamicGates[c] = NoGate
               /\ Unused(g)
               /\ dynamicGates' = [dynamicGates EXCEPT ![c] = g]
               /\ refs' = [refs EXCEPT ![g] = 1]
               /\ token' = [token EXCEPT ![g] = Nobody]
         /\ calls' = [calls EXCEPT ![r] = [pc |-> "waiting", client |-> c, gate |-> g]]
  BY DEF Register
<1>2. calls[r] = IdleCall
  BY DEF Register, IInv, References
<1>3. /\ calls'[r] = [pc |-> "waiting", client |-> c, gate |-> g]
      /\ \A s \in Calls : s # r => calls'[s] = calls[s]
  BY <1>1 DEF IInv, TypeOK
<1>4. /\ r \notin Users(g) /\ Users(g)' = Users(g) \cup {r}
      /\ \A h \in Gates : h # g => Users(h)' = Users(h)
  BY <1>2, <1>3, GatesAssumption DEF Users, IdleCall
<1>5. /\ Cardinality(Users(g)') = Cardinality(Users(g)) + 1
      /\ refs[g] = Cardinality(Users(g)) /\ refs[g] \in Nat
  BY <1>4, UserJoins, UsersFinite DEF IInv, Counts
<1>6. dynamicGates'[c] = g /\ \A d \in Clients : d # c => dynamicGates'[d] = dynamicGates[d]
  BY <1>1 DEF IInv, TypeOK
<1>7. \A d \in Clients : d # c => dynamicGates[d] # g
  BY <1>1, GatesAssumption DEF IInv, Entries, Unused
<1>8. Counts'
  <2> SUFFICES ASSUME NEW h \in Gates PROVE refs'[h] = Cardinality(Users(h)')
    BY DEF Counts, Users
  <2>1. CASE h # g
    BY <1>1, <1>4, <2>1 DEF IInv, Counts, TypeOK
  <2>2. CASE h = g /\ refs' = [refs EXCEPT ![g] = @ + 1]
    BY <1>5, <2>2 DEF IInv, TypeOK
  <2>3. CASE h = g /\ Unused(g) /\ refs' = [refs EXCEPT ![g] = 1]
    <3>1. Users(g) = {}
      BY <2>3 DEF Unused
    <3>2. Cardinality(Users(g)) = 0
      BY <3>1, FS_EmptySet
    <3> QED
      BY <1>5, <2>3, <3>2 DEF IInv, TypeOK
  <2> QED
    BY <1>1, <2>1, <2>2, <2>3
<1>9. TypeOK'
  <2>1. refs' \in [Gates -> Nat]
    BY <1>1 DEF IInv, TypeOK
  <2>2. calls' \in [Calls -> Call]
    BY <1>1 DEF IInv, TypeOK, Call
  <2>3. dynamicGates' \in [Clients -> Gates \cup {NoGate}] /\ token' \in [Gates -> Calls \cup {Nobody}]
    BY <1>1 DEF IInv, TypeOK
  <2> QED
    BY <2>1, <2>2, <2>3 DEF TypeOK
<1>10. References'
  <2> SUFFICES ASSUME NEW s \in Calls, calls'[s] # IdleCall
               PROVE  /\ calls'[s].pc # "idle"
                      /\ calls'[s].client \in Clients
                      /\ calls'[s].gate \in Gates
                      /\ dynamicGates'[calls'[s].client] = calls'[s].gate
    BY DEF References
  <2>1. CASE s = r
    BY <1>3, <1>6, <2>1
  <2>2. CASE s # r
    <3>1. /\ calls[s].pc # "idle" /\ calls[s].client \in Clients
          /\ calls[s].gate \in Gates /\ dynamicGates[calls[s].client] = calls[s].gate
      BY <1>3, <2>2 DEF IInv, References
    <3>2. calls[s].client = c => dynamicGates[c] = g
      BY <1>1, <3>1, GatesAssumption
    <3> QED
      BY <1>3, <1>6, <2>2, <3>1, <3>2
  <2> QED
    BY <2>1, <2>2
<1>11. Entries'
  <2>1. ASSUME NEW d \in Clients, dynamicGates'[d] # NoGate
        PROVE  \E s \in Calls : calls'[s].gate = dynamicGates'[d]
    <3>1. CASE d = c
      BY <1>3, <1>6, <3>1
    <3>2. CASE d # c
      <4>1. PICK s \in Calls : calls[s].gate = dynamicGates[d]
        BY <1>6, <2>1, <3>2 DEF IInv, Entries
      <4>2. s # r
        BY <1>2, <1>6, <2>1, <3>2, <4>1 DEF IdleCall
      <4> QED
        BY <1>3, <1>6, <3>2, <4>1, <4>2
    <3> QED
      BY <3>1, <3>2
  <2>2. ASSUME NEW d \in Clients, NEW e \in Clients,
               dynamicGates'[d] = dynamicGates'[e], dynamicGates'[d] # NoGate
        PROVE  d = e
    BY <1>6, <1>7, <2>2 DEF IInv, Entries
  <2> QED
    BY <2>1, <2>2 DEF Entries
<1>12. Tokens'
  <2> SUFFICES ASSUME NEW s \in Calls, calls'[s].pc = "inside"
               PROVE  token'[calls'[s].gate] = s
    BY DEF Tokens
  <2>1. s # r /\ calls'[s] = calls[s]
    BY <1>3
  <2>2. calls[s].gate \in Gates /\ token[calls[s].gate] = s
    BY <2>1 DEF IInv, References, Tokens, IdleCall
  <2>3. Unused(g) => calls[s].gate # g
    BY DEF Unused, Users
  <2> QED
    BY <1>1, <2>1, <2>2, <2>3 DEF IInv, TypeOK
<1> QED
  BY <1>8, <1>9, <1>10, <1>11, <1>12 DEF IInv

LEMMA EnterInv ==
    ASSUME IInv, NEW r \in Calls, Enter(r)
    PROVE  IInv'
<1>1. /\ calls' = [calls EXCEPT ![r].pc = "inside"]
      /\ calls[r].pc = "waiting"
      /\ token[calls[r].gate] = Nobody
      /\ token' = [token EXCEPT ![calls[r].gate] = r]
      /\ UNCHANGED << dynamicGates, refs >>
  BY DEF Enter
<1>2. calls[r].gate \in Gates
  BY <1>1 DEF IInv, References, IdleCall
<1>3. /\ calls'[r].pc = "inside"
      /\ calls'[r].client = calls[r].client /\ calls'[r].gate = calls[r].gate
      /\ \A s \in Calls : s # r => calls'[s] = calls[s]
  BY <1>1 DEF IInv, TypeOK, Call
<1>4. TypeOK'
  <2>1. calls' \in [Calls -> Call]
    BY <1>1 DEF IInv, TypeOK, Call
  <2> QED
    BY <1>1, <1>2, <2>1 DEF IInv, TypeOK
<1>5. References'
  BY <1>1, <1>3 DEF IInv, References, IdleCall
<1>6. Entries'
  BY <1>1, <1>3 DEF IInv, Entries
<1>7. Tokens'
  <2> SUFFICES ASSUME NEW s \in Calls, calls'[s].pc = "inside"
               PROVE  token'[calls'[s].gate] = s
    BY DEF Tokens
  <2>1. CASE s = r
    BY <1>1, <1>2, <1>3, <2>1 DEF IInv, TypeOK
  <2>2. CASE s # r
    <3>1. token[calls[s].gate] = s /\ calls[s].gate \in Gates
      BY <1>3, <2>2 DEF IInv, Tokens, References, IdleCall
    <3>2. calls[s].gate # calls[r].gate
      BY <1>1, <3>1, CallsAssumption
    <3> QED
      BY <1>1, <1>3, <2>2, <3>1, <3>2 DEF IInv, TypeOK
  <2> QED
    BY <2>1, <2>2
<1>8. Counts'
  <2>1. \A g \in Gates : Users(g)' = Users(g)
    BY <1>3 DEF Users
  <2> QED
    BY <1>1, <2>1 DEF IInv, Counts
<1> QED
  BY <1>4, <1>5, <1>6, <1>7, <1>8 DEF IInv

LEMMA ReturnTokenInv ==
    ASSUME IInv, NEW r \in Calls, ReturnToken(r)
    PROVE  IInv'
<1>1. /\ calls' = [calls EXCEPT ![r].pc = "leaving"]
      /\ calls[r].pc = "inside"
      /\ token' = [token EXCEPT ![calls[r].gate] = Nobody]
      /\ UNCHANGED << dynamicGates, refs >>
  BY DEF ReturnToken
<1>2. calls[r].gate \in Gates /\ token[calls[r].gate] = r
  BY <1>1 DEF IInv, References, Tokens, IdleCall
<1>3. /\ calls'[r].pc = "leaving"
      /\ calls'[r].client = calls[r].client /\ calls'[r].gate = calls[r].gate
      /\ \A s \in Calls : s # r => calls'[s] = calls[s]
  BY <1>1 DEF IInv, TypeOK, Call
<1>4. TypeOK'
  <2>1. calls' \in [Calls -> Call]
    BY <1>1 DEF IInv, TypeOK, Call
  <2> QED
    BY <1>1, <1>2, <2>1 DEF IInv, TypeOK
<1>5. References'
  BY <1>1, <1>3 DEF IInv, References, IdleCall
<1>6. Entries'
  BY <1>1, <1>3 DEF IInv, Entries
<1>7. Tokens'
  <2> SUFFICES ASSUME NEW s \in Calls, calls'[s].pc = "inside"
               PROVE  token'[calls'[s].gate] = s
    BY DEF Tokens
  <2>1. s # r /\ calls'[s] = calls[s]
    BY <1>3
  <2>2. token[calls[s].gate] = s /\ calls[s].gate \in Gates
    BY <2>1 DEF IInv, Tokens, References, IdleCall
  <2> QED
    BY <1>1, <1>2, <2>1, <2>2 DEF IInv, TypeOK
<1>8. Counts'
  <2>1. \A g \in Gates : Users(g)' = Users(g)
    BY <1>3 DEF Users
  <2> QED
    BY <1>1, <2>1 DEF IInv, Counts
<1> QED
  BY <1>4, <1>5, <1>6, <1>7, <1>8 DEF IInv

LEMMA InvStep ==
    ASSUME IInv, [Next]_vars
    PROVE  IInv'
<1>1. ASSUME NEW r \in Calls, GiveUp(r) \/ Unlock(r)
      PROVE  IInv'
  BY <1>1, ReleaseInv DEF GiveUp, Unlock
<1>2. CASE UNCHANGED vars
  <2>1. \A g \in Gates : Users(g)' = Users(g)
    BY <1>2 DEF vars, Users
  <2> QED
    BY <1>2, <2>1 DEF vars, IInv, TypeOK, References, Entries, Tokens, Counts
<1>3. CASE Next
  BY <1>1, <1>3, RegisterInv, EnterInv, ReturnTokenInv DEF Next
<1> QED
  BY <1>2, <1>3

THEOREM InductiveInvariant == Spec => []IInv
<1>1. IInv /\ [Next]_vars => IInv'
  BY InvStep
<1> QED
  BY InitInv, <1>1, PTL DEF Spec

(***************************************************************************)
(* Type correctness of the gate map, the gate objects and the calls.       *)
(***************************************************************************)
THEOREM GateTypes == Spec => []TypeOK
<1>1. IInv => TypeOK
  BY DEF IInv
<1> QED
  BY <1>1, InductiveInvariant, PTL

(***************************************************************************)
(* An entry of m.dynamicGates lasts exactly as long as a call refers to    *)
(* its gate, and refs counts those calls: deleting it at refs = 0 never    *)
(* takes the gate from under a waiting call.                               *)
(***************************************************************************)
THEOREM GatesAreCollected == Spec => []GatesCollected
<1>1. ASSUME IInv PROVE GatesCollected
  <2> SUFFICES ASSUME NEW g \in Gates, NEW c \in Clients
               PROVE  /\ refs[g] = Cardinality(Users(g))
                      /\ dynamicGates[c] = g <=>
                            \E r \in Calls : calls[r].gate = g /\ calls[r].client = c
    BY <1>1 DEF GatesCollected, IInv, Counts
  <2>1. refs[g] = Cardinality(Users(g))
    BY <1>1 DEF IInv, Counts
  <2>2. ASSUME dynamicGates[c] = g
        PROVE  \E r \in Calls : calls[r].gate = g /\ calls[r].client = c
    <3>1. PICK r \in Calls : calls[r].gate = g
      BY <1>1, <2>2, GatesAssumption DEF IInv, Entries
    <3>2. calls[r].client \in Clients /\ dynamicGates[calls[r].client] = g
      BY <1>1, <3>1, GatesAssumption DEF IInv, References, IdleCall
    <3> QED
      BY <1>1, <2>2, <3>1, <3>2, GatesAssumption DEF IInv, Entries
  <2>3. ASSUME NEW r \in Calls, calls[r].gate = g, calls[r].client = c
        PROVE  dynamicGates[c] = g
    BY <1>1, <2>3, GatesAssumption DEF IInv, References, IdleCall
  <2> QED
    BY <2>1, <2>2, <2>3
<1> QED
  BY <1>1, InductiveInvariant, PTL

(***************************************************************************)
(* The refinement.  Register is Ask, GiveUp and Enter are themselves, and  *)
(* ReturnToken is Leave: the reference Unlock drops is invisible outside.  *)
(***************************************************************************)
Seen == [r \in Calls |-> ClientStage(r)]

\* Two calls inside one client's gate would hold the one token of one gate.
LEMMA FreeToEnter ==
    ASSUME IInv, NEW r \in Calls, calls[r].pc = "waiting",
           token[calls[r].gate] = Nobody
    PROVE  Mutex!Free(Seen, calls[r].client)
<1> SUFFICES ASSUME NEW s \in Calls, ClientStage(s) = [pc |-> "inside", client |-> calls[r].client]
             PROVE  FALSE
  BY DEF Mutex!Free, Mutex!Stage, Seen
<1>1. calls[s].pc = "inside" /\ calls[s].client = calls[r].client
  BY DEF ClientStage
<1>2. token[calls[s].gate] = s
  BY <1>1 DEF IInv, Tokens
<1>3. calls[s].gate = calls[r].gate
  BY <1>1 DEF IInv, References, IdleCall
<1> QED
  BY <1>2, <1>3, CallsAssumption

LEMMA RegisterAsks ==
    ASSUME IInv, NEW r \in Calls, NEW c \in Clients, Register(r, c)
    PROVE  Mutex!Ask(r, c)
<1>1. PICK g \in Gates : calls' = [calls EXCEPT ![r] = [pc |-> "waiting", client |-> c, gate |-> g]]
  BY DEF Register
<1>2. calls[r].pc = "idle"
  BY DEF Register
<1>3. calls'[r] = [pc |-> "waiting", client |-> c, gate |-> g]
  BY <1>1 DEF IInv, TypeOK
<1>4. Seen[r] = Mutex!Outside
  BY <1>2 DEF Seen, ClientStage, Mutex!Outside, Mutex!NoClient, NoClient
<1>5. Seen' = [Seen EXCEPT ![r] = Mutex!Stage("waiting", c)]
  <2>1. ClientStage(r)' = Mutex!Stage("waiting", c)
    BY <1>3 DEF ClientStage, Mutex!Stage
  <2>2. \A s \in Calls : s # r => ClientStage(s)' = ClientStage(s)
    BY <1>1 DEF IInv, TypeOK, ClientStage
  <2> QED
    BY <2>1, <2>2 DEF Seen
<1> QED
  BY <1>4, <1>5 DEF Mutex!Ask, Seen

LEMMA EnterEnters ==
    ASSUME IInv, NEW r \in Calls, Enter(r)
    PROVE  Mutex!Enter(r, calls[r].client)
<1>1. /\ calls[r].pc = "waiting" /\ token[calls[r].gate] = Nobody
      /\ calls' = [calls EXCEPT ![r].pc = "inside"]
  BY DEF Enter
<1>2. /\ calls'[r].pc = "inside" /\ calls'[r].client = calls[r].client
      /\ \A s \in Calls : s # r => calls'[s] = calls[s]
  BY <1>1 DEF IInv, TypeOK, Call
<1>3. Seen[r] = Mutex!Stage("waiting", calls[r].client)
  BY <1>1 DEF Seen, ClientStage, Mutex!Stage
<1>4. Seen' = [Seen EXCEPT ![r] = Mutex!Stage("inside", calls[r].client)]
  <2>1. ClientStage(r)' = Mutex!Stage("inside", calls[r].client)
    BY <1>2 DEF ClientStage, Mutex!Stage
  <2>2. \A s \in Calls : s # r => ClientStage(s)' = ClientStage(s)
    BY <1>2 DEF ClientStage
  <2> QED
    BY <2>1, <2>2 DEF Seen
<1>5. Mutex!Free(Seen, calls[r].client)
  BY <1>1, FreeToEnter
<1> QED
  BY <1>3, <1>4, <1>5 DEF Mutex!Enter, Seen

LEMMA ReturnTokenLeaves ==
    ASSUME IInv, NEW r \in Calls, ReturnToken(r)
    PROVE  Mutex!Leave(r, calls[r].client)
<1>1. calls[r].pc = "inside" /\ calls' = [calls EXCEPT ![r].pc = "leaving"]
  BY DEF ReturnToken
<1>2. /\ calls'[r].pc = "leaving"
      /\ \A s \in Calls : s # r => calls'[s] = calls[s]
  BY <1>1 DEF IInv, TypeOK, Call
<1>3. Seen[r] = Mutex!Stage("inside", calls[r].client)
  BY <1>1 DEF Seen, ClientStage, Mutex!Stage
<1>4. Seen' = [Seen EXCEPT ![r] = Mutex!Outside]
  <2>1. ClientStage(r)' = Mutex!Outside
    BY <1>2 DEF ClientStage, Mutex!Outside, Mutex!NoClient, NoClient
  <2>2. \A s \in Calls : s # r => ClientStage(s)' = ClientStage(s)
    BY <1>2 DEF ClientStage
  <2> QED
    BY <2>1, <2>2 DEF Seen
<1> QED
  BY <1>3, <1>4 DEF Mutex!Leave, Seen

\* What dropping a reference shows of the call: it is outside.
LEMMA ReleaseSeen ==
    ASSUME IInv, NEW r \in Calls, releaseRef(r)
    PROVE  Seen' = [Seen EXCEPT ![r] = Mutex!Outside]
<1>1. /\ calls'[r] = IdleCall
      /\ \A s \in Calls : s # r => calls'[s] = calls[s]
  BY DEF releaseRef, IInv, TypeOK
<1>2. ClientStage(r)' = Mutex!Outside
  BY <1>1 DEF ClientStage, IdleCall, Mutex!Outside, Mutex!NoClient, NoClient
<1>3. \A s \in Calls : s # r => ClientStage(s)' = ClientStage(s)
  BY <1>1 DEF ClientStage
<1> QED
  BY <1>2, <1>3 DEF Seen

LEMMA GiveUpGivesUp ==
    ASSUME IInv, NEW r \in Calls, GiveUp(r)
    PROVE  Mutex!GiveUp(r, calls[r].client)
<1>1. calls[r].pc = "waiting" /\ releaseRef(r)
  BY DEF GiveUp
<1>2. Seen[r] = Mutex!Stage("waiting", calls[r].client)
  BY <1>1 DEF Seen, ClientStage, Mutex!Stage
<1> QED
  BY <1>1, <1>2, ReleaseSeen DEF Mutex!GiveUp, Seen

LEMMA UnlockUnseen ==
    ASSUME IInv, NEW r \in Calls, Unlock(r)
    PROVE  Seen' = Seen
<1>1. calls[r].pc = "leaving" /\ releaseRef(r)
  BY DEF Unlock
<1>2. Seen[r] = Mutex!Outside
  BY <1>1 DEF Seen, ClientStage, Mutex!Outside, Mutex!NoClient, NoClient
<1>3. Seen' = [Seen EXCEPT ![r] = Mutex!Outside]
  BY <1>1, ReleaseSeen
<1> QED
  BY <1>2, <1>3 DEF Seen

LEMMA StepRefines ==
    ASSUME IInv, [Next]_vars
    PROVE  Mutex!Next \/ Seen' = Seen
<1>1. ASSUME NEW r \in Calls, calls[r].pc # "idle"
      PROVE  calls[r].client \in Clients
  BY <1>1 DEF IInv, References, IdleCall
<1>2. ASSUME NEW r \in Calls, NEW c \in Clients, Register(r, c)
      PROVE  Mutex!Next
  BY <1>2, RegisterAsks DEF Mutex!Next
<1>3. ASSUME NEW r \in Calls, Enter(r)
      PROVE  Mutex!Next
  <2>1. calls[r].client \in Clients
    BY <1>1, <1>3 DEF Enter
  <2> QED
    BY <1>3, <2>1, EnterEnters DEF Mutex!Next
<1>4. ASSUME NEW r \in Calls, GiveUp(r)
      PROVE  Mutex!Next
  <2>1. calls[r].client \in Clients
    BY <1>1, <1>4 DEF GiveUp
  <2> QED
    BY <1>4, <2>1, GiveUpGivesUp DEF Mutex!Next
<1>5. ASSUME NEW r \in Calls, ReturnToken(r)
      PROVE  Mutex!Next
  <2>1. calls[r].client \in Clients
    BY <1>1, <1>5 DEF ReturnToken
  <2> QED
    BY <1>5, <2>1, ReturnTokenLeaves DEF Mutex!Next
<1>6. CASE UNCHANGED vars
  BY <1>6 DEF vars, Seen, ClientStage
<1>7. CASE Next
  BY <1>2, <1>3, <1>4, <1>5, <1>7, UnlockUnseen DEF Next
<1> QED
  BY <1>6, <1>7

(***************************************************************************)
(* lockDynamicGate implements one lock per client, for any number of calls *)
(* and with gate objects that come and go.                                 *)
(***************************************************************************)
THEOREM Refinement == Spec => ImplementsMutex
<1>1. ASSUME Init PROVE Mutex!Init
  BY <1>1 DEF Init, IdleCall, ClientStage, Mutex!Init, Mutex!Outside, Mutex!NoClient, NoClient
<1>2. IInv /\ [Next]_vars => [Mutex!Next]_Seen
  BY StepRefines
<1> QED
  BY <1>1, <1>2, InductiveInvariant, PTL DEF Spec, ImplementsMutex, Mutex!Spec, Seen

(***************************************************************************)
(* Of the dynamic lease calls of one client at most one is past its gate.  *)
(***************************************************************************)
THEOREM OneCallAtATime == Spec => []OneCallPerClient
<1>1. ASSUME IInv PROVE OneCallPerClient
  <2> SUFFICES ASSUME NEW r \in Calls, NEW s \in Calls,
                      ClientStage(r).pc = "inside", ClientStage(s) = ClientStage(r)
               PROVE  r = s
    BY DEF OneCallPerClient, Mutex!Exclusive
  <2>1. /\ calls[r].pc = "inside" /\ calls[s].pc = "inside"
        /\ calls[r].client = calls[s].client
    BY DEF ClientStage
  <2>2. token[calls[r].gate] = r /\ token[calls[s].gate] = s
    BY <1>1, <2>1 DEF IInv, Tokens
  <2>3. calls[r].gate = calls[s].gate
    BY <1>1, <2>1 DEF IInv, References, IdleCall
  <2> QED
    BY <2>2, <2>3
<1> QED
  BY <1>1, InductiveInvariant, PTL
=============================================================================
