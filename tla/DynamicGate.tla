---------------------------- MODULE DynamicGate ----------------------------
(***************************************************************************)
(* The gate of dynamic lease calls, lockDynamicGate of                     *)
(* src/internal/manager/dynamic.go.  A gate is an object with a channel of *)
(* capacity one and a count of the calls that hold a reference to it; the  *)
(* map m.dynamicGates names the gate of each client, and the call that     *)
(* drops the last reference deletes the entry.  Registering and dropping a *)
(* reference are critical sections under dynamicGatesMu; the channel is    *)
(* used outside of it.                                                     *)
(***************************************************************************)
EXTENDS Naturals, FiniteSets

CONSTANTS
    Clients,  \* client IPs
    Calls,    \* slots for concurrent calls of lockDynamicGate
    Gates     \* identities of dynamicGate objects

NoClient == "noclient"
NoGate == "nogate"
Nobody == "nobody"

ASSUME CallsAssumption == IsFiniteSet(Calls) /\ Nobody \notin Calls
ASSUME ClientsAssumption == NoClient \notin Clients
ASSUME GatesAssumption == NoGate \notin Gates

VARIABLES
    dynamicGates,  \* m.dynamicGates: the gate object of each client
    refs,          \* gate.refs
    token,         \* whose token is in the channel of the gate
    calls          \* where each call is, its client and the gate it refers to

vars == << dynamicGates, refs, token, calls >>

Call == [pc : {"idle", "waiting", "inside", "leaving"},
         client : Clients \cup {NoClient}, gate : Gates \cup {NoGate}]
IdleCall == [pc |-> "idle", client |-> NoClient, gate |-> NoGate]

Users(g) == {r \in Calls : calls[r].gate = g}

\* An object nothing refers to: what &dynamicGate{} returns is none in use.
Unused(g) == Users(g) = {} /\ \A c \in Clients : dynamicGates[c] # g

Init ==
    /\ dynamicGates = [c \in Clients |-> NoGate]
    /\ refs = [g \in Gates |-> 0]
    /\ token = [g \in Gates |-> Nobody]
    /\ calls = [r \in Calls |-> IdleCall]

\* The gate is found or made, and referred to, in one critical section.
Register(r, c) ==
    /\ calls[r].pc = "idle"
    /\ \E g \in Gates :
         /\ \/ /\ dynamicGates[c] = g
               /\ refs' = [refs EXCEPT ![g] = @ + 1]
               /\ UNCHANGED << dynamicGates, token >>
            \/ /\ dynamicGates[c] = NoGate
               /\ Unused(g)
               /\ dynamicGates' = [dynamicGates EXCEPT ![c] = g]
               /\ refs' = [refs EXCEPT ![g] = 1]
               /\ token' = [token EXCEPT ![g] = Nobody]
         /\ calls' = [calls EXCEPT ![r] = [pc |-> "waiting", client |-> c, gate |-> g]]

\* The call's token goes into the channel.
Enter(r) ==
    /\ calls[r].pc = "waiting"
    /\ token[calls[r].gate] = Nobody
    /\ token' = [token EXCEPT ![calls[r].gate] = r]
    /\ calls' = [calls EXCEPT ![r].pc = "inside"]
    /\ UNCHANGED << dynamicGates, refs >>

\* Mutated form of releaseRef: the entry goes with the first reference dropped.
DropAtOnce(r) ==
    LET g == calls[r].gate
        c == calls[r].client
    IN /\ refs' = [refs EXCEPT ![g] = @ - 1]
       /\ dynamicGates' = [dynamicGates EXCEPT ![c] = NoGate]
       /\ calls' = [calls EXCEPT ![r] = IdleCall]

releaseRef(r) ==
    LET g == calls[r].gate
        c == calls[r].client
    IN /\ refs' = [refs EXCEPT ![g] = @ - 1]
       /\ dynamicGates' = IF refs[g] = 1 THEN [dynamicGates EXCEPT ![c] = NoGate]
                                         ELSE dynamicGates
       /\ calls' = [calls EXCEPT ![r] = IdleCall]

\* Mutated form of GiveUp: the canceled call keeps its reference.
GiveUpKeepsRef(r) ==
    /\ calls[r].pc = "waiting"
    /\ calls' = [calls EXCEPT ![r] = IdleCall]
    /\ UNCHANGED << dynamicGates, refs, token >>

\* ctx.Done() wins the select.
GiveUp(r) ==
    /\ calls[r].pc = "waiting"
    /\ releaseRef(r)
    /\ UNCHANGED token

\* Mutated form of ReturnToken: the token stays in the channel.
ReturnKeepsToken(r) ==
    /\ calls[r].pc = "inside"
    /\ calls' = [calls EXCEPT ![r].pc = "leaving"]
    /\ UNCHANGED << dynamicGates, refs, token >>

\* The deferred unlock takes the token back ...
ReturnToken(r) ==
    /\ calls[r].pc = "inside"
    /\ token' = [token EXCEPT ![calls[r].gate] = Nobody]
    /\ calls' = [calls EXCEPT ![r].pc = "leaving"]
    /\ UNCHANGED << dynamicGates, refs >>

\* ... and then drops the reference.
Unlock(r) ==
    /\ calls[r].pc = "leaving"
    /\ releaseRef(r)
    /\ UNCHANGED token

Next ==
    \E r \in Calls :
        \/ \E c \in Clients : Register(r, c)
        \/ Enter(r)
        \/ GiveUp(r)
        \/ ReturnToken(r)
        \/ Unlock(r)

Spec == Init /\ [][Next]_vars

\* The call inside ends: provider request, probe and database have timeouts.
\* A channel serves its blocked senders in order, hence SF for Enter.
FairSpec ==
    /\ Spec
    /\ \A r \in Calls : SF_vars(Enter(r)) /\ WF_vars(ReturnToken(r)) /\ WF_vars(Unlock(r))

----------------------------------------------------------------------------
(* Properties.                                                             *)

\* Type invariant of the gate map, the gate objects and the calls.
TypeOK ==
    /\ dynamicGates \in [Clients -> Gates \cup {NoGate}]
    /\ refs \in [Gates -> Nat]
    /\ token \in [Gates -> Calls \cup {Nobody}]
    /\ calls \in [Calls -> Call]

\* The stage of a call as its client sees it: a call that has given the token
\* back and still holds its reference is outside already.
ClientStage(r) ==
    IF calls[r].pc \in {"idle", "leaving"} THEN [pc |-> "idle", client |-> NoClient]
    ELSE [pc |-> calls[r].pc, client |-> calls[r].client]

Mutex == INSTANCE ClientMutex WITH stage <- [r \in Calls |-> ClientStage(r)]

\* The gates implement one lock per client, although gate objects come and go
\* while other calls wait for them (lockDynamicGate).
ImplementsMutex == Mutex!Spec

\* Of the dynamic lease calls of one client at most one is past its gate
\* (lockDynamicGate): two would hold tokens of two different gate objects.
OneCallPerClient == Mutex!Exclusive

\* The map keeps an entry exactly as long as a call refers to its gate: no
\* entry is deleted under a waiting call, and none outlives the last one
\* (refs counts the calls that refer to the gate).
GatesCollected ==
    \A g \in Gates :
        /\ refs[g] = Cardinality(Users(g))
        /\ \A c \in Clients : dynamicGates[c] = g <=>
              \E r \in Calls : calls[r].gate = g /\ calls[r].client = c

\* A call that waits for its client's gate enters or gives up, whatever the
\* other calls do.
WaitingEnds == \A r \in Calls : calls[r].pc = "waiting" ~> calls[r].pc # "waiting"
=============================================================================
