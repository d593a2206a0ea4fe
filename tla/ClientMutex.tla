---------------------------- MODULE ClientMutex ----------------------------
(***************************************************************************)
(* What lockDynamicGate promises (src/internal/manager/dynamic.go): calls  *)
(* of one client take turns, calls of different clients do not wait for    *)
(* each other, and a call may give up while it waits.                      *)
(***************************************************************************)
CONSTANTS
    Clients,  \* client IPs
    Calls     \* slots for concurrent calls

NoClient == "noclient"

VARIABLE stage  \* per call: "idle", "waiting" or "inside", and for which client

Outside == [pc |-> "idle", client |-> NoClient]
Stage(pc, c) == [pc |-> pc, client |-> c]

\* No call of client c holds the lock in the assignment of stages s.
Free(s, c) == \A r \in Calls : s[r] # Stage("inside", c)

Init == stage = [r \in Calls |-> Outside]

Ask(r, c) ==
    /\ stage[r] = Outside
    /\ stage' = [stage EXCEPT ![r] = Stage("waiting", c)]

Enter(r, c) ==
    /\ stage[r] = Stage("waiting", c)
    /\ Free(stage, c)
    /\ stage' = [stage EXCEPT ![r] = Stage("inside", c)]

GiveUp(r, c) ==
    /\ stage[r] = Stage("waiting", c)
    /\ stage' = [stage EXCEPT ![r] = Outside]

Leave(r, c) ==
    /\ stage[r] = Stage("inside", c)
    /\ stage' = [stage EXCEPT ![r] = Outside]

Next == \E r \in Calls, c \in Clients : Ask(r, c) \/ Enter(r, c) \/ GiveUp(r, c) \/ Leave(r, c)

Spec == Init /\ [][Next]_stage

\* Of the calls of one client at most one is inside.
Exclusive ==
    \A r, s \in Calls : stage[r].pc = "inside" /\ stage[s] = stage[r] => r = s
=============================================================================
