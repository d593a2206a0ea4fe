---------------------------- MODULE LeaseService ----------------------------
(***************************************************************************)
(* What the gateway promises its clients (src/README.md, "a SOCKS5 proxy   *)
(* is exclusive to one client while active", "the old proxy stays draining *)
(* until old connections close"): a client holds at most one proxy, opens  *)
(* connections only through the one it holds, and nobody is given a proxy  *)
(* that another client holds or still has connections on.                  *)
(***************************************************************************)
CONSTANTS Clients, Proxies, Conns

NoProxy == "noproxy"
NoClient == "noclient"

VARIABLES
    holds,  \* the proxy each client may open connections through
    uses    \* the open connections, by client and proxy

vars == << holds, uses >>

Unused == [client |-> NoClient, proxy |-> NoProxy]

Init ==
    /\ holds = [c \in Clients |-> NoProxy]
    /\ uses = [k \in Conns |-> Unused]

\* No client but c holds p or has a connection on it.
Unshared(p, c) ==
    /\ \A d \in Clients \ {c} : holds[d] # p
    /\ \A k \in Conns : uses[k].proxy = p => uses[k].client = c

\* A first proxy, or another one.
Grant(c, p) ==
    /\ Unshared(p, c)
    /\ holds' = [holds EXCEPT ![c] = p]
    /\ UNCHANGED uses

Revoke(lost) == holds' = [c \in Clients |-> IF c \in lost THEN NoProxy ELSE holds[c]]

Withdraw(c) == Revoke({c}) /\ UNCHANGED uses

Open(k, c) ==
    /\ uses[k] = Unused
    /\ holds[c] # NoProxy
    /\ uses' = [uses EXCEPT ![k] = [client |-> c, proxy |-> holds[c]]]
    /\ UNCHANGED holds

Close(k) ==
    /\ uses' = [uses EXCEPT ![k] = Unused]
    /\ UNCHANGED holds

\* A restart cuts every connection; leases may run out while it is down.
Crash ==
    /\ \E lost \in SUBSET Clients : Revoke(lost)
    /\ uses' = [k \in Conns |-> Unused]

Next ==
    \/ \E c \in Clients, p \in Proxies : Grant(c, p)
    \/ \E c \in Clients : Withdraw(c)
    \/ \E k \in Conns : Close(k) \/ \E c \in Clients : Open(k, c)
    \/ Crash

Spec == Init /\ [][Next]_vars
=============================================================================
