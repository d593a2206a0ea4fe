---------------------------- MODULE GatewayProofs ----------------------------
(***************************************************************************)
(* Proofs about Gateway: for any sets of clients, proxies and connections, *)
(* the sockets through a proxy belong to one client, and registrations     *)
(* agree with the handlers.                                                *)
(***************************************************************************)
EXTENDS Gateway, TLAPS

(***************************************************************************)
(* The inductive invariant.  An open socket through a proxy says nothing   *)
(* about leases by itself.  SocketRegistered ties it to the registration   *)
(* made before it was dialed, and ServiceExclusive is what the manager     *)
(* keeps of its registrations.                                             *)
(***************************************************************************)
Busy == {"dial", "relay", "hangup", "unregister"}

SocketRegistered ==
    \A k \in Conns :
        /\ handlers[k].pc # "free" => handlers[k].client \in Clients
        /\ handlers[k].upstream # NoUpstream => handlers[k].pc \in {"relay", "hangup"}
        /\ handlers[k].upstream \in Proxies => uses[k].proxy = handlers[k].upstream

Registrations ==
    \A k \in Conns : Registered(k) =>
        /\ uses[k].client \in Clients /\ uses[k].proxy \in Proxies
        /\ handlers[k].pc \in Busy

ServiceExclusive ==
    /\ \A k \in Conns, d \in Clients :
          uses[k].proxy \in Proxies /\ holds[d] = uses[k].proxy => uses[k].client = d
    /\ \A j, k \in Conns :
          uses[k].proxy \in Proxies /\ uses[j].proxy = uses[k].proxy => uses[j].client = uses[k].client
    /\ \A c, d \in Clients : holds[c] \in Proxies /\ holds[c] = holds[d] => c = d

IInv == TypeOK /\ RegistrationMatches /\ SocketRegistered /\ Registrations /\ ServiceExclusive

LEMMA InitInv == GwInit => IInv
<1> SUFFICES ASSUME GwInit PROVE IInv
  OBVIOUS
<1>1. /\ \A c \in Clients : holds[c] = NoProxy
      /\ \A k \in Conns : uses[k] = Unused /\ handlers[k] = FreeHandler
  BY DEF GwInit, Init
<1>2. TypeOK
  <2>1. FreeHandler \in Handler
    BY DEF FreeHandler, Handler, Pcs
  <2> QED
    BY <2>1 DEF GwInit, Init, TypeOK, Unused
<1>3. RegistrationMatches /\ Registrations
  BY <1>1 DEF RegistrationMatches, Registrations, Registered, FreeHandler
<1>4. SocketRegistered /\ ServiceExclusive
  BY <1>1, NamesAssumption DEF SocketRegistered, ServiceExclusive, FreeHandler, Unused
<1> QED
  BY <1>2, <1>3, <1>4 DEF IInv

LEMMA Sound == IInv => ConnectionsSound
<1> SUFFICES ASSUME IInv PROVE ExitExclusive
  BY DEF IInv, ConnectionsSound
<1> SUFFICES ASSUME NEW k \in Conns, handlers[k].upstream \in Proxies
             PROVE  /\ \A d \in Clients \ {handlers[k].client} : holds[d] # handlers[k].upstream
                    /\ \A j \in Conns : handlers[j].upstream = handlers[k].upstream
                          => handlers[j].client = handlers[k].client
  BY DEF ExitExclusive
<1>1. \A j \in Conns : handlers[j].upstream \in Proxies =>
         uses[j].proxy = handlers[j].upstream /\ uses[j].client = handlers[j].client
  BY NamesAssumption DEF IInv, SocketRegistered, RegistrationMatches, Registered, Unused
<1> QED
  BY <1>1 DEF IInv, ServiceExclusive

\* A step that moves handlers and leaves the manager alone keeps what only the
\* manager's variables say.
LEMMA ManagerFrame ==
    ASSUME IInv, UNCHANGED manager
    PROVE  /\ ServiceExclusive'
           /\ holds' \in [Clients -> Proxies \cup {NoProxy}]
           /\ uses' \in [Conns -> [client : Clients \cup {NoClient}, proxy : Proxies \cup {NoProxy}]]
  BY DEF IInv, TypeOK, ServiceExclusive, manager

\* One handler k changes: what is asked of the others stays.
LEMMA OneHandler ==
    ASSUME IInv, UNCHANGED manager, NEW k \in Conns, NEW h \in Handler,
           handlers' = [handlers EXCEPT ![k] = h],
           closing' \subseteq Conns, stopping' \in BOOLEAN,
           Registered(k) => h.client = uses[k].client /\ h.pc \in Busy,
           h.pc \in {"dial", "unregister"} => Registered(k),
           h.pc # "free" => h.client \in Clients,
           h.upstream # NoUpstream => h.pc \in {"relay", "hangup"},
           h.upstream \in Proxies => uses[k].proxy = h.upstream
    PROVE  IInv'
<1>1. /\ handlers' \in [Conns -> Handler]
      /\ handlers'[k] = h
      /\ \A j \in Conns : j # k => handlers'[j] = handlers[j]
      /\ uses' = uses /\ holds' = holds
  BY DEF IInv, TypeOK, manager
<1>2. TypeOK' /\ ServiceExclusive'
  BY <1>1, ManagerFrame DEF TypeOK
<1>3. RegistrationMatches'
  <2> SUFFICES ASSUME NEW j \in Conns
               PROVE  /\ Registered(j) => uses[j].client = handlers'[j].client
                      /\ handlers'[j].pc \in {"dial", "unregister"} => Registered(j)
                      /\ handlers'[j].pc \in {"free", "route", "direct", "acquire", "leave", "left"}
                            => ~Registered(j)
    BY <1>1 DEF RegistrationMatches, Registered
  <2>1. CASE j = k
    BY <1>1, <2>1 DEF Busy
  <2>2. CASE j # k
    BY <1>1, <2>2 DEF IInv, RegistrationMatches
  <2> QED
    BY <2>1, <2>2
<1>4. SocketRegistered' /\ Registrations'
  BY <1>1 DEF IInv, SocketRegistered, Registrations, Registered
<1> QED
  BY <1>2, <1>3, <1>4 DEF IInv

\* Registration and its end change the manager and one handler's pc.
LEMMA RegistrationStep ==
    ASSUME IInv, NEW k \in Conns, NEW pc \in Pcs, Goto(k, pc),
           NEW u, uses' = [uses EXCEPT ![k] = u],
           u \in [client : Clients \cup {NoClient}, proxy : Proxies \cup {NoProxy}],
           UNCHANGED << holds, closing, stopping >>,
           handlers[k].pc # "free", handlers[k].upstream = NoUpstream,
           \/ u = Unused /\ pc \notin Busy
           \/ /\ u.client = handlers[k].client /\ u.proxy \in Proxies
              /\ pc = "dial" /\ holds[u.client] = u.proxy
    PROVE  IInv'
<1>1. /\ handlers' \in [Conns -> Handler]
      /\ handlers'[k].pc = pc /\ handlers'[k].client = handlers[k].client
      /\ handlers'[k].upstream = NoUpstream
      /\ \A j \in Conns : j # k => handlers'[j] = handlers[j]
      /\ uses'[k] = u /\ \A j \in Conns : j # k => uses'[j] = uses[j]
      /\ uses' \in [Conns -> [client : Clients \cup {NoClient}, proxy : Proxies \cup {NoProxy}]]
  <2>1. handlers \in [Conns -> Handler] /\ handlers[k] \in Handler
    BY DEF IInv, TypeOK
  <2>2. [handlers[k] EXCEPT !.pc = pc] \in Handler
    BY <2>1 DEF Handler
  <2>3. handlers' = [handlers EXCEPT ![k] = [handlers[k] EXCEPT !.pc = pc]]
    BY DEF Goto
  <2>4. /\ [handlers[k] EXCEPT !.pc = pc].pc = pc
        /\ [handlers[k] EXCEPT !.pc = pc].client = handlers[k].client
        /\ [handlers[k] EXCEPT !.pc = pc].upstream = handlers[k].upstream
    BY <2>1 DEF Handler
  <2>5. uses \in [Conns -> [client : Clients \cup {NoClient}, proxy : Proxies \cup {NoProxy}]]
    BY DEF IInv, TypeOK
  <2>6. /\ uses'[k] = u /\ \A j \in Conns : j # k => uses'[j] = uses[j]
        /\ uses' \in [Conns -> [client : Clients \cup {NoClient}, proxy : Proxies \cup {NoProxy}]]
    BY <2>5
  <2> QED BY <2>1, <2>2, <2>3, <2>4, <2>6
<1>2. TypeOK'
  BY <1>1 DEF IInv, TypeOK
<1>3. handlers[k].client \in Clients
  BY DEF IInv, SocketRegistered
<1>4. RegistrationMatches'
  <2> SUFFICES ASSUME NEW j \in Conns
               PROVE  /\ uses'[j] # Unused => uses'[j].client = handlers'[j].client
                      /\ handlers'[j].pc \in {"dial", "unregister"} => uses'[j] # Unused
                      /\ handlers'[j].pc \in {"free", "route", "direct", "acquire", "leave", "left"}
                            => uses'[j] = Unused
    BY DEF RegistrationMatches, Registered
  <2>1. CASE j = k
    BY <1>1, <2>1, NamesAssumption DEF Busy, Unused
  <2>2. CASE j # k
    BY <1>1, <2>2 DEF IInv, RegistrationMatches, Registered
  <2> QED
    BY <2>1, <2>2
<1>5. SocketRegistered'
  BY <1>1, <1>3, NamesAssumption DEF IInv, SocketRegistered
<1>6. Registrations'
  BY <1>1, <1>3 DEF IInv, Registrations, Registered, Busy
<1>7. ServiceExclusive'
  <2>1. CASE u = Unused
    BY <1>1, <2>1, NamesAssumption DEF IInv, ServiceExclusive, Unused
  <2>2. CASE u.client = handlers[k].client /\ u.proxy \in Proxies /\ holds[u.client] = u.proxy
    BY <1>1, <1>3, <2>2 DEF IInv, ServiceExclusive
  <2> QED
    BY <2>1, <2>2
<1> QED
  BY <1>2, <1>4, <1>5, <1>6, <1>7 DEF IInv

LEMMA OpenInv ==
    ASSUME IInv, NEW k \in Conns, handlers[k].pc = "acquire",
           Open(k, handlers[k].client), Goto(k, "dial"), UNCHANGED << closing, stopping >>
    PROVE  IInv'
<1> DEFINE u == [client |-> handlers[k].client, proxy |-> holds[handlers[k].client]]
<1>1. handlers[k].client \in Clients /\ handlers[k].upstream = NoUpstream
  BY DEF IInv, SocketRegistered
<1>2. holds[handlers[k].client] \in Proxies
  BY <1>1 DEF IInv, TypeOK, Open
<1>3. /\ u \in [client : Clients \cup {NoClient}, proxy : Proxies \cup {NoProxy}]
      /\ u.client = handlers[k].client /\ u.proxy \in Proxies /\ holds[u.client] = u.proxy
      /\ uses' = [uses EXCEPT ![k] = u] /\ holds' = holds
  BY <1>1, <1>2 DEF Open
<1> HIDE DEF u
<1> QED
  BY <1>1, <1>3, RegistrationStep DEF Pcs

LEMMA CloseInv ==
    ASSUME IInv, NEW k \in Conns, unregisterConn(k)
    PROVE  IInv'
<1>1. handlers[k].upstream = NoUpstream
  BY DEF IInv, SocketRegistered, unregisterConn
<1>2. Unused \in [client : Clients \cup {NoClient}, proxy : Proxies \cup {NoProxy}]
  BY DEF Unused
<1> QED
  BY <1>1, <1>2, RegistrationStep DEF unregisterConn, Close, Pcs, Busy

\* The steps of a handler before and after its relay.
LEMMA HandleInv ==
    ASSUME IInv, NEW k \in Conns, Handle(k)
    PROVE  IInv'
<1> DEFINE h == handlers[k]
<1>1. /\ h \in Handler
      /\ handlers \in [Conns -> Handler]
      /\ closing \subseteq Conns /\ stopping \in BOOLEAN
      /\ Registered(k) => uses[k].client = h.client /\ h.pc \in Busy
      /\ h.pc \in {"dial", "unregister"} => Registered(k)
      /\ h.pc \in {"free", "route", "direct", "acquire", "leave", "left"} => ~Registered(k)
      /\ h.pc # "free" => h.client \in Clients
      /\ h.upstream # NoUpstream => h.pc \in {"relay", "hangup"}
      /\ h.upstream \in Proxies => uses[k].proxy = h.upstream
  BY DEF IInv, TypeOK, RegistrationMatches, SocketRegistered, Registrations
\* Going on from pc to next, both with the connection registered or both without.
<1>2. ASSUME NEW pc \in Pcs, Goto(k, pc), UNCHANGED << manager, closing, stopping >>,
             h.upstream # NoUpstream => pc \in {"relay", "hangup"},
             Registered(k) => pc \in Busy, pc \in {"dial", "unregister"} => Registered(k),
             h.pc # "free"
      PROVE  IInv'
  <2> DEFINE g == [h EXCEPT !.pc = pc]
  <2>1. /\ g \in Handler /\ handlers' = [handlers EXCEPT ![k] = g]
        /\ g.pc = pc /\ g.client = h.client /\ g.upstream = h.upstream
    BY <1>1, <1>2 DEF Handler, Goto
  <2> HIDE DEF g
  <2> QED
    BY <1>1, <1>2, <2>1, OneHandler
<1>3. CASE routeAction(k)
  BY <1>1, <1>2, <1>3 DEF routeAction, Pcs, Busy
<1>4. ASSUME NEW u \in Proxies \cup {Direct}, Relays(k, u), UNCHANGED << manager, closing, stopping >>,
             h.pc # "free", u \in Proxies => uses[k].proxy = u
      PROVE  IInv'
  <2> DEFINE g == [h EXCEPT !.pc = "relay", !.upstream = u, !.sides = {"up", "down"}]
  <2>1. /\ g \in Handler /\ handlers' = [handlers EXCEPT ![k] = g]
        /\ g.pc = "relay" /\ g.client = h.client /\ g.upstream = u
    BY <1>1, <1>4 DEF Handler, Relays, Pcs
  <2> HIDE DEF g
  <2> QED
    BY <1>1, <1>4, <2>1, OneHandler DEF Busy
<1>5. CASE handleDirect(k)
  BY <1>1, <1>2, <1>4, <1>5, NamesAssumption DEF handleDirect, Pcs, Busy
<1>6. CASE connectProxy(k)
  BY <1>1, <1>2, <1>4, <1>6 DEF connectProxy, Pcs, Busy, IInv, Registrations
<1>7. CASE relayReturns(k)
  BY <1>1, <1>2, <1>7 DEF relayReturns, Pcs, Busy
<1>8. CASE hangUp(k)
  <2> DEFINE g == [h EXCEPT !.upstream = NoUpstream, !.pc = IF Registered(k) THEN "unregister" ELSE "leave"]
  <2>1. /\ g \in Handler /\ handlers' = [handlers EXCEPT ![k] = g]
        /\ g.pc = IF Registered(k) THEN "unregister" ELSE "leave"
        /\ g.client = h.client /\ g.upstream = NoUpstream
    BY <1>1, <1>8 DEF Handler, hangUp, Pcs
  <2> HIDE DEF g
  <2> QED
    <3>1. /\ Registered(k) => g.client = uses[k].client /\ g.pc \in Busy
          /\ g.pc \in {"dial", "unregister"} => Registered(k)
          /\ g.client \in Clients /\ g.upstream \notin Proxies
      BY <1>1, <1>8, <2>1, NamesAssumption DEF hangUp, Busy
    <3>2. UNCHANGED manager /\ closing' = closing /\ stopping' = stopping
      BY <1>8 DEF hangUp
    <3> QED
      BY <1>1, <2>1, <3>1, <3>2, OneHandler
<1>9. CASE closeClient(k)
  <2> DEFINE g == [h EXCEPT !.open = FALSE, !.pc = "left"]
  <2>1. /\ g \in Handler /\ handlers' = [handlers EXCEPT ![k] = g]
        /\ g.pc = "left" /\ g.client = h.client /\ g.upstream = h.upstream
    BY <1>1, <1>9 DEF Handler, closeClient, Pcs
  <2> HIDE DEF g
  <2> QED
    <3>1. ~Registered(k) /\ g.client \in Clients /\ g.upstream = NoUpstream
      BY <1>1, <1>9, <2>1 DEF closeClient
    <3>2. UNCHANGED manager /\ closing' \subseteq Conns /\ stopping' = stopping
      BY <1>1, <1>9 DEF closeClient
    <3> QED
      BY <1>1, <2>1, <3>1, <3>2, OneHandler, NamesAssumption
<1>10. CASE freeSlot(k)
  <2>1. FreeHandler \in Handler /\ FreeHandler.upstream = NoUpstream /\ FreeHandler.pc = "free"
    BY DEF FreeHandler, Handler, Pcs
  <2> QED
    BY <1>1, <1>10, <2>1, OneHandler, NamesAssumption DEF freeSlot
<1>11. CASE acquireProxyConn(k)
  <2>1. CASE Goto(k, "leave") /\ UNCHANGED manager
    BY <1>1, <1>2, <1>11, <2>1 DEF acquireProxyConn, Pcs
  <2>2. CASE Open(k, h.client) /\ Goto(k, "dial")
    BY <1>1, <1>11, <2>2, OpenInv DEF acquireProxyConn
  <2> QED
    BY <1>11, <2>1, <2>2 DEF acquireProxyConn
<1>12. CASE unregisterConn(k)
  BY <1>12, CloseInv
<1> QED
  BY <1>3, <1>5, <1>6, <1>7, <1>8, <1>9, <1>10, <1>11, <1>12 DEF Handle

\* One direction ends, or a socket is closed from outside: the socket to the
\* proxy is given up or kept, and the handler stays where it is.
LEMMA SocketsClose ==
    ASSUME IInv, NEW k \in Conns, NEW h \in Handler, handlers' = [handlers EXCEPT ![k] = h],
           h.pc = handlers[k].pc, h.client = handlers[k].client,
           h.upstream \in {handlers[k].upstream, NoUpstream},
           UNCHANGED manager, closing' \subseteq Conns, stopping' \in BOOLEAN
    PROVE  IInv'
<1>1. /\ Registered(k) => uses[k].client = h.client /\ h.pc \in Busy
      /\ h.pc \in {"dial", "unregister"} => Registered(k)
      /\ h.pc # "free" => h.client \in Clients
      /\ h.upstream # NoUpstream => h.pc \in {"relay", "hangup"}
      /\ h.upstream \in Proxies => uses[k].proxy = h.upstream
  BY NamesAssumption DEF IInv, RegistrationMatches, SocketRegistered, Registrations
<1> QED
  BY <1>1, OneHandler

LEMMA CopyInv ==
    ASSUME IInv, NEW k \in Conns, NEW side \in {"up", "down"}, sideEnds(k, side)
    PROVE  IInv'
<1> DEFINE g == [handlers[k] EXCEPT !.sides = @ \ {side}, !.open = FALSE, !.upstream = NoUpstream]
<1>1. /\ g \in Handler /\ handlers' = [handlers EXCEPT ![k] = g]
      /\ g.pc = handlers[k].pc /\ g.client = handlers[k].client /\ g.upstream = NoUpstream
  BY DEF IInv, TypeOK, Handler, sideEnds
<1>2. UNCHANGED manager /\ closing' \subseteq Conns /\ stopping' \in BOOLEAN
  BY DEF IInv, TypeOK, sideEnds
<1> HIDE DEF g
<1> QED
  BY <1>1, <1>2, SocketsClose

LEMMA CloseFromOutsideInv ==
    ASSUME IInv, NEW k \in Conns, closeConnection(k) \/ stopClose(k)
    PROVE  IInv'
<1> DEFINE g == [handlers[k] EXCEPT !.open = FALSE]
<1>1. /\ g \in Handler /\ handlers' = [handlers EXCEPT ![k] = g]
      /\ g.pc = handlers[k].pc /\ g.client = handlers[k].client
      /\ g.upstream = handlers[k].upstream
  <2>1. handlers[k] \in Handler
    BY DEF IInv, TypeOK
  <2>2. handlers' = [handlers EXCEPT ![k] = g]
    BY DEF closeConnection, stopClose
  <2>3. /\ g \in Handler
        /\ g.pc = handlers[k].pc /\ g.client = handlers[k].client
        /\ g.upstream = handlers[k].upstream
    BY <2>1 DEF Handler
  <2> QED BY <2>2, <2>3
<1>2. UNCHANGED manager /\ closing' \subseteq Conns /\ stopping' \in BOOLEAN
  BY DEF IInv, TypeOK, closeConnection, stopClose
<1> HIDE DEF g
<1> QED
  BY <1>1, <1>2, SocketsClose

LEMMA AcceptInv ==
    ASSUME IInv, NEW k \in Conns, NEW c \in Clients, accept(k, c)
    PROVE  IInv'
<1> DEFINE g == [FreeHandler EXCEPT !.pc = "route", !.client = c, !.open = TRUE]
<1>1. /\ g \in Handler /\ handlers' = [handlers EXCEPT ![k] = g]
      /\ g.pc = "route" /\ g.client = c /\ g.upstream = NoUpstream
  BY DEF FreeHandler, Handler, Pcs, accept
<1>2. ~Registered(k)
  BY DEF IInv, RegistrationMatches, accept
<1>3. UNCHANGED manager /\ closing' \subseteq Conns /\ stopping' \in BOOLEAN
  BY DEF IInv, TypeOK, accept
<1> HIDE DEF g
<1> QED
  BY <1>1, <1>2, <1>3, OneHandler, NamesAssumption

\* The manager gives a proxy only to a client whom no other stands in the way.
LEMMA GrantInv ==
    ASSUME IInv, NEW c \in Clients, NEW p \in Proxies, grant(c, p)
    PROVE  IInv'
<1>1. /\ holds' \in [Clients -> Proxies \cup {NoProxy}]
      /\ holds'[c] = p /\ \A d \in Clients : d # c => holds'[d] = holds[d] /\ holds[d] # p
      /\ \A k \in Conns : uses[k].proxy = p => uses[k].client = c
      /\ uses' = uses
  BY DEF IInv, TypeOK, grant, Grant, Unshared
<1>2. ServiceExclusive'
  BY <1>1 DEF IInv, ServiceExclusive
<1> QED
  BY <1>1, <1>2 DEF IInv, TypeOK, RegistrationMatches, SocketRegistered, Registrations, Registered, grant

LEMMA WithdrawInv ==
    ASSUME IInv, NEW c \in Clients, Withdraw(c), closing' \subseteq Conns,
           UNCHANGED << handlers, stopping >>
    PROVE  IInv'
<1>1. /\ holds' \in [Clients -> Proxies \cup {NoProxy}] /\ uses' = uses
      /\ \A d \in Clients : holds'[d] = holds[d] \/ holds'[d] = NoProxy
  BY DEF IInv, TypeOK, Withdraw, Revoke
<1>2. ServiceExclusive'
  BY <1>1, NamesAssumption DEF IInv, ServiceExclusive
<1> QED
  BY <1>1, <1>2 DEF IInv, TypeOK, RegistrationMatches, SocketRegistered, Registrations, Registered

\* Steps that only note what is to be closed.
LEMMA NotesInv ==
    ASSUME IInv, closing' \subseteq Conns, stopping' \in BOOLEAN, UNCHANGED << manager, handlers >>
    PROVE  IInv'
<1>1. holds' = holds /\ uses' = uses /\ handlers' = handlers
  BY DEF manager
<1> QED
  BY <1>1 DEF IInv, TypeOK, RegistrationMatches, SocketRegistered, Registrations, Registered,
              ServiceExclusive

LEMMA NextInv == IInv /\ [GwNext]_gwVars => IInv'
<1> SUFFICES ASSUME IInv, [GwNext]_gwVars PROVE IInv'
  OBVIOUS
<1>1. closing \subseteq Conns /\ stopping \in BOOLEAN
  BY DEF IInv, TypeOK
<1>2. CASE \E k \in Conns, c \in Clients : accept(k, c)
  BY <1>2, AcceptInv
<1>3. CASE \E k \in Conns : Handle(k) \/ closeConnection(k) \/ stopClose(k)
  BY <1>3, HandleInv, CloseFromOutsideInv
<1>4. CASE \E k \in Conns, side \in {"up", "down"} : copyAborts(k, side) \/ copyFinishes(k, side)
  BY <1>4, CopyInv DEF copyAborts, copyFinishes
<1>5. CASE \E c \in Clients, p \in Proxies : grant(c, p)
  BY <1>5, GrantInv
<1>6. CASE \E c \in Clients : release(c) \/ expire(c)
  BY <1>1, <1>6, WithdrawInv DEF release, expire
<1>7. CASE \E c \in Clients : sweepExpired(c)
  BY <1>1, <1>7, NotesInv DEF sweepExpired
<1>8. CASE shutdown
  BY <1>1, <1>8, NotesInv DEF shutdown
<1>9. CASE UNCHANGED gwVars
  BY <1>1, <1>9, NotesInv DEF gwVars, manager
<1> QED
  BY <1>2, <1>3, <1>4, <1>5, <1>6, <1>7, <1>8, <1>9 DEF GwNext

\* While a socket through a proxy is open for one client, no other client holds
\* the proxy or has a socket through it, and the manager's registrations are
\* those of the handlers (handleProxied, AcquireProxyConn, UnregisterConn).
THEOREM ConnectionsAreSound == GwSpec => []ConnectionsSound
<1>1. GwSpec => []IInv
  BY InitInv, NextInv, PTL DEF GwSpec
<1> QED
  BY <1>1, Sound, PTL

\* The gateway uses the manager as LeaseService allows: what its handlers do is
\* an operation of the service or none.
THEOREM GatewayUsesService == GwSpec => Spec
<1>1. GwInit => Init
  BY DEF GwInit
<1>2. IInv /\ [GwNext]_gwVars => [Next]_vars
  <2> SUFFICES ASSUME IInv, [GwNext]_gwVars PROVE Next \/ UNCHANGED vars
    OBVIOUS
  <2>1. ASSUME NEW k \in Conns, Handle(k) PROVE Next \/ UNCHANGED vars
    <3>1. CASE acquireProxyConn(k)
      <4>1. handlers[k].client \in Clients
        BY <3>1 DEF acquireProxyConn, IInv, SocketRegistered
      <4> QED
        BY <3>1, <4>1 DEF acquireProxyConn, Next, manager, vars
    <3>2. CASE unregisterConn(k)
      BY <3>2 DEF unregisterConn, Next
    <3>3. CASE routeAction(k) \/ handleDirect(k) \/ connectProxy(k) \/ relayReturns(k)
                 \/ hangUp(k) \/ closeClient(k) \/ freeSlot(k)
      BY <3>3 DEF routeAction, handleDirect, connectProxy, relayReturns, hangUp, closeClient,
                  freeSlot, manager, vars
    <3> QED
      BY <2>1, <3>1, <3>2, <3>3 DEF Handle
  <2>2. ASSUME NEW c \in Clients, release(c) \/ expire(c) \/ sweepExpired(c)
        PROVE  Next \/ UNCHANGED vars
    BY <2>2 DEF release, expire, sweepExpired, Next, manager, vars
  <2>3. ASSUME NEW c \in Clients, NEW p \in Proxies, grant(c, p) PROVE Next
    BY <2>3 DEF grant, Next
  <2>4. ASSUME NEW k \in Conns, NEW side \in {"up", "down"}, copyAborts(k, side) \/ copyFinishes(k, side)
        PROVE  UNCHANGED vars
    BY <2>4 DEF copyAborts, copyFinishes, sideEnds, manager, vars
  <2>5. ASSUME NEW k \in Conns, closeConnection(k) \/ stopClose(k) PROVE UNCHANGED vars
    BY <2>5 DEF closeConnection, stopClose, manager, vars
  <2>6. ASSUME NEW k \in Conns, NEW c \in Clients, accept(k, c) PROVE UNCHANGED vars
    BY <2>6 DEF accept, manager, vars
  <2>7. CASE shutdown \/ UNCHANGED gwVars
    BY <2>7 DEF shutdown, gwVars, manager, vars
  <2> QED
    BY <2>1, <2>2, <2>3, <2>4, <2>5, <2>6, <2>7 DEF GwNext
<1>3. GwSpec => []IInv
  BY InitInv, NextInv, PTL DEF GwSpec
<1> QED
  BY <1>1, <1>2, <1>3, PTL DEF GwSpec, Spec
=============================================================================
