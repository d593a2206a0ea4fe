------------------------------ MODULE Gateway ------------------------------
(***************************************************************************)
(* The gateway's connection handlers (src/internal/gateway/gateway.go) on  *)
(* top of the lease service: routing, dialing, the two copying goroutines  *)
(* of a relay, the deferred clean-up, and what closes a connection from    *)
(* outside: the release of its client's lease and the shutdown.  The       *)
(* manager is LeaseService, which LeaseManager implements.                 *)
(***************************************************************************)
EXTENDS LeaseService

VARIABLES
    handlers,  \* one slot per handler goroutine
    closing,   \* connections the goroutine of a release is about to close
    stopping   \* the context of Run is done

gwVars == << holds, uses, handlers, closing, stopping >>
manager == << holds, uses >>

Direct == "direct"
NoUpstream == "closed"

ASSUME NamesAssumption ==
    /\ Direct \notin Proxies /\ NoUpstream \notin Proxies /\ NoProxy \notin Proxies
    /\ NoClient \notin Clients

\* What a handler does next.  sides are the directions still copied: "up" from
\* the client by the handler itself, "down" by a goroutine that may outlive it.
Pcs == {"free", "route", "direct", "acquire", "dial", "relay", "hangup",
        "unregister", "leave", "left"}
Handler == [pc : Pcs, client : Clients \cup {NoClient}, open : BOOLEAN,
            upstream : Proxies \cup {Direct, NoUpstream}, sides : SUBSET {"up", "down"}]
FreeHandler == [pc |-> "free", client |-> NoClient, open |-> FALSE,
                upstream |-> NoUpstream, sides |-> {}]

GwInit ==
    /\ Init
    /\ handlers = [k \in Conns |-> FreeHandler]
    /\ closing = {}
    /\ stopping = FALSE

Goto(k, pc) == handlers' = [handlers EXCEPT ![k].pc = pc]
Registered(k) == uses[k] # Unused

\* Run accepts as long as its listener is open.
accept(k, c) ==
    /\ ~stopping
    /\ handlers[k].pc = "free"
    /\ handlers' = [handlers EXCEPT ![k] =
                      [FreeHandler EXCEPT !.pc = "route", !.client = c, !.open = TRUE]]
    /\ UNCHANGED << manager, closing, stopping >>

\* The target is unknown, on a blocked port or blocked by a rule, is dialed
\* directly, or goes through the client's proxy.
routeAction(k) ==
    /\ handlers[k].pc = "route"
    /\ \E pc \in {"leave", "direct", "acquire"} : Goto(k, pc)
    /\ UNCHANGED << manager, closing, stopping >>

Relays(k, upstream) ==
    handlers' = [handlers EXCEPT ![k].pc = "relay", ![k].upstream = upstream,
                                 ![k].sides = {"up", "down"}]

handleDirect(k) ==
    /\ handlers[k].pc = "direct"
    /\ Goto(k, "leave") \/ Relays(k, Direct)
    /\ UNCHANGED << manager, closing, stopping >>

\* AcquireProxyConn registers the connection, or the client has no usable lease.
acquireProxyConn(k) ==
    /\ handlers[k].pc = "acquire"
    /\ \/ Open(k, handlers[k].client) /\ Goto(k, "dial")
       \/ Goto(k, "leave") /\ UNCHANGED manager
    /\ UNCHANGED << closing, stopping >>

\* The chain of front and proxy is dialed within DialTimeout, whatever happens
\* to the lease and to the client's socket meanwhile.
connectProxy(k) ==
    /\ handlers[k].pc = "dial"
    /\ Goto(k, "unregister") \/ Relays(k, uses[k].proxy)
    /\ UNCHANGED << manager, closing, stopping >>

\* One direction ends, and closes both sockets.
sideEnds(k, side) ==
    /\ side \in handlers[k].sides
    /\ handlers' = [handlers EXCEPT ![k].sides = @ \ {side}, ![k].open = FALSE,
                                    ![k].upstream = NoUpstream]
    /\ UNCHANGED << manager, closing, stopping >>

\* The socket the direction reads from is closed.
SourceClosed(k, side) ==
    IF side = "up" THEN ~handlers[k].open ELSE handlers[k].upstream = NoUpstream

\* Copying ends because of a closed socket, or because of the peers: end of
\* file, an error or the idle deadline.
copyAborts(k, side) == SourceClosed(k, side) /\ sideEnds(k, side)
copyFinishes(k, side) == ~SourceClosed(k, side) /\ sideEnds(k, side)

\* relay returns with the direction the handler copies itself.
relayReturns(k) ==
    /\ handlers[k].pc = "relay"
    /\ "up" \notin handlers[k].sides
    /\ Goto(k, "hangup")
    /\ UNCHANGED << manager, closing, stopping >>

\* Mutated form of hangUp: the deferred calls run in the other order, and the
\* connection is unregistered while its upstream is open.
UnregisterFirst(k) ==
    /\ handlers[k].pc \in {"relay", "hangup"}
    /\ Registered(k)
    /\ Close(k)
    /\ Goto(k, "hangup")
    /\ UNCHANGED << closing, stopping >>

\* The deferred calls: upstream.Close ...
hangUp(k) ==
    /\ handlers[k].pc = "hangup"
    /\ handlers' = [handlers EXCEPT ![k].upstream = NoUpstream,
                                    ![k].pc = IF Registered(k) THEN "unregister" ELSE "leave"]
    /\ UNCHANGED << manager, closing, stopping >>

\* ... UnregisterConn ...
unregisterConn(k) ==
    /\ handlers[k].pc = "unregister"
    /\ Close(k)
    /\ Goto(k, "leave")
    /\ UNCHANGED << closing, stopping >>

\* ... and client.Close.
closeClient(k) ==
    /\ handlers[k].pc = "leave"
    /\ handlers' = [handlers EXCEPT ![k].open = FALSE, ![k].pc = "left"]
    /\ closing' = closing \ {k}
    /\ UNCHANGED << manager, stopping >>

\* The slot is free again when the second goroutine is gone, too.
freeSlot(k) ==
    /\ handlers[k].pc = "left" /\ handlers[k].sides = {}
    /\ handlers' = [handlers EXCEPT ![k] = FreeHandler]
    /\ UNCHANGED << manager, closing, stopping >>

----------------------------------------------------------------------------
(* The manager, and the end of the process.                                *)

\* As LeaseService promises it: the manager itself does not look at connections
\* (takeIdleProxyLocked), which idle proxies have none of without health results.
grant(c, p) ==
    /\ Grant(c, p)
    /\ UNCHANGED << handlers, closing, stopping >>

\* Release and expiry: the lease is gone at once, a goroutine closes the
\* registered connections later.
release(c) ==
    /\ holds[c] # NoProxy
    /\ Withdraw(c)
    /\ closing' = closing \cup {k \in Conns : uses[k].client = c}
    /\ UNCHANGED << handlers, stopping >>

\* The lease is over for new connections before the sweep closes the old ones.
expire(c) ==
    /\ holds[c] # NoProxy
    /\ Withdraw(c)
    /\ UNCHANGED << handlers, closing, stopping >>

sweepExpired(c) ==
    /\ holds[c] = NoProxy
    /\ \E k \in Conns \ closing : uses[k].client = c
    /\ closing' = closing \cup {k \in Conns : uses[k].client = c}
    /\ UNCHANGED << manager, handlers, stopping >>

closeConnection(k) ==
    /\ k \in closing
    /\ closing' = closing \ {k}
    /\ handlers' = [handlers EXCEPT ![k].open = FALSE]
    /\ UNCHANGED << manager, stopping >>

shutdown ==
    /\ ~stopping
    /\ stopping' = TRUE
    /\ UNCHANGED << manager, handlers, closing >>

\* Mutated form of stopClose: the AfterFunc is stopped before the relay begins.
StopCloseEarly(k) ==
    /\ stopping
    /\ handlers[k].open /\ handlers[k].pc # "relay"
    /\ handlers' = [handlers EXCEPT ![k].open = FALSE]
    /\ UNCHANGED << manager, closing, stopping >>

\* The context's AfterFunc closes the client's socket.
stopClose(k) ==
    /\ stopping
    /\ handlers[k].open
    /\ handlers' = [handlers EXCEPT ![k].open = FALSE]
    /\ UNCHANGED << manager, closing, stopping >>

----------------------------------------------------------------------------
Handle(k) ==
    \/ routeAction(k)
    \/ handleDirect(k)
    \/ acquireProxyConn(k)
    \/ connectProxy(k)
    \/ relayReturns(k)
    \/ hangUp(k)
    \/ unregisterConn(k)
    \/ closeClient(k)
    \/ freeSlot(k)

GwNext ==
    \/ \E k \in Conns, c \in Clients : accept(k, c)
    \/ \E k \in Conns : Handle(k) \/ closeConnection(k) \/ stopClose(k)
    \/ \E k \in Conns, side \in {"up", "down"} : copyAborts(k, side) \/ copyFinishes(k, side)
    \/ \E c \in Clients, p \in Proxies : grant(c, p)
    \/ \E c \in Clients : release(c) \/ expire(c) \/ sweepExpired(c)
    \/ shutdown

GwSpec == GwInit /\ [][GwNext]_gwVars

\* A handler's own steps go on: dials have a timeout, and copying from a closed
\* socket fails.  Nothing makes the peers send, close or fall silent.
GwFairSpec ==
    /\ GwSpec
    /\ \A k \in Conns : WF_gwVars(Handle(k)) /\ WF_gwVars(closeConnection(k)) /\ WF_gwVars(stopClose(k))
    /\ \A k \in Conns, side \in {"up", "down"} : WF_gwVars(copyAborts(k, side))

----------------------------------------------------------------------------
(* Properties.                                                             *)

\* Type invariant of the handlers and of the service below them.
TypeOK ==
    /\ holds \in [Clients -> Proxies \cup {NoProxy}]
    /\ uses \in [Conns -> [client : Clients \cup {NoClient}, proxy : Proxies \cup {NoProxy}]]
    /\ handlers \in [Conns -> Handler]
    /\ closing \subseteq Conns
    /\ stopping \in BOOLEAN

\* End to end, an exit is exclusive: as long as a socket through a proxy is
\* open for one client, no other client holds that proxy and no socket of
\* another client goes through it, whatever became of the lease.  It rests on
\* Unshared, which the manager grants by only if no health check makes a proxy
\* idle with connections open (recoveredProxyStatusLocked; with health results
\* LeaseManager violates ExclusiveUse).
ExitExclusive ==
    \A k \in Conns : handlers[k].upstream \in Proxies =>
        /\ \A d \in Clients \ {handlers[k].client} : holds[d] # handlers[k].upstream
        /\ \A j \in Conns : handlers[j].upstream = handlers[k].upstream
              => handlers[j].client = handlers[k].client

\* The manager's registrations and the handlers agree: one is kept exactly from
\* AcquireProxyConn to UnregisterConn, so that none leaks and pins its proxy.
RegistrationMatches ==
    \A k \in Conns :
        /\ Registered(k) => uses[k].client = handlers[k].client
        /\ handlers[k].pc \in {"dial", "unregister"} => Registered(k)
        /\ handlers[k].pc \in {"free", "route", "direct", "acquire", "leave", "left"} => ~Registered(k)

\* A proxy is in use exactly by those who hold it, as sockets and as entries
\* (Serve, AcquireProxyConn, UnregisterConn).
ConnectionsSound == TypeOK /\ ExitExclusive /\ RegistrationMatches

\* A connection that a release or an expiry closes is unregistered in the end,
\* even when it was still being dialed: its proxy returns to the pool.
ReleasedReturns == \A k \in Conns : k \in closing /\ Registered(k) ~> ~Registered(k)

\* After the shutdown every handler and both its goroutines end.
ShutdownEnds == stopping ~> \A k \in Conns : handlers[k].pc = "free"

\* What is closed from outside ends: no proxy and no goroutine stays behind a
\* peer that neither sends nor closes (closeConnections, context.AfterFunc).
ConnectionsEnd == ReleasedReturns /\ ShutdownEnds
=============================================================================
