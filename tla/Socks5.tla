------------------------------- MODULE Socks5 -------------------------------
(***************************************************************************)
(* One call through one or two SOCKS5 servers                              *)
(* (src/internal/outbound/socks5.go, and Connect, connectDirect,           *)
(* connectThroughFront and ConnectFront of connector.go): the exchange,    *)
(* the goroutine that cuts it when the context ends, what of it is         *)
(* reported, and what is recorded about the front.                         *)
(***************************************************************************)
EXTENDS Naturals, Sequences

\* Which calls may be made: "through" (connectThroughFront), "direct"
\* (connectDirect), "test" (ConnectFront), "given" (ConnectSOCKS5 on a
\* connection of the caller's).
CONSTANT Kinds

ASSUME KindsAssumption == Kinds \subseteq {"through", "direct", "test", "given"}

VARIABLES
    call,      \* the call's kind, credentials and what its context may do
    pc,        \* where the call is
    hop,       \* the server it talks to
    ctx,       \* what ctx.Err() says
    late,      \* the context's deadline has passed
    conn,      \* the connection
    deadline,  \* the connection's deadline: none, the context's, or in the past
    watcher,   \* the goroutine of bindConnContext
    stop,      \* the channel that ends it is closed
    spoke,     \* servers that answered the greeting
    attempt,   \* the front attempt: "none", "open" or "resolved"
    verdicts,  \* what was recorded about the front, in order
    failure,   \* what made the exchange fail, and at which stage
    result     \* what the call returns

bound == << ctx, late, deadline, watcher, stop >>
evidence == << attempt, verdicts >>
vars == << call, pc, hop, bound, conn, spoke, evidence, failure, result >>

Hops == {"front", "exit"}
Stages == {"Dial", "Handshake", "Auth", "Connect"}
Creds == {"none", "given", "long"}  \* long: more than 255 bytes
Call == [kind : Kinds, creds : [Hops -> Creds], cancelable : BOOLEAN, limited : BOOLEAN]

NoFailure == [stage |-> "Dial", cut |-> FALSE]
Phase(h, s) == [hop |-> h, stage |-> s]
Phases == [hop : Hops, stage : Stages]
Nothing == Phase("none", "none")
Canceled == Phase("none", "canceled")
Expired == Phase("none", "expired")
CircuitOpen == Phase("front", "circuit")
SocksError == Phase("none", "error")
Connection == Phase("none", "connection")

FirstHop == IF call.kind \in {"through", "test"} THEN "front" ELSE "exit"
LastHop == IF call.kind = "test" THEN "front" ELSE "exit"

\* New refuses long credentials of the front.
Init ==
    /\ call \in {c \in Call : /\ c.creds["front"] # "long"
                              /\ c.limited => c.cancelable}
    /\ pc = "begin" /\ hop = "exit"
    /\ ctx = "live" /\ late = FALSE
    /\ conn = IF call.kind = "given" THEN "open" ELSE "none"
    /\ deadline = "none" /\ watcher = "off" /\ stop = FALSE
    /\ spoke = {}
    /\ attempt = "none" /\ verdicts = << >>
    /\ failure = NoFailure /\ result = Nothing

----------------------------------------------------------------------------
(* The context, and the goroutine that watches it.                         *)

cancel ==
    /\ call.cancelable /\ ctx = "live"
    /\ ctx' = "canceled"
    /\ UNCHANGED << call, pc, hop, late, conn, deadline, watcher, stop, spoke, evidence,
                    failure, result >>

deadlinePasses ==
    /\ call.limited /\ ~late
    /\ late' = TRUE
    /\ UNCHANGED << call, pc, hop, ctx, conn, deadline, watcher, stop, spoke, evidence,
                    failure, result >>

contextExpires ==
    /\ late /\ ctx = "live"
    /\ ctx' = "expired"
    /\ UNCHANGED << call, pc, hop, late, conn, deadline, watcher, stop, spoke, evidence,
                    failure, result >>

\* select: when the context has ended and the channel is closed, either wins.
watcherWakes ==
    /\ watcher = "waiting"
    /\ \/ ctx # "live" /\ watcher' = "cutting"
       \/ stop /\ watcher' = "stopped"
    /\ UNCHANGED << call, pc, hop, ctx, late, conn, deadline, stop, spoke, evidence,
                    failure, result >>

\* Mutated form of watcherCuts: the goroutine ends and cuts nothing.
WatcherCutsNothing ==
    /\ watcher = "cutting"
    /\ watcher' = "stopped"
    /\ UNCHANGED << call, pc, hop, ctx, late, conn, deadline, stop, spoke, evidence,
                    failure, result >>

watcherCuts ==
    /\ watcher = "cutting"
    /\ deadline' = "past"
    /\ watcher' = "stopped"
    /\ UNCHANGED << call, pc, hop, ctx, late, conn, stop, spoke, evidence, failure, result >>

\* Reads and writes fail at once.
Cut == deadline = "past" \/ (deadline = "context" /\ late)

----------------------------------------------------------------------------
(* The call.                                                               *)

Returns(r) == result' = r /\ pc' = "done"

Fails(stage, cut) == failure' = [stage |-> stage, cut |-> cut] /\ pc' = "failed"

\* Connect and ConnectFront look at the context and the credentials before they
\* begin an attempt, which an open circuit refuses.
begin ==
    /\ pc = "begin"
    /\ hop' = FirstHop
    /\ \/ /\ ctx # "live"
          /\ Returns(IF ctx = "canceled" THEN Canceled ELSE Expired)
          /\ UNCHANGED attempt
       \/ /\ ctx = "live"
          /\ call.kind \in {"through", "direct"} /\ call.creds["exit"] = "long"
          /\ Returns(Phase("exit", "Auth"))
          /\ UNCHANGED attempt
       \/ /\ ctx = "live"
          /\ call.kind \in {"through", "direct"} => call.creds["exit"] # "long"
          /\ \/ /\ call.kind \in {"through", "test"}
                /\ \/ attempt' = "open" /\ pc' = "dial" /\ UNCHANGED result
                   \/ Returns(CircuitOpen) /\ UNCHANGED attempt
             \/ /\ call.kind \in {"direct", "given"}
                /\ pc' = IF call.kind = "given" THEN "bind" ELSE "dial"
                /\ UNCHANGED << attempt, result >>
    /\ UNCHANGED << call, bound, conn, spoke, verdicts, failure >>

dial ==
    /\ pc = "dial"
    /\ \/ pc' = "bind" /\ conn' = "open" /\ UNCHANGED failure
       \/ Fails("Dial", ctx # "live") /\ UNCHANGED conn
    /\ UNCHANGED << call, hop, bound, spoke, evidence, result >>

bindConnContext ==
    /\ pc = "bind"
    /\ \/ /\ ctx # "live"
          /\ Fails("Handshake", TRUE)
          /\ UNCHANGED << deadline, watcher >>
       \/ /\ ctx = "live"
          /\ deadline' = IF call.limited THEN "context" ELSE "none"
          /\ watcher' = IF call.cancelable THEN "waiting" ELSE "off"
          /\ pc' = "greet"
          /\ UNCHANGED failure
    /\ UNCHANGED << call, hop, ctx, late, conn, stop, spoke, evidence, result >>

Records(verdict) == attempt' = "resolved" /\ verdicts' = Append(verdicts, verdict)

\* An exit that answers through the front proves the front.
onMethodSelection ==
    IF call.kind = "through" /\ hop = "exit" THEN Records("success") ELSE UNCHANGED evidence

\* A server's method selection: none, password, or one the call cannot use.
greet ==
    /\ pc = "greet"
    /\ \/ /\ ~Cut /\ call.creds[hop] # "long"
          /\ spoke' = spoke \cup {hop}
          /\ onMethodSelection
          /\ \/ pc' = "connect" /\ UNCHANGED failure
             \/ call.creds[hop] # "none" /\ pc' = "auth" /\ UNCHANGED failure
             \/ Fails("Auth", FALSE)
       \/ /\ call.creds[hop] = "long"
          /\ Fails("Auth", FALSE)
          /\ UNCHANGED << spoke, evidence >>
       \/ /\ call.creds[hop] # "long"
          /\ Fails("Handshake", Cut)
          /\ UNCHANGED << spoke, evidence >>
    /\ UNCHANGED << call, hop, bound, conn, result >>

authenticate ==
    /\ pc = "auth"
    /\ \/ ~Cut /\ pc' = "connect" /\ UNCHANGED failure
       \/ Fails("Auth", Cut)
    /\ UNCHANGED << call, hop, bound, conn, spoke, evidence, result >>

\* Behind the front's reply the connection is a tunnel to the exit.
connect ==
    /\ pc = "connect"
    /\ \/ /\ ~Cut /\ hop # LastHop
          /\ hop' = "exit" /\ pc' = "greet"
          /\ UNCHANGED failure
       \/ /\ ~Cut /\ hop = LastHop
          /\ pc' = "succeeded"
          /\ UNCHANGED << hop, failure >>
       \/ Fails("Connect", Cut) /\ UNCHANGED hop
    /\ UNCHANGED << call, bound, conn, spoke, evidence, result >>

\* A test whose attempt was superseded reports the circuit.
succeed ==
    /\ pc = "succeeded"
    /\ pc' = "cleanup"
    /\ IF call.kind = "test"
       THEN \/ Records("success") /\ result' = Connection
            \/ Records("stale") /\ result' = CircuitOpen
       ELSE result' = Connection /\ UNCHANGED evidence
    /\ UNCHANGED << call, hop, bound, conn, spoke, failure >>

\* Until the exit answers, a broken tunnel is the front's failure to connect.
FailedPhase ==
    IF call.kind = "through" /\ hop = "exit" /\ "exit" \notin spoke
    THEN Phase("front", "Connect")
    ELSE Phase(hop, failure.stage)

\* Mutated form of Ended: a canceled call is reported like any other.
EndedGiven == call.kind = "given" /\ ctx # "live"

\* Calls on the connector report only a cancellation as such.
Ended == ctx = "canceled" \/ (call.kind = "given" /\ ctx # "live")

classify ==
    /\ pc = "failed"
    /\ pc' = IF watcher = "off" THEN "close" ELSE "cleanup"
    /\ IF Ended
       THEN /\ result' = IF ctx = "canceled" THEN Canceled ELSE Expired
            /\ UNCHANGED evidence
       ELSE /\ result' = IF call.kind = "given" THEN SocksError ELSE FailedPhase
            /\ IF attempt = "open"
               THEN Records(IF call.kind = "through" /\ FailedPhase.stage = "Connect"
                            THEN "ambiguous" ELSE "failure")
               ELSE UNCHANGED evidence
    /\ UNCHANGED << call, hop, bound, conn, spoke, failure >>

\* The cleanup that bindConnContext returned: close the channel, wait for the
\* goroutine, clear the deadline.
cleanup ==
    /\ pc = "cleanup"
    /\ stop' = TRUE
    /\ pc' = IF watcher = "off" THEN "close" ELSE "await"
    /\ UNCHANGED << call, hop, ctx, late, conn, deadline, watcher, spoke, evidence, failure,
                    result >>

\* Mutated form of await: the goroutine is not waited for.
AwaitNothing ==
    /\ pc = "await"
    /\ deadline' = "none"
    /\ pc' = "close"
    /\ UNCHANGED << call, hop, ctx, late, conn, watcher, stop, spoke, evidence, failure, result >>

await ==
    /\ pc = "await"
    /\ watcher = "stopped"
    /\ deadline' = "none"
    /\ pc' = "close"
    /\ UNCHANGED << call, hop, ctx, late, conn, watcher, stop, spoke, evidence, failure, result >>

\* The deferred close, and abandonFrontAttempt.
finish ==
    /\ pc = "close"
    /\ pc' = "done"
    /\ conn' = IF conn = "open" /\ result # Connection /\ call.kind # "given"
               THEN "closed" ELSE conn
    /\ IF attempt = "open" THEN Records("abandoned") ELSE UNCHANGED evidence
    /\ UNCHANGED << call, hop, bound, spoke, failure, result >>

----------------------------------------------------------------------------
\* What the call does without hearing from a server.
LocalStep ==
    begin \/ bindConnContext \/ succeed \/ classify \/ cleanup \/ await \/ finish

Exchange == dial \/ greet \/ authenticate \/ connect

Next ==
    \/ cancel \/ deadlinePasses \/ contextExpires
    \/ watcherWakes \/ watcherCuts
    \/ LocalStep
    \/ Exchange

Spec == Init /\ [][Next]_vars

\* A server may stay silent for ever; a dial and an exchange end once the
\* context or the connection's deadline cuts them.
FairSpec ==
    /\ Spec
    /\ WF_vars(LocalStep)
    /\ WF_vars(pc = "dial" /\ ctx # "live" /\ dial)
    /\ WF_vars(Cut /\ Exchange)
    /\ WF_vars(deadlinePasses) /\ WF_vars(contextExpires)
    /\ WF_vars(watcherWakes) /\ WF_vars(watcherCuts)

----------------------------------------------------------------------------
(* Properties.                                                             *)

\* Type invariant of the call, its connection and its context.
TypeOK ==
    /\ call \in Call
    /\ pc \in {"begin", "dial", "bind", "greet", "auth", "connect", "succeeded", "failed",
               "cleanup", "await", "close", "done"}
    /\ hop \in Hops /\ spoke \subseteq Hops
    /\ ctx \in {"live", "canceled", "expired"} /\ late \in BOOLEAN
    /\ conn \in {"none", "open", "closed"}
    /\ deadline \in {"none", "context", "past"}
    /\ watcher \in {"off", "waiting", "cutting", "stopped"} /\ stop \in BOOLEAN
    /\ attempt \in {"none", "open", "resolved"}
    /\ verdicts \in Seq({"success", "failure", "ambiguous", "stale", "abandoned"})
    /\ failure \in [stage : Stages, cut : BOOLEAN]
    /\ result \in Phases \cup {Nothing, Canceled, Expired, CircuitOpen, SocksError, Connection}

\* A connection that is handed over has no deadline left and nobody who sets
\* one: a context that ends later must not cut the relay (bindConnContext).
HandedOverClean ==
    pc = "done" /\ result = Connection =>
        /\ conn = "open" /\ deadline = "none"
        /\ watcher \in {"off", "stopped"}

\* A failed call leaves no connection open, except the caller's own.
FailedIsClosed ==
    pc = "done" /\ result # Connection /\ call.kind # "given" => conn # "open"

\* Every attempt is recorded exactly once, as a success exactly when the exit
\* answered through the front or the test got through (attemptResolved).
OneVerdict ==
    /\ Len(verdicts) <= 1
    /\ attempt = "none" => verdicts = << >>
    /\ pc = "done" /\ attempt # "none" => Len(verdicts) = 1
    /\ call.kind = "through" => ("exit" \in spoke <=> verdicts = << "success" >>)

\* An exit is blamed only after it answered through the front, and the front is
\* not blamed any more once it has (connectThroughFront).
BlameFollowsAnswer ==
    call.kind = "through" /\ spoke # {} /\ result \in Phases =>
        (result.hop = "exit" <=> "exit" \in spoke)

\* What a cancellation cuts off is reported as the cancellation: it is neither
\* a failure of the front nor of the exit (ctx.Err() after a failed exchange).
CancelNotBlamed ==
    pc \in {"cleanup", "await", "close", "done"} /\ failure.cut /\ result \in Phases => late

\* What a call hands over, reports and records agrees with what the servers
\* answered and with who ended it.
CallSound ==
    /\ TypeOK
    /\ HandedOverClean /\ FailedIsClosed
    /\ OneVerdict /\ BlameFollowsAnswer /\ CancelNotBlamed

\* A call whose context has ended returns, however silent the servers are, and
\* one with a deadline returns anyway.
CallEnds == (ctx # "live" \/ call.limited) ~> pc = "done"
=============================================================================
