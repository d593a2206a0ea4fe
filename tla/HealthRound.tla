---------------------------- MODULE HealthRound ----------------------------
(***************************************************************************)
(* A round of health checks through the front (checkAll and recordHealth   *)
(* of src/internal/manager/health.go) on top of the connector's circuit    *)
(* breaker, which the rounds share with the clients' traffic.              *)
(*                                                                         *)
(* What the probes meet is a world of its own: the front may be up, down,  *)
(* or wedged (it accepts connections and reaches no exit), and an exit     *)
(* answers or is dead.  The code sees only how attempts end, and has to    *)
(* tell a dead exit from a front that fails.  Every attempt of Connector   *)
(* is a worker's or a client's here, and goes to an exit.                  *)
(***************************************************************************)
EXTENDS Connector

CONSTANTS
    Proxies,      \* IDs of the pool's proxies
    Workers,      \* goroutines of a round; one of them is
    Preflight,    \* the round's own, which makes the preflight probe
    Traffic,      \* slots for the attempts of clients
    Alive,        \* the exits that answer
    Flaky,        \* those of them that may refuse after selecting a method
    AddressOf,    \* address of a proxy
    FailureThreshold, SuccessThreshold,
    Events        \* which events of the environment may happen

ASSUME WorkersAssumption == Preflight \in Workers /\ Workers \cap Traffic = {}
ASSUME AttemptsAssumption == Attempts = Workers \cup Traffic
ASSUME ExitsAssumption ==
    /\ IsFiniteSet(Exits) /\ AddressOf \in [Proxies -> Exits]
    /\ Flaky \subseteq Alive /\ Alive \subseteq Exits
ASSUME ThresholdAssumption ==
    FailureThreshold \in Nat \ {0} /\ SuccessThreshold \in Nat \ {0}
ASSUME EventsAssumption == Events \subseteq {"front", "disable"}

VARIABLES
    phase,      \* of the round: "idle", "preflight", "probing", "judging"
    todo,       \* proxies not handed to a worker yet
    work,       \* what each worker is doing
    results,    \* of the probes that ended
    skipped,    \* skippedCandidate
    cancelled,  \* roundCtx is done
    seen,       \* what RecentFrontEvidence returned to the round
    health,     \* FailureCount, SuccessCount and status of the proxies
    offline,    \* proxies that proxyCheckSnapshot refuses
    front,      \* the truth about the front
    steady      \* history: the front has not changed since the round began

round == << phase, todo, work, results, skipped, cancelled, seen >>
world == << offline, front >>
hrVars == << vars, round, health, world, steady >>

NoProxy == "noproxy"
NoToken == [generation |-> 0, sequence |-> 0]
NoEvidence == [exit |-> NoDestination, generation |-> 0, sequence |-> 0]
Ready == [stage |-> "ready", proxy |-> NoProxy, token |-> NoToken]

\* stage: "preflight" and "socks" for the SOCKS5 probe, "exitip" for the one
\* that asks for the exit's IP, "gone" for a worker that has returned.
Work == [stage : {"ready", "preflight", "socks", "exitip", "gone"},
         proxy : Proxies \cup {NoProxy}, token : Token]
\* scope: how the probe ended; token: of its resolution, if it was recorded.
Result == [proxy : Proxies, scope : {"none", "ambiguous", "exit"}, token : Token]
Fresh == [failures |-> 0, successes |-> 0, unhealthy |-> FALSE]

HrInit ==
    /\ Init
    /\ phase = "idle" /\ todo = {} /\ results = {} /\ seen = NoEvidence
    /\ work = [w \in Workers |-> Ready]
    /\ skipped = FALSE /\ cancelled = FALSE
    /\ health = [p \in Proxies |-> Fresh]
    /\ offline = {} /\ front = "up"
    /\ steady = TRUE

----------------------------------------------------------------------------
(* How attempts end in this world.                                         *)

Reachable(a) == front = "up" /\ attempts[a].dest \in Alive

Progress(a) ==
    /\ front # "down"
    /\ FrontReady(a) \/ ExitReached(a)
NoFront(a) == front = "down" /\ FrontFails(a)
NoExit(a) == ~Reachable(a) /\ ExitNotReached(a)
Greeted(a) == Reachable(a) /\ MethodSelected(a)

TrafficStep(a) ==
    /\ \/ \E d \in Exits : beginFrontAttempt(a, d)
       \/ Progress(a) \/ NoFront(a) \/ NoExit(a) \/ Greeted(a)
       \/ ExitFinishes(a) \/ Cancel(a)
    /\ UNCHANGED << round, health, world, steady >>

----------------------------------------------------------------------------
(* The round: snapshot, preflight, jobs.                                   *)

\* The bound: a round only starts when there is room for all its resolutions.
RoomForRound == resolutionSeq + 2 * Cardinality(Proxies) + 2 < MaxSequence

\* A round ends, and its variables with it.
EndRound ==
    /\ phase' = "idle" /\ todo' = {}
    /\ work' = [w \in Workers |-> Ready]
    /\ results' = {} /\ skipped' = FALSE /\ cancelled' = FALSE /\ seen' = NoEvidence

\* The snapshot leaves out disabled proxies, not the ones being checked.
startRound ==
    /\ phase = "idle"
    /\ RoomForRound
    /\ \E checking \in SUBSET offline : todo' = (Proxies \ offline) \cup checking
    /\ phase' = "preflight"
    /\ steady' = TRUE
    /\ UNCHANGED << vars, work, results, skipped, cancelled, seen, health, world >>

\* The first proxy that may be checked is probed before the workers start.
preflight ==
    /\ phase = "preflight" /\ work[Preflight].stage = "ready"
    /\ \/ \E p \in todo \ offline :
            /\ work' = [work EXCEPT ![Preflight] = [Ready EXCEPT !.stage = "preflight", !.proxy = p]]
            /\ UNCHANGED phase
       \/ /\ todo \subseteq offline
          /\ phase' = "probing"
          /\ UNCHANGED work
    /\ UNCHANGED << vars, todo, results, skipped, cancelled, seen, health, world, steady >>

\* A worker receives a job, and looks at the proxy again.
takeJob(w) ==
    /\ phase = "probing" /\ ~cancelled
    /\ work[w].stage = "ready"
    /\ \E p \in todo :
         /\ todo' = todo \ {p}
         /\ IF p \in offline
            THEN skipped' = TRUE /\ UNCHANGED work
            ELSE /\ work' = [work EXCEPT ![w] = [Ready EXCEPT !.stage = "socks", !.proxy = p]]
                 /\ UNCHANGED skipped
    /\ UNCHANGED << vars, phase, results, cancelled, seen, health, world, steady >>

\* A probe that ended, of a round that goes on.
Report(w, scope, token) ==
    /\ work' = [work EXCEPT ![w] = Ready]
    /\ IF work[w].stage = "preflight"
       THEN /\ phase' = "probing"
            /\ IF scope = "ambiguous"
               THEN /\ results' = {[proxy |-> work[w].proxy, scope |-> scope, token |-> token]}
                    /\ todo' = todo \ {work[w].proxy}
               ELSE UNCHANGED << results, todo >>
       ELSE /\ results' = results \cup {[proxy |-> work[w].proxy, scope |-> scope, token |-> token]}
            /\ UNCHANGED << phase, todo >>
    /\ UNCHANGED << skipped, cancelled, seen >>

\* A failure of the front, or a closed circuit: the preflight's ends the round,
\* a worker's cancels it.
Shared(w) ==
    /\ IF work[w].stage = "preflight"
       THEN EndRound
       ELSE /\ cancelled' = TRUE
            /\ work' = [work EXCEPT ![w] = [Ready EXCEPT !.stage = "gone"]]
            /\ UNCHANGED << phase, todo, results, skipped, seen >>

Busy(w) == work[w].stage \in {"preflight", "socks", "exitip"}

\* ConnectProxy is called, and may be refused by the circuit.
probeBegins(w) ==
    /\ Busy(w) /\ attempts[w].phase = "idle" /\ ~cancelled
    /\ \/ beginFrontAttempt(w, AddressOf[work[w].proxy]) /\ UNCHANGED round
       \/ ~Admits /\ Shared(w) /\ UNCHANGED vars
    /\ UNCHANGED << health, world, steady >>

probeContinues(w) ==
    /\ Busy(w)
    /\ Progress(w)
    /\ UNCHANGED << round, health, world, steady >>

\* The token of an ambiguous failure that was recorded.
Recorded(w) ==
    IF tokens' # tokens THEN [generation |-> generation, sequence |-> resolutionSeq'] ELSE NoToken

\* What probeProxy returns when its attempt for the exit's IP ended: only the
\* failure of the front counts.
probeFails(w) ==
    /\ Busy(w)
    /\ \/ NoFront(w) /\ Shared(w)
       \/ /\ NoExit(w)
          /\ IF work[w].stage = "exitip" THEN Report(w, "none", NoToken)
             ELSE Report(w, "ambiguous", Recorded(w))
    /\ UNCHANGED << health, world, steady >>

probeGreeted(w) ==
    /\ Busy(w)
    /\ Greeted(w)
    /\ work' = [work EXCEPT ![w].token =
                  IF attempts[w].generation = generation
                  THEN [generation |-> generation, sequence |-> resolutionSeq'] ELSE NoToken]
    /\ UNCHANGED << phase, todo, results, skipped, cancelled, seen, health, world, steady >>

\* The rest of the exit's handshake fails when the front has gone, and may
\* fail with a flaky exit: the error carries the token of the method selection.
MayRefuse(w) == front # "up" \/ AddressOf[work[w].proxy] \in Flaky

probeFinishes(w) ==
    /\ Busy(w)
    /\ ExitFinishes(w)
    /\ \/ work[w].stage = "exitip" /\ Report(w, "none", NoToken)
       \/ work[w].stage # "exitip" /\ MayRefuse(w) /\ Report(w, "exit", work[w].token)
       \/ work[w].stage = "preflight" /\ front = "up" /\ Report(w, "none", NoToken)
       \/ /\ work[w].stage = "socks" /\ front = "up"
          /\ work' = [work EXCEPT ![w].stage = "exitip", ![w].token = NoToken]
          /\ UNCHANGED << phase, todo, results, skipped, cancelled, seen >>
    /\ UNCHANGED << health, world, steady >>

\* A cancelled round cancels the probes in flight.
probeCancelled(w) ==
    /\ Busy(w) /\ cancelled
    /\ \/ Cancel(w)
       \/ ExitFinishes(w)
       \/ attempts[w].phase = "idle" /\ UNCHANGED vars
    /\ work' = [work EXCEPT ![w] = [Ready EXCEPT !.stage = "gone"]]
    /\ UNCHANGED << phase, todo, results, skipped, cancelled, seen, health, world, steady >>

Quiet == \A w \in Workers : ~Busy(w)

\* A cancelled round is dropped as a whole.
dropRound ==
    /\ phase = "probing" /\ cancelled /\ Quiet
    /\ EndRound
    /\ UNCHANGED << vars, health, world, steady >>

\* RecentFrontEvidence, before the results are judged.
readEvidence ==
    /\ phase = "probing" /\ ~cancelled /\ Quiet /\ todo = {}
    /\ phase' = "judging"
    /\ seen' = IF HasRecentEvidence THEN recentEvidence ELSE NoEvidence
    /\ UNCHANGED << vars, todo, work, results, skipped, cancelled, health, world, steady >>

----------------------------------------------------------------------------
(* The verdict.                                                            *)

Established(r) == r.scope \in {"none", "exit"}
Ambiguous == {r \in results : r.scope = "ambiguous"}

\* A success carries no token: only the latest one is known, as the evidence.
CausalEvidence ==
    {[address |-> AddressOf[r.proxy], token |-> r.token] :
        r \in {s \in results : s.scope = "exit" /\ s.token.sequence # 0}}
    \cup {[address |-> e.exit, token |-> [generation |-> e.generation, sequence |-> e.sequence]] :
        e \in {seen} \ {NoEvidence}}

\* Mutated form of Validated: evidence from before the failure counts, too.
ValidatedAnyTime(r) ==
    /\ r.token # NoToken
    /\ \E e \in CausalEvidence :
         /\ e.token.generation = r.token.generation
         /\ e.address # AddressOf[r.proxy]

\* Another exit was reached through the front after this one was not.
Validated(r) ==
    /\ r.token # NoToken
    /\ \E e \in CausalEvidence :
         /\ e.token.generation = r.token.generation
         /\ e.token.sequence > r.token.sequence
         /\ e.address # AddressOf[r.proxy]

SomeValidated == \E r \in Ambiguous : Validated(r)

\* The results that count: with a failure confirmed or left open, what is
\* ambiguous and not confirmed does not.
Counted == {r \in results : Established(r) \/ Validated(r)}

Few(n, limit) == IF n < limit THEN n ELSE limit

\* recordHealth; the counters are kept up to the thresholds they are compared to.
recordHealth(h, scope) ==
    IF scope # "none"
    THEN LET failures == Few(h.failures + 1, FailureThreshold)
         IN [failures |-> failures, successes |-> 0,
             unhealthy |-> h.unhealthy \/ failures >= FailureThreshold]
    ELSE LET successes == Few(h.successes + 1, SuccessThreshold)
         IN [failures |-> 0, successes |-> successes,
             unhealthy |-> h.unhealthy /\ successes < SuccessThreshold]

First == CHOOSE t \in {r.token : r \in Ambiguous} :
            \A r \in Ambiguous : t.sequence <= r.token.sequence
Last == CHOOSE t \in {r.token : r \in Ambiguous} :
            \A r \in Ambiguous : t.sequence >= r.token.sequence

\* Mutated form of EveryExitFailed: two proxies are enough, whatever their address.
EveryProxyFailed ==
    /\ ~skipped /\ Ambiguous = results
    /\ \A r, s \in results : r.token # NoToken /\ r.token.generation = s.token.generation
    /\ Cardinality(results) >= 2

\* At least two endpoints were tried, and none was reached.
EveryExitFailed ==
    /\ ~skipped /\ Ambiguous = results
    /\ \A r, s \in results : r.token # NoToken /\ r.token.generation = s.token.generation
    /\ Cardinality({AddressOf[r.proxy] : r \in results}) >= 2

recordBatch ==
    IF ~SomeValidated /\ EveryExitFailed /\ BatchStands(First, Last)
    THEN RecordAmbiguousBatchFailure(First, Last)
    ELSE UNCHANGED vars

judge ==
    /\ phase = "judging"
    /\ EndRound
    /\ recordBatch
    /\ health' = [p \in Proxies |->
         IF \E r \in Counted : r.proxy = p
         THEN recordHealth(health[p], (CHOOSE r \in Counted : r.proxy = p).scope)
         ELSE health[p]]
    /\ UNCHANGED << world, steady >>

----------------------------------------------------------------------------
(* The world.                                                              *)

frontChanges ==
    /\ "front" \in Events
    /\ front' \in {"up", "wedged", "down"} \ {front}
    /\ steady' = FALSE
    /\ UNCHANGED << vars, round, health, offline >>

\* An administrator disables or enables a proxy, or a lease request checks it.
toggleOffline(p) ==
    /\ "disable" \in Events
    /\ offline' = IF p \in offline THEN offline \ {p} ELSE offline \cup {p}
    /\ UNCHANGED << vars, round, health, front, steady >>

backoffElapses ==
    /\ BackoffElapses
    /\ UNCHANGED << round, health, world, steady >>

Probe(w) ==
    \/ takeJob(w)
    \/ probeBegins(w)
    \/ probeContinues(w)
    \/ probeFails(w)
    \/ probeGreeted(w)
    \/ probeFinishes(w)
    \/ probeCancelled(w)

Conclude == preflight \/ dropRound \/ readEvidence \/ judge

HrNext ==
    \/ startRound
    \/ \E w \in Workers : Probe(w)
    \/ Conclude
    \/ \E a \in Traffic : TrafficStep(a)
    \/ backoffElapses
    \/ frontChanges
    \/ \E p \in Proxies : toggleOffline(p)

HrSpec == HrInit /\ [][HrNext]_hrVars

\* Probes have a timeout; the rest of the round waits for nothing else.
HrFairSpec ==
    /\ HrSpec
    /\ \A w \in Workers : WF_hrVars(Probe(w))
    /\ WF_hrVars(Conclude)

----------------------------------------------------------------------------
(* Properties.                                                             *)

\* Type invariant of the round and of the proxies' health.
RoundTypeOK ==
    /\ phase \in {"idle", "preflight", "probing", "judging"}
    /\ todo \subseteq Proxies
    /\ work \in [Workers -> Work]
    /\ results \subseteq Result
    /\ \A r, s \in results : r.proxy = s.proxy => r = s
    /\ skipped \in BOOLEAN /\ cancelled \in BOOLEAN
    /\ seen \in Evidence
    /\ health \in [Proxies -> [failures : 0..FailureThreshold,
                                successes : 0..SuccessThreshold, unhealthy : BOOLEAN]]
    /\ offline \subseteq Proxies
    /\ front \in {"up", "wedged", "down"}

\* docs/front-proxy-p0-plan.md: a failure of the front must not mark exits
\* unhealthy.  Whatever a steady front does to a round's probes, and whatever
\* evidence earlier rounds and concurrent traffic left behind, the round counts
\* no failure against an exit that answers, but its own refusal.
InnocentSpared ==
    phase = "judging" /\ steady =>
        \A r \in Counted : r.scope # "none" =>
            \/ AddressOf[r.proxy] \notin Alive
            \/ AddressOf[r.proxy] \in Flaky /\ r.scope = "exit"

\* "A single endpoint, even under several IDs, does not open the shared
\* circuit": the batch of a round through which the front worked opens nothing
\* as long as at most one endpoint is dead.
OneEndpointKeepsCircuit ==
    [][phase = "judging" /\ phase' = "idle" /\ steady /\ front = "up"
          /\ Cardinality(Exits \ Alive) <= 1 /\ openUntil' = "future"
          => openUntil = "future"]_hrVars

\* The comment on AmbiguousFailureToken: no token "means newer evidence already
\* resolved that attempt".  So a failure next to an exit that answered through
\* the same steady front is counted.
DeadExitCounted ==
    phase = "judging" /\ steady /\ (\E r \in results : Established(r)) =>
        Ambiguous \subseteq Counted

\* Every round ends, though workers leave while jobs are waiting.
RoundEnds == phase # "idle" ~> phase = "idle"
=============================================================================
