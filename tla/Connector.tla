------------------------------ MODULE Connector ------------------------------
(***************************************************************************)
(* The outbound connector's circuit breaker for the shared front proxy     *)
(* (src/internal/outbound/connector.go).                                   *)
(*                                                                         *)
(* Every tunnel is built by an attempt: dial and greet the front, ask it   *)
(* to CONNECT to an exit (or, for ConnectFront, to a test target), greet   *)
(* the exit, then finish the exit's own handshake.  Attempts run           *)
(* concurrently; each record* function below is one critical section       *)
(* under Connector.mu, everything between two of them touches no shared    *)
(* state.  Wall-clock time is kept only as the relation of openUntil to    *)
(* now: zero, in the future, in the past.                                  *)
(***************************************************************************)
EXTENDS Naturals, Sequences, FiniteSets

CONSTANTS
    Attempts,      \* slots for concurrent Connect / ConnectFront calls
    Exits,         \* addresses of the SOCKS5 exits
    TestTarget,    \* the address ConnectFront asks the front to reach
    MaxSequence    \* bound on resolutionSeq

ASSUME TestTargetAssumption == TestTarget \notin Exits
ASSUME MaxSequenceAssumption == MaxSequence \in Nat

VARIABLES
    openUntil,         \* "zero", "future" or "past"
    halfOpenInFlight,  \* a recovery probe holds the half-open slot
    generation,        \* bumped whenever the circuit opens
    resolutionSeq,     \* number of resolutions recorded so far
    lastResolution,    \* "none", "shared", "ambiguous", "established"
    recentEvidence,    \* the last recorded front success
    status,            \* status.Status
    attempts,          \* the calls in flight
    tokens,            \* ambiguous tokens handed to the manager
    log                \* history: what each resolution was (read by properties only)

circuit == << openUntil, halfOpenInFlight, generation, resolutionSeq,
              lastResolution, recentEvidence, status >>
vars == << circuit, attempts, tokens, log >>

Destinations == Exits \cup {TestTarget}
NoDestination == "none"
Token == [generation : Nat, sequence : Nat]
Evidence == [exit : Destinations \cup {NoDestination}, generation : Nat, sequence : Nat]

\* phase "front": dialling and greeting the front; "connect": waiting for its
\* CONNECT reply; "greet": waiting for the exit's method selection; "exit":
\* resolved, finishing the exit's authentication and CONNECT.
Attempt == [phase : {"idle", "front", "connect", "greet", "exit"},
            dest : Destinations \cup {NoDestination},
            generation : Nat, halfOpen : BOOLEAN, startedSequence : Nat]
Idle == [phase |-> "idle", dest |-> NoDestination, generation |-> 0,
         halfOpen |-> FALSE, startedSequence |-> 0]

\* One history entry per resolution: its kind, and the sequence number it
\* claims nothing contradicting has happened since.
Entry == [kind : {"shared", "established", "ambiguous", "batch"}, since : Nat]

Unresolved(a) == attempts[a].phase \in {"front", "connect", "greet"}
Current(a) == attempts[a].generation = generation

\* Only the bound: every attempt in flight can still record a resolution.
HasRoom ==
    resolutionSeq + Cardinality({a \in Attempts : Unresolved(a)}) < MaxSequence

Init ==
    /\ openUntil = "zero"
    /\ halfOpenInFlight = FALSE
    /\ generation = 0
    /\ resolutionSeq = 0
    /\ lastResolution = "none"
    /\ recentEvidence = [exit |-> NoDestination, generation |-> 0, sequence |-> 0]
    /\ status = "unknown"
    /\ attempts = [a \in Attempts |-> Idle]
    /\ tokens = {}
    /\ log = << >>

----------------------------------------------------------------------------
(* What the connector reports.                                             *)

FrontStatus == IF halfOpenInFlight THEN "half_open" ELSE status

\* FrontRetryAfter() returned zero: the manager may try the front at once.
RetryNow == ~halfOpenInFlight /\ openUntil # "future"

\* RecentFrontEvidence() returned something.
HasRecentEvidence ==
    recentEvidence.sequence # 0 /\ recentEvidence.generation = generation

----------------------------------------------------------------------------
(* Mutated forms of the definitions below: each drops one guard or reset   *)
(* of the code and must break the property it is paired with.              *)

\* beginFrontAttempt without the halfOpenInFlight check.
AdmitsAnyProbe == openUntil # "future"

\* recordFrontAmbiguous without the recentEvidence check.
NeverOutdated(att) == FALSE

\* recordFrontSuccess without the generation check.
StaleSuccessCounts(att) ==
    /\ resolutionSeq' = resolutionSeq + 1
    /\ lastResolution' = "established"
    /\ recentEvidence' = [exit |-> att.dest, generation |-> generation,
                          sequence |-> resolutionSeq + 1]
    /\ openUntil' = "zero"
    /\ halfOpenInFlight' = FALSE
    /\ status' = "healthy"
    /\ UNCHANGED generation
    /\ log' = Append(log, [kind |-> "established", since |-> att.startedSequence])

\* recordFrontAmbiguous that closes the circuit but keeps halfOpenInFlight.
AmbiguousKeepsProbe(att) ==
    /\ att.generation = generation
    /\ resolutionSeq' = resolutionSeq + 1
    /\ tokens' = tokens \cup
         {[generation |-> generation, sequence |-> resolutionSeq + 1]}
    /\ lastResolution' = "ambiguous"
    /\ openUntil' = "zero"
    /\ status' = "unknown"
    /\ UNCHANGED << halfOpenInFlight, generation, recentEvidence >>
    /\ log' = Append(log, [kind |-> "ambiguous", since |-> att.startedSequence])

\* recordFrontFailure without resolutionSeq++.
FailureUncounted(att) ==
    /\ att.generation = generation
    /\ generation' = generation + 1
    /\ lastResolution' = "shared"
    /\ openUntil' = "future"
    /\ halfOpenInFlight' = FALSE
    /\ status' = "unhealthy"
    /\ UNCHANGED << resolutionSeq, recentEvidence >>
    /\ log' = Append(log, [kind |-> "shared", since |-> att.startedSequence])

\* A cancelled recovery probe that is not abandoned.
AbandonForgotten(att) == UNCHANGED circuit

\* abandonFrontAttempt without the status update.
AbandonKeepsStatus(att) ==
    /\ halfOpenInFlight' = IF att.halfOpen /\ att.generation = generation
                             THEN FALSE ELSE halfOpenInFlight
    /\ openUntil' = IF halfOpenInFlight' # halfOpenInFlight
                      THEN "future" ELSE openUntil
    /\ UNCHANGED << generation, resolutionSeq, lastResolution, recentEvidence, status >>

\* RecordAmbiguousBatchFailure without the recentEvidence check.
BatchIgnoresEvidence(first, last) ==
    /\ first.generation = last.generation
    /\ first.generation = generation
    /\ first.sequence <= last.sequence
    /\ last.sequence = resolutionSeq
    /\ lastResolution = "ambiguous"

----------------------------------------------------------------------------
(* The critical sections.                                                  *)

Admits == openUntil = "zero" \/ (openUntil = "past" /\ ~halfOpenInFlight)

Started(dest, halfOpen) ==
    [phase |-> "front", dest |-> dest, generation |-> generation,
     halfOpen |-> halfOpen, startedSequence |-> resolutionSeq]

\* A refused attempt returns a front_circuit error and changes nothing.
beginFrontAttempt(a, dest) ==
    /\ attempts[a].phase = "idle"
    /\ HasRoom
    /\ Admits
    /\ \/ /\ openUntil = "zero"
          /\ attempts' = [attempts EXCEPT ![a] = Started(dest, FALSE)]
          /\ UNCHANGED << halfOpenInFlight, status >>
       \/ /\ openUntil = "past"
          /\ halfOpenInFlight' = TRUE
          /\ status' = "half_open"
          /\ attempts' = [attempts EXCEPT ![a] = Started(dest, TRUE)]
    /\ UNCHANGED << openUntil, generation, resolutionSeq, lastResolution,
                    recentEvidence, tokens, log >>

\* The tail shared by recordFrontFailure and RecordAmbiguousBatchFailure.
OpenCircuit ==
    /\ generation' = generation + 1
    /\ resolutionSeq' = resolutionSeq + 1
    /\ lastResolution' = "shared"
    /\ openUntil' = "future"
    /\ halfOpenInFlight' = FALSE
    /\ status' = "unhealthy"
    /\ UNCHANGED recentEvidence

recordFrontFailure(att) ==
    \/ /\ att.generation # generation
       /\ UNCHANGED << circuit, log >>
    \/ /\ att.generation = generation
       /\ OpenCircuit
       /\ log' = Append(log, [kind |-> "shared", since |-> att.startedSequence])

recordFrontSuccess(att) ==
    \/ /\ att.generation # generation
       /\ UNCHANGED << circuit, log >>
    \/ /\ att.generation = generation
       /\ resolutionSeq' = resolutionSeq + 1
       /\ lastResolution' = "established"
       /\ recentEvidence' = [exit |-> att.dest, generation |-> generation,
                             sequence |-> resolutionSeq + 1]
       /\ openUntil' = "zero"
       /\ halfOpenInFlight' = FALSE
       /\ status' = "healthy"
       /\ UNCHANGED generation
       /\ log' = Append(log, [kind |-> "established", since |-> att.startedSequence])

\* Newer evidence of the same generation already resolved this attempt.
Outdated(att) ==
    /\ recentEvidence.generation = att.generation
    /\ recentEvidence.sequence > att.startedSequence

recordFrontAmbiguous(att) ==
    \/ /\ att.generation # generation \/ Outdated(att)
       /\ UNCHANGED << circuit, tokens, log >>
    \/ /\ att.generation = generation
       /\ ~Outdated(att)
       /\ resolutionSeq' = resolutionSeq + 1
       /\ tokens' = tokens \cup
            {[generation |-> generation, sequence |-> resolutionSeq + 1]}
       /\ lastResolution' = "ambiguous"
       /\ openUntil' = "zero"
       /\ halfOpenInFlight' = FALSE
       /\ status' = "unknown"
       /\ UNCHANGED << generation, recentEvidence >>
       /\ log' = Append(log, [kind |-> "ambiguous", since |-> att.startedSequence])

abandonFrontAttempt(att) ==
    \/ /\ ~att.halfOpen \/ att.generation # generation \/ ~halfOpenInFlight
       /\ UNCHANGED circuit
    \/ /\ att.halfOpen
       /\ att.generation = generation
       /\ halfOpenInFlight
       /\ halfOpenInFlight' = FALSE
       /\ openUntil' = "future"
       /\ status' = "unhealthy"
       /\ UNCHANGED << generation, resolutionSeq, lastResolution, recentEvidence >>

\* The manager's verdict on a batch of exits whose ambiguous failures carry
\* tokens between first and last; a rejected verdict changes nothing.
BatchStands(first, last) ==
    /\ first.generation = last.generation
    /\ first.generation = generation
    /\ first.sequence <= last.sequence
    /\ last.sequence = resolutionSeq
    /\ lastResolution = "ambiguous"
    /\ ~ (/\ recentEvidence.generation = generation
          /\ recentEvidence.sequence > first.sequence)

RecordAmbiguousBatchFailure(first, last) ==
    /\ HasRoom
    /\ BatchStands(first, last)
    /\ OpenCircuit
    /\ log' = Append(log, [kind |-> "batch", since |-> first.sequence])
    /\ UNCHANGED << attempts, tokens >>

----------------------------------------------------------------------------
(* The steps of connectThroughFront and ConnectFront.                      *)

Goto(a, phase) == attempts' = [attempts EXCEPT ![a].phase = phase]
Return(a) == attempts' = [attempts EXCEPT ![a] = Idle]

\* Dialled, bound to the context and greeted the front.
FrontReady(a) ==
    /\ attempts[a].phase = "front"
    /\ Goto(a, "connect")
    /\ UNCHANGED << circuit, tokens, log >>

\* front_dial, front_handshake or front_auth; for ConnectFront also
\* front_connect_target.
FrontFails(a) ==
    /\ \/ attempts[a].phase = "front"
       \/ attempts[a].phase = "connect" /\ attempts[a].dest = TestTarget
    /\ recordFrontFailure(attempts[a])
    /\ Return(a)
    /\ UNCHANGED tokens

\* The front accepted CONNECT to the exit.
ExitReached(a) ==
    /\ attempts[a].phase = "connect"
    /\ attempts[a].dest \in Exits
    /\ Goto(a, "greet")
    /\ UNCHANGED << circuit, tokens, log >>

\* front_connect_exit: the front refused, or the exit never selected a method.
ExitNotReached(a) ==
    /\ \/ attempts[a].phase = "connect" /\ attempts[a].dest \in Exits
       \/ attempts[a].phase = "greet"
    /\ recordFrontAmbiguous(attempts[a])
    /\ Return(a)

\* The callback of handshakeWithMethodSelection.
MethodSelected(a) ==
    /\ attempts[a].phase = "greet"
    /\ recordFrontSuccess(attempts[a])
    /\ Goto(a, "exit")
    /\ UNCHANGED tokens

\* ConnectFront reached its target (a superseded one returns an error).
TargetReached(a) ==
    /\ attempts[a].phase = "connect"
    /\ attempts[a].dest = TestTarget
    /\ recordFrontSuccess(attempts[a])
    /\ Return(a)
    /\ UNCHANGED tokens

\* The rest of the exit's handshake succeeds, fails or is cancelled.
ExitFinishes(a) ==
    /\ attempts[a].phase = "exit"
    /\ Return(a)
    /\ UNCHANGED << circuit, tokens, log >>

\* The caller's context is cancelled before the attempt was resolved.
Cancel(a) ==
    /\ Unresolved(a)
    /\ abandonFrontAttempt(attempts[a])
    /\ Return(a)
    /\ UNCHANGED << tokens, log >>

BackoffElapses ==
    /\ openUntil = "future"
    /\ openUntil' = "past"
    /\ UNCHANGED << halfOpenInFlight, generation, resolutionSeq, lastResolution,
                    recentEvidence, status, attempts, tokens, log >>

Step(a) ==
    \/ FrontReady(a)
    \/ FrontFails(a)
    \/ ExitReached(a)
    \/ ExitNotReached(a)
    \/ MethodSelected(a)
    \/ TargetReached(a)
    \/ ExitFinishes(a)
    \/ Cancel(a)

Next ==
    \/ \E a \in Attempts, d \in Destinations : beginFrontAttempt(a, d)
    \/ \E a \in Attempts : Step(a)
    \/ \E first, last \in tokens : RecordAmbiguousBatchFailure(first, last)
    \/ BackoffElapses

Spec == Init /\ [][Next]_vars

\* Every caller gives Connect a context with a timeout, so an attempt in
\* flight ends; the backoff is a timer.
FairSpec ==
    /\ Spec
    /\ \A a \in Attempts : WF_vars(Step(a))
    /\ WF_vars(BackoffElapses)

----------------------------------------------------------------------------
(* Properties.                                                             *)

\* Type invariant of the connector's fields and of the calls in flight.
TypeOK ==
    /\ openUntil \in {"zero", "future", "past"}
    /\ halfOpenInFlight \in BOOLEAN
    /\ generation \in Nat
    /\ resolutionSeq \in Nat
    /\ lastResolution \in {"none", "shared", "ambiguous", "established"}
    /\ recentEvidence \in Evidence
    /\ status \in {"unknown", "unhealthy", "half_open", "healthy"}
    /\ attempts \in [Attempts -> Attempt]
    /\ tokens \subseteq Token
    /\ log \in Seq(Entry)
    /\ Len(log) = resolutionSeq

Probing(a) == Unresolved(a) /\ Current(a) /\ attempts[a].halfOpen

\* While the circuit is open at most one attempt is let through, and the
\* half-open slot is held exactly while that attempt is running: a probe that
\* failed, was cancelled, was superseded or ended ambiguously never leaves
\* halfOpenInFlight set (beginFrontAttempt would then refuse every attempt).
SingleRecoveryProbe ==
    /\ halfOpenInFlight <=> \E a \in Attempts : Probing(a)
    /\ \A a, b \in Attempts : Probing(a) /\ Probing(b) => a = b

\* FrontRetryAfter tells the manager to retry at once exactly when
\* beginFrontAttempt would admit an attempt: its queue never spins on a closed
\* door and never sleeps before an open one.
RetryAfterHonest == RetryNow <=> Admits

\* The status the API shows agrees with the circuit: "unhealthy" exactly while
\* attempts are held back without a probe, "healthy" only on evidence of the
\* current generation.
StatusHonest ==
    /\ FrontStatus = "half_open" <=> halfOpenInFlight
    /\ FrontStatus = "unhealthy" <=> openUntil # "zero" /\ ~halfOpenInFlight
    /\ FrontStatus = "healthy" => HasRecentEvidence /\ lastResolution = "established"

Since(i) == (log[i].since + 1) .. (i - 1)

\* "A stale success must not close a circuit opened by another attempt", and
\* a stale failure does not reopen it: a success or a shared failure is only
\* recorded when the circuit has not opened since its attempt began.
NoStaleVerdict ==
    \A i \in DOMAIN log : log[i].kind \in {"established", "shared"} =>
        \A j \in Since(i) : log[j].kind \notin {"shared", "batch"}

\* An ambiguous failure is only recorded when nothing but ambiguous failures
\* was recorded since its attempt began: a success through the front in the
\* meantime, of any exit, attributes the failure to the exit.
AmbiguityUncontradicted ==
    \A i \in DOMAIN log : log[i].kind = "ambiguous" =>
        \A j \in Since(i) : log[j].kind = "ambiguous"

\* A batch verdict opens the shared circuit only if every resolution since the
\* batch's first ambiguous failure was ambiguous too: no attempt of any
\* request proved the front good, or already opened the circuit, in between.
BatchUncontradicted ==
    \A i \in DOMAIN log : log[i].kind = "batch" =>
        \A j \in (log[i].since) .. (i - 1) : log[j].kind = "ambiguous"

\* A recovery probe always ends: the half-open slot is given back.
RecoveryProbeEnds == halfOpenInFlight ~> ~halfOpenInFlight
=============================================================================
