--------------------------- MODULE ConnectorProofs ---------------------------
(***************************************************************************)
(* Proofs about Connector: the properties of its circuit breaker hold for  *)
(* every number of attempts and exits, and at every length of the history. *)
(* They use no assumption of HealthRound.                                  *)
(*                                                                         *)
(* Then proofs about HealthRound: its rounds use the connector as its      *)
(* specification says, spare the exits that answer, and open the circuit   *)
(* only on the word of two endpoints, for every number of proxies, workers *)
(* and clients and whatever the front does.                                *)
(***************************************************************************)
EXTENDS HealthRound, FiniteSetTheorems, WellFoundedInduction, TLAPS

(***************************************************************************)
(* The inductive invariant.  CircuitInv ties the four fields that describe *)
(* the circuit to the attempts that hold the half-open slot.  HistoryInv   *)
(* says what cannot have happened since an attempt of the current          *)
(* generation began, or since a token of the current generation was given  *)
(* out; it is what the guards of the record functions rely on.             *)
(***************************************************************************)
CircuitInv ==
    /\ SingleRecoveryProbe
    /\ halfOpenInFlight => openUntil = "past"
    /\ halfOpenInFlight <=> status = "half_open"
    /\ ~halfOpenInFlight => (status = "unhealthy" <=> openUntil # "zero")
    /\ status = "healthy" => HasRecentEvidence /\ lastResolution = "established"
    /\ openUntil # "zero" => recentEvidence.generation < generation
    /\ recentEvidence.generation <= generation
    /\ \A a \in Attempts : Unresolved(a) =>
          /\ attempts[a].generation <= generation
          /\ Current(a) /\ openUntil # "zero" => attempts[a].halfOpen

Opened(i) == log[i].kind \in {"shared", "batch"}

HistoryInv ==
    /\ \A i \in DOMAIN log : log[i].kind = "established" => i <= recentEvidence.sequence
    /\ recentEvidence.sequence <= Len(log)
    /\ \A i \in DOMAIN log : log[i].kind = "batch" => log[i].since > 0
    /\ \A a \in Attempts : Unresolved(a) =>
          /\ attempts[a].startedSequence <= Len(log)
          /\ Current(a) =>
                /\ \A i \in DOMAIN log : attempts[a].startedSequence < i => ~Opened(i)
                /\ recentEvidence.generation # generation =>
                      recentEvidence.sequence <= attempts[a].startedSequence
    /\ \A t \in tokens :
          /\ t.generation <= generation
          /\ t.sequence \in DOMAIN log
          /\ t.generation = generation =>
                /\ log[t.sequence].kind = "ambiguous"
                /\ \A i \in DOMAIN log : t.sequence < i => ~Opened(i)
                /\ recentEvidence.generation # generation =>
                      recentEvidence.sequence <= t.sequence

Verdicts == NoStaleVerdict /\ AmbiguityUncontradicted /\ BatchUncontradicted

IInv == TypeOK /\ CircuitInv /\ HistoryInv /\ Verdicts

----------------------------------------------------------------------------
(* Typing.                                                                 *)

\* An attempt that moves to another phase, or ends, stays well typed.
LEMMA AttemptMoves ==
    ASSUME TypeOK, NEW a \in Attempts,
           NEW ph \in {"idle", "front", "connect", "greet", "exit"}
    PROVE  /\ Goto(a, ph) => attempts' \in [Attempts -> Attempt]
           /\ Return(a) => attempts' \in [Attempts -> Attempt]
           /\ attempts[a] \in Attempt
           /\ attempts[a].dest \in Destinations \cup {NoDestination}
           /\ attempts[a].generation \in Nat
           /\ attempts[a].startedSequence \in Nat
           /\ attempts[a].halfOpen \in BOOLEAN
<1>1. attempts[a] \in Attempt
  BY DEF TypeOK
<1>2. Goto(a, ph) => attempts' \in [Attempts -> Attempt]
  <2>1. [attempts[a] EXCEPT !.phase = ph] \in Attempt
    BY <1>1 DEF Attempt
  <2> QED
    BY <2>1 DEF Goto, TypeOK
<1>3. Return(a) => attempts' \in [Attempts -> Attempt]
  <2>1. Idle \in Attempt
    BY DEF Idle, Attempt
  <2> QED
    BY <2>1 DEF Return, TypeOK
<1> QED
  BY <1>1, <1>2, <1>3 DEF Attempt

\* Either nothing is resolved, or one entry is added and counted.
Resolves(entry) == log' = Append(log, entry) /\ resolutionSeq' = resolutionSeq + 1

LEMMA LogGrows ==
    ASSUME TypeOK, NEW entry \in Entry,
           Resolves(entry) \/ UNCHANGED << log, resolutionSeq >>
    PROVE  /\ log' \in Seq(Entry)
           /\ Len(log') = resolutionSeq'
           /\ resolutionSeq' \in Nat
  BY DEF TypeOK, Resolves

LEMMA CircuitOpens ==
    ASSUME TypeOK, OpenCircuit
    PROVE  /\ openUntil' \in {"zero", "future", "past"}
           /\ halfOpenInFlight' \in BOOLEAN
           /\ generation' \in Nat
           /\ lastResolution' \in {"none", "shared", "ambiguous", "established"}
           /\ recentEvidence' \in Evidence
           /\ status' \in {"unknown", "unhealthy", "half_open", "healthy"}
<1>1. generation' \in Nat
  BY DEF OpenCircuit, TypeOK
<1>2. halfOpenInFlight' \in BOOLEAN
  BY DEF OpenCircuit
<1> QED
  BY <1>1, <1>2 DEF OpenCircuit, TypeOK

\* TypeOK is inductive by itself.
LEMMA TypeStep == TypeOK /\ [Next]_vars => TypeOK'
<1> SUFFICES ASSUME TypeOK, [Next]_vars PROVE TypeOK'
  OBVIOUS
<1> USE DEF circuit
<1>1. ASSUME NEW a \in Attempts, NEW d \in Destinations, beginFrontAttempt(a, d)
      PROVE TypeOK'
  <2>1. Started(d, TRUE) \in Attempt /\ Started(d, FALSE) \in Attempt
    BY DEF TypeOK, Started, Attempt
  <2>2. attempts' \in [Attempts -> Attempt]
    BY <1>1, <2>1 DEF beginFrontAttempt, TypeOK
  <2> QED
    BY <1>1, <2>2 DEF beginFrontAttempt, TypeOK
<1>2. ASSUME NEW a \in Attempts, FrontReady(a) \/ ExitReached(a) PROVE TypeOK'
  BY <1>2, AttemptMoves DEF FrontReady, ExitReached, TypeOK
<1>3. ASSUME NEW a \in Attempts, ExitFinishes(a) PROVE TypeOK'
  BY <1>3, AttemptMoves DEF ExitFinishes, TypeOK
<1>4. ASSUME NEW a \in Attempts, FrontFails(a) PROVE TypeOK'
  <2>1. [kind |-> "shared", since |-> attempts[a].startedSequence] \in Entry
    BY AttemptMoves DEF Entry
  <2>2. attempts' \in [Attempts -> Attempt]
    BY <1>4, AttemptMoves DEF FrontFails
  <2>3. recordFrontFailure(attempts[a]) /\ UNCHANGED tokens
    BY <1>4 DEF FrontFails
  <2>4. /\ log' \in Seq(Entry)
        /\ Len(log') = resolutionSeq'
        /\ resolutionSeq' \in Nat
    BY <2>1, <2>3, LogGrows DEF recordFrontFailure, OpenCircuit, Resolves
  <2>5. CASE OpenCircuit
    BY <2>2, <2>3, <2>4, <2>5, CircuitOpens DEF TypeOK
  <2>6. CASE UNCHANGED circuit
    BY <2>2, <2>3, <2>4, <2>6 DEF TypeOK
  <2> QED
    BY <2>3, <2>5, <2>6 DEF recordFrontFailure
<1>5. ASSUME NEW a \in Attempts, MethodSelected(a) \/ TargetReached(a) PROVE TypeOK'
  <2>1. [kind |-> "established", since |-> attempts[a].startedSequence] \in Entry
    BY AttemptMoves DEF Entry
  <2>2. attempts' \in [Attempts -> Attempt]
    BY <1>5, AttemptMoves DEF MethodSelected, TargetReached
  <2>3. recordFrontSuccess(attempts[a]) /\ UNCHANGED tokens
    BY <1>5 DEF MethodSelected, TargetReached
  <2>4. recentEvidence' \in Evidence
    BY <2>3, AttemptMoves DEF recordFrontSuccess, TypeOK, Evidence
  <2>5. /\ log' \in Seq(Entry)
        /\ Len(log') = resolutionSeq'
        /\ resolutionSeq' \in Nat
    BY <2>1, <2>3, LogGrows DEF recordFrontSuccess, Resolves
  <2> QED
    BY <2>2, <2>3, <2>4, <2>5 DEF recordFrontSuccess, TypeOK
<1>6. ASSUME NEW a \in Attempts, ExitNotReached(a) PROVE TypeOK'
  <2>1. [kind |-> "ambiguous", since |-> attempts[a].startedSequence] \in Entry
    BY AttemptMoves DEF Entry
  <2>2. attempts' \in [Attempts -> Attempt]
    BY <1>6, AttemptMoves DEF ExitNotReached
  <2>3. recordFrontAmbiguous(attempts[a])
    BY <1>6 DEF ExitNotReached
  <2>4. tokens' \subseteq Token
    BY <2>3 DEF recordFrontAmbiguous, TypeOK, Token
  <2>5. /\ log' \in Seq(Entry)
        /\ Len(log') = resolutionSeq'
        /\ resolutionSeq' \in Nat
    BY <2>1, <2>3, LogGrows DEF recordFrontAmbiguous, Resolves
  <2> QED
    BY <2>2, <2>3, <2>4, <2>5 DEF recordFrontAmbiguous, TypeOK
<1>7. ASSUME NEW a \in Attempts, Cancel(a) PROVE TypeOK'
  BY <1>7, AttemptMoves DEF Cancel, abandonFrontAttempt, TypeOK
<1>8. ASSUME NEW first \in tokens, NEW last \in tokens,
             RecordAmbiguousBatchFailure(first, last)
      PROVE TypeOK'
  <2>1. [kind |-> "batch", since |-> first.sequence] \in Entry
    BY DEF TypeOK, Token, Entry
  <2>2. /\ log' \in Seq(Entry)
        /\ Len(log') = resolutionSeq'
        /\ resolutionSeq' \in Nat
    BY <1>8, <2>1, LogGrows DEF RecordAmbiguousBatchFailure, OpenCircuit, Resolves
  <2>3. OpenCircuit /\ UNCHANGED << attempts, tokens >>
    BY <1>8 DEF RecordAmbiguousBatchFailure
  <2> QED
    BY <2>2, <2>3, CircuitOpens DEF TypeOK
<1>9. CASE BackoffElapses
  BY <1>9 DEF BackoffElapses, TypeOK
<1>10. CASE UNCHANGED vars
  BY <1>10 DEF vars, TypeOK
<1>11. ASSUME NEW a \in Attempts, Step(a) PROVE TypeOK'
  BY <1>2, <1>3, <1>4, <1>5, <1>6, <1>7, <1>11 DEF Step
<1> QED
  BY <1>1, <1>8, <1>9, <1>10, <1>11, Zenon DEF Next

LEMMA InitTyped == Init => TypeOK
<1> SUFFICES ASSUME Init PROVE TypeOK
  OBVIOUS
<1>1. Idle \in Attempt
  BY DEF Idle, Attempt
<1>2. recentEvidence \in Evidence
  BY DEF Init, Evidence
<1>3. log \in Seq(Entry) /\ Len(log) = resolutionSeq
  BY DEF Init
<1>4. halfOpenInFlight \in BOOLEAN
  BY DEF Init
<1> QED
  BY <1>1, <1>2, <1>3, <1>4 DEF Init, TypeOK

\* The connector's fields and the attempts in flight keep their types, and
\* every recorded resolution is counted by resolutionSeq.
THEOREM TypeCorrect == Spec => []TypeOK
<1>1. Init => TypeOK
  BY InitTyped
<1> QED
  BY <1>1, TypeStep, PTL DEF Spec

----------------------------------------------------------------------------
(* How the set of attempts in flight changes.                              *)

\* No attempt enters the set, and those in it keep what they carry.
Fewer ==
    \A b \in Attempts : Unresolved(b)' =>
        /\ Unresolved(b)
        /\ attempts'[b].generation = attempts[b].generation
        /\ attempts'[b].halfOpen = attempts[b].halfOpen
        /\ attempts'[b].startedSequence = attempts[b].startedSequence

\* Attempt a left the set, the others are as before.
Left(a) ==
    /\ ~Unresolved(a)'
    /\ \A b \in Attempts \ {a} : attempts'[b] = attempts[b]

LEMMA AttemptLeaves ==
    ASSUME TypeOK, NEW a \in Attempts, Return(a) \/ Goto(a, "exit")
    PROVE  Left(a)
  BY DEF TypeOK, Return, Goto, Left, Unresolved, Idle, Attempt

LEMMA LeftIsFewer == ASSUME NEW a \in Attempts, Left(a) PROVE Fewer
  BY DEF Left, Fewer, Unresolved

\* Attempt a goes on to its next phase.
LEMMA AttemptContinues ==
    ASSUME TypeOK, NEW a \in Attempts, Unresolved(a),
           Goto(a, "connect") \/ Goto(a, "greet")
    PROVE  /\ Fewer
           /\ \A b \in Attempts : Unresolved(b)' <=> Unresolved(b)
<1>1. PICK ph \in {"connect", "greet"} : attempts' = [attempts EXCEPT ![a].phase = ph]
  BY DEF Goto
<1>2. \A b \in Attempts \ {a} : attempts'[b] = attempts[b]
  BY <1>1 DEF TypeOK
<1>3. attempts'[a] = [attempts[a] EXCEPT !.phase = ph]
  BY <1>1 DEF TypeOK
<1>4. /\ attempts'[a].phase = ph
      /\ attempts'[a].generation = attempts[a].generation
      /\ attempts'[a].halfOpen = attempts[a].halfOpen
      /\ attempts'[a].startedSequence = attempts[a].startedSequence
  BY <1>3, AttemptMoves DEF Attempt
<1> QED
  BY <1>2, <1>4 DEF Fewer, Unresolved

----------------------------------------------------------------------------
(* The circuit.                                                            *)

\* The circuit opens: nothing in flight belongs to the new generation.
LEMMA CircuitOpened ==
    ASSUME TypeOK, CircuitInv, Fewer, OpenCircuit
    PROVE  CircuitInv'
<1>1. \A b \in Attempts : Unresolved(b)' => attempts'[b].generation <= generation
  BY DEF Fewer, CircuitInv
<1>2. \A b \in Attempts : Unresolved(b)' => attempts'[b].generation \in Nat
  BY DEF Fewer, TypeOK, Attempt
<1>3. \A b \in Attempts : Unresolved(b)' => attempts'[b].generation < generation'
  BY <1>1, <1>2 DEF OpenCircuit, TypeOK
<1>4. \A b \in Attempts : ~Probing(b)'
  BY <1>2, <1>3, CircuitOpens DEF Probing, Current
<1>5. recentEvidence'.generation < generation'
  BY DEF OpenCircuit, CircuitInv, TypeOK, Evidence
<1>6. ~halfOpenInFlight' /\ openUntil' = "future" /\ status' = "unhealthy"
  BY DEF OpenCircuit
<1>7. SingleRecoveryProbe'
  BY <1>4, <1>6 DEF SingleRecoveryProbe
<1>8. recentEvidence'.generation <= generation'
  BY <1>5, CircuitOpens DEF Evidence
<1>9. \A b \in Attempts : Unresolved(b)' => attempts'[b].generation <= generation' /\ ~Current(b)'
  BY <1>2, <1>3, CircuitOpens DEF Current
<1> QED
  BY <1>5, <1>6, <1>7, <1>8, <1>9 DEF CircuitInv

\* An attempt of the current generation closes the circuit: if a recovery
\* probe was running, it was this one.
LEMMA CircuitClosed ==
    ASSUME TypeOK, CircuitInv, NEW a \in Attempts, Unresolved(a), Current(a), Left(a),
           openUntil' = "zero", ~halfOpenInFlight', UNCHANGED generation,
           \/ status' = "unknown" /\ UNCHANGED recentEvidence
           \/ /\ status' = "healthy"
              /\ lastResolution' = "established"
              /\ recentEvidence'.generation = generation
              /\ recentEvidence'.sequence # 0
    PROVE  CircuitInv'
<1>1. \A b \in Attempts : ~Probing(b)'
  <2>1. SUFFICES ASSUME NEW b \in Attempts, Probing(b)' PROVE FALSE
    OBVIOUS
  <2>2. b # a /\ Probing(b)
    BY <2>1 DEF Left, Probing, Unresolved, Current
  <2>3. openUntil = "past"
    BY <2>2 DEF CircuitInv, SingleRecoveryProbe
  <2>4. Probing(a)
    BY <2>3 DEF CircuitInv, Probing
  <2> QED
    BY <2>2, <2>4 DEF CircuitInv, SingleRecoveryProbe
<1>2. SingleRecoveryProbe'
  BY <1>1 DEF SingleRecoveryProbe
<1>3. \A b \in Attempts : Unresolved(b)' => attempts'[b].generation <= generation'
  BY DEF CircuitInv, Left, Unresolved
<1>4. recentEvidence'.generation <= generation'
  BY DEF CircuitInv, TypeOK
<1>5. status' = "healthy" => HasRecentEvidence' /\ lastResolution' = "established"
  BY DEF HasRecentEvidence
<1> QED
  BY <1>2, <1>3, <1>4, <1>5 DEF CircuitInv

\* Nothing about the circuit changes: the attempt that leaves holds no slot.
LEMMA CircuitKept ==
    ASSUME TypeOK, CircuitInv, UNCHANGED circuit, Fewer,
           \A b \in Attempts : Probing(b) => Unresolved(b)'
    PROVE  CircuitInv'
<1>1. \A b \in Attempts : Probing(b)' <=> Probing(b)
  BY DEF Fewer, Probing, Current, circuit
<1>2. SingleRecoveryProbe'
  BY <1>1 DEF CircuitInv, SingleRecoveryProbe, circuit
<1>3. \A b \in Attempts : Unresolved(b)' =>
        /\ attempts'[b].generation <= generation'
        /\ Current(b)' /\ openUntil' # "zero" => attempts'[b].halfOpen
  BY DEF Fewer, CircuitInv, Current, circuit
<1> QED
  BY <1>2, <1>3 DEF CircuitInv, HasRecentEvidence, circuit

\* CircuitInv is inductive relative to TypeOK.
LEMMA CircuitStep == TypeOK /\ CircuitInv /\ [Next]_vars => CircuitInv'
<1> SUFFICES ASSUME TypeOK, CircuitInv, [Next]_vars PROVE CircuitInv'
  OBVIOUS
<1>1. ASSUME NEW a \in Attempts, NEW d \in Destinations, beginFrontAttempt(a, d)
      PROVE CircuitInv'
  <2>1. \A b \in Attempts \ {a} : attempts'[b] = attempts[b]
    BY <1>1 DEF beginFrontAttempt, TypeOK
  <2>2. /\ ~Probing(a)
        /\ UNCHANGED << openUntil, generation, lastResolution, recentEvidence >>
    BY <1>1 DEF beginFrontAttempt, Probing, Unresolved
  <2>3. \A b \in Attempts \ {a} : Unresolved(b)' => Unresolved(b)
    BY <2>1 DEF Unresolved
  <2>4. \A b \in Attempts \ {a} : Probing(b)' <=> Probing(b)
    BY <2>1, <2>2 DEF Probing, Unresolved, Current
  <2>5. CASE openUntil = "zero"
    <3>1. /\ attempts'[a] = Started(d, FALSE)
          /\ UNCHANGED << halfOpenInFlight, status >>
      BY <1>1, <2>5 DEF beginFrontAttempt, TypeOK
    <3>2. ~Probing(a)' /\ attempts'[a].generation = generation
      BY <3>1 DEF Probing, Started
    <3>3. SingleRecoveryProbe'
      BY <2>2, <2>4, <3>1, <3>2 DEF CircuitInv, SingleRecoveryProbe
    <3>4. \A b \in Attempts : Unresolved(b)' => attempts'[b].generation <= generation'
      BY <2>1, <2>2, <2>3, <3>2 DEF CircuitInv, TypeOK
    <3> QED
      BY <2>2, <2>5, <3>1, <3>3, <3>4 DEF CircuitInv, HasRecentEvidence
  <2>6. CASE openUntil = "past"
    <3>1. /\ attempts'[a] = Started(d, TRUE)
          /\ ~halfOpenInFlight
          /\ halfOpenInFlight'
          /\ status' = "half_open"
      BY <1>1, <2>6 DEF beginFrontAttempt, TypeOK, Admits
    <3>2. Probing(a)' /\ attempts'[a].generation = generation /\ attempts'[a].halfOpen
      BY <2>2, <3>1 DEF Probing, Started, Unresolved, Current
    <3>3. SingleRecoveryProbe'
      BY <2>4, <3>1, <3>2 DEF CircuitInv, SingleRecoveryProbe
    <3>4. \A b \in Attempts : Unresolved(b)' =>
            /\ attempts'[b].generation <= generation'
            /\ Current(b)' => attempts'[b].halfOpen
      BY <2>1, <2>2, <2>3, <2>6, <3>2 DEF CircuitInv, TypeOK, Current
    <3> QED
      BY <2>2, <2>6, <3>1, <3>3, <3>4 DEF CircuitInv, HasRecentEvidence
  <2> QED
    BY <1>1, <2>5, <2>6 DEF beginFrontAttempt
<1>2. ASSUME NEW a \in Attempts, FrontReady(a) \/ ExitReached(a) PROVE CircuitInv'
  <2>1. Unresolved(a) /\ (Goto(a, "connect") \/ Goto(a, "greet")) /\ UNCHANGED circuit
    BY <1>2 DEF FrontReady, ExitReached, Unresolved
  <2> QED
    BY <2>1, AttemptContinues, CircuitKept DEF Probing
<1>3. ASSUME NEW a \in Attempts, ExitFinishes(a) PROVE CircuitInv'
  <2>1. Left(a) /\ ~Unresolved(a) /\ UNCHANGED circuit
    BY <1>3, AttemptLeaves DEF ExitFinishes, Unresolved
  <2> QED
    BY <2>1, LeftIsFewer, CircuitKept DEF Left, Probing, Unresolved
<1>4. ASSUME NEW a \in Attempts, FrontFails(a) PROVE CircuitInv'
  <2>1. Left(a) /\ Unresolved(a) /\ recordFrontFailure(attempts[a])
    BY <1>4, AttemptLeaves DEF FrontFails, Unresolved
  <2>2. CASE OpenCircuit
    BY <2>1, <2>2, LeftIsFewer, CircuitOpened
  <2>3. CASE ~Current(a) /\ UNCHANGED circuit
    BY <2>1, <2>3, LeftIsFewer, CircuitKept DEF Left, Probing, Unresolved
  <2> QED
    BY <2>1, <2>2, <2>3 DEF recordFrontFailure, Current, circuit
<1>5. ASSUME NEW a \in Attempts, MethodSelected(a) \/ TargetReached(a) PROVE CircuitInv'
  <2>1. Left(a) /\ Unresolved(a) /\ recordFrontSuccess(attempts[a])
    BY <1>5, AttemptLeaves DEF MethodSelected, TargetReached, Unresolved
  <2>2. CASE ~Current(a) /\ UNCHANGED circuit
    BY <2>1, <2>2, LeftIsFewer, CircuitKept DEF Left, Probing, Unresolved
  <2>3. CASE Current(a)
    <3>1. /\ openUntil' = "zero" /\ ~halfOpenInFlight' /\ UNCHANGED generation
          /\ status' = "healthy" /\ lastResolution' = "established"
          /\ recentEvidence'.generation = generation
          /\ recentEvidence'.sequence # 0
      BY <2>1, <2>3 DEF recordFrontSuccess, Current, TypeOK, circuit
    <3> QED
      BY <2>1, <2>3, <3>1, CircuitClosed
  <2> QED
    BY <2>1, <2>2, <2>3 DEF recordFrontSuccess, Current, circuit
<1>6. ASSUME NEW a \in Attempts, ExitNotReached(a) PROVE CircuitInv'
  <2>1. Left(a) /\ Unresolved(a) /\ recordFrontAmbiguous(attempts[a])
    BY <1>6, AttemptLeaves DEF ExitNotReached, Unresolved
  <2>2. CASE UNCHANGED circuit /\ (~Current(a) \/ Outdated(attempts[a]))
    <3>1. ~Probing(a)
      BY <2>2 DEF Probing, Current, Outdated, CircuitInv, SingleRecoveryProbe, TypeOK, Evidence
    <3> QED
      BY <2>1, <2>2, <3>1, LeftIsFewer, CircuitKept DEF Left, Probing, Unresolved
  <2>3. CASE Current(a) /\ ~Outdated(attempts[a])
    <3>1. /\ openUntil' = "zero" /\ ~halfOpenInFlight' /\ UNCHANGED generation
          /\ status' = "unknown" /\ UNCHANGED recentEvidence
      BY <2>1, <2>3 DEF recordFrontAmbiguous, Current
    <3> QED
      BY <2>1, <2>3, <3>1, CircuitClosed
  <2> QED
    BY <2>1, <2>2, <2>3 DEF recordFrontAmbiguous, Current
<1>7. ASSUME NEW a \in Attempts, Cancel(a) PROVE CircuitInv'
  <2>1. Left(a) /\ Unresolved(a) /\ abandonFrontAttempt(attempts[a])
    BY <1>7, AttemptLeaves DEF Cancel
  <2>2. CASE UNCHANGED circuit /\ ~Probing(a)
    BY <2>1, <2>2, LeftIsFewer, CircuitKept DEF Left, Probing, Unresolved
  <2>3. CASE Probing(a) /\ abandonFrontAttempt(attempts[a]) /\ halfOpenInFlight
    <3>1. /\ ~halfOpenInFlight' /\ openUntil' = "future" /\ status' = "unhealthy"
          /\ UNCHANGED << generation, lastResolution, recentEvidence >>
      BY <2>3 DEF abandonFrontAttempt, Probing, Current
    <3>2. \A b \in Attempts : ~Probing(b)'
      BY <2>1, <2>3, <3>1 DEF CircuitInv, SingleRecoveryProbe, Left, Probing, Unresolved, Current
    <3>3. SingleRecoveryProbe'
      BY <3>1, <3>2 DEF SingleRecoveryProbe
    <3>4. openUntil = "past"
      BY <2>3 DEF CircuitInv
    <3>5. \A b \in Attempts : Unresolved(b)' =>
            /\ attempts'[b].generation <= generation'
            /\ Current(b)' => attempts'[b].halfOpen
      BY <2>1, <3>1, <3>4 DEF CircuitInv, Left, Unresolved, Current
    <3> QED
      BY <3>1, <3>3, <3>4, <3>5 DEF CircuitInv
  <2> QED
    BY <2>1, <2>2, <2>3 DEF abandonFrontAttempt, CircuitInv, SingleRecoveryProbe, Probing, Current
<1>8. ASSUME NEW first \in tokens, NEW last \in tokens,
             RecordAmbiguousBatchFailure(first, last)
      PROVE CircuitInv'
  <2>1. OpenCircuit /\ Fewer
    BY <1>8 DEF RecordAmbiguousBatchFailure, Fewer, Unresolved
  <2> QED
    BY <2>1, CircuitOpened
<1>9. CASE BackoffElapses
  <2>1. \A b \in Attempts : Probing(b)' <=> Probing(b)
    BY <1>9 DEF BackoffElapses, Probing, Unresolved, Current
  <2>2. SingleRecoveryProbe'
    BY <1>9, <2>1 DEF BackoffElapses, CircuitInv, SingleRecoveryProbe
  <2> QED
    BY <1>9, <2>2 DEF BackoffElapses, CircuitInv, HasRecentEvidence, Unresolved, Current
<1>10. CASE UNCHANGED vars
  BY <1>10, CircuitKept DEF vars, Fewer, Unresolved, Probing
<1>11. ASSUME NEW a \in Attempts, Step(a) PROVE CircuitInv'
  BY <1>2, <1>3, <1>4, <1>5, <1>6, <1>7, <1>11 DEF Step
<1> QED
  BY <1>1, <1>8, <1>9, <1>10, <1>11, Zenon DEF Next

----------------------------------------------------------------------------
(* The history.                                                            *)

LEMMA LogAppend ==
    ASSUME TypeOK, NEW e \in Entry, log' = Append(log, e)
    PROVE  /\ DOMAIN log = 1..Len(log)
           /\ DOMAIN log' = 1..(Len(log) + 1)
           /\ Len(log') = Len(log) + 1
           /\ Len(log) \in Nat
           /\ log'[Len(log) + 1] = e
           /\ \A i \in DOMAIN log : log'[i] = log[i]
           /\ \A i \in DOMAIN log : log[i] \in Entry
  BY DEF TypeOK

\* What an appended entry must be able to say of the entries before it.
Justified(e) ==
    /\ e.kind \in {"established", "shared"} =>
          \A j \in DOMAIN log : e.since < j => ~Opened(j)
    /\ e.kind = "ambiguous" =>
          \A j \in DOMAIN log : e.since < j => log[j].kind = "ambiguous"
    /\ e.kind = "batch" =>
          /\ e.since > 0
          /\ \A j \in DOMAIN log : e.since <= j => log[j].kind = "ambiguous"

\* A justified entry keeps the three verdict properties.
LEMMA VerdictsExtended ==
    ASSUME TypeOK, HistoryInv, Verdicts, NEW e \in Entry, Justified(e),
           log' = Append(log, e)
    PROVE  Verdicts'
<1> DEFINE n == Len(log) + 1
<1>1. /\ DOMAIN log = 1..Len(log) /\ DOMAIN log' = 1..n /\ Len(log) \in Nat
      /\ log'[n] = e /\ \A i \in DOMAIN log : log'[i] = log[i] /\ log[i] \in Entry
  BY LogAppend
<1>2. \A i \in DOMAIN log' : i \in DOMAIN log \/ i = n
  <2> HIDE DEF n
  <2>1. \A i \in 1..n : i \in 1..Len(log) \/ i = n
    BY <1>1 DEF n
  <2> QED
    BY <1>1, <2>1
<1>3. /\ e.since \in Nat
      /\ \A i \in DOMAIN log : log[i].since \in Nat
  BY <1>1 DEF Entry
<1> HIDE DEF n
<1>4. NoStaleVerdict'
  <2> SUFFICES ASSUME NEW i \in DOMAIN log', log'[i].kind \in {"established", "shared"},
                      NEW j \in Since(i)'
               PROVE  log'[j].kind \notin {"shared", "batch"}
    BY DEF NoStaleVerdict
  <2>1. CASE i \in DOMAIN log
    <3>1. j \in Since(i) /\ j \in DOMAIN log
      BY <1>1, <1>3, <2>1 DEF Since
    <3> QED
      BY <1>1, <2>1, <3>1 DEF Verdicts, NoStaleVerdict
  <2>2. CASE i = n
    <3>1. j \in DOMAIN log /\ e.since < j
      BY <1>1, <1>3, <2>2 DEF Since, n
    <3> QED
      BY <1>1, <2>2, <3>1 DEF Justified, Opened
  <2> QED
    BY <1>2, <2>1, <2>2
<1>5. AmbiguityUncontradicted'
  <2> SUFFICES ASSUME NEW i \in DOMAIN log', log'[i].kind = "ambiguous",
                      NEW j \in Since(i)'
               PROVE  log'[j].kind = "ambiguous"
    BY DEF AmbiguityUncontradicted
  <2>1. CASE i \in DOMAIN log
    <3>1. j \in Since(i) /\ j \in DOMAIN log
      BY <1>1, <1>3, <2>1 DEF Since
    <3> QED
      BY <1>1, <2>1, <3>1 DEF Verdicts, AmbiguityUncontradicted
  <2>2. CASE i = n
    <3>1. j \in DOMAIN log /\ e.since < j
      BY <1>1, <1>3, <2>2 DEF Since, n
    <3> QED
      BY <1>1, <2>2, <3>1 DEF Justified
  <2> QED
    BY <1>2, <2>1, <2>2
<1>6. BatchUncontradicted'
  <2> SUFFICES ASSUME NEW i \in DOMAIN log', log'[i].kind = "batch",
                      NEW j \in (log'[i].since) .. (i - 1)
               PROVE  log'[j].kind = "ambiguous"
    BY DEF BatchUncontradicted
  <2>1. CASE i \in DOMAIN log
    <3>1. j \in (log[i].since) .. (i - 1) /\ j \in DOMAIN log
      BY <1>1, <1>3, <2>1 DEF HistoryInv
    <3> QED
      BY <1>1, <2>1, <3>1 DEF Verdicts, BatchUncontradicted
  <2>2. CASE i = n
    <3>1. j \in DOMAIN log /\ e.since <= j
      BY <1>1, <1>3, <2>2 DEF Justified, n
    <3> QED
      BY <1>1, <2>2, <3>1 DEF Justified
  <2> QED
    BY <1>2, <2>1, <2>2
<1> QED
  BY <1>4, <1>5, <1>6 DEF Verdicts

\* The bounds HistoryInv states are about natural numbers.
LEMMA HistoryTypes ==
    ASSUME TypeOK
    PROVE  /\ DOMAIN log = 1..Len(log) /\ Len(log) \in Nat /\ Len(log) = resolutionSeq
           /\ generation \in Nat
           /\ recentEvidence.generation \in Nat /\ recentEvidence.sequence \in Nat
           /\ \A a \in Attempts : attempts[a].generation \in Nat
                                 /\ attempts[a].startedSequence \in Nat
           /\ \A t \in tokens : t.generation \in Nat /\ t.sequence \in Nat
<1>1. DOMAIN log = 1..Len(log) /\ Len(log) \in Nat /\ Len(log) = resolutionSeq
  BY DEF TypeOK
<1>2. generation \in Nat /\ recentEvidence \in Evidence /\ tokens \subseteq Token
  BY DEF TypeOK
<1>3. \A a \in Attempts : attempts[a] \in Attempt
  BY DEF TypeOK
<1> QED
  BY <1>1, <1>2, <1>3 DEF Evidence, Token, Attempt

LEMMA LogKinds ==
    ASSUME TypeOK, NEW i \in DOMAIN log
    PROVE  log[i].kind \in {"shared", "established", "ambiguous", "batch"}
<1>1. log[i] \in Entry
  BY DEF TypeOK
<1> QED
  BY <1>1 DEF Entry

\* Nothing is resolved: fewer attempts have fewer obligations.
LEMMA HistoryKept ==
    ASSUME HistoryInv, Fewer, UNCHANGED << log, tokens, generation, recentEvidence >>
    PROVE  HistoryInv'
  BY DEF HistoryInv, Fewer, Current, Opened

\* The circuit opens: neither an attempt nor a token is of the new generation.
LEMMA HistoryOpened ==
    ASSUME TypeOK, CircuitInv, HistoryInv, Fewer, OpenCircuit, UNCHANGED tokens,
           NEW e \in Entry, e.kind \in {"shared", "batch"}, Justified(e),
           log' = Append(log, e)
    PROVE  HistoryInv'
<1>1. \A i \in DOMAIN log' : i \in DOMAIN log \/ log'[i] = e
  BY LogAppend
<1>2. \A b \in Attempts : Unresolved(b)' =>
        /\ attempts'[b].startedSequence <= Len(log')
        /\ ~Current(b)'
  <2> SUFFICES ASSUME NEW b \in Attempts, Unresolved(b)'
               PROVE  /\ attempts'[b].startedSequence <= Len(log')
                      /\ attempts'[b].generation < generation'
    BY HistoryTypes, CircuitOpens DEF Current, Fewer
  <2> QED
    BY HistoryTypes, LogAppend DEF Fewer, HistoryInv, CircuitInv, OpenCircuit
<1>3. \A t \in tokens' :
        /\ t.generation < generation'
        /\ t.sequence \in DOMAIN log'
  BY HistoryTypes, LogAppend DEF HistoryInv, OpenCircuit
<1>4. \A t \in tokens' : t.generation <= generation' /\ t.generation # generation'
  BY <1>3, HistoryTypes, CircuitOpens
<1>5. \A i \in DOMAIN log' : log'[i].kind = "established" => i <= recentEvidence'.sequence
  BY <1>1, LogAppend DEF HistoryInv, OpenCircuit
<1>6. recentEvidence'.sequence <= Len(log')
  BY HistoryTypes, LogAppend DEF HistoryInv, OpenCircuit
<1>7. \A i \in DOMAIN log' : log'[i].kind = "batch" => log'[i].since > 0
  BY <1>1, LogAppend DEF HistoryInv, Justified
<1> QED
  BY <1>2, <1>3, <1>4, <1>5, <1>6, <1>7 DEF HistoryInv

\* A success or an ambiguous failure of the current generation is recorded.
LEMMA HistoryResolved ==
    ASSUME TypeOK, HistoryInv, Fewer, UNCHANGED generation,
           NEW e \in Entry, log' = Append(log, e),
           \/ /\ e.kind = "established"
              /\ recentEvidence'.generation = generation
              /\ recentEvidence'.sequence = Len(log) + 1
              /\ UNCHANGED tokens
           \/ /\ e.kind = "ambiguous"
              /\ UNCHANGED recentEvidence
              /\ tokens' = tokens \cup {[generation |-> generation, sequence |-> Len(log) + 1]}
    PROVE  HistoryInv'
<1>1. \A i \in DOMAIN log' :
        \/ i \in DOMAIN log /\ log'[i] = log[i]
        \/ i = Len(log) + 1 /\ log'[i] = e
  BY LogAppend
<1>2. \A i \in DOMAIN log' : log'[i].kind = "established" => i <= recentEvidence'.sequence
  BY <1>1, HistoryTypes DEF HistoryInv
<1>3. recentEvidence'.sequence <= Len(log')
  BY HistoryTypes, LogAppend DEF HistoryInv
<1>4. \A i \in DOMAIN log' : log'[i].kind = "batch" => log'[i].since > 0
  BY <1>1 DEF HistoryInv
<1>5. \A i \in DOMAIN log' : Opened(i)' => i \in DOMAIN log /\ Opened(i)
  BY <1>1 DEF Opened
<1>6. recentEvidence'.generation # generation' => recentEvidence' = recentEvidence
  OBVIOUS
<1>7. ASSUME NEW b \in Attempts, Unresolved(b)'
      PROVE  /\ attempts'[b].startedSequence <= Len(log')
             /\ Current(b)' =>
                   /\ \A i \in DOMAIN log' : attempts'[b].startedSequence < i => ~Opened(i)'
                   /\ recentEvidence'.generation # generation' =>
                         recentEvidence'.sequence <= attempts'[b].startedSequence
  <2>1. /\ Unresolved(b)
        /\ attempts'[b].startedSequence = attempts[b].startedSequence
        /\ Current(b)' => Current(b)
    BY <1>7 DEF Fewer, Current
  <2>2. attempts'[b].startedSequence <= Len(log')
    BY <2>1, HistoryTypes, LogAppend DEF HistoryInv
  <2> QED
    BY <1>5, <1>6, <2>1, <2>2 DEF HistoryInv
<1>8. ASSUME NEW t \in tokens'
      PROVE  /\ t.generation <= generation'
             /\ t.sequence \in DOMAIN log'
             /\ t.generation = generation' =>
                   /\ log'[t.sequence].kind = "ambiguous"
                   /\ \A i \in DOMAIN log' : t.sequence < i => ~Opened(i)'
                   /\ recentEvidence'.generation # generation' =>
                         recentEvidence'.sequence <= t.sequence
  <2>1. CASE t \in tokens
    BY <1>5, <1>6, <2>1, HistoryTypes, LogAppend DEF HistoryInv
  <2>2. CASE t \notin tokens
    <3>1. /\ t = [generation |-> generation, sequence |-> Len(log) + 1]
          /\ e.kind = "ambiguous" /\ UNCHANGED recentEvidence
      BY <1>8, <2>2
    <3>2. t.generation = generation /\ t.sequence = Len(log) + 1
      BY <3>1
    <3> QED
      BY <1>5, <3>1, <3>2, HistoryTypes, LogAppend DEF HistoryInv
  <2> QED
    BY <2>1, <2>2
<1> QED
  BY <1>2, <1>3, <1>4, <1>7, <1>8 DEF HistoryInv

----------------------------------------------------------------------------
\* HistoryInv and the verdict properties are inductive relative to TypeOK and
\* CircuitInv.
LEMMA HistoryStep == IInv /\ [Next]_vars => HistoryInv' /\ Verdicts'
<1> SUFFICES ASSUME IInv, [Next]_vars PROVE HistoryInv' /\ Verdicts'
  OBVIOUS
<1> USE DEF IInv
\* A step that records nothing.
<1>1. ASSUME HistoryInv', UNCHANGED log PROVE HistoryInv' /\ Verdicts'
  BY <1>1 DEF Verdicts, NoStaleVerdict, AmbiguityUncontradicted, BatchUncontradicted, Since
<1>2. ASSUME UNCHANGED << circuit, tokens, log >>, Fewer PROVE HistoryInv' /\ Verdicts'
  BY <1>1, <1>2, HistoryKept DEF circuit
<1>3. ASSUME NEW a \in Attempts, NEW d \in Destinations, beginFrontAttempt(a, d)
      PROVE HistoryInv' /\ Verdicts'
  <2>1. UNCHANGED << generation, resolutionSeq, recentEvidence, tokens, log >>
    BY <1>3 DEF beginFrontAttempt
  <2>2. \A b \in Attempts \ {a} : attempts'[b] = attempts[b]
    BY <1>3 DEF beginFrontAttempt, TypeOK
  <2>3. attempts'[a].startedSequence = resolutionSeq
    BY <1>3 DEF beginFrontAttempt, Started, TypeOK
  <2>4. ASSUME NEW b \in Attempts, Unresolved(b)'
        PROVE  /\ attempts'[b].startedSequence <= Len(log')
               /\ Current(b)' =>
                     /\ \A i \in DOMAIN log' : attempts'[b].startedSequence < i => ~Opened(i)'
                     /\ recentEvidence'.generation # generation' =>
                           recentEvidence'.sequence <= attempts'[b].startedSequence
    <3>1. CASE b = a
      BY <2>1, <2>3, <3>1, HistoryTypes DEF HistoryInv
    <3>2. CASE b # a
      BY <2>1, <2>2, <2>4, <3>2 DEF HistoryInv, Unresolved, Current, Opened
    <3> QED
      BY <3>1, <3>2
  <2>5. HistoryInv'
    BY <2>1, <2>4 DEF HistoryInv, Opened
  <2> QED
    BY <1>1, <2>1, <2>5
<1>4. ASSUME NEW a \in Attempts, FrontReady(a) \/ ExitReached(a)
      PROVE HistoryInv' /\ Verdicts'
  <2>1. /\ Unresolved(a) /\ (Goto(a, "connect") \/ Goto(a, "greet"))
        /\ UNCHANGED << circuit, tokens, log >>
    BY <1>4 DEF FrontReady, ExitReached, Unresolved
  <2> QED
    BY <1>2, <2>1, AttemptContinues
<1>5. ASSUME NEW a \in Attempts, ExitFinishes(a) PROVE HistoryInv' /\ Verdicts'
  BY <1>2, <1>5, AttemptLeaves, LeftIsFewer DEF ExitFinishes
<1>6. ASSUME NEW a \in Attempts, Cancel(a) PROVE HistoryInv' /\ Verdicts'
  <2>1. Fewer /\ UNCHANGED << generation, recentEvidence, tokens, log >>
    BY <1>6, AttemptLeaves, LeftIsFewer DEF Cancel, abandonFrontAttempt, circuit
  <2> QED
    BY <1>1, <2>1, HistoryKept
<1>7. ASSUME NEW a \in Attempts, FrontFails(a) PROVE HistoryInv' /\ Verdicts'
  <2>1. Fewer /\ Unresolved(a) /\ recordFrontFailure(attempts[a]) /\ UNCHANGED tokens
    BY <1>7, AttemptLeaves, LeftIsFewer DEF FrontFails, Unresolved
  <2>2. CASE UNCHANGED << circuit, log >>
    BY <1>2, <2>1, <2>2
  <2>3. CASE Current(a) /\ OpenCircuit
    <3> DEFINE e == [kind |-> "shared", since |-> attempts[a].startedSequence]
    <3>1. log' = Append(log, e)
      BY <2>1, <2>3 DEF recordFrontFailure, Current
    <3>2. e \in Entry /\ e.kind = "shared" /\ e.since = attempts[a].startedSequence
      BY AttemptMoves DEF Entry
    <3>3. Justified(e)
      BY <2>1, <2>3, <3>2 DEF Justified, HistoryInv
    <3> HIDE DEF e
    <3> QED
      BY <2>1, <2>3, <3>1, <3>2, <3>3, HistoryOpened, VerdictsExtended
  <2> QED
    BY <2>1, <2>2, <2>3 DEF recordFrontFailure, Current
<1>8. ASSUME NEW a \in Attempts, MethodSelected(a) \/ TargetReached(a)
      PROVE HistoryInv' /\ Verdicts'
  <2>1. Fewer /\ Unresolved(a) /\ recordFrontSuccess(attempts[a]) /\ UNCHANGED tokens
    BY <1>8, AttemptLeaves, LeftIsFewer DEF MethodSelected, TargetReached, Unresolved
  <2>2. CASE UNCHANGED << circuit, log >>
    BY <1>2, <2>1, <2>2
  <2>3. CASE ~UNCHANGED << circuit, log >>
    <3> DEFINE e == [kind |-> "established", since |-> attempts[a].startedSequence]
    <3>1. /\ Current(a)
          /\ log' = Append(log, e)
          /\ UNCHANGED generation
          /\ recentEvidence' = [exit |-> attempts[a].dest, generation |-> generation,
                                sequence |-> resolutionSeq + 1]
      BY <2>1, <2>3 DEF recordFrontSuccess, Current
    <3>2. e \in Entry /\ e.kind = "established" /\ e.since = attempts[a].startedSequence
      BY AttemptMoves DEF Entry
    <3>3. Justified(e)
      BY <2>1, <3>1, <3>2 DEF Justified, HistoryInv
    <3>4. /\ recentEvidence'.generation = generation
          /\ recentEvidence'.sequence = Len(log) + 1
      BY <3>1, HistoryTypes
    <3> HIDE DEF e
    <3> QED
      BY <2>1, <3>1, <3>2, <3>3, <3>4, HistoryResolved, VerdictsExtended
  <2> QED
    BY <2>2, <2>3
<1>9. ASSUME NEW a \in Attempts, ExitNotReached(a) PROVE HistoryInv' /\ Verdicts'
  <2>1. Fewer /\ Unresolved(a) /\ recordFrontAmbiguous(attempts[a])
    BY <1>9, AttemptLeaves, LeftIsFewer DEF ExitNotReached, Unresolved
  <2>2. CASE UNCHANGED << circuit, tokens, log >>
    BY <1>2, <2>1, <2>2
  <2>3. CASE ~UNCHANGED << circuit, tokens, log >>
    <3> DEFINE e == [kind |-> "ambiguous", since |-> attempts[a].startedSequence]
    <3>1. /\ Current(a) /\ ~Outdated(attempts[a])
          /\ log' = Append(log, e)
          /\ UNCHANGED << generation, recentEvidence >>
          /\ tokens' = tokens \cup {[generation |-> generation, sequence |-> Len(log) + 1]}
      BY <2>1, <2>3, HistoryTypes DEF recordFrontAmbiguous, Current
    <3>2. e \in Entry /\ e.kind = "ambiguous" /\ e.since = attempts[a].startedSequence
      BY AttemptMoves DEF Entry
    \* No success was recorded since a began: it would make a outdated.
    <3>3. recentEvidence.sequence <= attempts[a].startedSequence
      BY <2>1, <3>1, HistoryTypes DEF HistoryInv, Outdated, Current
    <3>4. \A i \in DOMAIN log : attempts[a].startedSequence < i =>
             log[i].kind \notin {"shared", "batch", "established"}
      BY <2>1, <3>1, <3>3, HistoryTypes DEF HistoryInv, Opened
    <3>5. \A i \in DOMAIN log : log[i].kind \in {"shared", "established", "ambiguous", "batch"}
      BY LogKinds
    <3>6. Justified(e)
      BY <3>2, <3>4, <3>5 DEF Justified
    <3> HIDE DEF e
    <3> QED
      BY <2>1, <3>1, <3>2, <3>6, HistoryResolved, VerdictsExtended
  <2> QED
    BY <2>2, <2>3
<1>10. ASSUME NEW first \in tokens, NEW last \in tokens,
              RecordAmbiguousBatchFailure(first, last)
       PROVE HistoryInv' /\ Verdicts'
  <2> DEFINE e == [kind |-> "batch", since |-> first.sequence]
  <2>1. /\ BatchStands(first, last) /\ OpenCircuit /\ UNCHANGED tokens
        /\ log' = Append(log, e) /\ Fewer
    BY <1>10 DEF RecordAmbiguousBatchFailure, Fewer, Unresolved
  <2>2. e \in Entry /\ e.kind = "batch" /\ e.since = first.sequence
    BY HistoryTypes DEF Entry
  <2>3. /\ first.sequence \in DOMAIN log /\ first.generation = generation
        /\ log[first.sequence].kind = "ambiguous"
        /\ \A i \in DOMAIN log : first.sequence < i => ~Opened(i)
    BY <2>1 DEF BatchStands, HistoryInv
  \* No success was recorded since the batch's first token.
  <2>4. recentEvidence.sequence <= first.sequence
    BY <2>1, <2>3, HistoryTypes DEF BatchStands, HistoryInv
  <2>5. \A i \in DOMAIN log : first.sequence < i =>
           log[i].kind \notin {"shared", "batch", "established"}
    BY <2>3, <2>4, HistoryTypes DEF HistoryInv, Opened
  <2>6. \A i \in DOMAIN log : log[i].kind \in {"shared", "established", "ambiguous", "batch"}
    BY LogKinds
  <2>7. \A i \in DOMAIN log : first.sequence <= i => log[i].kind = "ambiguous"
    <3> SUFFICES ASSUME NEW i \in DOMAIN log, first.sequence <= i
                 PROVE  log[i].kind = "ambiguous"
      OBVIOUS
    <3>1. CASE i = first.sequence
      BY <2>3, <3>1
    <3>2. CASE i # first.sequence
      BY <2>5, <2>6, <3>2, HistoryTypes
    <3> QED
      BY <3>1, <3>2
  <2>8. Justified(e)
    BY <2>2, <2>3, <2>7, HistoryTypes DEF Justified
  <2> HIDE DEF e
  <2> QED
    BY <2>1, <2>2, <2>8, HistoryOpened, VerdictsExtended
<1>11. CASE BackoffElapses
  <2>1. Fewer /\ UNCHANGED << generation, recentEvidence, tokens, log >>
    BY <1>11 DEF BackoffElapses, Fewer, Unresolved
  <2> QED
    BY <1>1, <2>1, HistoryKept
<1>12. CASE UNCHANGED vars
  BY <1>2, <1>12 DEF vars, Fewer, Unresolved
<1>13. ASSUME NEW a \in Attempts, Step(a) PROVE HistoryInv' /\ Verdicts'
  BY <1>4, <1>5, <1>6, <1>7, <1>8, <1>9, <1>13 DEF Step
<1> QED
  BY <1>3, <1>10, <1>11, <1>12, <1>13, Zenon DEF Next

----------------------------------------------------------------------------
(* The theorems.                                                           *)

LEMMA InitSound == Init => IInv
<1> SUFFICES ASSUME Init PROVE IInv
  OBVIOUS
<1>1. \A a \in Attempts : ~Unresolved(a)
  BY DEF Init, Idle, Unresolved
<1>2. SingleRecoveryProbe
  BY <1>1 DEF Init, SingleRecoveryProbe, Probing
<1>3. CircuitInv
  BY <1>1, <1>2 DEF Init, CircuitInv
<1>4. log = << >> /\ DOMAIN log = {} /\ Len(log) = 0
  BY DEF Init
<1>5. HistoryInv /\ Verdicts
  BY <1>1, <1>4 DEF Init, HistoryInv, Verdicts, NoStaleVerdict,
                   AmbiguityUncontradicted, BatchUncontradicted
<1> QED
  BY <1>3, <1>5, InitTyped DEF IInv

LEMMA InvariantHolds == Spec => []IInv
<1>1. IInv /\ [Next]_vars => IInv'
  BY TypeStep, CircuitStep, HistoryStep DEF IInv
<1> QED
  BY <1>1, InitSound, PTL DEF Spec

\* beginFrontAttempt lets at most one recovery probe through, and no path of
\* connectThroughFront leaves its slot taken.
THEOREM RecoveryExclusive == Spec => []SingleRecoveryProbe
<1>1. IInv => SingleRecoveryProbe
  BY DEF IInv, CircuitInv
<1> QED
  BY <1>1, InvariantHolds, PTL

\* FrontRetryAfter returns zero exactly when beginFrontAttempt would admit.
THEOREM RetryAfterCorrect == Spec => []RetryAfterHonest
<1>1. IInv => RetryAfterHonest
  BY DEF IInv, CircuitInv, TypeOK, RetryAfterHonest, RetryNow, Admits
<1> QED
  BY <1>1, InvariantHolds, PTL

\* FrontStatus never contradicts the circuit.
THEOREM StatusCorrect == Spec => []StatusHonest
<1>1. IInv => StatusHonest
  BY DEF IInv, CircuitInv, TypeOK, StatusHonest, FrontStatus
<1> QED
  BY <1>1, InvariantHolds, PTL

\* recordFrontSuccess and recordFrontFailure never act on an attempt older
\* than the last opening of the circuit.
THEOREM VerdictsFresh == Spec => []NoStaleVerdict
<1>1. IInv => NoStaleVerdict
  BY DEF IInv, Verdicts
<1> QED
  BY <1>1, InvariantHolds, PTL

\* recordFrontAmbiguous never records a failure that a resolution since the
\* attempt's beginning contradicts.
THEOREM AmbiguitySound == Spec => []AmbiguityUncontradicted
<1>1. IInv => AmbiguityUncontradicted
  BY DEF IInv, Verdicts
<1> QED
  BY <1>1, InvariantHolds, PTL

\* RecordAmbiguousBatchFailure opens the shared circuit only on an unbroken
\* run of ambiguous failures, whatever the other attempts do meanwhile.
THEOREM BatchVerdictSound == Spec => []BatchUncontradicted
<1>1. IInv => BatchUncontradicted
  BY DEF IInv, Verdicts
<1> QED
  BY <1>1, InvariantHolds, PTL

----------------------------------------------------------------------------
(* Rounds of health checks.                                                *)

\* Where the workers are, and what their attempts are for.
Placed ==
    \A w \in Workers :
        /\ Busy(w) => work[w].proxy \in Proxies
        /\ attempts[w].phase # "idle" => Busy(w) /\ attempts[w].dest = AddressOf[work[w].proxy]
        /\ work[w].stage = "preflight" => phase = "preflight" /\ w = Preflight
        /\ work[w].stage \in {"socks", "exitip"} => phase = "probing"

\* No proxy is handed out twice.
Probed(w) == work[w].stage \in {"socks", "exitip"}
Apart ==
    /\ phase \in {"idle", "preflight"} => results = {}
    /\ phase # "judging" => seen.sequence = 0
    /\ \A r, s \in results : r.proxy = s.proxy => r = s
    /\ \A r \in results : r.proxy \notin todo
    /\ \A w \in Workers : Probed(w) =>
          work[w].proxy \notin todo /\ \A r \in results : r.proxy # work[w].proxy
    /\ \A v, w \in Workers : Probed(v) /\ Probed(w) /\ work[v].proxy = work[w].proxy => v = w

\* The tokens of a round are the connector's.
Handed == \A r \in results : r.scope = "ambiguous" /\ r.token # NoToken => r.token \in tokens

\* What the results of a round say of the world, if the front has not changed.
Truthful ==
    steady /\ phase # "idle" =>
        /\ \A w \in Workers : attempts[w].phase = "exit" => front = "up"
        /\ \A r \in results : r.scope = "exit" => front = "up" /\ AddressOf[r.proxy] \in Flaky
        /\ \A r \in results : front = "up" /\ r.scope = "ambiguous" => AddressOf[r.proxy] \notin Alive
        /\ \A r \in results : front # "up" /\ r.token # NoToken =>
              recentEvidence.sequence <= r.token.sequence /\ seen.sequence <= r.token.sequence

\* The inductive invariant of a round: that of the connector, and what relates
\* the round's results, its workers' attempts and the truth about the front.
RInv == IInv /\ RoundTypeOK /\ Placed /\ Apart /\ Handed /\ Truthful

LEMMA RoundForms ==
    /\ Ready \in Work /\ Ready.stage = "ready" /\ NoToken \in Token /\ NoEvidence \in Evidence
    /\ NoEvidence.sequence = 0 /\ NoToken.sequence = 0
    /\ \A w \in Workers : w \in Attempts
    /\ \A a \in Traffic : a \in Attempts /\ a \notin Workers
    /\ Preflight \in Workers
    /\ \A p \in Proxies : AddressOf[p] \in Exits
    /\ Exits \subseteq Destinations /\ TestTarget \notin Exits
BY AttemptsAssumption, WorkersAssumption, ExitsAssumption, TestTargetAssumption
   DEF Ready, Work, NoToken, Token, NoEvidence, Evidence, Destinations

----------------------------------------------------------------------------
(* A round is a client of the connector.                                   *)

LEMMA LeastToken ==
    ASSUME NEW T \in SUBSET Token, T # {}
    PROVE  \E t \in T : \A u \in T : t.sequence <= u.sequence
<1> DEFINE X == {t.sequence : t \in T}
<1>1. X \subseteq Nat /\ X # {}
  BY DEF Token
<1> HIDE DEF X
<1>2. PICK x \in X : \A y \in X : ~ (<< y, x >> \in OpToRel(<, Nat))
  BY <1>1, NatLessThanWellFounded, WFMin
<1>3. \A y \in X : x <= y
  <2>1. \A y \in X : ~(y < x)
    BY <1>1, <1>2 DEF OpToRel
  <2> QED BY <1>1, <2>1
<1> USE DEF X
<1> QED BY <1>3

LEMMA GreatestToken ==
    ASSUME NEW T \in SUBSET Token, T # {}, NEW n \in Nat, \A t \in T : t.sequence <= n
    PROVE  \E t \in T : \A u \in T : t.sequence >= u.sequence
<1> DEFINE X == {n - t.sequence : t \in T}
<1>1. X \subseteq Nat /\ X # {}
  BY DEF Token
<1> HIDE DEF X
<1>2. PICK x \in X : \A y \in X : ~ (<< y, x >> \in OpToRel(<, Nat))
  BY <1>1, NatLessThanWellFounded, WFMin
<1>3. \A y \in X : x <= y
  <2>1. \A y \in X : ~(y < x)
    BY <1>1, <1>2 DEF OpToRel
  <2> QED BY <1>1, <2>1
<1> USE DEF X
<1>4. PICK t \in T : x = n - t.sequence
  OBVIOUS
<1>5. ASSUME NEW u \in T PROVE t.sequence >= u.sequence
  <2>1. n - u.sequence \in X /\ u.sequence \in Nat
    BY DEF Token
  <2> HIDE DEF X
  <2>2. x <= n - u.sequence
    BY <1>3, <2>1
  <2>3. t.sequence \in Nat
    BY DEF Token
  <2> QED BY <1>4, <2>1, <2>2, <2>3
<1> QED BY <1>5

LEMMA BatchTokens ==
    ASSUME RInv, EveryExitFailed
    PROVE  First \in tokens /\ Last \in tokens
<1> DEFINE T == {r.token : r \in Ambiguous}
<1>1. Ambiguous = results /\ Ambiguous # {}
  <2>1. Ambiguous = results /\ Cardinality({AddressOf[r.proxy] : r \in results}) >= 2
    BY DEF EveryExitFailed
  <2>2. results = {} => {AddressOf[r.proxy] : r \in results} = {}
    OBVIOUS
  <2> QED BY <2>1, <2>2, FS_EmptySet
<1>2. \A r \in Ambiguous : r.token \in tokens
  BY <1>1 DEF RInv, Handed, Ambiguous, EveryExitFailed
<1>3. tokens \subseteq Token /\ \A t \in tokens : t.sequence \in 1..resolutionSeq /\ resolutionSeq \in Nat
  BY DEF RInv, IInv, HistoryInv, TypeOK
<1>4. T \in SUBSET Token /\ T # {} /\ resolutionSeq \in Nat /\ \A t \in T : t.sequence <= resolutionSeq
  BY <1>1, <1>2, <1>3
<1> HIDE DEF T
<1>5. /\ \E t \in T : \A u \in T : t.sequence <= u.sequence
      /\ \E t \in T : \A u \in T : t.sequence >= u.sequence
  BY <1>4, LeastToken, GreatestToken
<1>6. /\ \E t \in T : \A r \in Ambiguous : t.sequence <= r.token.sequence
      /\ \E t \in T : \A r \in Ambiguous : t.sequence >= r.token.sequence
  BY <1>5 DEF T
<1>7. First \in T /\ Last \in T
  BY <1>6, Zenon DEF First, Last, T
<1> QED BY <1>2, <1>7 DEF T

\* Every step of a round, of a client, or of the world is one of the connector,
\* or none.
LEMMA RoundConnects == ASSUME RInv, [HrNext]_hrVars PROVE [Next]_vars
<1>0. \A a \in Attempts : Step(a) => Next
  BY Zenon DEF Next
<1>1. ASSUME NEW a \in Attempts, Progress(a) \/ NoFront(a) \/ NoExit(a) \/ Greeted(a) \/ ExitFinishes(a) \/ Cancel(a)
      PROVE  Next
  BY <1>0, <1>1, Zenon DEF Progress, NoFront, NoExit, Greeted, Step
<1>2. ASSUME NEW a \in Traffic, TrafficStep(a) PROVE Next
  <2>1. a \in Attempts /\ \A d \in Exits : d \in Destinations
    BY RoundForms
  <2>2. ASSUME NEW d \in Exits, beginFrontAttempt(a, d) PROVE Next
    BY <2>1, <2>2, Zenon DEF Next
  <2> QED BY <1>1, <1>2, <2>1, <2>2, Zenon DEF TrafficStep
<1>3. ASSUME NEW w \in Workers, Probe(w) PROVE [Next]_vars
  <2>1. w \in Attempts
    BY RoundForms
  <2>2. CASE probeBegins(w)
    <3>1. Busy(w)
      BY <2>2 DEF probeBegins
    <3>2. AddressOf[work[w].proxy] \in Destinations
      BY <3>1, RoundForms DEF RInv, Placed
    <3>3. beginFrontAttempt(w, AddressOf[work[w].proxy]) => Next
      BY <2>1, <3>2, Zenon DEF Next
    <3>4. beginFrontAttempt(w, AddressOf[work[w].proxy]) \/ UNCHANGED vars
      BY <2>2, Zenon DEF probeBegins
    <3> QED BY <3>3, <3>4, Zenon
  <2>3. CASE probeContinues(w) \/ probeFails(w) \/ probeGreeted(w) \/ probeFinishes(w) \/ probeCancelled(w)
    <3>1. \/ Progress(w) \/ NoFront(w) \/ NoExit(w) \/ Greeted(w) \/ ExitFinishes(w) \/ Cancel(w)
          \/ UNCHANGED vars
      BY <2>3, Zenon DEF probeContinues, probeFails, probeGreeted, probeFinishes, probeCancelled
    <3> QED BY <1>1, <2>1, <3>1, Zenon
  <2>4. CASE takeJob(w)
    BY <2>4, Zenon DEF takeJob
  <2> QED BY <1>3, <2>2, <2>3, <2>4, Zenon DEF Probe
<1>4. CASE judge
  <2>1. recordBatch
    BY <1>4, Zenon DEF judge
  <2>2. CASE UNCHANGED vars
    BY <2>2
  <2>3. CASE EveryExitFailed /\ RecordAmbiguousBatchFailure(First, Last)
    <3>1. First \in tokens /\ Last \in tokens
      BY <2>3, BatchTokens
    <3> QED BY <2>3, <3>1, Zenon DEF Next
  <2> QED BY <2>1, <2>2, <2>3, Zenon DEF recordBatch
<1>5. CASE backoffElapses
  BY <1>5, Zenon DEF backoffElapses, Next
<1>6. CASE startRound \/ preflight \/ dropRound \/ readEvidence \/ frontChanges \/ \E p \in Proxies : toggleOffline(p)
  BY <1>6, Zenon DEF startRound, preflight, dropRound, readEvidence, frontChanges, toggleOffline
<1>7. CASE UNCHANGED hrVars
  BY <1>7, Zenon DEF hrVars
<1> QED BY <1>2, <1>3, <1>4, <1>5, <1>6, <1>7, Zenon DEF HrNext, Conclude

----------------------------------------------------------------------------
(* The round, step by step.                                                *)

RoundPart == RoundTypeOK /\ Placed /\ Apart /\ Handed /\ Truthful

\* The steps that leave the round and the world alone.
LEMMA OnlyAttempts ==
    ASSUME RoundPart, UNCHANGED << round, health, world, steady >>, tokens \subseteq tokens',
           recentEvidence' = recentEvidence \/ front = "up",
           \A w \in Workers : attempts'[w].phase # "idle" =>
              /\ Busy(w) /\ attempts'[w].dest = AddressOf[work[w].proxy]
              /\ attempts'[w].phase = "exit" => attempts[w].phase = "exit"
    PROVE  RoundPart'
<1> USE DEF RoundPart, round, world
<1>1. RoundTypeOK'
  BY DEF RoundTypeOK
<1>2. Placed' /\ Apart'
  BY DEF Placed, Apart, Busy, Probed
<1>3. Handed'
  BY DEF Handed
<1>4. Truthful'
  BY DEF Truthful
<1> QED BY <1>1, <1>2, <1>3, <1>4

\* What the attempt a becomes.
LEMMA AttemptForms ==
    ASSUME TypeOK, NEW a \in Attempts, Return(a) \/ \E ph : Goto(a, ph)
    PROVE  /\ \A b \in Attempts \ {a} : attempts'[b] = attempts[b]
           /\ Return(a) => attempts'[a].phase = "idle"
           /\ \A ph : Goto(a, ph) => attempts'[a].phase = ph /\ attempts'[a].dest = attempts[a].dest
BY DEF TypeOK, Return, Goto, Idle, Attempt

LEMMA Continues ==
    ASSUME TypeOK, NEW a \in Attempts, Progress(a)
    PROVE  /\ \A b \in Attempts \ {a} : attempts'[b] = attempts[b]
           /\ attempts[a].phase # "idle" /\ attempts'[a].phase # "exit"
           /\ attempts'[a].dest = attempts[a].dest
           /\ UNCHANGED << tokens, recentEvidence >>
<1>1. Goto(a, "connect") \/ Goto(a, "greet")
  BY DEF Progress, FrontReady, ExitReached
<1> QED BY <1>1, AttemptForms DEF Progress, FrontReady, ExitReached, circuit

\* How an attempt ends, and what it leaves behind.
LEMMA Ends ==
    ASSUME TypeOK, NEW a \in Attempts, NoFront(a) \/ NoExit(a) \/ ExitFinishes(a) \/ Cancel(a)
    PROVE  /\ \A b \in Attempts \ {a} : attempts'[b] = attempts[b]
           /\ attempts'[a].phase = "idle" /\ attempts[a].phase # "idle"
           /\ tokens \subseteq tokens' /\ UNCHANGED recentEvidence
<1>1. Return(a)
  BY DEF NoFront, NoExit, FrontFails, ExitNotReached, ExitFinishes, Cancel
<1>2. attempts[a].phase # "idle"
  BY DEF NoFront, NoExit, FrontFails, ExitNotReached, ExitFinishes, Cancel, Unresolved
<1>3. CASE NoFront(a)
  BY <1>1, <1>2, <1>3, AttemptForms DEF NoFront, FrontFails, recordFrontFailure, OpenCircuit, circuit
<1>4. CASE NoExit(a)
  BY <1>1, <1>2, <1>4, AttemptForms DEF NoExit, ExitNotReached, recordFrontAmbiguous, circuit
<1>5. CASE ExitFinishes(a) \/ Cancel(a)
  BY <1>1, <1>2, <1>5, AttemptForms DEF ExitFinishes, Cancel, abandonFrontAttempt, circuit
<1> QED BY <1>3, <1>4, <1>5

LEMMA IsGreeted ==
    ASSUME TypeOK, NEW a \in Attempts, Greeted(a)
    PROVE  /\ \A b \in Attempts \ {a} : attempts'[b] = attempts[b]
           /\ attempts[a].phase = "greet" /\ attempts'[a].phase = "exit"
           /\ attempts'[a].dest = attempts[a].dest
           /\ UNCHANGED tokens /\ front = "up"
           /\ attempts[a].generation = generation => resolutionSeq' = resolutionSeq + 1
           /\ resolutionSeq' \in Nat
BY AttemptForms DEF Greeted, Reachable, MethodSelected, recordFrontSuccess, circuit, TypeOK

LEMMA Begins ==
    ASSUME TypeOK, NEW a \in Attempts, NEW d, beginFrontAttempt(a, d)
    PROVE  /\ \A b \in Attempts \ {a} : attempts'[b] = attempts[b]
           /\ attempts'[a].dest = d /\ attempts'[a].phase = "front"
           /\ UNCHANGED << tokens, recentEvidence >>
BY DEF TypeOK, beginFrontAttempt, Started

LEMMA TrafficRound == ASSUME RInv, NEW a \in Traffic, TrafficStep(a) PROVE RoundPart'
<1>0. /\ RoundPart /\ TypeOK /\ a \in Attempts /\ UNCHANGED << round, health, world, steady >>
      /\ \A w \in Workers : w \in Attempts \ {a}
  BY RoundForms DEF RInv, IInv, RoundPart, TrafficStep
<1>1. /\ \A b \in Attempts \ {a} : attempts'[b] = attempts[b]
      /\ tokens \subseteq tokens' /\ (recentEvidence' = recentEvidence \/ front = "up")
  <2>1. CASE \E d \in Exits : beginFrontAttempt(a, d)
    BY <1>0, <2>1, Begins
  <2>2. CASE Progress(a)
    BY <1>0, <2>2, Continues
  <2>3. CASE NoFront(a) \/ NoExit(a) \/ ExitFinishes(a) \/ Cancel(a)
    BY <1>0, <2>3, Ends
  <2>4. CASE Greeted(a)
    BY <1>0, <2>4, IsGreeted
  <2> QED BY <2>1, <2>2, <2>3, <2>4 DEF TrafficStep
<1>2. \A w \in Workers : attempts'[w] = attempts[w]
  BY <1>0, <1>1
<1> QED BY <1>0, <1>1, <1>2, OnlyAttempts DEF RoundPart, Placed

\* A probe that begins or goes on.
LEMMA ProbeGoesOn ==
    ASSUME RInv, NEW w \in Workers,
           \/ probeContinues(w)
           \/ /\ Busy(w) /\ beginFrontAttempt(w, AddressOf[work[w].proxy])
              /\ UNCHANGED << round, health, world, steady >>
    PROVE  RoundPart'
<1>0. /\ RoundPart /\ TypeOK /\ w \in Attempts /\ UNCHANGED << round, health, world, steady >> /\ Busy(w)
      /\ \A v \in Workers : v \in Attempts
  BY RoundForms DEF RInv, IInv, RoundPart, probeContinues
<1>1. /\ \A b \in Attempts \ {w} : attempts'[b] = attempts[b]
      /\ attempts'[w].dest = AddressOf[work[w].proxy] /\ attempts'[w].phase # "exit"
      /\ UNCHANGED << tokens, recentEvidence >>
  <2>1. CASE probeContinues(w)
    <3>1. Progress(w)
      BY <2>1 DEF probeContinues
    <3> QED BY <1>0, <3>1, Continues DEF RoundPart, Placed
  <2>2. CASE beginFrontAttempt(w, AddressOf[work[w].proxy])
    BY <1>0, <2>2, Begins
  <2> QED BY <2>1, <2>2
<1>2. \A v \in Workers : attempts'[v].phase # "idle" =>
              /\ Busy(v) /\ attempts'[v].dest = AddressOf[work[v].proxy]
              /\ attempts'[v].phase = "exit" => attempts[v].phase = "exit"
  BY <1>0, <1>1 DEF RoundPart, Placed
<1> QED BY <1>0, <1>1, <1>2, OnlyAttempts

LEMMA BackoffRound == ASSUME RInv, backoffElapses PROVE RoundPart'
<1>1. /\ RoundPart /\ UNCHANGED << round, health, world, steady >>
      /\ UNCHANGED << tokens, recentEvidence, attempts >>
  BY DEF RInv, RoundPart, backoffElapses, BackoffElapses
<1> QED BY <1>1, OnlyAttempts DEF RoundPart, Placed

----------------------------------------------------------------------------
(* Reports.                                                                *)

LEMMA Reported ==
    ASSUME RInv, NEW w \in Workers, Busy(w), NEW scope \in {"none", "ambiguous", "exit"},
           NEW token \in Token, Report(w, scope, token), UNCHANGED << health, world, steady >>,
           \A b \in Attempts \ {w} : attempts'[b] = attempts[b], attempts'[w].phase = "idle",
           tokens \subseteq tokens', UNCHANGED recentEvidence,
           scope = "ambiguous" /\ token # NoToken => token \in tokens',
           steady => /\ scope = "exit" => front = "up" /\ AddressOf[work[w].proxy] \in Flaky
                     /\ front = "up" /\ scope = "ambiguous" => AddressOf[work[w].proxy] \notin Alive
                     /\ front # "up" /\ token # NoToken => recentEvidence.sequence <= token.sequence
    PROVE  RoundPart'
<1> DEFINE new == [proxy |-> work[w].proxy, scope |-> scope, token |-> token]
<1>0. /\ RoundTypeOK /\ Placed /\ Apart /\ Handed /\ Truthful
      /\ work[w].proxy \in Proxies /\ new \in Result
      /\ \A v \in Workers : v \in Attempts
      /\ UNCHANGED << health, offline, front, steady, skipped, cancelled, seen >>
      /\ seen.sequence \in Nat /\ token.sequence \in Nat
  BY RoundForms DEF RInv, Placed, Result, world, Report, RoundTypeOK, Evidence, Token
<1>1. /\ work' = [work EXCEPT ![w] = Ready] /\ work \in [Workers -> Work]
      /\ work'[w] = Ready /\ \A v \in Workers \ {w} : work'[v] = work[v]
  BY <1>0 DEF Report, RoundTypeOK
<1>2. /\ results' \subseteq results \cup {new} /\ todo' \subseteq todo
      /\ new \in results' => work[w].proxy \notin todo'
      /\ \A r \in results : r.proxy # work[w].proxy
      /\ phase' = "probing" /\ phase \in {"preflight", "probing"}
  <2>1. CASE work[w].stage = "preflight"
    <3>1. phase = "preflight" /\ results = {}
      BY <1>0, <2>1 DEF Placed, Apart
    <3> QED BY <1>0, <2>1, <3>1 DEF Report
  <2>2. CASE work[w].stage # "preflight"
    <3>1. Probed(w) /\ phase = "probing"
      BY <1>0, <2>2 DEF Busy, Probed, Placed
    <3> QED BY <1>0, <2>2, <3>1 DEF Report, Apart
  <2> QED BY <2>1, <2>2
<1>3. seen.sequence = 0
  BY <1>0, <1>2 DEF Apart
<1> HIDE DEF new
<1>4. new.proxy = work[w].proxy /\ new.scope = scope /\ new.token = token
  BY DEF new
<1>5. RoundTypeOK'
  <2>1. /\ todo' \subseteq Proxies /\ results' \subseteq Result /\ phase' \in {"idle", "preflight", "probing", "judging"}
        /\ work' \in [Workers -> Work]
    BY <1>0, <1>1, <1>2, RoundForms DEF RoundTypeOK
  <2>2. \A r, s \in results' : r.proxy = s.proxy => r = s
    BY <1>0, <1>2, <1>4 DEF RoundTypeOK
  <2> QED BY <1>0, <2>1, <2>2 DEF RoundTypeOK
<1>6. \A v \in Workers \ {w} : ~(work[w].stage = "preflight" /\ work[v].stage \in {"preflight", "socks", "exitip"})
  BY <1>0 DEF Placed
<1>7. Placed'
  <2> SUFFICES ASSUME NEW v \in Workers
               PROVE  /\ Busy(v)' => work'[v].proxy \in Proxies
                      /\ attempts'[v].phase # "idle" => Busy(v)' /\ attempts'[v].dest = AddressOf[work'[v].proxy]
                      /\ work'[v].stage # "preflight"
    BY <1>2 DEF Placed
  <2>1. CASE v = w
    BY <1>1, <2>1, RoundForms DEF Busy
  <2>2. CASE v # w
    <3>1. work'[v] = work[v] /\ attempts'[v] = attempts[v]
      BY <1>0, <1>1, <2>2
    <3>2. work[v].stage # "preflight"
      BY <1>0, <1>2, <1>6, <2>2 DEF Placed, Busy
    <3> QED BY <1>0, <3>1, <3>2 DEF Placed, Busy
  <2> QED BY <2>1, <2>2
<1>8. Apart'
  <2>1. \A v \in Workers : Probed(v)' => v # w /\ Probed(v) /\ work'[v] = work[v]
    BY <1>1, RoundForms DEF Probed
  <2>2. \A r, s \in results' : r.proxy = s.proxy => r = s
    BY <1>5 DEF RoundTypeOK
  <2>3. \A r \in results' : r.proxy \notin todo'
    BY <1>0, <1>2, <1>4 DEF Apart
  <2>4. ASSUME NEW v \in Workers, Probed(v)'
        PROVE  work'[v].proxy \notin todo' /\ \A r \in results' : r.proxy # work'[v].proxy
    <3>1. v # w /\ Probed(v) /\ work'[v] = work[v]
      BY <2>1, <2>4
    <3>2. work[v].proxy \notin todo /\ \A r \in results : r.proxy # work[v].proxy
      BY <1>0, <3>1 DEF Apart
    <3>3. work[v].proxy # work[w].proxy
      <4>1. Probed(w)
        BY <1>6, <3>1 DEF Probed, Busy
      <4> QED BY <1>0, <3>1, <4>1 DEF Apart
    <3> QED BY <1>2, <1>4, <3>1, <3>2, <3>3
  <2>5. \A u, v \in Workers : Probed(u)' /\ Probed(v)' /\ work'[u].proxy = work'[v].proxy => u = v
    BY <1>0, <2>1 DEF Apart
  <2>6. seen'.sequence = 0 /\ phase' \notin {"idle", "preflight"}
    BY <1>0, <1>2, <1>3
  <2> QED BY <2>2, <2>3, <2>4, <2>5, <2>6 DEF Apart, Probed
<1>9. Handed'
  BY <1>0, <1>2, <1>4 DEF Handed
<1>10. Truthful'
  <2> SUFFICES ASSUME steady
               PROVE  /\ \A v \in Workers : attempts'[v].phase = "exit" => front = "up"
                      /\ \A r \in results' : r.scope = "exit" => front = "up" /\ AddressOf[r.proxy] \in Flaky
                      /\ \A r \in results' : front = "up" /\ r.scope = "ambiguous" => AddressOf[r.proxy] \notin Alive
                      /\ \A r \in results' : front # "up" /\ r.token # NoToken =>
                            recentEvidence.sequence <= r.token.sequence /\ seen.sequence <= r.token.sequence
    BY <1>0 DEF Truthful
  <2>1. \A v \in Workers : attempts'[v].phase = "exit" => front = "up"
    BY <1>0, <1>2 DEF Truthful
  <2>2. seen.sequence <= token.sequence
    BY <1>0, <1>3
  <2> QED BY <1>0, <1>2, <1>4, <2>1, <2>2 DEF Truthful
<1> QED BY <1>5, <1>7, <1>8, <1>9, <1>10 DEF RoundPart

LEMMA RoundEnded ==
    ASSUME RoundTypeOK, EndRound, UNCHANGED world,
           health' \in [Proxies -> [failures : 0..FailureThreshold,
                                    successes : 0..SuccessThreshold, unhealthy : BOOLEAN]],
           \A v \in Workers : attempts'[v].phase = "idle"
    PROVE  RoundPart'
<1>1. /\ phase' = "idle" /\ todo' = {} /\ results' = {} /\ seen' = NoEvidence
      /\ skipped' = FALSE /\ cancelled' = FALSE /\ work' \in [Workers -> Work]
      /\ \A v \in Workers : work'[v].stage = "ready"
  BY RoundForms DEF EndRound
<1>2. RoundTypeOK'
  BY <1>1, RoundForms DEF RoundTypeOK, world
<1>3. Placed' /\ Apart'
  BY <1>1, RoundForms DEF Placed, Apart, Busy, Probed
<1>4. Handed' /\ Truthful'
  BY <1>1 DEF Handed, Truthful
<1> QED BY <1>2, <1>3, <1>4 DEF RoundPart

\* A worker that leaves.
LEMMA Gone ==
    ASSUME RInv, NEW w \in Workers, Busy(w),
           work' = [work EXCEPT ![w] = [Ready EXCEPT !.stage = "gone"]],
           cancelled' \in BOOLEAN, UNCHANGED << phase, todo, results, skipped, seen, health, world, steady >>,
           \A b \in Attempts \ {w} : attempts'[b] = attempts[b], attempts'[w].phase = "idle",
           tokens \subseteq tokens', UNCHANGED recentEvidence
    PROVE  RoundPart'
<1>0. /\ RoundTypeOK /\ Placed /\ Apart /\ Handed /\ Truthful
      /\ \A v \in Workers : v \in Attempts
      /\ UNCHANGED << offline, front >>
  BY RoundForms DEF RInv, world
<1>1. /\ work' \in [Workers -> Work] /\ work'[w].stage = "gone"
      /\ \A v \in Workers \ {w} : work'[v] = work[v] /\ attempts'[v] = attempts[v]
  <2>1. [Ready EXCEPT !.stage = "gone"] \in Work /\ [Ready EXCEPT !.stage = "gone"].stage = "gone"
    BY RoundForms DEF Work, Ready
  <2> QED BY <1>0, <2>1 DEF RoundTypeOK
<1>2. RoundTypeOK'
  BY <1>0, <1>1 DEF RoundTypeOK
<1>3. Placed'
  <2> SUFFICES ASSUME NEW v \in Workers
               PROVE  /\ Busy(v)' => work'[v].proxy \in Proxies
                      /\ attempts'[v].phase # "idle" => Busy(v)' /\ attempts'[v].dest = AddressOf[work'[v].proxy]
                      /\ work'[v].stage = "preflight" => phase' = "preflight" /\ v = Preflight
                      /\ work'[v].stage \in {"socks", "exitip"} => phase' = "probing"
    BY DEF Placed
  <2>1. CASE v = w
    BY <1>1, <2>1 DEF Busy
  <2>2. CASE v # w
    BY <1>0, <1>1, <2>2 DEF Placed, Busy
  <2> QED BY <2>1, <2>2
<1>4. Apart'
  <2>1. \A v \in Workers : Probed(v)' => v # w /\ Probed(v) /\ work'[v] = work[v]
    BY <1>1 DEF Probed
  <2> QED BY <1>0, <2>1 DEF Apart, Probed
<1>5. Handed'
  BY <1>0 DEF Handed
<1>6. Truthful'
  BY <1>0, <1>1 DEF Truthful
<1> QED BY <1>2, <1>3, <1>4, <1>5, <1>6 DEF RoundPart

\* A failure of the front, or a closed circuit.
LEMMA SharedRound ==
    ASSUME RInv, NEW w \in Workers, Busy(w), Shared(w), UNCHANGED << health, world, steady >>,
           \A b \in Attempts \ {w} : attempts'[b] = attempts[b], attempts'[w].phase = "idle",
           tokens \subseteq tokens', UNCHANGED recentEvidence
    PROVE  RoundPart'
<1>1. CASE work[w].stage = "preflight"
  <2>1. \A v \in Workers \ {w} : attempts[v].phase = "idle" /\ v \in Attempts
    BY <1>1, RoundForms DEF RInv, Placed, Busy
  <2> QED BY <1>1, <2>1, RoundEnded DEF Shared, RInv, RoundTypeOK
<1>2. CASE work[w].stage # "preflight"
  BY <1>2, Gone DEF Shared
<1> QED BY <1>1, <1>2

\* The token of a failure that was recorded is one of the connector's, and
\* newer than the last evidence.
LEMMA RecordedToken ==
    ASSUME RInv, NEW w \in Workers, NoExit(w)
    PROVE  /\ Recorded(w) \in Token
           /\ Recorded(w) # NoToken =>
                Recorded(w) \in tokens' /\ recentEvidence.sequence <= Recorded(w).sequence
<1>1. /\ TypeOK /\ generation \in Nat /\ resolutionSeq \in Nat /\ recentEvidence.sequence \in Nat
      /\ recentEvidence.sequence <= resolutionSeq
  BY DEF RInv, IInv, TypeOK, HistoryInv, Evidence
<1>2. CASE tokens' = tokens
  BY <1>2, RoundForms DEF Recorded
<1>3. CASE tokens' # tokens
  <2>1. /\ tokens' = tokens \cup {[generation |-> generation, sequence |-> resolutionSeq + 1]}
        /\ resolutionSeq' = resolutionSeq + 1
    BY <1>3 DEF NoExit, ExitNotReached, recordFrontAmbiguous
  <2>2. Recorded(w) = [generation |-> generation, sequence |-> resolutionSeq + 1]
    BY <1>3, <2>1 DEF Recorded
  <2> QED BY <1>1, <2>1, <2>2 DEF Token
<1> QED BY <1>2, <1>3

LEMMA ProbeFailsRound == ASSUME RInv, NEW w \in Workers, probeFails(w) PROVE RoundPart'
<1>0. TypeOK /\ w \in Attempts /\ Busy(w) /\ UNCHANGED << health, world, steady >>
  BY RoundForms DEF RInv, IInv, probeFails
<1>1. CASE NoFront(w) /\ Shared(w)
  BY <1>0, <1>1, Ends, SharedRound
<1>2. CASE NoExit(w) /\ Report(w, "none", NoToken)
  <2>1. NoToken \in Token
    BY RoundForms
  <2> QED BY <1>0, <1>2, <2>1, Ends, Reported
<1>3. CASE NoExit(w) /\ Report(w, "ambiguous", Recorded(w))
  <2>1. /\ Recorded(w) \in Token
        /\ Recorded(w) # NoToken =>
             Recorded(w) \in tokens' /\ recentEvidence.sequence <= Recorded(w).sequence
    BY <1>3, RecordedToken
  <2>2. front = "up" => AddressOf[work[w].proxy] \notin Alive
    <3>1. attempts[w].phase # "idle" /\ attempts[w].dest = AddressOf[work[w].proxy]
      BY <1>0, <1>3, Ends DEF RInv, Placed
    <3> QED BY <1>3, <3>1 DEF NoExit, Reachable
  <2> QED BY <1>0, <1>3, <2>1, <2>2, Ends, Reported
<1> QED BY <1>1, <1>2, <1>3 DEF probeFails

\* A worker's probe that stays its own.
LEMMA ProbeKept ==
    ASSUME RInv, NEW w \in Workers, Busy(w), NEW v \in Work, v.proxy = work[w].proxy,
           v.stage \in {"preflight", "socks", "exitip"},
           v.stage = "preflight" <=> work[w].stage = "preflight",
           work' = [work EXCEPT ![w] = v],
           UNCHANGED << phase, todo, results, skipped, cancelled, seen, health, world, steady >>,
           \A b \in Attempts \ {w} : attempts'[b] = attempts[b],
           attempts'[w].phase # "idle" => attempts'[w].dest = AddressOf[work[w].proxy],
           attempts'[w].phase = "exit" => front = "up",
           tokens \subseteq tokens', recentEvidence' = recentEvidence \/ front = "up"
    PROVE  RoundPart'
<1>0. /\ RoundTypeOK /\ Placed /\ Apart /\ Handed /\ Truthful
      /\ \A u \in Workers : u \in Attempts
      /\ UNCHANGED << offline, front >>
  BY RoundForms DEF RInv, world
<1>1. /\ work' \in [Workers -> Work] /\ work'[w] = v
      /\ \A u \in Workers \ {w} : work'[u] = work[u] /\ attempts'[u] = attempts[u]
  BY <1>0 DEF RoundTypeOK
<1>2. RoundTypeOK'
  BY <1>0, <1>1 DEF RoundTypeOK
<1>3. Placed'
  <2> SUFFICES ASSUME NEW u \in Workers
               PROVE  /\ Busy(u)' => work'[u].proxy \in Proxies
                      /\ attempts'[u].phase # "idle" => Busy(u)' /\ attempts'[u].dest = AddressOf[work'[u].proxy]
                      /\ work'[u].stage = "preflight" => phase' = "preflight" /\ u = Preflight
                      /\ work'[u].stage \in {"socks", "exitip"} => phase' = "probing"
    BY DEF Placed
  <2>1. CASE u = w
    BY <1>0, <1>1, <2>1 DEF Placed, Busy
  <2>2. CASE u # w
    BY <1>0, <1>1, <2>2 DEF Placed, Busy
  <2> QED BY <2>1, <2>2
<1>4. Apart'
  <2>1. \A u \in Workers : Probed(u)' => Probed(u) /\ work'[u].proxy = work[u].proxy
    BY <1>1 DEF Probed, Busy
  <2> QED BY <1>0, <2>1 DEF Apart, Probed
<1>5. Handed'
  BY <1>0 DEF Handed
<1>6. Truthful'
  BY <1>0, <1>1 DEF Truthful
<1> QED BY <1>2, <1>3, <1>4, <1>5, <1>6 DEF RoundPart

LEMMA ProbeGreetedRound == ASSUME RInv, NEW w \in Workers, probeGreeted(w) PROVE RoundPart'
<1>0. /\ TypeOK /\ RoundTypeOK /\ w \in Attempts /\ Busy(w) /\ Greeted(w) /\ UNCHANGED << health, world, steady >>
      /\ UNCHANGED << phase, todo, results, skipped, cancelled, seen >>
      /\ generation \in Nat
  BY RoundForms DEF RInv, IInv, probeGreeted, TypeOK
<1> DEFINE t == IF attempts[w].generation = generation
                THEN [generation |-> generation, sequence |-> resolutionSeq'] ELSE NoToken
           v == [work[w] EXCEPT !.token = t]
<1>1. t \in Token
  BY <1>0, IsGreeted, RoundForms DEF Token
<1>2. work' = [work EXCEPT ![w] = v]
  BY DEF probeGreeted
<1> HIDE DEF t
<1>3. v \in Work /\ v.proxy = work[w].proxy /\ v.stage = work[w].stage
  BY <1>0, <1>1 DEF RoundTypeOK, Work
<1>4. attempts[w].dest = AddressOf[work[w].proxy]
  BY <1>0, IsGreeted DEF RInv, Placed
<1> HIDE DEF v
<1> QED BY <1>0, <1>2, <1>3, <1>4, IsGreeted, ProbeKept DEF Busy

LEMMA ProbeFinishesRound == ASSUME RInv, NEW w \in Workers, probeFinishes(w) PROVE RoundPart'
<1>0. /\ TypeOK /\ RoundTypeOK /\ w \in Attempts /\ Busy(w) /\ ExitFinishes(w) /\ UNCHANGED << health, world, steady >>
      /\ NoToken \in Token /\ work[w] \in Work /\ work[w].token \in Token
  BY RoundForms DEF RInv, IInv, probeFinishes, RoundTypeOK, Work
<1>1. CASE Report(w, "none", NoToken)
  BY <1>0, <1>1, Ends, Reported
<1>2. CASE MayRefuse(w) /\ Report(w, "exit", work[w].token)
  <2>1. steady => front = "up" /\ AddressOf[work[w].proxy] \in Flaky
    <3>1. attempts[w].phase = "exit"
      BY <1>0 DEF ExitFinishes
    <3>2. phase # "idle"
      BY <1>0 DEF RInv, Placed, Busy
    <3> QED BY <1>2, <3>1, <3>2 DEF RInv, Truthful, MayRefuse
  <2> QED BY <1>0, <1>2, <2>1, Ends, Reported
<1>3. CASE /\ work[w].stage = "socks"
           /\ work' = [work EXCEPT ![w].stage = "exitip", ![w].token = NoToken]
           /\ UNCHANGED << phase, todo, results, skipped, cancelled, seen >>
  <2> DEFINE v == [work[w] EXCEPT !.stage = "exitip", !.token = NoToken]
  <2>1. v \in Work /\ v.proxy = work[w].proxy /\ v.stage = "exitip"
    BY <1>0 DEF Work
  <2>2. work' = [work EXCEPT ![w] = v]
    BY <1>0, <1>3 DEF RoundTypeOK
  <2> HIDE DEF v
  <2> QED BY <1>0, <1>3, <2>1, <2>2, Ends, ProbeKept
<1> QED BY <1>1, <1>2, <1>3 DEF probeFinishes

LEMMA ProbeBeginsRound == ASSUME RInv, NEW w \in Workers, probeBegins(w) PROVE RoundPart'
<1>1. CASE ~Admits /\ Shared(w) /\ UNCHANGED vars
  <2>1. /\ Busy(w) /\ attempts'[w].phase = "idle" /\ UNCHANGED << health, world, steady >>
        /\ UNCHANGED << attempts, tokens, recentEvidence >>
    BY <1>1 DEF probeBegins, vars, circuit
  <2> QED BY <1>1, <2>1, SharedRound
<1>2. CASE beginFrontAttempt(w, AddressOf[work[w].proxy]) /\ UNCHANGED round
  BY <1>2, ProbeGoesOn DEF probeBegins
<1> QED BY <1>1, <1>2 DEF probeBegins

LEMMA ProbeCancelledRound == ASSUME RInv, NEW w \in Workers, probeCancelled(w) PROVE RoundPart'
<1>0. /\ TypeOK /\ w \in Attempts /\ Busy(w) /\ UNCHANGED << health, world, steady >>
      /\ work' = [work EXCEPT ![w] = [Ready EXCEPT !.stage = "gone"]]
      /\ UNCHANGED << phase, todo, results, skipped, cancelled, seen >>
  BY RoundForms DEF RInv, IInv, probeCancelled
<1>1. /\ \A b \in Attempts \ {w} : attempts'[b] = attempts[b]
      /\ attempts'[w].phase = "idle" /\ tokens \subseteq tokens' /\ UNCHANGED recentEvidence
  <2>1. CASE Cancel(w) \/ ExitFinishes(w)
    BY <1>0, <2>1, Ends
  <2>2. CASE attempts[w].phase = "idle" /\ UNCHANGED vars
    BY <2>2 DEF vars, circuit
  <2> QED BY <2>1, <2>2 DEF probeCancelled
<1>2. cancelled' \in BOOLEAN
  BY <1>0 DEF RInv, RoundTypeOK
<1> QED BY <1>0, <1>1, <1>2, Gone

\* The steps of a round that leave the connector alone.

LEMMA TakeJobRound == ASSUME RInv, NEW w \in Workers, takeJob(w) PROVE RoundPart'
<1>0. /\ RoundTypeOK /\ Placed /\ Apart /\ Handed /\ Truthful
      /\ UNCHANGED << phase, results, cancelled, seen, health, offline, front, steady >>
      /\ UNCHANGED << attempts, tokens, recentEvidence >>
      /\ phase = "probing" /\ ~Busy(w) /\ ~Probed(w)
  BY DEF RInv, takeJob, vars, circuit, world, Busy, Probed
<1>1. PICK p \in todo :
         /\ todo' = todo \ {p}
         /\ IF p \in offline
            THEN skipped' = TRUE /\ UNCHANGED work
            ELSE /\ work' = [work EXCEPT ![w] = [Ready EXCEPT !.stage = "socks", !.proxy = p]]
                 /\ UNCHANGED skipped
  BY DEF takeJob
<1>2. CASE UNCHANGED work
  <2>1. RoundTypeOK'
    BY <1>0, <1>1, <1>2 DEF RoundTypeOK
  <2>2. Placed' /\ Apart' /\ Handed' /\ Truthful'
    BY <1>0, <1>1, <1>2 DEF Placed, Apart, Handed, Truthful, Busy, Probed
  <2> QED BY <2>1, <2>2 DEF RoundPart
<1>3. CASE work' = [work EXCEPT ![w] = [Ready EXCEPT !.stage = "socks", !.proxy = p]] /\ UNCHANGED skipped
  <2>1. p \in Proxies /\ [Ready EXCEPT !.stage = "socks", !.proxy = p] \in Work
    BY <1>0, RoundForms DEF RoundTypeOK, Ready, Work
  <2>2. /\ work' \in [Workers -> Work]
        /\ work'[w].stage = "socks" /\ work'[w].proxy = p
        /\ \A v \in Workers \ {w} : work'[v] = work[v]
    BY <1>0, <1>3, <2>1 DEF RoundTypeOK, Ready
  <2>3. RoundTypeOK'
    BY <1>0, <1>1, <1>3, <2>2 DEF RoundTypeOK
  <2>4. Placed'
    BY <1>0, <2>1, <2>2 DEF Placed, Busy
  <2>5. Apart'
    BY <1>0, <1>1, <2>2 DEF Apart, Probed
  <2>6. Handed' /\ Truthful'
    BY <1>0 DEF Handed, Truthful
  <2> QED BY <2>3, <2>4, <2>5, <2>6 DEF RoundPart
<1> QED BY <1>1, <1>2, <1>3

LEMMA PreflightRound == ASSUME RInv, preflight PROVE RoundPart'
<1>0. /\ RoundTypeOK /\ Placed /\ Apart /\ Handed /\ Truthful
      /\ UNCHANGED << todo, results, skipped, cancelled, seen, health, offline, front, steady >>
      /\ UNCHANGED << attempts, tokens, recentEvidence >>
      /\ phase = "preflight" /\ Preflight \in Workers
      /\ \A w \in Workers : ~Probed(w)
      /\ work[Preflight].stage = "ready"
  BY RoundForms DEF RInv, preflight, vars, circuit, world, Placed, Probed
<1>1. CASE phase' = "probing" /\ UNCHANGED work
  <2>1. \A w \in Workers : ~Busy(w)
    BY <1>0 DEF Placed, Busy, Probed
  <2>2. RoundTypeOK'
    BY <1>0, <1>1 DEF RoundTypeOK
  <2>3. Placed' /\ Apart' /\ Handed' /\ Truthful'
    BY <1>0, <1>1, <2>1 DEF Placed, Apart, Handed, Truthful, Busy, Probed
  <2> QED BY <2>2, <2>3 DEF RoundPart
<1>2. ASSUME NEW p \in todo \ offline, UNCHANGED phase,
             work' = [work EXCEPT ![Preflight] = [Ready EXCEPT !.stage = "preflight", !.proxy = p]]
      PROVE  RoundPart'
  <2>1. p \in Proxies /\ [Ready EXCEPT !.stage = "preflight", !.proxy = p] \in Work
    BY <1>0, <1>2, RoundForms DEF RoundTypeOK, Ready, Work
  <2>2. /\ work' \in [Workers -> Work]
        /\ work'[Preflight].stage = "preflight" /\ work'[Preflight].proxy = p
        /\ \A v \in Workers \ {Preflight} : work'[v] = work[v]
    BY <1>0, <1>2, <2>1 DEF RoundTypeOK, Ready
  <2>3. RoundTypeOK'
    BY <1>0, <1>2, <2>2 DEF RoundTypeOK
  <2>4. Placed'
    BY <1>0, <1>2, <2>1, <2>2 DEF Placed, Busy
  <2>5. Apart'
    BY <1>0, <1>2, <2>2 DEF Apart, Probed
  <2>6. Handed' /\ Truthful'
    BY <1>0, <1>2 DEF Handed, Truthful
  <2> QED BY <2>3, <2>4, <2>5, <2>6 DEF RoundPart
<1> QED BY <1>1, <1>2 DEF preflight

\* Outside preflight and probing, and when all is quiet, no probe is in flight.
LEMMA NoProbes ==
    ASSUME RInv, phase \in {"idle", "judging"} \/ Quiet
    PROVE  \A w \in Workers : ~Busy(w) /\ ~Probed(w) /\ attempts[w].phase = "idle"
BY RoundForms DEF RInv, Placed, Busy, Probed, Quiet

LEMMA StartRound == ASSUME RInv, startRound PROVE RoundPart'
<1>0. /\ RoundTypeOK /\ phase = "idle" /\ phase' = "preflight" /\ results = {} /\ seen.sequence = 0
      /\ UNCHANGED << work, results, skipped, cancelled, seen, health, offline, front >>
      /\ UNCHANGED << attempts, tokens, recentEvidence >>
      /\ steady' = TRUE
      /\ \A w \in Workers : ~Busy(w) /\ ~Probed(w) /\ attempts[w].phase = "idle"
  BY NoProbes DEF RInv, startRound, vars, circuit, world, Apart
<1>1. todo' \subseteq Proxies
  BY <1>0 DEF RoundTypeOK, startRound
<1>2. RoundTypeOK'
  BY <1>0, <1>1 DEF RoundTypeOK
<1>3. Placed' /\ Apart' /\ Handed' /\ Truthful'
  BY <1>0 DEF Placed, Apart, Handed, Truthful, Busy, Probed
<1> QED BY <1>2, <1>3 DEF RoundPart

LEMMA ReadEvidenceRound == ASSUME RInv, readEvidence PROVE RoundPart'
<1>0. /\ RoundTypeOK /\ Apart /\ Handed /\ Truthful
      /\ phase = "probing" /\ phase' = "judging"
      /\ UNCHANGED << todo, work, results, skipped, cancelled, health, offline, front, steady >>
      /\ UNCHANGED << attempts, tokens, recentEvidence >>
      /\ \A w \in Workers : ~Busy(w) /\ ~Probed(w) /\ attempts[w].phase = "idle"
  BY NoProbes DEF RInv, readEvidence, vars, circuit, world
<1>1. /\ seen' \in Evidence
      /\ seen' = recentEvidence \/ seen'.sequence = 0
  BY RoundForms DEF readEvidence, RInv, IInv, TypeOK
<1>2. RoundTypeOK'
  BY <1>0, <1>1 DEF RoundTypeOK
<1>3. Placed' /\ Apart' /\ Handed'
  BY <1>0 DEF Placed, Apart, Handed, Busy, Probed
<1>4. \A r \in results : r.token.sequence \in Nat
  BY <1>0 DEF RoundTypeOK, Result, Token
<1>5. Truthful'
  BY <1>0, <1>1, <1>4 DEF Truthful
<1> QED BY <1>2, <1>3, <1>5 DEF RoundPart

\* The counters stay between 0 and the thresholds.
LEMMA HealthRecorded ==
    ASSUME NEW h \in [failures : 0..FailureThreshold, successes : 0..SuccessThreshold, unhealthy : BOOLEAN],
           NEW scope
    PROVE  recordHealth(h, scope) \in
             [failures : 0..FailureThreshold, successes : 0..SuccessThreshold, unhealthy : BOOLEAN]
<1>1. /\ Few(h.failures + 1, FailureThreshold) \in 0..FailureThreshold
      /\ Few(h.successes + 1, SuccessThreshold) \in 0..SuccessThreshold
      /\ 0 \in 0..FailureThreshold /\ 0 \in 0..SuccessThreshold
  BY ThresholdAssumption DEF Few
<1> QED BY <1>1 DEF recordHealth

LEMMA ConcludeRound == ASSUME RInv, dropRound \/ judge PROVE RoundPart'
<1>1. CASE dropRound
  <2>1. EndRound /\ UNCHANGED << world, health, attempts >> /\ RoundTypeOK
    BY <1>1 DEF dropRound, vars, RInv
  <2>2. \A w \in Workers : attempts'[w].phase = "idle"
    BY <1>1, <2>1, NoProbes DEF dropRound
  <2> QED BY <2>1, <2>2, RoundEnded DEF RoundTypeOK
<1>2. CASE judge
  <2>1. EndRound /\ UNCHANGED << world, attempts >> /\ RoundTypeOK
    BY <1>2 DEF judge, recordBatch, RecordAmbiguousBatchFailure, vars, RInv
  <2>2. \A w \in Workers : attempts'[w].phase = "idle"
    BY <1>2, <2>1, NoProbes DEF judge
  <2>3. health' \in [Proxies -> [failures : 0..FailureThreshold,
                                 successes : 0..SuccessThreshold, unhealthy : BOOLEAN]]
    <3>1. \A p \in Proxies : health[p] \in [failures : 0..FailureThreshold,
                                 successes : 0..SuccessThreshold, unhealthy : BOOLEAN]
      BY <2>1 DEF RoundTypeOK
    <3> QED BY <1>2, <3>1, HealthRecorded DEF judge
  <2> QED BY <2>1, <2>2, <2>3, RoundEnded
<1> QED BY <1>1, <1>2

LEMMA WorldRound == ASSUME RInv, frontChanges \/ (\E p \in Proxies : toggleOffline(p)) \/ UNCHANGED hrVars
                    PROVE  RoundPart'
<1>0. /\ RoundTypeOK /\ Placed /\ Apart /\ Handed /\ Truthful
      /\ UNCHANGED << phase, todo, work, results, skipped, cancelled, seen, health >>
      /\ UNCHANGED << attempts, tokens, recentEvidence >>
  BY DEF RInv, frontChanges, toggleOffline, hrVars, vars, circuit, round
<1>1. /\ offline' \subseteq Proxies /\ front' \in {"up", "wedged", "down"}
      /\ ~steady' \/ UNCHANGED << front, steady >>
  BY <1>0 DEF RoundTypeOK, frontChanges, toggleOffline, hrVars, world
<1>2. RoundTypeOK'
  BY <1>0, <1>1 DEF RoundTypeOK
<1>3. Placed' /\ Apart' /\ Handed' /\ Truthful'
  BY <1>0, <1>1 DEF Placed, Apart, Handed, Truthful, Busy, Probed
<1> QED BY <1>2, <1>3 DEF RoundPart

LEMMA RoundStep == RInv /\ [HrNext]_hrVars => RInv'
<1> SUFFICES ASSUME RInv, [HrNext]_hrVars PROVE RInv'
  OBVIOUS
<1>1. IInv'
  <2>1. IInv /\ [Next]_vars
    BY RoundConnects DEF RInv
  <2> QED BY <2>1, TypeStep, CircuitStep, HistoryStep DEF IInv
<1>2. RoundPart'
  <2>1. ASSUME NEW w \in Workers, Probe(w) PROVE RoundPart'
    <3>1. CASE probeContinues(w)
      BY <3>1, ProbeGoesOn
    <3> QED BY <2>1, <3>1, TakeJobRound, ProbeBeginsRound, ProbeFailsRound, ProbeGreetedRound,
               ProbeFinishesRound, ProbeCancelledRound, Zenon DEF Probe
  <2>2. CASE Conclude
    BY <2>2, PreflightRound, ReadEvidenceRound, ConcludeRound, Zenon DEF Conclude
  <2>3. CASE startRound \/ backoffElapses
    BY <2>3, StartRound, BackoffRound, Zenon
  <2>4. CASE frontChanges \/ (\E p \in Proxies : toggleOffline(p)) \/ UNCHANGED hrVars
    BY <2>4, WorldRound, Zenon
  <2>5. ASSUME NEW a \in Traffic, TrafficStep(a) PROVE RoundPart'
    BY <2>5, TrafficRound, Zenon
  <2> QED BY <2>1, <2>2, <2>3, <2>4, <2>5, Zenon DEF HrNext
<1> QED BY <1>1, <1>2 DEF RInv, RoundPart

LEMMA InitRound == HrInit => RInv
<1> SUFFICES ASSUME HrInit PROVE RInv
  OBVIOUS
<1>1. IInv /\ Init
  BY InitSound DEF HrInit
<1>2. /\ \A w \in Workers : work[w].stage = "ready" /\ work[w] \in Work
      /\ \A w \in Workers : attempts[w].phase = "idle"
      /\ work \in [Workers -> Work]
  BY <1>1, RoundForms DEF HrInit, Init, Idle
<1>3. RoundTypeOK
  <2>1. Fresh \in [failures : 0..FailureThreshold, successes : 0..SuccessThreshold, unhealthy : BOOLEAN]
    BY ThresholdAssumption DEF Fresh
  <2> QED BY <1>2, <2>1, RoundForms DEF HrInit, RoundTypeOK
<1>4. Placed /\ Apart /\ Handed /\ Truthful
  BY <1>2, RoundForms DEF HrInit, Placed, Apart, Handed, Truthful, Busy, Probed
<1> QED BY <1>1, <1>3, <1>4 DEF RInv

LEMMA RoundInvariant == HrSpec => []RInv
BY InitRound, RoundStep, PTL DEF HrSpec

\* The types of a round's variables and of the proxies' health.
THEOREM RoundTypes == HrSpec => []RoundTypeOK
<1>1. RInv => RoundTypeOK
  BY DEF RInv
<1> QED BY <1>1, RoundInvariant, PTL

\* The probes of checkAll and the connections of clients use the connector as
\* its specification says, and the verdict of a round gives it tokens that
\* recordFrontAmbiguous handed out: what is proved of the circuit breaker
\* holds during rounds of health checks.
THEOREM RoundUsesConnector == HrSpec => Spec
<1>1. HrInit => Init
  BY DEF HrInit
<1>2. RInv /\ [HrNext]_hrVars => [Next]_vars
  BY RoundConnects
<1> QED BY <1>1, <1>2, RoundInvariant, PTL DEF HrSpec, Spec

\* While the front does not change during a round, checkAll records no failure
\* for a proxy whose exit answers, but the refusal of a flaky one: what is
\* ambiguous counts only next to later evidence, and later evidence means that
\* the front worked all along.
THEOREM InnocentsSpared == HrSpec => []InnocentSpared
<1>1. RInv => InnocentSpared
  <2> SUFFICES ASSUME RInv, phase = "judging", steady, NEW r \in Counted, r.scope # "none"
               PROVE  \/ AddressOf[r.proxy] \notin Alive
                      \/ AddressOf[r.proxy] \in Flaky /\ r.scope = "exit"
    BY DEF InnocentSpared
  <2>1. /\ r \in results /\ r.scope \in {"none", "ambiguous", "exit"} /\ r.token.sequence \in Nat
        /\ seen.sequence \in Nat
    BY DEF RInv, RoundTypeOK, Counted, Result, Token, Evidence
  <2>2. /\ \A s \in results : s.scope = "exit" => front = "up" /\ AddressOf[s.proxy] \in Flaky
        /\ front = "up" /\ r.scope = "ambiguous" => AddressOf[r.proxy] \notin Alive
        /\ front # "up" /\ r.token # NoToken => seen.sequence <= r.token.sequence
    BY <2>1 DEF RInv, Truthful
  <2>3. CASE r.scope = "exit" \/ front = "up"
    BY <2>1, <2>2, <2>3
  <2>4. CASE r.scope = "ambiguous" /\ front # "up"
    <3>1. Validated(r) /\ r.token # NoToken
      BY <2>4 DEF Counted, Established, Validated
    <3>2. PICK e \in CausalEvidence : e.token.sequence > r.token.sequence
      BY <3>1 DEF Validated
    <3>3. e.token.sequence = seen.sequence
      BY <2>2, <2>4 DEF CausalEvidence
    <3> QED BY <2>1, <2>2, <2>4, <3>1, <3>2, <3>3
  <2> QED BY <2>1, <2>3, <2>4
<1> QED BY <1>1, RoundInvariant, PTL

\* RecordAmbiguousBatchFailure opens the circuit after a round through a front
\* that worked only if the exits of two endpoints are dead.
THEOREM OneEndpointKeeps == HrSpec => OneEndpointKeepsCircuit
<1> DEFINE A == phase = "judging" /\ phase' = "idle" /\ steady /\ front = "up"
                  /\ Cardinality(Exits \ Alive) <= 1 /\ openUntil' = "future"
                  => openUntil = "future"
<1>1. RInv /\ [HrNext]_hrVars => [A]_hrVars
  <2> SUFFICES ASSUME RInv, HrNext, phase = "judging", phase' = "idle", steady, front = "up",
                      Cardinality(Exits \ Alive) <= 1, openUntil' = "future"
               PROVE  openUntil = "future"
    OBVIOUS
  <2>1. judge
    <3>1. \A w \in Workers : ~Busy(w)
      BY NoProbes
    <3>2. \A w \in Workers : ~Probe(w)
      BY <3>1 DEF Probe, takeJob, probeBegins, probeContinues, probeFails, probeGreeted, probeFinishes, probeCancelled
    <3>3. ~startRound /\ ~preflight /\ ~dropRound /\ ~readEvidence
      BY DEF startRound, preflight, dropRound, readEvidence
    <3>4. /\ ~backoffElapses /\ ~frontChanges /\ ~\E p \in Proxies : toggleOffline(p)
          /\ ~\E a \in Traffic : TrafficStep(a)
      BY DEF backoffElapses, frontChanges, toggleOffline, TrafficStep, round
    <3> QED BY <3>2, <3>3, <3>4, Zenon DEF HrNext, Conclude
  <2>2. ~EveryExitFailed
    <3> SUFFICES ASSUME EveryExitFailed PROVE FALSE
      OBVIOUS
    <3> DEFINE X == {AddressOf[r.proxy] : r \in results}
    <3>1. Cardinality(X) >= 2 /\ \A r \in results : r.scope = "ambiguous" /\ r.proxy \in Proxies
      BY DEF EveryExitFailed, Ambiguous, RInv, RoundTypeOK, Result
    <3>2. \A r \in results : AddressOf[r.proxy] \in Exits \ Alive
      BY <3>1, RoundForms DEF RInv, Truthful
    <3>3. X \subseteq Exits \ Alive
      BY <3>2
    <3>4. IsFiniteSet(Exits \ Alive)
      BY ExitsAssumption, FS_Subset
    <3> HIDE DEF X
    <3>5. IsFiniteSet(X) /\ Cardinality(X) <= Cardinality(Exits \ Alive)
      BY <3>3, <3>4, FS_Subset
    <3>6. Cardinality(X) \in Nat /\ Cardinality(Exits \ Alive) \in Nat
      BY <3>4, <3>5, FS_CardinalityType
    <3> QED BY <3>1, <3>5, <3>6
  <2> QED BY <2>1, <2>2 DEF judge, recordBatch, vars, circuit
<1> QED BY <1>1, RoundInvariant, PTL DEF HrSpec, OneEndpointKeepsCircuit
=============================================================================
