---------------------------- MODULE Socks5Proofs ----------------------------
(***************************************************************************)
(* Proofs about Socks5: what a call hands over, reports and records is     *)
(* sound for every set of kinds of calls, whenever the context ends, the   *)
(* servers fall silent or the watching goroutine gets to run.              *)
(***************************************************************************)
EXTENDS Socks5, TLAPS

Verdicts == {"success", "failure", "ambiguous", "stale", "abandoned"}

\* Where the call has no result yet.
Exchanging == {"greet", "auth", "connect", "succeeded"}
Working == {"begin", "dial", "bind", "failed"} \cup Exchanging

\* The deadline of a connection and the goroutine that moves it.
Watched ==
    /\ call.limited => call.cancelable
    /\ pc \in {"begin", "dial", "bind"} => watcher = "off"
    /\ watcher = "off" => deadline = "none"
    /\ pc \in {"close", "done"} => watcher \in {"off", "stopped"} /\ deadline = "none"
    /\ watcher = "cutting" \/ deadline = "past" => ctx # "live"
    /\ ctx = "expired" => late

\* The connection, and the result it goes with.
Opened ==
    /\ pc = "begin" => conn = IF call.kind = "given" THEN "open" ELSE "none"
    /\ pc = "dial" => call.kind # "given" /\ conn = "none"
    /\ pc \in {"bind"} \cup Exchanging => conn = "open"
    /\ pc \in Working => result = Nothing
    /\ result = Connection => conn = "open"

\* The front attempt: open until something is recorded about it, and then once.
Attempted ==
    /\ attempt # "resolved" => verdicts = << >>
    /\ attempt = "resolved" => Len(verdicts) = 1
    /\ pc = "begin" => attempt = "none" /\ spoke = {}
    /\ pc = "done" => attempt # "open"
    /\ call.kind = "test" /\ pc \in Working \ {"begin"} => attempt = "open"
    /\ call.kind \in {"direct", "given"} => attempt = "none"

\* A call through the front: the exit's answer is the success that is recorded.
Through ==
    call.kind = "through" =>
        /\ "exit" \in spoke <=> verdicts = << "success" >>
        /\ "exit" \notin spoke /\ pc \in Working \ {"begin"} => attempt = "open"
        /\ "exit" \in spoke => /\ hop = "exit" /\ attempt = "resolved"
                             /\ pc \notin {"begin", "dial", "bind", "greet"}
        /\ hop = "exit" /\ pc \in {"auth", "connect", "succeeded"} => "exit" \in spoke

\* What the end of the context cut off.
Charged ==
    /\ failure.cut => ctx # "live" \/ late
    /\ pc \in Working \ {"failed"} => ~failure.cut
    /\ result = Connection => ~failure.cut

Sound ==
    /\ TypeOK /\ Watched /\ Opened /\ Attempted /\ Through /\ Charged
    /\ FailedIsClosed /\ BlameFollowsAnswer /\ CancelNotBlamed

\* The first verdict about an attempt is the only one.
LEMMA RecordsOne ==
    ASSUME verdicts = << >>, NEW v \in Verdicts, Records(v)
    PROVE  /\ attempt' = "resolved" /\ verdicts' \in Seq(Verdicts) /\ Len(verdicts') = 1
           /\ verdicts' = << "success" >> <=> v = "success"
           /\ verdicts' # << >>
<1>1. attempt' = "resolved" /\ verdicts' = << v >>
  BY DEF Records
<1> QED BY <1>1 DEF Verdicts

LEMMA ResultsDiffer ==
    /\ Connection \notin Phases /\ Nothing \notin Phases /\ Canceled \notin Phases
    /\ Expired \notin Phases /\ CircuitOpen \notin Phases /\ SocksError \notin Phases
    /\ Connection \notin {Nothing, Canceled, Expired, CircuitOpen, SocksError}
    /\ \A h \in Hops, s \in Stages : Phase(h, s) \in Phases /\ Phase(h, s).hop = h
BY DEF Connection, Nothing, Canceled, Expired, CircuitOpen, SocksError, Phases, Phase, Hops, Stages

----------------------------------------------------------------------------
(* The context, and the goroutine that watches it.                         *)

LEMMA ContextSound ==
    ASSUME Sound, cancel \/ deadlinePasses \/ contextExpires \/ watcherWakes \/ watcherCuts
    PROVE  Sound'
<1>1. UNCHANGED << call, pc, hop, conn, spoke, evidence, failure, result >>
  BY DEF cancel, deadlinePasses, contextExpires, watcherWakes, watcherCuts
<1>2. TypeOK'
  <2>1. /\ ctx' \in {"live", "canceled", "expired"} /\ late' \in BOOLEAN
        /\ deadline' \in {"none", "context", "past"} /\ stop' \in BOOLEAN
        /\ watcher' \in {"off", "waiting", "cutting", "stopped"}
    BY DEF Sound, TypeOK, cancel, deadlinePasses, contextExpires, watcherWakes, watcherCuts
  <2> QED BY <1>1, <2>1 DEF Sound, TypeOK, evidence
<1>3. Watched' /\ Charged'
  BY DEF Sound, Watched, Charged, TypeOK, cancel, deadlinePasses, contextExpires, watcherWakes,
         watcherCuts
<1>4. Opened' /\ Attempted' /\ Through' /\ FailedIsClosed' /\ BlameFollowsAnswer'
  BY <1>1 DEF Sound, Opened, Attempted, Through, FailedIsClosed, BlameFollowsAnswer, evidence
<1>5. CancelNotBlamed'
  BY <1>1 DEF Sound, TypeOK, CancelNotBlamed, cancel, deadlinePasses, contextExpires, watcherWakes,
              watcherCuts
<1> QED BY <1>2, <1>3, <1>4, <1>5 DEF Sound

LEMMA InitSound == Init => Sound
<1> SUFFICES ASSUME Init PROVE Sound
  OBVIOUS
<1>1. call \in Call /\ (call.limited => call.cancelable)
  BY DEF Init
<1>2. NoFailure \in [stage : Stages, cut : BOOLEAN] /\ ~NoFailure.cut
  BY DEF NoFailure, Stages
<1>3. verdicts \in Seq({"success", "failure", "ambiguous", "stale", "abandoned"})
  BY DEF Init
<1>4. TypeOK
  BY <1>1, <1>2, <1>3 DEF Init, TypeOK, Hops
<1>5. Watched /\ Opened /\ Attempted /\ Through /\ Charged
  BY <1>1, <1>2, ResultsDiffer DEF Init, Watched, Opened, Attempted, Through, Charged, Exchanging, Working
<1>6. FailedIsClosed /\ BlameFollowsAnswer /\ CancelNotBlamed
  BY <1>2, ResultsDiffer DEF Init, FailedIsClosed, BlameFollowsAnswer, CancelNotBlamed
<1> QED BY <1>4, <1>5, <1>6 DEF Sound

LEMMA BeginSound == ASSUME Sound, begin PROVE Sound'
<1>1. TypeOK'
  BY DEF Sound, TypeOK, begin, Returns, FirstHop, Hops, Phases, Phase, Stages, bound
<1>2. Watched' /\ Charged'
  BY ResultsDiffer DEF Sound, Watched, Charged, begin, Returns, bound, Working, Exchanging, Hops, Stages
<1>3. Opened' /\ Attempted' /\ Through'
  BY ResultsDiffer DEF Sound, TypeOK, Call, Opened, Attempted, Through, begin, Returns, bound, Working, Exchanging, FirstHop, Hops, Stages
<1>4. FailedIsClosed' /\ BlameFollowsAnswer' /\ CancelNotBlamed'
  BY ResultsDiffer DEF Sound, Opened, Attempted, Charged, FailedIsClosed, BlameFollowsAnswer, CancelNotBlamed, begin, Returns, bound, Working, Exchanging, Hops, Stages
<1> QED BY <1>1, <1>2, <1>3, <1>4 DEF Sound

----------------------------------------------------------------------------
(* The call.                                                               *)

LEMMA FailsForm ==
    ASSUME NEW stage \in Stages, NEW cut \in BOOLEAN, Fails(stage, cut)
    PROVE  failure' \in [stage : Stages, cut : BOOLEAN] /\ failure'.cut = cut /\ pc' = "failed"
BY DEF Fails

\* What a step of the exchange, a dial or a binding that may fail comes to.
MayFail ==
    /\ failure' \in [stage : Stages, cut : BOOLEAN]
    /\ \/ pc' # "failed" /\ failure' = failure
       \/ pc' = "failed" /\ (failure'.cut => ctx # "live" \/ late)

LEMMA FailsInTime ==
    ASSUME Sound, NEW stage \in Stages, NEW cut \in BOOLEAN, Fails(stage, cut),
           cut => ctx # "live" \/ late
    PROVE  MayFail /\ pc' = "failed"
BY FailsForm DEF MayFail

LEMMA NotFailed ==
    ASSUME Sound, UNCHANGED failure, pc' # "failed"
    PROVE  MayFail
BY DEF MayFail, Sound, TypeOK

LEMMA CutEnded ==
    ASSUME Sound PROVE Cut \in BOOLEAN /\ (Cut => ctx # "live" \/ late)
BY DEF Cut, Sound, Watched

LEMMA StagesKnown == "Dial" \in Stages /\ "Handshake" \in Stages /\ "Auth" \in Stages /\ "Connect" \in Stages
BY DEF Stages

LEMMA DialSound == ASSUME Sound, dial PROVE Sound'
<1>0. /\ pc = "dial" /\ result = Nothing /\ UNCHANGED << call, hop, bound, spoke, evidence, result >>
      /\ MayFail
      /\ \/ pc' = "bind" /\ conn' = "open"
         \/ pc' = "failed" /\ UNCHANGED conn
  BY StagesKnown, FailsInTime, NotFailed DEF dial, Sound, Opened, Working
<1>1. TypeOK'
  BY <1>0 DEF MayFail, Sound, TypeOK, bound, evidence
<1>2. Watched' /\ Charged'
  BY <1>0, ResultsDiffer DEF MayFail, Sound, Watched, Charged, bound, Working, Exchanging
<1>3. Opened' /\ Attempted' /\ Through'
  BY <1>0, ResultsDiffer DEF Sound, Opened, Attempted, Through, evidence, Working, Exchanging
<1>4. FailedIsClosed' /\ BlameFollowsAnswer' /\ CancelNotBlamed'
  BY <1>0, ResultsDiffer DEF FailedIsClosed, BlameFollowsAnswer, CancelNotBlamed
<1> QED BY <1>1, <1>2, <1>3, <1>4 DEF Sound

LEMMA BindSound == ASSUME Sound, bindConnContext PROVE Sound'
<1>0. /\ pc = "bind" /\ result = Nothing
      /\ UNCHANGED << call, hop, ctx, late, conn, stop, spoke, evidence, result >>
      /\ MayFail
      /\ \/ pc' = "failed" /\ UNCHANGED << deadline, watcher >>
         \/ /\ ctx = "live" /\ pc' = "greet"
            /\ deadline' = IF call.limited THEN "context" ELSE "none"
            /\ watcher' = IF call.cancelable THEN "waiting" ELSE "off"
  BY StagesKnown, FailsInTime, NotFailed DEF bindConnContext, Sound, Opened, Working
<1>1. TypeOK'
  BY <1>0 DEF MayFail, Sound, TypeOK, evidence
<1>2. Watched' /\ Charged'
  BY <1>0, ResultsDiffer DEF MayFail, Sound, TypeOK, Call, Watched, Charged, Working, Exchanging
<1>3. Opened' /\ Attempted' /\ Through'
  <2>1. Opened'
    BY <1>0, ResultsDiffer DEF Sound, Opened, Working, Exchanging
  <2>2. Attempted'
    BY <1>0 DEF Sound, Attempted, evidence, Working, Exchanging
  <2>3. Through'
    BY <1>0 DEF Sound, Attempted, Through, evidence, Working, Exchanging
  <2> QED BY <2>1, <2>2, <2>3
<1>4. FailedIsClosed' /\ BlameFollowsAnswer' /\ CancelNotBlamed'
  BY <1>0, ResultsDiffer DEF FailedIsClosed, BlameFollowsAnswer, CancelNotBlamed
<1> QED BY <1>1, <1>2, <1>3, <1>4 DEF Sound

LEMMA GreetSound == ASSUME Sound, greet PROVE Sound'
<1>0. pc = "greet" /\ result = Nothing /\ UNCHANGED << call, hop, bound, conn, result >>
  BY DEF greet, Sound, Opened, Working, Exchanging
<1>1. pc' \in {"connect", "auth", "failed"} /\ MayFail
  BY CutEnded, StagesKnown, FailsInTime, NotFailed DEF greet
<1>2. \/ /\ spoke' = spoke \cup {hop} /\ onMethodSelection
      \/ pc' = "failed" /\ UNCHANGED << spoke, evidence >>
  BY DEF greet, Fails
<1>3. /\ Watched' /\ Charged' /\ Opened'
  BY <1>0, <1>1, ResultsDiffer DEF MayFail, Sound, Watched, Charged, Opened, Working, Exchanging, bound
<1>4. FailedIsClosed' /\ BlameFollowsAnswer' /\ CancelNotBlamed'
  BY <1>0, <1>1, ResultsDiffer DEF FailedIsClosed, BlameFollowsAnswer, CancelNotBlamed
<1>5. CASE UNCHANGED evidence
  <2>1. TypeOK'
    BY <1>0, <1>1, <1>2, <1>5 DEF MayFail, Sound, TypeOK, bound, evidence
  <2>2. Attempted' /\ Through'
    BY <1>0, <1>1, <1>2, <1>5 DEF Sound, TypeOK, Hops, Attempted, Through, onMethodSelection, Records, evidence, Working, Exchanging
  <2> QED BY <1>3, <1>4, <2>1, <2>2 DEF Sound
<1>6. CASE call.kind = "through" /\ hop = "exit" /\ spoke' = spoke \cup {hop} /\ Records("success")
  <2>1. verdicts = << >>
    BY <1>0, <1>6 DEF Sound, Through, Attempted, Working, Exchanging
  <2>2. /\ attempt' = "resolved" /\ verdicts' \in Seq(Verdicts) /\ Len(verdicts') = 1
        /\ verdicts' = << "success" >>
    BY <1>6, <2>1, RecordsOne DEF Verdicts
  <2>3. TypeOK'
    BY <1>0, <1>1, <1>6, <2>2 DEF MayFail, Sound, TypeOK, bound, Verdicts
  <2>4. Attempted' /\ Through'
    BY <1>0, <1>1, <1>6, <2>2 DEF Attempted, Through
  <2> QED BY <1>3, <1>4, <2>3, <2>4 DEF Sound
<1> QED BY <1>2, <1>5, <1>6 DEF onMethodSelection

LEMMA AuthenticateSound == ASSUME Sound, authenticate PROVE Sound'
<1>0. /\ pc = "auth" /\ result = Nothing
      /\ UNCHANGED << call, hop, bound, conn, spoke, evidence, result >>
      /\ pc' \in {"connect", "failed"} /\ MayFail
  BY CutEnded, StagesKnown, FailsInTime, NotFailed DEF authenticate, Sound, Opened, Working, Exchanging
<1>1. TypeOK'
  BY <1>0 DEF MayFail, Sound, TypeOK, bound, evidence
<1>2. Watched' /\ Charged' /\ Opened'
  BY <1>0, ResultsDiffer DEF MayFail, Sound, Watched, Charged, Opened, Working, Exchanging, bound
<1>3. Attempted' /\ Through'
  BY <1>0 DEF Sound, Attempted, Through, Working, Exchanging, evidence
<1>4. FailedIsClosed' /\ BlameFollowsAnswer' /\ CancelNotBlamed'
  BY <1>0, ResultsDiffer DEF FailedIsClosed, BlameFollowsAnswer, CancelNotBlamed
<1> QED BY <1>1, <1>2, <1>3, <1>4 DEF Sound

LEMMA ConnectSound == ASSUME Sound, connect PROVE Sound'
<1>0. /\ pc = "connect" /\ result = Nothing
      /\ UNCHANGED << call, bound, conn, spoke, evidence, result >>
      /\ pc' \in {"greet", "succeeded", "failed"} /\ MayFail
      /\ hop' = hop \/ (hop # LastHop /\ hop' = "exit" /\ pc' = "greet")
      /\ pc' = "greet" => hop # LastHop
  BY CutEnded, StagesKnown, FailsInTime, NotFailed DEF connect, Sound, Opened, Working, Exchanging
<1>1. TypeOK'
  BY <1>0 DEF MayFail, Sound, TypeOK, Hops, bound, evidence
<1>2. Watched' /\ Charged' /\ Opened'
  BY <1>0, ResultsDiffer DEF MayFail, Sound, Watched, Charged, Opened, Working, Exchanging, bound
<1>3. Attempted' /\ Through'
  BY <1>0 DEF Sound, TypeOK, Hops, Attempted, Through, Working, Exchanging, evidence, LastHop
<1>4. FailedIsClosed' /\ BlameFollowsAnswer' /\ CancelNotBlamed'
  BY <1>0, ResultsDiffer DEF FailedIsClosed, BlameFollowsAnswer, CancelNotBlamed
<1> QED BY <1>1, <1>2, <1>3, <1>4 DEF Sound

LEMMA SucceedSound == ASSUME Sound, succeed PROVE Sound'
<1>0. /\ pc = "succeeded" /\ pc' = "cleanup" /\ conn = "open" /\ ~failure.cut
      /\ UNCHANGED << call, hop, bound, conn, spoke, failure >>
  BY DEF succeed, Sound, Opened, Charged, Working, Exchanging
<1>1. \/ /\ call.kind = "test" /\ verdicts = << >> /\ result' \in {Connection, CircuitOpen}
         /\ Records("success") \/ Records("stale")
      \/ call.kind # "test" /\ result' = Connection /\ UNCHANGED evidence
  BY <1>0 DEF succeed, Sound, Attempted, Working, Exchanging
<1>2. Watched' /\ Charged' /\ Opened'
  BY <1>0, <1>1, ResultsDiffer DEF Sound, Watched, Charged, Opened, bound, Working, Exchanging
<1>3. FailedIsClosed' /\ CancelNotBlamed'
  BY <1>0 DEF FailedIsClosed, CancelNotBlamed
<1>4. BlameFollowsAnswer'
  BY <1>0, <1>1, ResultsDiffer DEF BlameFollowsAnswer
<1>5. CASE UNCHANGED evidence
  <2>1. TypeOK'
    BY <1>0, <1>1, <1>5 DEF Sound, TypeOK, bound, evidence
  <2>2. Attempted' /\ Through'
    BY <1>0, <1>5 DEF Sound, Attempted, Through, evidence, Working, Exchanging
  <2> QED BY <1>2, <1>3, <1>4, <2>1, <2>2 DEF Sound
<1>6. CASE call.kind = "test" /\ verdicts = << >> /\ (Records("success") \/ Records("stale"))
  <2>1. attempt' = "resolved" /\ verdicts' \in Seq(Verdicts) /\ Len(verdicts') = 1
    BY <1>6, RecordsOne DEF Verdicts
  <2>2. TypeOK'
    BY <1>0, <1>1, <2>1 DEF Sound, TypeOK, bound, Verdicts, evidence
  <2>3. Attempted' /\ Through'
    BY <1>0, <1>6, <2>1 DEF Attempted, Through, Working, Exchanging
  <2> QED BY <1>2, <1>3, <1>4, <2>2, <2>3 DEF Sound
<1> QED BY <1>1, <1>5, <1>6

\* The server that a failure is charged to.
LEMMA FailedPhaseKnown ==
    ASSUME Sound
    PROVE  /\ FailedPhase \in Phases
           /\ call.kind = "through" => (FailedPhase.hop = "exit" <=> "exit" \in spoke)
<1>1. hop \in Hops /\ failure.stage \in Stages /\ "Connect" \in Stages /\ "front" \in Hops
  BY DEF Sound, TypeOK, Hops, Stages
<1>2. FailedPhase \in Phases
  BY <1>1, ResultsDiffer DEF FailedPhase
<1>3. call.kind = "through" /\ "exit" \in spoke => hop = "exit"
  BY DEF Sound, Through
<1> QED BY <1>1, <1>2, <1>3, ResultsDiffer DEF FailedPhase

LEMMA ClassifySound == ASSUME Sound, classify PROVE Sound'
<1>0. /\ pc = "failed" /\ pc' = IF watcher = "off" THEN "close" ELSE "cleanup"
      /\ UNCHANGED << call, hop, bound, conn, spoke, failure >>
  BY DEF classify
<1>1. \/ result' \in {Canceled, Expired, SocksError}
      \/ result' = FailedPhase /\ ctx # "canceled"
  BY Zenon DEF classify, Ended
<1>2. \/ UNCHANGED evidence
      \/ /\ attempt = "open"
         /\ Records("ambiguous") \/ Records("failure")
  BY Zenon DEF classify
<1>3. result' \in Phases \cup {Canceled, Expired, SocksError} /\ result' # Connection
  BY <1>1, FailedPhaseKnown, ResultsDiffer
<1>4. Watched' /\ Charged' /\ Opened'
  BY <1>0, <1>3, ResultsDiffer DEF Sound, TypeOK, Watched, Charged, Opened, bound, Working, Exchanging
<1>5. FailedIsClosed'
  BY <1>0 DEF FailedIsClosed
<1>6. CancelNotBlamed'
  <2>1. failure.cut /\ ctx # "canceled" => late
    BY DEF Sound, Charged, Watched, TypeOK
  <2>2. result' \in Phases => ctx # "canceled"
    BY <1>1, ResultsDiffer
  <2> QED BY <1>0, <2>1, <2>2 DEF CancelNotBlamed, bound
<1>7. BlameFollowsAnswer'
  BY <1>0, <1>1, FailedPhaseKnown, ResultsDiffer DEF BlameFollowsAnswer
<1>8. CASE UNCHANGED evidence
  <2>1. TypeOK'
    BY <1>0, <1>3, <1>8 DEF Sound, TypeOK, bound, evidence
  <2>2. Attempted' /\ Through'
    BY <1>0, <1>8 DEF Sound, Attempted, Through, evidence, Working, Exchanging
  <2> QED BY <1>4, <1>5, <1>6, <1>7, <2>1, <2>2 DEF Sound
<1>9. CASE attempt = "open" /\ (Records("ambiguous") \/ Records("failure"))
  <2>1. verdicts = << >>
    BY <1>9 DEF Sound, Attempted
  <2>2. /\ attempt' = "resolved" /\ verdicts' \in Seq(Verdicts) /\ Len(verdicts') = 1
        /\ verdicts' # << "success" >>
    BY <1>9, <2>1, RecordsOne DEF Verdicts
  <2>3. TypeOK'
    BY <1>0, <1>3, <2>2 DEF Sound, TypeOK, bound, Verdicts
  <2>4. call.kind \notin {"direct", "given"}
    BY <1>9 DEF Sound, Attempted
  <2>5. call.kind = "through" => "exit" \notin spoke
    BY <1>9 DEF Sound, Through
  <2>6. Attempted' /\ Through'
    BY <1>0, <2>2, <2>4, <2>5 DEF Attempted, Through, Working, Exchanging
  <2> QED BY <1>4, <1>5, <1>6, <1>7, <2>3, <2>6 DEF Sound
<1> QED BY <1>2, <1>8, <1>9

LEMMA CleanupSound == ASSUME Sound, cleanup \/ await PROVE Sound'
<1>0. /\ pc \in {"cleanup", "await"} /\ pc' \in {"close", "await"}
      /\ UNCHANGED << call, hop, ctx, late, conn, watcher, spoke, evidence, failure, result >>
      /\ stop' \in {stop, TRUE} /\ deadline' \in {deadline, "none"}
      /\ pc' = "close" => watcher \in {"off", "stopped"} /\ (watcher = "off" \/ deadline' = "none")
  BY DEF cleanup, await
<1>1. TypeOK'
  <2>1. deadline' \in {"none", "context", "past"} /\ stop' \in BOOLEAN
    BY <1>0 DEF Sound, TypeOK
  <2> QED BY <1>0, <2>1 DEF Sound, TypeOK, evidence
<1>2. Watched' /\ Charged' /\ Opened'
  BY <1>0 DEF Sound, Watched, Charged, Opened, Working, Exchanging
<1>3. Attempted' /\ Through'
  BY <1>0 DEF Sound, Attempted, Through, Working, Exchanging, evidence
<1>4. FailedIsClosed' /\ BlameFollowsAnswer' /\ CancelNotBlamed'
  BY <1>0 DEF Sound, FailedIsClosed, BlameFollowsAnswer, CancelNotBlamed
<1> QED BY <1>1, <1>2, <1>3, <1>4 DEF Sound

LEMMA FinishSound == ASSUME Sound, finish PROVE Sound'
<1>0. /\ pc = "close" /\ pc' = "done"
      /\ UNCHANGED << call, hop, bound, spoke, failure, result >>
      /\ conn' = IF conn = "open" /\ result # Connection /\ call.kind # "given" THEN "closed" ELSE conn
      /\ IF attempt = "open" THEN Records("abandoned") ELSE UNCHANGED evidence
  BY DEF finish
<1>1. Watched' /\ Charged' /\ Opened'
  BY <1>0 DEF Sound, Watched, Charged, Opened, bound, Working, Exchanging
<1>2. FailedIsClosed' /\ BlameFollowsAnswer' /\ CancelNotBlamed'
  BY <1>0 DEF Sound, FailedIsClosed, BlameFollowsAnswer, CancelNotBlamed, bound
<1>3. CASE attempt # "open"
  <2>1. UNCHANGED evidence
    BY <1>0, <1>3
  <2>2. TypeOK'
    BY <1>0, <2>1 DEF Sound, TypeOK, bound, evidence
  <2>3. Attempted' /\ Through'
    BY <1>0, <1>3, <2>1 DEF Sound, Attempted, Through, evidence, Working, Exchanging
  <2> QED BY <1>1, <1>2, <2>2, <2>3 DEF Sound
<1>4. CASE attempt = "open"
  <2>1. verdicts = << >> /\ Records("abandoned")
    BY <1>0, <1>4 DEF Sound, Attempted
  <2>2. /\ attempt' = "resolved" /\ verdicts' \in Seq(Verdicts) /\ Len(verdicts') = 1
        /\ verdicts' # << "success" >>
    BY <2>1, RecordsOne DEF Verdicts
  <2>3. TypeOK'
    BY <1>0, <2>2 DEF Sound, TypeOK, bound, Verdicts
  <2>4. call.kind \notin {"direct", "given"}
    BY <1>4 DEF Sound, Attempted
  <2>5. call.kind = "through" => "exit" \notin spoke
    BY <1>4 DEF Sound, Through
  <2>6. Attempted' /\ Through'
    BY <1>0, <2>2, <2>4, <2>5 DEF Attempted, Through, Working, Exchanging
  <2> QED BY <1>1, <1>2, <2>3, <2>6 DEF Sound
<1> QED BY <1>3, <1>4

----------------------------------------------------------------------------
(* Every step.                                                             *)

LEMMA SoundStep == ASSUME Sound, [Next]_vars PROVE Sound'
<1>1. CASE UNCHANGED vars
  BY <1>1 DEF vars, bound, evidence, Sound, TypeOK, Watched, Opened, Attempted, Through, Charged,
              FailedIsClosed, BlameFollowsAnswer, CancelNotBlamed
<1>2. CASE cancel \/ deadlinePasses \/ contextExpires \/ watcherWakes \/ watcherCuts
  BY <1>2, ContextSound
<1>3. CASE LocalStep
  BY <1>3, BeginSound, BindSound, SucceedSound, ClassifySound, CleanupSound, FinishSound DEF LocalStep
<1>4. CASE Exchange
  BY <1>4, DialSound, GreetSound, AuthenticateSound, ConnectSound DEF Exchange
<1> QED BY <1>1, <1>2, <1>3, <1>4, Zenon DEF Next

LEMMA SoundCall == ASSUME Sound PROVE CallSound
<1>1. HandedOverClean
  BY DEF Sound, HandedOverClean, Watched, Opened
<1>2. OneVerdict
  <2>1. attempt \in {"none", "open", "resolved"} /\ Len(<< >>) = 0
    BY DEF Sound, TypeOK
  <2>2. attempt # "resolved" => verdicts = << >>
    BY DEF Sound, Attempted
  <2>3. attempt = "resolved" => Len(verdicts) = 1
    BY DEF Sound, Attempted
  <2>4. pc = "done" => attempt # "open"
    BY DEF Sound, Attempted
  <2>5. call.kind = "through" => ("exit" \in spoke <=> verdicts = << "success" >>)
    BY DEF Sound, Through
  <2>6. Len(verdicts) <= 1
    <3>1. Len(verdicts) \in {0, 1}
      BY <2>1, <2>2, <2>3, Zenon
    <3>2. \A n \in {0, 1} : n <= 1
      BY SMT
    <3> QED BY <3>1, <3>2, Zenon
  <2> QED BY <2>1, <2>2, <2>3, <2>4, <2>5, <2>6 DEF OneVerdict
<1> QED BY <1>1, <1>2 DEF Sound, CallSound

\* A call hands over a connection that nothing will cut, leaves none of its own
\* open when it fails, records every front attempt once, blames the exit only
\* after it answered, and never blames a server for a cancellation (Connect and
\* ConnectFront with bindConnContext, socks5.go and connector.go).
THEOREM CallsSound == Spec => []CallSound
<1>1. Init => Sound
  BY InitSound
<1>2. Sound /\ [Next]_vars => Sound'
  BY SoundStep
<1>3. Sound => CallSound
  BY SoundCall
<1> QED BY <1>1, <1>2, <1>3, PTL DEF Spec
=============================================================================
