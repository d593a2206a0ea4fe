--------------------------- MODULE MCHealthRound ---------------------------
(* Small instances of HealthRound for TLC.                                 *)
EXTENDS HealthRound, TLC

CONSTANTS x1, x2, x3, e1, e2, e3

TwoExits == x1 :> e1 @@ x2 :> e2
SharedExit == x1 :> e1 @@ x2 :> e2 @@ x3 :> e2

\* What the connector collects for its own properties decides nothing here.
View == << openUntil, halfOpenInFlight, generation, resolutionSeq, lastResolution,
           recentEvidence, status, attempts, round, health, world, steady >>

InFlight(a) == attempts[a].phase # "idle"
Left == Cardinality(todo) + Cardinality({w \in Workers : Busy(w)})

\* The last two probes of a first round: the front may go down under both.
LastTwo ==
    /\ front = "down" /\ todo = {} /\ \A w \in Workers : work[w].stage = "socks"
    /\ \A t \in Traffic : ~InFlight(t)
    /\ resolutionSeq <= 2

\* Which events may overlap: a proxy is disabled while the front is up; the
\* front changes and clients connect while one probe is left, or none; clients
\* connect to an exit of another pool, and before the rounds only once.
Focus ==
    /\ offline # {} => front = "up" /\ offline = {x1}
    /\ phase # "idle" /\ ~steady => Left <= 1 \/ LastTwo
    /\ (\E v, w \in Workers : v # w /\ Busy(v) /\ Busy(w)) => offline = {} /\ (front = "down" => LastTwo)
    /\ \A t \in Traffic : InFlight(t) =>
         /\ attempts[t].dest = e3
         /\ phase = "idle" => resolutionSeq = 0 \/ attempts[t].phase = "exit"
         /\ offline = {} /\ front # "down" /\ Left <= 1
=============================================================================
