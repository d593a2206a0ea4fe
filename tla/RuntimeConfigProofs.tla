------------------------- MODULE RuntimeConfigProofs -------------------------
(***************************************************************************)
(* Proofs about RuntimeConfig: for any calls, endpoints and sections, what *)
(* runs, what is stored and what is shown stay one configuration, through  *)
(* concurrent updates, failing writes, crashes and restarts.               *)
(***************************************************************************)
EXTENDS RuntimeConfig, TLAPS

\* Configuration x with section s of y.
Put(x, s, y) == [x EXCEPT ![s] = y[s]]

(***************************************************************************)
(* The inductive invariant.  PersistedRuns says nothing while a call holds *)
(* RuntimeConfig.mu.  Copies says for each of its steps how far the three  *)
(* copies are apart, which is the section of the call and nothing else,    *)
(* since the call is alone (Locks).  Apart carries the comparison with the *)
(* pool from checkPool to swap, where Manager.mu is held.                  *)
(***************************************************************************)
Inside(c) == calls[c].pc \in {"pool", "read", "write", "swap", "publish"}

Locks ==
    /\ \A c \in Calls : Inside(c) <=> configMu = c
    /\ \A c \in Calls : managerMu = c
          <=> calls[c].section = "front" /\ calls[c].pc \in {"read", "write", "swap"}
    /\ \A c \in Calls : calls[c].pc = "pool" => calls[c].section = "front"
    /\ ~up => \A c \in Calls : calls[c].pc = "idle"

Copies ==
    up =>
        /\ configMu = NoCall => file = running /\ shown = running
        /\ \A c \in Calls :
              /\ calls[c].pc \in {"pool", "read", "write"} => file = running /\ shown = running
              /\ calls[c].pc = "write" => calls[c].raw = file
              /\ calls[c].pc = "swap" =>
                    file = Put(running, calls[c].section, calls[c].next) /\ shown = running
              /\ calls[c].pc = "publish" =>
                    file = running /\ running = Put(shown, calls[c].section, calls[c].next)

Apart ==
    /\ NoLoop
    /\ \A c \in Calls : managerMu = c => ~Conflicts(calls[c].next.front, stored)

IInv == TypeOK /\ Locks /\ Copies /\ Apart

LEMMA PutTyped ==
    ASSUME NEW x \in Config, NEW y \in Config, NEW s \in Sections
    PROVE  Put(x, s, y) \in Config
<1>1. CASE s = "routing"
  BY <1>1 DEF Config, Put
<1>2. CASE s = "front"
  BY <1>2 DEF Config, Put
<1>3. CASE s = "provider"
  BY <1>3 DEF Config, Put
<1> QED
  BY <1>1, <1>2, <1>3 DEF Sections

LEMMA PutIn ==
    ASSUME NEW x \in Config, NEW y \in Config, NEW s \in Sections
    PROVE  /\ \A t \in Sections : t # s => Put(x, s, y)[t] = x[t]
           /\ Put(x, s, y).front = IF s = "front" THEN y.front ELSE x.front
<1>1. CASE s = "routing"
  BY <1>1 DEF Config, Put, Sections
<1>2. CASE s = "front"
  BY <1>2 DEF Config, Put, Sections
<1>3. CASE s = "provider"
  BY <1>3 DEF Config, Put, Sections
<1> QED
  BY <1>1, <1>2, <1>3 DEF Sections

LEMMA InitialTyped == Initial \in Config /\ Idle \in Call
<1>1. GoodRouting \in Routings /\ InitialFront \in Front
  BY RoutingAssumption, AddressesAssumption DEF GoodRouting, InitialFront, Front
<1>2. Initial \in Config
  BY <1>1 DEF Initial, Config, Providers
<1> QED
  BY <1>2 DEF Idle, Call, Sections

LEMMA InitInv == Init => IInv
<1> SUFFICES ASSUME Init PROVE IInv
  OBVIOUS
<1>1. TypeOK
  BY InitialTyped, ConfiguredAssumption DEF Init, TypeOK
<1>2. Locks
  BY CallsAssumption DEF Init, Locks, Inside, Idle
<1>3. Copies
  BY DEF Init, Copies, Idle
<1>4. ~Conflicts(Initial.front, Configured)
  BY DEF Initial, InitialFront, Conflicts
<1>5. Apart
  BY <1>4, CallsAssumption DEF Init, Apart, NoLoop
<1> QED
  BY <1>1, <1>2, <1>3, <1>5 DEF IInv

\* A call under the lock is alone, and the process runs.
LEMMA Alone ==
    ASSUME IInv, NEW c \in Calls, Inside(c)
    PROVE  /\ configMu = c /\ up
           /\ \A d \in Calls : d # c => ~Inside(d) /\ managerMu # d
           /\ calls[c] \in Call
           /\ file \in Config /\ running \in Config /\ shown \in Config
  BY DEF IInv, Locks, TypeOK, Inside

\* The step of one call in the map of calls.
LEMMA OneCall ==
    ASSUME IInv, NEW c \in Calls, NEW k \in Call, calls' = [calls EXCEPT ![c] = k]
    PROVE  /\ calls' \in [Calls -> Call]
           /\ calls'[c] = k
           /\ \A d \in Calls : d # c => calls'[d] = calls[d]
  BY DEF IInv, TypeOK

LEMMA AcceptInv ==
    ASSUME IInv, NEW c \in Calls, NEW section \in Sections, NEW value, NEW keeps \in BOOLEAN,
           [Initial EXCEPT ![section] = value] \in Config, Accept(c, section, value, keeps)
    PROVE  IInv'
<1> DEFINE k == [pc |-> "wait", section |-> section, next |-> [Initial EXCEPT ![section] = value],
                 keeps |-> keeps, raw |-> Initial]
<1>1. k \in Call /\ k.pc = "wait" /\ calls' = [calls EXCEPT ![c] = k]
  BY InitialTyped DEF Call, Accept
<1> HIDE DEF k
<1>2. /\ calls' \in [Calls -> Call] /\ calls'[c].pc = "wait"
      /\ \A d \in Calls : d # c => calls'[d] = calls[d]
  BY <1>1, OneCall
<1>3. /\ up /\ calls[c].pc = "idle"
      /\ UNCHANGED << file, stored, up, running, shown, configMu, managerMu >>
  BY DEF Accept
<1>4. TypeOK'
  BY <1>2, <1>3 DEF IInv, TypeOK
<1>5. Locks'
  BY <1>2, <1>3 DEF IInv, Locks, Inside
<1>6. Copies'
  BY <1>2, <1>3 DEF IInv, Copies
<1>7. managerMu # c
  BY <1>3 DEF IInv, Locks
<1>8. Apart'
  BY <1>2, <1>3, <1>7 DEF IInv, Apart, NoLoop
<1> QED
  BY <1>4, <1>5, <1>6, <1>8 DEF IInv

LEMMA HandlersInv ==
    ASSUME IInv, NEW c \in Calls,
           \/ \E r \in Routings : putRouting(c, r)
           \/ \E p \in Providers : putProxyAPI(c, p)
           \/ putFrontProxy(c)
    PROVE  IInv'
<1>1. ASSUME NEW r \in Routings, putRouting(c, r) PROVE IInv'
  <2>1. [Initial EXCEPT !["routing"] = r] \in Config
    BY InitialTyped DEF Config
  <2> QED
    BY <1>1, <2>1, AcceptInv DEF putRouting, Sections
<1>2. ASSUME NEW p \in Providers, putProxyAPI(c, p) PROVE IInv'
  <2>1. [Initial EXCEPT !["provider"] = p] \in Config
    BY InitialTyped DEF Config
  <2> QED
    BY <1>2, <2>1, AcceptInv DEF putProxyAPI, Sections
<1>3. ASSUME putFrontProxy(c) PROVE IInv'
  <2>1. shown.front.address \in Addresses /\ shown.front.user \in Users \cup {NoUser}
    BY DEF IInv, TypeOK, Config, Front
  <2>2. ASSUME NEW f \in Front, NEW keeps \in BOOLEAN, Accept(c, "front", f, keeps) PROVE IInv'
    <3>1. [Initial EXCEPT !["front"] = f] \in Config
      BY InitialTyped DEF Config
    <3> QED
      BY <2>2, <3>1, AcceptInv DEF Sections
  <2>3. PICK enabled \in BOOLEAN, a \in Addresses, clear \in BOOLEAN :
          LET user == IF clear THEN NoUser ELSE shown.front.user IN
          \/ \E u \in Users :
               Accept(c, "front", [enabled |-> enabled, address |-> a, user |-> u], FALSE)
          \/ Accept(c, "front", [enabled |-> enabled, address |-> a, user |-> user], ~clear)
          \/ Accept(c, "front", [enabled |-> enabled, address |-> shown.front.address,
                                user |-> user], ~clear)
    BY <1>3 DEF putFrontProxy
  <2>4. CASE \E u \in Users :
               Accept(c, "front", [enabled |-> enabled, address |-> a, user |-> u], FALSE)
    <3>1. \A u \in Users : [enabled |-> enabled, address |-> a, user |-> u] \in Front
      BY DEF Front
    <3> QED
      BY <2>2, <2>4, <3>1
  <2> DEFINE user == IF clear THEN NoUser ELSE shown.front.user
  <2>5. /\ [enabled |-> enabled, address |-> a, user |-> user] \in Front
        /\ [enabled |-> enabled, address |-> shown.front.address, user |-> user] \in Front
        /\ (~clear) \in BOOLEAN
    <3>1. user \in Users \cup {NoUser}
      BY <2>1
    <3> HIDE DEF user
    <3>2. \A b \in Addresses : [enabled |-> enabled, address |-> b, user |-> user] \in Front
      BY <3>1 DEF Front
    <3>3. (~clear) \in BOOLEAN
      OBVIOUS
    <3> QED
      BY <2>1, <3>2, <3>3
  <2> QED
    BY <2>2, <2>3, <2>4, <2>5
<1> QED
  BY <1>1, <1>2, <1>3

----------------------------------------------------------------------------
(* The update of a section.                                                *)

LEMMA LockConfigInv ==
    ASSUME IInv, NEW c \in Calls, lockConfig(c)
    PROVE  IInv'
<1> DEFINE k == [calls[c] EXCEPT !.pc = IF calls[c].section = "front" THEN "pool" ELSE "read"]
<1>1. /\ k \in Call /\ calls' = [calls EXCEPT ![c] = k]
      /\ k.pc = IF calls[c].section = "front" THEN "pool" ELSE "read"
      /\ k.section = calls[c].section /\ k.next = calls[c].next
  BY DEF IInv, TypeOK, Call, lockConfig, Goto
<1> HIDE DEF k
<1>2. /\ calls' \in [Calls -> Call] /\ calls'[c] = k
      /\ \A d \in Calls : d # c => calls'[d] = calls[d]
  BY <1>1, OneCall
<1>3. /\ calls[c].pc = "wait" /\ configMu = NoCall /\ configMu' = c
      /\ UNCHANGED << file, stored, up, running, shown, managerMu >>
  BY DEF lockConfig
<1>4. up /\ file = running /\ shown = running /\ managerMu # c
  BY <1>3 DEF IInv, Locks, Copies
<1>5. TypeOK'
  BY <1>2, <1>3 DEF IInv, TypeOK
<1>6. Locks'
  BY <1>1, <1>2, <1>3, <1>4, CallsAssumption DEF IInv, Locks, Inside
<1>7. Copies'
  BY <1>1, <1>2, <1>3, <1>4, CallsAssumption DEF IInv, Copies, Locks, Inside
<1>8. Apart'
  BY <1>1, <1>2, <1>3, <1>4 DEF IInv, Apart, NoLoop
<1> QED
  BY <1>5, <1>6, <1>7, <1>8 DEF IInv

\* An update ends without having changed the file, and gives its locks back.
LEMMA GiveUpInv ==
    ASSUME IInv, NEW c \in Calls, calls[c].pc \in {"pool", "read", "write"},
           calls' = [calls EXCEPT ![c] = Idle], configMu' = NoCall,
           managerMu' = IF managerMu = c THEN NoCall ELSE managerMu,
           UNCHANGED << file, stored, up, running, shown >>
    PROVE  IInv'
<1>1. /\ calls' \in [Calls -> Call] /\ calls'[c] = Idle
      /\ \A d \in Calls : d # c => calls'[d] = calls[d]
  BY OneCall, InitialTyped
<1>2. /\ configMu = c /\ up
      /\ \A d \in Calls : d # c => ~Inside(d) /\ managerMu # d
  BY Alone DEF Inside
<1>3. file = running /\ shown = running
  BY <1>2 DEF IInv, Copies
<1>4. TypeOK'
  BY <1>1 DEF IInv, TypeOK
<1>5. managerMu' = NoCall
  BY <1>2 DEF IInv, TypeOK
<1>6. Locks'
  BY <1>1, <1>2, <1>5, CallsAssumption DEF IInv, Locks, Inside, Idle
<1>7. Copies'
  BY <1>1, <1>2, <1>3 DEF Copies, Inside, Idle
<1>8. Apart'
  BY <1>5, CallsAssumption DEF IInv, Apart, NoLoop
<1> QED
  BY <1>4, <1>6, <1>7, <1>8 DEF IInv

LEMMA WriteFailsInv ==
    ASSUME IInv, NEW c \in Calls, writeFails(c)
    PROVE  IInv'
<1>1. configMu = c
  BY Alone DEF writeFails, Inside
<1> QED
  BY <1>1, GiveUpInv DEF writeFails, Unlock

LEMMA CheckPoolInv ==
    ASSUME IInv, NEW c \in Calls, checkPool(c)
    PROVE  IInv'
<1>1. CASE Conflicts(calls[c].next.front, stored)
  BY <1>1, GiveUpInv, CallsAssumption DEF checkPool
<1>2. CASE ~Conflicts(calls[c].next.front, stored)
  <2> DEFINE k == [calls[c] EXCEPT !.pc = "read"]
  <2>1. /\ k \in Call /\ calls' = [calls EXCEPT ![c] = k]
        /\ k.pc = "read" /\ k.section = calls[c].section /\ k.next = calls[c].next
    BY <1>2 DEF IInv, TypeOK, Call, checkPool, Goto
  <2> HIDE DEF k
  <2>2. /\ calls' \in [Calls -> Call] /\ calls'[c] = k
        /\ \A d \in Calls : d # c => calls'[d] = calls[d]
    BY <2>1, OneCall
  <2>3. /\ calls[c].pc = "pool" /\ managerMu' = c
        /\ UNCHANGED << file, stored, up, running, shown, configMu >>
    BY <1>2 DEF checkPool
  <2>4. /\ configMu = c /\ up /\ calls[c].section = "front"
        /\ \A d \in Calls : d # c => ~Inside(d) /\ managerMu # d
    BY <2>3, Alone DEF Inside, IInv, Locks
  <2>5. TypeOK'
    BY <2>2, <2>3 DEF IInv, TypeOK
  <2>6. Locks'
    BY <2>1, <2>2, <2>3, <2>4 DEF IInv, Locks, Inside
  <2>7. Copies'
    BY <2>1, <2>2, <2>3, <2>4, CallsAssumption DEF IInv, Copies, Inside
  <2>8. Apart'
    BY <1>2, <2>1, <2>2, <2>3 DEF IInv, Apart, NoLoop
  <2> QED
    BY <2>5, <2>6, <2>7, <2>8 DEF IInv
<1> QED
  BY <1>1, <1>2

LEMMA ReadFileInv ==
    ASSUME IInv, NEW c \in Calls, readFile(c)
    PROVE  IInv'
<1> DEFINE k == [calls[c] EXCEPT !.pc = "write", !.raw = file]
<1>1. /\ k \in Call /\ calls' = [calls EXCEPT ![c] = k]
      /\ k.pc = "write" /\ k.section = calls[c].section /\ k.next = calls[c].next /\ k.raw = file
  BY DEF IInv, TypeOK, Call, readFile
<1> HIDE DEF k
<1>2. /\ calls' \in [Calls -> Call] /\ calls'[c] = k
      /\ \A d \in Calls : d # c => calls'[d] = calls[d]
  BY <1>1, OneCall
<1>3. /\ calls[c].pc = "read"
      /\ UNCHANGED << file, stored, up, running, shown, configMu, managerMu >>
  BY DEF readFile
<1>4. configMu = c /\ up /\ \A d \in Calls : d # c => ~Inside(d) /\ managerMu # d
  BY <1>3, Alone DEF Inside
<1>5. TypeOK'
  BY <1>2, <1>3 DEF IInv, TypeOK
<1>6. Locks'
  BY <1>1, <1>2, <1>3, <1>4 DEF IInv, Locks, Inside
<1>7. Copies'
  BY <1>1, <1>2, <1>3, <1>4, CallsAssumption DEF IInv, Copies, Inside
<1>8. Apart'
  BY <1>1, <1>2, <1>3 DEF IInv, Apart, NoLoop
<1> QED
  BY <1>5, <1>6, <1>7, <1>8 DEF IInv

LEMMA WriteFileInv ==
    ASSUME IInv, NEW c \in Calls, writeFile(c)
    PROVE  IInv'
<1> DEFINE k == [calls[c] EXCEPT !.pc = "swap"]
<1>1. /\ k \in Call /\ calls' = [calls EXCEPT ![c] = k]
      /\ k.pc = "swap" /\ k.section = calls[c].section /\ k.next = calls[c].next
  BY DEF IInv, TypeOK, Call, writeFile, Goto
<1> HIDE DEF k
<1>2. /\ calls' \in [Calls -> Call] /\ calls'[c] = k
      /\ \A d \in Calls : d # c => calls'[d] = calls[d]
  BY <1>1, OneCall
<1>3. /\ calls[c].pc = "write"
      /\ file' = Put(calls[c].raw, calls[c].section, calls[c].next)
      /\ UNCHANGED << stored, up, running, shown, configMu, managerMu >>
  BY DEF writeFile, Merged, Put
<1>4. /\ configMu = c /\ up /\ calls[c] \in Call
      /\ \A d \in Calls : d # c => ~Inside(d) /\ managerMu # d
  BY <1>3, Alone DEF Inside
<1>5. calls[c].raw = running /\ shown = running
  BY <1>3, <1>4 DEF IInv, Copies
<1>6. file' \in Config
  BY <1>3, <1>4, PutTyped DEF Call
<1>7. TypeOK'
  BY <1>2, <1>3, <1>6 DEF IInv, TypeOK
<1>8. Locks'
  BY <1>1, <1>2, <1>3, <1>4 DEF IInv, Locks, Inside
<1>9. Copies'
  BY <1>1, <1>2, <1>3, <1>4, <1>5, CallsAssumption DEF Copies, Inside
<1>10. Apart'
  BY <1>1, <1>2, <1>3 DEF IInv, Apart, NoLoop
<1> QED
  BY <1>7, <1>8, <1>9, <1>10 DEF IInv

LEMMA SwapInv ==
    ASSUME IInv, NEW c \in Calls, swap(c)
    PROVE  IInv'
<1> DEFINE k == [calls[c] EXCEPT !.pc = "publish"]
<1>1. /\ k \in Call /\ calls' = [calls EXCEPT ![c] = k]
      /\ k.pc = "publish" /\ k.section = calls[c].section /\ k.next = calls[c].next
  BY DEF IInv, TypeOK, Call, swap, Goto
<1> HIDE DEF k
<1>2. /\ calls' \in [Calls -> Call] /\ calls'[c] = k
      /\ \A d \in Calls : d # c => calls'[d] = calls[d]
  BY <1>1, OneCall
<1>3. /\ calls[c].pc = "swap"
      /\ running' = Put(running, calls[c].section, calls[c].next)
      /\ managerMu' = IF managerMu = c THEN NoCall ELSE managerMu
      /\ UNCHANGED << file, stored, up, shown, configMu >>
  BY DEF swap, Put
<1>4. /\ configMu = c /\ up /\ calls[c] \in Call /\ running \in Config
      /\ \A d \in Calls : d # c => ~Inside(d) /\ managerMu # d
  BY <1>3, Alone DEF Inside
<1>5. file = Put(running, calls[c].section, calls[c].next) /\ shown = running
  BY <1>3, <1>4 DEF IInv, Copies
<1>6. /\ running' \in Config
      /\ running'.front = IF calls[c].section = "front" THEN calls[c].next.front ELSE running.front
  BY <1>3, <1>4, PutTyped, PutIn DEF Call
<1>7. managerMu' = NoCall
  BY <1>3, <1>4 DEF IInv, TypeOK
<1>8. TypeOK'
  BY <1>2, <1>3, <1>6, <1>7 DEF IInv, TypeOK
<1>9. Locks'
  BY <1>1, <1>2, <1>3, <1>4, <1>7, CallsAssumption DEF IInv, Locks, Inside
<1>10. Copies'
  BY <1>1, <1>2, <1>3, <1>4, <1>5, CallsAssumption DEF Copies, Inside
<1>11. calls[c].section = "front" => ~Conflicts(calls[c].next.front, stored)
  BY <1>3 DEF IInv, Locks, Apart
<1>12. Apart'
  BY <1>3, <1>4, <1>6, <1>7, <1>11, CallsAssumption DEF IInv, Apart, NoLoop
<1> QED
  BY <1>8, <1>9, <1>10, <1>12 DEF IInv

LEMMA PublishInv ==
    ASSUME IInv, NEW c \in Calls, publish(c)
    PROVE  IInv'
<1>1. /\ calls[c].pc = "publish" /\ calls' = [calls EXCEPT ![c] = Idle]
      /\ shown' = Put(shown, calls[c].section, calls[c].next)
      /\ UNCHANGED << file, stored, up, running, managerMu >>
  BY DEF publish, Put
<1>2. /\ calls' \in [Calls -> Call] /\ calls'[c] = Idle
      /\ \A d \in Calls : d # c => calls'[d] = calls[d]
  BY <1>1, OneCall, InitialTyped
<1>3. /\ configMu = c /\ up /\ calls[c] \in Call /\ shown \in Config
      /\ \A d \in Calls : d # c => ~Inside(d) /\ managerMu # d
  BY <1>1, Alone DEF Inside
<1>4. configMu' = NoCall /\ managerMu # c
  BY <1>1, <1>3 DEF IInv, Locks, publish
<1>5. file = running /\ shown' = running
  BY <1>1, <1>3 DEF IInv, Copies
<1>6. TypeOK'
  BY <1>1, <1>2, <1>4, <1>5 DEF IInv, TypeOK
<1>7. Locks'
  BY <1>1, <1>2, <1>3, <1>4, CallsAssumption DEF IInv, Locks, Inside, Idle
<1>8. Copies'
  BY <1>1, <1>2, <1>3, <1>5 DEF Copies, Inside, Idle
<1>9. Apart'
  BY <1>1, <1>2, <1>4 DEF IInv, Apart, NoLoop
<1> QED
  BY <1>6, <1>7, <1>8, <1>9 DEF IInv

----------------------------------------------------------------------------
(* The pool, and the life of the process.                                  *)

LEMMA PoolInv ==
    ASSUME IInv, NEW a \in Addresses, AddProxy(a) \/ DeleteProxy(a)
    PROVE  IInv'
<1>1. /\ managerMu = NoCall /\ stored' \in {stored \cup {a}, stored \ {a}}
      /\ ~Conflicts(running.front, {a}) \/ stored' \subseteq stored
      /\ UNCHANGED << file, up, running, shown, calls, configMu, managerMu >>
  BY DEF AddProxy, DeleteProxy
<1>2. TypeOK' /\ Locks' /\ Copies'
  BY <1>1 DEF IInv, TypeOK, Locks, Copies, Inside
<1>3. Apart'
  BY <1>1, CallsAssumption DEF IInv, Apart, NoLoop, Conflicts
<1> QED
  BY <1>2, <1>3 DEF IInv

LEMMA CrashInv ==
    ASSUME IInv, Crash
    PROVE  IInv'
<1>1. TypeOK'
  BY InitialTyped DEF IInv, TypeOK, Crash
<1>2. Locks'
  BY CallsAssumption DEF Locks, Crash, Inside, Idle
<1> QED
  BY <1>1, <1>2, CallsAssumption DEF IInv, Copies, Apart, NoLoop, Crash

LEMMA RestartInv ==
    ASSUME IInv, Restart
    PROVE  IInv'
<1>1. \A c \in Calls : calls[c].pc = "idle"
  BY DEF IInv, Locks, Restart
<1>2. TypeOK'
  BY ConfiguredAssumption DEF IInv, TypeOK, Restart
<1>3. Locks'
  BY DEF IInv, Locks, Restart, Inside
<1>4. Copies'
  BY <1>1 DEF Copies, Restart
<1>5. \A c \in Calls : managerMu # c
  BY <1>1 DEF IInv, Locks
<1>6. Apart'
  BY <1>5 DEF Apart, NoLoop, Restart, Starts
<1> QED
  BY <1>2, <1>3, <1>4, <1>6 DEF IInv

LEMMA NextInv == IInv /\ [Next]_vars => IInv'
<1> SUFFICES ASSUME IInv, [Next]_vars PROVE IInv'
  OBVIOUS
<1>1. ASSUME NEW c \in Calls, Update(c) PROVE IInv'
  BY <1>1, LockConfigInv, CheckPoolInv, ReadFileInv, WriteFileInv, WriteFailsInv, SwapInv,
     PublishInv DEF Update
<1>2. CASE \E c \in Calls, r \in Routings : putRouting(c, r)
  BY <1>2, HandlersInv
<1>3. CASE \E c \in Calls, p \in Providers : putProxyAPI(c, p)
  BY <1>3, HandlersInv
<1>4. CASE \E c \in Calls : putFrontProxy(c)
  BY <1>4, HandlersInv
<1>5. CASE \E a \in Addresses : AddProxy(a) \/ DeleteProxy(a)
  BY <1>5, PoolInv
<1>6. CASE Crash
  BY <1>6, CrashInv
<1>7. CASE Restart
  BY <1>7, RestartInv
<1>8. CASE UNCHANGED vars
  <2>1. TypeOK' /\ Locks'
    BY <1>8 DEF vars, IInv, TypeOK, Locks, Inside
  <2>2. Copies' /\ Apart'
    BY <1>8 DEF vars, IInv, Copies, Apart, NoLoop
  <2> QED
    BY <2>1, <2>2 DEF IInv
<1>9. CASE \E c \in Calls : Update(c)
  BY <1>1, <1>9
<1> QED
  BY <1>2, <1>3, <1>4, <1>5, <1>6, <1>7, <1>8, <1>9 DEF Next

LEMMA Inductive == Spec => []IInv
  BY InitInv, NextInv, PTL DEF Spec

LEMMA Sound == IInv => OneConfiguration
  BY DEF IInv, OneConfiguration, PersistedRuns, Copies, Apart

\* Outside of an update the file, what runs and what the API shows are one
\* configuration, whatever fails or crashes, and the front of a running process
\* is none of its exits (update in runtime_config.go, UpdateFrontProxy, AddProxy).
THEOREM ConfigurationIsOne == Spec => []OneConfiguration
  BY Inductive, Sound, PTL

\* A write of the file changes one section: concurrent updates lose nothing of
\* each other (writeSection reads, merges and writes under RuntimeConfig.mu).
THEOREM SectionsAreKept == Spec => OneSectionPerWrite
<1> DEFINE OneSection == \A s, t \in Sections : file'[s] # file[s] /\ file'[t] # file[t] => s = t
<1>1. IInv /\ [Next]_vars => OneSection \/ UNCHANGED vars
  <2> SUFFICES ASSUME IInv, Next PROVE OneSection
    OBVIOUS
  <2>1. ASSUME NEW c \in Calls, writeFile(c) PROVE OneSection
    <3>1. /\ calls[c].raw = file /\ calls[c] \in Call
          /\ file' = Put(calls[c].raw, calls[c].section, calls[c].next)
      BY <2>1, Alone DEF IInv, Copies, Inside, writeFile, Merged, Put
    <3>2. \A t \in Sections : t # calls[c].section => file'[t] = file[t]
      BY <3>1, PutIn DEF Call
    <3> QED
      BY <3>2
  <2>2. CASE file' = file
    BY <2>2
  <2>3. ASSUME NEW c \in Calls,
               \/ \E r \in Routings : putRouting(c, r)
               \/ \E p \in Providers : putProxyAPI(c, p)
               \/ putFrontProxy(c)
        PROVE  file' = file
    BY <2>3 DEF putRouting, putProxyAPI, putFrontProxy, Accept
  <2>4. ASSUME NEW c \in Calls, Update(c) PROVE writeFile(c) \/ file' = file
    BY <2>4 DEF Update, lockConfig, checkPool, readFile, writeFails, swap, publish
  <2>5. CASE (\E a \in Addresses : AddProxy(a) \/ DeleteProxy(a)) \/ Crash \/ Restart
    BY <2>2, <2>5 DEF AddProxy, DeleteProxy, Crash, Restart
  <2> QED
    BY <2>1, <2>2, <2>3, <2>4, <2>5 DEF Next
<1> QED
  BY <1>1, Inductive, PTL DEF Spec, OneSectionPerWrite
=============================================================================
