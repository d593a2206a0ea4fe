--------------------------- MODULE RuntimeConfig ---------------------------
(***************************************************************************)
(* Changing the configuration of a running gateway                         *)
(* (src/internal/manager/runtime_config.go, UpdateFrontProxy, AddProxy and *)
(* DeleteProxy of manager.go, UpdateProxyAPI of dynamic.go): the JSON file *)
(* on disk, the copy the API shows and what the program runs with, under   *)
(* concurrent calls, crashes, and restarts that validate the file again    *)
(* (config.Load, manager.New).                                             *)
(***************************************************************************)
EXTENDS Naturals, FiniteSets

CONSTANTS
    Calls,       \* slots for concurrent API calls
    Addresses,   \* endpoints
    Configured,  \* the endpoints of the file's "proxies", which nobody rewrites
    Users,       \* credentials a front URL may carry
    Routings,    \* routing sections that PUT /v1/admin/routing may carry,
    Misspelt,    \* those among them with an action config.Load refuses,
    Broken       \* those among them that routing.New refuses

ASSUME ConfiguredAssumption == Configured \subseteq Addresses
ASSUME RoutingAssumption ==
    /\ Misspelt \subseteq Routings /\ Broken \subseteq Routings
    /\ \E r \in Routings : r \notin Misspelt \cup Broken
ASSUME AddressesAssumption == Addresses # {}

VARIABLES
    file,      \* the sections of the configuration file
    stored,    \* endpoints of the proxies in the database and in m.proxies
    up,        \* the process runs
    running,   \* what the gateway routes with and the manager dials with
    shown,     \* the copies RuntimeConfig keeps for the API
    calls,     \* API calls in progress
    configMu,  \* holder of RuntimeConfig.mu
    managerMu  \* holder of Manager.mu

vars == << file, stored, up, running, shown, calls, configMu, managerMu >>

Sections == {"routing", "front", "provider"}
Providers == {"old provider", "new provider"}
NoUser == "nouser"
NoCall == "nocall"
ASSUME CallsAssumption == NoCall \notin Calls
Front == [enabled : BOOLEAN, address : Addresses, user : Users \cup {NoUser}]
Config == [routing : Routings, front : Front, provider : Providers]

\* keeps: the URL of a front section carries no credentials, and the call does
\* not clear them.
Call == [pc : {"idle", "wait", "pool", "read", "write", "swap", "publish"},
         section : Sections, next : Config, keeps : BOOLEAN, raw : Config]

GoodRouting == CHOOSE r \in Routings : r \notin Misspelt \cup Broken
InitialFront == [enabled |-> FALSE, address |-> CHOOSE a \in Addresses : TRUE, user |-> NoUser]
Initial == [routing |-> GoodRouting, front |-> InitialFront, provider |-> "old provider"]
Idle == [pc |-> "idle", section |-> "routing", next |-> Initial, keeps |-> FALSE, raw |-> Initial]

Init ==
    /\ file = Initial /\ running = Initial /\ shown = Initial
    /\ stored = Configured
    /\ up = TRUE
    /\ calls = [c \in Calls |-> Idle]
    /\ configMu = NoCall /\ managerMu = NoCall

Goto(c, pc) == calls' = [calls EXCEPT ![c].pc = pc]

----------------------------------------------------------------------------
(* The handlers.                                                           *)

Accept(c, section, value, keeps) ==
    /\ up /\ calls[c].pc = "idle"
    /\ calls' = [calls EXCEPT ![c] =
         [pc |-> "wait", section |-> section, next |-> [Initial EXCEPT ![section] = value],
          keeps |-> keeps, raw |-> Initial]]
    /\ UNCHANGED << file, stored, up, running, shown, configMu, managerMu >>

\* A section that routing.New refuses is answered at once, and changes nothing.
putRouting(c, r) == r \notin Broken /\ Accept(c, "routing", r, FALSE)

putProxyAPI(c, p) == Accept(c, "provider", p, FALSE)

\* frontProxyFromInput completes the request with the current section.
putFrontProxy(c) ==
    \E enabled \in BOOLEAN, a \in Addresses, clear \in BOOLEAN :
        \/ \E u \in Users :
             Accept(c, "front", [enabled |-> enabled, address |-> a, user |-> u], FALSE)
        \/ Accept(c, "front", [enabled |-> enabled, address |-> a,
                     user |-> IF clear THEN NoUser ELSE shown.front.user], ~clear)
        \/ Accept(c, "front", [enabled |-> enabled, address |-> shown.front.address,
                     user |-> IF clear THEN NoUser ELSE shown.front.user], ~clear)

----------------------------------------------------------------------------
(* The update of a section, under RuntimeConfig.mu.                        *)

\* Mutated form of lockConfig: the lock is not taken.
LockNothing(c) ==
    /\ calls[c].pc = "wait"
    /\ Goto(c, IF calls[c].section = "front" THEN "pool" ELSE "read")
    /\ UNCHANGED << file, stored, up, running, shown, configMu, managerMu >>

lockConfig(c) ==
    /\ calls[c].pc = "wait"
    /\ configMu = NoCall
    /\ configMu' = c
    /\ Goto(c, IF calls[c].section = "front" THEN "pool" ELSE "read")
    /\ UNCHANGED << file, stored, up, running, shown, managerMu >>

Conflicts(front, pool) == front.enabled /\ front.address \in pool

\* Mutated form of checkPool: the early return keeps Manager.mu.
CheckPoolKeepsLock(c) ==
    /\ calls[c].pc = "pool"
    /\ managerMu = NoCall
    /\ managerMu' = c
    /\ IF Conflicts(calls[c].next.front, stored)
       THEN /\ configMu' = NoCall
            /\ calls' = [calls EXCEPT ![c] = Idle]
       ELSE Goto(c, "read") /\ UNCHANGED configMu
    /\ UNCHANGED << file, stored, up, running, shown >>

\* UpdateFrontProxy locks Manager.mu and compares the address with the pool's.
checkPool(c) ==
    /\ calls[c].pc = "pool"
    /\ managerMu = NoCall
    /\ IF Conflicts(calls[c].next.front, stored)
       THEN /\ configMu' = NoCall
            /\ calls' = [calls EXCEPT ![c] = Idle]
            /\ UNCHANGED managerMu
       ELSE /\ managerMu' = c
            /\ Goto(c, "read")
            /\ UNCHANGED configMu
    /\ UNCHANGED << file, stored, up, running, shown >>

Unlock(c) ==
    /\ configMu' = IF configMu = c THEN NoCall ELSE configMu
    /\ managerMu' = IF managerMu = c THEN NoCall ELSE managerMu

\* writeSection reads the whole file ...
readFile(c) ==
    /\ calls[c].pc = "read"
    /\ calls' = [calls EXCEPT ![c].pc = "write", ![c].raw = file]
    /\ UNCHANGED << file, stored, up, running, shown, configMu, managerMu >>

Merged(c) == [calls[c].raw EXCEPT ![calls[c].section] = calls[c].next[calls[c].section]]

\* ... and atomicWriteFile renames a temporary file over it.
writeFile(c) ==
    /\ calls[c].pc = "write"
    /\ file' = Merged(c)
    /\ Goto(c, "swap")
    /\ UNCHANGED << stored, up, running, shown, configMu, managerMu >>

\* An error before the rename: nothing has changed.
writeFails(c) ==
    /\ calls[c].pc \in {"read", "write"}
    /\ calls' = [calls EXCEPT ![c] = Idle]
    /\ Unlock(c)
    /\ UNCHANGED << file, stored, up, running, shown >>

\* Mutated form of swap: the old connector stays.
SwapNothing(c) ==
    /\ calls[c].pc = "swap"
    /\ managerMu' = IF managerMu = c THEN NoCall ELSE managerMu
    /\ Goto(c, "publish")
    /\ UNCHANGED << file, stored, up, running, shown, configMu >>

\* The connector, the provider's client or the matcher is replaced.
swap(c) ==
    /\ calls[c].pc = "swap"
    /\ running' = [running EXCEPT ![calls[c].section] = calls[c].next[calls[c].section]]
    /\ managerMu' = IF managerMu = c THEN NoCall ELSE managerMu
    /\ Goto(c, "publish")
    /\ UNCHANGED << file, stored, up, shown, configMu >>

publish(c) ==
    /\ calls[c].pc = "publish"
    /\ shown' = [shown EXCEPT ![calls[c].section] = calls[c].next[calls[c].section]]
    /\ configMu' = IF configMu = c THEN NoCall ELSE configMu
    /\ calls' = [calls EXCEPT ![c] = Idle]
    /\ UNCHANGED << file, stored, up, running, managerMu >>

----------------------------------------------------------------------------
(* The pool, and the life of the process.                                  *)

AddProxy(a) ==
    /\ up /\ managerMu = NoCall
    /\ a \notin stored /\ ~Conflicts(running.front, {a})
    /\ stored' = stored \cup {a}
    /\ UNCHANGED << file, up, running, shown, calls, configMu, managerMu >>

DeleteProxy(a) ==
    /\ up /\ managerMu = NoCall
    /\ a \in stored
    /\ stored' = stored \ {a}
    /\ UNCHANGED << file, up, running, shown, calls, configMu, managerMu >>

Crash ==
    /\ up
    /\ up' = FALSE
    /\ calls' = [c \in Calls |-> Idle]
    /\ configMu' = NoCall /\ managerMu' = NoCall
    /\ UNCHANGED << file, stored, running, shown >>

\* config.Load, routing.New and manager.New accept the file and the database.
Loads(f) == f.routing \notin Misspelt \cup Broken
Starts == Loads(file) /\ ~Conflicts(file.front, stored \cup Configured)

\* The configured proxies are written back into the database.
Restart ==
    /\ ~up
    /\ Starts
    /\ up' = TRUE
    /\ stored' = stored \cup Configured
    /\ running' = file /\ shown' = file
    /\ UNCHANGED << file, calls, configMu, managerMu >>

----------------------------------------------------------------------------
Update(c) ==
    \/ lockConfig(c)
    \/ checkPool(c)
    \/ readFile(c)
    \/ writeFile(c)
    \/ writeFails(c)
    \/ swap(c)
    \/ publish(c)

Next ==
    \/ \E c \in Calls, r \in Routings : putRouting(c, r)
    \/ \E c \in Calls, p \in Providers : putProxyAPI(c, p)
    \/ \E c \in Calls : putFrontProxy(c) \/ Update(c)
    \/ \E a \in Addresses : AddProxy(a) \/ DeleteProxy(a)
    \/ Crash
    \/ Restart

Spec == Init /\ [][Next]_vars

\* Go's mutexes hand over to a waiter that waits long enough.
FairSpec ==
    /\ Spec
    /\ \A c \in Calls : WF_vars(Update(c)) /\ SF_vars(lockConfig(c)) /\ SF_vars(checkPool(c))

----------------------------------------------------------------------------
(* Properties.                                                             *)

\* Type invariant of the file, the process and the calls.
TypeOK ==
    /\ file \in Config /\ running \in Config /\ shown \in Config
    /\ stored \subseteq Addresses
    /\ up \in BOOLEAN
    /\ calls \in [Calls -> Call]
    /\ configMu \in Calls \cup {NoCall} /\ managerMu \in Calls \cup {NoCall}

\* Outside of an update, the file says what the program runs with and what the
\* API shows: no accepted change is lost at the next start, and none that
\* failed half-way stays in effect.
PersistedRuns ==
    up /\ configMu = NoCall => file = running /\ shown = running

\* Concurrent updates read, merge and write the whole file: none undoes a
\* section that another one has written.
OneSectionPerWrite ==
    [][\A s, t \in Sections : file'[s] # file[s] /\ file'[t] # file[t] => s = t]_vars

\* A running gateway never dials a front that is one of its own exits, whether
\* the front moved onto a proxy or a proxy was added at the front.
NoLoop == up => ~Conflicts(running.front, stored)

\* What runs, what is stored and what is shown stay one configuration, and the
\* front stays apart from the pool (RuntimeConfig.mu and Manager.mu).
OneConfiguration == TypeOK /\ PersistedRuns /\ NoLoop

\* Every call is answered, whatever the others do.
CallsEnd == \A c \in Calls : calls[c].pc # "idle" ~> calls[c].pc = "idle"

\* docs/api.md: "invalid rules return 400 and the new configuration is not
\* committed": what was committed can be loaded again.
CommittedLoads == Loads(file)

\* docs/front-proxy-p0-plan.md: the front's address must not be that of any
\* configured or stored proxy.
FrontIsNoProxy == up => ~Conflicts(running.front, stored \cup Configured)

\* docs/api.md: "omitting the user information keeps the existing credentials".
OmittedUserKept ==
    \A c \in Calls : calls[c].pc = "swap" /\ calls[c].keeps =>
        calls[c].next.front.user = running.front.user
=============================================================================
