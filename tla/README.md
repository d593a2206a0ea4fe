# TLA+ specifications of sock5gw

sock5gw is a gateway that leases one SOCKS5 proxy to each client IP, of a pool
or bought from a provider's API, and forwards the client's TCP connections
through it, optionally behind one shared front proxy. These modules specify the
parts of it that share state between goroutines, outlive a failure or a
restart, or decide where a connection goes.

Paths below are relative to `src/`.

## The system

| Component | State it keeps | Operations | Hard because |
|---|---|---|---|
| Circuit breaker of the front, `internal/outbound/connector.go` | `openUntil`, `halfOpenInFlight`, `generation`, `resolutionSeq`, `lastResolution`, `recentEvidence`, `status` | `Connect`, `ConnectFront`, `RecordAmbiguousBatchFailure`, `FrontRetryAfter`, `FrontStatus`, `RecentFrontEvidence` | attempts run concurrently and finish out of order; a verdict may be stale when recorded; a failure may be the front's or the exit's |
| SOCKS5 exchange, `internal/outbound/socks5.go`, `connector.go` | one connection, its deadline and the goroutine that watches the context | greeting, authentication, connect, on two hops | the context ends at any moment; the verdict on the front is given in the middle of the exit's handshake |
| Lease manager, `internal/manager/manager.go` | `proxies`, `leases`, `pendingNew`, `pendingRefs`, `conns`, worker and timer flags, `assignmentGate` | lease, refresh, release, expiry, connection registration, pool administration, queue worker | every network probe runs without the lock; calls for one client overlap; wake-ups race with the worker's end; connections outlive leases |
| Dynamic leases, `internal/manager/dynamic.go` | a gate per client, proxies with source `api` | acquire, probe, activate, replace, remove | two unlocked stages, each followed by a second look; replaced proxies outlive their lease |
| Health checks, `internal/manager/health.go` | counters and status per proxy | rounds of probes, cross validation, `recordHealth` | many failures, one cause: the round must tell a dead exit from a front that fails, by evidence that other rounds and traffic leave behind |
| Store, `internal/store/store.go` | tables `proxies`, `leases`, `dynamic_proxies`, `clients`, `events` | upsert, delete, list | written piecewise; write errors are ignored; read back after a crash |
| Gateway, `internal/gateway/gateway.go` | a goroutine per connection, another per copied direction | accept, route, relay | ends in any order with release, expiry and shutdown |
| FakeIP and DNS proxy, `internal/manager/fakeip.go`, `internal/dnsproxy/` | two maps, `next`; the answers resolvers keep | `Get`, `Lookup` | wraps, and forgets everything at a restart |
| Routing, `internal/routing/routing.go` | a compiled sequence of rules | `New`, `ActionFor` | three lists, rules and geosite entries in one order |
| Runtime configuration, `internal/manager/runtime_config.go`, `api.go` | the file, the sections the API shows, what runs | update of a section | three copies and two locks; crash or failed write between them; the next start validates again |
| Provider client, management API, configuration loading, process | none that others read | one request, one file | parsing, not state |

The gateway asks the manager for a proxy (`AcquireProxyConn`), connects
through the connector, and unregisters the connection when it ends. The
manager probes proxies through the connector too, reads from the failure
whether it was the front's (shared), the exit's, or undecided (ambiguous), and
collects ambiguous failures into a batch; the connector decides whether the
batch opens the circuit. Health rounds do the same for all proxies at once.
A dynamic lease buys an endpoint, probes it and installs it as a proxy of its
own, in the same maps the pool uses. `New` rebuilds the manager from the store.
The API changes sections of the configuration while all of this goes on.

What makes each part correct: the circuit lets one recovery probe through and
is never opened or closed on contradicted evidence; no exit that answers is
blamed for the front; a proxy has one client, from the lease to the socket; a
reservation, a connection count and a wake-up are never lost; a bought proxy
lives as long as its lease or its connections, no longer; the tables, the file
and the memory tell the same story after a restart; a name's address leads
back to the name.

## Modules

| Module | Role |
|---|---|
| `Connector`, `ConnectorProofs` | the circuit breaker and the attempts in flight; theorems about it and about the rounds on top |
| `Socks5`, `Socks5Proofs` | one call of the connector, message by message; theorem |
| `HealthRound`, `MCHealthRound` | a round of health checks, composed with `Connector`; small instances; theorems in `ConnectorProofs` |
| `LeaseManager`, `MCLeaseManager`, `LeaseManagerProofs` | pool, leases, queues, connections, health results, tables; small instances; theorems |
| `LeaseService` | what the lease manager promises; `LeaseManager` implements it |
| `Gateway`, `GatewayProofs` | connections of clients, composed with `LeaseService`; theorems |
| `ClientMutex` | what the gate of dynamic leases promises: one lock per client |
| `DynamicGate`, `DynamicGateProofs` | the reference-counted gates that implement it |
| `DynamicLease`, `MCDynamicLease`, `DynamicLeaseProofs` | dynamic leases with the part of the manager they share, composed with `ClientMutex`; small instances; theorems |
| `FakeIP` | the allocator, the answers clients keep, the way back |
| `Routing` | compilation and evaluation of rules, and a declarative reading of them |
| `Destination`, `MCDestination`, `DestinationProofs` | where a connection goes, composed of `FakeIP` and `Routing`; small instances; theorems about the store and about the rules |
| `RuntimeConfig`, `RuntimeConfigProofs` | updates of the configuration; theorems |

### Connector

One action is one critical section under `Connector.mu` together with the
steps of its caller around it, which touch nothing shared. An attempt goes
through `front`, `connect`, `greet`, `exit`; `ConnectFront` is an attempt whose
destination is `TestTarget`. Network outcomes are choices. `openUntil` is kept
as zero, in the future or in the past; `BackoffElapses` is time passing.
`Cancel` is the deferred `abandonFrontAttempt`. A front test records its own
target as evidence, although the comment on `FrontEvidence` speaks of an exit. The
tokens given to ambiguous failures are collected in `tokens`, and any two of them
may come back as the first and last of a batch, which is more than the manager
ever does.
`log` is a history variable: one entry per resolution, with the sequence number
the verdict depends on. Only properties read it.

### LeaseManager

One action is one critical section under `Manager.mu`, or one step between two.
`ensureLease` is the call; it moves a record in `reqs` through the phases of
the function, in API slots (`Requests`) or as the queue's `Worker`. The phases
between reservation and result (`probe`, `cross`) hold no lock, as in the code,
so everything else may happen in them. The tail of `ensureLease` that decides
what an ambiguous batch means is one action per branch
(`applyRecentCrossEvidence`, `settleBatch`, `crossValidate`, `recordBatch`).

Abstractions, each of them a choice that includes what the code can do:
- which probes newer evidence settles, and whether a batch opens the circuit,
  since the connector decides it (`Connector` says when);
- which idle proxy is taken (the code takes the first of `proxyOrder`);
- whether a health result crosses its threshold;
- expiry times are a flag, set by `leaseExpires` at any moment;
- `frontRetry` is `FrontRetryAfter() > 0`; other traffic changes it freely;
- a wake-up (`go processQueueAsync()` or a call of it after unlock) is counted in
  `wakes` and runs later.

`Events` names the parts of the environment a run lets happen: refreshes,
cancelled calls, expiry, health results, administration, failing writes,
restarts. It keeps each run at one question; `FrontEnabled` selects the path
with `assignmentGate`, for a whole behaviour: that the front is enabled or
disabled between two stages of a call is left out here (`RuntimeConfig` has the
change itself, `DynamicLease` reads the setting anew at each stage).

`ImplementsService` is the refinement: a client holds the proxy of its
unexpired lease, a connection uses the proxy it was given while the manager
has it registered. Every operation is a step of `LeaseService` or changes
neither.

### HealthRound

It extends `Connector`, whose attempts are the round's workers and the clients'
traffic, and uses its actions: a probe is a `beginFrontAttempt` and what
follows. What the probes meet is a world of its own, a front that is up, down
or wedged and exits that answer or do not; the code sees only how attempts
end. A flaky exit (`Flaky`) may refuse after it selected a method, so an
established failure may come with the token of its method selection, or with
none when another attempt opened the circuit meanwhile. `results` are those of the round, `seen` the evidence it reads before the
verdict, `judge` the verdict: counted failures, thresholds, and the batch. A
front's reply and its record in the connector are one step, the front is
enabled, there is one exit-IP URL, and the order of jobs is arbitrary (the code
takes `proxyOrder`).

### Socks5

One call of `Connect` through the front, `Connect` directly, `ConnectFront` or
`ConnectSOCKS5`, with or without credentials and a context. `pc` follows the
code from `begin` to `finish`; every read may bring any answer, and every
operation fails once the deadline is past (`Cut`). The goroutine of
`bindConnContext` and the cleanup that waits for it are steps of their own.

### Gateway

`holds` and `uses` are `LeaseService`'s; `handlers` has one record per
connection with what its goroutines do next and which sockets are open.
Release and expiry close sockets by the list the manager has (`closing`), after
they gave up the lease. `ExitExclusive` rests on `LeaseService` granting a proxy
only when nobody else has a connection on it (`Unshared`). The manager keeps
that as long as no health result interferes (`ServiceImplemented`);
`leases_recovery_use` is a recovery after which two clients have sockets through
one exit.

### DynamicGate and DynamicLease

`DynamicGate` is `lockDynamicGate` with its map, reference counts, channel and
cancelled waits. `DynamicLease` uses `ClientMutex` for it and models the rest
of a call: the current lease, the provider's answer (an endpoint or an error),
the comparison with front and proxies, the probe, the activation with its
transaction, and the error's `current_lease`. The manager's maps, releases,
connections and restart are the same code as in `LeaseManager`, here with the
source of a proxy: dynamic ones are `Ids`, pool ones `Pool`. Left out:
administration and health checks of dynamic proxies, and the pool's batches and
queue order, which `LeaseManager` has. The settings a call reads, whether the
API is enabled and which endpoint the front has, may be anything at each
read, so a change of the configuration between two stages is included.

### FakeIP

Addresses are offsets from the network's first. `cache` is the answer a client
still holds; `Target` is what the gateway makes of a connection to it.

### Routing and Destination

`New` compiles as the code does, in its order; `Prescribed` says for a target
what the lists, rules and sites of the configuration ask for, without the
order of compilation. Quirks that no document contradicts are part of both: a
list value without a dot is a geosite code, and dropped without a geosite file;
a domain in two lists gets the first list's action, a geosite code the last's;
values are lower-cased, regular expressions too; a value with a final dot
matches nothing. A loop of the code that appends or goes on is a `FlattenSeq` of
sequences of at most one element (`Append1`), the map of geosite actions the
sequence of the assignments to it, of which the last on a code counts. A
geosite rule whose value names no code goes by the name of its type
(`ruleCode`), as in the code. Which domains contain a keyword (`Keywords`) and
which a regular expression matches (`Regexes`) are parameters. Nothing
can be said about an entry of the file without a code, and it is never used.

`Destination` extends `FakeIP`, instantiates `Routing`, and follows an address
from the answer that gave it to the action: `start` compiles the section or
refuses it, `resolve` and `forget` are the store's queries while the process
runs, `crash` loses the store and the compiled rules. `Rewritten` and
`routeAction` are what `handle` makes of a target: the name behind the
address, or the address itself, which only the default action applies to.

### RuntimeConfig

A call passes `wait` (for `RuntimeConfig.mu`), `pool` (`Manager.mu`, only for
the front), `read`, `write`, `swap`, `publish`; `file`, `running` and `shown`
are the three copies. `putFrontProxy` completes the request from `shown` before
the lock, as the handler does. A crash keeps file and tables; a restart
validates them (`Starts`), and the process stays down if they are refused.

## Runs

`PROJECT.json` lists these runs; the first eleven pass.

| Run | Checks | Shows |
|---|---|---|
| `connector` | `SingleRecoveryProbe`, `RetryAfterHonest`, `StatusHonest`, `NoStaleVerdict`, `AmbiguityUncontradicted`, `BatchUncontradicted`, `RecoveryProbeEnds`, types | three attempts, one exit and the test target, every interleaving up to four resolutions |
| `leases_direct` | `ExclusiveLease`, `ConnCountExact`, `ReleaseClosesConns`, `LeaseUsable`, `WaitingHasNoLease`, `ImplementsService`, types | two clients, two proxies, two connections; refresh, expiry and restart |
| `leases_front` | `NoOrphan`, `ReservationOwned` | two clients, three proxies behind a front; batches of ambiguous probes, refreshes, cancellation at every point |
| `leases_pool` | `NoLostWakeup`, `DisabledNotAssigned`, `NoStall` | three clients compete for one proxy that is added, disabled, deleted and health-checked while releases, the worker and requests race |
| `dynamic_gate` | `GatesCollected`, `ImplementsMutex`, `WaitingEnds` | three calls of two clients; waiters give up at any point |
| `dynamic` | `NoWastedAcquire`, `EndpointsDistinct`, `ConnsKeepProxy`, `StoredAsHeld`, `ApiNeverReassigned`, `ApiGoesWithOwner` | pool and dynamic calls of two clients beside refreshes, releases, expiry, restarts and an open connection; the provider repeats endpoints |
| `destination` | `ForwardLeadsBack`, `ConnectionRouted` | every section over three domain names, with overlapping lists, rules of each type and sites; as many names as addresses; restarts |
| `gateway` | `ConnectionsSound`, `ConnectionsEnd` | two clients, two proxies, two connections; grants, releases, expiry, shutdown, and peers that send and close or do neither |
| `health` | `InnocentSpared`, `OneEndpointKeepsCircuit` | rounds of two workers over three proxies, two of them on a dead endpoint, beside an attempt of a client and a front that changes |
| `runtime_config` | `OneConfiguration`, `OneSectionPerWrite`, `CallsEnd` | two updates of any section beside changes of the pool, failing writes, crashes |
| `socks5` | `CallSound`, `CallEnds` | each kind of call, every answer, a context that ends anywhere |
| `leases_recovery_use` | violates `ExclusiveUse` | the lease expired, the sweep has not come yet, health recovery finds no unexpired lease and makes the proxy idle with the old client's connections open; the next client takes it |

Four of these properties are conjunctions, since one behaviour may break any
of their parts: `ConnectionsSound` is `TypeOK`, `ExitExclusive` and
`RegistrationMatches`; `ConnectionsEnd` is `ReleasedReturns` and `ShutdownEnds`;
`OneConfiguration` is `TypeOK`, `PersistedRuns` and `NoLoop`; `CallSound` is
`TypeOK` and the five safety properties of `Socks5`.

Further configurations stand beside the modules, for questions that are not
asked every time:

| Configuration (module) | Result | What happens |
|---|---|---|
| `MCDynamicFaults` (`MCDynamicLease`) | passes | any write may fail, with restarts: `ConnsKeepProxy`, `LeaseUsable`, types |
| `MCDynamicLive` (`MCDynamicLease`) | passes | `CallsEnd`, `TakesTurns`: two calls of one client, expiry between their stages |
| `MCHealthLive` (`MCHealthRound`) | passes | `RoundEnds`, types: a round whose worker leaves when the front fails |
| `MCLeaseExpiryStall` (`MCLeaseManager`) | violates `NoStall` | `expireLeases` frees the proxy and wakes nobody: a waiting client stays pending beside an idle proxy |
| `MCLeaseCancelStall` (`MCLeaseManager`) | violates `NoStall` | a cancelled probe returns its proxy without waking the queue |
| `MCLeaseBatchStall` (`MCLeaseManager`) | violates `NoLostWakeup` | a success returns the other proxies of its batch without waking the queue |
| `MCLeaseSweep` (`MCLeaseManager`) | violates `SweepReleasesExpired` | a lease renewed between the two sections of `expireLeases` is released |
| `MCLeaseOrphan` (`MCLeaseManager`) | violates `NoOrphan` | without a front, the API call and the worker both activate a proxy for one client; the first stays active |
| `MCLeaseRevived` (`MCLeaseManager`) | violates `ExclusiveLease` | a failed delete of a lease row, and a restart: two clients on one proxy |
| `MCLeaseDelete` (`MCLeaseManager`) | violates `DeletesUnleased` | `docs/api.md` says an idle proxy is deleted; an unhealthy one is deleted under its lease |
| `MCDynamicError` (`MCDynamicLease`) | violates `ErrorLeaseValid` | `current_lease` of an error names a lease that has expired |
| `MCDynamicReuse` (`MCDynamicLease`) | violates `ReusedLeaseLive` | an expired lease that the sweep has not met is answered as active |
| `MCDynamicOrphan` (`MCDynamicLease`) | violates `ApiAlwaysGoes` | a call to the pool reserves, a dynamic call of its client installs its endpoint, and the pool call overwrites the lease (`activateCheckedProxyLocked` looks at the old one only in a refresh): the dynamic proxy stays active without a lease until a release or an expiry of anybody sweeps |
| `MCDynamicIdle` (`MCDynamicLease`) | violates `ApiNeverIdle` | a pool refresh turns the client's dynamic proxy idle |
| `MCFakeIPReuse` (`MCDestination`) | violates `ForwardLeadsBack` | with more names than addresses, an older name is answered with an address of a newer one |
| `MCFakeIPRestart` (`MCDestination`) | violates `NameReached` | a restart gives the address of an answer still in use to another name |
| `MCFakeIPHostBits` (`MCDestination`) | violates `NameReached` | a range written with host bits: addresses beyond its end lead nowhere |
| `MCHealthDead` (`MCHealthRound`) | violates `DeadExitCounted` | a dead exit whose attempt began before a living one answered is never counted in that round |
| `RuntimeConfigLoads` (`RuntimeConfig`) | violates `CommittedLoads` | an action in capitals is accepted, written, and refused by the next start |
| `RuntimeConfigLoop` (`RuntimeConfig`) | violates `FrontIsNoProxy` | a proxy of the file is deleted at run time and the front takes its endpoint: the next start refuses |
| `RuntimeConfigUser` (`RuntimeConfig`) | violates `OmittedUserKept` | an update without credentials undoes the credentials of a concurrent one |

### Bounds

- `MaxSequence = 4` bounds `resolutionSeq` (`HasRoom` stops new attempts when the
  ones in flight could exceed it). The properties relate a verdict to the
  resolutions since its attempt began; three attempts and four resolutions
  include a stale verdict, a newer contradiction and a batch of two or more. The
  bound is the only reason the system stops, hence `CHECK_DEADLOCK FALSE` there.
- `MaxWakes` bounds the pending `processQueueAsync` calls: one more is merged with
  one that has not run, and either sees the same state when it runs.
- `HealthRound` uses the same bound; `RoomForRound` lets a round start only if all
  its resolutions fit, so a round is never cut short. Two rounds fit, and the
  evidence of the first is what the second may wrongly use.
- `FailureThreshold = SuccessThreshold = 1` in the rounds: the properties are
  about what is counted, and a higher threshold only counts more rounds.
- FakeIP networks of four or five addresses (a /30 is the smallest the code takes;
  five is no CIDR but the allocator does not care) are full with two or three
  names; the proofs are for every size.
- `MCDynamicLease!Focus` lets the pool take part with one API call in progress
  and no connection open; without the pool everything overlaps.
- `MCHealthRound!Focus` says which events overlap: two probes run together while
  the front is not down; a change of the front and an attempt of a client
  fall on the last probe of a round or between rounds, a disabled proxy on
  times when the front is up. `View` leaves out the history the connector collects
  for its own properties, which decides nothing.
- One proxy in `leases_pool` is enough for a lost wake-up: three clients give the
  queue a successor after the one being served.
- `Ids` and `Addresses` bound the dynamic proxies alive at once; a call that
  finds none free waits, as `FreshId` shows, and returned ones are used again.
- `CHECK_DEADLOCK FALSE` where the system may stop: `Connector` and `HealthRound`
  at their bound, `Gateway` after a shutdown, `Socks5` when its call has ended,
  `Destination` when a section is refused.
- Two clients are what exclusivity needs; three proxies what a batch of two and
  a third exit need; three clients what a queue with a successor needs.
- Symmetry (clients, proxies, slots) is used in runs of invariants and action
  properties only, never with fairness.

### Fairness

`Connector!FairSpec`: every attempt in flight goes on, since each caller gives
`Connect` a context with a timeout (gateway dial timeout, probe timeouts), and
the backoff is a timer. `LeaseManager!FairSpec`: started calls go on (their
probes have timeouts), a wake-up that is due runs, the worker goes on, timers
fire, the expiry loop ticks. Nothing is assumed of clients, connections,
administrators, health results, the front, or crashes.
`DynamicGate!FairSpec`, `DynamicLease!FairSpec`: a call that holds the gate goes
on (provider request and probe have timeouts). A waiting call gets the token
although others come: senders of a Go channel wait in a queue, hence `SF`.
`RuntimeConfig!FairSpec` has `SF` for the two mutexes: Go's mutexes hand over to
a waiter after a millisecond. `Gateway!GwFairSpec`: handlers take their next step,
the collected sockets are closed, and a copy whose socket is closed ends; peers
need not send nor close. `HealthRound!HrFairSpec`: probes end by their timeouts.
`Socks5!FairSpec`: only the local steps and the clock are fair; a server may stay
silent for ever.

## Proofs

`ConnectorProofs` proves, for any sets of attempts and exits and any bound, that
`Spec` of `Connector` implies always:

- `TypeOK` (`TypeCorrect`),
- `SingleRecoveryProbe` (`RecoveryExclusive`),
- `RetryAfterHonest` (`RetryAfterCorrect`),
- `StatusHonest` (`StatusCorrect`),
- `NoStaleVerdict` (`VerdictsFresh`),
- `AmbiguityUncontradicted` (`AmbiguitySound`),
- `BatchUncontradicted` (`BatchVerdictSound`).

They rest on the two assumptions of `Connector` (`TestTarget` is no exit,
`MaxSequence` is a natural number). The inductive invariant has four parts.
`TypeOK` alone does not exclude a half-open slot whose probe is gone;
`CircuitInv` ties `halfOpenInFlight`, `openUntil`, `status` and `generation` to
the attempts in flight. The verdict properties talk about what happened between
an attempt's start and its end, which the state no longer shows; `HistoryInv`
relates each attempt's `generation` and `startedSequence`, each token and
`recentEvidence` to the entries of `log` since. `Verdicts` is the conjunction of
the three history properties. Each action preserves each part; the lemmas about
appending an entry are shared.

It then proves about `HrSpec` of `HealthRound`, for any proxies, workers, slots of
traffic, thresholds and events, any finite set of exits and any dead among
them:

| Theorem | Property |
|---|---|
| `RoundTypes` | `RoundTypeOK` |
| `RoundUsesConnector` | `Spec` of `Connector` |
| `InnocentsSpared` | `InnocentSpared` |
| `OneEndpointKeeps` | `OneEndpointKeepsCircuit` |

`HealthRound` assumes that the attempts are the workers' and the traffic's, which
only says what the slots are for, that there are finitely many exits, as in
any configuration, that each proxy has one of them for its address, that the
flaky exits are among those that answer, and that the
thresholds are positive. The theorems about `Connector` use none of this.

`RoundUsesConnector` makes those theorems hold during rounds. The step that is not
obvious is the verdict: `First` and `Last`, chosen among the results by their
sequence, have to be tokens the connector gave out (`BatchTokens`; that a set
of tokens has a least one is the well-foundedness of the naturals). The inductive
invariant `RInv` is `IInv` with four more parts. `Placed`: an attempt of a worker
belongs to the probe it makes and goes to its proxy's address. `Apart`: no proxy
is both handed out and waiting, or handed out twice, or has two results.
`Handed`: the token of an ambiguous result is the connector's. `Truthful` says
what the code cannot know, as long as the front has not changed since the
round began: a probe whose exit selected a method has a front that is up, an
established failure is a flaky exit's refusal through a front that is up, a
failure through a front that is up is of a dead exit, and through a front that
is not up nothing is newer than a failure's token, neither the connector's
evidence nor what the round read. So evidence that is newer than a failure
shows that the front was up, which is why `Validated` may blame the exit, and why
a batch of failures through a front that is up names dead endpoints only.

`LeaseManagerProofs` proves about `LeaseManager`, for any sets of clients, proxies
and API slots, any finite set of connections, with or without a front and for
any `MaxWakes`, from the module's assumptions (names kept apart, parameters of
their types, finitely many connections at a time):

| Theorem | Property | For |
|---|---|---|
| `TypesCorrect` | `TypeOK` | all events |
| `ExclusiveLeases` | `ExclusiveLease` | one of `dbfail`, `restart` at most |
| `DisabledNeverAssigned` | `DisabledNotAssigned` | the same |
| `ReleaseCloseConnections` | `ReleaseClosesConns` | all events |
| `WaitingUnleased` | `WaitingHasNoLease` | all events |
| `ReservationsOwned` | `ReservationOwned` | all events |
| `ConnectionsCounted` | `ConnCountExact` | no `health`, one of `dbfail`, `restart` at most |
| `LeasesUsable` | `LeaseUsable` | the same |
| `UseExclusive` | `ExclusiveUse` | the same |
| `ServiceImplemented` | `ImplementsService` | the same |
| `NoneOrphaned` | `NoOrphan` | with a front, one of `dbfail`, `restart` at most |
| `LeasesUsableBehindFront` | `LeaseUsable` | with a front, no `admin`, one of `dbfail`, `restart` at most |
| `WakeupsKept` | `NoLostWakeup` | no front, of the events only `health`, `admin`, `restart`; one of `health`, `admin` at most, or one proxy |

The hypotheses are needed. The manager ignores a failed write of the leases
table; the row of a released lease that it leaves behind is a lease again after a
restart (`MCLeaseRevived`), so these two together are excluded, not each of
them. A health result makes a proxy idle with connections open
(`leases_recovery_use`), which breaks the count's meaning and the use. Without a
front two assignments of one client orphan a proxy (`MCLeaseOrphan`). An
administrator deletes an unhealthy proxy under its lease (`MCLeaseDelete`).
Expiry, a cancelled call, the batches of a front and a refresh free a proxy
without waking the queue (see the stalls above). `health` and `admin` together
lose a wake-up in a longer way, which TLC finds with two clients, two proxies and
two request slots (no front, no connections): two calls of one client reserve
both proxies; the first gets its lease, another client waits; the leased proxy
becomes unhealthy, the administrator deletes it and adds it again, so it is idle
but leased and the wake-up finds nothing to hand out; then the second call
succeeds, the lease moves to the other proxy, and the first is free with nobody
told (`activateCheckedProxyLocked` wakes nobody).

`TypeOK` needs `CallsTyped` beside it: a call between two sections names its
client, and the proxy it probes. The types are proved part by part (pool,
queues, calls, worker, environment, tables), so that an action is argued about
only in the parts it changes; `Frames` gives the rest. `PoolStep`
restates `Next` by what its actions do to the pool, the leases and the
connections; the invariants below are argued along it.

`ExclusiveLease` is not inductive: a lease is made when a probe comes back, long
after the proxy was chosen. `ReservedUnleased` carries the choice across the
probe: a proxy being checked has no unexpired lease. It holds because
`takeIdleProxyLocked` looks for one before the reservation, because no operation
but the reservation makes a proxy `checking` (`NoNewReservation`, a lemma for each
of them), and because the result of a probe is used only if the reservation
still stands. `RowsMatch`, the leases table names the leases in memory, is what a
restart needs: the rows it loads are then leases there were. `IInv` is the
conjunction of the four. A disabled proxy is not assigned since `Disabled` is read
again in the section that makes the lease.

`ConnCountExact`, `LeaseUsable`, `ExclusiveUse` and the refinement come from one
invariant, `QuietPool`: every lease, expired or not, is on a proxy active for its
client (`LeasedActive`); a proxy that drains for a client is `draining`; each
connection is on a proxy active for its client or draining for it (`ConnsUsed`);
and the count is the cardinality of the connections (`Counted`). None of the four
is inductive without the others: the count decides whether a release drains or
returns a proxy, and the return is right only if no connection is left on it.
`QInv` adds `IInv` and that no health result is under way. The refinement maps
`holds` to the proxy of the unexpired lease and `uses` to the registered
connection's; a step that makes a lease is `Grant` since the proxy was being
checked, hence neither leased (`ReservedUnleased`) nor used (`ConnsUsed`).

`ReleaseClosesConns` needs only that a client without a lease has its
connections marked by the section that took the lease (`ClosedWithout`).
`WaitingHasNoLease` depends on the front: with one, a lease can come to a
waiting client only through the gate, whose holder is the call past it
(`GateHeld`), and a call that is no refresh probes only for a client that has no
lease (`NewUnleased`). `FrontPool` says that an active proxy and its client's
lease name each other, which `GateHeld` and `NewUnleased` keep while health
results, expiry and refresh overlap; `RefreshAlone`, nobody else has an unexpired
lease on the proxy that a refresh is about to leave, is what makes
`LeasesUsableBehindFront` true, and what fails without a front: the lease
expires during its refresh, its proxy recovers from a failed check as idle and is
leased to another client, and the refresh, done, vacates it under that client.
`ReservationOwned` is inductive beside `EarlyEmpty` (a call that has not reserved
yet has no batch) and `WorkerRuns` (the worker's call is idle unless
`queueActive`), argued over the ways in which a call gives back, keeps or
gathers its reservations (`BatchStep`).

`NoLostWakeup` relates the queue, the pool and the worker, and every step may
disturb it. `Plain` says what its events leave of a call: no refresh, no batch, no
phase of the front, no expired lease. With it a step that lets a proxy become
idle is one of three kinds: it wakes the queue (`WokenWakeful`), it is the queue's
own and looks again (`QueueWakeful`), or it makes no new pair of a waiting client
and an idle proxy (`NothingNew`): a call queues its client in the section that
found no proxy. The success of a probe is of the third kind only if the lease it
replaces is not on an idle proxy (`LeasedNotIdle`). That comes from `QuietPool`
when there are no health results, and from `LeasedUsable` when nobody administers
the pool; with both it fails as told above.

`DynamicGateProofs` proves, for any clients, calls and gate objects, `TypeOK`
(`GateTypes`), `GatesCollected` (`GatesAreCollected`), `OneCallPerClient`
(`OneCallAtATime`) and the refinement `Spec => Mutex!Spec` (`Refinement`). The
inductive invariant adds to the types that each reference count is the
cardinality of the calls that use the gate, that a call past the map lookup
refers to the gate its client's entry names, and that a call inside owns its
gate's token. A gate can therefore only be dropped when nobody waits, which
is what makes two gates of one client impossible.

`DestinationProofs` proves for any size, base and set of names `TypeOK` (`StoreTypes`)
and `ReverseIsForward` (`LastOwnerKnown`). If the range starts at its network
(`Base = 0`) and no more names are asked for than it has usable addresses, it
proves `ForwardLeadsBack` through any number of restarts (`AnswersLeadBack`), and
without restarts `NameReached` for every answer a client kept (`NamesReached`). The
three `MCFakeIP` configurations show that none of these conditions can be
dropped. The invariant `OneToOne` says that the addresses given so far are the
first ones, one for each name, so that going round needs a full range;
`AnswersCurrent` ties the answers clients kept to the maps, and is what a
restart destroys.

The composition of the store with the compiled rules is one of the store's
behaviours (`ProcessRunsStore`), so all of that holds in it. `TargetsAreDecided`
says that a process that runs decides about every target as `RoutedAs` reads the
section, and `ConnectionsRouted` joins the two to `ConnectionRouted`, under the
hypotheses of `AnswersLeadBack`. The assumption is `SectionAssumption`: lists,
rules and the geosite file are sequences of well-formed values, of any length, and
a rule's action is one that `Load` accepts; `AddressAssumption` keeps addresses and
names apart. The invariant is small (`Loaded`: the section is well-formed, and a
process that runs has compiled it); the argument is about sequences. A set of
numbers that is not empty has a least element (`Least`, from the library's
well-founded order), which gives the recursive function under `FlattenSeq` its
values (`FlatExists`, `FlattenForm`) and, by a least counterexample, what the first
and the last element of the result with some trait is: the first of the first
part that has one, the last of the last (`FlattenJoins`). `Loop` says this of a
loop that skips elements. One lemma for each loop of `New` and `loadGeositeRules`
follows (`ListRulesForm`, `OwnRulesForm`, `ListCodesForm`, `OwnCodesForm`,
`RulesOfForm`, `SitesForm`), and `CompiledForm` puts them in the order of the code.

`GatewayProofs` proves for any clients, proxies and connections
`ConnectionsSound` (`ConnectionsAreSound`) and that the gateway uses the manager as
`LeaseService` allows (`GatewayUsesService`). Its assumptions only keep names apart.
An open socket says nothing about leases: the invariant ties it to the
registration that `AcquireProxyConn` made before the dial (`SocketRegistered`,
`Registrations`), and `ServiceExclusive` is what the manager keeps of its
registrations while leases come and go.

`RuntimeConfigProofs` proves `OneConfiguration` (`ConfigurationIsOne`) and
`OneSectionPerWrite` (`SectionsAreKept`) for any calls, endpoints and sections,
through failing writes, crashes and restarts. `PersistedRuns` says nothing while a
call holds `RuntimeConfig.mu`; `Copies` says for each step of such a call how far
file, running and shown configuration are apart, `Locks` that it is alone, and
`Apart` carries the comparison with the pool from `checkPool` to `swap`, which is
what `Manager.mu` is held for.

`Socks5Proofs` proves `CallSound` (`CallsSound`) for any choice of `Kinds`. The
property is about the result, which comes many messages after what decides it.
`Sound` adds, for every place of `pc`: the watching goroutine exists exactly
while the connection's deadline is its to set, and has stopped before the result
is handed over (`Watched`); the connection is open until the call fails
(`Opened`); one verdict is recorded, when the attempt ends and not before
(`Attempted`); for a call through the front the exit's first answer is the success
that is recorded (`Through`); and only what the end of the context cut off is
charged to it (`Charged`).

`DynamicLeaseProofs` proves about `DynamicLease`, for any clients, calls, pool,
dynamic proxies, endpoints and parameters, and any finite set of connections:

| Theorem | Property | For |
|---|---|---|
| `DynamicTypes` | `TypeOK` | all events |
| `ConnsKeepProxies` | `ConnsKeepProxy` | all events |
| `ApiLeavesWithOwner` | `ApiGoesWithOwner` | all events |
| `EndpointsNotWasted` | `NoWastedAcquire` | all events |
| `TablesFollowMemory` | `StoredAsHeld` | no `dbfail` |
| `DynamicLeasesUsable` | `LeaseUsable` | one of `dbfail`, `restart` at most, or no pool |
| `ApiProxiesNotReassigned` | `ApiNeverReassigned` | one of `dbfail`, `restart` at most |
| `EndpointsNotShared` | `EndpointsDistinct` | the same |
| `CallsTakeTurns` | `TakesTurns` | no `restart` |

Writes are ignored when they fail, here too: after a failed write and a restart
the tables may name one pool proxy for two clients, and hold rows of dynamic
proxies that are gone, whose identifiers and endpoints come back.
`ClientMutex` knows no crash: a restart takes the lock from the call inside, so
`CallsTakeTurns` is about a process that runs.

`Basic` is `TypeOK` by parts, with what a call carries between two sections
(`KnownCall`). `ConnsInv` adds that a connection names a proxy and that counts are
cardinalities: a dynamic proxy is removed when its count is zero, so the count is
what a connection's life hangs on. `Step` restates `Next` by what steps have in
common: calls that change nothing but themselves (`Quiet`), the pool's steps, the
activation, the removal. `TurnsInv` has `GateAlone`, one call of a client between
the gate and its end, and `Renewing`: a call that buys what its client already
has does so beside a renewal that started after its look. `StoredInv` adds that
the row of each dynamic proxy has its endpoint. `HeldInv` says that a lease has its
proxy, or has expired and lost a dynamic one (`Held`), that what drains is
`draining`, that a proxy being probed is `checking` for one call (`Probing`), and
that memory and tables together name one client for each dynamic proxy
(`OneOwner`), since `New` makes a lease of a row. `TablesInv` joins the two. For
`ApiGoesWithOwner`, `OwnersKnown` says that no step but a pool call's success
leaves a dynamic proxy without an owner, and `ActivationForgets` that this one
does so to the proxy of its client's own lease; if that is not `Overtaken`, the call
is a refresh. For `EndpointsDistinct`, `EndpointsStay` shows that no step but the
activation gives a proxy an endpoint, and the activation looks again. The
refinement of `ClientMutex` maps each call to its stage (`StageOf`) and each step
to one of `Ask`, `Enter`, `GiveUp`, `Leave` or a stutter.

Only model-checked: the liveness properties, since fairness and `ENABLED` are out
of the prover's reach.

## Not modelled, and the plan

Not modelled: HTTP decoding, authentication and pages of the management API; the
provider's HTTP exchange and the parsing of its answer; packet layout of DNS
and SOCKS5; defaults and single-field validation of the configuration; the
geosite file's encoding; the system call for the original destination; process
wiring. They keep no state other parts read, or only start operations that are
modelled. Of the modelled components the following is left out: bulk imports and
`ClearIdle` (sequences of the single operations), `stopQueueProcessing` and the
epoch of the retry timer, client rows and events in the store, health rounds
without a front, the choice among several exit-IP URLs.

Runs keep apart events whose combination reaches one of the disagreements above:
`NoOrphan` is checked with a front (`MCLeaseOrphan` is without), `ApiGoesWithOwner`
of a lease that is not `Overtaken` (`MCDynamicOrphan` is without), `NoLostWakeup` and
`NoStall` without `cancel`, `expiry` and batches (`MCLeaseCancelStall`,
`MCLeaseExpiryStall`, `MCLeaseBatchStall`) nor `refresh`, whose success leaves the
old proxy idle without waking the queue (`activateCheckedProxyLocked`),
`ExclusiveLease` without `dbfail` (`MCLeaseRevived` has it beside `restart`; the
proof has either of them), `LeaseUsable` without `admin` (`MCLeaseDelete`) and
without `health` unless there is a front, `ConnCountExact` without `health`. The
theorems name the same hypotheses.

Every safety property of a run has its theorem; what is left is proof about what
no run asks yet.
