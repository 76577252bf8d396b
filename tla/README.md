# Verification of fitz-destroyer

fitz-destroyer is a harness that attacks the Fitz broker with faults and decides, from ledgers and
logs, whether the broker kept its promises. It is itself a distributed program: a driver on the
host, client containers, fault proxies, a broker that is killed and restarted, and evidence that is
read while everything keeps running. What matters about such a program is its *judgement*: it must
not fail a correct broker, it must not pass a faulty one, it must do what its scenario names say,
and it must end and clean up whatever goes wrong.

This directory holds TLA+ modules of that judgement and of the machinery it rests on, TLC
configurations that check them on small instances, and TLAPS proofs of the most important
invariants for every instance.

| module | what it models | instance | proofs |
| --- | --- | --- | --- |
| `FaultProxy` | the TCP fault proxy, `storage-proxy.mjs` | `MCFaultProxy` | `FaultProxyProofs` |
| `RoleContainers` | waves of client containers, `orchestration/compose.ts`, one docker command at a time | `MCRoleContainers` | `RoleContainersProofs` |
| `RoleWave` | what those operations promise: each call answered in one step | (refined by `RoleContainers`) | `RoleContainersProofs` |
| `DurabilityCuts` | `durability-crash-cuts` and `storage-faults` with their ledger | `MCDurabilityCuts` | `DurabilityCutsProofs` |
| `ScenarioLifecycle` | `runScenario`, `runSuite` and the CLI | `MCScenarioLifecycle` | `ScenarioLifecycleProofs` |
| `PressureQueue` | the Queue loop and reconciliation of `domain-pressure` and `soak` | `MCPressureQueue` | `PressureQueueProofs` |
| `RpcStreams` | `rpc-pressure` and `rpc-stream-hose` with the wait for quiescence | `MCRpcStreams` | `RpcStreamsProofs` |
| `LeaseScenarios` | `lease-contention` and `lease-waiter-disconnect-races` | `MCLeaseScenarios` | `LeaseScenariosProofs` |
| `QueueScenarios` | `queue-overload-recovery`, `queue-redelivery`, `queue-lifecycle`, `queue-dead-letter-fencing` | `MCQueueScenarios` | |
| `ScheduleScenarios` | `schedule-delivery`, `schedule-outage`, `schedule-due-storm-isolation` | `MCScheduleScenarios` | `ScheduleScenariosProofs` |
| `CleanupScenarios` | `ephemeral-reply-loss-cleanup`, `shutdown-reconnect-cleanup-storm`, `control-lane-cleanup-under-saturation`, `active-graceful-shutdown` | `MCCleanupScenarios` | |
| `FamilyIsolation` | `route-family-isolation-matrix`, the six failpoint scenarios, `same-shard-family-fairness` | `MCFamilyIsolation` | |

`PROJECT.json` lists the components, the runs, which definition models which lines, the hazards and
the properties that cover them, and a plausible bug for every property that makes TLC find it
violated (the definitions marked "Mutant" next to the one they stand in for).

## 1. Inventory

### Processes and how they interact

    driver (node, host) --docker compose / docker run, logs, inspect, kill--> containers
         |   \--HTTP PUT /fault--> storage-proxy, client-proxy (storage-proxy.mjs)
         |   \--HTTP /readyz, /metrics--> Fitz
    role containers (worker.ts) --TCP/WebSocket via client-proxy--> Fitz --via storage-proxy--> Sqrzl
         \--JSON lines on stdout--> docker logs --> driver --> ledger --> verdict

Nothing is pushed to the driver: it learns everything by polling separate commands, and between any
two of them the containers run on.

### Components

| component | state | operations | hard because | correct when |
| --- | --- | --- | --- | --- |
| Fault proxy | the fault in force, live connections, delayed chunks | connection, data, end, close, timer, `PUT /fault` | callbacks interleave with fault changes; timers outlive the fault | a lifted fault leaves no trace; a cut isolates; nothing is reordered or delivered late |
| Role containers | container list, deadline, sampled states and logs | start, wait for event, signal, finish, kill, snapshot | every observation is a separate docker command; commands may fail silently | a wait means logged; captured logs are whole; each call returns |
| Durability scenarios | step of the plan, ledger, flag of the finally clause | pause, set fault, start, signal, kill, restart, verify, judge | writes of a dead broker land late; a step may throw under a fault | no false alarm, no missed loss, cuts hit what they name, faults are lifted |
| Scenario lifecycle, suite, CLI | phase, verdict, classification, cleanup state, results | setup, workload, catch, collect, cleanup, summary | every await in catch and finally may reject | exit code and results tell the truth; a suite completes |
| Pressure and soak | per-client ledgers, stage metrics, windows, samples | bombard loops, drain, reconcile, sample, judge | requests of unknown outcome, running leases at stop | exact reconciliation, no false alarm, a stop always ends |
| Chaos and client fleet | fleet progress windows since a cut | cut, restart, wait for all domains | stale log lines count as progress | progress after a cut is progress made after it |
| Queue scenarios | outcome ledgers of producers and consumers | overload admission, redelivery, lifecycle, dead letters | leases expire in parallel with completions | every accepted item is delivered and settled exactly as allowed |
| Lease scenarios | holders, tokens, waiters | acquire, release, disconnect of waiters | hand-over races disconnects | one holder at a time, tokens grow, waiters are served |
| Schedule scenarios | occurrence windows | create, fire, outage, due storm | wall-clock windows and restarts | each due occurrence once, none caught up |
| Live Notice, RPC, RPC-stream | expected and seen sequences per role, baseline and current counters | publish, subscribe, call, stream, cancel, kill, poll for quiescence | counters, logs and streams are of different moments | each recipient sees each message once, in order; a phase leaves nothing to the next |
| Session and transport faults | reconnect and recovery state | half-open, blackhole, pause, response loss, shutdown | detection by heartbeat races the fault's end | sessions are replaced, durable outcomes are resolved once |
| Cleanup and isolation | broker gauges, reuse probes | polls for quiescence | a gauge read before the last cleanup | quiescent means nothing of the session is left |
| Transactions, streams, recovery | offsets, winners | contended commit, append with expected offset, replay | ambiguous commits | one winner, no gap, no repeat |
| Family isolation and supervision | failpoint schedule, outcome per family | arm, probe, restart | partial failure of one actor | the others are unharmed |
| Wire conformance, protocol abuse | none of their own | request and response probes | the state is the broker's | (not modelled) |
| Reporting and guidance | evidence of a run | rating rules, aggregation, rendering | partial evidence | a rating is backed by evidence |
| Configuration and tools | none | argument parsing, payloads, disk filler | sequential | (not modelled) |

## 2. The modules

### FaultProxy

The proxy is one single-threaded node process, so an action is one event-loop callback: `Accept`
(connection listener), `UpstreamConnected`, `Data`, `End`, `SocketGone` (close and error),
`TimerFires`, `PutFault`. `fault` and `connections` are the variables of the same names;
`upstream`, `paused` and `timers` are the fields of a connection; `PeerSend` and `PeerFin` are the
two peers (external). A chunk is its position in its stream, which is all that order and loss need.
`tainted` is a history variable: the connections that lived while replies were withheld.

### RoleContainers

`status`, `exitCode` and `logged` are the containers, which log, exit or hang at will. The driver is
a program counter over the docker commands of `startRoleContainers`, `waitForRoleEvent`,
`finishRoleContainers`, `killRoleContainers` and `roleLogs`; each command is one action and the
containers move between them. `Flaky` names containers whose `docker logs` and `docker kill` may fail
without the code noticing (`allowFailure`). The deadline of a polling loop passes at any moment.

### RoleWave, and the refinement

The other modules take a role container for a process that is started, seen to have logged, and
finished with its log, as if the driver saw the whole wave at once. `RoleWave` states that view: a
wait is answered in one step in which every container has the event, a finish or a kill in one step
in which nothing runs, with the whole logs. A wait or a snapshot that throws leaves the containers as
they are, and a call blames an exit, or an exit code, only if there is one. A start that throws may
have one more container up (`ThrowStart`). A `docker rm` of several ids that fails has removed some
of the exited containers, or all of them when the artifact event behind it is what rejects; a kill
that `docker kill` did not carry out ends that way, the spared container being refused. So a finish
or a kill that throws may leave part of the wave, but never takes a container that runs, and a finish
takes none unless the whole wave has ended with exit code 0 (`ThrowEnd`). `RoleContainers!ImplementsWave` is the
specification of `RoleWave` under the mapping that forgets the loops: `Call` maps the program counter
to the pending call and `Handed` shows the captured logs only once they are returned. TLC checks it
in the run `role_containers`; `RoleContainersProofs` proves it for any number of containers.

### DurabilityCuts

The driver executes a list of steps, `todo`, which is the sequence of awaits of
`runCrashCutIteration` or `runStorageFaultIteration` for the identity of the iteration; `Throw` is
an await that rejects, with the finally clause. The writer connects, waits for its start gate,
starts one operation per domain and ends when each has an outcome. The broker and its storage are
external: a request is received, persisted, applied and acknowledged in four separate steps, and a
write that was under way when the broker died or was cut off may land at any later time, or never.
`LedgerAccepts` is `analyzeDurabilityLedger` with `assertDurabilityLedger`. `unpauseSqrzl` is allowed
to fail (`Unpaused`): Sqrzl is then "stuck" while the driver takes it for running, in the body as in
the finally clause, and the restart that follows ends at its deadline (`RestartTimesOut`).

Assumed of code outside the repository: the client library makes one attempt per operation; Fitz
reports ready only when its storage is reachable; `docker kill` returns after the process is gone.

### ScenarioLifecycle

A program counter over the awaits of `runScenario`, inside a loop over the scenarios of a suite or a
single one. Any docker command, the workload and, unless `writable`, any artifact write may reject;
the catch and the finally clause are modelled await by await, including the `return` in the finally
clause that swallows an error of the catch clause. The workload of a scenario is one action here;
the other modules are about workloads.

### PressureQueue

One bombarding client (`domainLoop` with the queue operation of `bombard`), the reconciler and
`reconcileQueueOutcomes`. Each stage (enqueue, reserve, complete) has an acknowledged, an ambiguous
and a failed outcome; a request of unknown outcome stays in `inflight` and may take effect at any
moment until the client's session is closed. Leases run on a clock in seconds. The broker may also
misbehave: lose a ready item, or bring back an item that was completed or refused. Clients have
queues of their own, so one is enough. Assumed: a request of a closed session has no effect any more.
`DrainAssumption` is about the values of the code: a lease of 2 s (`worker.ts:785`) is over when the
reconciler has polled in vain three times for a second each (`workloads/pressure.ts:100-104`).

### RpcStreams

The driver executes the awaits of `runSuccessfulFleet`, `runCancellationPhase`, `runWorkerKillPhase`
and `runFitzRestartPhase` as a list of steps, one phase after the other (`Phases`); `rpc-pressure` is
a run of one phase. A worker is its registration and its running `handlers`, which write a frame at a
time; a caller is its call, the frames it `consumed` and the checks of `Valid`. A wait for
quiescence reads `stats` and `metrics` in two steps, in any order. The broker is external: it routes
frames in order, notices the end of a session later, cleans up later still, and counts a frame for a
call that is no longer pending as a failure. Failure counters are abstracted to whether one has
risen since the `baseline`, and `baseline` to whether it is one of the running broker. The broker
may misbehave once, without counting a failure. Assumed: the time-out of a call is longer than
everything that is still on its way to it.

### LeaseScenarios

One lease: its `holder`, the queue of `waiters` and the last number, `token`. In the contention the
clients are containers and the driver a list of steps as above; in the waiter races the driver is
the worker's own loop, a list of steps per round, with the release before, between or after the
closes in odd rounds. `acquire` with `waitSeconds: 0` is answered at once. The broker is external:
acquisitions arrive in any order, and a dead client is noticed later, until when it may even be
granted the lease. The broker may misbehave once: acknowledge a release and keep the lease, keep
what a dead client had, or grant an old number. The time-outs of the clients expire only then.

### QueueScenarios

One program counter per container (producers, the client that is killed or leaves with its
reservations, drainers) and a list of steps for the driver. An item is its queue and sequence; a
reservation is an item and its token, which goes stale when the lease of one second runs out or the
holder is noticed to be gone. In the overload the storage path is cut while producers enqueue: a
request that timed out may be admitted at any later time, as the ledger must allow. `settled` records
which client completed an item. The broker may, once, lose an acknowledged item, hand out or complete an item
twice, honour a stale token, or never notice that the victim is gone. Assumed: one attempt per
enqueue (`worker.ts:288`).

### ScheduleScenarios

Wall-clock time is a sequence of instants: before the margin of ten seconds, before the due minute,
due, after it, the second due minute of the outage, and after its drain. Time passes whatever the
driver and the restarting broker have got done; a correct broker only fires what is due before it
passes. Lanes of a worker create definitions side by side, a canceller races the fire, subscribers
count what they see. A failure inside the driver's try block goes through `stopSubscribers`, whose
`docker kill` may miss some of them and whose finish may end by its deadline, both ignored by the code
(`SignalMisses`, `Rethrow`); a start that fails half-way is outside the try block (`StartFails`). The
storm worker has a canary loop of the sibling family beside it and a finally block that takes its
definitions back.

`Quiesce` compares the counters of Fitz with a snapshot. `schedule-delivery` takes it after its restart.
`schedule-outage` compares with one from before its restart (`schedule-outage.ts:27`, `:90`): that is right
only because every scenario has a stack of its own (`scenario.ts:94`, `:150-154`), so the counters were
zero then; in a stack that was used before, a correct broker would be rejected.

### CleanupScenarios

A client owns at most one piece of state per kind: a Queue reservation, uncommitted work, a Lease,
registrations that statistics count, and watches that none counts. The broker admits a request,
notices some time later that a session is gone, and removes its pieces one at a time. The driver
reads cleanup counters, registrations and the domains' statistics one after the other, with the broker moving in
between. The proxy holds back replies (`paused`); lanes of the saturator make progress and log it
periodically; durable operations and a call of 1000 frames are interrupted by a shutdown.

Any call of the driver may throw, before its effect (`CallThrows`) or at the artifact event behind it
(`Onward`); `docker kill` may miss containers, some or all (`Signal`), and `docker rm` then fails
(`Killed`). The finally blocks restore what they can: the call to the proxy may fail and the failure is
swallowed (`FinallyRestore`), the signal to the saturators may be missed (`FinallyStop`) and the wait for
their end may reach its deadline (`FinallyFinish`). Once an error is on its way out only the finally
block and the saturators that it stops are followed (`Open`). The 25 ms sampler of the storm may see
anything of a restart (`ObserveReadiness`): whether readiness dropped, whether the last sample was 200
and whether the restart kept to its budget are free choices, whose first complaint the ledger raises
after the last cycle. Items that a broker lost (`lost`) or has twice (`extra`) are followed over the cycles.

### FamilyIsolation

These scenarios are sequential scripts, so a scenario is a sequence of steps that one driver
interprets; a step that fails goes to the script's finally part. What is concurrent is the broker:
an actor that was ordered to panic does so later, counts it later, withdraws readiness later;
Notices and cleanups are asynchronous too. Instead of misbehaving once, a broker has one lasting
`defect` (or none), chosen in the initial state: seven domains that do not tell families apart, and
sixteen others such as a panic that takes its whole shard or domain, one that is not counted, or
readiness that is withdrawn too early or never. The topology (`SameShardFamily`) is the arithmetic of
`family-shard-topology.ts`. The scripts have fixed sleeps of 50 to 250 ms (100 ms in the in-flight
scenario) and deadlines; a sleep is modelled as "what was under way has happened" (`Settled`), so all
that is said of these scenarios is said of systems that settle within them.

## 3. Runs

Runs that pass:

| run | properties | what it shows |
| --- | --- | --- |
| `proxy` | `TypeOK`, `HealthyIsTransparent`, `CutIsolatesUpstream`, `InOrder`, `LostReplyStaysLost`, `DelayedIsWritten` | a proxy under every fault the drivers use: restoring it leaves no tampered or zombie connection, `reset` and `partition` cut off connects and delayed bytes under way, bytes keep their order across fault changes, a reply that was lost stays lost, delayed bytes are written |
| `role_containers` | `CallsReturn`, `ImplementsWave` | sampling containers one at a time is sound: nothing is missed that was logged before a finish or a kill, no call hangs on a hung worker, and the loops implement `RoleWave` |
| `durability_cuts` | `NoFalseAlarm`, `AcceptedIsDurable`, `FaultsAreLifted`, `CutsMeetOperations`, `RunEnds` | every rotation of the crash cuts and one whole cycle of the storage faults, with late and lost storage writes and a harness that throws anywhere; with a broker that acknowledges early, loses or duplicates after a crash, a run that passes is one in which nothing acknowledged was harmed |
| `lifecycle` | `ExitZeroMeansPassed`, `ResultsAreTrue`, `SuiteIsComplete` | exit codes, results and the suite's summary under any pattern of failures |
| `pressure_queue` | `NoFalseAlarm`, `AcceptedIsTrue`, `StopEnds` | the reconciliation is exact on both sides, the reconciler outwaits running leases, a stop ends |
| `rpc_streams` | `NoFalseAlarm`, `AcceptedIsExact`, `DrainedBetweenPhases`, `RunEnds` | a correct broker is rejected only in the races that section 5 names; an accepted fleet got all its frames, in order, its own and from one worker; a phase ends with nothing registered, pending or running; a killed worker or broker hangs nobody |
| `leases` | `NoFalseAlarm`, `AcceptedIsTrue`, `RunEnds` | a correct broker is rejected only when an acquisition overtakes a close (section 5); a lease that is kept, or a number that is reused among contenders or by the successor of the killed owner, never passes; every run ends |
| `queues` | `NoFalseAlarm`, `AcceptedIsTrue`, `RunEnds` | late admissions and late notices never fail a correct broker, but three limits of the lifecycle do (section 5); a run that passes has completed every acknowledged item once, those of the killed client by another one, and no stale token was honoured |
| `schedules` | `NoFalseAlarm`, `AcceptedIsExact`, `NothingIsLeft`, `RunEnds` | which alarms can be false (section 5); the delivery scenario has its subscriptions in place at the due minute on every schedule; a run that passes has delivered what was promised, the storm up to the evidence it reads; subscribers have been told to stop, and storm definitions taken back, on every path on which the call for it does not itself fail |
| `cleanup` | `NoFalseAlarm`, `AcceptedIsTrue`, `FaultsAreLifted`, `RunEnds` | a correct broker passes however late and in whichever order it cleans up, but for what the checks take for granted of handles, snapshots, calls and the readiness sampler (section 5); a run that passes has left nothing visible behind, got every reserved item back once, cut its victims while they were armed and observed every restart; replies stay held back, or saturators running, only if the restoring call itself failed or the run threw before its try block |
| `families` | `NoFalseAlarm`, `AcceptedIsTrue`, `RunEnds` | which of 23 defective brokers each of eight scenarios finds on every schedule on which things settle within the sleeps and deadlines of the scripts, and that a correct one is rejected only when a request overtakes a panic or a canary uses up one limit in two waits |

`AcceptedIsTrue` is in each module the conjunction of what a run that passes has shown:
`AcceptedIsExact` and `AcceptedIsDrained` (pressure), `AcceptedIsReleased` and `AcceptedIsFenced`
(leases), `AcceptedIsExact` and `VictimsItemsReappear` (queues), `AcceptedIsClean`, `ItemsReconciled`,
`CutWhileArmed` and `RestartsObserved` (cleanup), `AcceptedIsIsolated` and `AcceptedFailsClosed` (families). `NothingIsLeft` is
`SubscribersAreTold` and `StormCleansUp`. The types of `RoleContainers` and `ScenarioLifecycle`, and
`WaitMeansLogged` and `LogsAreWhole`, which `RoleWave` implies, are left to their proofs.

One run ends in a violation, a disagreement between the code and what the repository says:

| run | property | what the code does |
| --- | --- | --- |
| `rpc_streams_fault` | `FaultsInterruptStreams` | the error for a stream that "unexpectedly completed" (`workloads/live.ts:486`) is thrown into the catch clause that counts interruptions, so a phase whose stream ended before the kill passes; README.md:303-304 says the kill hits an active worker and streaming calls |

### Bounds, and why they are enough

- `proxy`: one connection, three chunks per direction, all seven modes and a body that must be
  refused. Connections interact only through `fault` and are closed together, so a second one adds
  products of states and no new behaviour (the theorems hold for any set). Three chunks are one
  that is written, one in a timer and one that could overtake. The scenarios restore the proxy
  between two faults (`Alternates`, a conjunct of every step of `DriverSpec`; the run checks
  `FairDriverSpec`).
- `role_containers`: two containers, of which one has failing commands, two events. Two is the least
  number for which the state of one is stale when the other is sampled.
- `durability_cuts` starts from a set of campaigns. Crash cuts: two domains, two iterations from every
  seed, so that every identity is followed by its successor. Storage faults: the plan does not depend
  on the seed, so five iterations are a whole cycle; one domain, since the storage path is shared and
  domains meet only in the ledger. Faulty broker: the baseline and one iteration from every seed, so
  each identity is hit by each misbehaviour.
- `lifecycle`: three scenarios, one before and one after a failing one. Ports at both sides of the
  limit.
- `pressure_queue`: three operations, the lease of 2 s and the 3 empty polls of 1 s of the code. An item
  needs two reservations to be ambiguous and then completed, and a third operation follows.
- `rpc_streams`: two workers and two callers in fleets, as many as an exchange of frames or a call
  handled twice takes, one elsewhere, as in the code; two frames per call, one before and one after
  the point of progress; all seven phases, so that leftovers of a phase meet the next one. A caller
  makes one call: calls of one caller differ in their identity like calls of two.
- `leases`: three contenders with two critical sections each, or two rounds, an even and an odd one, of
  three waiters. With three, one can be served, one be gone and one be waiting.
- `queues`: two producers, two drainers and three items each, a first batch of two: the least with a
  half that is completed and a half that is not, and a third item that stays behind. The wave of the
  overload has two items, one admitted late and one refused.
- `schedules`: two subscribers, so that Single can go to the wrong number of them; one definition of
  each kind, since definitions meet only in counts, and two with two lanes in the storm, where one
  lane goes on after the other has failed. One session cleanup (`MaxCounted`): enough for a counter that
  is ahead of, or behind, its snapshot.
- `cleanup`: two clients, the one with a single request and one with all of them; two domains, the
  least for which one is read before the other; two cycles of the storm, one with the state of the
  cycle before. Its workers have routes of their own and meet only in sums that are compared with zero
  or with their number, so the storm and the saturation have one.
- `families`: two shards and the families that the code computes from them; two cycles, so that
  counters and content of the first meet the second; two clients of the active fault.

### Fairness

- `FaultProxy`: timers that are due fire (node's event loop). Nothing is assumed of peers or of the
  control endpoint.
- `RoleContainers`: the driver takes its next step and the clock reaches the deadline. Nothing is
  assumed of workers, which may hang.
- `DurabilityCuts`: the driver's steps and the writer's steps; each operation of a writer has an abort
  signal, so it ends. Nothing is assumed of the broker, its storage or the harness' failures.
- `PressureQueue`: the client and the reconciler, whose requests carry signals that abort. Nothing is
  assumed of the broker or the clock outside the reconciler's own waits.
- `RpcStreams`: the driver's steps on one side, those of workers, callers and broker together on the
  other. The broker's part is needed: a driver polls until the broker has cleaned up. The driver's
  deadlines are not needed for `RunEnds`.
- `LeaseScenarios`, `QueueScenarios`, `CleanupScenarios`, `FamilyIsolation`: likewise, driver, clients
  and broker each; in the cleanup each lane of the saturator is fair, as a lane is a loop of its own,
  and so is its progress timer. In the cleanup the deadlines of the waits for containers are fair as
  well, since a signal may be missed and the wait then ends by the clock alone; in the others deadlines
  are left to end a run, never needed to.
- `ScheduleScenarios`: also the clock.

`CHECK_DEADLOCK FALSE` is set where a run of the program ends; the proxy never ends, and its runs
check for deadlock.

## 4. Proofs

For every value of the constants, from the named assumptions of the modules only (types of the
constants, at least one container, scenario, replica, definition and lane, two frames per call, and
`DrainAssumption` of `PressureQueue`).

**FaultProxyProofs.** `ProxyTypeOK`, `ProxyHealthyIsTransparent`, `ProxyCutIsolatesUpstream`. Neither
safety property is inductive. The invariant `IInv` adds `FreshIsEmpty` (a connection that was never
accepted has no sockets, timers or bytes, so that a new one starts clean) and `TimersAreLive` (a timer
belongs to a live connection and is dropped with it). The argument: every `PUT` that changes what a
connection may carry closes all connections, so in modes `healthy`, `reset` and `partition` a live
connection was accepted under that very mode. One lemma per callback; `AppendNext` says that writing
the chunk just read extends the identity stream.

`ProxyInOrder` and `ProxyLostReplyStaysLost` are about `DriverSpec`: with drivers that put one fault
over another they are false, as a chunk that is read under a shorter latency overtakes. `DriverIInv`
adds `TimersAreCurrent` (a timer has the latency of the fault in force), `StreamsInOrder` (what is
written comes before what is in a timer, and both have been read) and `TaintedIsCut` (a connection that lived while
replies were withheld is closed, or they still are).

**RoleContainersProofs.** `RoleTypeOK`, `RoleWaitMeansLogged`, `RoleLogsAreWhole`, for any number of
containers. `RoundIsSound` says what a polling round knows half-way: containers before the index
that are not in `missing` have logged the event, for good. `SamplesAreFinal`: a state sampled as
exited is still so, with that exit code. `FinishIsWhole` and `KillIsWhole`: the containers whose logs
have been captured had stopped before. Logs only grow and exits are final, which is why sampling one
container at a time is sound.

In the same module, `RoleImplementsWave`: `RoleContainers` implements `RoleWave`. Besides `IInv` it
needs `StartInOrder` (while a wave starts, exactly the containers from the index on are absent, so the
last one ends the start) and `CapturedIsLogged`. Each action maps to the step of `RoleWave` at which
the call is answered, or to a stutter (`Stutter`); `NextWait` with nothing missing is the answer of a
wait because of `RoundIsSound`, `FinishJudge` and `KillRemove` are the end of the wave because of
`SamplesAreFinal`, `FinishIsWhole` and `KillIsWhole` (`EndOfWave`).

**ScenarioLifecycleProofs.** `LifecycleTypeOK`, `LifecycleExitZeroMeansPassed`,
`LifecycleResultsAreTrue`, `LifecycleSuiteIsComplete`, for any length of a suite. `Undecided` and `Decided` relate the program
counter to verdict, classification and timing inside the try and the finally clause; `Tied` relates
the results to the stacks; `Complete` and `Told` say how many results there are at each place and
that a result accounts for its stack. `Exit` ties the exit code to the end.

**DurabilityCutsProofs.** `DurabilityNoFalseAlarm`, `DurabilityAcceptedIsDurable`,
`DurabilityFaultsAreLifted` and `DurabilityCutsMeetOperations`, for any domains, number of iterations,
seed and combination of misbehaviours. The driver is a list of steps, so the invariant starts with
their order: `WellOrdered(todo)` says that in whatever is left of an iteration each fault is undone
later, there is one writer, and the verdict comes last; it holds of each plan and of each tail of it
(`TailSteps`, `HeadTail`), so no proof follows the plans step by step. `FaultInv` then says that a
fault in force has its undoing step still to come, `WriterInv` what the state of the writer says of
its operations, `LedgerInv` that the ledger misses at most the acknowledgements of a writer that has
not been collected yet, `StorageInv` that what is served is stored and a correct broker serves what it
acknowledged, and `VerdictInv` that what the verifier read is still so when it is judged. The cuts need
more: `CutInv` has the order of each identity's own plan (`PlanInv`), that nothing of an iteration is
stored before its writer starts (`FreshInv`), the gate and the signal (`GateInv`), and that the fault
is in force until the driver knows of the dispatch (`ForceInv`).

**PressureQueueProofs.** `PressureNoFalseAlarm` and `PressureAcceptedIsTrue`, for any number of
operations and any lease that is not longer than the reconciler polls (`DrainAssumption`).
`EnqueueInv`: each sequence is enqueued and recorded once. `PlaceInv`: an item is in one place, and a
completion of unknown outcome has a running lease. `LedgerInv` relates each item of a correct broker to
its entries: settled exactly when a ledger says so, and an acknowledged one that is not is still in the
queue. `WrongInv` does the same for a broker that went wrong: a lost item is nowhere, and a redelivered
one is in a batch, in the client's hands, or counted twice. `DrainInv`: a lease has at most as many
seconds left as the reconciler has vain polls to go.

**LeaseScenariosProofs.** `LeaseNoFalseAlarm` and `LeaseAcceptedIsTrue`, for any clients, number of
critical sections and number of rounds. `Remains` says that the steps left are the last ones of the
program, so that their number, `Left`, tells where the driver is. In the contention, `RolesInv` ties each
role to that place, `TurnsInv` counts its critical sections and `AdmissionsInv` has each of them logged
once: the count of `assertLeaseAdmissions` is then a bijection (`CompleteIsAccepted`). `FencedInv` is what
the driver has found out, and is what a broker that misbehaves cannot undo. For a broker that does not,
`GrantInv` and `QueueInv` give exclusion (an owner is inside, dead, or has its number on the way; who
waits has asked once) and `TokensInv` unique tokens, the waiter's above the owner's, since the waiter
cannot enter while the owner holds the lease. In the waiter races, `RoundClients`, `RoundQueue` and
`RoundHolder` say, by the first step left, who is connected, that every waiter is on its way or in the
queue while the depth is awaited, and that a replacement finds the lease free.

**RpcStreamsProofs.** `AcceptedFleetWasServed` and `PhasesAreDrained`, for any number of replicas and of
frames per call, whatever the broker does. `Place` has the steps that are left as the last ones of
the phase; one lemma per kind of phase lists its steps. The heart of the drain is `DrainedInv`: the
first read of the statistics that shows nothing stays true until the phase is over, although the
metrics are read later. This holds because by then no worker lives (`WorkersInv`), a registration belongs to a live worker,
or to a killed one in the phase that kills (`RegisteredInv`), so none can appear any more, and without a
registration no call is assigned; handlers die with their worker (`HandlersInv`). For the verdict,
`ConsumedInv` says that what a caller has accepted so far is the beginning of its own response from one
worker, and `JudgedInv` that the driver reaches the wait for quiescence of a fleet only with every call completed.

**ScheduleScenariosProofs.** `CorrectBrokersPass`, `AcceptedRunsAreExact` and `RunsLeaveNothing`, for any
subscribers, number of definitions of each kind and number of lanes. `Ahead`, the number of steps left of
the script, tells where the driver is (`Place`, `Here`). These parts hold whatever the broker does:
`FleetInv` (a fleet that has been judged is gone and its ledgers are those that were judged; before an
error leaves, every subscriber has been told to stop or is `astray`), `LedgerInv` (a ledger without
objections counts exactly what was delivered), `EarlyInv` (the first early delivery of the outage is an
objection), `StackInv` (a snapshot of the counters is of the process it is compared with), and for
the storm `StormSeenInv` (at the verdict every definition was delivered once; what comes later is in
`unjudged`) and `StormCleanInv` (which definitions the worker has still to take back, at each
place of its try and finally block; `Tidy` is the part that needs no failed request). From them follow the
last two theorems; that a count of one means one subscriber is `LoggedOnce`. `Regular` are the steps without
failing commands, saturated clients and the counter; `FailingCommandIInv`, `SaturatedIInv` and
`CounterIInv` are about these.

`CorrectInv` is about runs in which the broker is correct and nothing was overrun or tardy. `FireInv`: an
occurrence that fired is on its way to, or logged by, each of those that it is for, once, and one that did
not is nowhere; nothing fires before its instant, and time does not pass with something due. `CreatedInv`: a
definition is acknowledged exactly when it was made. `DeliveryInv`, `OutageInv` and `StormInv` say for
each script, by `Ahead` or the place of the storm's worker, which roles run, which definitions exist, and
what the clock has reached: in particular that every subscription is in place at the instant that counts,
across the restart. `DeliveryIsAccepted` and `OutageIsAccepted` turn this into the verdict, and
`NeverRejects` shows that none of the driver's checks fails.

Only model-checked:

- the liveness properties (`DelayedIsWritten`, `CallsReturn`, `RunEnds`, `StopEnds`), which need fairness;
- `NoFalseAlarm` of `RpcStreams`: the fleet is judged by totals over all workers, `Total` is a recursive
  sum, and what it computes for every number of workers takes an induction over data;
- `QueueScenarios`, `CleanupScenarios` and `FamilyIsolation`, whose inductive invariants have a clause for
  each step of four to eight scripts each. `CutWhileArmed` of `CleanupScenarios` could not be proved for
  any set of clients: `isEphemeralStateArmed` compares counts that single out the victims only when
  there are two of them, as the scenarios have.

The inductive invariants were checked by TLC, as invariants of the instances of section 3, before they
were proved.

## 5. Observations

What modelling and checking showed about the code, besides the finding of section 3. None of it is
about the broker.

**Machinery**

- `blocked-provider-access` and `restart-with-storage-inflight` run the same steps in
  `runCrashCutIteration`; they differ in name only.
- In `analyzeDurabilityLedger` an operation that is observed was always started, because every writer
  logs the start of each sequence: the "exposed unstarted sequence" check cannot fire.
- A completion that is ambiguous twice for one item (its lease expired in between) puts its sequence
  twice into `ambiguousCompletions`, and `assertUnique` rejects the run as a duplicate although the
  broker did nothing wrong. `NoFalseAlarm` of `PressureQueue` names this exception.
- A wave whose k-th `docker run` fails is abandoned with the earlier containers running
  (`compose.ts:902`); they go with the project. A failed unpause is taken for done (`compose.ts:548`):
  nobody tries again, and the run ends at the deadline of the restart behind it.
- The client library makes up to three attempts (`worker.ts:288`); which operations it repeats is not
  determined by the repository, and the models assume one attempt.
- A `docker logs` that fails is taken for an empty log (`allowFailure`); `LogsAreWhole` excepts the
  containers in `Flaky` for this reason.

- `storage-proxy.mjs:114` forwards the end of a stream, and `:89` closes both sockets when one closes,
  in every mode: under `blackhole` the broker is told when the client gives up, although README.md:75
  of the repository says the fault silently blackholes both directions.
- `waitForRoleEvent` reads the log and then the state: a container that logs the event and exits
  between the two commands is reported as "exited ... before" the event (`compose.ts:921`). `RoleWave`
  therefore only promises that a blamed wave has a container that has exited.
- An artifact write that fails inside the finally clause of `runScenario` (`scenario.ts:191`, `:206`)
  skips the cleanup and aborts the suite; README.md:507-508 of the repository says that a suite always
  removes the project. `SuiteIsComplete` is therefore about artifact directories that can be written.

**RPC and lease scenarios**

- A worker counts a call (`handled += 1`) after its last frame is out. If it is stopped between the
  two, the totals of a fleet do not match and a correct broker is rejected. `NoFalseAlarm` of
  `RpcStreams` names this exception (`abandoned`).
- The worker of the cancelled call is stopped while its handler may still write. What it writes behind
  its deregistration can be counted by the broker as late as in the probe, where no failure is
  allowed (`straggled`). A session that the broker has not noticed to be gone shows neither in the
  domain's statistics nor in the cleanup metrics, so quiescence does not exclude it.
- In the phases with a kill every error of the call is taken for the interruption, a frame of the
  wrong call included: what the caller verifies there cannot fail the phase.
- `rpc-pressure` rejects a broker that never chose one of the workers; a broker that need not balance
  small numbers of calls would be rejected by chance.

- Under latency the proxy delays bytes in timers and forwards the end of a stream at once
  (`storage-proxy.mjs:114`): the end overtakes the bytes, which are then lost.
- In odd rounds of the waiter races a waiter that is still connected may be granted the lease before
  its close takes effect. Every fulfilled acquisition counts as a ghost, so a correct broker fails the
  run. `NoFalseAlarm` of `LeaseScenarios` names this exception (`lucky`).
- The waiter races do not look at `isHeld` of their final query: the release of the last replacement is
  the only one that nothing verifies (`AcceptedIsReleased` excepts it).
- `lease-contention` logs when a critical section is entered and left, and never compares these times:
  two clients in their critical sections at once pass if their numbers differ. The number of the owner
  that is killed is compared with its successor's only, not with those of the contenders.
- `fencingRegressions` of the waiter races is never assigned (`lease-waiter-disconnect-races.ts:49`), so
  they pass with a broker whose numbers fall; README.md:142-143 of the repository says that they
  require monotonic fencing.

**Queue scenarios**

- `NoFalseAlarm` has three exceptions, all in `queue-lifecycle`: the lease of one second may run out
  before half of the batch is completed; the consumers give up after two empty polls of one second,
  which may be before the broker has noticed the abandoner; and "fairness failed" is thrown when one
  consumer got nothing, which no promise of a queue excludes.
- Any error of an oversized enqueue or of a stale completion counts as the refusal it asks for.
- "did not produce a bounded admission failure" cannot be thrown: the driver waits for a failure first.

**Schedule scenarios**

- `schedule-outage` neither waits for the re-subscription of its clients nor looks at the clock after
  the restart, and a stop that takes more than ten seconds reaches into the next minute; the storm may be armed late.
  These are the exceptions `overran`. A handler that is late by its own client, or a client that reports
  itself saturated (`schedule-delivery.ts:307`), is `tardy`.
- `stopSubscribers` ignores that `docker kill` or the finish has failed (`schedule-delivery.ts:389-392`,
  `schedule-outage.ts:184-187`): the error then leaves with subscribers running. `SubscribersAreTold` says
  that they have been told to stop, and excepts those that a failing command missed (`astray`); that they
  have ended is not promised.
- The outage handler throws on an invalid payload, and nothing counts it. Duplicates of the storm that
  come between the reading of its evidence (`schedule-due-storm-isolation.ts:188`) and its unsubscription
  (`:200`) are counted by the handler and judged by nobody, so a run may pass although README.md:157 of the
  repository says that every due definition must fire exactly once; `AcceptedIsExact` excepts exactly
  these (`unjudged`). That an acknowledged cancellation of the race
  excludes a delivery is not checked.
- When a create of the storm fails, the other lanes go on creating while the finally block cancels. A
  canary that is created between its cancellation and the close of the sibling stays.
- A `remainingDefinitions` that is missing from the evidence counts as 0.

**Cleanup scenarios**

- The exceptions `raced`: a worker's handles that are half closed (`reliability-session-state.ts:280`),
  a snapshot of `waitForRegistrationCleanup` whose parts are of different moments
  (`reliability-cleanup-helpers.ts:123`; it can also hide work that is applied later), and a call that
  completed before the shutdown.
- The ledger of the storm also rejects a correct broker when the sampler missed the gap of a restart
  (`reliability-cleanup-helpers.ts:54`), when its last sample was not answered within a second, and when
  the restart took longer than its budget (`shutdown-reconnect-cleanup-storm.ts:169-181`; `complaint`).
  Any sample that is not 200 counts as the drop, a slow answer included: README.md:114-115 of the
  repository says that readiness must become unavailable as the shutdown begins, and what a pass shows
  is that some sample of the restart was not 200.
- The call that restores the proxy swallows its failure (`ephemeral-reply-loss-cleanup.ts:126`), so the
  replies may stay held back for the rest of a run, even one that passes. The stop of the saturators
  does too (`control-lane-cleanup-under-saturation.ts:176-179`), a missed SIGTERM is not noticed
  (`compose.ts:981-989`), and what throws between their start (`:71`) and the try (`:88`) leaves them
  running. `FaultsAreLifted` excepts these cases only.
- A second copy of an item that a broker puts into a queue after the last look at the queues is not seen
  (`late`). The verifier of the reply loss reserves one item at a time; it gets a second copy only
  when it looks for what remains.
- Watches (`kv.subscribe`, `lease.subscribe`) show in no statistic, so a leak of one is never seen.
- `progressBefore` is the last periodic log, not the totals of the moment: a lane that stalls during
  the cleanup may pass (README.md:119-123 of the repository speaks of continued progress), and
  `cleanupCompletedWhileSaturated` is a constant.
- `active-graceful-shutdown` has no finally block. Every error of a stale handle counts as rejection.

**Family isolation**

- The exceptions `raced`: three scenarios use the family as soon as the failpoint has answered, and do
  not look at `injected`; nothing waits for the panic. And `longestCanaryMs` of the fairness is the time of
  a publish and of a delivery, each of which may take up to the limit that their sum is compared with
  (`same-shard-family-fairness.ts:30`, `:67-73`).
- "no same-shard noisy operations completed" (`:27`) cannot be thrown: a noisy publish that fails fails
  the run before.
- The matrix probes the survivor before anything waits for the cleanup of the killed holder, so a
  cleanup that takes too much and comes late is not seen (`early`). A leaked RPC worker looks like
  none, as a time-out counts as rejection; leaked or undecodable Notices of the killed holder are not
  reported.
- `exhaustion-readiness` reads readiness once, and never asks whether the surviving family serves: a
  panic that takes the whole domain, or readiness that is withdrawn early, passes.
- In the in-flight scenario the sibling's call may be answered before the panic, answers are not compared, and
  a commit that was rejected is not looked for after the restart.
- `supervision` takes a `/readyz` that does not answer for withdrawn, and many fields of its evidence
  are constants that are compared with themselves. `fairness` ignores Notices of another family.

## 6. What is not modelled, and the plan

Not modelled on purpose: byte encodings of the protocol and the wire-conformance probes (the state
is in the broker), formatting of reports and artifacts, argument parsing, payload generation, the
disk filler. The broker, its storage, docker and the client library are external and modelled only
as far as the harness relies on them.

In part: pressure and soak (progress windows, sampling and the verdict are left out), the live
scenarios (Notice fan-out, churn and hostile RPC workers), the session and transport faults (their
drivers; the proxy they use is modelled), the services of the Compose stack (as far as the modelled scenarios need
them).

Next, in this order:

1. Chaos and `waitForAllClientDomains`, whose hazard is stale progress, with the progress windows and
   the verdict of pressure and soak.
2. Transaction contention (single winner) and stream replay; Notice fan-out, churn of live clients and
   hostile RPC workers; half-open sessions, response loss and cross-transport recovery.
3. Rating rules of the operational guidance, as operators checked against a reference definition.
4. Composition: a scenario module on top of `RoleWave` instead of containers of its own.
5. Proofs: `FaultsAreLifted` of `CleanupScenarios`, then the verdicts of `QueueScenarios`.

## 7. Running

    tlc -config FaultProxy.cfg MCFaultProxy      # likewise for every run of PROJECT.json
    tlapm FaultProxyProofs.tla                   # likewise for every *Proofs.tla
