# Verification of the Cloudflare Tunnel and DNS synchronizer

TLA+ models, TLC runs and TLAPS proofs for `src/src/tunnel_sync`, the program that reads
Docker labels, keeps the ingress table of one Cloudflare Tunnel and the CNAMEs that point
at it in line with them, and restarts the `cloudflared` connector when its token changes.
Paths below are relative to `src/src/tunnel_sync` unless they start with `docs/`.

## 1. Inventory

| Component | State it keeps | Operations | Talks to |
| --- | --- | --- | --- |
| Planner: `domain/planner.py`, `domain/models.py` | none (pure) | ownership of a record, plan for one snapshot, degraded plan, summary | called by the cycle and the preview |
| Ingress merge: `domain/ingress.py` | none (pure) | merge desired roots into an ordered table | planner (index of roots), executor (what to PUT) |
| Synchronization cycle: `application/sync.py` | `RuntimeState.data`: status, discovered services, `docker_connected`, tombstones, last plan; the tombstone file | `run_once`: discover, resolve, activate, read, plan, update and persist tombstones, execute, publish | everything |
| Change executor: `application/executor.py` | the owed connector restart | provision, activate, deletion policy, one ingress PUT, DNS writes | Cloudflare, token file, Docker |
| Connector: `adapters/connector.py` | token file | read, write, restart request | shared volume, Docker |
| Docker client: `adapters/docker.py` | current event connection | requests with retries, `listen_events`, `close_events` | reports the connection into the runtime state |
| Discovery and labels: `application/discovery.py`, `domain/labels.py`, `domain/discovery.py`, `domain/diagnostics.py` | none that matters | inventory with its verdict, label precedence, connector resolution, network plausibility, status of a service | Docker client |
| Scheduler and debounce: `runtime/scheduler.py`, `runtime/debounce.py` | two deadlines, tasks, listener thread | events to triggers, coalescing, fallback loop, shutdown | event loop, `run_once` in threads |
| Runtime state: `application/state.py`, `application/reporting.py`, `application/preview.py`, `bootstrap.py` | working state, published copy, three locks | log, publish, snapshot, compute and cache a preview | everybody |
| Cloudflare client: `adapters/cloudflare.py`, `adapters/retry.py` | none | requests with retries and pagination | Cloudflare |
| Notifications: `adapters/notifications.py` | throttle cache | dispatch with cooldown | webhook |
| HTTP API, auth, dashboard: `web/` | none | reads of the published copy, `POST /api/sync` | runtime state, scheduler |
| Settings, preflight, metrics, logging, redaction, CLI, `compat/` | none that a decision depends on | | |

Behaviours that are hard here:

* **Faults in the middle of a cycle.** A cycle is a long list of remote calls without a
  transaction. Docker can be lost between discovery and the plan, a write can be applied
  although its reply is lost, some writes of a plan fail and others do not, the process can
  die anywhere. Correct means: fail closed, never remove too early or too much, report
  success only when it is true, converge afterwards, then fall silent.
* **Time and memory.** A grace period rests on tombstones that are set by plans, cleared by
  recoveries, dropped after executions, saved to a file and loaded over the memory.
* **Ownership.** What is deleted or overwritten depends on a record's target and tag, which
  the synchronizer itself changes and an operator may edit between read and write.
* **Order as meaning.** Cloudflare takes the first ingress rule that matches.
* **Remote calls.** A call is retried after a timeout although it may have been done; a
  listing comes page by page while others edit the zone; an alert may arrive unconfirmed.
* **What the world sees.** The token of the connector is compared, written, and acted on in
  three steps that can each fail; every Docker request publishes whatever the working state
  is at that moment, also in the middle of a cycle.
* **Threads.** An event loop, a listener thread and cycle threads share two locks; a log
  line takes one of them. Triggers, skipped cycles, lost events and shutdown interleave.

Every hazard, at its line and with the properties that watch it, is in `PROJECT.json`.

## 2. Modules

```
Labels <- Discovery <- MCDiscovery <- Discovery_proofs           \
IngressMerge <- MCIngressMerge <- IngressMerge_proofs              \  MCParts: what a cycle
Planner <- MCPlanner                  \                            /  is built from
Requests, ZoneReads, Alerts             > <- Parts_proofs        /
   Planner
     ^
SyncCycle <- MCSyncCycle                            run_once and the world around it
     ^   \- - implements - -> Leases                what it promises
     SyncCycle_proofs <- SyncCyclePromises_proofs
Connector, Publication <- Runtime <- Runtime_proofs     what the world sees of the cycles
Scheduler <- MCScheduler, Scheduler_proofs          when cycles run
DataLemmas                       induction and folds, for the proofs about the parts
```

**IngressMerge** works on sequences of rules `[host, path, service, req, extra]`.
`MergeStep` is the loop body of `merge_ingress`, `MergeIngress` the fold over the table with
the new roots and the final catch-all, `RootIndex` the planner's index over the same table.

**Planner** has one operator per decision on one host: `ParseStatus`, `ManagedRoot`,
`ManagedRecord`, `Cleanup`, `IngressAction`, `DnsAction`, the tombstone sets, `ComputePlan`,
and the deletion policy `ExceedsBlastRadius`. The code decides host by host in two loops; a
`view` is what one cycle read. `FetchBatch` and `FetchPerHost` are the two ways the zone is
read. A route is the pair (service, originRequest), compared as a whole.

**Labels** turns the labels of one container into a hostname and an origin. A setting with
several spellings is the tuple of their values in order of precedence, and a value is what
its text means. **Discovery** folds `Collect` over Docker's list: which containers `Asks` for
which hostname, who is the connector and what networks it has, what the strict network check
excludes, and the verdict on the list as a whole. `GetDockerContainers` is the path of the
`compat` helpers, whose Docker call turns an unreachable daemon into an empty list.

**Requests** is one remote call: attempts until success, a failure the client does not retry,
or the limit; what the server did is counted apart from what the client heard of it. A
`Retry-After` is absent, seconds, or something else, which the client answers with its base
delay as it is. Times are in hundredths of a second.
**ZoneReads** is `fetch_dns`, one HTTP request per step, while others edit the zone.
**Alerts** is the throttle of the webhook, with `received` for what really arrived. Not every
failing cycle alerts: one that finds Docker down, no zone or no account, and every dry run,
ends without (`FailsSilently`); and a webhook that redirects counts as delivered although
nobody got the alert (`Redirected`, notifications.py:265).

**SyncCycle** is `run_once` as a program counter: `Discover`, `Resolve`, `Activate...`,
`MakePlan`, `Persist`, `Put...`, `Dns...`, `Finish`, each with its failing twin, and
`EndWith` for every early return. `MakePlan` calls `ComputePlan` on the snapshot the cycle
took, with the settings that a sudden drop overrides (`Effective`). Each DNS write is a step
of its own, deletions after the rest. Around it: containers change, an operator edits both
objects, the process crashes, time passes, and at some point the environment may fall
`calm`. `unseen` and `edited` are history variables that no action reads.

**Leases** is the abstract promise: a hostname's route and record are held on a lease that
inventories renew, and are taken away only by an order whose waiting time has passed since.
It has no cycle, plan, tombstone, file or failure. Who writes is part of the state: `work` is
moved by every step of the service and by no edit of others, so a write of the service without
an order, in a dry run or without Docker, is no step of `Leases` at all. `SyncCycle!L`
instantiates it: `quiet` is `unseen`, `ordered` is having an executable plan, `wait` is zero or
the grace period in force, `work` is the program counter with the records still to write.

**Connector** is the token file, the comparison and the owed restart of `activate`, and the
`cloudflared` container, which reads the file whenever it starts. A file that is missing,
empty or cut short is `None`. **Publication** is the working state, its published copy and
the preview that the two GETs compute; what a cycle discovered, what it shows and what it
planned are each named by their inventory, so mixing two is visible. **Runtime** drives both
by the steps of `run_once` that touch them, and adds the listener's reports, previews,
container changes, token rotations and crashes; planning and writing are single steps there.

**Scheduler** is one event loop that runs a coroutine until it awaits (`loop` tells which
one occupies it), the listener thread, and one thread per call of `run_once`, reduced to the
two locks and the point where the inventory is read. `news` follows each container change:
`streamed` to the listener, `handled`, `due` in the debouncer, `taken` by the worker,
`known` once an inventory contains it, `missed` when nothing will ask for it any more.
Logging is a step that needs `working_lock` free: this is what `Reporter.add_log` does, and
it is where threads and loop meet.

How they fit: `SyncCycle` reads the zone in one step, which `ReadsSeeEveryService` justifies:
what the requests of a read add up to is what one read would have returned, unless someone
edited the zone meanwhile. It lets a failed write be applied all the same, which is what
`OutcomeIsTrue` leaves of a retried call. It takes inventories as given, hosts with one
origin each, which is what `InventoryIsTrue` says of them. `Scheduler` calls the reading of the inventory `Discover` and knows no more
of a cycle. `SyncCycle` assumes one cycle at a time, and that nobody else writes
`docker_connected` during a cycle; the first is the theorem `OneCycleAtATime`, the second
holds because listener and preview report through `working_lock`, which a cycle holds from
start to end (the lock is reentrant, so the cycle's own requests do report). `Runtime` has
the same guard: reports and caching need `pc = "idle"`.

## 3. Runs

| Run | What is checked | Instance |
| --- | --- | --- |
| `Parts`: labels | `LabelPrecedence`, `VerifiedUnlessAsked` | every choice of up to three labels out of all groups and spellings |
| `Parts`: discovery | `InventoryIsTrue`, `OrderIndependent` | every list of up to three containers of 24 kinds, every setting, every way a request may end |
| `Parts`: planner | `PlanSettles`, `RouteAndRecordTogether`, `PoliciesOrdered`, `OthersRecordsUntouched` | one host, every setting, record, route, origin and tombstone age, then repeated cycles |
| `Parts`: merge | `RootsAsPlanned`, `RestKeptInOrder`, `DesiredRootsReachable`, `MergeSettles` | every table of up to three rules above the catch-all, every set of desired roots |
| `Parts`: requests | `OutcomeIsTrue` | both clients, limits zero to three, base delays below and above the ceiling, every sequence of outcomes and headers |
| `Parts`: zone reads | `ReadsSeeEveryService` | every zone of three names, one record per page, two edits |
| `Parts`: alerts | `AlertsKept` | three kinds of alert, cooldown two, lost answers, redirects, silent failures, restarts |
| `CycleFaults` | `TypeOK`, `GraceRespected`, `SyncedIsTrue`, `FailClosed`, `BlastRadiusRespected`, `TombstoneOutlivesResources`, `LeasesKept` | two hosts, three configurations, faults of Docker, reads, writes and replies |
| `CycleEdits` | `SyncedIsTrue`, `GraceRespected`, `OwnershipRespected`, `FailClosed`, `TombstoneOutlivesResources`, `LeasesKept` | one host, two routes, all policies, dry runs, operator edits, crashes, all faults |
| `CycleLiveness` | `Converges`, `Quiesces` | two hosts, faults and crashes before the calm |
| `SchedulerSafety` | `TypeOK`, `NoLostWakeup`, `CloseLeavesNothing`, `SignalsKept` | two changes under way, one request |
| `SchedulerLiveness` | `BurstsEnd`, `NoChangeForgotten`, `CloseEnds` | one change, unlimited events |
| `Runtime` | `WholeSnapshot`, `HealthyIsConnected`, `ConnectorCatchesUp` | three tokens, two inventories, one of them with a service its networks degrade, all faults |
| `PlannerManualRoots` | `ManualRootKept` violated | finding 1 |
| `CycleOrphanRoute` | `RoutesConverge` violated | finding 2 |
| `CycleProxy` | `Converges` violated | finding 3 |
| `CyclePersistFault` | `GraceRespected` violated | finding 4 |
| `SchedulerLoop` | `LoopNeverWaits` violated | finding 5 |

`Parts` is one run with a `subject`: a behaviour is about one part and leaves the variables of
the others alone, so nothing is multiplied.

What they show, in words:

* A usable inventory lacks a hostname only when no running container in scope asks for it, or
  when the first that does is excluded by the strict network check; and Docker's order decides
  nothing while no hostname is asked for twice and one container could be the connector.
  TLS verification is switched off only by a label that says so.
* A call that is retried reports success only if it was answered, fails only for a reason the
  client does not retry or at its limit, and if it was done all the same then an answer was
  lost. No pause of the Cloudflare client outlasts the ceiling, except that a `Retry-After`
  which is no number is answered with the configured base delay, even above the ceiling.
  However pages shift, a plan has seen the record of every service that kept one.
* Of the failing cycles that dispatch an alert, none stays unreported for longer than a
  cooldown: after a failed delivery every such cycle tries again until one is delivered. The
  exception is a webhook that answers with a redirect. No alert of a kind comes twice in a
  cooldown but after a lost answer or a restart. Failing cycles that dispatch nothing are
  outside the promise.
* Every step of a cycle is one that `Leases` allows, or a stutter; in particular no write of the
  service passes for an edit by others, so without an order it writes nothing.
* A reader who sees that a cycle synchronized sees services and plan of one inventory; in
  mid-cycle the status says "syncing". A cycle that ends healthy has settled the connector,
  with two exceptions that are the code's own: a token file it could not write, and a restart
  that was owed when the process died. Whatever happened before, the connector ends up on the
  token in force, with that second exception only.

* The merge places each desired root where no rule without a hostname hides it, replaces
  exactly the first root of a host, loses nothing else, and is a fixed point of itself, so an
  unchanged world is never rewritten.
* A plan converges in one cycle when its writes succeed; route and record of an absent host
  go together; strict, adopt and legacy policies are nested; other people's records stay.
* Nothing is removed from a host whose container was in an inventory planned from within
  the grace period, and after a sudden drop nothing within the long one, whatever cycles
  aborted, failed or were blocked in between.
* Without Docker at hand when the plan is made nothing is written, even when Docker was
  there at discovery. A cycle that reports success is right about every discovered host that
  no operator touched meanwhile. Tombstones outlive what they guard, so failed executions do
  not restart a grace period.
* After the environment calms down, records and the routes of running hosts are repaired,
  and then no cycle writes anything.
* The debouncer cannot forget a window, nor postpone it for ever. A trigger that is skipped
  because a cycle runs is covered by that cycle, except in the instant between the release
  of `working_lock` (sync.py:603) and of `run_lock` (604). This works because the
  log lines of the listener and of the worker wait for `working_lock`:
  `TakeWorkLockNever`, a cycle that runs outside that lock, breaks it. Whatever is lost in that instant, or with a broken event stream, is found by the fallback loop.
* `close()` returns only when no call of `run_once` is left, also one whose coroutine it
  cancelled or whose thread had not started.

Each property of a passing run has a mutant: a plausible bug, written next to the
definition it replaces, under which TLC finds the property violated.

### Findings

1. *Manual roots.* `PRESERVE_MANUAL_ROOTS` keeps a manual route in one cycle; the same cycle
   adopts its record, and the next replaces the route (docs/security.md:56).
2. *Orphan route.* A rejected PUT with a successful DNS deletion leaves a route no cycle
   removes, although "the next cycle re-reads remote state and converges" (executor.py:57).
   Later plans take it for someone else's, since its record is gone. Its tombstone stays as
   well: the failed PUT keeps it (sync.py:454), and no later plan lists the host to clear.
3. *Socket proxy.* A proxy that refuses the restart degrades the plan of every cycle, so
   nothing is published, and the status says "Active / Synced" (docs/security.md:17).
4. *Stale tombstone file.* After one failed write the old file wins over the memory and a
   service that came back loses its next grace period (sync.py:356, docs/architecture-and-safety.md:51).
5. *The loop waits.* Debounce worker and fallback loop log on the event loop, and so wait for
   the lock a cycle holds during provider I/O (docs/architecture-and-safety.md:119).
6. *The restart is repeated.* docs/architecture-and-safety.md:68 says that after a token write
   followed by a failed restart the next cycle with the same token "does not automatically
   repeat the restart" and leaves it to the operator. The code remembers the owed restart
   (executor.py:107) and repeats it (executor.py:96). Here the code does more than the document
   says, so the evidence is a passing run: `Runtime` shows `ConnectorCatchesUp`, which its
   mutant, the behaviour the document describes, violates.

Noticed while reading and not turned into runs: docs/operations.md:112 calls the token file write atomic, connector.py:30 truncates and writes;
docs/labels.md:48 takes the first valid `PrivatePort` in the list, labels.py:245 looks at the
first entry only; docs/configuration.md:90 says that `CLOUDFLARE_MAX_RETRIES` does not change
a sync, bootstrap.py:74 passes it to the client of the sync; when nothing names the connector,
discovery.py:97 falls through to a container called `cloudflared` of any Compose project; the
verdict "empty list while disconnected" can be reached by the `compat` helpers only, since
`DockerClient` reports a connection with every list it returns.

### Bounds, and why they are enough

* *Hosts.* A plan decides host by host; only the deletion count and the sudden-drop guard
  look across hosts, and two hosts with a limit of one deletion, or two services dropping to
  none, are the smallest cases of both. Hosts are symmetric where a cfg says so.
* *Ages.* `MaxAge` saturates ages at or above every grace period, which loses nothing: ages
  are compared with grace periods only. Grace one and drop grace two keep the two apart.
* *Routes.* Two, so that a route can be wrong without being absent; one where only presence
  matters. *Records.* Every combination in the planner runs; in `CycleEdits` one of each
  kind the ownership rules tell apart.
* *Tables.* Three rules are enough for a root behind a rule without hostname and for a
  duplicate root with a path rule between.
* *Labels and discovery.* Three labels are a pair that competes and one that must not matter;
  three containers are the synchronizer or a rival, the connector, and a service, in any order.
* *Requests.* `Limits` from zero to three: no attempt, one, a retry, and a retry after a retry,
  where the ceiling of the pause (`MaxDelay`, 30 s) is reached. `BaseDelays` are the least the
  code allows, 0.01 s, one whose double is above the ceiling (20 s) and one above it itself
  (40 s); `AfterGiven` is zero, a second, and longer than the ceiling.
* *Zone reads.* One record per page and three names: a deletion on a page already read moves
  the next record out of sight. `MaxEdits` two is one edit to move it and one to hide it.
* *Alerts.* Cooldown two tells an alert just sent from one that is half over.
* *Runtime.* `MaxToken` three: a rotation while an earlier one is owed. Two inventories, since
  the question is whether two are mixed.
* *Scheduler.* Delay one and maximum two make a moved deadline and a capped burst; the
  liveness run takes the maximum equal to the delay, where a burst can still move the
  deadline but for the cap. Events are unlimited. Timers may fire late, never early.

### Fairness

*SyncCycle.* Cycles go on (`WF(Cycle)`: the fallback loop starts one for ever and each call
has a timeout), the clock advances, and `CalmDown` happens (the properties are about calm
behaviours only). The environment owes nothing, and before the calm everything may fail.
`Converges` needs a deletion limit that the drift fits into; a plan above the limit is
blocked for ever by design.

*Runtime.* Cycles go on, Docker starts a connector that is down (`WF(Starts)`, its restart
policy), and `CalmDown` happens. `WF(Cycle)` is on their disjunction: which step of a cycle is
next is decided by its program counter.

*Scheduler.* The clock advances and each thread of a cycle runs. The loop serves its ready
queue in order, so a coroutine that is ready again and again gets a turn: strong fairness
for the queued callback, the worker and the fallback loop, since the loop is busy in
between; weak fairness for the steps of `close()`. Docker answers again and again (strong
fairness on `Discover`, needed for `NoChangeForgotten` only); with incomplete settings no
cycle reads an inventory and the property does not apply. The listener, requests, container
changes and the shutdown owe nothing: the listener may stay blocked, which is why `CloseEnds`
rests on the deadline.

## 4. Proofs

The theorems of the `_proofs` modules hold for every value of the constants: any hosts, routes,
settings, faults, requests, delays, tokens and inventories, tables and lists of any length. The
constants are assumed to be what their `ASSUME` says: bounds and delays are naturals, the hosts
of `SyncCycle` are finitely many, a sentinel such as `NoHost` or `Absent` differs from what it
stands beside. TLC evaluates every one of them. Every invariant and every action property that a
passing run checks is also a theorem.

| Theorem | States | Rests on |
| --- | --- | --- |
| `TypeCorrect` | `TypeOK`; a plan is at hand whenever one is executed | typing of plans, snapshots and ages |
| `GraceHolds` | `GraceRespected`, from `TombstonesReliable` | `GraceInv` |
| `FailClosedHolds`, `OwnershipHolds`, `BlastRadiusHolds` | the three action properties | `WritesInv` |
| `SyncedIsTrueHolds`, `TombstoneOutlivesHolds` | as named | `OutcomeInv` |
| `PlanSettlesHolds`, `RouteAndRecordTogetherHolds`, `PoliciesOrderedHolds`, `OthersRecordsUntouchedHolds` | as named, about `PlannerSpec` | one argument per host, a case per decision |
| `LabelPrecedenceHolds`, `VerifiedUnlessAskedHolds` | as named, about `LabelSpec` | `LabelsTyped`; one lemma per kind of setting |
| `InventoryIsTrueHolds`, `OrderIndependentHolds` | as named, about `DiscoverySpec` | `CollectedRight`, `ServicesTurned` |
| `RootsAsPlannedHolds`, `RestKeptInOrderHolds`, `DesiredRootsReachableHolds`, `MergeSettlesHolds` | as named, about `MergeSpec` | `MergeTyped`; `Books`, `RootsKept`, `RestKept`, `PlacedReached`, `Same` |
| `OutcomeIsTrueHolds` | `OutcomeIsTrue`, about `RequestSpec` | `RequestInv` |
| `ReadsSeeEveryServiceHolds` | `ReadsSeeEveryService`, about `ReadSpec` | `ReadInv` |
| `AlertsKeptHolds` | `AlertsKept`, about `AlertSpec` | `AlertInv` |
| `ImplementsLeases` | `LeasesKept`: `SyncCycle` implements `Leases`, from `TombstonesReliable` | `GraceInv`, `WritesInv`, one lemma per kind of step |
| `RuntimeTypeCorrect` | `TypeOK` of `Runtime` | |
| `WholeSnapshotHolds`, `HealthyIsConnectedHolds` | as named | `RuntimeInv` |
| `SchedulerTypeCorrect` | `TypeOK` | |
| `NoLostWakeupHolds`, `CloseLeavesNothingHolds`, `SignalsKeptHolds`, `OneCycleAtATime` | as named | `SchedulerInv` |

*`GraceInv`.* `GraceRespected` speaks only of states with a plan. What carries it from one
cycle to the next is that a tombstone, in memory or in the file the next plan loads, is never
older than the last plan that saw the container (`TombstonesYoung`, `SavedYoung`): a plan
clears the tombstones of the hosts it sees, and a new tombstone starts at zero.
`TombstonesReliable` is an assumption: either no configuration persists tombstones, or
writing the file never fails and the process never crashes. Without it the statement is
false: that is finding 4.

*`WritesInv`.* Between the plan and the last write, the plan still fits what was read of
every host no operator touched since: `PlanFits` (the plan's parts agree with each other),
`RoutesFit` (a route the PUT changes was decided with Docker at hand), `RecordsFit` (the
record a write meets is one the policy allows to touch), `TodoFits`. Edits leave it alone
because they add the host to `edited`.

*`OutcomeInv`.* It adds to `WritesInv` what a success rests on, from the plan to the last write:
what the plan did not ask for is right already, what it asked for is still to do, or right, or
its failure is recorded (`RoutesRight`, `RecordsRight`, and `DropsRight` for the hosts whose
tombstones a successful end drops). `SavedIsOld` says that a saved tombstone is never younger
than the one in memory, so loading the file makes none younger. Neither theorem needs
`TombstonesReliable`.

*The planner.* `PlanOf` and `AppliedOf` reduce a plan and the world after it to one host;
`ActiveSettles` and `AbsentSettles` then follow each decision into the next plan. This is why
`Parts` may run the planner with one host.

*Labels and discovery.* A setting is read from the first spelling that says something.
`LowerSpellingIgnored` and `LowerSwitchIgnored` take two records of labels that differ below
that spelling and show that they mean the same. Discovery is a fold over Docker's list:
`CollectedRight` says, of what was collected from a first part of the list, that exactly the
first askers of each hostname are in it, but the excluded ones; it holds of nothing and is kept
by one more container. The order of the list enters at two places, the first asker and the
choice of the connector; `ServicesTurned` shows that neither notices when no hostname is asked
for twice and one candidate is left.

*The merge.* Everything is said of a first part of the table and of one more rule. `Books` is
the loop's own bookkeeping: which hosts are past their first root, which are still to place,
whether a rule without a hostname went out. From it follow the roots of one host (`RootsKept`),
the rest (`RestKept`), and that nothing without a hostname is ahead of a placed root
(`PlacedReached`). `MergeSettles` is the other direction: a table whose first roots are the
desired ones passes through the loop unchanged (`Same`), the merged table is one (`MergedFirst`,
where the exception about a second root enters), and so it is for the roots indexed from it.
`sorted(pending)` need not be known but for listing each pending host once. `MaxRules`
only stops TLC: `MergeTyped` does not mention it.

*`RequestInv`.* Why a call ended (`EndRight`), and that every pause the client sends again after
lies between one and the ceiling, or is the base delay (`PauseRight`).

*`ReadInv`.* As long as nobody edits, the pages read so far are the first of the zone
(`BatchRight`); once somebody does, a host that was asked for and still has a record nobody
touched is among the records found (`HostsRight`). The number of pages is the one the
first reply names, and `PagesCoverZone` says that so many pages list everything.

*`DataLemmas`.* The library's induction theorems are about an operator, which the provers cannot
instantiate. Here induction is about a set: the set of counterexamples, were it not empty, would
have a least member, because the order of the naturals is well founded. From it come
induction over sequences and what a fold does with one more element (`FoldByAppend`), which
is all that the proofs about discovery and the merge know of folds.

*`AlertInv`.* The dispatcher decides by its own clock, the property speaks of the receiver's.
Within a cooldown of a mark the receiver got an alert no earlier than the mark, unless the mark
stands for a redirect (`Marked`), and no later unless an answer was lost or the process
restarted (`Unmarked`). A kind whose last alert was dispatched in vain is not marked, so the
next cycle dispatches it again.

*The refinement.* `NextSimulates` takes each action of `SyncCycle` to a step of `Leases`. The two
steps that need an argument are the writes: `GraceInv` says that what a plan removes has waited
(`MayRemove`), `WritesInv` that what is written is what the inventory of that plan asked for
(`MaySet`), for all hosts nobody edited meanwhile. `NotRehearsed` keeps dry runs from writing.
Without an order nothing may change: the PUT is skipped then (`PutSetsRoutes`) and no DNS write
is left to do. Steps that write nothing are work all the same (`SameProceeds`); only steps that
also leave the program counter alone stutter (`SameStutters`), and only those of the environment
may be edits (`EditEdits`).
`LeasesKept` inherits the assumption `TombstonesReliable`.

*`RuntimeInv`.* `WholeInv` carries `WholeSnapshot` through the copies: it says the same of the
working state, which the next publication shows. `FileFollows` ties the token file to the
step of `activate`; `DebtKnown` says that a connector on another token than the file's means a
restart that is due, owed or forgotten; `Settled` combines them at the end of a cycle.

*`SchedulerInv`.* `Locks` ties each lock to the one run between taking and releasing it;
`Turns` says that a worker between two awaits has the loop to itself and no run of its own;
`Delivered`, the heart of `SignalsKept`, that while a cycle is past its discovery only a
worker still waiting to log can hold signals that cycle has not seen; `Closing` collects
what each stage of `close()` has ended.

*Only model-checked.* The liveness properties: `Converges`, `Quiesces`, `BurstsEnd`,
`NoChangeForgotten`, `CloseEnds` and `ConnectorCatchesUp`. The provers have no rule for fairness
and ENABLED. The five violated properties are counterexamples, found by TLC.

What cannot be expanded in a proof is written out in the models: the first label or container
with a property is the least index (`FirstLabel`, `FirstWhere`), what a loop collects is a fold,
`sorted` is a CHOOSE among the orders of a set. They mean what SelectSeq, SortSeq and the like
would mean.

## 5. What is abstracted or left out

* One record per hostname. Duplicate roots exist in `IngressMerge` only.
* Settings do not change when the process restarts. The zone and the tunnel start empty of
  this tunnel's resources; operator edits put other content there.
* In `SyncCycle` an inventory is one origin per hostname or no usable inventory, and its final
  status ignores the networks of a service; `Discovery!CycleStatus` and `Runtime` have them,
  and a service with a network warning makes every status "Degraded". So "synced" in
  `SyncCycle` includes more states than in the code, and `SyncedIsTrue` holds in all of them.
* Texts are what they mean: no URL, number or DNS label is parsed character by character.
  Whether a container's name has a dot, which the plausibility check takes for an external
  name, is a field of the container (`dotted`).
* Alerts: why a cycle fails without dispatching one. `FailsSilently` stands for all of them.
  Deprecation notices, wording and `mask_sensitive_text` are left out.
* Requests: the jitter of a pause; the base delay is a finite number. The asynchronous twins of client and dispatcher are called by nobody.
* Publication: logs, audit events, history and gauges, which no decision reads. GET
  `/api/status` recomputes the overview on a copy and sets a gauge from it, perhaps an old one.
  `StatusPublisher` marks the DNS stage of a protected record as passed; nothing depends on it.
* After a failed restart the listener or a preview may report Docker as up again, and
  `health_state` of the next copy follows that report; `HealthyIsConnected` is about the end
  of cycles only.
* Scheduler: the relevance filter of events (an irrelevant event changes nothing), the
  optional heartbeat log, an unparsable fallback interval, the length of a back-off; requests
  in flight are a fixed set, one call of `run_once` each.
* Preflight (reads and counts, keeps no state), metrics, redaction, authentication, the
  dashboard and the serialization of snapshots, the CLI, settings parsing, and the `compat`
  shims but for their discovery path.

## 6. Plan

Done, in this order: `IngressMerge`, `Planner`, `SyncCycle`, `Scheduler` and their proofs;
`Leases` with the refinement checked and proved; `Labels`, `Discovery`, `Requests`, `ZoneReads`
and `Alerts`; `Connector`, `Publication` and `Runtime` with their proofs; the proofs about the
end of a cycle, the planner and the alerts; the proofs about labels, discovery, the merge,
remote calls and the reading of a zone, with the induction they rest on.

Left:

1. An abstract coalescing trigger ("each signal is followed by a run that starts after it")
   that `Scheduler` implements but for the exceptions of `SignalsKept`.
2. Several configurations in one behaviour: a restart that changes the policy or the grace
   period while tombstones of the old one are saved.
