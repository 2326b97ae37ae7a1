# A formal model of the runner gateway

The program listens to a GitHub Actions *scale set*, starts one Docker container
per assigned job with the CPU and memory of the job's profile, and removes it when
the job is done. A proxy logs which runner talks to which host, and an adaptive
loop changes the allocation of a job from the usage that earlier runs recorded.
This directory holds TLA+ modules that model the program, TLC configurations that
check them on small instances, and theorems with proofs that TLAPS checks.

## 1. The system

| Component | Code | State | Operations |
|---|---|---|---|
| Scaler | `internal/scaler/scaler.go` | `lastMessageID`, `pendingJobs`, the message in hand | `Run` (poll, acknowledge, dispatch), `handleJobAssigned`, `handleJobStarted`, `handleJobCompleted`, `provisionRunner`, `reconcileRunnerCount` |
| Runner store | `internal/state/state.go` | name -> container, address, status, times | `AddRunner`, `MarkBusy`, `MarkCompleted`, `Remove`, `ActiveCount`, lookups |
| Runner provisioner | `internal/runner/runner.go` | network id, gateway address | `StartRunner` (create, start, inspect), `StopRunner` (stop, remove), `StopAll`, image and network set-up |
| Metrics collector | `internal/metrics/collector.go` | none | `Collect` (two reads of cgroup files by `docker exec`) |
| Metrics database | `internal/metrics/store.go` | rows in SQLite | `Record`, `GetHistory` |
| Adjuster | `internal/metrics/adjuster.go` | none | `Adjust` (thresholds, factor, floor, ceiling), formatting |
| Configuration, classifier | `internal/config`, `internal/classifier` | the loaded `Config` | `Load`, `validate`, `buildOrderedProfiles`, `Classify` |
| Proxy | `internal/proxy/proxy.go` | none of its own (reads the store) | `handleConnect`, `handleHTTP` |
| Combined command | `cmd/all/main.go` | session, scale set, both goroutines | start-up, 409 recovery, shutdown with `StopAll`, deferred `Close` |
| Listener command | `cmd/listener/main.go` | session, scale set | the same without proxy and clean-up |
| Proxy command | `cmd/proxy/main.go` | an empty store | start-up, shutdown |

**Interaction.** `Run` is one goroutine and everything it calls blocks. GitHub gives it
messages; each holds the events since the last one (`JobAssigned`, `JobStarted`,
`JobCompleted`) and the statistics of the moment. The handlers call the JIT service,
Docker, the collector and the database, and write the store. The proxy's handlers
run concurrently and only read the store; `main` reads it at shutdown. Runner
processes in the containers talk to GitHub directly: GitHub gives *any* idle runner
of the scale set *any* assigned job, and the scaler hears of it later.

**What is hard.** Everything the scaler knows is late: the capacity it announces was
computed before the poll, the statistics are of the time of the message, a container
may have died since. A message is acknowledged before it is handled. Any Docker or
GitHub call may fail, with or without effect, and most failures are logged and
forgotten. Jobs swap runners, are cancelled, and their containers die. A call may also
have worked when it says that it failed, and an error may be read for another. The context
may end between any two calls. A process may crash and be started again while its
containers, its messages and its session live on. Addresses, by which the proxy knows
the runners, are reused. `PROJECT.json` lists each of these as a hazard with
its line and the properties that look for it.

**What makes each part correct.** The scaler: every assignment handled once, at most
`max_runners` containers, a runner for every job, every container removed, no
container stopped under its job, and `Run` returns after cancellation. The store: its
entries name existing containers and follow idle, busy, completed. The classifier:
answers a profile that exists and matches, the same one after a restart. Metrics: a
row is about a run that took place, of the job it names, timed from the start of that
job as it was handled. Adjuster: stays between floor and ceiling and settles at what the
rows call for, which is less than what the job needs when the rows are off. Proxy: never names another running runner, knows
every runner the store has, and ends its tunnels. Commands: no container outlives a
graceful shutdown of the combined command, the scale set in use is the one that exists,
and a session that makes the next start delete it is one that a crash or a failed close left open.

## 2. Modules

```
RunnerStore     the store as operators on one value        internal/state
  Docker        the daemon (external)                      how internal/runner uses it
    GitHubService  the service and the runner processes (external)
      Provisioner  StartRunner, StopRunner                 internal/runner
        Scaler     Run and its handlers                    internal/scaler
          MCScaler   small instances
          Gateway    the processes that run it             cmd/all, cmd/listener
            MCGateway  small instance
          Proxy      the handlers beside it                internal/proxy
            MCProxy    small instances
RunnerLifecycle abstract specification that Scaler implements
Classifier      configuration and classifier               internal/config, internal/classifier
  MCClassifier    small instance
Adjuster        the adaptive loop for one job name         internal/metrics
  MCAdjuster      small instance

ScalerProofs            types, store and Docker            (extends Scaler)
  DeliveryProofs        where the events are on their way
    LifecycleProofs     jobs, runners, store entries, and that containers are removed
      CountingProofs    statistics, deficit, surplus and capacity
    GatewayProofs       processes, restarts and clean-up   (extends Gateway too)
  ProxyProofs           attribution                        (extends Proxy too)
AdjusterProofs          the allocations                    (extends Adjuster)
ClassifierProofs        the answers                        (extends Classifier)
```

Each module extends the one above it and adds its own variables. `Scaler` is one
process at work: `Next == ScalerStep \/ Environment \/ CancelContext`. `Gateway` and
`Proxy` each compose it with one more actor; they are kept apart, since the proxy only reads
the store and the shutdown only writes what a later process sees.

**Scaler.** `pc` names the call the goroutine is about to make. A handler that makes
no blocking call is one action (`HandleJobStarted`, `Reconcile`); one that does is
cut at each call, because the environment moves while it waits:

| Code | Actions |
|---|---|
| `Run`, l. 102-110 | `RunReturns`, `Poll` (with `AvailableCapacity`) |
| `Run`, l. 119-158 | `GetMessage`, `GetMessageNothing`, `DeleteMessage` |
| `handleJobAssigned` + `provisionRunner` | `HandleJobAssigned`, `GenerateJitRunnerConfig`, `ContainerCreate/Start/Inspect` and their failures, `ContainerDiscard` (the removal after a failed start), `RunnerProvisioned` |
| `handleJobStarted` | `HandleJobStarted` |
| `handleJobCompleted` | `HandleJobCompleted`, `Collect` (twice), `Record`, `ContainerStop`, `ContainerRemove`, `RunnerForgotten` |
| `reconcileRunnerCount` | `Reconcile`, `ReconcileRunner`, `ReconcileDone` |
| signal handler of `main` | `CancelContext` |

`msg` is the message in hand less what was done of it; the guards on
`msg.events` give the order assigned, started, completed. `call` holds the locals
of the call in progress and where to go on after it (`ret`). `rec` holds the locals of
`reconcileRunnerCount`. `handled`, the field `started` of a store entry (the job whose start it records) and the
fields `ran` and `timed` of a metrics row (the job that the container ran, and the one from whose
start its duration counts) are history: the code has no such thing, only properties read them.

**A runner name** is `<<profile, jobID>>` for `runner-<profile>-<jobID>`; the two
halves are what the properties tell apart. A name in use is refused by Docker, as the
daemon does, and `<<name, id>>` tells apart containers that had the same name.

**Gateway.** `main` names the call the main goroutine is about to make; the goroutine of
`Run` exists while `pc # "returned"`. A process goes through start-up (runner group, scale set,
session; when that fails with an error whose text contains "409" or "Conflict" the set is
deleted, another created and a second session asked for), set-up, and `serve`. Such an error
is what GitHub answers when a session is open, but it may be any other one that happens to
contain the digits (the fault `conflict`); the code does not tell them apart.
`cmd/all` looks at signals only there: a signal during
start-up waits. It then cancels the context (`Shutdown`), takes its list of containers
(`StoreAll`), stops them one by one on a context of its own (`StopAll`) and closes the session,
while `Run` goes on with whatever it was doing until it sees the cancelled context.
`cmd/listener` cancels the context at once and returns what `Run` returns. `ProcessEnds`
resets what is in memory; `Crash` is that at any point. GitHub's side (`scaleSet`,
`session`), the containers, the undeleted messages and the database stay.

**Proxy.** One record of `conns` per connection. A request is accepted with the address it comes
from, looked up once (`Lookup`), and ends or becomes a tunnel, which two goroutines
copy. `CopyEnds` is one of them returning, with its deferred calls. `src`, `id` and
`logged` are history. Nothing orders `Lookup` and the steps of the scaler.

**Assumptions on GitHub** (from the calls and the comments of the code): jobs are
assigned only while a poll is outstanding and at most as many undelivered ones as the
announced capacity; a message is kept until deleted, across sessions too, and delivered in order after
`lastMessageID`; `TotalAssignedJobs` counts assigned and running jobs; an idle runner
may get any assigned job. Deleting a scale set deletes its messages and ends its runners
and their jobs; a job that waited is queued again. **On Docker:** names are unique, addresses
are distinct while containers run and may be reused after, exec needs a running container.

**Failures.** The constant `Faults` names the failures of an instance: `getmessage`,
`ack`, `jit`, `create`, `start` (without effect), `startlost` (the container runs, but
the answer is lost), `cleanup` (the removal after a failed start), `inspect`, `stop`, `remove`, `metrics`,
`nostats` (a message without statistics),
`canceljob`, `kill` (a container dies under its job), `quit` (a runner ends without a
job), `shutdown`; for the processes `startup` (a call of `main` before the session),
`setup` (image, network or database), `close` (of the session), `conflict` (an error that reads like
a 409) and `crash`. `create` may fail with the container created. A start that fails, in
either way, is followed by the clean-up, a call of its own: a container that was started takes jobs until it
is discarded, and is discarded under them. After cancellation
every call that takes the context fails, a start with or without effect; so the clean-up after
an interrupted start never works at a shutdown, and completed runners are forgotten without being removed.

**Classifier.** The file has an order of profiles, globs per profile and a default. `Load` validates
it, lets the map iteration produce the names in any order, and sorts them. A profile
name is a number, `<` is the order of `sort.Strings`; a glob is the set of names it
matches. `Restart` loads the same file again.

**Adjuster.** One job name and one resource (the two are adjusted by the same rule,
independently). `Provision` is the part of `provisionRunner` that reads the history and
applies `Adjust`; `Record` is what `handleJobCompleted` writes. What it writes is not what the
job used: the CPU figure is the CPU time of the container divided by the time since
`handleJobStarted` saw the job, so that it is too large when the start was handled late (with the
completion, at the extreme) and too small when only the completion was. `Windows` are the proportions of
the time a job works to the time it is measured for, and each row takes any of them (`Recorded`); memory is
a peak and is what it is. Up to `Runners` runs of
the job are in progress at a time. The unit is what the formatters can express, a
hundredth of a CPU or a byte; bounds are whole units, and utilization, factor and
thresholds are fractions, so that all comparisons are exact. `formatCPU` rounds to the
nearest unit (at a tie to either: it depends on the float), `formatMemory` cuts.
`rows` is what `GetHistory` would return, at most `HistoryWindow` rows; the database
itself keeps all of them, but nothing reads the rest. That rows may be filed under the wrong job
name is a matter of `Scaler` (`RecordsOfOwnJob`).

## 3. What is checked

| Run | Instance | Properties |
|---|---|---|
| `no_faults` | 3 jobs, 2 slots, adaptive | `StatisticsAgree`, `CapacityRespected` |
| `jobs` | 2 jobs, 2 slots, adaptive; canceljob, kill, quit, metrics, nostats | `PendingAccurate`, `NoDeficit`, `NoUntrackedContainer`, `CompletedContainerRemoved`, `RecordsTimed`, `NeverKillsRunningJob` |
| `docker` | 2 jobs, 1 slot; jit, create, start, cleanup, stop, remove | `TypeOK`, `StoreMatchesDocker`, `ForgottenCannotWork`, `NoSurplus`, `FollowsLifecycle` |
| `progress` | 2 jobs, 1 slot; getmessage, ack, shutdown; fair | `HandledExactlyOnce`, `EveryJobCompletes`, `ContainersGoAway`, `ShutdownReturns` |
| `gateway` | 2 processes of either command, 2 jobs, 1 slot; startup, setup, close, crash, conflict | `GatewayTypeOK`, `CurrentScaleSet`, `CleanedUp`, `DeletesOnlyAbandoned`, `JobsSurviveRestart` |
| `proxy` | 1 connection, 2 jobs, 2 slots, 2 addresses; fair | `NeverNamesAnother`, `TrackedNotUnknown`, `TunnelCloses` |
| `classifier` | 3 names, 2 overlapping globs, every file | `AnswerConfigured`, `AnswerMatches`, `AnswerStable` |
| `adaptive` | cpu, window 2, both ceilings, 2 runners, 2 loads measured in 3 ways; metrics; fair | `TypeOK`, `WithinBounds`, `SaturatedNeverShrinks`, `Settles` |

* `StatisticsAgree` is the reason why reconciliation is quiet in normal operation:
  when the events of a message are handled, the count in that message *equals* the
  count of the store, in whatever order runners took jobs, although both were
  taken at different times. With cancellations and kills only `NoDeficit` is left.
* `NoSurplus` is the other side of it. When provisioning fails, reconciliation makes up for several jobs
  in one message and goes beyond `max_runners` (`CapacityRespected` fails there after
  a few steps), but never beyond the jobs that are there to run. It does
  not hold when containers work that the scaler does not know of, see below.
* `HandledExactlyOnce` counts the places where an assignment is: not yet in a message, in
  a message, in hand, handled. Their number is always one. It is what makes
  acknowledging *before* handling, and ignoring a failed acknowledgement, harmless, as
  long as the process lives.
* `CompletedContainerRemoved` and `NoUntrackedContainer` hold while the Docker calls
  work, with containers dying in their grace period of 15 s too; the run `inspect`
  shows what a failed call leaves behind.
* `ForgottenCannotWork` is what remains of it when calls fail. Failed clean-ups and lost answers of
  creations leave containers that nobody knows, and `store.Remove` forgets those that could
  be neither stopped nor removed; but none of them can be given a job.
  They keep their names, so that creating them again is refused.
* `RecordsTimed` excludes the zero time and a start of another job under the same name. It does not say
  that the duration is the job's: it counts from the handling of `JobStarted`, which may come late.
* `FollowsLifecycle` is a refinement: the statuses of the store implement
  `RunnerLifecycle`. It would break if an entry were overwritten, if a late event
  revived a completed runner or if a completion overtook its start.
* `NeverKillsRunningJob` matters because runners swap jobs: what the scaler stops is
  the runner named by the completion, never the one it started for that job.
* `DeletesOnlyAbandoned` is about sessions: one that is open when the scale set is deleted was left open by a
  crash or a failed close, never by a graceful end or a failed start-up. When no session is open the deletion came of
  an error that was misread; the scale set is then lost with its running jobs, and `CurrentScaleSet`
  says that the new one is used.
* `CleanedUp` allows one exception, which the run needs: the container whose
  provisioning the cancellation interrupted. It is not in the store when `main` takes its list, and
  `StartRunner` cannot remove it on the cancelled context.
* `JobsSurviveRestart`: the second process has the runner names of the first and gets
  the messages about its containers. A container left over keeps its name, so that creating the
  runner again fails and is tried again later; the completion of the old
  runner finds no entry in the store.
* Both speak of the runners that are named after a job (`OwnRunner`). GitHub assigns a job
  once, so that such a name is told of once; the names `reconcile-0`, `reconcile-1`, ... are given
  anew by every process, and for them neither property holds (see the end of this section).
* `NeverNamesAnother` is about two runners that both run. A container that was
  stopped but not forgotten has an entry with an address that another may have got
  already: then either name may be logged, and the property says that at least the
  named runner is not one that runs elsewhere.
* `SaturatedNeverShrinks` is about a run that was *recorded* with all it had, or with more. It holds when one saturated run alone keeps the average at
  the lower threshold (`HistoryWindow * ScaleDownPct <= 100`), as here and in `config.yaml`.
  The bound is exact: TLC refutes the property with a window of 3 and 34 percent, and accepts 2 and 50.
  With the window of 5 and 30 percent of the design document a saturated run can be followed by a smaller allocation.
* `Settles` has a premise: from some point on the demand stays the same, every run is
  reported, all are measured in the same proportion and, unless the window is 1, runs do not overlap. With a
  window of 2 and two runners all the time TLC finds a cycle: a run with an old, small allocation
  comes in last, the next allocation starts from it, and the climb begins again. What it
  promises is an allocation between the thresholds for the *recorded* figure. When that is a multiple
  of the usage, the allocation climbs to the ceiling; when it is a fraction, the loop may come to rest
  with less than the job could use.
* No passing run has `startlost` while the context lives. With it in the instance of `docker`
  TLC refutes `NoSurplus`, `FollowsLifecycle` and, added to that run, `NeverKillsRunningJob` and
  `RecordsTimed`, but neither `StoreMatchesDocker`, `ForgottenCannotWork`, `PendingAccurate` nor
  `HandledExactlyOnce`; in `progress` it refutes `EveryJobCompletes`, in `gateway` `CleanedUp` and
  `JobsSurviveRestart`. After the cancellation a start may fail
  that way in every run that has `shutdown` or signals.

**Bounds.** The allocations of `Adjuster` are between 4 and 20 units, so that factor 1.5
meets ties, both bounds and several steps between them, and the loads, as they are
recorded, lie below the baseline, between the bounds and above the ceiling. In the scaler, `Jobs` and `RunnerNames` bound the state; `MaxWaiting = 1` lets GitHub hold one undelivered
message (later events wait for the next one, so messages still combine events in
every way). One slot with two jobs makes the second wait for the capacity of the
first; two slots with two jobs let runners swap jobs; three jobs with two slots do
both. In `docker` failed provisionings pile up beyond the slot, and there is an address for each. Elsewhere there is one address per slot or one more, so that addresses are reused. `MaxStarts = 2` is one
process that leaves things behind and one that finds them. One connection is enough for the
proxy, since handlers share nothing but the store. Symmetry of the addresses
is used in runs without liveness properties only; jobs are not symmetric, since their
profiles differ. The message ids and container ids are not
bounded by constraints: each job has a handful of events and there are finitely many jobs.

**Fairness.** `FairSpec` of `Scaler`: the goroutine keeps running (weak fairness of
`ScalerStep`). A poll that finds a message succeeds at last (strong fairness of
`GetMessage`: failures are retried at once by the loop, l. 120-125). GitHub sends what
it has to tell, gives waiting jobs to idle runners (weak), and assigns a queued job
if capacity is announced again and again (strong, since capacity is there only while
a poll is outstanding). A job ends and so does `sleep 15`. Nothing forces a fault.
`ProxyFairSpec`: every goroutine of the proxy runs (dials and round trips have timeouts
or end with their peers); no peer is forced to close. `FairSpec` of `Adjuster`: the job is run again
and again and every run ends. `Gateway` has safety properties only and no fairness.

**Deadlock** is checked except in `progress` and `gateway`, where `Run` or the last process does end for good, and in
`classifier`, where the program ends when it refuses the file.

**Disagreements found.** Each has a run that must find the violation:

| Run | Says | Does |
|---|---|---|
| `attribution` | design:251 "Because the `JobDisplayName` matches the phase-1 history, the adjuster overrides the baseline" | scaler.go:334 files a row under the job the runner was provisioned for, not the one it ran |
| `dead_runner` | scaler.go:181 "CRITICAL: Check Statistics to detect orphaned jobs" | a runner that died without a job counts as active for ever, and its job waits for ever |
| `inspect` | README.md:20 "On job completion, the container is stopped and removed" | runner.go:118 returns and leaves a running container nobody knows |
| `audit` | README.md:239 "Every HTTPS connection from every runner is logged with full attribution" | a connection between the start of the container and `AddRunner` (scaler.go:250) is logged as an unknown runner's |

(`design` is `docs/superpowers/specs/2026-04-06-adaptive-resource-scaling-design.md`.)
Smaller ones, which the modules follow the code in and no run is about:

* README.md:155 "Verify high-cpu jobs always land on high-cpu runners": any idle runner
  of the scale set takes any job (README.md:289 says so too).
* README.md:98 "Profiles are matched in the order they appear": config.go:150 sorts them by name.
* design:107 "Never go below the baseline profile values": adjuster.go:104 applies the
  ceiling last, and a missing `max_cpus` is a ceiling of 0.
* design:110 "If no adjustment needed, return baseline values": adjuster.go:79 keeps the last allocation.
* design:118 "If next 5 runs at 1.5 CPUs still average 85%": the average is over the last
  rows whatever their allocation was, so the next raise may come at the very next run.
* design:154 says that a profile's ceiling overrides the global one: `Adjust` takes the lower.

What the models reach and nothing in the repository speaks of:

When the answer of a start is lost (runner.go:110) the container runs without an entry in the store until
`ContainerRemove` (l. 112) discards it. It may take a job, which is killed then, or end one. Its
events come when the store has no such entry, or the next one of that name: an unknown `r1` does `j2`, the
name is provisioned again for `j1`, and the late completion of `j2` takes the new entry
from idle to completed and stops it. Or the started job still counts in the statistics of a message, and
reconciliation adds a `reconcile-0` that nobody needs and that may hold the last slot for ever.

A job that is cancelled before it runs leaves its runner idle; with one slot the capacity is 0 from then on,
and no other job is assigned (`EveryJobCompletes` fails with `canceljob`).

An error that contains "409" or "Conflict" by chance makes `main` delete a scale set that
nothing is wrong with, and the jobs that an earlier process left running end with it.

A message that was
acknowledged but not handled before a crash strands its jobs until a later message
has statistics; a message whose acknowledgement failed is handled again by the next process, and with
three starts and two slots its late completion stops the container of a new runner
that has the same name. The same happens without a failed acknowledgement to the runners that
reconciliation starts for no known job: with three starts, three jobs and two slots TLC finds a
late `JobCompleted` of an earlier process's `reconcile-0` that stops and forgets the
`reconcile-0` of the present process under its job.

Every property of a passing run has a *mutant*: a definition with a plausible bug
(marked "Mutant" where it stands) with which TLC finds the property violated.

## 4. What is proved

The theorems hold for all values of the constants that satisfy
`ScalerAssumption` (finite sets of jobs and runner names, names for all jobs and
reconciliations, `max_runners` positive, the empty values distinct from the others), and for every
set of faults unless a theorem says otherwise.

| Module | Theorem | Property, and what it assumes |
|---|---|---|
| `ScalerProofs` | `TypeCorrect`, `StoreCorrect` | `TypeOK`, `StoreMatchesDocker` |
| `LifecycleProofs` | `HandledCorrect`, `PendingCorrect` | `HandledExactlyOnce`, `PendingAccurate` |
| | `NeverKills`, `RecordsCorrect` | `NeverKillsRunningJob`, `RecordsTimed`, if `Certain` |
| | `ImplementsLifecycle` | `FollowsLifecycle` (refinement of `RunnerLifecycle`), if `Certain` |
| | `NoContainerLost`, `CompletedRemoved` | `NoUntrackedContainer`, `CompletedContainerRemoved`, if `Dependable` |
| `CountingProofs` | `ForgottenStopped` | `ForgottenCannotWork`, if `Known` |
| | `NeverTooManyRunners` | `NoSurplus`, if `Reliable` |
| | `NothingToReconcile` | `NoDeficit`, if `Provides` |
| | `StatisticsMatch` | `StatisticsAgree`, if `Reliable` and `Provides` and every message has statistics |
| | `NeverOverCapacity` | `CapacityRespected`, if `Dependable` and `Provides` |
| `GatewayProofs` | `GatewayTypes`, `ScaleSetCurrent`, `OnlyAbandonedDeleted` | `GatewayTypeOK`, `CurrentScaleSet`, `DeletesOnlyAbandoned` |
| | `JobsSurvive` | `JobsSurviveRestart`, if `Acknowledged` |
| | `CleanUpComplete` | `CleanedUp`, if `Acknowledged` and `CleansUp` |
| `ProxyProofs` | `AttributionCorrect`, `TrackedCorrect` | `NeverNamesAnother`, `TrackedNotUnknown` |
| `AdjusterProofs` | `TypeCorrect`, `BoundsCorrect` | `TypeOK`, `WithinBounds`, if the ceiling is not below the baseline |
| | `NeverShrinks` | `SaturatedNeverShrinks`, if moreover `HistoryWindow * ScaleDownPct <= 100` and the history can be read |
| `ClassifierProofs` | `ConfiguredCorrect`, `MatchesCorrect`, `StableCorrect` | `AnswerConfigured`, `AnswerMatches`, `AnswerStable` |

The hypotheses exclude faults by name, or relate constants:

* `Certain`: not `startlost`; a container whose start failed does not run.
* `Known`: neither `startlost` nor `inspect`; a container runs only when `StartRunner` says so.
* `Dependable`: none of `create`, `cleanup`, `inspect`, `remove`, `shutdown`, each of which leaves a
  container nobody knows (run `inspect`).
* `Reliable`: `Known`, and no `canceljob`. A container that works unknown may do the job of
  another, and a cancelled job leaves its runner idle. Everything else may fail, the clean-up too.
* `Provides`: none of `jit`, `create`, `start`, `startlost`, `inspect`, `shutdown`, and at least as many
  addresses as jobs, or infinitely many (`EnoughAddresses`; containers are named after jobs, so that none lacks an
  address). A handled job has no runner otherwise. Jobs that
  are cancelled, containers that die, runners that quit and failing removals are allowed.
* `Acknowledged`: no acknowledgement fails and no answer of a start is lost while the context lives
  (neither `ack` nor `startlost`), and no job has the id of a reconciliation.
  The last part is only about names, since job ids are GitHub's.
* `CleansUp`: none of `create`, `cleanup`, `inspect`, and not both of `stop` and `remove`.

With `ack` and with `startlost` among the faults TLC refutes `JobsSurviveRestart` and `CleanedUp`; it refutes `CleanedUp`
with `create`, with `inspect`, with `start` and `cleanup`, and with `stop` and `remove`; the properties
that it refutes without `Certain` are listed in section 3; and it refutes
`SaturatedNeverShrinks` when any one of its three hypotheses is dropped.

**Inductive invariants.** `TypeOK` is inductive by itself. It includes that a call in progress names a
runner and that the announced capacity lies between 0 and `max_runners`, which needs
that the store's count is a natural number (`Counts`). The others are not:

* `StoreInv`. That `RunnerProvisioned` may add an entry depends on the container that was created for it
  still being there several calls later, and that `StopRunner` works on the right
  container depends on `call.id`. While provisioning (`start`, `discard`, `inspect`, `add`) the container
  `<<call.name, call.id>>` exists and the name is not in the store; while completing
  a runner the entry is `<<call.name, call.id>>`. The environment changes no container's
  id and removes none.
* `LineInv` and `LifeInv`. An event is on its way in the outbox, in a message of GitHub or in
  the message in hand; `DeliveryProofs` gives for every event the set of the
  message ids it is in (`AssignedAt`, `StartedAt`, `CompletedAt`) and says for each action whether one set
  gains or loses one id (`RunGains`, `RunLoses`). `LineInv` is about the
  ids: they are unique, and the message in hand is older than all others. `LifeInv` says for every set of faults that
  each event is in at most one place (`Unique`), in the order in which it happened (`InOrder`), that a
  container has one job until it is removed (`RunnerInv`), and that what the
  handlers know of a job is what happened, less what is on its way (`JobInv`). If `Certain`, moreover
  the events name the container that is there (`EventsNamed`), and what the store says of a runner
  is what happened to it, less what is on its way (`StoreLife`). `StoreLife` and `InOrder` together exclude the hazards: a completion
  handled before its start, a start for a runner that is not idle, a completion that reaches a
  container which runs another job.
* `CleanUpInv`. A container the store does not have is being provisioned, the one
  being forgotten is gone, and one that did its job is told of or is being stopped. It
  needs `Dependable`, that none of `create`, `cleanup`, `inspect`, `remove` and `shutdown` is among
  the faults; each of the five leaves containers behind (run `inspect`).
* The counts (`CountingProofs`). Comparing cardinalities step by step needs sets that change by one
  element when an event is handled. `Open(id)` are the jobs that were assigned up to message
  `id` and did not end up to it; `StatsInv` says that the statistics of a message count
  `Open` of its id, and stay right while it waits, because later events have later ids. When the
  events of the message are handled, `Open` of its id is `Outstanding`, the jobs the handlers know of.
  `SurplusInv` bounds the active runners, the one being provisioned and those that `reconcileRunnerCount` still has to
  add by `Outstanding`, and needs `KnownInv`: a container that may end
  is in the store before its `JobCompleted` is handled. `DeficitInv` is the opposite
  inequality; that a creation never meets a name in use or lacks an address is `NamesInv` and
  a pigeonhole argument over the containers that have one. `SlotsInv` says that the jobs on
  their way, the active runners and the call in progress fill at most `max_runners` slots, and
  that the capacity announced before a poll is not more than what is free when the job is assigned.
* `KnownInv` implies `ForgottenCannotWork`. It says the same of a container that has worked and of which a completion is on
  its way, and is inductive because the store forgets a runner only after the completion of its only job was handled.
* `SessionInv` relates `main`, the session and the scale set; a session that is open before
  `main` has asked for one was abandoned.
* `RestartInv`. Across restarts the store is empty, ids of containers and of the handled messages say
  less, and `LineInv` fails, since a process reads the messages that an earlier one left. What remains is in the letters, the
  undelivered messages and what is left of the one in hand: a job is assigned by one
  letter; its own runner is made only after that letter was handled and runs only if its start worked, so the
  runner is going or told of only when no assignment is coming; and while the context lives, the process that handled the assignment finds at most one
  `JobCompleted` of the runner, after which it removes the container. So a late completion
  either finds no entry in the store, or is the runner's own.
* `AccountInv` accounts for each container that can run a job: it is in the store, or in the hands of the scaler
  and then the interrupted one, or on the list of `StopAll`, or an earlier process left it.
  The list and the store hold only containers that were started, so that none of them is
  revived after it was stopped.
* `AddressInv`. A running container has an address no other has; an entry, the call at `add`
  and an accepted connection have the address of their container as long as it
  runs, since a container gets its address once and its name is given on with a new id.

`AdjusterProofs` argues about fractions: `Clamped` gives one between the bounds
(`ClampedInBounds`) and rounding to a unit does not leave bounds that are whole units
(`FormattedInBounds`). It needs only that a row has a natural number in it, so it
holds for lost, late and half-empty rows alike, and for reads of the history that fail
(the fault `history`, which no run uses). Without its hypothesis it is false, see above.

`NeverShrinks` is about a sum of fractions over the window. `Sums` is a recursive function, so
that the proof first shows that its recursion has a solution (`SumsDefined`, by induction on a set of
numbers, `SetInduction`, which follows from the well-foundedness of finite sets). From a saturated first
row on each partial sum is at least 1 (`AddedEnough`), so the factor is never applied downwards.

`ClassifierProofs` shows that a finite set of names has exactly one ascending sequence: each name is put
at the place that its rank gives (existence), and two ascending sequences of the same names cannot differ in a
first place (`SortUnique`). So `SortStrings`, a `CHOOSE`, is determined, the order of the map
iteration drops out, and the first matching profile is a minimum that exists (`Smallest`).

**Only model-checked.** All properties under fairness: `EveryJobCompletes`, `ContainersGoAway`,
`ShutdownReturns`, `TunnelCloses` and `Settles`; liveness is out of the provers' reach. Every
invariant and every action property of a passing run is a theorem.

## 5. What is not modelled

* **The proxy command** starts the proxy with a store that stays empty: every
  connection is an unknown runner's. It has no state.
* **Pure functions of strings**: the parsers of the cgroup files and of sizes, and the
  required-field checks of `validate` that no profile depends on. They are unit-tested, have no
  interleaving, and a model of them would restate them character by character.
* **Start-up of the surroundings**: the image pull, the network and the database are one
  step that may fail; the environment variables and flags are not modelled.
* **Contents**: requests and answers of the proxy, logging, the JIT configuration.
* The store's mutex makes every method atomic and is modelled as such.
  `Run` reads `len(pendingJobs)` without the lock (l. 116), but only its own goroutine
  writes the map.

What could be added: several scale sets on one Docker host.
