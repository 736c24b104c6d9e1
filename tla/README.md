# Runtara: a verification of its protocols

Runtara runs workflow instances as WebAssembly guests inside an Environment
process, behind a server that compiles workflows, starts them on triggers and
keeps the credentials of the services they call. What an instance, a compiled
version, a trigger event or a connection is worth is in a database, in Valkey
or on disk; tasks and processes come and go. This project models how the tasks
act on that state and checks that together they neither lose what they were
given, nor do it twice, nor overwrite its result. It has four parts, which
share no variables:

* the **lifecycle** of an instance in the Environment;
* the **compilation** of workflow versions, up to an image that can be started;
* the **trigger pipeline**, from a published event to a started instance;
* the **token refresh** of a connection to a rotating OAuth provider.

## 1. Inventory

| Part (under `src/crates`) | State | Operations | Talks to |
|---|---|---|---|
| Instance rows, `runtara-core/src/persistence` | status, termination_reason, sleep_until, finished_at, started_at, recovery_attempts, recovery_marker | register, update status, complete (guarded or not), mark for recovery, set/clear/claim sleep | everybody |
| Signals, same crate | one pending lifecycle signal per instance, custom signals per checkpoint id | insert (overwrites), acknowledge, read | requests, drain, guest |
| Management requests, `runtara-environment/src/handlers.rs`, `http_server.rs` | none of their own | start, resume, stop, send signal, send custom signal | rows, registry, runner |
| Embedded runner, `runner/embedded.rs` | task map: one task per instance id, cancel flag | launch_detached, stop, wait_for_exit, park | rows, guest, monitor |
| Runtime host, `runtime_host.rs`, and Core's `instance_handlers` | none | checkpoint, sleep, events, signal poll and acknowledgement | rows, events, signals |
| Container registry, `container_registry.rs` | one entry per instance id | register (upsert), cleanup (delete) | requests, monitor, heartbeat, drain, boot |
| Container monitor, `handlers.rs` | one background task per launch | wait, check for staleness, settle the row, cleanup | runner, registry, rows |
| Wake scheduler, `wake_scheduler.rs` | none | scan due rows, claim, launch, register | rows, runner, registry |
| Heartbeat monitor, `heartbeat_monitor.rs` | none | fail silent containers, recover orphans | registry, events, rows, runner |
| Recovery policy, `recovery.rs` | none | decide, recover_or_fail | rows, checkpoints |
| Drain, shutdown, boot, `runtime.rs` | drain flag | drain, shutdown, recover_orphaned_containers | all |
| Compilation queue, `runtara-server/src/valkey/compilation_queue.rs` | list, pending set and request hash in Valkey | enqueue, dequeue, complete, recover | compile clients, worker |
| Compilation worker and service, `workers/compilation_worker.rs`, `api/services/compilation.rs` | none | recover, fetch, look up, build, register, record | queue, definitions, compilation rows, Environment's images |
| Workflow definitions and compilation rows, `api/repositories/workflows.rs` | graph per version; status, checksum, image id | edit, invalidate, readiness, record | worker, executions, editors |
| Images, `runtara-environment/src/image_registry.rs`, `http_server.rs` | images table, artifact files | upload, cleanup | worker, starts |
| Trigger stream, `valkey/stream.rs` | stream, pending entries, delivery counts | publish, read, claim, acknowledge | publishers, workers |
| Trigger worker, `workers/trigger_worker.rs`, `execution_engine.rs` | workflows that are starting | process an event, retry, give up | stream, compilation, start request |
| Connections, `runtara-connections/src` | parameters, status and token hash in a row; token cache, locks and recent errors per process | resolve, refresh, persist, authorize | provider, proxy requests |

What is hard here: every part works with several database statements in a row
and no transaction around them, on the same row, as concurrent tasks; the
process may die between any two statements; several runs of one instance may
overlap, while the task map, the registry and the monitor's handle are keyed
by the instance id alone; times (deadline, timeout, heartbeat) race with what
the guest reports. `PROJECT.json` lists the hazards line by line.

What makes the parts correct:

* one guest at a time executes an instance;
* a result, once recorded, stays;
* a suspended instance has a wake, an operator who paused it, or a signal it
  waits for; when its wake is due it is run again;
* a row that says running is running, or is put right;
* a paused instance stays paused;
* an instance that gets nowhere is restarted a bounded number of times, and is
  not given up before;
* a registry entry has somebody who deletes it;
* a version is built once at a time, a request for it does not get stuck, and
  what is reported ready is built from the definition stored now;
* a trigger event is settled in the end and starts its instance at most once;
* a process does not use a one-time refresh token twice, and a token that is
  lost is not hidden.

Other parts of the repository (the rest of the server, SDK, compiler, agents,
object store, other cleanup workers, frontend) are listed in `PROJECT.json`
with the reason they are not modelled.

## 2. Modules

| Module | Models |
|---|---|
| `Persistence` | one row of `instances`, one operator per SQL statement |
| `RecoveryPolicy` | `decide`, `recover_or_fail` |
| `EnvState` | constants, variables, initial state, task map, registry |
| `ManagementRequests` | start, resume, stop, signal and custom-signal requests |
| `GuestRun` | the spawned task, the workflow's calls, the park |
| `ContainerMonitor` | `spawn_container_monitor` |
| `WakeScheduler` | `process_pending_wakes`, `wake_instance` |
| `HeartbeatMonitor` | `check_stale_instances` |
| `DrainRestart` | drain, exit, crash, boot recovery |
| `Lifecycle` | the composition, its fairness and its properties |
| `CrashLoop` | Lifecycle with a count of restarts without a checkpoint |
| `CompilationState` | tables, queue, files; one operator per statement |
| `CompilationWorker` | recovery, `compile_workflow`, failure record, completion |
| `CompilationClients` | executions, edits, compile requests |
| `ImageCleanup` | orphaned directories, stale images |
| `Compilation` | the composition of the four, its fairness and properties |
| `TriggerStream` | the stream with its consumer group, publishers |
| `TriggerWorker` | the worker's loop, the start request it makes |
| `TriggerPipeline` | the composition, its properties and the refinement |
| `TriggerContract` | what is promised about an event (abstract) |
| `TokenRefresh` | resolution, rotation and re-authorization of a connection |
| `MCLifecycle`, `MCCrashLoop`, `MCCompilation`, `MCTriggerPipeline`, `MCTokenRefresh` | instances for TLC |
| `LifecycleProofs`, `GuestProofs`, `CrashLoopProofs` | theorems about `Lifecycle` and `CrashLoop` |
| `CompilationProofs`, `ArtifactProofs` | theorems about `Compilation` |
| `TriggerProofs`, `FiringProofs` | theorems about `TriggerPipeline` |
| `TokenRefreshProofs` | theorems about `TokenRefresh` |

A step is one database statement, one command of Valkey, one file operation,
one call to a provider or one access to shared memory, with the local code
around it. In `Lifecycle`, `pc` says where a client, the wake scheduler, the
heartbeat monitor and the drain are; `guest[r]` and `mon[r]` do so for the r-th run and
its monitor. A run takes the lowest free slot; slots are reused, so there is no
bound on how many runs an instance has, only on how many overlap.

`paused` and `streak` (CrashLoop), `faulted`, `faults`, `launches`, `fired`,
`spender`, `dropped` and `renewed` are history variables.

### What is abstracted

Lifecycle:

* One instance: statements name one instance and instances share nothing else.
* Time: `sleep_until` is none, later or due; `started_at`, the registry entry's
  `started_at` and the newest event are before or after the heartbeat cutoff.
  `HeartbeatElapses` moves all three over the cutoff at once and only when no
  handler is between two statements: two minutes are long for a handler.
* A handled event inserts its `instance_events` row and then writes the
  instance row; the two are one step. (An event alone is `GuestHeartbeat`.)
* `register_instance`, `store_instance_input` and the image association of a
  start are one step; so are the start's last statement, which sets running,
  and the spawning of the monitor.
* The monitor's status read and its guarded write are one step: the guard makes
  the read redundant.
* `update_instance_checkpoint`, stderr, metrics, error texts: not told apart by
  any property. `container_cancellations` rows: the embedded runner does not
  read them.
* The checkpoints table is its number of rows. With `MaxCheckpoints = 0` the
  workflow of that run saves none.
* Custom signals: `custom` says that the signal of the wait the workflow has
  got to is stored. The read is not destructive; a workflow that goes on after
  it is at its next wait.

Compilation:

* A definition is its checksum; some definitions do not compile. Child
  workflows, event tracking, compiler modes, progress, dependency rows and
  analytics are left out. Versions share the queue, the worker and the cleanup.
* An image id that nobody refers to stands for a fresh uuid.
* An image is stale for the cleanup when no task is using it: three days do not
  pass between two statements of a task.
* One server process with its embedded Environment, which crashes as a whole.
  A statement that fails (`StepFails`) is an error of the database or of the
  Environment in one of the steps of a build.

Triggers:

* An event is named by its instance id, and all events are for one workflow;
  those in `Triggered` have a trigger.
* A batch is everything that is there, in any order for claimed entries.
* Whether the workflow is compiled, and whether a launched instance is still
  running, may be either at every look: that is the business of the other two
  parts. For the same reason a start request that finds its instance with an
  image may be told that it is the same image (a replay) or another one (the
  workflow was built again meanwhile, and the request fails).
* A delivery count stops at `MaxRetries`, the value it is compared with, but
  not before 1 (`CountCap`): a `max_retries` of 0 gives an event up on its
  first delivery, as 1 does.
* `store_instance_input`, the registry entry and the running mark are one step
  with the statement before them; `Lifecycle` takes them apart.

Tokens:

* An access and a refresh token issued together are one number. The provider
  issues a new pair on each refresh and accepts only its latest refresh token.
* An access token expires when every resolution that read older parameters is
  over: resolutions take seconds, tokens live for an hour.
* Taking the lock and looking at the cache again are one step, since a task
  that waits for the lock has no other effect.
* A request may be dropped wherever it waits (`Dropped`; the handlers that
  resolve credentials await in the future of the HTTP request). Dropped after
  the UPDATE it is not told apart from one that is done. A callback that is
  dropped is one whose write fails.

### Not modelled

Of the lifecycle: database errors (a crash between two statements is); several Environments on
one database; PIDs and the branches for them, which the embedded runner never
takes; the artifact shape without lifecycle-invoke; checkpoint contents and
replay; the cleanup of run directories and old rows. In the other parts a
statement may fail where `Hazards` names it.

Of the compilation: errors of Valkey itself, and two servers on one Valkey, of
which the start of one queues again what the other is building. Of the
triggers: trimming of the stream (`stream.rs:148`: a trimmed entry that was
pending is seen by nobody), a consumer group that is created again after a
loss of Valkey, events that do not parse, the cron scheduler. Of the
connections: edits and deletions (`facade.rs:460`: the tokens are merged into
parameters read before the refresh, so an edit made meanwhile is reverted),
revocation, providers that keep their refresh token, client credentials,
rate limits.

Most of the repository's lines are a compiler to WebAssembly, an expression
language, adapters to third-party services and a report engine: large pure
functions and data handling, for which a model with a small state space would
either be the code again or say nothing. They are out of scope.

## 3. Runs

`Hazards` chooses what may go wrong, `Commands` what clients ask for. Each run
of the lifecycle chooses the ones its question is about, since all of them together are out of
TLC's reach. One client is enough where the races are between a request and
the background tasks; `wakes` has two, for the race of two starts. With two
slots a run may overlap its successor; with one, a launch waits until the run
before it and its monitor have ended.

Passing:

| Run | Question | States |
|---|---|---|
| `wakes` | two starts, parks, wakes, traps, load errors, drain, crash; overlapping runs: `TypeOK`, `OneGuest`, `CompletedIsFinal` | 1.1 M |
| `pauses` | pause, unpause, cancel, breakpoints, trap, crash; overlapping runs: `PauseHolds` | 1.6 M |
| `no_strand` | pause, stop, failed launches, timeout, orphan scan: `NeverStranded` | 2.3 M |
| `due` | crash, failed launches, drain, custom signals, retries: `DueIsWoken` | 0.5 M |
| `zombies` | crash, silence, resume, failed launches, automatic recovery off: `RegistryOwned`, `ZombieIsRepaired` | 0.5 M |
| `crash_loop` | crash, failed launches, the orphan scan and guests that save between its count and its mark, two restarts allowed: `RestartsBounded`, `GivenUpAfterCap` | 1.2 M |
| `compile` | executions, edits, compile requests, cleanup, failing statements, crash: `TypeOK`, `BuiltOneAtATime`, `PendingIsQueued`, `SettledReadyIsCurrent`, `RequestSettles` | 0.45 M |
| `triggers` | two events, two workers, redelivery, lost answers, crash: `TypeOK`, `LaunchedOnce`, `FiredOnce`, `KeepsContract` | 0.7 M |
| `tokens` | two tasks in one process and one in another, expiry, lost answers, dropped requests, database errors, crash, re-authorization: `TypeOK`, `LockIsOwned`, `NoSelfInvalidation`, `LossShows` | 2.6 M |

The bounds: two overlapping runs are the smallest number at which an old run
can disturb a new one, and every overlap of the code is between a run and its
successor. Two automatic restarts and two checkpoints let the counter rise,
reset and rise again. The other runs of the lifecycle need one of each.

`compile` has one version, two definitions of which one does not compile, two
images and one client: the races are between the tasks of one version, and a
client may begin its next request while the worker is busy with the last. The
second version that would make the queue longer than one is left to the proofs.
`triggers` has two workers, the least at which a redelivery meets the first
delivery, one event with a single-instance trigger and one without, two
deliveries and one fault (`MaxFaults`). `tokens` has three pairs of tokens
(`MaxTokens`), so that a refresh can follow on a refresh.

The passing runs leave out the combinations in which the code is known to break
the property: `CompletedIsFinal` allows for a start request still in flight,
`wakes` has no resume requests and no custom signals, `no_strand` has neither
crash nor drain nor load errors. `SettledReadyIsCurrent` is stated until the
first fault, `FiredOnce` and `NoSelfInvalidation` without faults, and
`LossShows` until a re-authorization and for pairs whose request was not
dropped between caching and storing them. `RestartsBounded` is checked without
retries; since `crash_loop` has the orphan scan, it allows for one restart more
than the cap, and TLC finds behaviours that use it. Without the scan the bound
is the cap itself: that case is left to the theorem `CrashLoopsEnd`.
What happens in the cases left out is told below.
Deadlock is checked where a crash is always possible; the runs without one may
end with the instance.

### Where the code and its documents disagree

Each of these runs checks one statement of a comment or document of the
repository, and TLC finds a behaviour of the code against it. `PROJECT.json`
quotes the lines.

| Run | Behaviour |
|---|---|
| `dup_signal` | a custom signal re-arms a row already claimed but not yet running; it is claimed again and two guests run |
| `old_monitor` | after a resume the old run's monitor passes `detect_stale_monitor` (the handle id is the same for every run) and fails the new run |
| `reconnect` | after a re-authorization the rotation guard holds the hash of the old token, so the next rotated refresh token is stored nowhere |

### Observations

Behaviours of the models that follow from the code and that no run of the
project is about; each is a short sequence of actions.

Lifecycle:

* `handlers.rs:763`: a guest that completes before its start request sets
  running is turned back into running; its monitor then fails it as crashed.
* `heartbeat_monitor.rs:420`: a wake does not renew `started_at`, and the guest
  runs before `wake_instance` registers it; in between the orphan scan takes it
  for an orphan and recovers it while it runs.
* `heartbeat_monitor.rs:262`: an instance that slept longer than the heartbeat
  timeout is stale as soon as its relaunch is registered, because the query
  looks at the age of the last event and not at that of the container.
* `heartbeat_monitor.rs:5` counts checkpoints among the signs of life;
  saving one inserts no event, so the scan does not see it.
* `embedded.rs:619`: a component that does not load after the claim leaves the
  row suspended without a wake; the monitor takes that for a normal end.
* `signal.rs:130`, `embedded.rs:271`: suspending and stamping the wake are two
  statements; a drain that finds the row suspended in between ends the process
  and nobody wakes the instance after the restart.
* `handlers.rs:651`: a crash between reserving an id and launching leaves a
  pending row that no scan looks at and every retry takes for a success; a
  redelivered trigger event is acknowledged as a replay
  (`trigger_worker.rs:32`) although nothing was launched.
* `wake_scheduler.rs:232`: the claim clears `sleep_until`; a crash before the
  launch leaves a suspended row without a wake and without a registry entry,
  against `runtara-core/src/lib.rs:78`.
* `http_server.rs:1440`: a custom signal that arrives between the guest's poll
  and its park finds a running row and stamps nothing; a park without a
  deadline then stays, against the comment at `http_server.rs:1422`.
* `recovery.rs:127`: retry records are rows of `checkpoints`, so a step that
  only fails and retries counts as progress and resets the crash-loop counter,
  against the comment at `recovery.rs:20`.
* `embedded.rs:541`: the running mark of a wake keeps `termination_reason`, and
  so does a pause acknowledged later: an instance that once waited for a signal
  and is now paused still reads `waiting_signal`, and a custom signal resumes
  it, against the comment at `embedded.rs:202`.
* `embedded.rs:541`: the running mark of a wake keeps `finished_at`, against
  the invariant stated at `persistence/common/ops/instances.rs:98`.
* `handlers.rs:1096`: a resume that races a wake launches a second guest, and
  its `clear_instance_sleep` may remove the wake of the other run's park. The
  other way round, a park overtaken by a resume stamps its wake on the row of
  the resumed run, which may be paused by then (`embedded.rs:294`).
* The comment at `runtime.rs:842` says an orphan is marked as crashed; the code
  recovers it. The drain's shutdown signal replaces a pending cancel.

Compilation:

* `compilation.rs:652`: recording a success keeps the image id of the build
  before it. Until the new image is registered the version is ready with the
  old artifact, and for good if the process dies or the upload fails in
  between and the next execution comes before the failure is recorded.
* `compilation_worker.rs:321`: a failure is stamped with the checksum of the
  definition stored at that moment; after an edit during the build, that is a
  definition nobody has tried, and its executions fail without a build. An
  error of the Environment during registration is recorded the same way.
* `compilation_queue.rs:276`: a request between SREM and HDEL loses its payload
  and so its force flag; so does a forced request for a version being built.
* `image_cleanup_worker.rs:251`: an artifact registered between the scan of the
  directories and the query is removed under its row. An execution then forgets
  the row and forces a build; when the flag of that request is lost as above,
  the next one adopts the images row without looking for the file, and the
  version is reported ready with nothing to run. With bad timing this repeats.

Triggers:

* `execution_engine.rs:929`: the mark that a workflow is starting outlives a
  start that was not compiled by a second; another event of a single-instance
  trigger is skipped and acknowledged meanwhile, and nothing runs.
* `trigger_worker.rs:446`: the event is given up on the delivery number
  `max_retries`, one fewer retry than the comment at `trigger_worker.rs:61`.
* `handlers.rs:687`: a crash before the image association makes the redelivery
  a permanent failure.
* `trigger_worker.rs:362`: a crash between `trigger.fired` and the
  acknowledgement, or an acknowledgement that fails, makes the redelivery emit
  again where it is skipped (its own instance is running) or fails, or where
  the workflow was built again meanwhile (`handlers.rs:446`); only a replay is
  silent.
* A suspended instance does not count for `single_instance`.

Tokens:

* A refresh that is under way while the user authorizes again overwrites the
  new tokens as long as the hash is NULL.
* `facade.rs:424`: the status flip has no guard; a refused old token marks a
  connection that has just been authorized again.
* Two processes that refresh at once (a rolling deployment) present the same
  token, and one of them is refused; the lock is per process.
* `facade.rs:380`: a request that is dropped after `cache_token`
  (`token_cache.rs:252`) and before the UPDATE leaves the new access token in
  the cache and the dead refresh token in the row. Nothing shows until the
  access token expires or the process restarts; then the connection is lost.
  The fail-closed branch (`facade.rs:502`) covers the UPDATE that fails, not
  the one that is never made.
* `token_cache.rs:461`: an access token that lives no longer than the margin is
  never fresh, and the double check under the lock never finds it.

### Fairness

`FairSpec` assumes weak fairness of every task of the process: a request that
has begun, host calls, the cancel watchdog, monitors, wake scheduler, heartbeat
monitor, boot (a supervisor restarts the process), and of time. They are tokio
tasks in loops with bounded sleeps. Strong fairness is assumed of two things:
of `WakeLaunch`, since a launch that is tried on every poll succeeds in the end
(a launch error is transient), and of `HeartbeatElapses`, since time passes
also for a workflow that keeps writing. Nothing is assumed of clients, of what
the workflow does, of the drain, or of faults. The liveness properties about
restarts ask only that the process stays up from some time on.

For the compilation weak fairness is assumed of the worker's loop, of the
periodic cleanup, of a request that has begun and of the restart; for the
triggers of the workers' loops and of an unacknowledged entry growing idle.
Nobody has to begin a request or publish an event, no workflow has to become
ready, and no fault has to happen. That an event is settled needs no more:
the retries are counted. The token refresh has safety properties only.

## 4. Proofs

All theorems hold for every value of the constants that the one named `ASSUME`
of each part allows (types of the constants; at least one restart, one
token).

Where a property needs more than that, the hypothesis is named and part of the
theorem's statement.

Lifecycle, for every set of clients and slots and, but for the named
hypotheses, of commands and hazards:

* `TypeCorrect`: `Spec => []TypeOK`. Inductive as it stands. One lemma per
  actor; `RecoveredRow` is the interesting one: the test in `decide` keeps
  `recovery_attempts` within the cap.
* `EntriesAreOwned`: `Spec => []RegistryOwned`. Not inductive: a launcher that
  registers its run must hold the run's handle, or the monitor it spawns would
  be nobody's. The invariant is `RegistryOwned /\ HandlesHeld` with `TypeOK`.
* `GuestsRunAlone`: `OneLauncher /\ Spec /\ []OrphansAreZombies => []OneGuest`.
  The invariant is `Alone`. A run is busy as long as it may execute, suspend
  the row or stamp its wake; one that only has its suspended event or its exit
  left is not, and may overlap its successor (the code allows that). At most
  one run is busy; the wake scheduler is between scan and launch only when none
  is; and, what ties the two together, a row with a busy run, or one whose wake
  has been claimed, has no wake time. A drain breaks the last of these, since
  it stamps a wake while the guest still runs, but it has turned the scan off
  before; so it is stated while nothing drains. For the first launch
  `Unlaunched` says that until then there is nothing but start requests.
* `CompletedStays`: with `NoStop`, `=> CompletedIsFinal`. `Alone` and: a
  completed row has no busy run and no wake on its way. All other writers are
  guarded by `status = 'running'`, or leave a settled row alone.
* `PauseIsKept`: with `NoDrain`, `=> PauseHolds`. `Alone` and: a paused row has
  no wake time, no busy run and no wake on its way.
* `NobodyIsStranded`: with `NoDrain` and `NoLoss`, `=> []NeverStranded`. A row
  suspended for a reason that calls for a wake, without one, has a run that is
  about to start or to stamp its deadline, or the wake scheduler between claim
  and launch or restore. It needs `PauseEnds`: the suspended event of a paused
  run may find the row running only because the start request has just set it
  so, and then the reason of an earlier sleep is gone.

  The hypotheses are those under which the code has the properties. TLC finds
  a counterexample, with at most two clients and two slots, to each of the four
  properties with resume requests, with custom signals and with a heartbeat
  monitor that recovers a run it takes for an orphan (`OneLauncher`,
  `OrphansAreZombies`); to `CompletedIsFinal` with stop requests; to
  `PauseHolds` with a drain; to `NeverStranded` with a crash, a drain or a load
  error. `dup_signal` and the observations of section 3 tell what happens.
  `OrphansAreZombies` is about behaviours, not constants: time passes and the
  heartbeat monitor works, fails silent containers and recovers rows, provided
  that at the moment of recovery the row says running and nobody runs it.
* `CrashLoopsEnd`: `LoopSpec => []RestartsBounded`, where steps are not
  retried (the hypothesis `RowsAreProgress`; the observation about
  `recovery.rs:127` shows that it is needed). `LoopInv` ties the two columns the code has to the history: while
  the marker equals the number of rows, attempts counts the streak; while it
  lags, the streak is new; a scan under way holds a count between the marker
  and the table. The scan's stale count costs one restart (`Slack`), and only
  where time passes.
* `NoInstanceGivenUpEarly`: `LoopSpec => GivenUpAfterCap`, retries or not, from
  the lower half of the same invariant.

Compilation, for any number of versions, definitions, images and clients:

* `TypeCorrect`: `Spec => []TypeOK`, one lemma per actor. It says more than
  types where an image id is about to be used: `Fresh` implies an image.
* `BuildsAreExclusive` and `NoRequestIsForgotten`: `BuiltOneAtATime` and
  `PendingIsQueued`. The invariant adds that what is queued or built is
  pending, and what the recovery holds at each of its steps: after SMEMBERS the
  orphans are pending, after LRANGE they are not in the queue and nothing can
  put them there, since a request for a pending version is deduplicated. That
  the set is read before the list is what makes it go through.

* `RecordsMatch` and `ReadyIsCurrent`: `SettledReadyIsCurrent`. The invariant
  (`RecordedInv`, until the first fault) has nothing about definitions: it says
  that a checksum next to an image id (in a compilation row, in an image's
  metadata, in the worker's hands) is that of the artifact in the id's
  directory, or the directory is gone. A row is exempt while its own build
  registers the new image, an image between the write of its file and that of
  its row. That an artifact is not overwritten under a row of another version
  needs `IdsApart`: an id is used by one version. `Fresh` compares the checksum
  with the definition stored now, which gives the property.

Triggers, for any number of events, workers, deliveries and faults:

* `LaunchesOnce`: `LaunchedOnce`. The insert of the row decides who owns an
  event: at most one worker is between insert and launch, and a launch moves
  the instance on.
* `PipelineRefinesContract`: `Spec => Contract!Spec`, by the mapping of
  `TriggerPipeline`: published and unacknowledged is open, the acknowledgement
  settles, a row is a taken id. A worker at the acknowledgement must still know
  why: a started event has been launched, a replayed one has its id taken.
  That events are settled (`Contract!FairSpec`) is left to TLC.
* `DeliveredToOne` and `FiresOnce`: `FiredOnce`. Until the first fault
  (`OneDelivery`) an entry is in the backlog or in one batch, once, and an entry
  in a batch is pending and not idle, so that no other worker claims it; then
  its worker finds the instance id free, and has emitted `trigger.fired`
  exactly when it is about to acknowledge. About sequences this takes only that
  the tail of one without repetitions has none.

Tokens, for any number of tasks, processes and tokens:

* `TypeCorrect` and `LockOwned` are inductive with one fact about the tokens in
  hand, through every failure, dropped request and crash.
* `LossIsShown` and `NoneInvalidatesItself` need the shape of a rotation. Until
  a user authorizes again (`Rotation`), only the latest access token can be
  fresh, at most one task has tokens to store, and the latest token is cached
  only where it is stored, about to be, or left behind by a dropped request
  (`dropped`, the exception `LossShows` makes). Without faults (`Orderly`) nothing is
  lost, and a task that works with an older token is one behind, with a fresh
  token in its process's cache that the double check will find.

Every safety property that a passing run checks is thereby proved, for
`KeepsContract` the part without fairness. TLC checked each inductive invariant
on small instances before it was proved.

Checked by TLC only: the liveness properties `DueIsWoken`, `ZombieIsRepaired`
and `RequestSettles`, and that the trigger pipeline settles every event; their
proofs would reason about fairness and ENABLED, which TLAPS does not do.
`OldMonitorIsHarmless` and `RotationIsStored` do not hold (section 3).
`no_strand` includes orphans recovered while a run is alive, on one slot, which
`NobodyIsStranded` leaves out.

## 5. Plan

1. Proofs: `RegistryOwned`'s converse where the code has it (a run that
   executes is registered once its launcher is done, unless an old monitor
   deleted the entry); one guest at a time with resume requests that are made
   of an instance at rest.
2. A checkpoint module: durable steps, replay and retry as a refinement of
   "every durable step takes effect once". Saga compensation has no caller in
   the repository yet.
3. Two processes on one database and one Valkey: claim, heartbeat scan and boot
   recovery against each other's live runs, `recover_orphaned` against the
   other's builds.
4. Channel sessions: the lookup and the insert of a session
   (`channels/session.rs:308`, `:380`), messages left over when it ends.
5. Edits and deletion of connections; rate limits; the signal mailbox.
