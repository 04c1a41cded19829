# Michelangelo in TLA+

Michelangelo is a machine-learning platform: users describe projects, pipelines,
runs, triggers, models, inference servers and deployments as Kubernetes-style
objects; an API server stores them; a controller manager works on them; a
workflow engine (Temporal or Cadence), Ray and Spark clusters and model servers
do the work.

This directory holds TLA+ specifications of the parts of the Go code under
`src/go` that run concurrently and keep state in more than one place, the TLC
configurations that check them on small instances, and TLAPS proofs of what
matters most for every size. Each definition follows the source;
`PROJECT.json` maps every one to its lines.

## 1. The system

```
 users ──► API server (api/handler) ──► etcd ◄── ingester ──► MySQL
              │  Create/Get: MySQL too    ▲        (sync, evict, retain, delete)
              └──────────────────────► MySQL
                                          │ informers (caches that lag)
      ┌──────────────┬────────────────────┼──────────────────┬─────────────────┐
  PipelineRun    TriggerRun          RayCluster          RayJob, SparkJob   Deployment
  controller     controller          controller          controllers        controller
      │ drain        │ drain           │     ▲               │                 │
      ▼              ▼                 ▼     │ assignment    │                 │ model config,
   workflow engine: executions,    scheduler queue ─► loop   │                 │ routes
   schedules (Temporal), crons (Cadence)                     ▼                 ▼
      │ activities of the worker ──► RayCluster, RayJob,  operators on      inference servers
      └────────────────────────────► SparkJob objects     compute clusters  on target clusters
```

All controllers run in one process. Each kind's reconciler handles one object at
a time by name; the object it reads comes from an informer cache that may be
behind etcd; an `Update` names the `resourceVersion` it is based on and fails if
the object was written since, except where the code reads again and retries
(`UpdateStatusWithRetries`). Calls to the workflow engine, MySQL, compute clusters
and model configs have no such check. So the hard behaviour is the same everywhere:
decisions on old reads, several writes per operation with a failure or a restart in
between, and work that must go on from what is persisted.

### Components

| Component | State it keeps | Operations | What is hard | What makes it correct | Here |
|---|---|---|---|---|---|
| API handler (`api/handler`) | none; writes etcd and MySQL | Create, Update, UpdateStatus, Delete, Get, List | two stores, no transaction, several requests at once | a deletion leaves no live row; a recreated object is not taken for the old one | `MetadataSync` |
| Ingester (`components/ingester`) | finalizer and annotations of the object; the row in MySQL | sync, evict immutable objects, delete marked objects, retain or soft-delete others | lagging cache, several calls per operation, crashes between them | the final state is in MySQL before etcd loses it; rows only move forward; terminating objects go | `MetadataSync` |
| Metadata storage (`storage/mysql`) | rows keyed by uid, `delete_time` | Upsert, Delete, lookup by name | upserts compare no version | a deleted row stays deleted | `MetadataSync` |
| Cascade retention and drain (`cascadedelete`) | drain finalizer, drain-counted annotation | RunDrainStep, retained kinds | drain over several reconciles, 24 h timeout | the finalizer goes only with the work over or told to stop, and goes in the end | `Drain`, `PipelineRun`, `TriggerRun`, `MetadataSync` |
| Job queue (`jobs/common/scheduler`) | channel, `dirty`, `processing`, mutex | Add, Get, Done, Length | a mutex held across a blocking send; bookkeeping after the channel operation | bounded queue, no two entries of a key, no key refused for ever, no deadlock | `SchedulerQueue`, `JobQueue` |
| Job scheduler (`jobs/scheduler`) | in memory only | Enqueue, loop: Get, fetch, assign, write, Done | restarts lose the queue; old fetches | an enqueued job is assigned | `SchedulerQueue`, `RayCluster` |
| Compute cluster cache (`jobs/cluster`) | `sync.Map` of registered clusters | add, update (delete then add), delete, range | readers see the gap of an update | – | `RayCluster` |
| Federated client (`jobs/client`) | operator objects on compute clusters | create, delete, status | answers may be lost | no object is created late or left behind | `RayCluster`, `ComputeJob` |
| RayCluster controller (`ray/cluster`) | conditions Enqueued, Scheduled, Launched, Succeeded, Killing, Killed | enqueue, launch, monitor, terminate | writes back whole old statuses; terminates in several reconciles | terminated means killed; nothing created once killing is recorded | `RayCluster` |
| RayJob, SparkJob controllers (`ray/job`, `spark/job`) | state or conditions, Immutable annotation | create, watch, kill | create and kill in turn on old copies; a second write that may be lost | a killed job leaves nothing; an outcome is final | `ComputeJob` |
| Worker activities (`worker/activities`) | none; the task is a workflow's | create, sense, cancel, terminate | at-least-once, a cancel at any time | the task reports what the operator reported | `ComputeJob` (Ray, Spark) |
| PipelineRun controller and actors | status, steps, WorkflowRunId, spec.kill, spec.retryInfo | prepare, start, watch, retry, kill, drain, expire | start before the id is stored; the kill flag cleared in a copy only | started once; SUCCEEDED is true; a run let go of leaves no workflow | `PipelineRun` |
| TriggerRun controller, cron and backfill runners | status, action, ActualTrigger | start, cron edit, pause, resume, kill, watch, drain | spec and status written apart; a kill is three calls | KILLED means disarmed; an end is final; drains and kills end | `TriggerRun` |
| Deployment controller (`components/deployment`) | revisions, stage, conditions, snapshot of clusters | rollout by actors, health gate, rollback, cleanup | dropped write errors; stages that are read from old copies | rolled out means routed; cleanup leaves no rule; every revision gets a verdict | `Deployment` |
| Gateway routing | traffic rules, discovery rule | AddRules, RemoveRules, RuleExists | one call per cluster | – | `Deployment` |
| InferenceServer controller | servers, status | create, watch, delete | – | – | as `Deployment` sees it |
| Condition engine (`base/conditions`) | the conditions of an object | Run: the first unsatisfied actor acts | any error is terminal | – | `PipelineRun`, `Deployment` |
| Workflow clients (`workflowclient`) | executions, schedules and crons under one id | start, query, cancel, reset, list, schedules | answers may be lost; cancelling a closed execution is an error | – | `PipelineRun`, `TriggerRun` (external behaviour) |
| CRD synchronisation (`api/crd`) | CRDs of the cluster | compare schemas, apply | runs once at start | no incompatible schema is applied | not modelled |
| Pipeline, Revision controllers | Ready | single pass | – | – | not modelled |
| Notifications, generators, UI, Python SDK, charts | none of their own | – | – | – | not modelled |

`PROJECT.json` lists the same components with their files and status, and under
"hazards" each hard spot of the code at its line with the properties that would
catch it going wrong.

## 2. The modules

| Module | What it is |
|---|---|
| `MetadataSync` | API handler, ingester, etcd and MySQL for one name |
| `JobQueue` | what the scheduler queue promises: a bounded queue with at most one entry of a key |
| `SchedulerQueue` | the queue of `queue.go` at the grain of mutex and channel, its callers and the scheduling loop |
| `RayCluster` | one RayCluster, its controller, the scheduler, the cluster cache and the compute clusters; the queue is an instance of `JobQueue` |
| `Drain` | what `cascadedelete` promises of any child of a pipeline that is deleted with it |
| `PipelineRun` | one PipelineRun, its controller with the actors and the drain, and the executions of its workflow |
| `TriggerRun` | one TriggerRun, its controller and drain, and its schedule and executions on Temporal or Cadence |
| `ComputeJob` | one SparkJob or RayJob with the task that asked for it, its controller, and its operator |
| `Deployment` | one Deployment, its controller with the actors, and what it writes on the clusters of its inference server |
| `*Proofs` | theorems and proofs of the module they extend (`PipelineRun` has two: `PipelineRunStopProofs` continues `PipelineRunProofs`) |
| `MC*` | what TLC needs to instantiate a module (model values, symmetry) |

`RayCluster` composes controller, scheduler and queue; `SchedulerQueue` is shown to
implement `JobQueue`, so `RayCluster` uses the abstract one. `MetadataSync` sees a
drain as "the drain finalizer goes"; `PipelineRun` and `TriggerRun` have it in detail, and both
implement `Drain`.
`ComputeJob` composes the task of a workflow with the controller and the operator.
Definitions marked "Variant" are plausible mistakes, used to show that each property
can fail. They take no part in `Next`.

### MetadataSync

Both stores address objects by namespace and name, so one name is followed, with
the objects (uids) that have it one after the other. `etcd`, `rows` and `cache` are
the stored object, the MySQL table and the informer's copy. `ver` counts what
writers change; the annotations Deleting, Immutable and the primary key, the
finalizers and the deletionTimestamp are there one by one, because the ingester
branches on them. "Same object as I read" stands for the resourceVersion.

`ing` is the reconcile in progress. Reading the cache and making the first call are
one action; each further call is one more, with the copy that was read in `ing.obj`,
so anything can happen in between, and `Abort` (a failed call, or the end of the
process) may take the place of every later call. A first call that fails has no
effect; it needs no action. The paths of `Reconcile`: `EnsureMetadataStoragePrimaryKey`
and `HandleSync` (handleSync), `HandleImmutable…` (handleImmutableObject: upsert,
drop the finalizer, delete), `HandleDeletionAnnotation…` (soft-delete, delete),
`HandleDeletion` and `HandleCascade…` (terminating objects, by kind). `cli[c]` is an
API request: `CreateLookup`/`CreateInK8s`, `DeleteLookup`/`DeleteMark`/`DeleteRow`.
The other controllers appear as `MarkImmutable`, `EnsureDrainFinalizer` and
`CompleteDrain`; kubectl, GitOps and garbage collection as `DeleteDirectly`.

### SchedulerQueue and JobQueue

A call of `Add` is `AddRefused`, or `AddAdmitted` (the mutex is taken), then `AddSend` or
`AddTimeout`, then `AddMark` (the key enters `dirty`, the mutex is released). `Get`
is `GetReceive` without the mutex and `GetMark` with it. `Enqueue` on its own failure
calls `Length`, which takes the mutex again (`EnqueueFailed`). The loop calls
`Length`, `Get`, assigns, and calls `Done`. `KeyOf` gives the key of a job, which is
namespace, name and generation run together: different jobs can share one.

### RayCluster

`ray` and `cache` are the object and the informer's copy; `remote[k]` the KubeRay
object on compute cluster `k`, healthy or not; `known` the registered clusters the
process knows; `first` the one `sync.Map.Range` happens to meet first; `pending` and
`held` the queue; `ctl` and `sch` the reconcile and the assignment in progress.
`UpdateStatusWithRetries` always writes the latest object, so a write is atomic and
what it writes was decided on the copy; where the code writes back the whole status it
read (`WriteStatus`, cleanup), the model does too. `Restart` loses everything in
memory, `CreateFails` and `CallFails` lose calls or their answers, `Unregister` is the
gap of a cluster's update.

### Drain

`RunDrainStep` knows its child only by what the controller hands it: the finalizer, the
deletionTimestamp, the drain-counted token, and whether the child is over. `Drain` has
these as variables, and the Immutable annotation, with `working` for what the kind has in the workflow engine and
`expired` for the 24 hours. `Work` is everything a controller, the engine and users do: it
ends and begins what is at work as it likes, but nothing begins without the finalizer.
`EnsureDrainFinalizer`, `RequestCancel` and `CompleteDrain` are the writes a controller makes for
its drain, `MarkImmutable` marks a child that is over for the ingester to evict, `Delete` is
garbage collection. These are also the moves that `MetadataSync` gives the controllers, under
guards that are no stricter than these: no child that is immutable or deleted gets the finalizer, none is marked twice or
after its deletion, other than by the write that lets go of it. `MarkKilled`, `Progress` and `ForceKill`
are `Work`, because the driver sees of them only that the child is over. `Child` in
`PipelineRun` and `TriggerRun` instantiates it: the flags are those of the stored object, a
trigger works while something is armed that starts pipelines, and a run while its latest
execution is open. A run may be over for its drain before its status says so: `FoundOver` is
the state with the WorkflowRunId looked up by name.

### PipelineRun

`run` and `cache` are the object and its copy; `ctl.obj` the copy the reconcile works
on; `stale` says which copies are not the latest, so `Update` (which needs the latest
resourceVersion) is refused exactly when it would be. `wf` and `last` are the
executions the engine has under the run's name. `Reconcile` is the entry: lookup of a
lost WorkflowRunId by name (in the copy only), then `DrainEntry` for a deleted run,
the drain finalizer, or the condition engine. The actors: SourcePipeline, ImageBuild
(`prep`), ExecuteWorkflow (`StartWorkflow`, `WatchWorkflow`, `Terminate`,
`CancelWorkflow`, `ManualRetry` and their failures). `Result` and `UpdateStatus` are the end of
every reconcile: the status is stored if it changed. Because a status update does not
write the spec, `UpdateStatus` brings the stored `kill` back. The drain is
`RequestCancel`, `MarkKilled`, `ForceKill` and `CompleteDrain`, in the order of
`RunDrainStep`.

### TriggerRun

`run`, `cache`, `stale` and `ctl` are as in `PipelineRun`; `setup` is the engine of the
installation and the kind of the trigger. A cron trigger is a schedule (`sched`: its cron
expression, and whether it is paused) beside the execution it fired (`exec`) on
Temporal, and one workflow that runs again and again under its id on Cadence; a backfill is
an ordinary workflow on both. `Entry` decides what a reconcile does: drain, mark
immutable, add the finalizer, or step the state machine. A step is `Run`,
`UpdateTrigger` (cron edits, pause, resume), `Watch`/`WatchBackfill`, or a kill, which is
`ListOpen`, `DeleteTrigger` and `TerminateWorkflow`, shared by users and the drain; `why`
says who asked, and so what `Stopped` and `Refused` make of the outcome. `Persist` stores
what the step changed: first the spec (the order taken back), then the status.
`Fire` and `Closes` are the engine; a cron run that gives way to the next while a kill is
under way counts as a fault.

### ComputeJob

`kind` says which engine the job has. `task` is the workflow's side: `CreateJob`, then the sensor,
`Cancelled` at any time while it waits, and for Spark the read and the update of
TerminateSparkJob with an object version of its own; for Ray the cluster is torn down. `ctl` is the
reconcile: `SparkEntry` (watch, create, or delete, mark killed, mark immutable)
and `RayEntry` (wait for the RayCluster, create, watch). `remote` is the SparkApplication or KubeRay's
RayJob, `cluster` and `seen` the RayCluster's state and the informer's copy of it, `kube`
the RayCluster at KubeRay that owns the RayJob. A status write that changes nothing is
no event.

### Deployment

A reconcile (`ctl`) reads its copy, lets one actor act, and stores metadata and status
by `UpdateMetadata` and `UpdateStatus`; `ctl.again` is what it returns. The plugin it runs is a
function of the copy: `ShouldCleanup`, `RolloutInProgress` with `ShouldRollback`,
`TriggerNewRollout`, or `Rest`. The rollout's actors are disjuncts of `ActorRuns` in
their order: placement of the snapshot (`snap`), then cluster by cluster the model
config and the traffic rule, the discovery rule, and the removal of the old model.
`Completes` is the state in which all are satisfied; `Graduated` makes the candidate
current, `RolloutFails` ends the rollout. Both make no transition when the stage is the one
the reconcile read (`Unmoved`): the object then stays in stage VALIDATION with its conditions.
A completion that makes no transition leaves the condition RolloutComplete behind (`done`), after those
of the clusters there were then (`before`). From then on the stage is decided by the conditions
up to it (`ParseStage`): a reconcile whose actor has acted graduates at once if these hold
(`StillComplete`), whatever the clusters that joined since still lack.
`config`, `route` and `disc` are what was written on the clusters, `loaded` what the
sidecar made of it. `torn` records that a reconcile could not store what it did, until a rollout
completes that did not start from a kept RolloutComplete; the
properties that compare the clusters with the status say what holds without it: after a
lost status, a user who changes the revision back makes the next reconcile skip the rollout
(SkipRollout), and what was written on the clusters stays.

## 3. The runs

| Run | What it checks | What it shows |
|---|---|---|
| `sync_retain` | TypeOK, FinalStateRetained, NoStaleOverwrite, TerminatingGoes, WritesReachTheRow, ImmutableIsEvicted | retained and other kinds, deleted in every way, failing MySQL lookups: no state is lost or taken back, and what must happen, happens |
| `sync_api` | DeletedLeavesNoLiveRow, DeletesItsOwnObject | with deletions through the API server only, none leaves a live row or hits a later object |
| `queue` | TypeOK, RefusedWhileInside, IsJobQueue, AddedIsAssigned | the queue implements `JobQueue`, and a full one does not block for good |
| `ray_live` | TypeOK, KillLeavesNothing, NoCreateOnceKilling, TerminatedIsKilled, EnqueuedIsLaunched | launch and termination with failures and restarts |
| `run_safe` | TypeOK, LetGoLeavesNoWorkflow, KilledRunsNothing, StartedOnce, SucceededIsCompleted | kills, a retry, a drain, a crash, a failed lookup and a failed call in any order |
| `run_live` | DrainEnds, KillEnds, OverIsSeen | a drain and a killed run end, the end of a workflow is seen |
| `trigger` | TypeOK, IsDrained, KilledIsDisarmed, EndIsFinal, DrainEnds, KillDisarms | cron and backfill triggers on both engines, with orders of users, a deletion and a fault; a trigger implements `Drain` |
| `jobs` | TypeOK, KilledLeavesNothing, OutcomeIsFinal, VerdictIsReal, JobEnds | Spark and Ray jobs with their task, a cancel at any time, and three faults; jobs the operator finished while the cluster is there reach their task |
| `deploy` | TypeOK, CompletedIsRouted, LetGoLeavesNoRoute, VerdictComes | rollout, rollback and cleanup on two clusters while users, ingester and cache interfere |
| `run_retry` | RetriedRunsOn, violated | section 5, 1 |
| `trigger_killed` | KilledIsStopped, violated | section 5, 2 |
| `deploy_rollback` | RollbackRestores, violated | section 5, 3 |

The other `.cfg` files reproduce the rest of section 5, one property each; `DeployTwoFaults.cfg` is
`deploy` with one cluster and two faults (681,608 states, all properties hold), and `RunDrain.cfg` checks
that a run implements `Drain` in the states of `run_safe`.

### Bounds

- `SyncRetain`: one request at a time, two objects, one write each, and liveness with it. The
  properties relate a row, a cached copy and the stored object of one uid, or an old and a
  new object of the name; every step of the ingester and each annotation is a version of its own, and two
  uids give an old and a new object. `SyncApi`: two requests at once (symmetric), both kinds of kind.
- `Queue`: capacity 2, two reconcilers, four jobs under three keys (j1 and j2 share
  one): the channel is full while one reconciler waits in it and the other, and the
  scheduler, wait for the mutex.
- `RayLive`: one compute cluster, two failures or restarts. A second failure is what
  undoes a recovery from the first. What two compute clusters add (assignment twice) is
  covered for NoCreateOnceKilling by the theorem.
- `RunSafe`: two executions, one fault of each kind (crash, lookup, call), retries
  (2.5 million states). `RunLive` the same without retries. The properties compare the execution a
  copy names with the latest one, and a second execution is what a retry or a lost WorkflowRunId
  makes; the theorems hold for any number of executions and faults.
- `Trigger`: two cron expressions, two orders, one fault (626,807 states): an order in the middle of
  another, or of a drain, or of the recovery from a fault. Two orders can contradict each other; more
  repeat that. The safety theorems hold for any number of the three.
- `Jobs`: three faults (43,977 states): a lost answer, a failed recovery, and a restart in between.
- `Deploy`: two clusters, two models, two writes of others, one fault (1,361,636 states). Two clusters
  make a rollout or a cleanup that is cut short in the middle, two writes a change of the
  desired revision and back, or a change and a deletion. Without rollbacks, a change and back ends in a completion
  that is kept, and the one fault, a change of the clusters it serves in, in a rollout that ends early.
  The safety properties and `IInv` were also checked with two faults on two clusters, with rollbacks (4.9 million
  states) and without (4.7 million).

`CHECK_DEADLOCK FALSE` is stated where the system may rest: a killed cluster, a job or
trigger that is over, a drained run, a deployment that was let go of, or a name whose uids and versions
are used up. `queue` checks for deadlock.

### Fairness

- `MetadataSync`: the informer delivers (WF), the work queue hands an object out
  until its reconcile returns no error (WF on the first calls), every call ends because its
  context expires after 30 s (WF on the next call or `Abort`), and a call that is
  made again and again succeeds at some time (SF on the later calls). A drain
  completes, which is what `run_live` and `trigger` show. Nothing is assumed of users.
- `SchedulerQueue`: Go's mutex goes to whoever waits longest once they starve (SF on
  the steps that take it); a send gives up at its deadline (WF). Nobody is obliged to enqueue.
- `RayCluster`: reconciles that wait or fail are run again and each call returns; the
  informers deliver; the loop runs; Clusters are listed after a restart. Failures are
  bounded, so they stop. No resync period is assumed.
- `PipelineRun`: the work queue hands out what it has, calls return, the informer
  delivers. Nothing is assumed of users, of the length of a workflow, or of the 24 h
  timeout: its `DrainEnds` does not need it.
- `TriggerRun`: the same, and 24 hours pass (WF on DrainTimeout). Here the drain does need its timeout:
  the kill it repeats deletes a schedule that is gone, which Temporal refuses.
- `ComputeJob`: work queue, calls and informers as before, and a sensor asks again (its retry
  policy). Nothing is assumed of operators, so `JobEnds` speaks of jobs they finished.
- `Deployment`: the same, and the sidecar of a model server loads what its config says. Nothing
  is assumed of users or of health.

## 4. The proofs

All from the assumptions the modules name (`SyncAssumption`, `QueueAssumption`, `RayAssumption`,
`RunAssumption`, `TriggerAssumption`, `JobAssumption`, `DeploymentAssumption`): bounds are naturals, the
"no object" values are not objects, and the control plane's cluster is a target of the deployment. No
theorem depends on the values TLC is given.

- **MetadataSync.** `TypeCorrect`. `DeletedStaysDeleted` needs no invariant: an upsert
  keeps `delete_time`. The other facts rest on `StoresInOrder` (row ≤ cache ≤ etcd for
  the object they share; `StoresStayInOrder`), which gives `RowsNeverAhead` and
  `RowsMoveForward`; with `StripIsRecorded` (between the upsert and the Update that drops
  the finalizer no other upsert takes place) it gives `FinalStateIsRetained`: the Update
  succeeds only on the very object that was upserted. `DeletionsInOrder` describes what
  a marked object is waiting for at each step; under `~DirectDelete` it gives `DeletionLeavesNoRow` and
  `DeletionHitsItsObject`. `SyncLiveRow.cfg` shows that the assumption is needed. Without it,
  `CascadeDeletesRow` holds of objects that were deleted around the API server only: `StripIsDeleted` says that the row of
  the object is deleted from the soft-delete to the Update that drops the finalizer.
- **SchedulerQueue.** `NoKeyTwice` needs `Books`: which job each holder of the mutex is
  adding, and that a job in the channel is in `dirty` unless its `Add` has not marked it yet.
  From it follow `NoRefusalForEver` and `QueueRefinement`: `AddSend`, `GetReceive` and
  `LoopDone` are the abstract `Add`, `Take` and `Done`, every other step a stutter.
- **RayCluster.** `OldReadsAreSound`: what a copy says of a termination, etcd records
  (`ReadsCatchUp`). With it, a step that creates an object reads one that is not to be
  terminated, and killing is recorded only where the cache is to be terminated already or
  launched: `NoLateCreate`, for any number of compute clusters and failures. `KillLeavesNothingBehind`: with
  one compute cluster, nothing is left of a killed cluster, whatever failed, if the kill deleted its object. `Deleted` is
  why it stays so: every copy that says so finds nothing left, and none makes a reconcile launch the
  cluster. A kill that took the cluster for one not launched yet leaves nothing before the first failure (`CalmInv`);
  after one it may (`RayEarly.cfg`, section 5). `AssignedOnce`: the cluster has one entry in the scheduler's
  queue, and the scheduler gives it back with the assignment it was taken for. `TerminationIsKept`: a cluster to terminate
  has a next step in etcd and in the cache; its invariant is `KillsPaired` (Killing goes to FALSE with
  Killed only, in every copy that may be written back). `LaunchStays`: the old status that the monitoring writes back was
  read of a launched cluster.
- **PipelineRun.** `SuccessStaysKnown`: executions are numbered as they start, closed ones stay as they are, and
  no copy of the run speaks of a success that was not; so `SuccessIsReal`.
  `CopiesStayInOrder`: copies are earlier than what is stored (`CopiesInOrder`), no workflow without
  finalizer or deletion (`WorkHasFinalizer`), and a lost WorkflowRunId is found by name
  (`FoundAgain`); so `OneStart`. `KilledIsQuiet` needs no answer of the engine but to lookups by name. Its
  invariant `KillsSettled` says that a copy names the execution there is or none; that one which shows the run, or
  its step, as killed found it closed or told to stop; and that none is started after that: the reconcile that
  is about to start one knows of no kill. `Stops` (`PipelineRunStopProofs`) is the invariant behind
  `LetGoLeavesNothing`, while the engine answers and nobody retries: a run that is over
  (finished by state or step, immutable, or drained) has an execution that is closed or told to stop, or
  none. None is the hard case. A reconcile that is about to start the workflow could not store what it
  does, but the start has no version check; `Closed` says that when such a run has no execution, the cache knows
  of the deletion, or the run lacks an image or was never prepared, so no later reconcile starts one, and
  `NoLateStart` that none is under way. `FreshKnows` carries what a reconcile that can store knows, from the
  engine's answer to the status it writes. `RunIsKept` is the safety half of progress: whatever fails, a
  run that is not done with is in the work queue, in a reconcile, or news for the informer. Its invariant is `Kept`: an
  old copy is followed by another reconcile (`OldCopyIsSeen`); copies tell no step without its execution
  (`CopiesTell`, `PreparedFirst`); and a reconcile that can store agrees with etcd in what decides
  whether it asks to be called again (`FreshAgrees`).
- **Drain.** `RunDrains` and `TriggerDrains`: every step of a run, or of a trigger, maps to a step of `Drain` or a
  stutter. What has to be proved is that the calls of a drain act on what is stored, although their copy was
  taken earlier (`DrainInOrder`: what they saw of finalizer, deletion, token and end is so until they store
  something, or their Update is refused), that no immutable child is put under the finalizer (`MarkedLate`,
  `MarkedWhenOver`), and that nothing begins without the finalizer. For a
  trigger the last follows from `FinalizerStays`. For a run it does not: the finalizer may go, by a write of
  one reconcile, while the informer still has a copy from before, and a start or reset of a workflow has no
  version check. `LetGoIsSeen` is the invariant that excludes it: a run that was let go of is looked at again from a
  copy with the finalizer only if that copy says that the run is over, and one that sees neither
  finalizer nor deletion has yet to be prepared. From the refinements, `RunCountedInDrain` and
  `TriggerCountedInDrain` carry an invariant of `Drain` over to both, and `RunLetGoIsOver` and
  `TriggerLetGoIsOver` an action property: whoever takes the finalizer away, or marks the object for
  eviction, finds it over or late. For a trigger that is a terminal state in etcd; for a run it may be what the
  lookup found (`RetainedIsOver`, section 5, asks for more and is violated).
- **TriggerRun.** `TriggerInvariant` is `CopiesAreRuns` (a copy that is not old is what is stored, and a
  reconcile that may still store something works on a trigger that is not over), `FinalizerStays`
  (only a reconcile that saw the deletion takes the finalizer away) and `KillInOrder` (what is known of
  schedule and execution after each call of a kill). The first gives `EndStays`: a status is stored
  only over the very object it was decided on, which was not over. The second gives
  `StartedUnderFinalizer`, the third `KilledWhenDisarmed`. `OrderInv` (a reconcile that can store acts on the order
  that is stored, and reaches the write that takes it back with the order carried out) gives `OrdersAreObeyed`;
  `TriggerIsKept` is as `RunIsKept`.
- **ComputeJob.** `JobInvariant` says what each copy knows of the job and of the operator: a copy that
  is the latest is what is stored; the controller has seen the termination of a job that is killed, so no
  reconcile that could create its application is still under way, and one that is to record the kill has
  deleted it. So `KilledIsGone`, `OutcomeWrittenOnce`
  (whoever writes an outcome, or a termination, read the job without one) and `VerdictOfTheOperator`:
  a success is the operator's whatever fails, and so is a failure that the sensor of a SparkJob reports, since nobody
  terminates the job while it waits.
  `StopStays`: neither the task nor the controller writes an old copy over a termination or a kill. `JobIsKept`
  is as `RunIsKept`, with the difference between the two controllers: a SparkJob rests only when it is
  killed, a RayJob when it was submitted and is over.
- **Deployment.** `DeploymentInvariant` separates what holds of every copy (stages and conditions
  agree, finalizers and deletions come in order) from what a fresh one agrees in with etcd, and then follows
  what was done on the clusters until it is stored: at the copy of a rollout that graduates, every
  cluster of its snapshot is routed to the candidate, and no step between that and the write changes a rule; of a
  rolled-out deployment in etcd this stays so until the next rollout's copy is stored or torn
  (`RolledOutIsRouted`). A rollout that a kept RolloutComplete ends early may route less; `KeptIsTorn` says that with
  rollbacks on there is one only where a reconcile could not store what it did, because a rollout that begins
  from a routed deployment wants another revision than the rules lead to; a cleanup that is to be stored has removed all rules, and what it looked for by name was all
  there was (`NoRouteLeft`).

Each invariant is a conjunction of named parts in the module it is about, or at the head of its proofs.
All were model-checked before they were proved.

Only model-checked: all liveness (TerminatingGoes, WritesReachTheRow, ImmutableIsEvicted,
AddedIsAssigned, TerminatedIsKilled, EnqueuedIsLaunched, DrainEnds, KillEnds, OverIsSeen, KillDisarms,
JobEnds, VerdictComes), which the prover cannot do under fairness, as it has no rule for ENABLED.
No recursive definition is used, because
nothing could be proved about one by induction over data.

Defined and proved, and in no run: OneOfAKey (queue), RowsBehindEtcd, NoResurrection and
CascadeLeavesNoLiveRow (MetadataSync), NotForgotten (PipelineRun, TriggerRun, ComputeJob), OrdersAreCarriedOut
and ArmedUnderFinalizer (TriggerRun), StopIsKept (ComputeJob), TerminationGoesOn, LaunchIsKept and InOneHand (RayCluster).
TLC checked each under the bounds of its module's run before it was proved. EnqueueReturns (queue) was checked and is implied in what it is about by the absence of deadlock.

## 5. Where code and statements disagree

With a run of their own, listed under "findings":

1. `pipelinerun/actors/executeworkflow.go:1197`: a manual retry clears spec.kill in
   memory only; the next reconcile cancels the execution it restarted. `run_retry`.
2. `cascadedelete/drain.go:135`: a trigger deleted while it is being started is drained as one that never
   was; its schedule goes on. `cascade-delete.md:42` says that the drain deletes it. `trigger_killed`.
3. `deployment/plugins/oss/rollback/rollback.go:51`: a rollback removes the model from the config and leaves
   the rule that leads to it; "restores deployment to the previous stable revision" (`:20`). `deploy_rollback`.

With a configuration that reproduces them (`tlc -config X.cfg MC<module>`; each ends in the violation named):

| Configuration | Violated | What happens |
|---|---|---|
| `SyncMarkedStuck` | MarkedGoes | `ingester/controller.go:327`: an object that gets the Deleting annotation before its first sync has no row; the NotFound is returned before the object is deleted, on every attempt. "It deletes the object from metadata storage and from K8s." (`:308`) |
| `SyncLiveRow` | DeletedLeavesNoLiveRow | `ingester/controller.go:213`: an object deleted with kubectl and then through the API server, before the ingester saw it, goes with a live row; the annotation is taken to say that the row was dealt with (`:196`) |
| `RunRetained` | RetainedIsOver | `pipelinerun/controller.go:158`: the state found again by the lookup of the WorkflowRunId is in the copy only, and the drain lets go of the run with an Update, which stores no status: a run deleted while it was being started is retained as RUNNING when its workflow ends before the drain looks. "The finalizer is removed once the run reaches a terminal state" (`cascade-delete.md:42`) |
| `TriggerCron` | ScheduleIsActual | `triggerrun/cron_trigger.go:194`: "Query the actual cron schedule from the workflow engine": what is compared is the copy in the status, so an expression that is edited and edited back while the first edit is not yet stored leaves the schedule with the first |
| `RayEarly` | KilledEarlyNotLaunched | `ray/cluster/controller.go:397`: a cluster is "killed early because it was not yet launched" (`constants.go:50`) although its KubeRay object exists: the create's answer, or the write of Launched, was lost |
| `RayMarked` | MarkedIsTerminated | `ray/cluster/controller.go:217`: the monitoring reconcile writes back the status it read, over a verdict recorded since; "If the cluster has been marked as failed/succeeded, then terminate" (`:251`) |
| `JobAgain` | SucceededIsTerminal | `ray/job/controller.go:95`: the Immutable annotation of a RayJob that is over is set in memory and not stored; when its cluster goes, the next reconcile waits for the cluster and takes the outcome back. "The job completed successfully" |
| `DeployStuck` | DeletedGoes | `deployment/controller.go:188`: "We must retry if update fails so return the error." The error returned is another one, nil: a cleanup whose write conflicts asks for nothing, and no event comes |
| `DeployUnserved` | CompletedIsServed | `rolling_rollout_actor.go:79`: once seen loaded, the condition keeps saying so; a model removed by a rollback and desired again is routed to without being in the config |
| `DeployFailsTwice` | FailureIsTerminal | `deployment/controller.go:274`: a transition is made only if the stage differs from the one read; "the rollout will not continue because we've reached a terminal stage" (`getTerminalStage`) |

Stated and not in a configuration: `BackfillIsWatched` (`TriggerRun`): a backfill loses the id of its
execution when the controller takes the answer of its runner's `Update`, which holds the state only
(`backfill_trigger.go:232`), for its status, and is shown FAILED while it runs; `set-up-triggers.md:345` says it "moves to **SUCCEEDED** when it finishes". `KilledGoes`
(`ComputeJob`): `spark/job/controller.go:328` "Mark the SparkJob immutable so it cannot transition
further once killed"; a crash between the two writes is not repaired.

Seen while modelling and not stated as properties:

- PipelineRun: any error of an actor makes a run FAILED (terminal). A drain then lets go of it while
  its workflow runs; this is why `LetGoLeavesNoWorkflow` speaks of engines that answered.
  A second error leaves the status unchanged, so no event brings the run back before its TTL.
  A run without an image gets a new end time at each reconcile (`imagebuild.go:134`), so each
  status write triggers the next (`ImageMissing`).
- `pipeline_run.proto:128-131` says `retry_info` is cleared automatically; nothing clears it.
  `:137` says that a retry starts when the ids differ; the code asks that they be equal.
- `handler.go:310` and `:546`: a Delete may hit the row of an object created in between, and two
  Creates may both pass the lookup. Nothing in the code or docs rules it out.
- TriggerRun: the order is taken back in the spec before the outcome is in the status, so what comes between
  loses the outcome; a user's kill whose Terminate fails after the schedule is deleted stays RUNNING with an
  error; Cadence shows PAUSED and goes on; an execution fired between list and delete survives a
  kill; a backfill on Temporal cannot be killed, as the kill deletes a schedule it does not have, and
  its drain takes the 24 h timeout (`cascade-delete.md:60`: "drains complete in minutes").
- Jobs: a CreateSparkJob whose answer is lost fails the task while its job runs unobserved; a
  TerminateSparkJob that conflicts may be given up.
- Deployment: CLEAN_UP_FAILED drops the finalizer too; a deployment that never had a current
  revision and has a discovery rule makes the cleanup panic (`cleanup.go:90`), and so does a failed
  cleanup without desired revision. Without a rollback trigger, a change of the desired revision in the
  middle of a rollout graduates the candidate while the rules lead to the desired one; `CompletedIsRouted`
  is about deployments with rollbacks on. A RolloutComplete that was kept (`rollout_completion.go:35`) ends the
  next rollout early when the serving clusters change in it: a cluster that joined is in the snapshot of the
  graduated deployment, and neither loaded nor routed (`StillComplete`). The stages ROLLBACK_IN_PROGRESS and CLEAN_UP_IN_PROGRESS
  are never stored.
- InferenceServer: the finalizer name of `inferenceserver/constants.go:13` is used nowhere, so a deleted server's
  object goes with the ingester's finalizer, whether or not its deletion actors have run; a failed
  removal of its model config is logged only (`plugins/oss/deletion/cleanup.go`).

## 6. What is left out

- Data: specs, labels, messages, metrics, conditions' texts, the content of steps.
- `MetadataSync`: Get and List change nothing; label and annotation tables follow the row
  in one transaction; DeleteCollection is a Delete per object; metadata storage is taken to be enabled.
- `RayCluster`: deletion of a RayCluster object that was not terminated; health checks of
  compute clusters; SparkJobs, which take the same path through the scheduler.
- `PipelineRun`: the Update of ensureOwnerRef, notifications, metrics, sub-steps, a run created again
  under the same name. The engine answers as Temporal does: a start under an open
  execution returns it (Cadence returns an error).
- `TriggerRun`: owner references, notifications, error texts; the interval and batch-rerun runners, which are
  not registered; pauseWorkflow and resumeWorkflow, reached with an empty cron only. The lookup of open
  executions is exact.
- `ComputeJob`: terminations set by users, a RayCluster object that is deleted (its RayJob is FAILED), a
  SparkApplication removed by others, removal of finished RayJobs by KubeRay, a CreateRayJob repeated by
  its retry policy, which creates a second job under a generated name.
- `Deployment`: conditions but those that are remembered (a model seen loaded, a completion that was kept
  and which conditions precede it); one Deployment per server, as what others write in
  the same model config is a failed call; a reconcile reads model config and rules once; clusters
  that left the server's targets keep what was written on them, and rollback and cleanup write the
  config of the control plane's cluster only, as in the code.
- Several replicas of the controller manager at once: leader election is an option that is off by
  default (`cmd/controllermgr/config/base.yaml:4`), so one replica runs, or one is elected.
- CRD synchronisation compares schemas once at start, which is data; Pipeline and Revision controllers reach
  Ready in a single pass with no other actor; notifications are fire and forget.
- The InferenceServer controller (its actors for validation, backend, endpoints, routes, model config and
  health, and for route cleanup and cleanup) is modelled only as far as a deployment sees it: servers that
  load what their config says, and targets that may change.
- Generated code, which is most of the repository's Go (`src/proto-go`: messages, accessors, clients, RPC
  stubs), UI, SDK and charts keep no concurrent state and have nothing to model. The map covers a few percent
  of all lines for that reason; of the controllers, handler, queue and drain listed above it covers
  most of what changes state.

## 7. Plan

Done, in the order of importance: `MetadataSync`, `JobQueue` and `SchedulerQueue`, `RayCluster`,
`PipelineRun`, `TriggerRun`, `ComputeJob`, `Deployment`, each with its safety proved, and `Drain` with its
two refinements.

Left, should the project go on:

1. The InferenceServer controller beside `Deployment`, and two deployments of one server.
2. The RayCluster object in `ComputeJob` as an instance of `RayCluster`.
3. The comparison of CRD schemas, against a reference definition.
