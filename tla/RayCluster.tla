----------------------------- MODULE RayCluster -----------------------------
(***************************************************************************)
(* One RayCluster from its creation to its cleanup: the controller that    *)
(* enqueues, dispatches, monitors and terminates it, the job scheduler     *)
(* that assigns it to a compute cluster, the cache of registered compute   *)
(* clusters both consult, and the KubeRay objects on those clusters.       *)
(*                                                                         *)
(* The controller and the scheduler read the object from the manager's     *)
(* informer cache and write its status with UpdateStatusWithRetries, which *)
(* reads again until its write is of the latest object: a write is atomic, *)
(* what it was decided on may be old.  So a reconcile's read and its first *)
(* call are one action here, on a cache that lags; its later calls are     *)
(* actions of their own.                                                   *)
(***************************************************************************)
EXTENDS Naturals, Sequences

CONSTANTS
    Ray,           \* the cluster's entry in the scheduler's queue
    KubeClusters,  \* compute clusters
    NoKube,        \* not assigned
    NoStatus,
    MaxFaults      \* bound: failed calls, restarts and lost registrations

Conditions == {"unknown", "true", "false"}

\* term is spec.termination.type; the rest is the status: the conditions
\* Enqueued, Scheduled, Launched, Succeeded, Killing and Killed, the assigned
\* cluster, and whether Killed's reason is KilledMessageJobNotLaunched.  The
\* Scheduled condition is only ever compared with TRUE.
Status == [term : {"none", "succeeded", "failed"},
           enqueued : BOOLEAN, scheduled : BOOLEAN, kube : KubeClusters \cup {NoKube},
           launched : BOOLEAN, succeeded : Conditions, killing : Conditions,
           killed : BOOLEAN, early : BOOLEAN]

ASSUME RayAssumption ==
    /\ NoKube \notin KubeClusters
    /\ NoStatus \notin Status
    /\ MaxFaults \in Nat

VARIABLES
    ray,      \* the RayCluster in etcd
    cache,    \* the manager's informer cache of it
    remote,   \* the KubeRay object on each compute cluster
    known,    \* compute clusters in RegisteredClustersCache
    first,    \* the one its Range meets first, if it is in
    pending,  \* the scheduler's queue
    held,
    ctl,      \* the reconcile in progress: its next call
    sch,      \* the scheduler's assignment in progress
    faults    \* failures so far

vars == <<ray, cache, remote, known, first, pending, held, ctl, sch, faults>>

Queue == INSTANCE JobQueue
    WITH Jobs <- {Ray}, Keys <- {Ray}, KeyOf <- [j \in {Ray} |-> j], Capacity <- 1

Reconcile == [pc : {"idle", "enqueue", "markLaunched", "markFailed", "kill", "markKilled"},
              obj : {NoStatus}]
    \cup [pc : {"writeStatus", "cleanup"}, obj : Status]

Assignment == [pc : {"idle", "skip", "refuse"}, kube : {NoKube}]
    \cup [pc : {"assign"}, kube : KubeClusters]

TypeOK ==
    /\ ray \in Status /\ cache \in Status
    /\ remote \in [KubeClusters -> {"none", "up", "bad"}]
    /\ known \subseteq KubeClusters
    /\ first \in KubeClusters
    /\ pending \in {<<>>, <<Ray>>}
    /\ held \subseteq {Ray}
    /\ ctl \in Reconcile
    /\ sch \in Assignment
    /\ faults \in 0..MaxFaults

NewStatus ==
    [term |-> "none", enqueued |-> FALSE, scheduled |-> FALSE, kube |-> NoKube,
     launched |-> FALSE, succeeded |-> "unknown", killing |-> "unknown",
     killed |-> FALSE, early |-> FALSE]

Idle == [pc |-> "idle", obj |-> NoStatus]
NoAssignment == [pc |-> "idle", kube |-> NoKube]

Init ==
    /\ ray = NewStatus
    /\ cache = ray
    /\ remote = [k \in KubeClusters |-> "none"]
    /\ known = {}
    /\ first \in KubeClusters
    /\ Queue!Init
    /\ ctl = Idle
    /\ sch = NoAssignment
    /\ faults = 0

queue == <<pending, held>>
clusters == <<known, first>>

Fault == faults < MaxFaults /\ faults' = faults + 1

-----------------------------------------------------------------------------
(* What a reconcile finds in the object it read.                           *)

\* Variant: an object that was killed is taken for one to run.
ShouldTerminateOnce(o) == (o.term # "none" \/ o.succeeded # "unknown") /\ ~o.killed

ShouldTerminate(o) == o.term # "none" \/ o.succeeded # "unknown"

\* getClusterIfScheduled
Assigned(o) == o.scheduled /\ o.kube \in known

NeedsKill(o) == o.killing = "unknown" /\ ~o.killed

At(pc) == ctl.pc = pc
Call(pc) == ctl' = [pc |-> pc, obj |-> NoStatus]

-----------------------------------------------------------------------------
(* Reconcile of a cluster to run: enqueueIfRequired, the launch and the    *)
(* monitoring.                                                             *)

Running == At("idle") /\ ~ShouldTerminate(cache)

\* The status is written before the job is enqueued.
MarkEnqueued ==
    /\ Running /\ ~cache.enqueued
    /\ ray' = [ray EXCEPT !.enqueued = TRUE]
    /\ Call("enqueue")
    /\ UNCHANGED <<cache, remote, clusters, queue, sch, faults>>

\* Variant: the condition alone decides, so a restart loses the job.
EnqueueOnce ==
    /\ At("enqueue")
    /\ Queue!Add(Ray) \/ (Queue!Known(Ray) /\ UNCHANGED queue)
    /\ ctl' = Idle
    /\ UNCHANGED <<ray, cache, remote, clusters, sch, faults>>

\* Variant: a job that is in already is put in again.
EnqueueAgain ==
    /\ At("enqueue") \/ (Running /\ cache.enqueued /\ ~cache.scheduled)
    /\ pending' = Append(pending, Ray)
    /\ ctl' = Idle
    /\ UNCHANGED <<ray, cache, remote, clusters, held, sch, faults>>

\* A cluster not scheduled is enqueued at every reconcile, for the queue is
\* empty after a restart.  A job that is in already is no error.
Enqueue ==
    /\ At("enqueue") \/ (Running /\ cache.enqueued /\ ~cache.scheduled)
    /\ Queue!Add(Ray) \/ (At("enqueue") /\ Queue!Known(Ray) /\ UNCHANGED queue)
    /\ ctl' = Idle
    /\ UNCHANGED <<ray, cache, remote, clusters, sch, faults>>

Dispatching == Running /\ cache.enqueued /\ Assigned(cache)

\* An object that exists already counts as created.
CreateJobCluster ==
    /\ Dispatching /\ ~cache.launched
    /\ remote' = [remote EXCEPT ![cache.kube] = IF @ = "none" THEN "up" ELSE @]
    /\ Call("markLaunched")
    /\ UNCHANGED <<ray, cache, clusters, queue, sch, faults>>

\* The request fails, or only its answer does.
CreateFails ==
    /\ Dispatching /\ ~cache.launched
    /\ \/ remote' = [remote EXCEPT ![cache.kube] = IF @ = "none" THEN "up" ELSE @]
       \/ UNCHANGED remote
    /\ Call("markFailed")
    /\ Fault
    /\ UNCHANGED <<ray, cache, clusters, queue, sch>>

MarkLaunched ==
    /\ At("markLaunched")
    /\ ray' = [ray EXCEPT !.launched = TRUE]
    /\ ctl' = Idle
    /\ UNCHANGED <<cache, remote, clusters, queue, sch, faults>>

MarkFailed ==
    /\ At("markFailed")
    /\ ray' = [ray EXCEPT !.succeeded = "false"]
    /\ ctl' = Idle
    /\ UNCHANGED <<cache, remote, clusters, queue, sch, faults>>

\* A bad state (FAILED, UNHEALTHY, UNKNOWN with terminal pod errors) becomes the
\* verdict.  Nothing happens while there is no object to ask about.
Monitor ==
    /\ Dispatching /\ cache.launched
    /\ remote[cache.kube] # "none"
    /\ ctl' = [pc |-> "writeStatus",
               obj |-> IF remote[cache.kube] = "bad"
                       THEN [cache EXCEPT !.succeeded = "false"] ELSE cache]
    /\ UNCHANGED <<ray, cache, remote, clusters, queue, sch, faults>>

\* The status that was read replaces whatever the latest one is.
WriteStatus ==
    /\ At("writeStatus")
    /\ ray' = [ctl.obj EXCEPT !.term = ray.term]
    /\ ctl' = Idle
    /\ UNCHANGED <<cache, remote, clusters, queue, sch, faults>>

-----------------------------------------------------------------------------
(* processClusterTermination.  All its steps decide on the object read at  *)
(* the start, so that Killing is acted on by a later reconcile.            *)

Terminating == At("idle") /\ ShouldTerminate(cache)

\* The object the reconcile decides on.
Read == IF At("cleanup") THEN ctl.obj ELSE cache

SetSucceeded ==
    /\ Terminating /\ cache.succeeded = "unknown"
    /\ ray' = [ray EXCEPT !.succeeded = IF cache.term = "succeeded" THEN "true" ELSE "false"]
    /\ \/ NeedsKill(cache) /\ Call("kill")
       \/ cache.killing = "true" /\ ctl' = [pc |-> "cleanup", obj |-> cache]
       \/ ~NeedsKill(cache) /\ cache.killing # "true" /\ ctl' = Idle
    /\ UNCHANGED <<cache, remote, clusters, queue, sch, faults>>

SetKilling ==
    /\ At("kill") \/ (Terminating /\ cache.succeeded # "unknown" /\ NeedsKill(cache))
    /\ ray' = [ray EXCEPT !.killing = "true"]
    /\ ctl' = Idle
    /\ UNCHANGED <<cache, remote, clusters, queue, sch, faults>>

\* cleanupCluster, in the reconcile that recorded the verdict or in a later one.
CleaningUp ==
    /\ At("cleanup") \/ (Terminating /\ cache.succeeded # "unknown")
    /\ Read.killing = "true"

\* Variant: a launched cluster is left to DeleteJobCluster alone.
CleanupNotLaunchedOnly ==
    /\ CleaningUp
    /\ ~Read.launched
    /\ ray' = [ray EXCEPT !.killed = TRUE, !.killing = "false", !.early = TRUE]
    /\ ctl' = Idle
    /\ UNCHANGED <<cache, remote, clusters, queue, sch, faults>>

\* Not scheduled yet, or scheduled and not launched yet.
CleanupEarly ==
    /\ CleaningUp
    /\ ~Assigned(Read) \/ ~Read.launched
    /\ ray' = [ray EXCEPT !.killed = TRUE, !.killing = "false", !.early = TRUE]
    /\ ctl' = Idle
    /\ UNCHANGED <<cache, remote, clusters, queue, sch, faults>>

\* Variant: the status is written and the object left to someone else.
CleanupWithoutDelete ==
    /\ CleaningUp /\ Assigned(Read) /\ Read.launched
    /\ Call("markKilled")
    /\ UNCHANGED <<ray, cache, remote, clusters, queue, sch, faults>>

\* No object to delete is no error.
DeleteJobCluster ==
    /\ CleaningUp /\ Assigned(Read) /\ Read.launched
    /\ remote' = [remote EXCEPT ![Read.kube] = "none"]
    /\ Call("markKilled")
    /\ UNCHANGED <<ray, cache, clusters, queue, sch, faults>>

MarkKilled ==
    /\ At("markKilled")
    /\ ray' = [ray EXCEPT !.killed = TRUE, !.killing = "false", !.early = FALSE]
    /\ ctl' = Idle
    /\ UNCHANGED <<cache, remote, clusters, queue, sch, faults>>

\* A call fails and the reconcile ends; the object is reconciled again.
CallFails ==
    /\ ~At("idle")
    /\ ctl' = Idle
    /\ Fault
    /\ UNCHANGED <<ray, cache, remote, clusters, queue, sch>>

-----------------------------------------------------------------------------
(* scheduleJobsForever and assignJob.                                      *)

\* ClusterOnlyAssignmentStrategy: the cluster the job names, if it is in the
\* cache, and otherwise the first one there.
Selected(k) == k \in known /\ (first \in known => k = first)

\* The job is fetched again, from the informer cache, and a cluster selected.
Schedule ==
    /\ sch.pc = "idle"
    /\ Queue!Take
    /\ \/ cache.scheduled /\ sch' = [pc |-> "skip", kube |-> NoKube]
       \/ ~cache.scheduled /\ \E k \in KubeClusters :
            Selected(k) /\ sch' = [pc |-> "assign", kube |-> k]
       \/ ~cache.scheduled /\ known = {} /\ sch' = [pc |-> "refuse", kube |-> NoKube]
    /\ UNCHANGED <<ray, cache, remote, clusters, ctl, faults>>

SchedulerDone == Queue!Done(Ray) /\ sch' = NoAssignment

Skip ==
    /\ sch.pc = "skip"
    /\ SchedulerDone
    /\ UNCHANGED <<ray, cache, remote, clusters, ctl, faults>>

\* The update sets what was selected, whatever the latest object says.
Assign ==
    /\ sch.pc = "assign"
    /\ ray' = [ray EXCEPT !.scheduled = TRUE, !.kube = sch.kube]
    /\ SchedulerDone
    /\ UNCHANGED <<cache, remote, clusters, ctl, faults>>

Refuse ==
    /\ sch.pc = "refuse"
    /\ ray' = [ray EXCEPT !.scheduled = FALSE]
    /\ SchedulerDone
    /\ UNCHANGED <<cache, remote, clusters, ctl, faults>>

\* Done is deferred: it runs when the update fails.
AssignmentFails ==
    /\ sch.pc \in {"assign", "refuse"}
    /\ SchedulerDone
    /\ Fault
    /\ UNCHANGED <<ray, cache, remote, clusters, ctl>>

-----------------------------------------------------------------------------
(* The manager's caches and the rest of the world.                         *)

Sync ==
    /\ cache # ray
    /\ cache' = ray
    /\ UNCHANGED <<ray, remote, clusters, queue, ctl, sch, faults>>

Register(k) ==
    /\ k \notin known
    /\ known' = known \cup {k}
    /\ UNCHANGED <<ray, cache, remote, first, queue, ctl, sch, faults>>

\* A Cluster object is deleted, or changes: it is dropped and added again.
Unregister(k) ==
    /\ k \in known
    /\ known' = known \ {k}
    /\ Fault
    /\ UNCHANGED <<ray, cache, remote, first, queue, ctl, sch>>

\* The manager's memory is lost; the informers list the objects again.
Restart ==
    /\ cache' = ray
    /\ known' = {}
    /\ first' \in KubeClusters
    /\ pending' = <<>> /\ held' = {}
    /\ ctl' = Idle
    /\ sch' = NoAssignment
    /\ Fault
    /\ UNCHANGED <<ray, remote>>

\* A user or the worker sets spec.termination.
Terminate(t) ==
    /\ ray.term = "none"
    /\ ray' = [ray EXCEPT !.term = t]
    /\ UNCHANGED <<cache, remote, clusters, queue, ctl, sch, faults>>

RemoteTurns(k, from, to) ==
    /\ remote[k] = from
    /\ remote' = [remote EXCEPT ![k] = to]
    /\ UNCHANGED <<ray, cache, clusters, queue, ctl, sch, faults>>

-----------------------------------------------------------------------------
Controller ==
    \/ MarkEnqueued \/ Enqueue
    \/ CreateJobCluster \/ CreateFails \/ MarkLaunched \/ MarkFailed
    \/ Monitor \/ WriteStatus
    \/ SetSucceeded \/ SetKilling
    \/ CleanupEarly \/ DeleteJobCluster \/ MarkKilled
    \/ CallFails

Scheduler == Schedule \/ Skip \/ Assign \/ Refuse \/ AssignmentFails

Next ==
    \/ Controller
    \/ Scheduler
    \/ Sync
    \/ Restart
    \/ \E k \in KubeClusters :
        \/ Register(k)
        \/ Unregister(k)
        \/ RemoteTurns(k, "up", "bad")
        \/ RemoteTurns(k, "bad", "up")
    \/ \E t \in {"succeeded", "failed"} : Terminate(t)

Spec == Init /\ [][Next]_vars

\* A reconcile that ends in an error or waits is run again, each of its calls
\* returns, the informers deliver, the scheduler loops for as long as the manager
\* runs, and the registered Clusters are listed after a restart.
Fairness ==
    /\ WF_vars(MarkEnqueued) /\ WF_vars(Enqueue)
    /\ WF_vars(CreateJobCluster) /\ WF_vars(MarkLaunched) /\ WF_vars(MarkFailed)
    /\ WF_vars(WriteStatus)
    /\ WF_vars(SetSucceeded) /\ WF_vars(SetKilling)
    /\ WF_vars(CleanupEarly) /\ WF_vars(DeleteJobCluster) /\ WF_vars(MarkKilled)
    /\ WF_vars(Schedule) /\ WF_vars(Skip) /\ WF_vars(Assign) /\ WF_vars(Refuse)
    /\ WF_vars(Sync)
    /\ \A k \in KubeClusters : WF_vars(Register(k))

FairSpec == Spec /\ Fairness

-----------------------------------------------------------------------------
(* What holds.                                                             *)

\* What the cache, and a status still to be written, say about a termination
\* that etcd records.  The verdict itself may be lost to WriteStatus, but only
\* once the cluster is launched.
ReadsCatchUp ==
    /\ cache.term # "none" => ray.term # "none"
    /\ cache.launched => ray.launched
    /\ cache.succeeded # "unknown" => ray.succeeded # "unknown" \/ ray.launched
    /\ At("kill") => cache.term # "none"
    /\ At("markKilled") \/ At("writeStatus") => cache.launched
    /\ At("writeStatus") => ctl.obj.launched
    /\ At("cleanup") => cache.term # "none" /\ (ctl.obj.launched => cache.launched)
    /\ ray.killing # "unknown" \/ ray.killed =>
        /\ ShouldTerminate(ray) \/ ray.launched
        /\ ShouldTerminate(cache) \/ cache.launched

\* Before the first failure, with one compute cluster: registrations only grow,
\* and an object is left only where a launch is recorded or about to be.
Registered(o) == o.scheduled => o.kube \in known

Calm ==
    /\ ctl.pc # "markFailed"
    /\ Registered(ray)
    /\ cache.scheduled => ray.scheduled
    /\ sch.pc = "assign" => sch.kube \in known
    /\ sch.pc = "refuse" => ~ray.scheduled
    /\ ray.launched \/ At("markLaunched") => ray.scheduled
    /\ At("writeStatus") => ctl.obj.scheduled /\ ctl.obj.kube \in known /\ ~ctl.obj.killed
    /\ At("markLaunched") => ray.killing = "unknown" /\ ~ray.killed
    /\ \A o \in {cache, Read} :
        /\ Registered(o)
        /\ o.launched => o.scheduled
        /\ o.killing # "unknown" => o.launched \/ (ray.killing # "unknown" /\ ~ray.launched)
    /\ cache.killed => ShouldTerminate(cache) \/ cache.launched
    /\ At("markKilled") \/ ray.killed \/ cache.killed =>
        \A k \in KubeClusters : remote[k] = "none"
    /\ \A k \in KubeClusters : remote[k] # "none" => ray.launched \/ At("markLaunched")

CalmInv == faults = 0 => Calm

\* Whatever was decided on an old read, no object is created for a cluster
\* whose killing is recorded: nothing would ever delete it.
NoCreateOnceKilling ==
    [][\A k \in KubeClusters : remote[k] = "none" /\ remote'[k] # "none" =>
        ray.killing = "unknown" /\ ~ray.killed]_vars

\* With one compute cluster, nothing is left of a cluster that was killed: whatever
\* failed, if its object was to be deleted, and as long as nothing failed, if it was
\* killed early.
KillLeavesNothing ==
    ray.killed /\ (~ray.early \/ faults = 0) => \A k \in KubeClusters : remote[k] = "none"

\* What keeps a deletion done: every copy of a cluster killed by it finds nothing left,
\* and none makes a reconcile launch it.
Deleted ==
    /\ \A o \in {ray, cache} : o.killed /\ ~o.early => \A k \in KubeClusters : remote[k] = "none"
    /\ At("writeStatus") /\ ctl.obj.killed /\ ~ctl.obj.early =>
         \A k \in KubeClusters : remote[k] = "none"
    /\ At("markKilled") => \A k \in KubeClusters : remote[k] = "none"
    /\ cache.killed => ShouldTerminate(cache) \/ cache.launched

\* Whatever old status the monitoring writes back, a cluster to terminate that is not
\* killed has a next step: to record the verdict, to begin the killing, or to clean up.
HasNextStep(o) == o.succeeded = "unknown" \/ NeedsKill(o) \/ o.killing = "true"

TerminationGoesOn ==
    \A o \in {ray, cache} : ShouldTerminate(o) /\ ~o.killed => HasNextStep(o)

\* A launch is not taken back by an older status: what the monitoring writes back is of
\* a cluster that was launched.
LaunchIsKept == [][ray.launched => ray'.launched]_vars

\* A cluster to terminate is killed in the end, however often the manager
\* restarts in between, and from then on it stays so.
TerminatedIsKilled == (ray.term # "none") ~> []ray.killed

\* The scheduler gives its entry back with the assignment it was taken for, and until then
\* no second entry waits, however often reconciles enqueue the cluster.
InOneHand ==
    /\ sch.pc # "idle" <=> Ray \in held
    /\ Ray \in held => pending = <<>>

\* A cluster whose Enqueued condition is set is launched, if nobody terminates
\* it, although the queue and the compute clusters are lost with the manager.
EnqueuedIsLaunched == ray.enqueued ~> (ray.launched \/ ShouldTerminate(ray))

-----------------------------------------------------------------------------
(* What the code says of itself and does not do.                           *)

\* KilledMessageJobNotLaunched: the job could be killed early because it was
\* not yet launched.
KilledEarlyNotLaunched ==
    ray.killed /\ ray.early => \A k \in KubeClusters : remote[k] = "none"

\* A cluster that has been marked as failed or succeeded is terminated.
MarkedIsTerminated == (ray.succeeded # "unknown") ~> ray.killed

=============================================================================
