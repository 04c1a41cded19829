----------------------------- MODULE ComputeJob -----------------------------
(***************************************************************************)
(* One job of a workflow's task, on Spark or on Ray: the task, which       *)
(* creates the job, waits for it to be over and stops it when the workflow *)
(* is cancelled; the controller, which brings the job to its operator and  *)
(* shows how it fares; and what the operator has of it.                    *)
(*                                                                         *)
(* A SparkJob is stopped by its own spec.termination.  A RayJob runs on a  *)
(* RayCluster and is stopped with it.  A reconcile reads informer caches,  *)
(* talks to the operator and writes with the resourceVersion it read.      *)
(***************************************************************************)
EXTENDS Naturals

CONSTANTS
    NoJob,
    Engines,    \* which of the two engines jobs run on
    MaxFaults   \* bound: restarts, failed calls and clusters that are not ready

\* spec.termination, and the conditions Succeeded, Killed and the Immutable annotation.
SparkJobs == [term : BOOLEAN, succ : {"unknown", "true", "false"},
              killed : BOOLEAN, imm : BOOLEAN]

\* status.state and the condition Launched.
RayJobs == [state : {"invalid", "initializing", "running", "succeeded", "failed", "killed"},
            launched : BOOLEAN]

ASSUME JobAssumption ==
    /\ Engines \subseteq {"spark", "ray"}
    /\ MaxFaults \in Nat
    /\ NoJob \notin SparkJobs \cup RayJobs

VARIABLES
    kind,     \* the engine of this job
    job,      \* the object in etcd
    cache,    \* the informer's copy
    stale,    \* which copies are not the latest: the cache's, the reconcile's, the task's
    due,      \* the work queue has the job
    ctl,      \* the reconcile in progress: its next call and its copy
    remote,   \* the SparkApplication, or the RayJob of KubeRay
    cluster,  \* status.state of the RayCluster: READY, TERMINATED or another
    seen,     \* the same as the informer has it
    kube,     \* the RayCluster of KubeRay: there, to be deleted, or deleted
    task,     \* what the task of the workflow does
    verdict,  \* how the task reports the job
    faults    \* how many restarts, failed calls and clusters not ready there were

vars == <<kind, job, cache, stale, due, ctl, remote, cluster, seen, kube,
          task, verdict, faults>>

store == <<job, cache, stale>>
ray == <<cluster, seen, kube>>
wf == <<task, verdict>>

Spark == kind = "spark"
Ray == kind = "ray"

Objects == IF Spark THEN SparkJobs ELSE RayJobs

Pcs == {"watch", "create", "status", "delete", "killed", "imm"}

Idle == [pc |-> "idle", obj |-> NoJob]

TypeOK ==
    /\ kind \in Engines
    /\ job \in Objects \cup {NoJob} /\ cache \in Objects \cup {NoJob}
    /\ stale \subseteq {"cache", "read", "task"}
    /\ due \in BOOLEAN
    /\ ctl \in [pc : Pcs, obj : Objects] \cup {Idle}
    /\ remote \in {"none", "new", "running", "succeeded", "failed", "stopped"}
    /\ cluster \in {"ready", "other", "terminated"}
    /\ seen \in {"ready", "other", "terminated"}
    /\ kube \in {"up", "stopping", "deleted"}
    /\ task \in {"create", "sense", "cancelled", "terminate", "done"}
    /\ verdict \in {"none", "succeeded", "failed", "killed"}
    /\ faults \in 0..MaxFaults

NewJob ==
    IF Spark THEN [term |-> FALSE, succ |-> "unknown", killed |-> FALSE, imm |-> FALSE]
    ELSE [state |-> "invalid", launched |-> FALSE]

Init ==
    /\ kind \in Engines
    /\ job = NoJob
    /\ cache = NoJob
    /\ stale = {}
    /\ due = FALSE
    /\ ctl = Idle
    /\ remote = "none"
    /\ cluster = "ready"
    /\ seen = "ready"
    /\ kube = "up"
    /\ task = "create"
    /\ verdict = "none"
    /\ faults = 0

Fault == faults < MaxFaults /\ faults' = faults + 1

-----------------------------------------------------------------------------
(* Reading and writing the object.                                         *)

At(pc) == ctl.pc = pc
Obj == ctl.obj
GoOn(pc, o) == ctl' = [pc |-> pc, obj |-> o] /\ UNCHANGED due

\* The reconcile ends, and is asked for again by an error or in ten seconds.
End(again) == ctl' = Idle /\ due' = (due \/ again)

\* A write of what is there already changes nothing and tells nobody.
Store(o, others) ==
    /\ job' = o
    /\ stale' = IF o = job THEN stale ELSE {"cache"} \cup others
    /\ UNCHANGED cache

\* The reconcile writes its copy, and the task its own.
Update(o) == "read" \notin stale /\ Store(o, {"task"})
TaskUpdate(o) == "task" \notin stale /\ Store(o, {"read"})

Over(state) == state \in {"succeeded", "failed", "killed"}
RemoteOver == remote \in {"succeeded", "failed", "stopped"}

\* What a reconcile of a SparkJob does first.
SparkEntry(o) ==
    IF ~o.term THEN "watch" ELSE IF o.killed THEN "idle" ELSE "delete"

\* What a reconcile of a RayJob does first: it waits for the cluster, whatever was known.
RayEntry(o) ==
    IF seen # "ready" THEN <<"status", [o EXCEPT !.state = "initializing"]>>
    ELSE IF o.launched THEN <<"watch", o>> ELSE <<"create", o>>

Reconcile ==
    /\ At("idle") /\ due
    /\ due' = FALSE
    /\ ctl' = IF cache = NoJob \/ (Spark /\ SparkEntry(cache) = "idle") THEN Idle
              ELSE IF Spark THEN [pc |-> SparkEntry(cache), obj |-> cache]
              ELSE [pc |-> RayEntry(cache)[1], obj |-> RayEntry(cache)[2]]
    /\ stale' = (stale \ {"read"}) \cup (IF "cache" \in stale THEN {"read"} ELSE {})
    /\ UNCHANGED <<kind, job, cache, remote, ray, wf, faults>>

\* An Update of an old copy is refused.
Conflict ==
    /\ ctl.pc \in {"status", "killed", "imm"}
    /\ "read" \in stale
    /\ End(TRUE)
    /\ UNCHANGED <<kind, store, remote, ray, wf, faults>>

-----------------------------------------------------------------------------
(* SparkJob.                                                               *)

SparkStatus(o) ==
    CASE remote = "succeeded" -> [o EXCEPT !.succ = "true"]
      [] remote = "failed" -> [o EXCEPT !.succ = "false"]
      [] OTHER -> o

WatchSpark ==
    /\ Spark /\ At("watch")
    /\ IF remote = "none" THEN GoOn("create", Obj) ELSE GoOn("status", SparkStatus(Obj))
    /\ UNCHANGED <<kind, store, remote, ray, wf, faults>>

CreateSparkApplication ==
    /\ Spark /\ At("create")
    /\ remote' = "new"
    /\ GoOn("status", Obj)
    /\ UNCHANGED <<kind, store, ray, wf, faults>>

\* Variant: only an application that runs is deleted.
DeleteRunningApplication ==
    /\ Spark /\ At("delete")
    /\ remote' = IF remote = "running" THEN "none" ELSE remote
    /\ GoOn("killed", [Obj EXCEPT !.killed = TRUE, !.succ = "false"])
    /\ UNCHANGED <<kind, store, ray, wf, faults>>

DeleteSparkApplication ==
    /\ Spark /\ At("delete")
    /\ remote' = "none"
    /\ GoOn("killed", [Obj EXCEPT !.killed = TRUE, !.succ = "false"])
    /\ UNCHANGED <<kind, store, ray, wf, faults>>

\* A call fails, and may have been carried out.
SparkFails ==
    /\ Spark
    /\ \/ ctl.pc \in {"watch", "create", "delete"} /\ UNCHANGED remote
       \/ At("create") /\ remote' = "new"
       \/ At("delete") /\ remote' = "none"
    /\ Fault /\ End(TRUE)
    /\ UNCHANGED <<kind, store, ray, wf>>

MarkKilled ==
    /\ Spark /\ At("killed")
    /\ Update(Obj)
    /\ GoOn("imm", Obj)
    /\ UNCHANGED <<kind, remote, ray, wf, faults>>

MarkImmutable ==
    /\ Spark /\ At("imm")
    /\ Update([Obj EXCEPT !.imm = TRUE])
    /\ End(FALSE)
    /\ UNCHANGED <<kind, remote, ray, wf, faults>>

-----------------------------------------------------------------------------
(* RayJob.                                                                 *)

\* Variant: only a RayJob that runs is looked at again.
AgainWhileRunning(o) == Ray /\ o.state = "running"

\* Whether the job is looked at again: a SparkJob always, a RayJob until it is over.
\* One that could not be submitted is tried again.
Again(o) == Spark \/ ~(Over(o.state) /\ o.launched)

UpdateStatus ==
    /\ At("status")
    /\ Update(Obj)
    /\ End(Again(Obj))
    /\ UNCHANGED <<kind, remote, ray, wf, faults>>

\* A job that exists already was submitted before.  It is owned by the cluster's object
\* at KubeRay, which must be there.
CreateRayJob ==
    /\ Ray /\ At("create")
    /\ IF kube = "deleted"
       THEN UNCHANGED remote /\ GoOn("status", [Obj EXCEPT !.state = "failed"])
       ELSE /\ remote' = IF remote = "none" THEN "new" ELSE remote
            /\ GoOn("status", [Obj EXCEPT !.state = "initializing", !.launched = TRUE])
    /\ UNCHANGED <<kind, store, ray, wf, faults>>

\* Any error but that is a failed job, submitted or not.
CreateRayJobFails ==
    /\ Ray /\ At("create")
    /\ remote' \in {remote, IF remote = "none" /\ kube # "deleted" THEN "new" ELSE remote}
    /\ Fault /\ GoOn("status", [Obj EXCEPT !.state = "failed"])
    /\ UNCHANGED <<kind, store, ray, wf>>

\* Variant: what KubeRay says is the state.
RayStateAsTold == {remote}

\* A job that KubeRay does not have is a failed one.
RayState ==
    CASE remote = "none" -> {"failed"}
      [] remote = "stopped" -> {"killed"}
      [] remote = "new" -> {"invalid", "initializing"}
      [] OTHER -> {remote}

WatchRay ==
    /\ Ray /\ At("watch")
    /\ \E s \in RayState : GoOn("status", [Obj EXCEPT !.state = s])
    /\ UNCHANGED <<kind, store, remote, ray, wf, faults>>

\* The compute cluster is not in the cache, or does not answer.
RayFails ==
    /\ Ray /\ ctl.pc \in {"create", "watch"}
    /\ Fault /\ End(TRUE)
    /\ UNCHANGED <<kind, store, remote, ray, wf>>

-----------------------------------------------------------------------------
(* The task of the workflow.                                               *)

\* Whether the answer comes back or not; without it the task fails.
CreateJob ==
    /\ task = "create"
    /\ job' = NewJob
    /\ stale' = stale \cup {"cache"}
    /\ \/ task' = "sense" /\ UNCHANGED <<verdict, faults>>
       \/ Fault /\ verdict' = "failed" /\ task' = IF Spark THEN "done" ELSE "terminate"
    /\ UNCHANGED <<kind, cache, due, ctl, remote, ray>>

\* Variant: a job whose outcome is known succeeded.
SparkVerdictKnown(o) ==
    IF o.killed THEN "killed" ELSE IF o.succ # "unknown" THEN "succeeded" ELSE "failed"

\* How the task reports a job that is over.
SparkVerdict(o) ==
    IF o.killed THEN "killed" ELSE IF o.succ = "true" THEN "succeeded" ELSE "failed"

\* The sensor asks again until the job is over.
SensorSparkJob ==
    /\ Spark /\ task = "sense"
    /\ job.succ # "unknown" \/ job.killed
    /\ verdict' = SparkVerdict(job)
    /\ task' = "done"
    /\ UNCHANGED <<kind, store, due, ctl, remote, ray, faults>>

SensorRayJob ==
    /\ Ray /\ task = "sense"
    /\ Over(job.state)
    /\ verdict' = job.state
    /\ task' = "terminate"
    /\ UNCHANGED <<kind, store, due, ctl, remote, ray, faults>>

\* The workflow is cancelled while the sensor waits.
Cancelled ==
    /\ task = "sense"
    /\ task' = IF Spark THEN "cancelled" ELSE "terminate"
    /\ UNCHANGED <<kind, store, due, ctl, remote, ray, verdict, faults>>

\* Variant: a job is terminated whatever its outcome.
TerminateReadBlindly ==
    /\ task = "cancelled"
    /\ stale' = stale \ {"task"}
    /\ task' = "terminate"
    /\ UNCHANGED <<kind, job, cache, due, ctl, remote, ray, verdict, faults>>

\* TerminateSparkJob reads the job, leaves one alone whose outcome is known, and updates.
TerminateRead ==
    /\ task = "cancelled"
    /\ stale' = stale \ {"task"}
    /\ task' = IF job.succ # "unknown" THEN "done" ELSE "terminate"
    /\ UNCHANGED <<kind, job, cache, due, ctl, remote, ray, verdict, faults>>

TerminateSparkJob ==
    /\ Spark /\ task = "terminate"
    /\ TaskUpdate([job EXCEPT !.term = TRUE])
    /\ task' = "done"
    /\ UNCHANGED <<kind, due, ctl, remote, ray, verdict, faults>>

\* A conflict fails the activity; the workflow tries it again or not.
TerminateFails ==
    /\ Spark /\ task = "terminate" /\ "task" \in stale
    /\ task' \in {"cancelled", "done"}
    /\ UNCHANGED <<kind, store, due, ctl, remote, ray, verdict, faults>>

TerminateCluster ==
    /\ Ray /\ task = "terminate"
    /\ kube' = "stopping"
    /\ task' = "done"
    /\ UNCHANGED <<kind, store, due, ctl, remote, cluster, seen, verdict, faults>>

-----------------------------------------------------------------------------
(* The rest of the world.                                                  *)

\* The operator runs the job.
RemoteTurns ==
    /\ remote \in {"new", "running"}
    /\ remote' \in {"running", "succeeded", "failed", "stopped"} \ {remote}
    /\ Spark => remote' # "stopped"
    /\ UNCHANGED <<kind, store, due, ctl, ray, wf, faults>>

\* A cluster that is deleted takes its jobs along, and is TERMINATED a while later.
ClusterDeleted ==
    /\ kube = "stopping"
    /\ kube' = "deleted" /\ remote' = "none"
    /\ UNCHANGED <<kind, store, due, ctl, cluster, seen, wf, faults>>

ClusterTurns ==
    /\ Ray
    /\ \/ kube = "up" /\ cluster = "ready" /\ cluster' = "other" /\ Fault
       \/ kube = "up" /\ cluster = "other" /\ cluster' = "ready" /\ UNCHANGED faults
       \/ kube = "deleted" /\ cluster # "terminated" /\ cluster' = "terminated" /\ UNCHANGED faults
    /\ UNCHANGED <<kind, store, due, ctl, remote, seen, kube, wf>>

\* The informers deliver, and the work queue takes up the job; not so the cluster.
CacheSync ==
    /\ "cache" \in stale
    /\ cache' = job
    /\ stale' = stale \ {"cache"}
    /\ due' = TRUE
    /\ UNCHANGED <<kind, job, ctl, remote, ray, wf, faults>>

ClusterSync ==
    /\ seen # cluster
    /\ seen' = cluster
    /\ UNCHANGED <<kind, store, due, ctl, remote, cluster, kube, wf, faults>>

\* A restart of the controller manager lists every object again.
Crash ==
    /\ cache' = job /\ seen' = cluster
    /\ stale' = stale \ {"cache", "read"}
    /\ due' = (job # NoJob)
    /\ ctl' = Idle
    /\ Fault
    /\ UNCHANGED <<kind, job, remote, cluster, kube, wf>>

-----------------------------------------------------------------------------
SparkController ==
    \/ WatchSpark \/ CreateSparkApplication \/ SparkFails
    \/ DeleteSparkApplication \/ MarkKilled \/ MarkImmutable

RayController ==
    CreateRayJob \/ CreateRayJobFails \/ WatchRay \/ RayFails

Controller == SparkController \/ RayController \/ UpdateStatus \/ Conflict

Task ==
    \/ CreateJob \/ SensorSparkJob \/ SensorRayJob \/ Cancelled
    \/ TerminateRead \/ TerminateSparkJob \/ TerminateFails \/ TerminateCluster

Next ==
    \/ Reconcile \/ Controller \/ Task
    \/ RemoteTurns \/ ClusterDeleted \/ ClusterTurns
    \/ CacheSync \/ ClusterSync \/ Crash

Spec == Init /\ [][Next]_vars

\* The work queue hands out what it has, every call of a reconcile returns, informers
\* deliver, and a sensor asks again.  Nothing is assumed of operators and clusters.
Fairness ==
    /\ WF_vars(Reconcile) /\ WF_vars(Controller)
    /\ WF_vars(CacheSync) /\ WF_vars(ClusterSync)
    /\ WF_vars(SensorSparkJob) /\ WF_vars(SensorRayJob)

FairSpec == Spec /\ Fairness

-----------------------------------------------------------------------------
(* What holds.                                                             *)

Stored(ofKind) == ofKind /\ job # NoJob
Killed == Stored(Spark) /\ job.killed

\* Nothing runs for a SparkJob that is shown as killed, now or later: an application
\* that an earlier look at the job let create is deleted with the others.
KilledLeavesNothing == Killed => remote = "none"

\* The outcome of a SparkJob does not change once it is known: a cancellation that comes
\* with the end of the application does not turn a success into a failure.
OutcomeIsFinal ==
    [][Stored(Spark) /\ job.succ # "unknown" => job'.succ = job.succ]_vars

\* A task reports success only for a job that its operator completed. It reports failure only
\* for one that failed: a sensor of a SparkJob whatever fails, the others while nothing does.
VerdictIsReal ==
    [][verdict' # verdict =>
         /\ verdict' = "succeeded" => remote = "succeeded"
         /\ verdict' = "failed" /\ (faults' = 0 \/ (Spark /\ task = "sense"))
              => remote = "failed"]_vars

\* Somebody will look at the job: the work queue has it, a reconcile works on it, or the
\* informer has news of it.
Awaited == due \/ ~At("idle") \/ "cache" \in stale

\* However calls fail, updates conflict and the manager restarts, a SparkJob is looked at
\* again until it is killed, and a RayJob until it was submitted and is over.
NotForgotten ==
    job = NoJob \/ Awaited \/ Killed \/ (Stored(Ray) /\ Over(job.state) /\ job.launched)

\* What the task asked for and what the controller did of it is not written over by the
\* other's copy: a SparkJob is to be terminated for good, and killed for good.
StopIsKept ==
    [][Stored(Spark) => (job.term => job'.term) /\ (job.killed => job'.killed)]_vars

\* A task learns of the end of its job, as long as the cluster is there, and a
\* SparkJob that is to be terminated is killed.
JobEnds ==
    /\ (task = "sense" /\ RemoteOver) ~> (task # "sense" \/ cluster # "ready")
    /\ (Stored(Spark) /\ job.term) ~> Killed

-----------------------------------------------------------------------------
(* What the code says of itself and does not do.                           *)

\* "The job completed successfully": the state of a RayJob that succeeded is the end.
SucceededIsTerminal ==
    [][Stored(Ray) /\ job.state = "succeeded" => job'.state = "succeeded"]_vars

\* A SparkJob that is terminated is made immutable, "so it cannot transition further
\* once killed", and leaves etcd.
KilledGoes == Killed ~> (Killed /\ job.imm)

=============================================================================
