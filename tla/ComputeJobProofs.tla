-------------------------- MODULE ComputeJobProofs --------------------------
(***************************************************************************)
(* A job of either engine, with any number of faults: types, what a killed *)
(* SparkJob leaves behind, and what tasks report.                          *)
(***************************************************************************)
EXTENDS ComputeJob, TLAPS

\* The task asks for a job once, and the job is there from then on.
Asked ==
    /\ task = "create" <=> job = NoJob
    /\ job = NoJob => cache = NoJob /\ At("idle")

\* A copy that is not old is what is stored, and the cluster is there while a task waits.
CopiesAreJobs ==
    /\ "cache" \notin stale => cache = job
    /\ ~At("idle") => cache # NoJob
    /\ task \in {"create", "sense"} \/ Spark => kube = "up"

\* Which copy a reconcile of a SparkJob works on.
SparkReconcile ==
    /\ ctl.pc \in {"watch", "create", "status"} => ~Obj.term /\ ~Obj.killed
    /\ ctl.pc \in {"delete", "killed", "imm"} => cache.term /\ Obj.term
    /\ At("create") => remote = "none"
    /\ ctl.pc \in {"killed", "imm"} => remote = "none"
    /\ At("killed") => Obj.killed /\ Obj.succ = "false"
    /\ At("imm") => Obj.killed
    /\ ~At("idle") /\ "read" \notin stale =>
         /\ Obj.term = job.term
         /\ ctl.pc \in {"watch", "create"} => Obj.succ = job.succ /\ Obj.killed = job.killed
         /\ At("imm") => Obj.succ = job.succ /\ Obj.killed = job.killed
         /\ At("status") /\ job.succ # "unknown" => Obj.succ = job.succ
         /\ At("status") /\ Obj.succ = "true" => remote = "succeeded"
         /\ At("status") /\ Obj.succ = "false" => remote = "failed"

\* What is stored of a SparkJob: the controller has seen the termination of one that is
\* killed, and a known outcome is that of the application or of the kill.
SparkStored ==
    /\ cache # NoJob => (cache.term => job.term) /\ (cache.killed => cache.term)
    /\ job # NoJob =>
         /\ job.killed => /\ job.term /\ job.succ = "false"
                          /\ cache # NoJob /\ cache.term
                          /\ remote = "none"
                          /\ ctl.pc \in {"idle", "delete", "killed", "imm"}
         /\ job.term /\ ~job.killed => job.succ = "unknown"
         /\ ~job.term /\ job.succ = "true" => remote = "succeeded"
         /\ ~job.term /\ job.succ = "false" => remote = "failed"
         /\ task = "terminate" /\ "task" \notin stale => job.succ = "unknown"
         /\ task = "sense" => ~job.term

SparkInv == Spark => SparkReconcile /\ SparkStored

\* What a copy of a RayJob says is so, as long as its cluster is not stopped.
SaysWhatIs(o) ==
    o # NoJob /\ kube = "up" =>
      /\ o.state = "succeeded" => remote = "succeeded"
      /\ o.state = "failed" /\ faults = 0 => remote = "failed"
      /\ o.launched => remote # "none"

RayInv ==
    Ray => /\ SaysWhatIs(job) /\ SaysWhatIs(cache) /\ SaysWhatIs(Obj)
           /\ At("watch") => Obj.launched
           /\ ctl.pc \in {"idle", "create", "watch", "status"}

-----------------------------------------------------------------------------
(* Types.                                                                  *)

Reconciles == [pc : Pcs, obj : Objects] \cup {Idle}

LEMMA ObjectType ==
    /\ \A o \in Objects : o # NoJob
    /\ Spark => Objects = SparkJobs
    /\ kind \in Engines /\ ~Spark => Ray
    /\ Ray => ~Spark /\ Objects = RayJobs
    /\ Idle.pc = "idle" /\ Idle.obj = NoJob /\ "idle" \notin Pcs
BY JobAssumption DEF Objects, Spark, Ray, Idle, Pcs

LEMMA CopyType ==
    ASSUME TypeOK, ~At("idle")
    PROVE  Obj \in Objects /\ ctl.pc \in Pcs
BY DEF TypeOK, At, Obj, Idle

LEMMA IdleCopy ==
    ASSUME TypeOK, At("idle")
    PROVE  ctl = Idle
BY DEF TypeOK, At, Idle, Pcs

LEMMA GoOnType ==
    ASSUME NEW o \in Objects, NEW pc \in Pcs, GoOn(pc, o)
    PROVE  ctl' \in Reconciles /\ ctl'.pc = pc /\ ctl'.obj = o /\ due' = due
BY DEF GoOn, Reconciles

LEMMA EndType ==
    ASSUME TypeOK, NEW again \in BOOLEAN, End(again)
    PROVE  ctl' = Idle /\ due' \in BOOLEAN
BY DEF TypeOK, End

LEMMA StoreType ==
    ASSUME TypeOK, NEW o \in Objects, NEW others \in SUBSET {"cache", "read", "task"},
           Store(o, others)
    PROVE  /\ job' = o /\ cache' = cache
           /\ stale' \subseteq {"cache", "read", "task"}
BY DEF TypeOK, Store

LEMMA FaultType ==
    ASSUME TypeOK, Fault
    PROVE  faults' \in 0..MaxFaults /\ faults' # 0
BY JobAssumption DEF TypeOK, Fault

\* What a reconcile makes of its copy.
LEMMA SparkCopies ==
    ASSUME NEW o \in SparkJobs
    PROVE  /\ SparkStatus(o) \in SparkJobs
           /\ [o EXCEPT !.killed = TRUE, !.succ = "false"] \in SparkJobs
           /\ [o EXCEPT !.imm = TRUE] \in SparkJobs
           /\ [o EXCEPT !.term = TRUE] \in SparkJobs
BY DEF SparkJobs, SparkStatus

LEMMA RayCopies ==
    ASSUME TypeOK, NEW o \in RayJobs
    PROVE  /\ [o EXCEPT !.state = "initializing"] \in RayJobs
           /\ [o EXCEPT !.state = "failed"] \in RayJobs
           /\ [o EXCEPT !.state = "initializing", !.launched = TRUE] \in RayJobs
           /\ \A s \in RayState : [o EXCEPT !.state = s] \in RayJobs
           /\ RayEntry(o)[1] \in {"status", "watch", "create"} /\ RayEntry(o)[2] \in RayJobs
BY DEF TypeOK, RayJobs, RayState, RayEntry

LEMMA NewType == NewJob \in Objects
BY DEF NewJob, Objects, SparkJobs, RayJobs

LEMMA EntryType ==
    ASSUME TypeOK, Reconcile
    PROVE  ctl' \in Reconciles
<1> USE ObjectType, RayCopies DEF Reconciles
<1>1. CASE cache = NoJob \/ (Spark /\ SparkEntry(cache) = "idle")
  BY <1>1 DEF Reconcile
<1>2. CASE cache # NoJob /\ Spark /\ SparkEntry(cache) # "idle"
  <2>1. ctl' = [pc |-> SparkEntry(cache), obj |-> cache]
    BY <1>2 DEF Reconcile
  <2>2. SparkEntry(cache) \in Pcs /\ cache \in Objects
    BY <1>2 DEF SparkEntry, Pcs, TypeOK
  <2> QED BY <2>1, <2>2
<1>3. CASE cache # NoJob /\ ~Spark
  <2>1. ctl' = [pc |-> RayEntry(cache)[1], obj |-> RayEntry(cache)[2]]
    BY <1>3 DEF Reconcile
  <2>2. Objects = RayJobs /\ cache \in RayJobs
    BY <1>3 DEF TypeOK
  <2>3. RayEntry(cache)[1] \in Pcs /\ RayEntry(cache)[2] \in Objects
    BY <2>2, RayCopies DEF Pcs
  <2> QED BY <2>1, <2>3
<1> QED BY <1>1, <1>2, <1>3

\* The type invariant after a step, with the kinds of object of before it.
NextTypes ==
    /\ kind' = kind
    /\ job' \in Objects \cup {NoJob} /\ cache' \in Objects \cup {NoJob}
    /\ stale' \subseteq {"cache", "read", "task"}
    /\ due' \in BOOLEAN
    /\ ctl' \in Reconciles
    /\ remote' \in {"none", "new", "running", "succeeded", "failed", "stopped"}
    /\ cluster' \in {"ready", "other", "terminated"}
    /\ seen' \in {"ready", "other", "terminated"}
    /\ kube' \in {"up", "stopping", "deleted"}
    /\ task' \in {"create", "sense", "cancelled", "terminate", "done"}
    /\ verdict' \in {"none", "succeeded", "failed", "killed"}
    /\ faults' \in 0..MaxFaults

LEMMA NextTypesSuffice ==
    ASSUME TypeOK, NextTypes
    PROVE  TypeOK'
BY DEF TypeOK, NextTypes, Reconciles, Objects, Spark, SparkJobs, RayJobs, Pcs, Idle

\* What is unchanged keeps its type.
LEMMA SameTypes ==
    ASSUME TypeOK
    PROVE  /\ UNCHANGED store => /\ job' \in Objects \cup {NoJob} /\ cache' \in Objects \cup {NoJob}
                                 /\ stale' \subseteq {"cache", "read", "task"}
           /\ UNCHANGED ray => /\ cluster' \in {"ready", "other", "terminated"}
                               /\ seen' \in {"ready", "other", "terminated"}
                               /\ kube' \in {"up", "stopping", "deleted"}
           /\ UNCHANGED wf => /\ task' \in {"create", "sense", "cancelled", "terminate", "done"}
                              /\ verdict' \in {"none", "succeeded", "failed", "killed"}
           /\ UNCHANGED ctl => ctl' \in Reconciles
           /\ UNCHANGED due => due' \in BOOLEAN
           /\ UNCHANGED faults => faults' \in 0..MaxFaults
           /\ UNCHANGED remote =>
                remote' \in {"none", "new", "running", "succeeded", "failed", "stopped"}
<1>1. UNCHANGED store => /\ job' \in Objects \cup {NoJob} /\ cache' \in Objects \cup {NoJob}
                         /\ stale' \subseteq {"cache", "read", "task"}
  <2>1. UNCHANGED store => job' = job /\ cache' = cache /\ stale' = stale
    BY DEF store
  <2>2. /\ job \in Objects \cup {NoJob} /\ cache \in Objects \cup {NoJob}
        /\ stale \subseteq {"cache", "read", "task"}
    BY DEF TypeOK
  <2> QED BY <2>1, <2>2
<1>2. UNCHANGED ray => /\ cluster' \in {"ready", "other", "terminated"}
                       /\ seen' \in {"ready", "other", "terminated"}
                       /\ kube' \in {"up", "stopping", "deleted"}
  BY DEF TypeOK, ray
<1>3. UNCHANGED wf => /\ task' \in {"create", "sense", "cancelled", "terminate", "done"}
                      /\ verdict' \in {"none", "succeeded", "failed", "killed"}
  BY DEF TypeOK, wf
<1>4. UNCHANGED ctl => ctl' \in Reconciles
  BY DEF TypeOK, Reconciles
<1>5. /\ UNCHANGED due => due' \in BOOLEAN
      /\ UNCHANGED faults => faults' \in 0..MaxFaults
      /\ UNCHANGED remote =>
           remote' \in {"none", "new", "running", "succeeded", "failed", "stopped"}
  BY DEF TypeOK
<1> QED BY <1>1, <1>2, <1>3, <1>4, <1>5

LEMMA SparkControllerType ==
    ASSUME TypeOK, SparkController
    PROVE  NextTypes
<1> USE ObjectType, SameTypes
<1>1. ASSUME WatchSpark PROVE NextTypes
  <2>1. Obj \in SparkJobs /\ SparkStatus(Obj) \in SparkJobs
    BY <1>1, CopyType, SparkCopies DEF WatchSpark, At
  <2>2. ctl' \in Reconciles /\ due' = due
    BY <1>1, <2>1, GoOnType DEF WatchSpark, Pcs
  <2> QED BY <1>1, <2>2 DEF WatchSpark, NextTypes, TypeOK
<1>2. ASSUME CreateSparkApplication PROVE NextTypes
  <2>1. Obj \in Objects
    BY <1>2, CopyType DEF CreateSparkApplication, At
  <2>2. ctl' \in Reconciles /\ due' = due
    BY <1>2, <2>1, GoOnType DEF CreateSparkApplication, Pcs
  <2> QED BY <1>2, <2>2 DEF CreateSparkApplication, NextTypes, TypeOK
<1>3. ASSUME SparkFails PROVE NextTypes
  <2>1. ctl' \in Reconciles /\ due' \in BOOLEAN
    BY <1>3, EndType DEF SparkFails, Reconciles
  <2>2. remote' \in {"none", "new", "running", "succeeded", "failed", "stopped"}
    BY <1>3 DEF SparkFails, TypeOK
  <2>3. faults' \in 0..MaxFaults
    BY <1>3, FaultType DEF SparkFails
  <2> QED BY <1>3, <2>1, <2>2, <2>3 DEF SparkFails, NextTypes, TypeOK
<1>4. ASSUME DeleteSparkApplication PROVE NextTypes
  <2>1. Obj \in SparkJobs
    BY <1>4, CopyType DEF DeleteSparkApplication, At
  <2>2. ctl' \in Reconciles /\ due' = due
    BY <1>4, <2>1, SparkCopies, GoOnType DEF DeleteSparkApplication, Pcs
  <2> QED BY <1>4, <2>2 DEF DeleteSparkApplication, NextTypes, TypeOK
<1>5. ASSUME MarkKilled PROVE NextTypes
  <2>1. Obj \in Objects
    BY <1>5, CopyType DEF MarkKilled, At
  <2>2. job' = Obj /\ cache' = cache /\ stale' \subseteq {"cache", "read", "task"}
    BY <1>5, <2>1, StoreType DEF MarkKilled, Update
  <2>3. ctl' \in Reconciles /\ due' = due
    BY <1>5, <2>1, GoOnType DEF MarkKilled, Pcs
  <2> QED BY <1>5, <2>1, <2>2, <2>3 DEF MarkKilled, NextTypes, TypeOK
<1>6. ASSUME MarkImmutable PROVE NextTypes
  <2>1. [Obj EXCEPT !.imm = TRUE] \in Objects
    BY <1>6, CopyType, SparkCopies DEF MarkImmutable, At
  <2>2. /\ job' = [Obj EXCEPT !.imm = TRUE] /\ cache' = cache
        /\ stale' \subseteq {"cache", "read", "task"}
    BY <1>6, <2>1, StoreType DEF MarkImmutable, Update
  <2>3. ctl' \in Reconciles /\ due' \in BOOLEAN
    BY <1>6, EndType DEF MarkImmutable, Reconciles
  <2> QED BY <1>6, <2>1, <2>2, <2>3 DEF MarkImmutable, NextTypes, TypeOK
<1> QED BY <1>1, <1>2, <1>3, <1>4, <1>5, <1>6 DEF SparkController

LEMMA RayControllerType ==
    ASSUME TypeOK, RayController
    PROVE  NextTypes
<1> USE ObjectType, SameTypes
<1>0. Ray /\ Obj \in RayJobs /\ Objects = RayJobs
  BY CopyType DEF RayController, CreateRayJob, CreateRayJobFails, WatchRay, RayFails, At, Pcs
<1>1. ASSUME CreateRayJob PROVE NextTypes
  <2>1. ctl' \in Reconciles /\ due' = due
    BY <1>0, <1>1, RayCopies, GoOnType DEF CreateRayJob, Pcs
  <2> QED BY <1>1, <2>1 DEF CreateRayJob, NextTypes, TypeOK
<1>2. ASSUME CreateRayJobFails PROVE NextTypes
  <2>1. ctl' \in Reconciles /\ due' = due
    BY <1>0, <1>2, RayCopies, GoOnType DEF CreateRayJobFails, Pcs
  <2>2. faults' \in 0..MaxFaults
    BY <1>2, FaultType DEF CreateRayJobFails
  <2> QED BY <1>2, <2>1, <2>2 DEF CreateRayJobFails, NextTypes, TypeOK
<1>3. ASSUME WatchRay PROVE NextTypes
  <2>1. ctl' \in Reconciles /\ due' = due
    BY <1>0, <1>3, RayCopies, GoOnType DEF WatchRay, Pcs
  <2> QED BY <1>3, <2>1 DEF WatchRay, NextTypes, TypeOK
<1>4. ASSUME RayFails PROVE NextTypes
  <2>1. ctl' \in Reconciles /\ due' \in BOOLEAN
    BY <1>4, EndType DEF RayFails, Reconciles
  <2>2. faults' \in 0..MaxFaults
    BY <1>4, FaultType DEF RayFails
  <2> QED BY <1>4, <2>1, <2>2 DEF RayFails, NextTypes, TypeOK
<1> QED BY <1>1, <1>2, <1>3, <1>4 DEF RayController

LEMMA ControllerType ==
    ASSUME TypeOK, Controller
    PROVE  NextTypes
<1> USE ObjectType, SameTypes
<1>1. ASSUME UpdateStatus PROVE NextTypes
  <2>1. Obj \in Objects
    BY <1>1, ObjectType, CopyType DEF UpdateStatus, At
  <2>2. job' = Obj /\ cache' = cache /\ stale' \subseteq {"cache", "read", "task"}
    BY <1>1, <2>1, StoreType DEF UpdateStatus, Update
  <2>3. ctl' \in Reconciles /\ due' \in BOOLEAN
    BY <1>1, EndType DEF UpdateStatus, Reconciles, Again
  <2> QED BY <1>1, <2>1, <2>2, <2>3 DEF UpdateStatus, NextTypes, TypeOK
<1>2. ASSUME Conflict PROVE NextTypes
  <2>1. ctl' \in Reconciles /\ due' \in BOOLEAN
    BY <1>2, EndType DEF Conflict, Reconciles
  <2> QED BY <1>2, <2>1 DEF Conflict, NextTypes, TypeOK
<1> QED BY <1>1, <1>2, SparkControllerType, RayControllerType DEF Controller

LEMMA TaskType ==
    ASSUME TypeOK, Asked, Task
    PROVE  NextTypes /\ Asked'
<1> USE ObjectType, SameTypes DEF NextTypes, TypeOK, Asked, store, At
<1>1. ASSUME CreateJob PROVE NextTypes /\ Asked'
  <2>1. faults' \in 0..MaxFaults
    BY <1>1, FaultType DEF CreateJob
  <2>2. job' \in Objects
    BY <1>1, NewType DEF CreateJob
  <2> QED BY <1>1, <2>1, <2>2 DEF CreateJob
<1>2. ASSUME SensorSparkJob PROVE NextTypes /\ Asked'
  BY <1>2 DEF SensorSparkJob, SparkVerdict
<1>3. ASSUME SensorRayJob PROVE NextTypes /\ Asked'
  <2>1. verdict' \in {"succeeded", "failed", "killed"}
    BY <1>3 DEF SensorRayJob, Over
  <2> QED BY <1>3, <2>1 DEF SensorRayJob
<1>4. ASSUME Cancelled PROVE NextTypes /\ Asked'
  BY <1>4 DEF Cancelled
<1>5. ASSUME TerminateRead PROVE NextTypes /\ Asked'
  BY <1>5 DEF TerminateRead
<1>6. ASSUME TerminateSparkJob PROVE NextTypes /\ Asked'
  <2>1. [job EXCEPT !.term = TRUE] \in Objects
    BY <1>6, SparkCopies DEF TerminateSparkJob
  <2>2. /\ job' = [job EXCEPT !.term = TRUE] /\ cache' = cache
        /\ stale' \subseteq {"cache", "read", "task"}
    BY <1>6, <2>1, StoreType DEF TerminateSparkJob, TaskUpdate
  <2> QED BY <1>6, <2>1, <2>2 DEF TerminateSparkJob
<1>7. ASSUME TerminateFails PROVE NextTypes /\ Asked'
  BY <1>7 DEF TerminateFails
<1>8. ASSUME TerminateCluster PROVE NextTypes /\ Asked'
  BY <1>8 DEF TerminateCluster
<1> QED BY <1>1, <1>2, <1>3, <1>4, <1>5, <1>6, <1>7, <1>8 DEF Task

LEMMA WorldType ==
    ASSUME TypeOK,
           Reconcile \/ RemoteTurns \/ ClusterDeleted \/ ClusterTurns
             \/ CacheSync \/ ClusterSync \/ Crash
    PROVE  NextTypes
<1> USE ObjectType, SameTypes DEF NextTypes, TypeOK
<1>1. ASSUME Reconcile PROVE NextTypes
  <2>1. ctl' \in Reconciles
    BY <1>1, EntryType
  <2> QED BY <1>1, <2>1 DEF Reconcile
<1>2. ASSUME RemoteTurns PROVE NextTypes
  BY <1>2 DEF RemoteTurns
<1>3. ASSUME ClusterDeleted PROVE NextTypes
  BY <1>3 DEF ClusterDeleted
<1>4. ASSUME ClusterTurns PROVE NextTypes
  <2>1. faults' \in 0..MaxFaults
    BY <1>4, FaultType DEF ClusterTurns
  <2> QED BY <1>4, <2>1 DEF ClusterTurns
<1>5. ASSUME CacheSync PROVE NextTypes
  BY <1>5 DEF CacheSync
<1>6. ASSUME ClusterSync PROVE NextTypes
  BY <1>6 DEF ClusterSync
<1>7. ASSUME Crash PROVE NextTypes
  <2>1. faults' \in 0..MaxFaults /\ ctl' \in Reconciles
    BY <1>7, FaultType DEF Crash, Reconciles
  <2> QED BY <1>7, <2>1 DEF Crash
<1> QED BY <1>1, <1>2, <1>3, <1>4, <1>5, <1>6, <1>7

LEMMA AskedController ==
    ASSUME TypeOK, Asked, Controller
    PROVE  Asked'
<1>1. /\ task' = task /\ ~At("idle")
      /\ \/ job' = job
         \/ job' = Obj
         \/ Spark /\ job' = [Obj EXCEPT !.imm = TRUE]
  BY DEF Controller, SparkController, RayController, WatchSpark, CreateSparkApplication, SparkFails,
     DeleteSparkApplication, MarkKilled, MarkImmutable, CreateRayJob, CreateRayJobFails, WatchRay,
     RayFails, UpdateStatus, Conflict, store, wf, At, Update, Store
<1>2. job # NoJob
  BY <1>1 DEF Asked
<1>3. job' # NoJob
  <2>1. Obj \in Objects
    BY <1>1, CopyType
  <2>2. Spark => [Obj EXCEPT !.imm = TRUE] \in Objects
    BY <2>1, ObjectType, SparkCopies
  <2> QED BY <1>1, <1>2, <2>1, <2>2, ObjectType
<1> QED BY <1>1, <1>2, <1>3 DEF Asked

LEMMA TypeNext ==
    ASSUME TypeOK, Asked, [Next]_vars
    PROVE  NextTypes /\ TypeOK' /\ Asked'
<1>1. NextTypes
  <2>1. CASE Next
    BY <2>1, ControllerType, TaskType, WorldType DEF Next
  <2>2. CASE UNCHANGED vars
    BY <2>2, SameTypes DEF vars, NextTypes, store, ray, wf
  <2> QED BY <2>1, <2>2
<1>2. Asked'
  <2>1. CASE Reconcile \/ RemoteTurns \/ ClusterDeleted \/ ClusterTurns
               \/ CacheSync \/ ClusterSync \/ Crash \/ UNCHANGED vars
    BY <2>1 DEF Reconcile, RemoteTurns, ClusterDeleted, ClusterTurns, CacheSync, ClusterSync,
       Crash, vars, store, wf, Asked, At, Idle
  <2> QED BY <2>1, AskedController, TaskType DEF Next
<1> QED BY <1>1, <1>2, NextTypesSuffice

\* Every variable keeps its type, on both engines and whatever fails.
THEOREM TypeCorrect == Spec => []TypeOK
<1>1. Init => TypeOK /\ Asked
  <2>1. ASSUME Init PROVE TypeOK
    <3>1. 0 \in 0..MaxFaults
      BY JobAssumption
    <3>2. faults \in 0..MaxFaults
      BY <2>1, <3>1 DEF Init
    <3>3. ctl \in [pc : Pcs, obj : Objects] \cup {Idle}
      BY <2>1 DEF Init
    <3> QED BY <2>1, <3>2, <3>3 DEF Init, TypeOK
  <2>2. Init => Asked
    BY ObjectType DEF Init, Asked, At
  <2> QED BY <2>1, <2>2
<1>2. TypeOK /\ Asked /\ [Next]_vars => (TypeOK /\ Asked)'
  BY TypeNext
<1> QED BY <1>1, <1>2, PTL DEF Spec

-----------------------------------------------------------------------------
(* Copies, and what a SparkJob is.                                         *)

LEMMA SparkFields ==
    ASSUME NEW o \in SparkJobs
    PROVE  /\ SparkStatus(o).term = o.term /\ SparkStatus(o).killed = o.killed
           /\ SparkStatus(o).succ = IF remote = "succeeded" THEN "true"
                                    ELSE IF remote = "failed" THEN "false" ELSE o.succ
           /\ LET k == [o EXCEPT !.killed = TRUE, !.succ = "false"]
              IN  k.term = o.term /\ k.killed /\ k.succ = "false"
           /\ LET i == [o EXCEPT !.imm = TRUE]
              IN  i.term = o.term /\ i.killed = o.killed /\ i.succ = o.succ
           /\ LET t == [o EXCEPT !.term = TRUE]
              IN  t.term /\ t.killed = o.killed /\ t.succ = o.succ
BY DEF SparkJobs, SparkStatus

\* A step that leaves the store, the SparkApplication and the task alone, and ends the
\* reconcile or leaves it where it is.
Quiet ==
    /\ UNCHANGED <<kind, store, remote>>
    /\ ctl' = ctl \/ ctl' = Idle
    /\ task' = task \/ task' \notin {"sense", "terminate"}

LEMMA QuietSpark ==
    ASSUME Spark, SparkReconcile, SparkStored, Quiet
    PROVE  (SparkReconcile /\ SparkStored)'
<1>1. Idle.pc = "idle"
  BY DEF Idle
<1>2. SparkReconcile'
  BY <1>1 DEF SparkReconcile, Quiet, store, At, Obj
<1>3. SparkStored'
  BY <1>1 DEF SparkStored, Quiet, store
<1> QED BY <1>2, <1>3

LEMMA SparkReconciles ==
    ASSUME TypeOK, Asked, CopiesAreJobs, Spark, SparkReconcile, SparkStored, Reconcile
    PROVE  (SparkReconcile /\ SparkStored)'
<1>0. Idle.pc = "idle"
  BY DEF Idle
<1>1. CASE ctl' = Idle
  BY <1>0, <1>1 DEF Reconcile, SparkReconcile, SparkStored, At, Obj, wf
<1>2. CASE ctl' # Idle
  <2>1. /\ cache # NoJob /\ cache \in SparkJobs
        /\ ctl' = [pc |-> SparkEntry(cache), obj |-> cache]
        /\ SparkEntry(cache) # "idle"
    BY <1>2, ObjectType DEF Reconcile, TypeOK
  <2>2. /\ ctl'.obj = cache
        /\ ctl'.pc = IF cache.term THEN "delete" ELSE "watch"
        /\ cache.term => ~cache.killed
    BY <2>1 DEF SparkEntry
  <2>3. "read" \notin stale' => cache = job
    BY DEF Reconcile, CopiesAreJobs
  <2>4. cache.term \in BOOLEAN /\ cache.killed \in BOOLEAN /\ job.term \in BOOLEAN /\ job \in SparkJobs
    BY <2>1, ObjectType DEF Asked, TypeOK, SparkJobs
  <2>5. SparkReconcile'
    BY <2>2, <2>3, <2>4, <2>1 DEF Reconcile, SparkReconcile, SparkStored, At, Obj
  <2>6. SparkStored'
    BY <2>1, <2>2, <2>4 DEF Reconcile, SparkStored, wf
  <2> QED BY <2>5, <2>6
<1> QED BY <1>1, <1>2

LEMMA SparkLooks ==
    ASSUME TypeOK, Asked, CopiesAreJobs, Spark, SparkReconcile, SparkStored,
           WatchSpark \/ CreateSparkApplication
    PROVE  (SparkReconcile /\ SparkStored)'
<1>1. /\ Obj \in SparkJobs /\ job \in SparkJobs /\ job # NoJob /\ ctl.pc \in {"watch", "create"}
      /\ ~Obj.term /\ ~Obj.killed
  BY CopyType, ObjectType DEF WatchSpark, CreateSparkApplication, At, SparkReconcile, Asked, TypeOK
<1>2. CASE WatchSpark /\ remote = "none"
  BY <1>1, <1>2 DEF WatchSpark, GoOn, SparkReconcile, SparkStored, At, Obj, store, wf
<1>3. CASE WatchSpark /\ remote # "none"
  <2>1. /\ ctl'.pc = "status" /\ ctl'.obj = SparkStatus(Obj)
        /\ UNCHANGED <<job, cache, stale, remote, task>>
    BY <1>3 DEF WatchSpark, GoOn, store, wf
  <2>2. SparkStored'
    BY <1>1, <2>1 DEF SparkStored
  <2>3. ~SparkStatus(Obj).term /\ ~SparkStatus(Obj).killed
    BY <1>1, SparkFields
  <2>4. "read" \notin stale => job.succ = Obj.succ /\ job.term = Obj.term
    BY <1>1 DEF SparkReconcile, At
  <2>5. /\ job.succ \in {"unknown", "true", "false"} /\ job.term \in BOOLEAN
        /\ SparkStatus(Obj).term = Obj.term
        /\ SparkStatus(Obj).succ = IF remote = "succeeded" THEN "true"
                                  ELSE IF remote = "failed" THEN "false" ELSE Obj.succ
    BY <1>1, SparkFields DEF SparkJobs
  <2>6. ~job.term /\ job.succ # "unknown" => remote = IF job.succ = "true" THEN "succeeded" ELSE "failed"
    BY <1>1, <2>5 DEF SparkStored
  <2>7. SparkReconcile'
    BY <1>1, <2>1, <2>3, <2>4, <2>5, <2>6 DEF SparkReconcile, At, Obj
  <2> QED BY <2>2, <2>7
<1>4. CASE CreateSparkApplication
  <2>1. /\ remote = "none" /\ remote' = "new" /\ ctl.pc = "create"
        /\ ctl'.pc = "status" /\ ctl'.obj = Obj
        /\ UNCHANGED <<job, cache, stale, task>>
    BY <1>4 DEF CreateSparkApplication, GoOn, store, wf, SparkReconcile, At
  <2>2. SparkStored'
    BY <1>1, <2>1 DEF SparkStored
  <2>3. SparkReconcile'
    BY <1>1, <2>1 DEF SparkReconcile, SparkStored, At, Obj
  <2> QED BY <2>2, <2>3
<1> QED BY <1>2, <1>3, <1>4

LEMMA SparkKills ==
    ASSUME TypeOK, Asked, CopiesAreJobs, Spark, SparkReconcile, SparkStored,
           DeleteSparkApplication \/ MarkKilled \/ MarkImmutable
    PROVE  (SparkReconcile /\ SparkStored)'
<1>1. /\ Obj \in SparkJobs /\ job \in SparkJobs /\ job # NoJob
      /\ ctl.pc \in {"delete", "killed", "imm"}
      /\ cache # NoJob /\ cache.term /\ job.term /\ Obj.term
  BY CopyType, ObjectType DEF DeleteSparkApplication, MarkKilled, MarkImmutable, At,
     SparkReconcile, SparkStored, Asked, TypeOK, CopiesAreJobs
<1>2. CASE DeleteSparkApplication
  <2>1. /\ remote' = "none" /\ ctl.pc = "delete"
        /\ ctl'.pc = "killed" /\ ctl'.obj = [Obj EXCEPT !.killed = TRUE, !.succ = "false"]
        /\ UNCHANGED <<job, cache, stale, task>>
    BY <1>2 DEF DeleteSparkApplication, GoOn, store, wf, At
  <2>2. SparkStored'
    BY <1>1, <2>1 DEF SparkStored
  <2>3. ctl'.obj.term /\ ctl'.obj.killed /\ ctl'.obj.succ = "false"
    BY <1>1, <2>1, SparkFields
  <2>4. SparkReconcile'
    BY <1>1, <2>1, <2>3 DEF SparkReconcile, At, Obj
  <2> QED BY <2>2, <2>4
<1>3. CASE MarkKilled
  <2>1. /\ job' = Obj /\ ctl.pc = "killed" /\ ctl'.pc = "imm" /\ ctl'.obj = Obj
        /\ remote = "none" /\ Obj.killed /\ Obj.succ = "false"
        /\ UNCHANGED <<cache, remote, task>>
    BY <1>3 DEF MarkKilled, Update, Store, GoOn, wf, At, SparkReconcile
  <2>2. "task" \notin stale' => job' = job /\ stale' = stale
    BY <1>3 DEF MarkKilled, Update, Store
  <2>3. SparkStored'
    BY <1>1, <2>1, <2>2 DEF SparkStored
  <2>4. SparkReconcile'
    BY <1>1, <2>1 DEF SparkReconcile, At, Obj
  <2> QED BY <2>3, <2>4
<1>4. CASE MarkImmutable
  <2>1. /\ job' = [Obj EXCEPT !.imm = TRUE] /\ ctl.pc = "imm" /\ ctl' = Idle
        /\ remote = "none" /\ "read" \notin stale
        /\ Obj.succ = job.succ /\ Obj.killed = job.killed
        /\ UNCHANGED <<cache, remote, task>>
    BY <1>4 DEF MarkImmutable, Update, Store, End, wf, At, SparkReconcile
  <2>2. "task" \notin stale' => "task" \notin stale
    BY <1>4 DEF MarkImmutable, Update, Store
  <2>3. job'.term /\ job'.killed = job.killed /\ job'.succ = job.succ
    BY <1>1, <2>1, SparkFields
  <2>4. SparkStored'
    BY <1>1, <2>1, <2>2, <2>3, ObjectType DEF SparkStored
  <2>5. SparkReconcile'
    BY <1>1, <2>1, ObjectType DEF SparkReconcile, At, Obj
  <2> QED BY <2>4, <2>5
<1> QED BY <1>2, <1>3, <1>4

LEMMA SparkWrites ==
    ASSUME TypeOK, Asked, CopiesAreJobs, Spark, SparkReconcile, SparkStored, UpdateStatus
    PROVE  /\ (SparkReconcile /\ SparkStored)'
           /\ job.succ # "unknown" => job'.succ = job.succ
<1>1. /\ Obj \in SparkJobs /\ job \in SparkJobs /\ job # NoJob
      /\ ctl.pc = "status" /\ ctl' = Idle /\ Idle.pc = "idle"
      /\ job' = Obj /\ "read" \notin stale
      /\ UNCHANGED <<cache, remote, task>>
  BY CopyType, ObjectType DEF UpdateStatus, End, Update, Store, At, Asked, TypeOK, wf
<1>2. /\ ~Obj.term /\ ~Obj.killed /\ Obj.term = job.term
      /\ job.succ # "unknown" => Obj.succ = job.succ
      /\ Obj.succ = "true" => remote = "succeeded"
      /\ Obj.succ = "false" => remote = "failed"
  BY <1>1 DEF SparkReconcile, At
<1>3. "task" \notin stale' => job' = job /\ "task" \notin stale
  BY DEF UpdateStatus, Update, Store
<1>4. SparkReconcile'
  BY <1>1 DEF SparkReconcile, At, Obj
<1>5. SparkStored'
  BY <1>1, <1>2, <1>3 DEF SparkStored
<1> QED BY <1>1, <1>2, <1>4, <1>5

LEMMA SparkTask ==
    ASSUME TypeOK, Asked, CopiesAreJobs, Spark, SparkReconcile, SparkStored,
           CreateJob \/ TerminateRead \/ TerminateSparkJob
    PROVE  (SparkReconcile /\ SparkStored)'
<1>1. CASE CreateJob
  <2>1. /\ job = NoJob /\ cache = NoJob /\ ctl.pc = "idle" /\ ctl' = ctl
        /\ ~job'.term /\ ~job'.killed /\ job'.succ = "unknown"
        /\ UNCHANGED <<cache, remote>>
    BY <1>1 DEF CreateJob, NewJob, Asked, At
  <2> QED BY <2>1 DEF SparkReconcile, SparkStored, At, Obj
<1>2. CASE TerminateRead
  <2>1. UNCHANGED <<job, cache, ctl, remote>> /\ ("read" \notin stale' => "read" \notin stale)
    BY <1>2 DEF TerminateRead
  <2>2. /\ task' = "terminate" => job.succ = "unknown"
        /\ task' # "sense"
    BY <1>2 DEF TerminateRead
  <2>3. SparkReconcile'
    BY <2>1 DEF SparkReconcile, At, Obj
  <2>4. SparkStored'
    BY <2>1, <2>2 DEF SparkStored
  <2> QED BY <2>3, <2>4
<1>3. CASE TerminateSparkJob
  <2>1. /\ job # NoJob /\ job \in SparkJobs
        /\ job' = [job EXCEPT !.term = TRUE] /\ task = "terminate" /\ task' = "done"
        /\ "task" \notin stale
        /\ UNCHANGED <<cache, ctl, remote>>
    BY <1>3, ObjectType DEF TerminateSparkJob, TaskUpdate, Store, Asked, TypeOK
  <2>2. /\ job'.term /\ job'.killed = job.killed /\ job'.succ = job.succ
        /\ job.succ = "unknown"
    BY <2>1, SparkFields DEF SparkStored
  <2>3. "read" \notin stale' => job' = job /\ "read" \notin stale
    BY <1>3 DEF TerminateSparkJob, TaskUpdate, Store
  <2>4. SparkReconcile'
    BY <2>1, <2>3 DEF SparkReconcile, At, Obj
  <2>5. SparkStored'
    BY <2>1, <2>2 DEF SparkStored
  <2> QED BY <2>4, <2>5
<1> QED BY <1>1, <1>2, <1>3

LEMMA SparkWorld ==
    ASSUME TypeOK, Asked, CopiesAreJobs, Spark, SparkReconcile, SparkStored,
           SparkFails \/ RemoteTurns \/ CacheSync \/ Crash
    PROVE  (SparkReconcile /\ SparkStored)'
<1>0. Idle.pc = "idle"
  BY DEF Idle
<1>1. CASE SparkFails
  <2>1. /\ ctl' = Idle /\ UNCHANGED <<job, cache, stale, task>>
        /\ \/ remote' = remote
           \/ ctl.pc = "create" /\ remote = "none" /\ remote' = "new"
           \/ ctl.pc = "delete" /\ cache # NoJob /\ cache.term /\ remote' = "none"
    BY <1>1 DEF SparkFails, End, store, wf, At, SparkReconcile, CopiesAreJobs
  <2>2. SparkReconcile'
    BY <1>0, <2>1 DEF SparkReconcile, At, Obj
  <2>3. SparkStored'
    BY <1>0, <2>1 DEF SparkStored
  <2> QED BY <2>2, <2>3
<1>2. CASE RemoteTurns
  <2>1. UNCHANGED <<job, cache, stale, ctl, task>> /\ remote \in {"new", "running"}
    BY <1>2 DEF RemoteTurns, store, wf
  <2>2. SparkReconcile'
    BY <2>1 DEF SparkReconcile, At, Obj
  <2>3. SparkStored'
    BY <2>1 DEF SparkStored
  <2> QED BY <2>2, <2>3
<1>3. CASE CacheSync
  <2>1. /\ cache' = job /\ UNCHANGED <<job, ctl, remote, task>>
        /\ "read" \notin stale' => "read" \notin stale
        /\ "task" \notin stale' => "task" \notin stale
    BY <1>3 DEF CacheSync, wf
  <2>2. SparkReconcile'
    BY <2>1 DEF SparkReconcile, SparkStored, At, Obj, CopiesAreJobs, Asked
  <2>3. SparkStored'
    BY <2>1 DEF SparkStored
  <2> QED BY <2>2, <2>3
<1>4. CASE Crash
  <2>1. /\ cache' = job /\ ctl' = Idle /\ UNCHANGED <<job, remote, task>>
        /\ "task" \notin stale' => "task" \notin stale
    BY <1>4 DEF Crash, wf
  <2>2. SparkReconcile'
    BY <1>0, <2>1 DEF SparkReconcile, At, Obj
  <2>3. SparkStored'
    BY <1>0, <2>1 DEF SparkStored
  <2> QED BY <2>2, <2>3
<1> QED BY <1>1, <1>2, <1>3, <1>4

LEMMA SparkQuiet ==
    ASSUME TypeOK, Asked, CopiesAreJobs, Spark,
           Conflict \/ SensorSparkJob \/ Cancelled \/ TerminateFails \/ ClusterSync
             \/ UNCHANGED vars
    PROVE  Quiet
BY DEF Conflict, SensorSparkJob, Cancelled, TerminateFails, ClusterSync, vars, Quiet, End,
   store, wf

LEMMA SparkNext ==
    ASSUME TypeOK, Asked, CopiesAreJobs, SparkInv, [Next]_vars
    PROVE  SparkInv'
<1> SUFFICES ASSUME Spark PROVE (SparkReconcile /\ SparkStored)'
  BY TypeNext DEF SparkInv, NextTypes, Spark
<1>1. SparkReconcile /\ SparkStored
  BY DEF SparkInv
<1>2. CASE Quiet
  BY <1>1, <1>2, QuietSpark
<1>3. CASE \/ CreateRayJob \/ CreateRayJobFails \/ WatchRay \/ RayFails \/ SensorRayJob
           \/ TerminateCluster \/ ClusterTurns \/ ClusterDeleted
  BY <1>3, ObjectType DEF CreateRayJob, CreateRayJobFails, WatchRay, RayFails, SensorRayJob,
     TerminateCluster, ClusterTurns, ClusterDeleted, CopiesAreJobs
<1>4. CASE \/ Reconcile \/ WatchSpark \/ CreateSparkApplication \/ SparkFails
           \/ DeleteSparkApplication \/ MarkKilled \/ MarkImmutable \/ UpdateStatus
           \/ CreateJob \/ TerminateRead \/ TerminateSparkJob \/ RemoteTurns \/ CacheSync \/ Crash
  BY <1>1, <1>4, SparkReconciles, SparkLooks, SparkKills, SparkWrites, SparkTask, SparkWorld
<1> QED BY <1>2, <1>3, <1>4, SparkQuiet
     DEF Next, Controller, SparkController, RayController, Task

LEMMA CopiesNext ==
    ASSUME TypeOK, Asked, CopiesAreJobs, [Next]_vars
    PROVE  CopiesAreJobs'
<1>0. Idle.pc = "idle" /\ kind' = kind
  BY TypeNext DEF Idle, NextTypes
<1>1. "cache" \notin stale' => cache' = job'
  <2>1. CASE Controller
    <3>1. \/ UNCHANGED store
          \/ cache' = cache /\ \E o : job' = o /\ \E others :
                                 stale' = IF o = job THEN stale ELSE {"cache"} \cup others
      BY <2>1 DEF Controller, SparkController, RayController, WatchSpark, CreateSparkApplication,
         SparkFails, DeleteSparkApplication, MarkKilled, MarkImmutable, CreateRayJob,
         CreateRayJobFails, WatchRay, RayFails, UpdateStatus, Conflict, Update, Store
    <3> QED BY <3>1 DEF CopiesAreJobs, store
  <2>2. CASE Task
    BY <2>2 DEF Task, CreateJob, SensorSparkJob, SensorRayJob, Cancelled, TerminateRead,
       TerminateSparkJob, TerminateFails, TerminateCluster, TaskUpdate, Store, store, CopiesAreJobs
  <2>3. CASE Reconcile \/ RemoteTurns \/ ClusterDeleted \/ ClusterTurns \/ CacheSync
               \/ ClusterSync \/ Crash \/ UNCHANGED vars
    BY <2>3 DEF Reconcile, RemoteTurns, ClusterDeleted, ClusterTurns, CacheSync, ClusterSync, Crash,
       vars, store, CopiesAreJobs
  <2> QED BY <2>1, <2>2, <2>3 DEF Next
<1>2. ctl'.pc # "idle" => cache' # NoJob
  <2>1. CASE Controller
    BY <2>1 DEF Controller, SparkController, RayController, WatchSpark, CreateSparkApplication,
       SparkFails, DeleteSparkApplication, MarkKilled, MarkImmutable, CreateRayJob,
       CreateRayJobFails, WatchRay, RayFails, UpdateStatus, Conflict, Update, Store, store,
       CopiesAreJobs, At
  <2>2. CASE Task
    BY <2>2 DEF Task, CreateJob, SensorSparkJob, SensorRayJob, Cancelled, TerminateRead,
       TerminateSparkJob, TerminateFails, TerminateCluster, TaskUpdate, Store, store, CopiesAreJobs, At
  <2>3. CASE Reconcile \/ CacheSync \/ Crash
    BY <1>0, <2>3 DEF Reconcile, CacheSync, Crash, CopiesAreJobs, At, Asked
  <2>4. CASE RemoteTurns \/ ClusterDeleted \/ ClusterTurns \/ ClusterSync \/ UNCHANGED vars
    BY <2>4 DEF RemoteTurns, ClusterDeleted, ClusterTurns, ClusterSync, vars, store, CopiesAreJobs, At
  <2> QED BY <2>1, <2>2, <2>3, <2>4 DEF Next
<1>3. (task' \in {"create", "sense"} \/ Spark') => kube' = "up"
  <2>1. CASE Controller \/ Reconcile \/ RemoteTurns \/ ClusterSync \/ CacheSync \/ Crash \/ UNCHANGED vars
    <3>1. task' = task /\ kube' = kube
      BY <2>1 DEF Controller, SparkController, RayController, WatchSpark, CreateSparkApplication,
         SparkFails, DeleteSparkApplication, MarkKilled, MarkImmutable, CreateRayJob,
         CreateRayJobFails, WatchRay, RayFails, UpdateStatus, Conflict, Reconcile, RemoteTurns,
         ClusterSync, CacheSync, Crash, vars, wf, ray
    <3> QED BY <1>0, <3>1 DEF CopiesAreJobs, Spark
  <2>2. CASE Task
    BY <1>0, <2>2 DEF Task, CreateJob, SensorSparkJob, SensorRayJob, Cancelled, TerminateRead,
       TerminateSparkJob, TerminateFails, TerminateCluster, ray, CopiesAreJobs, Spark, Ray
  <2>3. CASE ClusterDeleted \/ ClusterTurns
    BY <1>0, <2>3 DEF ClusterDeleted, ClusterTurns, wf, CopiesAreJobs, Spark
  <2> QED BY <2>1, <2>2, <2>3 DEF Next
<1> QED BY <1>1, <1>2, <1>3 DEF CopiesAreJobs, At

-----------------------------------------------------------------------------
(* What the copies of a RayJob say.                                        *)

LEMMA RayFields ==
    ASSUME NEW o \in RayJobs, NEW s
    PROVE  /\ [o EXCEPT !.state = s].state = s /\ [o EXCEPT !.state = s].launched = o.launched
           /\ LET l == [o EXCEPT !.state = s, !.launched = TRUE]
              IN  l.state = s /\ l.launched
BY DEF RayJobs

\* A job that is over at KubeRay stays so while its cluster does, and one that is there is.
RemoteKept ==
    kube' = "up" => /\ kube = "up"
                    /\ remote \in {"succeeded", "failed"} => remote' = remote
                    /\ remote # "none" => remote' # "none"
                    /\ faults' = 0 => faults = 0

LEMMA SaidStays ==
    ASSUME NEW o, NEW p, RemoteKept, SaysWhatIs(o), p = o
    PROVE  p # NoJob /\ kube' = "up" =>
             /\ p.state = "succeeded" => remote' = "succeeded"
             /\ p.state = "failed" /\ faults' = 0 => remote' = "failed"
             /\ p.launched => remote' # "none"
BY DEF RemoteKept, SaysWhatIs

LEMMA RemoteKeptNext ==
    ASSUME TypeOK, Ray, RayInv, Next
    PROVE  RemoteKept
<1> USE FaultType DEF RemoteKept
<1>1. CASE SparkController
  BY <1>1, ObjectType DEF SparkController, WatchSpark, CreateSparkApplication, SparkFails,
     DeleteSparkApplication, MarkKilled, MarkImmutable
<1>2. CASE CreateRayJob
  BY <1>2 DEF CreateRayJob, ray
<1>3. CASE CreateRayJobFails
  BY <1>3 DEF CreateRayJobFails, ray
<1>4. CASE WatchRay \/ RayFails \/ UpdateStatus \/ Conflict \/ Reconcile \/ CacheSync
            \/ ClusterSync \/ Crash \/ ClusterTurns
  BY <1>4 DEF WatchRay, RayFails, UpdateStatus, Conflict, Reconcile, CacheSync, ClusterSync, Crash,
     ClusterTurns, ray
<1>5. CASE Task
  BY <1>5 DEF Task, CreateJob, SensorSparkJob, SensorRayJob, Cancelled, TerminateRead,
     TerminateSparkJob, TerminateFails, TerminateCluster, ray
<1>6. CASE RemoteTurns
  BY <1>6 DEF RemoteTurns, ray
<1>7. CASE ClusterDeleted
  BY <1>7 DEF ClusterDeleted
<1> QED BY <1>1, <1>2, <1>3, <1>4, <1>5, <1>6, <1>7 DEF Next, Controller, RayController

LEMMA RayLooks ==
    ASSUME TypeOK, Asked, CopiesAreJobs, Ray, RayInv,
           CreateRayJob \/ CreateRayJobFails \/ WatchRay
    PROVE  RayInv'
<1>1. /\ Obj \in RayJobs /\ Obj # NoJob
      /\ SaysWhatIs(job) /\ SaysWhatIs(cache) /\ SaysWhatIs(Obj)
      /\ At("watch") => Obj.launched
      /\ UNCHANGED <<kind, job, cache, kube>> /\ (faults' = 0 => ~Fault)
  BY CopyType, ObjectType, FaultType DEF CreateRayJob, CreateRayJobFails, WatchRay, At, RayInv,
     store, ray, TypeOK
<1>2. RemoteKept
  BY RemoteKeptNext DEF Next, Controller, RayController
<1>3. SaysWhatIs(job)' /\ SaysWhatIs(cache)'
  BY <1>1, <1>2, SaidStays DEF SaysWhatIs
<1>4. SaysWhatIs(Obj)' /\ ctl'.pc = "status"
  <2>1. CASE CreateRayJob /\ kube = "deleted"
    BY <1>1, <2>1 DEF CreateRayJob, GoOn, SaysWhatIs, Obj
  <2>2. CASE CreateRayJob /\ kube # "deleted"
    <3>1. /\ ctl'.pc = "status"
          /\ ctl'.obj = [Obj EXCEPT !.state = "initializing", !.launched = TRUE]
          /\ remote' # "none"
      BY <2>2 DEF CreateRayJob, GoOn
    <3>2. ctl'.obj.state = "initializing"
      BY <1>1, <3>1, RayFields
    <3> QED BY <3>1, <3>2 DEF SaysWhatIs, Obj
  <2>3. CASE CreateRayJobFails
    <3>1. /\ ctl'.pc = "status" /\ ctl'.obj = [Obj EXCEPT !.state = "failed"] /\ Fault
      BY <2>3 DEF CreateRayJobFails, GoOn
    <3>2. ctl'.obj.state = "failed" /\ ctl'.obj.launched = Obj.launched
      BY <1>1, <3>1, RayFields
    <3> QED BY <1>1, <1>2, <3>1, <3>2 DEF SaysWhatIs, Obj, RemoteKept
  <2>4. CASE WatchRay
    <3>1. PICK s \in RayState : GoOn("status", [Obj EXCEPT !.state = s])
      BY <2>4 DEF WatchRay
    <3>2. /\ ctl'.pc = "status" /\ ctl'.obj = [Obj EXCEPT !.state = s]
          /\ remote' = remote /\ Obj.launched
      BY <1>1, <2>4, <3>1 DEF WatchRay, GoOn
    <3>4. [Obj EXCEPT !.state = s].state = s /\ [Obj EXCEPT !.state = s].launched = Obj.launched
      BY <1>1, RayFields
    <3>3. /\ s = "succeeded" => remote = "succeeded"
          /\ s = "failed" => remote \in {"none", "failed"}
      BY <3>1 DEF RayState
    <3> QED BY <1>1, <3>2, <3>3, <3>4 DEF SaysWhatIs, Obj
  <2> QED BY <2>1, <2>2, <2>3, <2>4
<1> QED BY <1>1, <1>3, <1>4 DEF RayInv, At

LEMMA RayReconciles ==
    ASSUME TypeOK, Asked, CopiesAreJobs, Ray, RayInv, Reconcile
    PROVE  SaysWhatIs(Obj)' /\ (At("watch") => Obj.launched)'
           /\ ctl'.pc \in {"idle", "create", "watch", "status"}
<1>1. CASE ctl' = Idle
  BY <1>1, ObjectType DEF SaysWhatIs, Obj, At
<1>2. CASE ctl' # Idle
  <2>1. /\ cache # NoJob /\ cache \in RayJobs /\ SaysWhatIs(cache)
        /\ ctl'.pc = RayEntry(cache)[1] /\ ctl'.obj = RayEntry(cache)[2]
        /\ UNCHANGED <<remote, kube, faults>>
    BY <1>2, ObjectType DEF Reconcile, TypeOK, RayInv, ray
  <2>2. CASE seen # "ready"
    <3>1. ctl'.pc = "status" /\ ctl'.obj = [cache EXCEPT !.state = "initializing"]
      BY <2>1, <2>2 DEF RayEntry
    <3>2. ctl'.obj.state = "initializing" /\ ctl'.obj.launched = cache.launched
      BY <2>1, <3>1, RayFields
    <3> QED BY <2>1, <3>1, <3>2 DEF SaysWhatIs, Obj, At
  <2>3. CASE seen = "ready"
    <3>1. ctl'.obj = cache /\ ctl'.pc = IF cache.launched THEN "watch" ELSE "create"
      BY <2>1, <2>3 DEF RayEntry
    <3> QED BY <2>1, <3>1 DEF SaysWhatIs, Obj, At
  <2> QED BY <2>2, <2>3
<1> QED BY <1>1, <1>2

LEMMA RayNext ==
    ASSUME TypeOK, Asked, CopiesAreJobs, RayInv, [Next]_vars
    PROVE  RayInv'
<1> SUFFICES ASSUME Ray PROVE RayInv'
  BY TypeNext DEF RayInv, NextTypes, Ray
<1>0. Idle.pc = "idle" /\ Idle.obj = NoJob /\ ~Spark
  BY ObjectType
<1>1. /\ SaysWhatIs(job) /\ SaysWhatIs(cache) /\ SaysWhatIs(Obj)
      /\ At("watch") => Obj.launched
      /\ ctl.pc \in {"idle", "create", "watch", "status"}
  BY DEF RayInv
<1>2. CASE CreateRayJob \/ CreateRayJobFails \/ WatchRay
  BY <1>2, RayLooks
<1>3. CASE CreateJob
  <2>1. /\ job'.state = "invalid" /\ ~job'.launched
        /\ UNCHANGED <<cache, ctl, remote, kube>> /\ (faults' = 0 => faults = 0)
    BY <1>0, <1>3, FaultType DEF CreateJob, NewJob, ray
  <2> QED BY <1>1, <2>1 DEF RayInv, SaysWhatIs, At, Obj
<1>4. CASE \/ RayFails \/ UpdateStatus \/ Conflict \/ RemoteTurns \/ ClusterDeleted \/ ClusterTurns
           \/ SensorRayJob \/ Cancelled \/ TerminateCluster \/ TerminateRead \/ TerminateFails
           \/ CacheSync \/ ClusterSync \/ Crash
  <2>1. RemoteKept
    BY <1>4, RemoteKeptNext DEF Next, Controller, RayController, Task
  <2>2. ctl' = ctl \/ ctl' = Idle
    BY <1>4 DEF RayFails, UpdateStatus, Conflict, RemoteTurns, ClusterDeleted, ClusterTurns,
       SensorRayJob, Cancelled, TerminateCluster, TerminateRead, TerminateFails, CacheSync,
       ClusterSync, Crash, End
  <2>3. (job' = job \/ job' = Obj) /\ (cache' = cache \/ cache' = job)
    BY <1>4 DEF RayFails, UpdateStatus, Conflict, RemoteTurns, ClusterDeleted, ClusterTurns,
       SensorRayJob, Cancelled, TerminateCluster, TerminateRead, TerminateFails, CacheSync,
       ClusterSync, Crash, Update, Store, store
  <2>4. SaysWhatIs(job)' /\ SaysWhatIs(cache)'
    BY <1>1, <2>1, <2>3, SaidStays DEF SaysWhatIs
  <2>5. SaysWhatIs(Obj)'
    BY <1>0, <1>1, <2>1, <2>2, SaidStays DEF SaysWhatIs, Obj
  <2> QED BY <1>0, <1>1, <2>2, <2>4, <2>5 DEF RayInv, At, Obj
<1>5. CASE Reconcile
  <2>1. UNCHANGED <<job, cache, remote, kube, faults>>
    BY <1>5 DEF Reconcile, ray
  <2> QED BY <1>1, <1>5, <2>1, RayReconciles DEF RayInv, SaysWhatIs
<1>6. CASE SparkController \/ SensorSparkJob \/ TerminateSparkJob
  BY <1>0, <1>6 DEF SparkController, WatchSpark, CreateSparkApplication, SparkFails,
     DeleteSparkApplication, MarkKilled, MarkImmutable, SensorSparkJob, TerminateSparkJob
<1>7. CASE UNCHANGED vars
  BY <1>1, <1>7 DEF vars, RayInv, SaysWhatIs, At, Obj, ray, store
<1> QED BY <1>2, <1>3, <1>4, <1>5, <1>6, <1>7 DEF Next, Controller, RayController, Task

-----------------------------------------------------------------------------
(* The theorems.                                                           *)

JobInv == TypeOK /\ Asked /\ CopiesAreJobs /\ SparkInv /\ RayInv

\* What the theorems rest on: what copies say of the job, and the job of its operator.
THEOREM JobInvariant == Spec => []JobInv
<1>1. Init => JobInv
  <2>1. ASSUME Init PROVE TypeOK
    <3>1. 0 \in 0..MaxFaults
      BY JobAssumption
    <3> QED BY <2>1, <3>1 DEF Init, TypeOK
  <2>2. Init => Asked /\ CopiesAreJobs /\ SparkInv /\ RayInv
    BY ObjectType DEF Init, Asked, CopiesAreJobs, SparkInv, SparkReconcile, SparkStored, RayInv,
       SaysWhatIs, At, Obj
  <2> QED BY <2>1, <2>2 DEF JobInv
<1>2. JobInv /\ [Next]_vars => JobInv'
  BY TypeNext, CopiesNext, SparkNext, RayNext DEF JobInv
<1> QED BY <1>1, <1>2, PTL DEF Spec

\* Nothing runs for a SparkJob that is shown as killed: a reconcile that creates an
\* application has not seen the termination, and the kill is written by one that has.
THEOREM KilledIsGone == Spec => []KilledLeavesNothing
<1>1. JobInv => KilledLeavesNothing
  BY DEF JobInv, SparkInv, SparkStored, KilledLeavesNothing, Killed, Stored
<1> QED BY <1>1, JobInvariant, PTL

LEMMA OutcomeStep ==
    ASSUME JobInv, [Next]_vars, Stored(Spark), job.succ # "unknown"
    PROVE  job'.succ = job.succ
<1> USE DEF JobInv
<1>0. /\ Spark /\ ~Ray /\ job # NoJob /\ job \in SparkJobs
      /\ SparkReconcile /\ SparkStored
  BY ObjectType DEF Stored, TypeOK, SparkInv
<1>1. CASE UpdateStatus
  BY <1>0, <1>1, SparkWrites
<1>2. CASE MarkKilled
  <2>1. job' = Obj /\ Obj.succ = "false" /\ Obj.term /\ Obj.term = job.term
    BY <1>0, <1>2 DEF MarkKilled, Update, Store, At, SparkReconcile
  <2>2. job.succ = "false"
    BY <1>0, <2>1 DEF SparkStored
  <2> QED BY <2>1, <2>2
<1>3. CASE MarkImmutable
  <2>1. job' = [Obj EXCEPT !.imm = TRUE] /\ Obj.succ = job.succ /\ Obj \in SparkJobs
    BY <1>0, <1>3, CopyType, ObjectType DEF MarkImmutable, Update, Store, At, SparkReconcile
  <2> QED BY <2>1, SparkFields
<1>4. CASE TerminateSparkJob
  <2>1. job' = [job EXCEPT !.term = TRUE]
    BY <1>4 DEF TerminateSparkJob, TaskUpdate, Store
  <2> QED BY <1>0, <2>1, SparkFields
<1>5. CASE CreateJob
  BY <1>0, <1>5 DEF CreateJob, Asked
<1>6. CASE RayController \/ SensorRayJob \/ TerminateCluster
  BY <1>0, <1>6 DEF RayController, CreateRayJob, CreateRayJobFails, WatchRay, RayFails, SensorRayJob,
     TerminateCluster
<1>7. CASE \/ Reconcile \/ WatchSpark \/ CreateSparkApplication \/ SparkFails
           \/ DeleteSparkApplication \/ Conflict \/ SensorSparkJob \/ Cancelled
           \/ TerminateRead \/ TerminateFails \/ RemoteTurns \/ ClusterDeleted
           \/ ClusterTurns \/ CacheSync \/ ClusterSync \/ Crash \/ UNCHANGED vars
  BY <1>7 DEF Reconcile, WatchSpark, CreateSparkApplication, SparkFails, DeleteSparkApplication,
     Conflict, SensorSparkJob, Cancelled, TerminateRead, TerminateFails, RemoteTurns,
     ClusterDeleted, ClusterTurns, CacheSync, ClusterSync, Crash, store, vars
<1> QED BY <1>1, <1>2, <1>3, <1>4, <1>5, <1>6, <1>7
     DEF Next, Controller, SparkController, Task

\* The outcome of a SparkJob is written once: what a kill writes over is not known yet,
\* since the task terminates no job whose outcome it could have read.
THEOREM OutcomeWrittenOnce == Spec => OutcomeIsFinal
<1>1. JobInv /\ [Next]_vars =>
        (Stored(Spark) /\ job.succ # "unknown" => job'.succ = job.succ)
  BY OutcomeStep
<1> QED BY <1>1, JobInvariant, PTL DEF Spec, OutcomeIsFinal

LEMMA VerdictStep ==
    ASSUME JobInv, [Next]_vars, verdict' # verdict
    PROVE  /\ verdict' = "succeeded" => remote = "succeeded"
           /\ verdict' = "failed" /\ (faults' = 0 \/ (Spark /\ task = "sense"))
                => remote = "failed"
<1> USE DEF JobInv
<1>1. CreateJob \/ SensorSparkJob \/ SensorRayJob
  BY DEF Next, Reconcile, Controller, SparkController, RayController, WatchSpark,
     CreateSparkApplication, SparkFails, DeleteSparkApplication, MarkKilled, MarkImmutable,
     CreateRayJob, CreateRayJobFails, WatchRay, RayFails, UpdateStatus, Conflict, Task, Cancelled,
     TerminateRead, TerminateSparkJob, TerminateFails, TerminateCluster, RemoteTurns,
     ClusterDeleted, ClusterTurns, CacheSync, ClusterSync, Crash, vars, wf
<1>2. CASE CreateJob
  <2>1. verdict' = "failed" /\ Fault /\ task # "sense"
    BY <1>2 DEF CreateJob
  <2> QED BY <2>1, FaultType
<1>3. CASE SensorSparkJob
  <2>1. /\ Spark /\ job # NoJob /\ verdict' = SparkVerdict(job)
        /\ job.succ # "unknown" \/ job.killed
        /\ SparkStored /\ job.succ \in {"unknown", "true", "false"} /\ job.term \in BOOLEAN
    BY <1>3, ObjectType DEF SensorSparkJob, Asked, SparkInv, TypeOK, SparkJobs
  <2>2. CASE job.killed
    BY <2>1, <2>2 DEF SparkVerdict
  <2>3. CASE ~job.killed
    <3>1. ~job.term
      BY <2>1, <2>3 DEF SparkStored
    <3> QED BY <2>1, <2>3, <3>1 DEF SparkStored, SparkVerdict
  <2> QED BY <2>2, <2>3
<1>4. CASE SensorRayJob
  <2>1. /\ Ray /\ ~Spark /\ job # NoJob /\ kube = "up" /\ verdict' = job.state /\ SaysWhatIs(job)
        /\ UNCHANGED faults
    BY <1>4, ObjectType DEF SensorRayJob, Asked, CopiesAreJobs, RayInv
  <2> QED BY <2>1 DEF SaysWhatIs
<1> QED BY <1>1, <1>2, <1>3, <1>4

\* A task reports success only of a job that its operator completed, whatever failed and
\* however old the copies were. The sensor of a SparkJob reports failure only of one that
\* failed, whatever fails: nobody terminates the job while it waits. The other reports of
\* failure are of a failed job when nothing fails.
THEOREM VerdictOfTheOperator == Spec => VerdictIsReal
<1>1. JobInv /\ [Next]_vars =>
        (verdict' # verdict =>
           /\ verdict' = "succeeded" => remote = "succeeded"
           /\ verdict' = "failed" /\ (faults' = 0 \/ (Spark /\ task = "sense"))
                => remote = "failed")
  BY VerdictStep
<1> QED BY <1>1, JobInvariant, PTL DEF Spec, VerdictIsReal, vars
-----------------------------------------------------------------------------
(* A job is not forgotten, and what was asked for stays asked for.         *)

\* A reconcile that goes on, or ends and asks to be called again.
LEMMA GoOnAwaits ==
    ASSUME NEW pc \in Pcs, NEW o, GoOn(pc, o)
    PROVE  Awaited'
BY DEF GoOn, Pcs, Awaited, At

LEMMA EndAwaits ==
    ASSUME End(TRUE)
    PROVE  Awaited'
BY DEF End, Awaited

LEMMA ControllerAwaits ==
    ASSUME JobInv, Controller
    PROVE  NotForgotten'
<1> USE DEF JobInv
<1>0. {"watch", "create", "status", "delete", "killed", "imm"} = Pcs
  BY DEF Pcs
<1>1. CASE \/ WatchSpark \/ CreateSparkApplication \/ SparkFails \/ DeleteSparkApplication
           \/ MarkKilled \/ CreateRayJob \/ CreateRayJobFails \/ WatchRay \/ RayFails \/ Conflict
  <2>1. Awaited'
    <3>1. CASE WatchSpark \/ CreateSparkApplication \/ DeleteSparkApplication \/ MarkKilled
      BY <1>0, <3>1, GoOnAwaits
         DEF WatchSpark, CreateSparkApplication, DeleteSparkApplication, MarkKilled
    <3>2. CASE CreateRayJob \/ CreateRayJobFails \/ WatchRay
      BY <1>0, <3>2, GoOnAwaits DEF CreateRayJob, CreateRayJobFails, WatchRay
    <3>3. CASE SparkFails \/ RayFails \/ Conflict
      BY <3>3, EndAwaits DEF SparkFails, RayFails, Conflict
    <3> QED BY <1>1, <3>1, <3>2, <3>3
  <2> QED BY <2>1 DEF NotForgotten
<1>2. CASE UpdateStatus
  <2>1. job' = Obj /\ kind' = kind /\ Obj \in Objects /\ Obj # NoJob
    BY <1>2, CopyType, ObjectType DEF UpdateStatus, Update, Store, At
  <2>2. CASE Again(Obj)
    <3>1. due'
      BY <1>2, <2>2 DEF UpdateStatus, End
    <3> QED BY <3>1 DEF NotForgotten, Awaited
  <2>3. CASE ~Again(Obj)
    <3>1. ~Spark /\ Over(Obj.state) /\ Obj.launched /\ Ray
      BY <2>3, JobAssumption DEF Again, Spark, Ray, TypeOK
    <3> QED BY <2>1, <3>1 DEF NotForgotten, Stored, Ray
  <2> QED BY <2>2, <2>3
<1>3. CASE MarkImmutable
  <2>1. /\ Spark /\ At("imm") /\ Obj \in SparkJobs /\ kind' = kind
        /\ job' = [Obj EXCEPT !.imm = TRUE]
    BY <1>3, CopyType, ObjectType DEF MarkImmutable, Update, Store, At
  <2>2. job' \in SparkJobs /\ job'.killed = Obj.killed /\ Obj.killed
    BY <2>1, SparkCopies, SparkFields DEF SparkInv, SparkReconcile
  <2>3. job' # NoJob
    BY <2>2, JobAssumption
  <2> QED BY <2>1, <2>2, <2>3 DEF NotForgotten, Killed, Stored, Spark
<1> QED BY <1>1, <1>2, <1>3 DEF Controller, SparkController, RayController

LEMMA NotForgottenNext ==
    ASSUME JobInv, NotForgotten, [Next]_vars
    PROVE  NotForgotten'
<1> USE DEF JobInv
<1>1. CASE Reconcile
  <2>1. /\ UNCHANGED <<kind, job, cache>> /\ ("cache" \in stale => "cache" \in stale')
        /\ "cache" \notin stale => cache = job
    BY <1>1 DEF Reconcile, CopiesAreJobs
  <2>2. CASE "cache" \in stale \/ cache = NoJob \/ (Spark /\ SparkEntry(cache) = "idle")
    BY <2>1, <2>2 DEF NotForgotten, Awaited, Killed, Stored, Spark, SparkEntry
  <2>3. CASE cache # NoJob /\ ~(Spark /\ SparkEntry(cache) = "idle")
    <3>1. Spark => ctl'.pc = SparkEntry(cache)
      BY <1>1, <2>3 DEF Reconcile
    <3>2. ~Spark => ctl'.pc = RayEntry(cache)[1]
      BY <1>1, <2>3 DEF Reconcile
    <3>3. RayEntry(cache)[1] # "idle"
      BY DEF RayEntry
    <3>4. ctl'.pc # "idle"
      BY <2>3, <3>1, <3>2, <3>3
    <3> QED BY <3>4 DEF NotForgotten, Awaited, At
  <2> QED BY <2>2, <2>3
<1>2. CASE Controller
  BY <1>2, ControllerAwaits
<1>3. CASE CreateJob
  <2>1. "cache" \in stale'
    BY <1>3 DEF CreateJob
  <2> QED BY <2>1 DEF NotForgotten, Awaited
<1>4. CASE TerminateSparkJob
  <2>1. UNCHANGED <<kind, due, ctl>> /\ ("cache" \in stale' \/ (job' = job /\ stale' = stale))
    BY <1>4 DEF TerminateSparkJob, TaskUpdate, Store
  <2> QED BY <2>1 DEF NotForgotten, Awaited, Killed, Stored, Spark, Ray, At
<1>5. CASE CacheSync \/ Crash
  BY <1>5 DEF CacheSync, Crash, NotForgotten, Awaited
<1>6. CASE \/ SensorSparkJob \/ SensorRayJob \/ Cancelled \/ TerminateRead \/ TerminateFails
           \/ TerminateCluster \/ RemoteTurns \/ ClusterDeleted \/ ClusterTurns \/ ClusterSync
           \/ UNCHANGED vars
  <2>1. UNCHANGED <<kind, job, due, ctl>> /\ ("cache" \in stale => "cache" \in stale')
    BY <1>6 DEF SensorSparkJob, SensorRayJob, Cancelled, TerminateRead, TerminateFails,
       TerminateCluster, RemoteTurns, ClusterDeleted, ClusterTurns, ClusterSync, store, vars
  <2> QED BY <2>1 DEF NotForgotten, Awaited, Killed, Stored, Spark, Ray, At
<1> QED BY <1>1, <1>2, <1>3, <1>4, <1>5, <1>6 DEF Next, Task

\* Somebody looks at every job that is not finished with: a RayJob may be left alone once it
\* was submitted and is over, a SparkJob only when it was killed.
THEOREM JobIsKept == Spec => []NotForgotten
<1>1. Init => NotForgotten
  BY DEF Init, NotForgotten
<1>2. JobInv /\ NotForgotten /\ [Next]_vars => NotForgotten'
  BY NotForgottenNext
<1> QED BY <1>1, <1>2, JobInvariant, PTL DEF Spec

LEMMA StopStep ==
    ASSUME JobInv, [Next]_vars, Stored(Spark)
    PROVE  (job.term => job'.term) /\ (job.killed => job'.killed)
<1> USE DEF JobInv
<1>0. /\ Spark /\ ~Ray /\ job # NoJob /\ job \in SparkJobs
      /\ SparkReconcile /\ SparkStored
  BY ObjectType DEF Stored, TypeOK, SparkInv
<1>1. CASE UpdateStatus
  <2>1. job' = Obj /\ ctl.pc = "status" /\ Obj.term = job.term
    BY <1>0, <1>1 DEF UpdateStatus, Update, Store, At, SparkReconcile
  <2> QED BY <1>0, <2>1 DEF SparkStored
<1>2. CASE MarkKilled
  BY <1>0, <1>2 DEF MarkKilled, Update, Store, At, SparkReconcile
<1>3. CASE MarkImmutable
  <2>1. job' = [Obj EXCEPT !.imm = TRUE] /\ Obj.term /\ Obj.killed /\ Obj \in SparkJobs
    BY <1>0, <1>3, CopyType, ObjectType DEF MarkImmutable, Update, Store, At, SparkReconcile
  <2> QED BY <2>1, SparkFields
<1>4. CASE TerminateSparkJob
  <2>1. job' = [job EXCEPT !.term = TRUE]
    BY <1>4 DEF TerminateSparkJob, TaskUpdate, Store
  <2> QED BY <1>0, <2>1, SparkFields
<1>5. CASE CreateJob
  BY <1>0, <1>5 DEF CreateJob, Asked
<1>6. CASE RayController \/ SensorRayJob \/ TerminateCluster
  BY <1>0, <1>6 DEF RayController, CreateRayJob, CreateRayJobFails, WatchRay, RayFails, SensorRayJob,
     TerminateCluster
<1>7. CASE \/ Reconcile \/ WatchSpark \/ CreateSparkApplication \/ SparkFails
           \/ DeleteSparkApplication \/ Conflict \/ SensorSparkJob \/ Cancelled
           \/ TerminateRead \/ TerminateFails \/ RemoteTurns \/ ClusterDeleted
           \/ ClusterTurns \/ CacheSync \/ ClusterSync \/ Crash \/ UNCHANGED vars
  <2>1. job' = job
    BY <1>7 DEF Reconcile, WatchSpark, CreateSparkApplication, SparkFails, DeleteSparkApplication,
       Conflict, SensorSparkJob, Cancelled, TerminateRead, TerminateFails, RemoteTurns,
       ClusterDeleted, ClusterTurns, CacheSync, ClusterSync, Crash, store, vars
  <2> QED BY <2>1
<1> QED BY <1>1, <1>2, <1>3, <1>4, <1>5, <1>6, <1>7
     DEF Next, Controller, SparkController, Task

\* The termination a task asked for and the kill that followed are not written over: each of
\* the two writes only over what it has seen.
THEOREM StopStays == Spec => StopIsKept
<1>1. JobInv /\ [Next]_vars =>
        (Stored(Spark) => (job.term => job'.term) /\ (job.killed => job'.killed))
  BY StopStep
<1> QED BY <1>1, JobInvariant, PTL DEF Spec, StopIsKept

=============================================================================
