-------------------------- MODULE RayClusterProofs --------------------------
(***************************************************************************)
(* A cluster's termination for any number of compute clusters and of       *)
(* failures: what old reads may say, and what they cannot cause.  And its  *)
(* one entry in the scheduler's queue.                                     *)
(***************************************************************************)
EXTENDS RayCluster, TLAPS

-----------------------------------------------------------------------------
(* Types.                                                                  *)

LEMMA CallType ==
    ASSUME TypeOK, NEW pc \in {"enqueue", "markLaunched", "markFailed", "kill", "markKilled"},
           Call(pc)
    PROVE  ctl' \in Reconcile /\ ctl'.pc = pc
BY DEF Call, Reconcile

LEMMA IdleType == Idle \in Reconcile /\ Idle.pc = "idle"
BY DEF Idle, Reconcile

LEMMA ToWrite ==
    ASSUME TypeOK, At("writeStatus") \/ At("cleanup")
    PROVE  ctl.obj \in Status
BY DEF TypeOK, At, Reconcile

LEMMA ToAssign ==
    ASSUME TypeOK, sch.pc = "assign"
    PROVE  sch.kube \in KubeClusters
BY DEF TypeOK, Assignment

LEMMA AddType ==
    ASSUME TypeOK, Queue!Add(Ray)
    PROVE  pending' = <<Ray>> /\ held' = held
<1>1. pending = <<>>
  BY DEF TypeOK, Queue!Add
<1> QED BY <1>1 DEF Queue!Add

LEMMA TakeType ==
    ASSUME TypeOK, Queue!Take
    PROVE  pending' = <<>> /\ held' \subseteq {Ray}
<1>1. pending = <<Ray>>
  BY DEF TypeOK, Queue!Take
<1>2. Head(pending) = Ray /\ Tail(pending) = <<>>
  BY <1>1
<1> QED BY <1>2 DEF TypeOK, Queue!Take

LEMMA DoneType ==
    ASSUME TypeOK, SchedulerDone
    PROVE  pending' = pending /\ held' \subseteq {Ray} /\ sch' \in Assignment /\ sch'.pc = "idle"
BY DEF TypeOK, SchedulerDone, Queue!Done, NoAssignment, Assignment

LEMMA FaultType ==
    ASSUME TypeOK, Fault
    PROVE  faults' \in 0..MaxFaults /\ faults' # 0
BY RayAssumption DEF TypeOK, Fault

LEMMA KilledType ==
    ASSUME NEW o \in Status, NEW early \in BOOLEAN
    PROVE  [o EXCEPT !.killed = TRUE, !.killing = "false", !.early = early] \in Status
<1>1. [o EXCEPT !.killed = TRUE] \in Status
  BY DEF Status
<1>2. [[o EXCEPT !.killed = TRUE] EXCEPT !.killing = "false"] \in Status
  BY <1>1 DEF Status, Conditions
<1>3. [[[o EXCEPT !.killed = TRUE] EXCEPT !.killing = "false"] EXCEPT !.early = early] \in Status
  BY <1>2 DEF Status
<1> QED BY <1>3

LEMMA ControllerTypes ==
    ASSUME TypeOK, Controller
    PROVE  TypeOK'
<1> USE DEF TypeOK, clusters, queue
<1>1. CASE MarkEnqueued
  <2>1. ctl' \in Reconcile
    BY <1>1, CallType DEF MarkEnqueued
  <2> QED BY <1>1, <2>1 DEF MarkEnqueued, Status
<1>2. CASE Enqueue
  BY <1>2, IdleType, AddType DEF Enqueue
<1>3. CASE CreateJobCluster
  <2>1. ctl' \in Reconcile
    BY <1>3, CallType DEF CreateJobCluster
  <2> QED BY <1>3, <2>1 DEF CreateJobCluster
<1>4. CASE CreateFails
  <2>1. ctl' \in Reconcile
    BY <1>4, CallType DEF CreateFails
  <2> QED BY <1>4, <2>1, FaultType DEF CreateFails
<1>5. CASE MarkLaunched
  BY <1>5, IdleType DEF MarkLaunched, Status
<1>6. CASE MarkFailed
  BY <1>6, IdleType DEF MarkFailed, Status, Conditions
<1>7. CASE Monitor
  <2>1. [cache EXCEPT !.succeeded = "false"] \in Status
    BY DEF Status, Conditions
  <2> QED BY <1>7, <2>1 DEF Monitor, Reconcile
<1>8. CASE WriteStatus
  <2>1. ctl.obj \in Status
    BY <1>8, ToWrite DEF WriteStatus
  <2>2. ray' \in Status
    BY <1>8, <2>1 DEF WriteStatus, Status
  <2> QED BY <1>8, <2>2, IdleType DEF WriteStatus
<1>9. CASE SetSucceeded
  <2>1. CASE NeedsKill(cache) /\ Call("kill")
    BY <1>9, <2>1, CallType DEF SetSucceeded, Status, Conditions
  <2>2. CASE ctl' \in {Idle, [pc |-> "cleanup", obj |-> cache]}
    BY <1>9, <2>2, IdleType DEF SetSucceeded, Status, Conditions, Reconcile
  <2> QED BY <1>9, <2>1, <2>2 DEF SetSucceeded
<1>10. CASE SetKilling
  BY <1>10, IdleType DEF SetKilling, Status, Conditions
<1>11. CASE CleanupEarly
  <2>1. ray' \in Status
    BY <1>11, KilledType DEF CleanupEarly
  <2> QED BY <1>11, <2>1, IdleType DEF CleanupEarly
<1>12. CASE DeleteJobCluster
  <2>1. ctl' \in Reconcile
    BY <1>12, CallType DEF DeleteJobCluster
  <2> QED BY <1>12, <2>1 DEF DeleteJobCluster
<1>13. CASE MarkKilled
  <2>1. ray' \in Status
    BY <1>13, KilledType DEF MarkKilled
  <2> QED BY <1>13, <2>1, IdleType DEF MarkKilled
<1>14. CASE CallFails
  BY <1>14, IdleType, FaultType DEF CallFails
<1> QED
  BY <1>1, <1>2, <1>3, <1>4, <1>5, <1>6, <1>7, <1>8, <1>9, <1>10, <1>11, <1>12,
     <1>13, <1>14
  DEF Controller

LEMMA SchedulerTypes ==
    ASSUME TypeOK, Scheduler
    PROVE  TypeOK'
<1> USE DEF TypeOK, clusters, queue
<1>1. CASE Schedule
  <2>1. sch' \in Assignment
    BY <1>1 DEF Schedule, Assignment
  <2> QED BY <1>1, <2>1, TakeType DEF Schedule
<1>2. CASE Skip
  BY <1>2, DoneType DEF Skip
<1>3. CASE Assign
  <2>1. ray' \in Status
    BY <1>3, ToAssign DEF Assign, Status
  <2> QED BY <1>3, <2>1, DoneType DEF Assign
<1>4. CASE Refuse
  <2>1. ray' \in Status
    BY <1>4 DEF Refuse, Status
  <2> QED BY <1>4, <2>1, DoneType DEF Refuse
<1>5. CASE AssignmentFails
  BY <1>5, DoneType, FaultType DEF AssignmentFails
<1> QED BY <1>1, <1>2, <1>3, <1>4, <1>5 DEF Scheduler

LEMMA TypeStep ==
    ASSUME TypeOK, [Next]_vars
    PROVE  TypeOK'
<1> USE DEF TypeOK, clusters, queue
<1>1. CASE Sync
  BY <1>1 DEF Sync
<1>2. CASE Restart
  BY <1>2, IdleType, FaultType DEF Restart, NoAssignment, Assignment
<1>3. ASSUME NEW k \in KubeClusters, Register(k)
      PROVE  TypeOK'
  BY <1>3 DEF Register
<1>4. ASSUME NEW k \in KubeClusters, Unregister(k)
      PROVE  TypeOK'
  BY <1>4, FaultType DEF Unregister
<1>5. ASSUME NEW k \in KubeClusters, RemoteTurns(k, "up", "bad") \/ RemoteTurns(k, "bad", "up")
      PROVE  TypeOK'
  BY <1>5 DEF RemoteTurns
<1>6. ASSUME NEW t \in {"succeeded", "failed"}, Terminate(t)
      PROVE  TypeOK'
  BY <1>6 DEF Terminate, Status
<1>7. CASE UNCHANGED vars
  BY <1>7 DEF vars
<1> QED
  BY <1>1, <1>2, <1>3, <1>4, <1>5, <1>6, <1>7, ControllerTypes, SchedulerTypes DEF Next

LEMMA InitType == Init => TypeOK
BY RayAssumption
DEF Init, TypeOK, Queue!Init, NewStatus, Status, Conditions, Idle, Reconcile,
    NoAssignment, Assignment

\* The controller, the scheduler and the cache are always at a step of the code,
\* with a status a cluster can have.
THEOREM TypeCorrect == Spec => []TypeOK
<1>1. TypeOK /\ [Next]_vars => TypeOK'
  BY TypeStep
<1> QED BY <1>1, InitType, PTL DEF Spec

-----------------------------------------------------------------------------
(* Old reads.                                                              *)

\* The steps that change neither the object, nor the cache, nor the reconcile.
LEMMA ReadsStutter ==
    ASSUME ReadsCatchUp, UNCHANGED <<ray, cache, ctl>>
    PROVE  ReadsCatchUp'
BY DEF ReadsCatchUp, At, ShouldTerminate

\* The steps that end the reconcile and change nothing it reads.
LEMMA ReadsEnd ==
    ASSUME ReadsCatchUp, UNCHANGED <<ray, cache>>, ctl'.pc \in {"idle", "enqueue", "markLaunched", "markFailed"}
    PROVE  ReadsCatchUp'
BY DEF ReadsCatchUp, At, ShouldTerminate

LEMMA ReadsController ==
    ASSUME TypeOK, ReadsCatchUp, Controller
    PROVE  ReadsCatchUp'
<1> USE DEF ReadsCatchUp, At, ShouldTerminate, TypeOK, Status
<1>1. CASE MarkEnqueued
  <2>1. ctl'.pc = "enqueue"
    BY <1>1 DEF MarkEnqueued, Call
  <2> QED BY <1>1, <2>1 DEF MarkEnqueued
<1>2. CASE Enqueue
  BY <1>2, IdleType, ReadsEnd DEF Enqueue
<1>3. CASE CreateJobCluster \/ CreateFails
  <2>1. ctl'.pc \in {"markLaunched", "markFailed"}
    BY <1>3 DEF CreateJobCluster, CreateFails, Call
  <2> QED BY <1>3, <2>1, ReadsEnd DEF CreateJobCluster, CreateFails
<1>4. CASE MarkLaunched
  BY <1>4, IdleType DEF MarkLaunched
<1>5. CASE MarkFailed
  BY <1>5, IdleType DEF MarkFailed
<1>6. CASE Monitor
  <2>1. ctl'.pc = "writeStatus" /\ ctl'.obj.launched /\ cache.launched
    BY <1>6 DEF Monitor, Dispatching
  <2> QED BY <1>6, <2>1 DEF Monitor
<1>7. CASE WriteStatus
  <2>1. ray'.launched /\ ray'.term = ray.term /\ cache.launched
    BY <1>7, ToWrite DEF WriteStatus
  <2> QED BY <1>7, <2>1, IdleType DEF WriteStatus
<1>8. CASE SetSucceeded
  <2>1. /\ cache' = cache
        /\ ray'.succeeded # "unknown"
        /\ ray'.term = ray.term /\ ray'.launched = ray.launched
        /\ ray'.killing = ray.killing /\ ray'.killed = ray.killed
    BY <1>8 DEF SetSucceeded
  <2>2. cache.term # "none"
    BY <1>8 DEF SetSucceeded, Terminating
  <2>3. ctl'.pc \in {"idle", "kill"} \/ (ctl'.pc = "cleanup" /\ ctl'.obj = cache)
    BY <1>8, IdleType DEF SetSucceeded, Call
  <2> QED BY <2>1, <2>2, <2>3
<1>9. CASE SetKilling
  BY <1>9, IdleType DEF SetKilling, Terminating
<1>10. CASE CleanupEarly
  <2>1. /\ cache' = cache /\ ctl'.pc = "idle"
        /\ ray'.term = ray.term /\ ray'.launched = ray.launched
        /\ ray'.succeeded = ray.succeeded
    BY <1>10, IdleType DEF CleanupEarly
  <2>2. cache.term # "none" \/ cache.succeeded # "unknown"
    BY <1>10 DEF CleanupEarly, CleaningUp
  <2> QED BY <2>1, <2>2
<1>11. CASE DeleteJobCluster
  <2>1. ctl'.pc = "markKilled" /\ cache.launched
    BY <1>11 DEF DeleteJobCluster, Call, Read
  <2> QED BY <1>11, <2>1 DEF DeleteJobCluster
<1>12. CASE MarkKilled
  <2>1. /\ cache' = cache
        /\ ray'.term = ray.term /\ ray'.launched = ray.launched
        /\ ray'.succeeded = ray.succeeded
    BY <1>12 DEF MarkKilled
  <2>2. cache.launched
    BY <1>12 DEF MarkKilled
  <2>3. ctl'.pc = "idle"
    BY <1>12, IdleType DEF MarkKilled
  <2> QED BY <2>1, <2>2, <2>3
<1>13. CASE CallFails
  BY <1>13, IdleType, ReadsEnd DEF CallFails
<1> QED
  BY <1>1, <1>2, <1>3, <1>4, <1>5, <1>6, <1>7, <1>8, <1>9, <1>10, <1>11, <1>12, <1>13
  DEF Controller

LEMMA ReadsStep ==
    ASSUME TypeOK, ReadsCatchUp, [Next]_vars
    PROVE  ReadsCatchUp'
<1>1. CASE Schedule \/ Skip \/ AssignmentFails
  BY <1>1, ReadsStutter DEF Schedule, Skip, AssignmentFails
<1>2. CASE Assign \/ Refuse
  <2>1. /\ UNCHANGED <<cache, ctl>>
        /\ ray'.term = ray.term /\ ray'.launched = ray.launched
        /\ ray'.succeeded = ray.succeeded
        /\ ray'.killing = ray.killing /\ ray'.killed = ray.killed
    BY <1>2 DEF Assign, Refuse, TypeOK, Status
  <2> QED BY <2>1 DEF ReadsCatchUp, At, ShouldTerminate
<1>3. CASE Sync
  BY <1>3 DEF Sync, ReadsCatchUp, At, ShouldTerminate
<1>4. CASE Restart
  BY <1>4, IdleType DEF Restart, ReadsCatchUp, At, ShouldTerminate
<1>5. ASSUME NEW k \in KubeClusters,
             \/ Register(k) \/ Unregister(k)
             \/ RemoteTurns(k, "up", "bad") \/ RemoteTurns(k, "bad", "up")
      PROVE  ReadsCatchUp'
  BY <1>5, ReadsStutter DEF Register, Unregister, RemoteTurns
<1>6. ASSUME NEW t \in {"succeeded", "failed"}, Terminate(t)
      PROVE  ReadsCatchUp'
  BY <1>6 DEF Terminate, TypeOK, Status, ReadsCatchUp, At, ShouldTerminate
<1>7. CASE UNCHANGED vars
  BY <1>7, ReadsStutter DEF vars
<1> QED
  BY <1>1, <1>2, <1>3, <1>4, <1>5, <1>6, <1>7, ReadsController DEF Next, Scheduler

\* What an old read says of a termination is never more than what is recorded.
THEOREM OldReadsAreSound == Spec => [](TypeOK /\ ReadsCatchUp)
<1>1. Init => ReadsCatchUp
  BY DEF Init, NewStatus, Idle, ReadsCatchUp, At, ShouldTerminate
<1>2. TypeOK /\ ReadsCatchUp /\ [Next]_vars => (TypeOK /\ ReadsCatchUp)'
  BY TypeStep, ReadsStep
<1> QED BY <1>1, <1>2, InitType, PTL DEF Spec

\* A step that creates the object on a compute cluster.
LEMMA WhoCreates ==
    ASSUME TypeOK, [Next]_vars, NEW k \in KubeClusters, remote[k] = "none", remote'[k] # "none"
    PROVE  CreateJobCluster \/ CreateFails
<1>1. ~UNCHANGED remote
  OBVIOUS
<1>2. ~DeleteJobCluster
  BY DEF DeleteJobCluster, TypeOK
<1>3. \A h \in KubeClusters : ~RemoteTurns(h, "up", "bad") /\ ~RemoteTurns(h, "bad", "up")
  BY DEF RemoteTurns, TypeOK
<1> QED
  BY <1>1, <1>2, <1>3
  DEF Next, vars, Controller, Scheduler, MarkEnqueued, Enqueue, MarkLaunched, MarkFailed, Monitor,
      WriteStatus, SetSucceeded, SetKilling, CleanupEarly, MarkKilled, CallFails,
      Schedule, Skip, Assign, Refuse, AssignmentFails, Sync, Restart, Register, Unregister,
      Terminate

\* An object that nothing would ever delete is never created: not by a
\* controller that reads an old cache, not after a restart, not by a retry.
THEOREM NoLateCreate == Spec => NoCreateOnceKilling
<1>1. TypeOK /\ ReadsCatchUp /\ [Next]_vars =>
        [\A k \in KubeClusters : remote[k] = "none" /\ remote'[k] # "none" =>
            ray.killing = "unknown" /\ ~ray.killed]_vars
  <2> SUFFICES ASSUME TypeOK, ReadsCatchUp, [Next]_vars,
                      NEW k \in KubeClusters, remote[k] = "none", remote'[k] # "none"
               PROVE  ray.killing = "unknown" /\ ~ray.killed
    OBVIOUS
  <2>1. ~ShouldTerminate(cache) /\ ~cache.launched
    BY WhoCreates DEF CreateJobCluster, CreateFails, Dispatching, Running
  <2> QED BY <2>1 DEF ReadsCatchUp
<1> QED BY <1>1, OldReadsAreSound, PTL DEF Spec, NoCreateOnceKilling

-----------------------------------------------------------------------------
(* One compute cluster, no failure: a kill leaves nothing behind.          *)

KillInv == TypeOK /\ ReadsCatchUp /\ CalmInv

\* The steps that only run the reconcile and leave everything where it is.
LEMMA CalmCalls ==
    ASSUME KillInv, UNCHANGED <<ray, cache, remote, sch, faults>>,
           known \subseteq known',
           \/ ctl' = ctl
           \/ ctl'.pc \in {"idle", "enqueue", "kill"} /\ ~At("markLaunched")
    PROVE  CalmInv'
BY DEF KillInv, CalmInv, Calm, Read, Registered, At, ShouldTerminate

LEMMA CalmEnqueue ==
    ASSUME KillInv, MarkEnqueued \/ Enqueue
    PROVE  CalmInv'
<1>1. CASE MarkEnqueued
  <2>1. /\ ray' = [ray EXCEPT !.enqueued = TRUE] /\ ctl'.pc = "enqueue" /\ At("idle")
        /\ UNCHANGED <<cache, remote, known, sch, faults>>
    BY <1>1 DEF MarkEnqueued, Running, Call, clusters
  <2>2. /\ ray'.scheduled = ray.scheduled /\ ray'.kube = ray.kube
        /\ ray'.launched = ray.launched /\ ray'.killing = ray.killing
        /\ ray'.killed = ray.killed
    BY <2>1 DEF KillInv, TypeOK, Status
  <2> QED BY <2>1, <2>2 DEF KillInv, CalmInv, Calm, Read, Registered, At, ShouldTerminate
<1>2. CASE Enqueue
  BY <1>2, IdleType, CalmCalls DEF Enqueue, At, Running, clusters
<1> QED BY <1>1, <1>2

LEMMA CalmCreate ==
    ASSUME KillInv, CreateJobCluster
    PROVE  CalmInv'
<1> SUFFICES ASSUME faults = 0
             PROVE  Calm'
  BY DEF CreateJobCluster, CalmInv
<1>1. /\ cache.scheduled /\ ~cache.launched /\ ~ShouldTerminate(cache)
      /\ At("idle") /\ ctl'.pc = "markLaunched"
      /\ UNCHANGED <<ray, cache, known, sch>>
  BY DEF CreateJobCluster, Dispatching, Assigned, Running, Call, clusters
<1>2. Calm
  BY DEF KillInv, CalmInv
<1>3. ray.killing = "unknown" /\ ~ray.killed /\ ~cache.killed
  BY <1>1, <1>2 DEF KillInv, ReadsCatchUp, Calm
<1> QED BY <1>1, <1>2, <1>3 DEF Calm, Read, Registered, At, ShouldTerminate

LEMMA CalmLaunched ==
    ASSUME KillInv, MarkLaunched
    PROVE  CalmInv'
<1>1. /\ At("markLaunched") /\ ray' = [ray EXCEPT !.launched = TRUE] /\ ctl'.pc = "idle"
      /\ UNCHANGED <<cache, remote, known, sch, faults>>
  BY IdleType DEF MarkLaunched, clusters
<1>2. /\ ray'.scheduled = ray.scheduled /\ ray'.kube = ray.kube
      /\ ray'.launched /\ ray'.killing = ray.killing /\ ray'.killed = ray.killed
  BY <1>1 DEF KillInv, TypeOK, Status
<1> QED BY <1>1, <1>2 DEF KillInv, CalmInv, Calm, Read, Registered, At, ShouldTerminate

LEMMA CalmMonitor ==
    ASSUME KillInv, Monitor
    PROVE  CalmInv'
<1> SUFFICES ASSUME faults = 0
             PROVE  Calm'
  BY DEF Monitor, CalmInv
<1>1. /\ cache.scheduled /\ cache.kube \in known /\ cache.launched
      /\ At("idle") /\ remote[cache.kube] # "none"
      /\ ctl'.pc = "writeStatus"
      /\ UNCHANGED <<ray, cache, remote, known, sch>>
  BY DEF Monitor, Dispatching, Assigned, Running, clusters
<1>2. Calm
  BY DEF KillInv, CalmInv
<1>3. ~cache.killed
  BY <1>1, <1>2 DEF Calm, KillInv, TypeOK
<1>4. /\ ctl'.obj.scheduled = cache.scheduled /\ ctl'.obj.kube = cache.kube
      /\ ctl'.obj.killed = cache.killed
  BY DEF Monitor, KillInv, TypeOK, Status
<1> QED BY <1>1, <1>2, <1>3, <1>4 DEF Calm, Read, Registered, At, ShouldTerminate

LEMMA CalmWrite ==
    ASSUME KillInv, WriteStatus
    PROVE  CalmInv'
<1> SUFFICES ASSUME faults = 0
             PROVE  Calm'
  BY DEF WriteStatus, CalmInv
<1>1. /\ At("writeStatus") /\ ctl.obj \in Status /\ ctl'.pc = "idle"
      /\ ray' = [ctl.obj EXCEPT !.term = ray.term]
      /\ UNCHANGED <<cache, remote, known, sch>>
  BY ToWrite, IdleType DEF WriteStatus, clusters, KillInv
<1>2. Calm
  BY DEF KillInv, CalmInv
<1>3. cache.launched /\ ctl.obj.launched /\ ray.launched
  BY <1>1 DEF KillInv, ReadsCatchUp
<1>4. /\ ray'.scheduled /\ ray'.kube \in known /\ ray'.launched /\ ~ray'.killed
  BY <1>1, <1>2, <1>3 DEF Calm, Status
<1> QED BY <1>1, <1>2, <1>3, <1>4 DEF Calm, Read, Registered, At, ShouldTerminate

LEMMA CalmTermination ==
    ASSUME KillInv, SetSucceeded \/ SetKilling
    PROVE  CalmInv'
<1>1. /\ ~At("markLaunched") /\ ~At("cleanup")
      /\ ctl'.pc \in {"idle", "kill"} \/ (ctl'.pc = "cleanup" /\ ctl'.obj = cache)
      /\ UNCHANGED <<cache, remote, known, sch, faults>>
      /\ ray'.scheduled = ray.scheduled /\ ray'.kube = ray.kube
      /\ ray'.launched = ray.launched /\ ray'.killed = ray.killed
  BY IdleType DEF SetSucceeded, SetKilling, Terminating, At, Call, clusters,
                  KillInv, TypeOK, Status
<1>2. ray'.killing \in {ray.killing, "true"}
  BY DEF SetSucceeded, SetKilling, KillInv, TypeOK, Status
<1> QED BY <1>1, <1>2 DEF KillInv, CalmInv, Calm, Read, Registered, At, ShouldTerminate

LEMMA CalmCleanup ==
    ASSUME NEW k, KubeClusters = {k}, KillInv, CleanupEarly \/ DeleteJobCluster \/ MarkKilled
    PROVE  CalmInv'
<1> SUFFICES ASSUME faults = 0
             PROVE  Calm'
  BY DEF CleanupEarly, DeleteJobCluster, MarkKilled, CalmInv
<1>1. Calm
  BY DEF KillInv, CalmInv
<1>2. CASE CleanupEarly
  <2>1. /\ At("idle") \/ At("cleanup")
        /\ Read.killing = "true"
        /\ ~Assigned(Read) \/ ~Read.launched
        /\ ctl'.pc = "idle"
        /\ UNCHANGED <<cache, remote, known, sch>>
    BY <1>2, IdleType DEF CleanupEarly, CleaningUp, Terminating, clusters
  <2>2. ~Read.launched /\ ~ray.launched
    BY <1>1, <2>1 DEF Calm, Registered, Assigned
  <2>3. \A h \in KubeClusters : remote[h] = "none"
    BY <1>1, <2>1, <2>2 DEF Calm, At
  <2>4. /\ ray'.scheduled = ray.scheduled /\ ray'.kube = ray.kube
        /\ ray'.launched = ray.launched
    BY <1>2 DEF CleanupEarly, KillInv, TypeOK, Status
  <2>5. ray'.killing = "false"
    BY <1>2 DEF CleanupEarly, KillInv, TypeOK, Status
  <2> QED BY <1>1, <2>1, <2>2, <2>3, <2>4, <2>5 DEF Calm, Read, Registered, At, ShouldTerminate
<1>3. CASE DeleteJobCluster
  <2>1. /\ At("idle") \/ At("cleanup")
        /\ Read.scheduled /\ Read.launched /\ ctl'.pc = "markKilled"
        /\ UNCHANGED <<ray, cache, known, sch>>
    BY <1>3 DEF DeleteJobCluster, CleaningUp, Terminating, Assigned, Call, clusters
  <2>2. Read.kube = k
    BY <1>1, <2>1 DEF Calm, Registered, KillInv, TypeOK
  <2>3. \A h \in KubeClusters : remote'[h] = "none"
    BY <1>3, <2>2 DEF DeleteJobCluster, KillInv, TypeOK
  <2> QED BY <1>1, <2>1, <2>3 DEF Calm, Read, Registered, At, ShouldTerminate
<1>4. CASE MarkKilled
  <2>1. /\ At("markKilled") /\ ctl'.pc = "idle"
        /\ UNCHANGED <<cache, remote, known, sch>>
    BY <1>4, IdleType DEF MarkKilled, clusters
  <2>2. /\ ray'.scheduled = ray.scheduled /\ ray'.kube = ray.kube
        /\ ray'.launched = ray.launched
    BY <1>4 DEF MarkKilled, KillInv, TypeOK, Status
  <2>3. ray'.killing = "false"
    BY <1>4 DEF MarkKilled, KillInv, TypeOK, Status
  <2> QED BY <1>1, <2>1, <2>2, <2>3 DEF Calm, Read, Registered, At, ShouldTerminate
<1> QED BY <1>2, <1>3, <1>4

LEMMA CalmScheduler ==
    ASSUME KillInv, Schedule \/ Skip \/ Assign \/ Refuse
    PROVE  CalmInv'
<1> SUFFICES ASSUME faults = 0
             PROVE  Calm'
  BY DEF Schedule, Skip, Assign, Refuse, CalmInv
<1>1. Calm /\ UNCHANGED <<cache, remote, known, ctl>>
  BY DEF KillInv, CalmInv, Schedule, Skip, Assign, Refuse, clusters
<1>2. CASE Schedule
  <2>1. /\ ray' = ray
        /\ sch'.pc = "assign" => sch'.kube \in known
        /\ sch'.pc = "refuse" => ~cache.scheduled /\ known = {}
    BY <1>2 DEF Schedule, Selected
  <2>2. known = {} => ~ray.scheduled
    BY <1>1 DEF Calm, Registered
  <2> QED BY <1>1, <2>1, <2>2 DEF Calm, Read, Registered, At, ShouldTerminate
<1>3. CASE Skip
  BY <1>1, <1>3, DoneType DEF Skip, KillInv, Calm, Read, Registered, At, ShouldTerminate
<1>4. CASE Assign
  <2>1. sch.kube \in known /\ sch'.pc = "idle"
    BY <1>1, <1>4, DoneType DEF Assign, KillInv, Calm
  <2>2. /\ ray'.scheduled /\ ray'.kube = sch.kube
        /\ ray'.launched = ray.launched /\ ray'.killing = ray.killing
        /\ ray'.killed = ray.killed
    BY <1>4 DEF Assign, KillInv, TypeOK, Status
  <2> QED BY <1>1, <2>1, <2>2 DEF Calm, Read, Registered, At, ShouldTerminate
<1>5. CASE Refuse
  <2>1. sch'.pc = "idle" /\ sch.pc = "refuse"
    BY <1>5, DoneType DEF Refuse, KillInv
  <2>2. /\ ray'.scheduled = FALSE /\ ray'.kube = ray.kube
        /\ ray'.launched = ray.launched /\ ray'.killing = ray.killing
        /\ ray'.killed = ray.killed
    BY <1>5 DEF Refuse, KillInv, TypeOK, Status
  <2> QED BY <1>1, <2>1, <2>2 DEF Calm, Read, Registered, At, ShouldTerminate
<1> QED BY <1>2, <1>3, <1>4, <1>5

LEMMA CalmFaults ==
    ASSUME KillInv,
           \/ CreateFails \/ CallFails \/ AssignmentFails \/ Restart
           \/ \E k \in KubeClusters : Unregister(k)
    PROVE  CalmInv'
BY FaultType DEF CreateFails, CallFails, AssignmentFails, Restart, Unregister, KillInv, CalmInv

LEMMA CalmWorld ==
    ASSUME KillInv,
           \/ Sync
           \/ \E t \in {"succeeded", "failed"} : Terminate(t)
           \/ \E k \in KubeClusters :
                Register(k) \/ RemoteTurns(k, "up", "bad") \/ RemoteTurns(k, "bad", "up")
           \/ UNCHANGED vars
    PROVE  CalmInv'
<1>1. CASE Sync
  BY <1>1 DEF Sync, clusters, KillInv, CalmInv, Calm, Read, ReadsCatchUp, Registered, At, ShouldTerminate
<1>2. ASSUME NEW t \in {"succeeded", "failed"}, Terminate(t)
      PROVE  CalmInv'
  <2>1. UNCHANGED <<cache, remote, known, ctl, sch, faults>>
    BY <1>2 DEF Terminate, clusters
  <2>2. /\ ray'.scheduled = ray.scheduled /\ ray'.kube = ray.kube
        /\ ray'.launched = ray.launched /\ ray'.killing = ray.killing
        /\ ray'.killed = ray.killed
    BY <1>2 DEF Terminate, KillInv, TypeOK, Status
  <2> QED BY <2>1, <2>2 DEF KillInv, CalmInv, Calm, Read, Registered, At, ShouldTerminate
<1>3. ASSUME NEW k \in KubeClusters, Register(k)
      PROVE  CalmInv'
  BY <1>3, CalmCalls DEF Register
<1>4. ASSUME NEW k \in KubeClusters, RemoteTurns(k, "up", "bad") \/ RemoteTurns(k, "bad", "up")
      PROVE  CalmInv'
  <2>1. UNCHANGED <<ray, cache, known, ctl, sch, faults>>
    BY <1>4 DEF RemoteTurns, clusters
  <2>2. \A h \in KubeClusters : remote'[h] = "none" <=> remote[h] = "none"
    BY <1>4 DEF RemoteTurns, KillInv, TypeOK
  <2> QED BY <2>1, <2>2 DEF KillInv, CalmInv, Calm, Read, Registered, At, ShouldTerminate
<1>5. CASE UNCHANGED vars
  BY <1>5, CalmCalls DEF vars
<1> QED BY <1>1, <1>2, <1>3, <1>4, <1>5

\* Without a failure an early kill leaves nothing either: what CalmInv is for.
LEMMA CalmKillStep ==
    ASSUME KillInv, [Next]_vars, NEW k, KubeClusters = {k}
    PROVE  KillInv'
<1>1. TypeOK' /\ ReadsCatchUp'
  BY TypeStep, ReadsStep DEF KillInv
<1>2. CASE MarkFailed
  <2>1. faults # 0 /\ faults' = faults
    BY <1>2 DEF MarkFailed, KillInv, CalmInv, Calm, At
  <2> QED BY <1>1, <2>1 DEF KillInv, CalmInv
<1>3. ~MarkFailed => CalmInv'
  BY CalmEnqueue, CalmCreate, CalmLaunched, CalmMonitor, CalmWrite, CalmTermination,
     CalmCleanup, CalmScheduler, CalmFaults, CalmWorld
  DEF Next, Controller, Scheduler
<1> QED BY <1>1, <1>2, <1>3 DEF KillInv

-----------------------------------------------------------------------------
(* One compute cluster, any failure: what was deleted stays deleted.       *)

Nothing == \A k \in KubeClusters : remote[k] = "none"

\* Nobody creates an object while a reconcile is at one of its calls, or after any kill.
LEMMA NothingStays ==
    ASSUME TypeOK, ReadsCatchUp, Deleted, [Next]_vars, Nothing,
           ~At("idle") \/ ray.killed \/ cache.killed
    PROVE  Nothing'
<1> SUFFICES ASSUME NEW k \in KubeClusters, remote'[k] # "none"
             PROVE  FALSE
  BY DEF Nothing
<1>1. At("idle") /\ ~ShouldTerminate(cache) /\ ~cache.launched
  BY WhoCreates DEF CreateJobCluster, CreateFails, Dispatching, Running, Nothing
<1> QED BY <1>1 DEF ReadsCatchUp, Deleted

LEMMA DeletedController ==
    ASSUME TypeOK, ReadsCatchUp, Deleted, Controller, NEW h, KubeClusters = {h}
    PROVE  Deleted'
<1>0. ~At("idle") \/ ray.killed \/ cache.killed => (Nothing => Nothing')
  BY NothingStays DEF Next
<1> USE DEF Deleted, Nothing
<1>1. CASE MarkEnqueued \/ CreateJobCluster \/ CreateFails
  <2>1. ctl'.pc \in {"enqueue", "markLaunched", "markFailed"}
    BY <1>1 DEF MarkEnqueued, CreateJobCluster, CreateFails, Call
  <2>2. cache' = cache /\ ray'.early = ray.early /\ ray'.killed = ray.killed
    BY <1>1 DEF MarkEnqueued, CreateJobCluster, CreateFails, TypeOK, Status
  <2> QED BY <1>0, <2>1, <2>2 DEF At, ShouldTerminate
<1>2. CASE Enqueue \/ CallFails
  <2>1. ctl'.pc = "idle" /\ UNCHANGED <<ray, cache, remote>>
    BY <1>2, IdleType DEF Enqueue, CallFails
  <2> QED BY <2>1 DEF At, ShouldTerminate
<1>3. CASE MarkLaunched \/ MarkFailed \/ SetKilling \/ SetSucceeded
  <2>1. UNCHANGED <<cache, remote>> /\ ctl'.pc \in {"idle", "kill", "cleanup"}
    BY <1>3, IdleType DEF MarkLaunched, MarkFailed, SetKilling, SetSucceeded, Call
  <2>2. ray'.early = ray.early /\ ray'.killed = ray.killed
    BY <1>3 DEF MarkLaunched, MarkFailed, SetKilling, SetSucceeded, TypeOK, Status
  <2> QED BY <2>1, <2>2 DEF At, ShouldTerminate
<1>4. CASE CleanupEarly
  <2>1. UNCHANGED <<cache, remote>> /\ ctl'.pc = "idle"
    BY <1>4, IdleType DEF CleanupEarly
  <2>2. ray'.early
    BY <1>4 DEF CleanupEarly, TypeOK, Status
  <2> QED BY <2>1, <2>2 DEF At, ShouldTerminate
<1>5. CASE MarkKilled
  <2>1. UNCHANGED <<cache, remote>> /\ ctl'.pc = "idle" /\ At("markKilled")
    BY <1>5, IdleType DEF MarkKilled
  <2> QED BY <2>1 DEF At, ShouldTerminate
<1>6. CASE Monitor
  <2>1. /\ UNCHANGED <<ray, cache, remote>> /\ ctl'.pc = "writeStatus"
        /\ ctl'.obj.killed = cache.killed /\ ctl'.obj.early = cache.early
    BY <1>6 DEF Monitor, TypeOK, Status
  <2> QED BY <2>1 DEF At, ShouldTerminate
<1>7. CASE WriteStatus
  <2>1. ctl.obj \in Status
    BY <1>7, ToWrite DEF WriteStatus
  <2>2. /\ ray'.killed = ctl.obj.killed /\ ray'.early = ctl.obj.early
        /\ UNCHANGED <<cache, remote>> /\ ctl'.pc = "idle" /\ At("writeStatus")
    BY <1>7, <2>1, IdleType DEF WriteStatus, Status
  <2> QED BY <2>2 DEF At, ShouldTerminate
<1>8. CASE DeleteJobCluster
  <2>1. Read.kube = h
    BY <1>8 DEF DeleteJobCluster, Assigned, TypeOK
  <2>2. remote'[h] = "none"
    BY <1>8, <2>1 DEF DeleteJobCluster, TypeOK
  <2>3. ctl'.pc = "markKilled" /\ UNCHANGED <<ray, cache>>
    BY <1>8 DEF DeleteJobCluster, Call
  <2> QED BY <2>2, <2>3 DEF At, ShouldTerminate
<1> QED BY <1>1, <1>2, <1>3, <1>4, <1>5, <1>6, <1>7, <1>8 DEF Controller

LEMMA DeletedStep ==
    ASSUME TypeOK, ReadsCatchUp, Deleted, [Next]_vars, NEW h, KubeClusters = {h}
    PROVE  Deleted'
<1> USE DEF Deleted
<1>1. CASE Controller
  BY <1>1, DeletedController
<1>2. CASE Scheduler
  <2>1. UNCHANGED <<cache, remote, ctl>> /\ ray'.killed = ray.killed /\ ray'.early = ray.early
    BY <1>2 DEF Scheduler, Schedule, Skip, Assign, Refuse, AssignmentFails, TypeOK, Status
  <2> QED BY <2>1 DEF At, ShouldTerminate
<1>3. CASE Sync
  BY <1>3 DEF Sync, ReadsCatchUp, At, ShouldTerminate
<1>4. CASE Restart
  BY <1>4, IdleType DEF Restart, ReadsCatchUp, At, ShouldTerminate
<1>5. ASSUME NEW k \in KubeClusters, Register(k) \/ Unregister(k)
      PROVE  Deleted'
  BY <1>5 DEF Register, Unregister, At, ShouldTerminate
<1>6. ASSUME NEW k \in KubeClusters, RemoteTurns(k, "up", "bad") \/ RemoteTurns(k, "bad", "up")
      PROVE  Deleted'
  <2>1. Nothing => Nothing'
    BY <1>6 DEF RemoteTurns, Nothing, TypeOK
  <2>2. UNCHANGED <<ray, cache, ctl>>
    BY <1>6 DEF RemoteTurns
  <2> QED BY <2>1, <2>2 DEF Nothing, At, ShouldTerminate
<1>7. ASSUME NEW t \in {"succeeded", "failed"}, Terminate(t)
      PROVE  Deleted'
  <2>1. /\ UNCHANGED <<cache, remote, ctl>>
        /\ ray'.killed = ray.killed /\ ray'.early = ray.early
    BY <1>7 DEF Terminate, TypeOK, Status
  <2> QED BY <2>1 DEF At, ShouldTerminate
<1>8. CASE UNCHANGED vars
  BY <1>8 DEF vars, At, ShouldTerminate
<1> QED BY <1>1, <1>2, <1>3, <1>4, <1>5, <1>6, <1>7, <1>8 DEF Next

\* A kill leaves no object on the one compute cluster there is, in any order of the
\* controller's, the scheduler's and the informer's steps: a kill that deletes it
\* whatever failed before and whatever fails later, an early one unless something failed.
THEOREM KillLeavesNothingBehind ==
    ASSUME NEW k, KubeClusters = {k}
    PROVE  Spec => []KillLeavesNothing
<1>1. Init => KillInv /\ Deleted
  <2>1. Init => ReadsCatchUp
    BY DEF Init, NewStatus, Idle, ReadsCatchUp, At, ShouldTerminate
  <2>2. Init => Calm
    BY DEF Init, NewStatus, Idle, NoAssignment, Calm, Read, Registered, At, ShouldTerminate
  <2>3. Init => Deleted
    BY IdleType DEF Init, NewStatus, Deleted, At
  <2> QED BY <2>1, <2>2, <2>3, InitType DEF KillInv, CalmInv
<1>2. KillInv /\ Deleted /\ [Next]_vars => KillInv' /\ Deleted'
  BY CalmKillStep, DeletedStep DEF KillInv
<1>3. KillInv /\ Deleted => KillLeavesNothing
  BY DEF KillInv, CalmInv, Calm, Deleted, KillLeavesNothing
<1> QED BY <1>1, <1>2, <1>3, PTL DEF Spec

-----------------------------------------------------------------------------
(* A termination does not stop half way, and a launch is not forgotten.    *)

\* Killing is taken back together with the recording of Killed, in the object and in
\* whatever was read of it.
KillPaired(o) == o.killing = "false" => o.killed

KillsPaired ==
    /\ KillPaired(ray) /\ KillPaired(cache)
    /\ At("writeStatus") \/ At("cleanup") => KillPaired(ctl.obj)

LEMMA PairedController ==
    ASSUME TypeOK, KillsPaired, Controller
    PROVE  KillsPaired'
<1> USE DEF KillsPaired, KillPaired, At, TypeOK, Status
<1>1. CASE MarkEnqueued \/ CreateJobCluster \/ CreateFails \/ DeleteJobCluster
  <2>1. ctl'.pc \in {"enqueue", "markLaunched", "markFailed", "markKilled"}
    BY <1>1 DEF MarkEnqueued, CreateJobCluster, CreateFails, DeleteJobCluster, Call
  <2>2. cache' = cache /\ ray'.killing = ray.killing /\ ray'.killed = ray.killed
    BY <1>1 DEF MarkEnqueued, CreateJobCluster, CreateFails, DeleteJobCluster
  <2> QED BY <2>1, <2>2
<1>2. CASE Enqueue \/ CallFails
  BY <1>2, IdleType DEF Enqueue, CallFails
<1>3. CASE MarkLaunched \/ MarkFailed \/ SetKilling \/ CleanupEarly \/ MarkKilled
  <2>1. ctl'.pc = "idle" /\ cache' = cache
    BY <1>3, IdleType DEF MarkLaunched, MarkFailed, SetKilling, CleanupEarly, MarkKilled
  <2>2. KillPaired(ray')
    BY <1>3 DEF MarkLaunched, MarkFailed, SetKilling, CleanupEarly, MarkKilled
  <2> QED BY <2>1, <2>2
<1>4. CASE Monitor
  <2>1. /\ UNCHANGED <<ray, cache>> /\ ctl'.pc = "writeStatus"
        /\ ctl'.obj.killing = cache.killing /\ ctl'.obj.killed = cache.killed
    BY <1>4 DEF Monitor
  <2> QED BY <2>1
<1>5. CASE WriteStatus
  <2>1. ctl.obj \in Status
    BY <1>5, ToWrite DEF WriteStatus
  <2>2. /\ ray'.killing = ctl.obj.killing /\ ray'.killed = ctl.obj.killed
        /\ cache' = cache /\ ctl'.pc = "idle" /\ ctl.pc = "writeStatus"
    BY <1>5, <2>1, IdleType DEF WriteStatus
  <2> QED BY <2>2
<1>6. CASE SetSucceeded
  <2>1. cache' = cache /\ ray'.killing = ray.killing /\ ray'.killed = ray.killed
    BY <1>6 DEF SetSucceeded
  <2>2. ctl'.pc \in {"idle", "kill"} \/ (ctl'.pc = "cleanup" /\ ctl'.obj = cache)
    BY <1>6, IdleType DEF SetSucceeded, Call
  <2> QED BY <2>1, <2>2
<1> QED BY <1>1, <1>2, <1>3, <1>4, <1>5, <1>6 DEF Controller

LEMMA PairedStep ==
    ASSUME TypeOK, KillsPaired, [Next]_vars
    PROVE  KillsPaired'
<1> USE DEF KillsPaired, KillPaired, At, TypeOK, Status
<1>1. CASE Controller
  BY <1>1, PairedController
<1>2. CASE Scheduler
  <2>1. /\ UNCHANGED <<cache, ctl>>
        /\ ray'.killing = ray.killing /\ ray'.killed = ray.killed
    BY <1>2 DEF Scheduler, Schedule, Skip, Assign, Refuse, AssignmentFails
  <2> QED BY <2>1
<1>3. CASE Sync
  BY <1>3 DEF Sync
<1>4. CASE Restart
  BY <1>4, IdleType DEF Restart
<1>5. ASSUME NEW k \in KubeClusters,
             \/ Register(k) \/ Unregister(k)
             \/ RemoteTurns(k, "up", "bad") \/ RemoteTurns(k, "bad", "up")
      PROVE  KillsPaired'
  BY <1>5 DEF Register, Unregister, RemoteTurns
<1>6. ASSUME NEW t \in {"succeeded", "failed"}, Terminate(t)
      PROVE  KillsPaired'
  BY <1>6 DEF Terminate
<1>7. CASE UNCHANGED vars
  BY <1>7 DEF vars
<1> QED BY <1>1, <1>2, <1>3, <1>4, <1>5, <1>6, <1>7 DEF Next

\* A cluster to terminate is never left between Killing and Killed, although the status
\* that a reconcile read replaces whatever was recorded since.
THEOREM TerminationIsKept == Spec => []TerminationGoesOn
<1>1. Init => KillsPaired
  BY IdleType DEF Init, NewStatus, KillsPaired, KillPaired, At
<1>2. TypeOK /\ KillsPaired /\ [Next]_vars => KillsPaired'
  BY PairedStep
<1>3. TypeOK /\ KillsPaired => TerminationGoesOn
  <2> SUFFICES ASSUME TypeOK, KillsPaired, NEW o \in {ray, cache}, ~o.killed
               PROVE  HasNextStep(o)
    BY DEF TerminationGoesOn
  <2> QED BY DEF KillsPaired, KillPaired, HasNextStep, NeedsKill, TypeOK, Status, Conditions
<1> QED BY <1>1, <1>2, <1>3, TypeCorrect, PTL DEF Spec

\* A launch that is recorded stays recorded, so a cluster is not created twice.
THEOREM LaunchStays == Spec => LaunchIsKept
<1>1. TypeOK /\ ReadsCatchUp /\ [Next]_vars => (ray.launched => ray'.launched)
  <2> SUFFICES ASSUME TypeOK, ReadsCatchUp, [Next]_vars, ray.launched
               PROVE  ray'.launched
    OBVIOUS
  <2> USE DEF TypeOK, Status
  <2>1. CASE WriteStatus
    <3>1. ctl.obj \in Status /\ ctl.obj.launched
      BY <2>1, ToWrite DEF WriteStatus, ReadsCatchUp
    <3> QED BY <2>1, <3>1 DEF WriteStatus
  <2>2. CASE MarkEnqueued \/ MarkLaunched \/ MarkFailed \/ SetSucceeded \/ SetKilling
    BY <2>2 DEF MarkEnqueued, MarkLaunched, MarkFailed, SetSucceeded, SetKilling
  <2>3. CASE CleanupEarly \/ MarkKilled
    BY <2>3 DEF CleanupEarly, MarkKilled
  <2>4. CASE Enqueue \/ CreateJobCluster \/ CreateFails \/ Monitor \/ DeleteJobCluster \/ CallFails
    BY <2>4 DEF Enqueue, CreateJobCluster, CreateFails, Monitor, DeleteJobCluster, CallFails
  <2>5. CASE Scheduler
    BY <2>5 DEF Scheduler, Schedule, Skip, Assign, Refuse, AssignmentFails
  <2>6. CASE Sync \/ Restart \/ UNCHANGED vars
    BY <2>6 DEF Sync, Restart, vars
  <2>7. ASSUME NEW k \in KubeClusters,
               \/ Register(k) \/ Unregister(k)
               \/ RemoteTurns(k, "up", "bad") \/ RemoteTurns(k, "bad", "up")
        PROVE  ray'.launched
    BY <2>7 DEF Register, Unregister, RemoteTurns
  <2>8. ASSUME NEW t \in {"succeeded", "failed"}, Terminate(t)
        PROVE  ray'.launched
    BY <2>8 DEF Terminate
  <2> QED BY <2>1, <2>2, <2>3, <2>4, <2>5, <2>6, <2>7, <2>8 DEF Next, Controller
<1> QED BY <1>1, OldReadsAreSound, PTL DEF Spec, LaunchIsKept


-----------------------------------------------------------------------------
(* The scheduler has the cluster once.                                     *)

LEMMA InOneHandStep ==
    ASSUME TypeOK, InOneHand, [Next]_vars
    PROVE  InOneHand'
<1> USE DEF InOneHand
<1>1. CASE Enqueue
  <2>1. CASE Queue!Add(Ray)
    <3>1. Ray \notin held
      BY <2>1 DEF Queue!Add, Queue!Known
    <3> QED BY <1>1, <2>1, <3>1, AddType DEF Enqueue
  <2>2. CASE UNCHANGED queue
    BY <1>1, <2>2 DEF Enqueue, queue
  <2> QED BY <1>1, <2>1, <2>2 DEF Enqueue
<1>2. CASE Schedule
  <2>1. pending = <<Ray>> /\ pending' = <<>>
    BY <1>2, TakeType DEF Schedule, Queue!Take, TypeOK
  <2>2. held' = held \cup {Ray}
    BY <1>2, <2>1 DEF Schedule, Queue!Take
  <2>3. sch'.pc # "idle"
    BY <1>2 DEF Schedule
  <2> QED BY <2>1, <2>2, <2>3
<1>3. CASE Skip \/ Assign \/ Refuse \/ AssignmentFails
  <2>1. SchedulerDone
    BY <1>3 DEF Skip, Assign, Refuse, AssignmentFails
  <2>2. Ray \notin held'
    BY <2>1 DEF SchedulerDone, Queue!Done
  <2> QED BY <2>1, <2>2, DoneType
<1>4. CASE Restart
  BY <1>4 DEF Restart, NoAssignment
<1>5. CASE Sync \/ UNCHANGED vars
  BY <1>5 DEF Sync, vars, queue
<1>6. CASE Controller /\ ~Enqueue
  BY <1>6 DEF Controller, MarkEnqueued, CreateJobCluster, CreateFails, MarkLaunched,
     MarkFailed, Monitor, WriteStatus, SetSucceeded, SetKilling, CleanupEarly,
     DeleteJobCluster, MarkKilled, CallFails, queue
<1>7. ASSUME NEW k \in KubeClusters,
             \/ Register(k) \/ Unregister(k)
             \/ RemoteTurns(k, "up", "bad") \/ RemoteTurns(k, "bad", "up")
      PROVE  InOneHand'
  BY <1>7 DEF Register, Unregister, RemoteTurns, queue
<1>8. ASSUME NEW t \in {"succeeded", "failed"}, Terminate(t)
      PROVE  InOneHand'
  BY <1>8 DEF Terminate, queue
<1> QED BY <1>1, <1>2, <1>3, <1>4, <1>5, <1>6, <1>7, <1>8 DEF Next, Scheduler

\* However often reconciles enqueue the cluster, assignments fail and the manager restarts,
\* no second assignment waits behind the one in progress, and none keeps its entry.
THEOREM AssignedOnce == Spec => []InOneHand
<1>1. Init => InOneHand
  BY DEF Init, NoAssignment, InOneHand, Queue!Init
<1>2. TypeOK /\ InOneHand /\ [Next]_vars => InOneHand'
  BY InOneHandStep
<1> QED BY <1>1, <1>2, TypeCorrect, PTL DEF Spec
=============================================================================
