------------------------- MODULE PipelineRunProofs -------------------------
(***************************************************************************)
(* A pipeline run with any number of executions and of faults: types, and  *)
(* what the copies of the object say of its workflow.                      *)
(***************************************************************************)
EXTENDS PipelineRun, TLAPS

Reconciles == [pc : Pcs, obj : Object] \cup {Idle}

\* The reconcile goes on with copy o, or is over.
Follows(o) ==
    \/ ctl' = Idle
    \/ /\ ctl' \in [pc : Pcs, obj : Object]
       /\ ctl'.obj = o
       /\ ctl'.pc \in {"cancel", "info", "retried", "persist", "expire", "finish"}
       /\ ctl'.pc = "finish" => o.ts
       /\ ctl'.pc \in {"cancel", "info", "retried"} => o.wid # 0

\* What a copy says of success, once the step is taken.
SpeaksTrue(o) ==
    o.step = "succeeded" \/ o.state = "succeeded" => o.wid # 0 /\ wf'[o.wid] = "completed"

\* What the actors ask of the workflow engine.
EngineCall ==
    \/ UNCHANGED engine
    \/ IsOpen(Obj.wid) /\ CancelOpen
    \/ \E r \in 1..MaxRuns : At("engine") /\ Obj.wid = 0 /\ Start(r)
    \/ At("engine") /\ Obj.retry # 0 /\ Reset

\* What the actors leave alone in a copy.
SameMeta(o) ==
    /\ o.fin = Obj.fin /\ o.ts = Obj.ts /\ o.counted = Obj.counted
    /\ o.retry = Obj.retry

-----------------------------------------------------------------------------
(* Types.                                                                  *)

LEMMA ObjType ==
    ASSUME TypeOK, InReconcile
    PROVE  Obj \in Object /\ ctl.pc \in Pcs
BY DEF TypeOK, InReconcile, At, Obj, Idle

LEMMA IdleType == Idle.pc = "idle" /\ Idle \in Reconciles /\ "idle" \notin Pcs
BY DEF Idle, Reconciles, Pcs

LEMMA GoOnType ==
    ASSUME NEW o \in Object, NEW pc \in Pcs, GoOn(pc, o)
    PROVE  /\ ctl' \in [pc : Pcs, obj : Object] /\ ctl' \in Reconciles
           /\ ctl'.pc = pc /\ ctl'.obj = o
BY DEF GoOn, Reconciles

LEMMA EndType ==
    ASSUME TypeOK, NEW again \in BOOLEAN, End(again)
    PROVE  ctl' = Idle /\ due' \in BOOLEAN
BY DEF TypeOK, End

LEMMA ContinueType ==
    ASSUME TypeOK, NEW o \in Object, Continue(o)
    PROVE  Follows(o) /\ due' \in BOOLEAN
<1>1. CASE ~Terminal(o)
  BY <1>1, EndType DEF Continue, Follows
<1>2. CASE Terminal(o) /\ o.ts
  <2>1. GoOn("finish", o) /\ due' = due
    BY <1>2 DEF Continue
  <2> QED BY <1>2, <2>1, GoOnType DEF Follows, Pcs, TypeOK
<1>3. CASE Terminal(o) /\ ~o.ts
  <2>1. GoOn("expire", o) /\ due' = due
    BY <1>3 DEF Continue
  <2> QED BY <2>1, GoOnType DEF Follows, Pcs, TypeOK
<1> QED BY <1>1, <1>2, <1>3

LEMMA PersistType ==
    ASSUME TypeOK, NEW o \in Object, NEW pc \in {"cancel", "info", "retried", "persist"},
           GoOn(pc, o), pc = "persist" \/ o.wid # 0, UNCHANGED due
    PROVE  Follows(o) /\ due' \in BOOLEAN
BY GoOnType DEF Follows, Pcs, TypeOK

LEMMA ResultType ==
    ASSUME TypeOK, NEW o \in Object, Result(o)
    PROVE  Follows(o) /\ due' \in BOOLEAN
<1>1. CASE Continue(o)
  BY <1>1, ContinueType
<1>2. CASE GoOn("persist", o) /\ UNCHANGED due
  BY <1>2, PersistType
<1> QED BY <1>1, <1>2 DEF Result

LEMMA FaultType ==
    ASSUME TypeOK, NEW f \in FaultKinds, Fault(f)
    PROVE  /\ faults' \in [FaultKinds -> 0..MaxFaults]
           /\ faults'[f] # 0
           /\ \A g \in FaultKinds \ {f} : faults'[g] = faults[g]
<1>1. faults[f] \in 0..MaxFaults /\ faults[f] < MaxFaults
  BY DEF TypeOK, Fault
<1>2. faults[f] + 1 \in 0..MaxFaults /\ faults[f] + 1 # 0
  BY <1>1, RunAssumption
<1> QED BY <1>2 DEF TypeOK, Fault

LEMMA StateType ==
    ASSUME NEW s
    PROVE  StateOf(s) \in {"running", "succeeded", "failed", "killed"}
           /\ (StateOf(s) = "succeeded" => s = "completed")
           /\ StepOf(s) \in {"running", "succeeded", "failed", "killed"}
           /\ (StepOf(s) = "succeeded" => s = "completed")
BY DEF StateOf, StepOf, Open

LEMMA WfType ==
    ASSUME TypeOK, NEW r \in 0..MaxRuns, r # 0
    PROVE  r \in 1..MaxRuns /\ wf[r] \in Executions
BY RunAssumption DEF TypeOK

-----------------------------------------------------------------------------
(* The workflow engine.                                                    *)

LEMMA CancelType ==
    ASSUME TypeOK, InReconcile, IsOpen(Obj.wid), CancelOpen
    PROVE  wf' \in [1..MaxRuns -> Executions] /\ last' \in 0..MaxRuns
BY ObjType DEF CancelOpen, TypeOK, Executions

LEMMA StartType ==
    ASSUME TypeOK, NEW r \in 1..MaxRuns, Start(r)
    PROVE  wf' \in [1..MaxRuns -> Executions] /\ last' \in 0..MaxRuns
BY RunAssumption DEF Start, engine, TypeOK, Executions

LEMMA ResetType ==
    ASSUME TypeOK, Reset
    PROVE  wf' \in [1..MaxRuns -> Executions] /\ last' = last + 1 /\ last' \in 1..MaxRuns
<1>1. last' = last + 1 /\ last' \in 1..MaxRuns
  BY RunAssumption DEF Reset, TypeOK
<1>2. \A r \in 1..MaxRuns : wf'[r] \in Executions
  BY DEF Reset, TypeOK, Executions
<1> QED BY <1>1, <1>2 DEF Reset

LEMMA CallType ==
    ASSUME TypeOK, InReconcile, EngineCall
    PROVE  wf' \in [1..MaxRuns -> Executions] /\ last' \in 0..MaxRuns
<1>1. CASE UNCHANGED engine
  BY <1>1 DEF engine, TypeOK
<1>2. CASE IsOpen(Obj.wid) /\ CancelOpen
  BY <1>2, CancelType
<1>3. CASE \E r \in 1..MaxRuns : At("engine") /\ Obj.wid = 0 /\ Start(r)
  BY <1>3, StartType
<1>4. CASE At("engine") /\ Obj.retry # 0 /\ Reset
  BY <1>4, ResetType
<1> QED BY <1>1, <1>2, <1>3, <1>4 DEF EngineCall

\* Executions are over for good: no call of the controller touches one that is.
LEMMA CallKeepsOrder ==
    ASSUME TypeOK, ExecutionsInOrder, InReconcile, EngineCall
    PROVE  /\ ExecutionsInOrder'
           /\ \A r \in 1..MaxRuns : wf[r] = "completed" => wf'[r] = "completed"
<1> USE RunAssumption DEF TypeOK, ExecutionsInOrder
<1>1. CASE UNCHANGED engine
  BY <1>1 DEF engine
<1>2. CASE IsOpen(Obj.wid) /\ CancelOpen
  <2>1. Obj.wid \in 1..MaxRuns /\ Open(wf[Obj.wid])
    BY <1>2, ObjType, WfType DEF IsOpen, Object
  <2> QED BY <1>2, <2>1 DEF CancelOpen, Open
<1>3. CASE \E r \in 1..MaxRuns : At("engine") /\ Obj.wid = 0 /\ Start(r)
  <2>1. PICK r \in 1..MaxRuns : Start(r)
    BY <1>3
  <2>2. CASE UNCHANGED engine
    BY <2>2 DEF engine
  <2>3. CASE last < MaxRuns /\ r = last + 1 /\ last' = r /\ wf' = [wf EXCEPT ![r] = "running"]
    BY <2>3
  <2> QED BY <2>1, <2>2, <2>3 DEF Start
<1>4. CASE At("engine") /\ Obj.retry # 0 /\ Reset
  <2>1. \A r \in 1..MaxRuns : wf'[r] = IF r = last + 1 THEN "running"
                                      ELSE IF Open(wf[r]) THEN "terminated" ELSE wf[r]
    BY <1>4 DEF Reset
  <2>2. last' = last + 1 /\ last < MaxRuns
    BY <1>4 DEF Reset
  <2> QED BY <2>1, <2>2 DEF Open
<1> QED BY <1>1, <1>2, <1>3, <1>4 DEF EngineCall

-----------------------------------------------------------------------------
(* What one action of the actors does.                                     *)

\* The parts of a step of the actors, with o the copy it leaves.
ActorStep(o) ==
    /\ Follows(o) /\ due' \in BOOLEAN
    /\ SameMeta(o)
    /\ ExecutionsInOrder /\ SuccessIsKnown => SpeaksTrue(o)

LEMMA ActorFrame ==
    ASSUME TypeOK, Actors
    PROVE  /\ InReconcile /\ EngineCall
           /\ UNCHANGED <<store, world>>
           /\ faults' \in [FaultKinds -> 0..MaxFaults] /\ faults'["lookup"] = faults["lookup"]
<1>1. Fault("call") => /\ faults' \in [FaultKinds -> 0..MaxFaults]
                       /\ faults'["lookup"] = faults["lookup"]
  BY FaultType DEF FaultKinds
<1>2. UNCHANGED faults => /\ faults' \in [FaultKinds -> 0..MaxFaults]
                          /\ faults'["lookup"] = faults["lookup"]
  BY DEF TypeOK
<1>3. CASE SourcePipeline \/ SourcePipelineFails \/ ImageBuild \/ ImageMissing
  BY <1>1, <1>2, <1>3 DEF SourcePipeline, SourcePipelineFails, ImageBuild, ImageMissing, InReconcile,
     At, EngineCall, EngineError
<1>4. CASE Satisfied \/ StepIsOver \/ RetryRefused
  BY <1>1, <1>2, <1>4 DEF Satisfied, StepIsOver, RetryRefused, InReconcile, At, EngineCall, Executing
<1>5. CASE ManualRetry \/ RetryFails
  BY <1>1, <1>2, <1>5 DEF ManualRetry, RetryFails, InReconcile, At, EngineCall, EngineError, Executing, RetryDue
<1>6. CASE Terminate \/ CancelWorkflow \/ CancelFails
  BY <1>1, <1>2, <1>6 DEF Terminate, CancelWorkflow, CancelFails, InReconcile, At, EngineCall, Active, Executing
<1>7. CASE StartWorkflow \/ StartFails
  BY <1>1, <1>2, <1>7 DEF StartWorkflow, StartFails, Starting, InReconcile, At, EngineCall, Active, Executing
<1>8. CASE WatchWorkflow \/ WatchFails
  BY <1>1, <1>2, <1>8 DEF WatchWorkflow, WatchFails, Watching, InReconcile, At, EngineCall, Active, Executing
<1> QED BY <1>3, <1>4, <1>5, <1>6, <1>7, <1>8 DEF Actors

LEMMA ResultStep ==
    ASSUME TypeOK, NEW o \in Object, SameMeta(o),
           Result(o) \/ (/\ UNCHANGED due
                        /\ \E pc \in {"cancel", "info", "retried", "persist"} :
                             GoOn(pc, o) /\ (pc = "persist" \/ o.wid # 0)),
           ExecutionsInOrder /\ SuccessIsKnown => SpeaksTrue(o)
    PROVE  \E p \in Object : ActorStep(p)
BY ResultType, PersistType DEF ActorStep

\* A copy whose step did not become succeeded speaks as before.
LEMMA StillTrue ==
    ASSUME TypeOK, InReconcile, EngineCall, ExecutionsInOrder, SuccessIsKnown
    PROVE  Obj.step = "succeeded" \/ Obj.state = "succeeded" =>
             Obj.wid # 0 /\ wf[Obj.wid] = "completed" /\ wf'[Obj.wid] = "completed"
<1>1. Obj.wid \in 0..MaxRuns
  BY ObjType DEF Object
<1> QED BY <1>1, CallKeepsOrder, WfType DEF SuccessIsKnown, KnowsSuccess

LEMMA ErrorStep ==
    ASSUME TypeOK, InReconcile, EngineCall, StepError
    PROVE  \E o \in Object : ActorStep(o)
<1> DEFINE o == [Obj EXCEPT !.state = "failed", !.step = IF @ = "none" THEN "pending" ELSE @]
<1>1. Obj \in Object
  BY ObjType
<1>2. o \in Object /\ SameMeta(o) /\ o.wid = Obj.wid /\ o.state = "failed"
      /\ (o.step = "succeeded" => Obj.step = "succeeded")
  BY <1>1 DEF Object, SameMeta
<1>3. ExecutionsInOrder /\ SuccessIsKnown => SpeaksTrue(o)
  BY <1>2, StillTrue DEF SpeaksTrue
<1>4. Result(o)
  BY DEF StepError
<1> HIDE DEF o
<1> QED BY <1>2, <1>3, <1>4, ResultStep

LEMMA StateStep ==
    ASSUME TypeOK, InReconcile, EngineCall,
           NEW s \in {"succeeded", "failed", "killed"}, ResultState(s),
           s = "succeeded" => Obj.step = "succeeded"
    PROVE  \E o \in Object : ActorStep(o)
<1> DEFINE o == [Obj EXCEPT !.state = s]
<1>1. Obj \in Object
  BY ObjType
<1>2. o \in Object /\ SameMeta(o) /\ o.wid = Obj.wid /\ o.state = s /\ o.step = Obj.step
  BY <1>1 DEF Object, SameMeta
<1>3. ExecutionsInOrder /\ SuccessIsKnown => SpeaksTrue(o)
  BY <1>2, StillTrue DEF SpeaksTrue
<1>4. Result(o)
  BY DEF ResultState
<1> HIDE DEF o
<1> QED BY <1>2, <1>3, <1>4, ResultStep

LEMMA PrepStep ==
    ASSUME TypeOK, InReconcile, EngineCall,
           NEW p \in {"source", "done", "failed"}, NEW s \in {"running", "failed"},
           Result([Obj EXCEPT !.prep = p, !.state = s])
    PROVE  \E o \in Object : ActorStep(o)
<1> DEFINE o == [Obj EXCEPT !.prep = p, !.state = s]
<1>1. Obj \in Object
  BY ObjType
<1>2. o \in Object /\ SameMeta(o) /\ o.wid = Obj.wid /\ o.state = s /\ o.step = Obj.step
  BY <1>1 DEF Object, SameMeta
<1>3. ExecutionsInOrder /\ SuccessIsKnown => SpeaksTrue(o)
  BY <1>2, StillTrue DEF SpeaksTrue
<1> HIDE DEF o
<1>4. Result(o)
  BY DEF o
<1> QED BY <1>2, <1>3, <1>4, ResultStep

LEMMA KilledStep ==
    ASSUME TypeOK, InReconcile, Result(Killed)
    PROVE  \E o \in Object : ActorStep(o)
<1>1. Killed \in Object /\ SameMeta(Killed) /\ Killed.state = "killed" /\ Killed.step = "killed"
  BY ObjType DEF Killed, Object, SameMeta
<1>2. SpeaksTrue(Killed)
  BY <1>1 DEF SpeaksTrue
<1> QED BY <1>1, <1>2, ResultStep

LEMMA ActorsStep ==
    ASSUME TypeOK, Actors
    PROVE  \E o \in Object : ActorStep(o)
<1>0. InReconcile /\ EngineCall /\ Obj \in Object
  BY ActorFrame, ObjType
<1>1. CASE SourcePipeline \/ ImageBuild
  BY <1>0, <1>1, PrepStep DEF SourcePipeline, ImageBuild
<1>2. CASE ImageMissing
  <2> DEFINE o == [Obj EXCEPT !.state = "failed"]
  <2>1. o \in Object /\ SameMeta(o) /\ o.wid = Obj.wid /\ o.state = "failed" /\ o.step = Obj.step
    BY <1>0 DEF Object, SameMeta
  <2>2. ExecutionsInOrder /\ SuccessIsKnown => SpeaksTrue(o)
    BY <1>0, <2>1, StillTrue DEF SpeaksTrue
  <2>3. GoOn("persist", o) /\ UNCHANGED due
    BY <1>2 DEF ImageMissing
  <2> HIDE DEF o
  <2> QED BY <2>1, <2>2, <2>3, ResultStep
<1>3. CASE SourcePipelineFails \/ RetryFails \/ RetryRefused
  BY <1>0, <1>3, StateStep DEF SourcePipelineFails, RetryFails, RetryRefused, EngineError
<1>4. CASE Satisfied \/ StepIsOver
  <2>1. CASE Satisfied
    BY <1>0, <2>1, StateStep DEF Satisfied
  <2>2. CASE StepIsOver
    <3>1. Obj.step \in {"failed", "killed"} /\ ResultState(Obj.step)
      BY <2>2 DEF StepIsOver
    <3> QED BY <1>0, <3>1, StateStep
  <2> QED BY <1>4, <2>1, <2>2
<1>5. CASE ManualRetry
  <2> DEFINE o == [Obj EXCEPT !.wid = last + 1, !.state = "running", !.kill = FALSE,
                              !.step = IF @ \in {"none", "pending"} THEN @ ELSE "running"]
  <2>1. last + 1 \in 0..MaxRuns
    BY <1>5, RunAssumption DEF ManualRetry, Reset, TypeOK
  <2>2. o \in Object /\ SameMeta(o) /\ o.state = "running" /\ o.step # "succeeded"
      /\ o.wid = last + 1
    BY <1>0, <2>1 DEF Object, SameMeta
  <2>3. SpeaksTrue(o)
    BY <2>2 DEF SpeaksTrue
  <2>4. GoOn("retried", o) /\ UNCHANGED due
    BY <1>5 DEF ManualRetry
  <2>5. last + 1 # 0
    BY DEF TypeOK
  <2> HIDE DEF o
  <2> QED BY <2>2, <2>3, <2>4, <2>5, ResultStep
<1>6. CASE Terminate
  <2>1. SameMeta(Obj)
    BY DEF SameMeta
  <2>2. ExecutionsInOrder /\ SuccessIsKnown => SpeaksTrue(Obj)
    BY <1>0, StillTrue DEF SpeaksTrue
  <2>3. (GoOn("cancel", Obj) \/ GoOn("info", Obj)) /\ UNCHANGED due /\ Obj.wid # 0
    BY <1>6 DEF Terminate
  <2> QED BY <1>0, <2>1, <2>2, <2>3, ResultStep
<1>7. CASE CancelWorkflow
  BY <1>0, <1>7, KilledStep, ErrorStep DEF CancelWorkflow
<1>8. CASE CancelFails \/ StartFails \/ WatchFails
  BY <1>0, <1>8, ErrorStep DEF CancelFails, StartFails, WatchFails
<1>9. CASE StartWorkflow
  <2>1. PICK r \in 1..MaxRuns : Result([Obj EXCEPT !.wid = r, !.step = "running", !.state = "running"])
    BY <1>9 DEF StartWorkflow
  <2> DEFINE o == [Obj EXCEPT !.wid = r, !.step = "running", !.state = "running"]
  <2>2. o \in Object /\ SameMeta(o) /\ o.state = "running" /\ o.step = "running"
    BY <1>0, r \in 0..MaxRuns DEF Object, SameMeta
  <2>3. SpeaksTrue(o)
    BY <2>2 DEF SpeaksTrue
  <2> HIDE DEF o
  <2>4. Result(o)
    BY <2>1 DEF o
  <2> QED BY <2>2, <2>3, <2>4, ResultStep
<1>10. CASE WatchWorkflow
  <2> DEFINE step == StepOf(wf[Obj.wid])
             o == [Obj EXCEPT !.step = step,
                              !.state = IF step = "succeeded" THEN "running" ELSE step]
  <2>1. step \in {"running", "succeeded", "failed", "killed"}
        /\ (step = "succeeded" => wf[Obj.wid] = "completed")
    BY StateType
  <2>2. Result(o) \/ (GoOn("persist", o) /\ UNCHANGED due)
    BY <1>10 DEF WatchWorkflow
  <2>3. SuccessIsKnown => Obj.wid # 0
    BY <1>10 DEF WatchWorkflow, Watching, SuccessIsKnown, At
  <2>4. wf' = wf
    BY <1>10 DEF WatchWorkflow, engine
  <2> HIDE DEF step
  <2>5. o \in Object /\ SameMeta(o) /\ o.step = step /\ o.state # "succeeded" /\ o.wid = Obj.wid
    BY <1>0, <2>1 DEF Object, SameMeta
  <2>6. ExecutionsInOrder /\ SuccessIsKnown => SpeaksTrue(o)
    BY <2>1, <2>3, <2>4, <2>5 DEF SpeaksTrue
  <2> HIDE DEF o
  <2> QED BY <2>2, <2>5, <2>6, ResultStep
<1> QED
  BY <1>1, <1>2, <1>3, <1>4, <1>5, <1>6, <1>7, <1>8, <1>9, <1>10 DEF Actors

-----------------------------------------------------------------------------
(* Type correctness.                                                       *)

LEMMA RunChanges ==
    ASSUME NEW o \in Object, NEW b \in BOOLEAN
    PROVE  /\ [o EXCEPT !.fin = TRUE] \in Object
           /\ [o EXCEPT !.kill = b] \in Object
           /\ [o EXCEPT !.imm = TRUE] \in Object
           /\ [o EXCEPT !.kill = TRUE, !.counted = TRUE] \in Object
           /\ [o EXCEPT !.state = "killed"] \in Object
           /\ [o EXCEPT !.imm = TRUE, !.counted = FALSE, !.fin = FALSE] \in Object
           /\ [o EXCEPT !.ts = TRUE] \in Object
           /\ \A r \in 0..MaxRuns : [o EXCEPT !.retry = r] \in Object
BY DEF Object

\* What a reconcile starts from: the cached copy, with the execution filled in.
LEMMA ReconcileCopy ==
    ASSUME TypeOK, Reconcile \/ LookupFails
    PROVE  \E o \in Object :
             /\ Begin(o)
             /\ o.fin = cache.fin /\ o.ts = cache.ts /\ o.retry = cache.retry
             /\ o.step = cache.step /\ o.prep = cache.prep /\ o.imm = cache.imm
             /\ o.counted = cache.counted
             /\ \/ o = cache /\ (Reconcile => cache.wid # 0 \/ last = 0)
                \/ cache.wid = 0 /\ last # 0 /\ o.wid = last /\ o.state = StateOf(wf[last])
<1>1. CASE Reconcile /\ cache.wid = 0 /\ last # 0
  <2>1. wf[last] \in Executions
    BY <1>1, WfType DEF TypeOK
  <2>2. Reconstructed(cache) \in Object /\ Reconstructed(cache).wid = last
        /\ Reconstructed(cache).state = StateOf(wf[last])
        /\ Reconstructed(cache).fin = cache.fin /\ Reconstructed(cache).ts = cache.ts
        /\ Reconstructed(cache).retry = cache.retry /\ Reconstructed(cache).step = cache.step
        /\ Reconstructed(cache).prep = cache.prep /\ Reconstructed(cache).imm = cache.imm
        /\ Reconstructed(cache).counted = cache.counted
    BY <2>1, StateType DEF TypeOK, Object, Reconstructed
  <2> QED BY <1>1, <2>2 DEF Reconcile
<1>2. CASE Reconcile /\ ~(cache.wid = 0 /\ last # 0)
  BY <1>2 DEF Reconcile, TypeOK
<1>3. CASE LookupFails /\ ~Reconcile
  BY <1>3 DEF LookupFails, TypeOK
<1> QED BY <1>1, <1>2, <1>3

LEMMA BeginType ==
    ASSUME TypeOK, NEW o \in Object, Begin(o)
    PROVE  /\ ctl' = Idle \/ (ctl' \in [pc : Pcs, obj : Object] /\ ctl'.obj = o /\ ctl'.pc = Entry(o))
           /\ stale' \subseteq {"cache", "read"} /\ due' \in BOOLEAN
<1>1. Entry(o) = "idle" \/ Entry(o) \in Pcs
  BY DEF Entry, DrainEntry, Pcs
<1>2. ctl' = Idle \/ (ctl' \in [pc : Pcs, obj : Object] /\ ctl'.obj = o /\ ctl'.pc = Entry(o))
  BY <1>1 DEF Begin
<1>3. stale' \subseteq {"cache", "read"} /\ due' \in BOOLEAN
  BY DEF Begin
<1> QED BY <1>2, <1>3

LEMMA UpdateType ==
    ASSUME TypeOK, NEW o \in Object, Update(o)
    PROVE  run' \in Object /\ cache' \in Object /\ stale' \subseteq {"cache", "read"}
BY DEF Update, TypeOK

LEMMA WriteType ==
    ASSUME TypeOK, NEW o \in Object, Write(o)
    PROVE  run' \in Object /\ cache' \in Object /\ stale' \subseteq {"cache", "read"}
BY DEF Write, TypeOK

LEMMA FollowsType ==
    ASSUME NEW o, Follows(o)
    PROVE  ctl' \in Reconciles
BY DEF Follows, Reconciles

LEMMA ActorTypes ==
    ASSUME TypeOK, Actors
    PROVE  TypeOK'
<1>1. PICK o \in Object : ActorStep(o)
  BY ActorsStep
<1>2. ctl' \in Reconciles /\ due' \in BOOLEAN
  BY <1>1, FollowsType DEF ActorStep
<1>3. wf' \in [1..MaxRuns -> Executions] /\ last' \in 0..MaxRuns
  BY ActorFrame, CallType
<1> QED BY <1>2, <1>3, ActorFrame DEF TypeOK, store, world, Reconciles

LEMMA ControllerTypes ==
    ASSUME TypeOK, Controller
    PROVE  TypeOK'
<1> USE DEF TypeOK, engine, world, Reconciles
<1>1. CASE Reconcile \/ LookupFails
  <2>1. PICK o \in Object : Begin(o)
    BY <1>1, ReconcileCopy
  <2>2. faults' \in [FaultKinds -> 0..MaxFaults]
    BY <1>1, FaultType DEF Reconcile, LookupFails, FaultKinds
  <2>3. UNCHANGED <<run, cache, engine, world>>
    BY <2>1 DEF Begin
  <2> QED BY <2>1, <2>2, <2>3, BeginType
<1>2. CASE EnsureDrainFinalizer
  <2>1. [run EXCEPT !.fin = TRUE] \in Object
    BY RunChanges
  <2>2. run' \in Object /\ cache' \in Object /\ stale' \subseteq {"cache", "read"}
    BY <1>2, <2>1, UpdateType DEF EnsureDrainFinalizer
  <2>3. ctl' \in Reconciles
    BY <1>2, <2>2, GoOnType DEF EnsureDrainFinalizer, Pcs
  <2> QED BY <1>2, <2>2, <2>3 DEF EnsureDrainFinalizer
<1>3. CASE UpdateStatus
  <2>1. [Obj EXCEPT !.kill = run.kill] \in Object
    <3>1. Obj \in Object
      BY <1>3, ObjType DEF UpdateStatus, InReconcile, At
    <3>2. run.kill \in BOOLEAN
      BY DEF TypeOK, Object
    <3> QED BY <3>1, <3>2, RunChanges
  <2>2. run' \in Object /\ cache' \in Object /\ stale' \subseteq {"cache", "read"}
    BY <1>3, <2>1, UpdateType DEF UpdateStatus
  <2>3. ctl' \in Reconciles /\ due' \in BOOLEAN
    BY <1>3, <2>2, ContinueType, FollowsType DEF UpdateStatus
  <2> QED BY <1>3, <2>2, <2>3 DEF UpdateStatus
<1>4. CASE MarkImmutableIfExpired
  <2>1. [run EXCEPT !.imm = TRUE] \in Object
    BY RunChanges
  <2>2. run' \in Object /\ cache' \in Object /\ stale' \subseteq {"cache", "read"}
    BY <1>4, <2>1, UpdateType DEF MarkImmutableIfExpired, store
  <2>3. ctl' = Idle /\ due' \in BOOLEAN
    BY <1>4 DEF MarkImmutableIfExpired, End
  <2> QED BY <1>4, <2>2, <2>3 DEF MarkImmutableIfExpired
<1>5. CASE Conflict
  BY <1>5, EndType DEF Conflict, store
<1>6. CASE RequestCancel
  <2>1. [run EXCEPT !.kill = TRUE, !.counted = TRUE] \in Object
    BY RunChanges
  <2>2. run' \in Object /\ cache' \in Object /\ stale' \subseteq {"cache", "read"}
    BY <1>6, <2>1, UpdateType DEF RequestCancel
  <2> QED BY <1>6, <2>2, EndType DEF RequestCancel
<1>7. CASE MarkKilled
  <2>1. [run EXCEPT !.state = "killed"] \in Object
    BY RunChanges
  <2>2. run' \in Object /\ cache' \in Object /\ stale' \subseteq {"cache", "read"}
    BY <1>7, <2>1, UpdateType DEF MarkKilled
  <2>3. ctl' \in Reconciles
    BY <1>7, <2>2, GoOnType DEF MarkKilled, Pcs
  <2> QED BY <1>7, <2>2, <2>3 DEF MarkKilled
<1>8. CASE ForceKill
  <2>1. InReconcile /\ Obj \in Object
    BY <1>8, ObjType DEF ForceKill, InReconcile, At
  <2>2. ctl' \in Reconciles
    BY <1>8, <2>1, GoOnType DEF ForceKill, Pcs
  <2>3. wf' \in [1..MaxRuns -> Executions] /\ last' \in 0..MaxRuns
    BY <1>8, <2>1, CancelType DEF ForceKill
  <2>4. faults' \in [FaultKinds -> 0..MaxFaults]
    BY <1>8, FaultType DEF ForceKill, FaultKinds
  <2> QED BY <1>8, <2>2, <2>3, <2>4 DEF ForceKill, store
<1>9. CASE CompleteDrain
  <2>1. [run EXCEPT !.imm = TRUE, !.counted = FALSE, !.fin = FALSE] \in Object
    BY RunChanges
  <2>2. run' \in Object /\ cache' \in Object /\ stale' \subseteq {"cache", "read"}
    BY <1>9, <2>1, UpdateType DEF CompleteDrain
  <2> QED BY <1>9, <2>2, EndType DEF CompleteDrain
<1> QED
  BY <1>1, <1>2, <1>3, <1>4, <1>5, <1>6, <1>7, <1>8, <1>9 DEF Controller

LEMMA WorldTypes ==
    ASSUME TypeOK, Users \/ CacheSync \/ Crash \/ DrainTimeout \/ \E r \in 1..MaxRuns : Closes(r)
    PROVE  TypeOK'
<1> USE DEF TypeOK, engine, world
<1>1. CASE Kill
  <2>1. [run EXCEPT !.kill = TRUE] \in Object
    BY RunChanges
  <2> QED BY <1>1, <2>1, WriteType DEF Kill
<1>2. CASE Retry
  <2>1. [run EXCEPT !.retry = run.wid] \in Object
    BY RunChanges, run.wid \in 0..MaxRuns DEF Object
  <2> QED BY <1>2, <2>1, WriteType DEF Retry
<1>3. CASE Delete
  <2>1. [run EXCEPT !.ts = TRUE] \in Object
    BY RunChanges
  <2> QED BY <1>3, <2>1, WriteType DEF Delete
<1>4. CASE CacheSync
  BY <1>4 DEF CacheSync
<1>5. CASE Crash
  BY <1>5, FaultType DEF Crash, FaultKinds
<1>6. CASE DrainTimeout
  BY <1>6 DEF DrainTimeout, store
<1>7. CASE \E r \in 1..MaxRuns : Closes(r)
  <2>1. PICK r \in 1..MaxRuns, s \in {"completed", "failed", "canceled"} : wf' = [wf EXCEPT ![r] = s]
    BY <1>7 DEF Closes
  <2>2. wf' \in [1..MaxRuns -> Executions]
    BY <2>1 DEF Executions
  <2> QED BY <1>7, <2>2 DEF Closes, store
<1> QED BY <1>1, <1>2, <1>3, <1>4, <1>5, <1>6, <1>7 DEF Users

LEMMA TypeStep ==
    ASSUME TypeOK, [Next]_vars
    PROVE  TypeOK'
<1>1. CASE UNCHANGED vars
  BY <1>1 DEF TypeOK, vars
<1> QED BY <1>1, ActorTypes, ControllerTypes, WorldTypes DEF Next

LEMMA TypeInit ==
    ASSUME Init
    PROVE  TypeOK
<1>1. NewRun \in Object
  BY RunAssumption DEF NewRun, Object
<1>2. faults \in [FaultKinds -> 0..MaxFaults]
  BY RunAssumption DEF Init
<1>3. wf \in [1..MaxRuns -> Executions] /\ 0 \in 0..MaxRuns
  BY RunAssumption DEF Init, Executions
<1> QED BY <1>1, <1>2, <1>3 DEF Init, TypeOK

\* The object, its copies, the reconcile in progress and the executions have their
\* types, however the run is killed, retried, deleted and the manager restarted.
THEOREM TypeCorrect == Spec => []TypeOK
BY TypeInit, TypeStep, PTL DEF Spec

-----------------------------------------------------------------------------
(* Success.                                                                *)

LEMMA OverForGood ==
    ASSUME TypeOK, ExecutionsInOrder, [Next]_vars
    PROVE  /\ ExecutionsInOrder'
           /\ \A r \in 1..MaxRuns : wf[r] = "completed" => wf'[r] = "completed"
<1>1. CASE UNCHANGED engine
  BY <1>1 DEF engine, ExecutionsInOrder
<1>2. CASE Actors
  BY <1>2, ActorFrame, CallKeepsOrder
<1>3. CASE ForceKill
  <2>1. InReconcile
    BY <1>3 DEF ForceKill, InReconcile, At
  <2>2. EngineCall
    BY <1>3 DEF ForceKill, EngineCall
  <2> QED BY <2>1, <2>2, CallKeepsOrder
<1>4. CASE \E r \in 1..MaxRuns : Closes(r)
  <2>1. PICK r \in 1..MaxRuns, s \in {"completed", "failed", "canceled"} :
          Open(wf[r]) /\ wf' = [wf EXCEPT ![r] = s] /\ last' = last
    BY <1>4 DEF Closes
  <2> QED BY <2>1 DEF TypeOK, ExecutionsInOrder, Open
<1>5. CASE Controller /\ ~ForceKill
  BY <1>1, <1>5 DEF Controller, Reconcile, LookupFails, Begin, EnsureDrainFinalizer, UpdateStatus,
     MarkImmutableIfExpired, Conflict, RequestCancel, MarkKilled, CompleteDrain
<1>6. CASE Users \/ CacheSync \/ Crash \/ DrainTimeout
  BY <1>1, <1>6 DEF Users, Kill, Retry, Delete, CacheSync, Crash, DrainTimeout
<1>7. CASE UNCHANGED vars
  BY <1>1, <1>7 DEF vars, engine
<1> QED BY <1>2, <1>3, <1>4, <1>5, <1>6, <1>7 DEF Next

LEMMA SpeaksOn ==
    ASSUME TypeOK, ExecutionsInOrder, [Next]_vars,
           NEW o \in Object, KnowsSuccess(o), NEW p,
           p.wid = o.wid,
           p.step = "succeeded" \/ p.state = "succeeded" =>
             o.step = "succeeded" \/ o.state = "succeeded"
    PROVE  SpeaksTrue(p)
<1>1. o.wid \in 0..MaxRuns
  BY DEF Object
<1> QED BY <1>1, OverForGood, WfType DEF KnowsSuccess, SpeaksTrue

LEMMA SuccessFrom ==
    ASSUME SpeaksTrue(run'), SpeaksTrue(cache'), ctl' = Idle \/ Follows(run')
    PROVE  SuccessIsKnown'
BY IdleType DEF SpeaksTrue, SuccessIsKnown, KnowsSuccess, Follows, InReconcile, At, Obj

LEMMA SuccessStep ==
    ASSUME TypeOK, ExecutionsInOrder, SuccessIsKnown, [Next]_vars
    PROVE  SuccessIsKnown'
<1>1. SpeaksTrue(run) /\ SpeaksTrue(cache) /\ (InReconcile => SpeaksTrue(Obj))
  BY SpeaksOn, ObjType DEF SuccessIsKnown, TypeOK
<1>2. CASE UNCHANGED <<ctl, run>> /\ cache' \in {cache, run}
  BY <1>1, <1>2 DEF SpeaksTrue, SuccessIsKnown, KnowsSuccess, InReconcile, At, Obj
<1>3. CASE ctl' = Idle /\ run' = run /\ cache' \in {cache, run}
  BY <1>1, <1>3, SuccessFrom
<1>4. CASE Actors
  <2>1. PICK o \in Object : ActorStep(o)
    BY <1>4, ActorsStep
  <2>2. SpeaksTrue(o) /\ Follows(o)
    BY <2>1 DEF ActorStep
  <2>3. run' = run /\ cache' = cache
    BY <1>4, ActorFrame DEF store
  <2> QED
    BY <1>1, <2>2, <2>3, IdleType DEF SpeaksTrue, SuccessIsKnown, KnowsSuccess, Follows, InReconcile, At, Obj
<1>5. CASE Reconcile \/ LookupFails
  <2>1. PICK o \in Object :
          /\ Begin(o) /\ o.step = cache.step
          /\ \/ o = cache
             \/ cache.wid = 0 /\ last # 0 /\ o.wid = last /\ o.state = StateOf(wf[last])
    BY <1>5, ReconcileCopy
  <2>2. KnowsSuccess(o)
    BY <2>1, StateType DEF SuccessIsKnown, KnowsSuccess
  <2>3. SpeaksTrue(o) /\ run' = run /\ cache' = cache
    BY <2>1, <2>2, SpeaksOn DEF Begin
  <2>4. ctl' = Idle \/ (ctl'.obj = o /\ ctl'.pc \notin {"cancel", "info", "retried"})
    BY <2>1, BeginType DEF Entry, DrainEntry
  <2> QED
    BY <1>1, <2>3, <2>4, IdleType DEF SpeaksTrue, SuccessIsKnown, KnowsSuccess, InReconcile, At, Obj
<1>6. CASE UpdateStatus
  <2>1. InReconcile /\ Obj \in Object
    BY <1>6, ObjType DEF UpdateStatus, InReconcile, At
  <2>2. run' = [Obj EXCEPT !.kill = run.kill] /\ cache' = cache
    BY <1>6 DEF UpdateStatus, Update
  <2>3. run' \in Object /\ run'.wid = Obj.wid /\ run'.step = Obj.step /\ run'.state = Obj.state
    BY <2>1, <2>2, run.kill \in BOOLEAN DEF Object, TypeOK
  <2>4. SpeaksTrue(run')
    BY <1>1, <2>1, <2>3 DEF SpeaksTrue
  <2>5. Follows(run')
    BY <1>6, <2>3, ContinueType DEF UpdateStatus
  <2> QED BY <1>1, <2>2, <2>4, <2>5, SuccessFrom
<1>7. CASE EnsureDrainFinalizer
  <2>1. run' = [run EXCEPT !.fin = TRUE] /\ cache' = cache /\ GoOn("engine", run')
    BY <1>7 DEF EnsureDrainFinalizer, Update
  <2>2. SpeaksTrue(run')
    BY <1>1, <2>1 DEF SpeaksTrue, TypeOK, Object
  <2> QED
    BY <1>1, <2>1, <2>2 DEF SpeaksTrue, SuccessIsKnown, KnowsSuccess, GoOn, InReconcile, At, Obj
<1>8. CASE MarkKilled
  <2>1. run' = [run EXCEPT !.state = "killed"] /\ cache' = cache /\ GoOn("finish", run')
    BY <1>8 DEF MarkKilled, Update
  <2>2. SpeaksTrue(run')
    BY <1>1, <2>1 DEF SpeaksTrue, TypeOK, Object
  <2> QED
    BY <1>1, <2>1, <2>2 DEF SpeaksTrue, SuccessIsKnown, KnowsSuccess, GoOn, InReconcile, At, Obj
<1>9. CASE ForceKill
  <2>1. InReconcile /\ run' = run /\ cache' = cache /\ GoOn("finish", Obj)
    BY <1>9 DEF ForceKill, store, InReconcile, At
  <2> QED
    BY <1>1, <2>1 DEF SpeaksTrue, SuccessIsKnown, KnowsSuccess, GoOn, InReconcile, At, Obj
<1>10. CASE MarkImmutableIfExpired \/ RequestCancel \/ CompleteDrain
  <2>1. ctl' = Idle /\ cache' = cache
        /\ run' \in {run, [run EXCEPT !.imm = TRUE], [run EXCEPT !.kill = TRUE, !.counted = TRUE],
                     [run EXCEPT !.imm = TRUE, !.counted = FALSE, !.fin = FALSE]}
    BY <1>10 DEF MarkImmutableIfExpired, RequestCancel, CompleteDrain, End, Update, store
  <2>2. SpeaksTrue(run')
    BY <1>1, <2>1 DEF SpeaksTrue, TypeOK, Object
  <2> QED BY <1>1, <2>1, <2>2, SuccessFrom
<1>11. CASE Users
  <2>1. ctl' = ctl /\ cache' = cache
        /\ run' \in {[run EXCEPT !.kill = TRUE], [run EXCEPT !.retry = run.wid], [run EXCEPT !.ts = TRUE]}
    BY <1>11 DEF Users, Kill, Retry, Delete, Write
  <2>2. SpeaksTrue(run')
    BY <1>1, <2>1 DEF SpeaksTrue, TypeOK, Object
  <2> QED
    BY <1>1, <2>1, <2>2 DEF SpeaksTrue, SuccessIsKnown, KnowsSuccess, InReconcile, At, Obj
<1>12. CASE CacheSync \/ DrainTimeout \/ (\E r \in 1..MaxRuns : Closes(r)) \/ UNCHANGED vars
  BY <1>2, <1>12 DEF CacheSync, DrainTimeout, Closes, store, vars
<1>13. CASE Conflict \/ Crash
  BY <1>3, <1>13 DEF Conflict, Crash, End, store
<1> QED
  BY <1>4, <1>5, <1>6, <1>7, <1>8, <1>9, <1>10, <1>11, <1>12, <1>13 DEF Next, Controller

\* Of the object and its copies, none speaks of a success that was not.
THEOREM SuccessStaysKnown == Spec => [](ExecutionsInOrder /\ SuccessIsKnown)
<1>1. Init => ExecutionsInOrder /\ SuccessIsKnown
  BY IdleType DEF Init, NewRun, ExecutionsInOrder, SuccessIsKnown, KnowsSuccess, InReconcile, At
<1>2. TypeOK /\ ExecutionsInOrder /\ SuccessIsKnown /\ [Next]_vars
        => (ExecutionsInOrder /\ SuccessIsKnown)'
  BY OverForGood, SuccessStep
<1> QED BY <1>1, <1>2, TypeCorrect, PTL DEF Spec

\* A run is SUCCEEDED only with an execution that completed: neither a lost status
\* nor a retry, a lagging cache or a restart makes it so.
THEOREM SuccessIsReal == Spec => []SucceededIsCompleted
<1>1. SuccessIsKnown => SucceededIsCompleted
  BY DEF SuccessIsKnown, KnowsSuccess, SucceededIsCompleted
<1> QED BY <1>1, SuccessStaysKnown, PTL

-----------------------------------------------------------------------------
(* One start.                                                              *)

InOrder == CopiesInOrder /\ WorkHasFinalizer /\ FoundAgain

\* What etcd holds of deletion, of retries and of the finalizer is not taken back.
LEMMA StoredStays ==
    ASSUME TypeOK, CopiesInOrder, WorkHasFinalizer, [Next]_vars
    PROVE  /\ run.ts => run'.ts
           /\ run.retry # 0 => run'.retry # 0
           /\ run.fin \/ run.ts => run'.fin \/ run'.ts
<1>1. CASE run' = run
  BY <1>1
<1>2. CASE UpdateStatus
  <2>1. InReconcile /\ Obj \in Object /\ run.kill \in BOOLEAN
    BY <1>2, ObjType DEF UpdateStatus, InReconcile, At, TypeOK, Object
  <2>2. run' = [Obj EXCEPT !.kill = run.kill] /\ "read" \notin stale
    BY <1>2 DEF UpdateStatus, Update
  <2> QED BY <2>1, <2>2 DEF CopiesInOrder, Object
<1>3. CASE EnsureDrainFinalizer \/ MarkImmutableIfExpired \/ RequestCancel \/ MarkKilled
  <2>1. run' \in {run, [run EXCEPT !.fin = TRUE], [run EXCEPT !.imm = TRUE],
                 [run EXCEPT !.kill = TRUE, !.counted = TRUE], [run EXCEPT !.state = "killed"]}
    BY <1>3 DEF EnsureDrainFinalizer, MarkImmutableIfExpired, RequestCancel, MarkKilled, Update, store
  <2> QED BY <2>1 DEF TypeOK, Object
<1>4. CASE CompleteDrain
  <2>1. run' = [run EXCEPT !.imm = TRUE, !.counted = FALSE, !.fin = FALSE]
    BY <1>4 DEF CompleteDrain, Update
  <2>2. run.ts
    BY <1>4 DEF CompleteDrain, CopiesInOrder, WorkHasFinalizer, InReconcile, At, Earlier
  <2> QED BY <2>1, <2>2 DEF TypeOK, Object
<1>5. CASE Users
  <2>1. run' \in {[run EXCEPT !.kill = TRUE], [run EXCEPT !.ts = TRUE]}
        \/ (run.wid # 0 /\ run' = [run EXCEPT !.retry = run.wid])
    BY <1>5 DEF Users, Kill, Retry, Delete, Write
  <2> QED BY <2>1 DEF TypeOK, Object
<1>6. CASE Reconcile \/ LookupFails \/ Conflict \/ ForceKill
  BY <1>1, <1>6 DEF Reconcile, LookupFails, Begin, Conflict, ForceKill, store
<1>7. CASE Actors
  BY <1>1, <1>7, ActorFrame DEF store
<1>8. CASE CacheSync \/ Crash \/ DrainTimeout \/ (\E r \in 1..MaxRuns : Closes(r)) \/ UNCHANGED vars
  BY <1>1, <1>8 DEF CacheSync, Crash, DrainTimeout, Closes, store, vars
<1> QED BY <1>2, <1>3, <1>4, <1>5, <1>6, <1>7, <1>8 DEF Next, Controller

LEMMA FaultsStay ==
    ASSUME TypeOK, [Next]_vars
    PROVE  /\ faults'["lookup"] = 0 => faults["lookup"] = 0
           /\ LookupFails => faults'["lookup"] # 0
<1>1. \A f \in FaultKinds : Fault(f) => (faults'["lookup"] = 0 => faults["lookup"] = 0)
  BY FaultType DEF FaultKinds
<1>2. LookupFails => faults'["lookup"] # 0
  BY FaultType DEF LookupFails, FaultKinds
<1>3. CASE UNCHANGED faults
  BY <1>2, <1>3 DEF LookupFails, Fault, TypeOK
<1>4. CASE Actors
  BY <1>2, <1>4, ActorFrame
<1>5. CASE LookupFails
  BY <1>2, <1>5
<1>6. CASE ForceKill \/ Crash
  BY <1>1, <1>2, <1>3, <1>6 DEF ForceKill, Crash, FaultKinds
<1>7. CASE (Controller /\ ~LookupFails /\ ~ForceKill) \/ Users \/ CacheSync \/ DrainTimeout
           \/ (\E r \in 1..MaxRuns : Closes(r)) \/ UNCHANGED vars
  BY <1>3, <1>7 DEF Controller, Reconcile, EnsureDrainFinalizer, UpdateStatus, MarkImmutableIfExpired,
     Conflict, RequestCancel, MarkKilled, CompleteDrain, Users, Kill, Retry, Delete, CacheSync,
     DrainTimeout, Closes, vars
<1> QED BY <1>4, <1>5, <1>6, <1>7 DEF Next

\* A copy o that takes part in the next state.
EarlierNext(o) ==
    /\ o.ts => run'.ts
    /\ o.retry # 0 => run'.retry # 0
    /\ o.fin \/ o.state # "none" => run'.fin \/ run'.ts

LEMMA StaysEarlier ==
    ASSUME TypeOK, CopiesInOrder, WorkHasFinalizer, [Next]_vars
    PROVE  /\ EarlierNext(run) /\ EarlierNext(cache)
           /\ InReconcile => EarlierNext(Obj)
BY StoredStays DEF CopiesInOrder, Earlier, EarlierNext

LEMMA ActorsInOrder ==
    ASSUME TypeOK, InOrder, Actors, [Next]_vars
    PROVE  InOrder'
<1> USE DEF InOrder
<1>1. PICK o \in Object : Follows(o) /\ SameMeta(o)
  BY ActorsStep DEF ActorStep
<1>2. InReconcile /\ EngineCall /\ UNCHANGED store /\ faults'["lookup"] = faults["lookup"]
  BY ActorFrame
<1>3. ~At("ensure")
  BY DEF Actors, SourcePipeline, SourcePipelineFails, ImageBuild, ImageMissing, Satisfied, StepIsOver,
     ManualRetry, RetryRefused, RetryFails, Terminate, CancelWorkflow, CancelFails, StartWorkflow,
     StartFails, WatchWorkflow, WatchFails, Watching, Starting, Active, Executing, At
<1>4. run.fin \/ run.ts
  BY <1>2, <1>3 DEF WorkHasFinalizer
<1>5. EarlierNext(o) /\ EarlierNext(run) /\ EarlierNext(cache)
  BY <1>1, <1>2, <1>4 DEF SameMeta, CopiesInOrder, Earlier, EarlierNext, store
<1>6. CopiesInOrder'
  <2>1. run' = run /\ cache' = cache /\ stale' = stale
    BY <1>2 DEF store
  <2>2. ctl' = Idle \/ ctl'.obj = o
    BY <1>1 DEF Follows
  <2> QED
    BY <1>1, <1>2, <1>5, <2>1, <2>2, IdleType
    DEF SameMeta, CopiesInOrder, Earlier, EarlierNext, InReconcile, At, Obj
<1>7. WorkHasFinalizer'
  <2>1. run' = run
    BY <1>2 DEF store
  <2> QED BY <1>1, <1>4, <2>1, IdleType DEF WorkHasFinalizer, Follows, InReconcile, At, Obj
<1>8. FoundAgain'
  <2>1. ~At("engine")'
    BY <1>1, IdleType DEF Follows, At
  <2>2. ASSUME faults'["lookup"] = 0, run'.retry = 0
        PROVE  last' <= 1
    <3>1. faults["lookup"] = 0 /\ run.retry = 0 /\ last <= 1 /\ last \in Nat
      BY <1>2, <2>2 DEF store, FoundAgain, TypeOK
    <3>2. Obj.retry = 0
      BY <1>2, <3>1 DEF CopiesInOrder, Earlier
    <3>3. CASE UNCHANGED engine \/ (IsOpen(Obj.wid) /\ CancelOpen)
      BY <3>1, <3>3 DEF engine, CancelOpen
    <3>4. CASE \E r \in 1..MaxRuns : At("engine") /\ Obj.wid = 0 /\ Start(r)
      BY <3>1, <3>4 DEF FoundAgain, Start, engine
    <3> QED BY <1>2, <3>2, <3>3, <3>4 DEF EngineCall
  <2> QED BY <2>1, <2>2 DEF FoundAgain
<1> QED BY <1>6, <1>7, <1>8

LEMMA ReconcileInOrder ==
    ASSUME TypeOK, InOrder, Reconcile \/ LookupFails, [Next]_vars
    PROVE  InOrder'
<1> USE DEF InOrder
<1>1. PICK o \in Object :
        /\ Begin(o)
        /\ o.fin = cache.fin /\ o.ts = cache.ts /\ o.retry = cache.retry
        /\ \/ o = cache /\ (Reconcile => cache.wid # 0 \/ last = 0)
           \/ cache.wid = 0 /\ last # 0 /\ o.wid = last /\ o.state = StateOf(wf[last])
  BY ReconcileCopy
<1>2. run' = run /\ cache' = cache /\ last' = last
      /\ stale' = IF "cache" \in stale THEN {"cache", "read"} ELSE {}
  BY <1>1 DEF Begin, engine
<1>3. ctl' = Idle \/ (ctl'.pc = Entry(o) /\ ctl'.obj = o /\ ctl'.pc # "idle")
  BY <1>1, BeginType, IdleType
<1>4. EarlierNext(o) /\ EarlierNext(run) /\ EarlierNext(cache)
  <2>1. EarlierNext(run) /\ EarlierNext(cache)
    BY StaysEarlier
  <2>2. last # 0 => run.fin \/ run.ts
    BY DEF WorkHasFinalizer
  <2> QED BY <1>1, <1>2, <2>1, <2>2 DEF EarlierNext
<1>5. CopiesInOrder'
  BY <1>1, <1>2, <1>3, <1>4, IdleType
  DEF CopiesInOrder, Earlier, EarlierNext, InReconcile, At, Obj
<1>6. WorkHasFinalizer'
  <2>1. CASE ctl' = Idle
    BY <1>2, <2>1, IdleType DEF WorkHasFinalizer, InReconcile, At
  <2>2. CASE ctl'.pc = Entry(o) /\ ctl'.obj = o /\ o.ts
    BY <1>2, <1>4, <2>2 DEF WorkHasFinalizer, EarlierNext, InReconcile, At, Obj, Entry, DrainEntry
  <2>3. CASE ctl'.pc = Entry(o) /\ ctl'.obj = o /\ ~o.ts
    <3>1. Terminal(o) => o.state # "none"
      BY DEF Terminal
    <3> QED
      BY <1>2, <1>4, <2>3, <3>1 DEF WorkHasFinalizer, EarlierNext, InReconcile, At, Obj, Entry
  <2> QED BY <1>3, <2>1, <2>2, <2>3
<1>7. FoundAgain'
  <2>1. ASSUME faults'["lookup"] = 0
        PROVE  (At("engine") /\ Obj.wid = 0)' => last' = 0
    <3>1. Reconcile /\ faults["lookup"] = 0
      BY <2>1, FaultsStay
    <3>2. CASE o = cache
      BY <1>1, <1>2, <1>3, <3>1, <3>2, IdleType DEF At, Obj
    <3>3. CASE o.wid = last /\ last # 0
      BY <1>2, <1>3, <3>3, IdleType DEF At, Obj
    <3> QED BY <1>1, <3>2, <3>3
  <2>2. faults'["lookup"] = 0 /\ run'.retry = 0 => last' <= 1
    BY <1>2, FaultsStay DEF FoundAgain
  <2> QED BY <2>1, <2>2 DEF FoundAgain
<1> QED BY <1>5, <1>6, <1>7

\* A step of the reconcile that goes nowhere near the engine, or ends it.
LEMMA QuietInOrder ==
    ASSUME TypeOK, InOrder, [Next]_vars, last' = last,
           EarlierNext(run'), EarlierNext(cache'),
           "cache" \notin stale' => cache' = run',
           \/ ctl' = Idle
           \/ /\ ctl' = ctl
              /\ "read" \notin stale' => /\ "read" \notin stale
                                        /\ run'.fin = run.fin /\ run'.ts = run.ts
                                        /\ run'.retry = run.retry
           \/ /\ InReconcile /\ ~At("ensure")
              /\ ctl'.pc \in {"finish", "expire"}
              /\ ctl'.obj \in {Obj, run'} /\ (ctl'.pc = "finish" => ctl'.obj.ts)
              /\ "read" \notin stale' => /\ ctl'.obj.fin = run'.fin /\ ctl'.obj.ts = run'.ts
                                        /\ ctl'.obj.retry = run'.retry
    PROVE  InOrder'
<1> USE DEF InOrder
<1>1. /\ run.fin \/ run.ts => run'.fin \/ run'.ts
      /\ run'.retry = 0 => run.retry = 0
      /\ InReconcile => EarlierNext(Obj)
  BY StoredStays, StaysEarlier
<1>2. CopiesInOrder'
  BY <1>1, IdleType DEF CopiesInOrder, Earlier, EarlierNext, InReconcile, At, Obj
<1>3. WorkHasFinalizer'
  BY <1>1, IdleType DEF WorkHasFinalizer, InReconcile, At, Obj
<1>4. FoundAgain'
  BY <1>1, FaultsStay, IdleType DEF FoundAgain, At, Obj
<1> QED BY <1>2, <1>3, <1>4

LEMMA OrderStep ==
    ASSUME TypeOK, InOrder, [Next]_vars
    PROVE  InOrder'
<1> USE DEF InOrder
<1>0. /\ EarlierNext(run) /\ EarlierNext(cache)
      /\ InReconcile => EarlierNext(Obj)
      /\ InReconcile => Obj \in Object
      /\ "cache" \notin stale => cache = run
  BY StaysEarlier, ObjType DEF CopiesInOrder
<1>1. CASE Actors
  BY <1>1, ActorsInOrder
<1>2. CASE Reconcile \/ LookupFails
  BY <1>2, ReconcileInOrder
<1>3. CASE EnsureDrainFinalizer
  <2>1. /\ run' = [run EXCEPT !.fin = TRUE] /\ cache' = cache /\ stale' = {"cache"}
        /\ "read" \notin stale /\ ctl' = [pc |-> "engine", obj |-> run']
        /\ last' = last /\ faults' = faults /\ At("ensure")
    BY <1>3 DEF EnsureDrainFinalizer, Update, GoOn, engine
  <2>2. run'.fin /\ run'.ts = run.ts /\ run'.retry = run.retry /\ run'.wid = run.wid
    BY <2>1 DEF TypeOK, Object
  <2>3. last = 0
    BY <2>1 DEF CopiesInOrder, WorkHasFinalizer, InReconcile, At
  <2>4. CopiesInOrder'
    BY <1>0, <2>1, <2>2 DEF CopiesInOrder, Earlier, EarlierNext, InReconcile, At, Obj
  <2>5. WorkHasFinalizer'
    BY <2>1, <2>2 DEF WorkHasFinalizer, InReconcile, At, Obj
  <2>6. FoundAgain'
    BY <2>1, <2>3 DEF FoundAgain
  <2> QED BY <2>4, <2>5, <2>6
<1>4. CASE UpdateStatus
  <2>1. /\ run' = [Obj EXCEPT !.kill = run.kill] /\ cache' = cache /\ stale' = {"cache"}
        /\ "read" \notin stale /\ Continue(run') /\ At("persist") /\ last' = last
    BY <1>4 DEF UpdateStatus, Update, engine
  <2>2. InReconcile /\ run.kill \in BOOLEAN
    BY <2>1 DEF InReconcile, At, TypeOK, Object
  <2>3. run' \in Object /\ run'.fin = Obj.fin /\ run'.ts = Obj.ts /\ run'.retry = Obj.retry
        /\ run'.state = Obj.state
    BY <1>0, <2>1, <2>2 DEF Object
  <2>4. EarlierNext(run')
    BY <1>0, <2>2, <2>3 DEF EarlierNext
  <2>5. ctl' = Idle \/ (ctl'.pc \in {"finish", "expire"} /\ ctl'.obj = run'
                        /\ (ctl'.pc = "finish" => run'.ts))
    BY <2>1 DEF Continue, End, GoOn
  <2> QED BY <1>0, <2>1, <2>2, <2>4, <2>5, QuietInOrder DEF At
<1>5. CASE MarkKilled
  <2>1. /\ run' = [run EXCEPT !.state = "killed"] /\ cache' = cache /\ stale' = {"cache"}
        /\ "read" \notin stale /\ ctl' = [pc |-> "finish", obj |-> run']
        /\ last' = last /\ At("markKilled")
    BY <1>5 DEF MarkKilled, Update, GoOn, engine
  <2>2. run.ts
    BY <2>1 DEF CopiesInOrder, WorkHasFinalizer, InReconcile, At, Earlier
  <2>3. run'.fin = run.fin /\ run'.ts /\ run'.retry = run.retry
    BY <2>1, <2>2 DEF TypeOK, Object
  <2>4. EarlierNext(run')
    BY <2>3 DEF EarlierNext
  <2> QED BY <1>0, <2>1, <2>3, <2>4, QuietInOrder DEF InReconcile, At
<1>6. CASE ForceKill
  <2>1. /\ run' = run /\ cache' = cache /\ stale' = stale
        /\ ctl' = [pc |-> "finish", obj |-> Obj] /\ last' = last /\ At("forceKill")
    BY <1>6 DEF ForceKill, store, GoOn, CancelOpen, engine
  <2>2. Obj.ts /\ InReconcile /\ ~At("ensure")
    BY <2>1 DEF WorkHasFinalizer, InReconcile, At
  <2> QED BY <1>0, <2>1, <2>2, QuietInOrder DEF CopiesInOrder
<1>7. CASE RequestCancel \/ CompleteDrain
  <2>1. /\ cache' = cache /\ stale' = {"cache"} /\ ctl' = Idle /\ last' = last
        /\ run' \in {[run EXCEPT !.kill = TRUE, !.counted = TRUE],
                     [run EXCEPT !.imm = TRUE, !.counted = FALSE, !.fin = FALSE]}
    BY <1>7 DEF RequestCancel, CompleteDrain, Update, End, engine
  <2>2. run.ts
    BY <1>7 DEF RequestCancel, CompleteDrain, CopiesInOrder, WorkHasFinalizer, InReconcile, At, Earlier
  <2>3. EarlierNext(run')
    BY <2>1, <2>2 DEF EarlierNext, TypeOK, Object
  <2> QED BY <1>0, <2>1, <2>3, QuietInOrder
<1>8. CASE MarkImmutableIfExpired
  <2>1. ctl' = Idle /\ last' = last /\ cache' = cache
    BY <1>8 DEF MarkImmutableIfExpired, Update, End, store, engine
  <2>2. CASE run' = [run EXCEPT !.imm = TRUE] /\ stale' = {"cache"}
    <3>1. EarlierNext(run')
      BY <1>0, <2>2 DEF EarlierNext, TypeOK, Object
    <3> QED BY <1>0, <2>1, <2>2, <3>1, QuietInOrder
  <2>3. CASE UNCHANGED store
    BY <1>0, <2>1, <2>3, QuietInOrder DEF store
  <2> QED BY <1>8, <2>2, <2>3 DEF MarkImmutableIfExpired, Update
<1>9. CASE Conflict
  <2>1. ctl' = Idle /\ last' = last /\ UNCHANGED store
    BY <1>9 DEF Conflict, End, engine
  <2> QED BY <1>0, <2>1, QuietInOrder DEF store
<1>10. CASE Users
  <2>1. /\ ctl' = ctl /\ last' = last /\ cache' = cache /\ stale' = {"cache", "read"}
        /\ \/ run' \in {[run EXCEPT !.kill = TRUE], [run EXCEPT !.ts = TRUE]}
           \/ run.wid # 0 /\ run' = [run EXCEPT !.retry = run.wid]
    BY <1>10 DEF Users, Kill, Retry, Delete, Write, engine
  <2>2. EarlierNext(run')
    BY <1>0, <2>1 DEF EarlierNext, TypeOK, Object
  <2> QED BY <1>0, <2>1, <2>2, QuietInOrder
<1>11. CASE CacheSync
  <2>1. ctl' = ctl /\ last' = last /\ run' = run /\ cache' = run /\ stale' = stale \ {"cache"}
    BY <1>11 DEF CacheSync, engine
  <2> QED BY <1>0, <2>1, QuietInOrder
<1>12. CASE Crash
  <2>1. ctl' = Idle /\ last' = last /\ run' = run /\ cache' = run
    BY <1>12 DEF Crash, engine
  <2> QED BY <1>0, <2>1, QuietInOrder
<1>13. CASE DrainTimeout \/ (\E r \in 1..MaxRuns : Closes(r)) \/ UNCHANGED vars
  <2>1. UNCHANGED store /\ ctl' = ctl /\ last' = last
    BY <1>13 DEF DrainTimeout, Closes, engine, store, vars
  <2> QED BY <1>0, <2>1, QuietInOrder DEF store
<1> QED
  BY <1>1, <1>2, <1>3, <1>4, <1>5, <1>6, <1>7, <1>8, <1>9, <1>10, <1>11, <1>12, <1>13
  DEF Next, Controller

\* The copies of a run stay in order, and its workflow never runs without the drain
\* finalizer: the inductive invariant.
THEOREM CopiesStayInOrder == Spec => []InOrder
<1>1. ASSUME Init
      PROVE  InOrder
  <2>1. ctl.pc = "idle" /\ last = 0 /\ cache = run
    BY <1>1, IdleType DEF Init
  <2>2. ~run.ts /\ ~run.fin /\ run.retry = 0 /\ run.state = "none"
    BY <1>1 DEF Init, NewRun
  <2>3. Earlier(run) /\ Earlier(cache)
    BY <2>1, <2>2 DEF Earlier
  <2> QED
    BY <2>1, <2>3 DEF InOrder, CopiesInOrder, WorkHasFinalizer, FoundAgain, InReconcile, At
<1>2. TypeOK /\ InOrder /\ [Next]_vars => InOrder'
  BY OrderStep
<1> QED BY <1>1, <1>2, TypeCorrect, PTL DEF Spec

\* The workflow of a run is started once, whatever crashes, conflicts and failures of
\* other calls lose its WorkflowRunId, if the lookup by name does not fail.
THEOREM OneStart == Spec => []StartedOnce
<1>1. InOrder => StartedOnce
  BY DEF InOrder, FoundAgain, StartedOnce
<1> QED BY <1>1, CopiesStayInOrder, PTL

-----------------------------------------------------------------------------
(* A run is not forgotten.                                                 *)

\* A reconcile whose copy is the latest: its Update would be taken.
Fresh == InReconcile /\ "read" \notin stale

\* What every copy says: a step that began has an execution, a retry is of one, and a
\* start that failed was stored with its step.
Told(o) ==
    /\ o.step \notin {"none", "pending"} \/ o.retry # 0 => o.wid # 0
    /\ o.step # "none" => o.prep = "done"
    /\ o.step = "pending" /\ o.wid = 0 => Terminal(o)

CopiesTell == Told(run) /\ Told(cache) /\ (InReconcile => Told(Obj))

PreparedFirst ==
    /\ last # 0 \/ run.wid # 0 \/ cache.prep = "done" => run.prep = "done"
    /\ InReconcile /\ ~At("persist") /\ Obj.prep = "done" => run.prep = "done"
    /\ ctl.pc \in {"cancel", "info", "retried"} => Obj.prep = "done"

\* A reconcile that works on an old copy will be followed by another.
OldCopyIsSeen == InReconcile /\ "read" \in stale => "cache" \in stale \/ due

\* What a reconcile on the latest copy knows of what is stored.
FreshCopy(o) ==
    /\ o.imm = run.imm
    /\ o.wid # 0 => o.prep = "done"
    /\ run.prep \in {"done", "failed"} => o.prep = run.prep

FreshAgrees ==
    Fresh =>
      /\ FreshCopy(Obj)
      /\ ctl.pc \notin {"ensure", "persist", "expire", "finish", "retried"} =>
           Obj.step = run.step /\ (Obj.state = run.state \/ (run.wid = 0 /\ Obj.wid # 0))
      /\ At("expire") => Terminal(run) /\ ~Obj.ts

Kept == NotForgotten /\ OldCopyIsSeen /\ CopiesTell /\ PreparedFirst /\ FreshAgrees

KeptWith == TypeOK /\ InOrder /\ SuccessIsKnown /\ Kept

\* A reconcile that ends and asks to be called again, or leaves news for the informer.
LEMMA EndKept ==
    ASSUME KeptWith, ctl' = Idle, due' \/ "cache" \in stale',
           Told(run'), Told(cache'),
           last' # 0 \/ run'.wid # 0 \/ cache'.prep = "done" => run'.prep = "done"
    PROVE  Kept'
<1>1. ~InReconcile'
  BY IdleType DEF InReconcile, At
<1>2. NotForgotten'
  BY DEF NotForgotten, Awaited
<1>3. CopiesTell' /\ OldCopyIsSeen' /\ FreshAgrees'
  BY <1>1 DEF CopiesTell, Told, Terminal, OldCopyIsSeen, FreshAgrees, Fresh
<1>4. PreparedFirst'
  BY <1>1, IdleType DEF PreparedFirst
<1> QED BY <1>2, <1>3, <1>4 DEF Kept

\* The actors leave a copy, stored or to be stored.
LEMMA ResultKept ==
    ASSUME KeptWith, InReconcile, ~At("persist"), UNCHANGED store,
           NEW o \in Object, Result(o) \/ (GoOn("persist", o) /\ UNCHANGED due),
           Told(o), o.imm = Obj.imm, o.ts = Obj.ts,
           last' # 0 => run.prep = "done",
           Fresh => FreshCopy(o),
           Fresh /\ o = Obj /\ Terminal(o) /\ ~At("retried") => Terminal(run)
    PROVE  Kept'
<1> USE DEF KeptWith, Kept
<1>1. run' = run /\ cache' = cache /\ stale' = stale
  BY DEF store
<1>2. CASE GoOn("persist", o) /\ UNCHANGED due
  <2>1. ctl'.pc = "persist" /\ ctl'.obj = o /\ InReconcile' /\ due' = due
    BY <1>2 DEF GoOn, InReconcile, At
  <2>2. NotForgotten' /\ OldCopyIsSeen'
    BY <1>1, <2>1 DEF NotForgotten, Awaited, OldCopyIsSeen
  <2>3. CopiesTell' /\ PreparedFirst'
    BY <1>1, <2>1 DEF CopiesTell, Told, Terminal, PreparedFirst, At, Obj
  <2>4. FreshAgrees'
    BY <1>1, <2>1 DEF FreshAgrees, Fresh, FreshCopy, At, Obj
  <2> QED BY <2>2, <2>3, <2>4
<1>3. CASE o = Obj /\ ~At("retried") /\ Continue(o) /\ Terminal(o)
  <2>1. /\ ctl'.pc \in {"finish", "expire"} /\ ctl'.obj = Obj /\ InReconcile' /\ due' = due
        /\ ctl'.pc = "expire" => ~Obj.ts
    BY <1>3 DEF Continue, GoOn, InReconcile, At
  <2>2. NotForgotten' /\ OldCopyIsSeen'
    BY <1>1, <2>1 DEF NotForgotten, Awaited, OldCopyIsSeen
  <2>3. CopiesTell' /\ PreparedFirst'
    BY <1>1, <1>3, <2>1 DEF CopiesTell, Told, Terminal, PreparedFirst, At, Obj
  <2>4. FreshAgrees'
    BY <1>1, <1>3, <2>1 DEF FreshAgrees, Fresh, FreshCopy, Terminal, At, Obj
  <2> QED BY <2>2, <2>3, <2>4
<1>4. CASE Continue(o) /\ ~Terminal(o)
  <2>1. ctl' = Idle /\ due'
    BY <1>4 DEF Continue, End
  <2> QED BY <1>1, <2>1, EndKept DEF CopiesTell, Told, Terminal, PreparedFirst
<1> QED BY <1>2, <1>3, <1>4 DEF Result

\* The reconcile goes on with the same copy.
LEMMA GoOnKept ==
    ASSUME KeptWith, ctl.pc = "engine", UNCHANGED <<store, due>>, last' = last,
           NEW pc \in {"cancel", "info"}, GoOn(pc, Obj), Obj.prep = "done"
    PROVE  Kept'
<1> USE DEF KeptWith, Kept
<1>1. run' = run /\ cache' = cache /\ stale' = stale /\ due' = due
      /\ ctl'.pc = pc /\ ctl'.obj = Obj /\ InReconcile /\ InReconcile'
  BY DEF store, GoOn, InReconcile, At
<1>2. NotForgotten' /\ OldCopyIsSeen'
  BY <1>1 DEF NotForgotten, Awaited, OldCopyIsSeen
<1>3. CopiesTell' /\ PreparedFirst'
  BY <1>1 DEF CopiesTell, Told, Terminal, PreparedFirst, At, Obj
<1>4. FreshAgrees'
  BY <1>1 DEF FreshAgrees, Fresh, FreshCopy, At, Obj
<1> QED BY <1>2, <1>3, <1>4

\* A copy the actors leave as it was, of a run that is over: so is the run that is stored.
LEMMA OverIsStored ==
    ASSUME KeptWith, Fresh, ctl.pc \in {"engine", "cancel", "info"}, Terminal(Obj),
           Obj.step # "none" \/ Obj.retry # 0 \/ Obj.prep # "done"
    PROVE  Terminal(run)
<1> USE DEF KeptWith, Kept
<1>1. InReconcile /\ FreshCopy(Obj) /\ Obj.step = run.step
      /\ (Obj.state = run.state \/ (run.wid = 0 /\ Obj.wid # 0))
  BY DEF FreshAgrees, Fresh
<1>2. Obj.retry = run.retry /\ Told(run)
  BY <1>1 DEF Fresh, InOrder, CopiesInOrder, CopiesTell
<1>3. CASE Obj.state = run.state
  BY <1>3 DEF Terminal
<1>4. CASE run.wid = 0 /\ Obj.wid # 0
  <2>1. Obj.prep = "done" /\ run.retry = 0
    BY <1>1, <1>2, <1>4 DEF FreshCopy, Told
  <2>2. run.step = "pending"
    BY <1>1, <1>2, <1>4, <2>1 DEF Told
  <2> QED BY <1>2, <1>4, <2>2 DEF Told
<1> QED BY <1>1, <1>3, <1>4

LEMMA ActorSees ==
    ASSUME KeptWith, ctl.pc \in {"engine", "cancel", "info", "retried"}
    PROVE  /\ InReconcile /\ ~At("persist") /\ Obj \in Object /\ Told(Obj)
           /\ Fresh => FreshCopy(Obj)
           /\ last # 0 => run.prep = "done"
           /\ Obj.prep = "done" => run.prep = "done"
           /\ ctl.pc # "engine" => Obj.wid # 0 /\ Obj.prep = "done"
<1>1. InReconcile /\ ~At("persist")
  BY DEF InReconcile, At
<1>2. Obj \in Object /\ Told(Obj)
  BY <1>1, ObjType DEF KeptWith, Kept, CopiesTell
<1>3. Fresh => FreshCopy(Obj)
  BY DEF KeptWith, Kept, FreshAgrees
<1>4. /\ last # 0 => run.prep = "done"
      /\ Obj.prep = "done" => run.prep = "done"
      /\ ctl.pc # "engine" => Obj.prep = "done"
  BY <1>1 DEF KeptWith, Kept, PreparedFirst
<1>5. ctl.pc # "engine" => Obj.wid # 0
  BY DEF KeptWith, SuccessIsKnown
<1> QED BY <1>1, <1>2, <1>3, <1>4, <1>5

LEMMA ErrorKept ==
    ASSUME KeptWith, ctl.pc \in {"engine", "cancel", "info", "retried"}, Obj.prep = "done",
           UNCHANGED store, StepError
    PROVE  Kept'
<1> DEFINE o == [Obj EXCEPT !.state = "failed", !.step = IF @ = "none" THEN "pending" ELSE @]
<1>1. /\ InReconcile /\ ~At("persist") /\ Obj \in Object /\ Told(Obj)
      /\ run.prep = "done" /\ (Fresh => FreshCopy(Obj))
  BY ActorSees
<1>2. /\ o \in Object /\ o.state = "failed" /\ o.step # "none"
      /\ o.step = (IF Obj.step = "none" THEN "pending" ELSE Obj.step)
      /\ o.wid = Obj.wid /\ o.imm = Obj.imm /\ o.ts = Obj.ts /\ o.retry = Obj.retry
      /\ o.prep = Obj.prep
  BY <1>1 DEF Object
<1>3. Result(o)
  BY DEF StepError
<1> HIDE DEF o
<1>4. Told(o) /\ Terminal(o)
  BY <1>1, <1>2 DEF Told, Terminal
<1>5. Fresh => FreshCopy(o)
  BY <1>1, <1>2 DEF FreshCopy
<1>6. Fresh /\ o = Obj /\ ~At("retried") => Terminal(run)
  BY <1>2, <1>4, OverIsStored DEF At
<1> QED BY <1>1, <1>2, <1>3, <1>4, <1>5, <1>6, ResultKept

LEMMA StateKept ==
    ASSUME KeptWith, At("engine"), UNCHANGED store,
           NEW s \in {"succeeded", "failed", "killed"}, ResultState(s),
           Obj.step # "none" \/ Obj.retry # 0 \/ Obj.prep # "done",
           last' # 0 => run.prep = "done"
    PROVE  Kept'
<1> DEFINE o == [Obj EXCEPT !.state = s]
<1>1. /\ InReconcile /\ ~At("persist") /\ Obj \in Object /\ Told(Obj)
      /\ (Fresh => FreshCopy(Obj))
  BY ActorSees DEF At
<1>2. /\ o \in Object /\ o.state = s /\ o.step = Obj.step
      /\ o.wid = Obj.wid /\ o.imm = Obj.imm /\ o.ts = Obj.ts /\ o.retry = Obj.retry
      /\ o.prep = Obj.prep
  BY <1>1 DEF Object
<1>3. Result(o)
  BY DEF ResultState
<1> HIDE DEF o
<1>4. Told(o)
  BY <1>1, <1>2 DEF Told, Terminal
<1>5. Fresh => FreshCopy(o)
  BY <1>1, <1>2 DEF FreshCopy
<1>6. Fresh /\ o = Obj /\ Terminal(o) => Terminal(run)
  BY OverIsStored DEF At
<1> QED BY <1>1, <1>2, <1>3, <1>4, <1>5, <1>6, ResultKept

LEMMA PreparationKept ==
    ASSUME KeptWith, SourcePipeline \/ SourcePipelineFails \/ ImageBuild \/ ImageMissing
    PROVE  Kept'
<1>1. /\ At("engine") /\ UNCHANGED store /\ last' = last /\ Obj.prep # "done"
  BY DEF SourcePipeline, SourcePipelineFails, ImageBuild, ImageMissing, engine
<1>2. /\ InReconcile /\ ~At("persist") /\ Obj \in Object /\ Told(Obj)
      /\ (Fresh => FreshCopy(Obj)) /\ (last' # 0 => run.prep = "done")
  BY <1>1, ActorSees DEF At
<1>3. CASE SourcePipelineFails
  BY <1>1, <1>2, <1>3, StateKept DEF SourcePipelineFails, EngineError
<1>4. ASSUME NEW p \in {"source", "done", "failed"}, NEW s \in {"running", "failed"},
             Obj.prep = "none" \/ Obj.prep = "source", p # Obj.prep,
             Result([Obj EXCEPT !.prep = p, !.state = s])
      PROVE  Kept'
  <2> DEFINE o == [Obj EXCEPT !.prep = p, !.state = s]
  <2>1. /\ o \in Object /\ o.state = s /\ o.step = Obj.step /\ o.prep = p
        /\ o.wid = Obj.wid /\ o.imm = Obj.imm /\ o.ts = Obj.ts /\ o.retry = Obj.retry
    BY <1>2 DEF Object
  <2>2. Result(o)
    BY <1>4
  <2> HIDE DEF o
  <2>3. Told(o) /\ o # Obj
    <3>1. Obj.step = "none" /\ o.prep # Obj.prep
      BY <1>2, <1>4, <2>1 DEF Told
    <3> QED BY <1>2, <2>1, <3>1 DEF Told
  <2>4. Fresh => FreshCopy(o)
    BY <1>2, <1>4, <2>1 DEF FreshCopy
  <2> QED BY <1>1, <1>2, <2>1, <2>2, <2>3, <2>4, ResultKept
<1>5. CASE SourcePipeline \/ ImageBuild
  BY <1>4, <1>5 DEF SourcePipeline, ImageBuild
<1>6. CASE ImageMissing
  <2> DEFINE o == [Obj EXCEPT !.state = "failed"]
  <2>1. /\ o \in Object /\ o.state = "failed" /\ o.step = Obj.step /\ o.prep = Obj.prep
        /\ o.wid = Obj.wid /\ o.imm = Obj.imm /\ o.ts = Obj.ts /\ o.retry = Obj.retry
    BY <1>2 DEF Object
  <2>2. GoOn("persist", o) /\ UNCHANGED due
    BY <1>6 DEF ImageMissing
  <2> HIDE DEF o
  <2>3. Told(o)
    BY <1>2, <2>1 DEF Told, Terminal
  <2>4. Fresh => FreshCopy(o)
    BY <1>2, <2>1 DEF FreshCopy
  <2>5. Fresh /\ o = Obj /\ Terminal(o) => Terminal(run)
    BY <1>1, OverIsStored DEF At
  <2> QED BY <1>1, <1>2, <2>1, <2>2, <2>3, <2>4, <2>5, ResultKept
<1> QED BY <1>3, <1>5, <1>6

LEMMA RetryKept ==
    ASSUME KeptWith, ManualRetry \/ RetryRefused \/ RetryFails
    PROVE  Kept'
<1>1. At("engine") /\ ctl.pc = "engine" /\ Obj.prep = "done" /\ Obj.retry # 0 /\ UNCHANGED store
  BY DEF ManualRetry, RetryRefused, RetryFails, Executing, RetryDue, At
<1>2. /\ InReconcile /\ Obj \in Object /\ Told(Obj) /\ run.prep = "done"
      /\ (Fresh => FreshCopy(Obj))
  BY <1>1, ActorSees
<1>3. CASE RetryRefused \/ RetryFails
  BY <1>1, <1>2, <1>3, StateKept DEF RetryRefused, RetryFails, EngineError
<1>4. CASE ManualRetry
  <2> DEFINE o == [Obj EXCEPT !.wid = last + 1, !.state = "running", !.kill = FALSE,
                              !.step = IF @ \in {"none", "pending"} THEN @ ELSE "running"]
  <2>1. /\ last + 1 \in 0..MaxRuns /\ last + 1 # 0
    BY <1>4, RunAssumption DEF ManualRetry, Reset, KeptWith, TypeOK
  <2>2. /\ o \in Object /\ o.wid # 0 /\ o.prep = "done" /\ o.imm = Obj.imm /\ o.ts = Obj.ts
    BY <1>1, <1>2, <2>1 DEF Object
  <2>3. ctl' = [pc |-> "retried", obj |-> o] /\ due' = due
    BY <1>4 DEF ManualRetry, GoOn
  <2> HIDE DEF o
  <2>4. run' = run /\ cache' = cache /\ stale' = stale /\ InReconcile'
    BY <1>1, <2>3 DEF store, InReconcile, At
  <2>5. NotForgotten' /\ OldCopyIsSeen'
    BY <1>2, <2>3, <2>4 DEF KeptWith, Kept, NotForgotten, Awaited, OldCopyIsSeen
  <2>6. Told(o)
    BY <2>2 DEF Told
  <2>7. CopiesTell'
    BY <2>3, <2>4, <2>6 DEF KeptWith, Kept, CopiesTell, Told, Terminal, Obj
  <2>8. PreparedFirst'
    BY <1>2, <2>2, <2>3, <2>4 DEF PreparedFirst, At, Obj
  <2>9. FreshAgrees'
    BY <1>2, <2>2, <2>3, <2>4 DEF FreshAgrees, Fresh, FreshCopy, At, Obj
  <2> QED BY <2>5, <2>7, <2>8, <2>9 DEF Kept
<1> QED BY <1>3, <1>4

LEMMA StepOverKept ==
    ASSUME KeptWith, Satisfied \/ StepIsOver
    PROVE  Kept'
<1>1. At("engine") /\ ctl.pc = "engine" /\ Obj.step # "none" /\ UNCHANGED store /\ last' = last
  BY DEF Satisfied, StepIsOver, Executing, engine, At
<1>2. \E s \in {"succeeded", "failed", "killed"} : ResultState(s)
  BY DEF Satisfied, StepIsOver
<1>3. last' # 0 => run.prep = "done"
  BY <1>1, ActorSees
<1> QED BY <1>1, <1>2, <1>3, StateKept

LEMMA TerminateKept ==
    ASSUME KeptWith, Terminate
    PROVE  Kept'
<1>1. ctl.pc = "engine" /\ UNCHANGED <<store, due>> /\ last' = last /\ Obj.prep = "done"
  BY DEF Terminate, engine, At, Active, Executing
<1>2. GoOn("cancel", Obj) \/ GoOn("info", Obj)
  BY DEF Terminate
<1> QED BY <1>1, <1>2, GoOnKept

LEMMA CancelKept ==
    ASSUME KeptWith, CancelWorkflow \/ CancelFails
    PROVE  Kept'
<1>1. ctl.pc = "cancel" /\ UNCHANGED store /\ last' = last
  BY DEF CancelWorkflow, CancelFails, CancelOpen, engine, At
<1>2. /\ InReconcile /\ ~At("persist") /\ Obj \in Object /\ Obj.wid # 0 /\ Obj.prep = "done"
      /\ (last # 0 => run.prep = "done") /\ (Fresh => FreshCopy(Obj))
  BY <1>1, ActorSees
<1>3. CASE StepError
  BY <1>1, <1>2, <1>3, ErrorKept
<1>4. CASE Result(Killed)
  <2>1. /\ Killed \in Object /\ Killed.step = "killed" /\ Killed.prep = Obj.prep
        /\ Killed.wid = Obj.wid /\ Killed.imm = Obj.imm /\ Killed.ts = Obj.ts
    BY <1>2 DEF Killed, Object
  <2>2. Told(Killed)
    BY <1>2, <2>1 DEF Told
  <2>3. Fresh => FreshCopy(Killed)
    BY <1>2, <2>1 DEF FreshCopy
  <2>4. Fresh /\ Killed = Obj /\ Terminal(Killed) => Terminal(run)
    BY <1>1, <2>1, OverIsStored
  <2> QED BY <1>1, <1>2, <1>4, <2>1, <2>2, <2>3, <2>4, ResultKept
<1> QED BY <1>3, <1>4 DEF CancelWorkflow, CancelFails

LEMMA StartKept ==
    ASSUME KeptWith, StartWorkflow \/ StartFails
    PROVE  Kept'
<1>1. At("engine") /\ ctl.pc = "engine" /\ Obj.prep = "done" /\ UNCHANGED store
  BY DEF StartWorkflow, StartFails, Starting, Active, Executing, At
<1>2. /\ InReconcile /\ ~At("persist") /\ Obj \in Object /\ Told(Obj) /\ run.prep = "done"
      /\ (Fresh => FreshCopy(Obj))
  BY <1>1, ActorSees
<1>3. CASE StepError
  BY <1>1, <1>3, ErrorKept
<1>4. ASSUME NEW r \in 1..MaxRuns,
             Result([Obj EXCEPT !.wid = r, !.step = "running", !.state = "running"])
      PROVE  Kept'
  <2> DEFINE o == [Obj EXCEPT !.wid = r, !.step = "running", !.state = "running"]
  <2>1. r \in 0..MaxRuns /\ r # 0
    BY RunAssumption
  <2>2. /\ o \in Object /\ o.wid # 0 /\ o.step = "running" /\ o.state = "running"
        /\ o.prep = Obj.prep /\ o.imm = Obj.imm /\ o.ts = Obj.ts
    BY <1>2, <2>1 DEF Object
  <2>3. Result(o)
    BY <1>4
  <2> HIDE DEF o
  <2>4. Told(o) /\ ~Terminal(o)
    BY <1>1, <2>2 DEF Told, Terminal
  <2>5. Fresh => FreshCopy(o)
    BY <1>1, <1>2, <2>2 DEF FreshCopy
  <2> QED BY <1>1, <1>2, <2>2, <2>3, <2>4, <2>5, ResultKept
<1> QED BY <1>3, <1>4 DEF StartWorkflow, StartFails

LEMMA WatchKept ==
    ASSUME KeptWith, WatchWorkflow \/ WatchFails
    PROVE  Kept'
<1>1. /\ ctl.pc \in {"engine", "info", "retried"} /\ UNCHANGED store /\ last' = last
      /\ (ctl.pc = "engine" => Obj.prep = "done" /\ Obj.wid # 0)
  BY DEF WatchWorkflow, WatchFails, Watching, Active, Executing, At, engine
<1>2. /\ InReconcile /\ ~At("persist") /\ Obj \in Object /\ Told(Obj)
      /\ Obj.prep = "done" /\ Obj.wid # 0
      /\ (last # 0 => run.prep = "done") /\ (Fresh => FreshCopy(Obj))
  BY <1>1, ActorSees
<1>3. CASE StepError
  BY <1>1, <1>2, <1>3, ErrorKept
<1>4. CASE WatchWorkflow
  <2> DEFINE step == StepOf(wf[Obj.wid])
             o == [Obj EXCEPT !.step = step,
                              !.state = IF step = "succeeded" THEN "running" ELSE step]
  <2>1. step \in {"running", "succeeded", "failed", "killed"}
    BY StateType
  <2>2. Result(o) \/ (GoOn("persist", o) /\ UNCHANGED due)
    BY <1>4 DEF WatchWorkflow
  <2> HIDE DEF step
  <2>3. /\ o \in Object /\ o.wid = Obj.wid /\ o.step = step
        /\ o.prep = Obj.prep /\ o.imm = Obj.imm /\ o.ts = Obj.ts
    BY <1>2, <2>1 DEF Object
  <2> HIDE DEF o
  <2>4. Told(o)
    BY <1>2, <2>1, <2>3 DEF Told
  <2>5. Fresh => FreshCopy(o)
    BY <1>2, <2>3 DEF FreshCopy
  <2>6. Fresh /\ o = Obj /\ Terminal(o) /\ ~At("retried") => Terminal(run)
    BY <1>1, <2>1, <2>3, OverIsStored DEF At
  <2> QED BY <1>1, <1>2, <2>2, <2>3, <2>4, <2>5, <2>6, ResultKept
<1> QED BY <1>3, <1>4 DEF WatchFails

LEMMA ActorsKept ==
    ASSUME KeptWith, Actors
    PROVE  Kept'
BY PreparationKept, StepOverKept, RetryKept, TerminateKept, CancelKept, StartKept, WatchKept
DEF Actors

LEMMA ReconcileKept ==
    ASSUME KeptWith, Reconcile \/ LookupFails
    PROVE  Kept'
<1> USE DEF KeptWith, Kept
<1>1. PICK o \in Object :
        /\ Begin(o)
        /\ o.fin = cache.fin /\ o.ts = cache.ts /\ o.retry = cache.retry
        /\ o.step = cache.step /\ o.prep = cache.prep /\ o.imm = cache.imm
        /\ o = cache \/ (cache.wid = 0 /\ last # 0 /\ o.wid = last)
  BY ReconcileCopy
<1>2. /\ run' = run /\ cache' = cache /\ last' = last /\ ~due'
      /\ stale' = IF "cache" \in stale THEN {"cache", "read"} ELSE {}
      /\ "cache" \notin stale => cache = run
  BY <1>1 DEF Begin, engine, InOrder, CopiesInOrder
<1>3. \/ ctl' = Idle /\ Entry(o) = "idle"
      \/ ctl'.pc = Entry(o) /\ ctl'.obj = o /\ Entry(o) # "idle"
  BY <1>1 DEF Begin
<1>4. /\ Entry(o) \in {"idle", "ensure", "engine", "finish", "forceKill", "markKilled", "requestCancel"}
      /\ Entry(o) = "idle" => o.ts /\ ~o.fin
  BY DEF Entry, DrainEntry
<1>5. Told(o)
  BY <1>1 DEF CopiesTell, Told
<1>6. NotForgotten'
  BY <1>1, <1>2, <1>3, <1>4, IdleType DEF NotForgotten, Awaited, Drained, InReconcile, At
<1>7. OldCopyIsSeen'
  BY <1>2 DEF OldCopyIsSeen
<1>8. CopiesTell'
  BY <1>2, <1>3, <1>5, IdleType DEF CopiesTell, Told, Terminal, InReconcile, At, Obj
<1>9. PreparedFirst'
  BY <1>1, <1>2, <1>3, <1>4, IdleType DEF PreparedFirst, InReconcile, At, Obj
<1>10. FreshAgrees'
  <2> SUFFICES ASSUME Fresh'
               PROVE  FreshAgrees'
    BY DEF FreshAgrees
  <2>1. cache = run /\ ctl'.pc = Entry(o) /\ ctl'.obj = o
    BY <1>2, <1>3, IdleType DEF Fresh, InReconcile, At
  <2>2. FreshCopy(Obj)'
    BY <1>1, <1>2, <2>1 DEF FreshCopy, PreparedFirst, Obj
  <2>3. ~At("expire")'
    BY <1>4, <2>1 DEF At
  <2> QED BY <1>1, <1>2, <2>1, <2>2, <2>3 DEF FreshAgrees, Obj
<1> QED BY <1>6, <1>7, <1>8, <1>9, <1>10

\* An Update of the reconcile after which it goes on with what it stored.
LEMMA StoredKept ==
    ASSUME KeptWith, InReconcile, stale' = {"cache"}, cache' = cache, last' = last,
           Told(run'), last # 0 \/ run'.wid # 0 \/ cache.prep = "done" => run'.prep = "done",
           \/ ctl' = Idle
           \/ /\ ctl'.obj = run' /\ ctl'.pc \in {"engine", "finish", "expire"}
              /\ ctl'.pc = "expire" => Terminal(run') /\ ~run'.ts
    PROVE  Kept'
<1> USE DEF KeptWith, Kept
<1>1. NotForgotten'
  BY DEF NotForgotten, Awaited
<1>2. OldCopyIsSeen'
  BY DEF OldCopyIsSeen
<1>3. CopiesTell' /\ PreparedFirst'
  BY IdleType DEF CopiesTell, Told, Terminal, PreparedFirst, InReconcile, At, Obj
<1>4. FreshAgrees'
  BY IdleType DEF FreshAgrees, Fresh, FreshCopy, InReconcile, At, Obj
<1> QED BY <1>1, <1>2, <1>3, <1>4

LEMMA UpdatesKept ==
    ASSUME KeptWith, \/ EnsureDrainFinalizer \/ UpdateStatus \/ RequestCancel
                     \/ MarkKilled \/ CompleteDrain
    PROVE  Kept'
<1> USE DEF KeptWith, Kept
<1>1. /\ InReconcile /\ Obj \in Object /\ Fresh /\ stale' = {"cache"} /\ cache' = cache /\ last' = last
      /\ run \in Object /\ run.kill \in BOOLEAN
  BY ObjType
  DEF EnsureDrainFinalizer, UpdateStatus, RequestCancel, MarkKilled, CompleteDrain, Update, engine,
      Fresh, InReconcile, At, TypeOK, Object
<1>2. Told(run) /\ Told(Obj)
      /\ (last # 0 \/ run.wid # 0 \/ cache.prep = "done" => run.prep = "done")
  BY <1>1 DEF CopiesTell, PreparedFirst
<1>3. CASE UpdateStatus
  <2>1. run' = [Obj EXCEPT !.kill = run.kill] /\ Continue(run')
    BY <1>3 DEF UpdateStatus, Update
  <2>2. /\ run'.wid = Obj.wid /\ run'.step = Obj.step /\ run'.retry = Obj.retry
        /\ run'.prep = Obj.prep /\ run'.state = Obj.state
    BY <1>1, <2>1 DEF Object
  <2>3. Told(run') /\ (last # 0 \/ run'.wid # 0 \/ cache.prep = "done" => run'.prep = "done")
    BY <1>1, <1>2, <2>2 DEF Told, Terminal, FreshAgrees, FreshCopy
  <2>4. \/ ctl' = Idle
        \/ /\ ctl'.obj = run' /\ ctl'.pc \in {"finish", "expire"} /\ Terminal(run')
           /\ ctl'.pc = "expire" => ~run'.ts
    BY <2>1 DEF Continue, End, GoOn
  <2> QED BY <1>1, <2>3, <2>4, StoredKept
<1>4. CASE EnsureDrainFinalizer \/ RequestCancel \/ MarkKilled \/ CompleteDrain
  <2>1. run' \in {[run EXCEPT !.fin = TRUE], [run EXCEPT !.kill = TRUE, !.counted = TRUE],
                  [run EXCEPT !.state = "killed"],
                  [run EXCEPT !.imm = TRUE, !.counted = FALSE, !.fin = FALSE]}
    BY <1>4 DEF EnsureDrainFinalizer, RequestCancel, MarkKilled, CompleteDrain, Update
  <2>2. /\ run'.wid = run.wid /\ run'.step = run.step /\ run'.retry = run.retry
        /\ run'.prep = run.prep /\ (run'.state = run.state \/ Terminal(run'))
    BY <1>1, <2>1 DEF Object, Terminal
  <2>3. Told(run') /\ (last # 0 \/ run'.wid # 0 \/ cache.prep = "done" => run'.prep = "done")
    BY <1>2, <2>2 DEF Told, Terminal
  <2>4. ctl' = Idle \/ (ctl'.obj = run' /\ ctl'.pc \in {"engine", "finish"})
    BY <1>4 DEF EnsureDrainFinalizer, RequestCancel, MarkKilled, CompleteDrain, GoOn, End
  <2> QED BY <1>1, <2>3, <2>4, StoredKept
<1> QED BY <1>3, <1>4

\* The step that may leave a run to itself: it is over, immutable and not deleted, or the
\* informer has news of it.
LEMMA ExpireKept ==
    ASSUME KeptWith, MarkImmutableIfExpired
    PROVE  Kept'
<1> USE DEF KeptWith, Kept
<1>1. At("expire") /\ InReconcile /\ ctl' = Idle /\ cache' = cache /\ last' = last /\ run \in Object
  BY DEF MarkImmutableIfExpired, InReconcile, At, Update, End, store, engine, TypeOK
<1>2. /\ Told(run) /\ Told(cache)
      /\ (last # 0 \/ run.wid # 0 \/ cache.prep = "done" => run.prep = "done")
  BY DEF CopiesTell, PreparedFirst
<1>3. CASE run' = [run EXCEPT !.imm = TRUE] /\ stale' = {"cache"}
  <2>1. /\ run'.wid = run.wid /\ run'.step = run.step /\ run'.retry = run.retry
        /\ run'.prep = run.prep /\ run'.state = run.state
    BY <1>1, <1>3 DEF Object
  <2>2. Told(run') /\ (last # 0 \/ run'.wid # 0 \/ cache.prep = "done" => run'.prep = "done")
    BY <1>2, <2>1 DEF Told, Terminal
  <2> QED BY <1>1, <1>3, <2>2, StoredKept
<1>4. CASE UNCHANGED store /\ due' = (due \/ ~Obj.imm)
  <2>0. run' = run /\ cache' = cache /\ stale' = stale
    BY <1>4 DEF store
  <2>1. CASE due' \/ "cache" \in stale'
    BY <1>1, <1>2, <2>0, <2>1, EndKept DEF Told, Terminal
  <2>2. CASE ~due' /\ "cache" \notin stale'
    <3>1. Fresh /\ Obj.imm
      BY <1>1, <1>4, <2>0, <2>2 DEF OldCopyIsSeen, Fresh
    <3>2. run.imm /\ Terminal(run) /\ ~Obj.ts
      BY <1>1, <3>1 DEF FreshAgrees, FreshCopy
    <3>3. ~run.ts
      BY <3>1, <3>2 DEF InOrder, CopiesInOrder, Fresh
    <3>4. NotForgotten'
      BY <2>0, <3>2, <3>3 DEF NotForgotten, Terminal
    <3>5. CopiesTell' /\ OldCopyIsSeen' /\ FreshAgrees' /\ PreparedFirst'
      BY <1>1, <1>2, <2>0, IdleType
      DEF CopiesTell, Told, Terminal, OldCopyIsSeen, FreshAgrees, Fresh, PreparedFirst, InReconcile, At
    <3> QED BY <3>4, <3>5
  <2> QED BY <2>1, <2>2
<1> QED BY <1>3, <1>4 DEF MarkImmutableIfExpired, Update, End

\* A reconcile whose Update was refused is followed by another: the controller asks for
\* it, or the change that came between is news.
LEMMA ConflictKept ==
    ASSUME KeptWith, Conflict
    PROVE  Kept'
<1> USE DEF KeptWith, Kept
<1>1. /\ InReconcile /\ "read" \in stale /\ ctl' = Idle /\ last' = last
      /\ run' = run /\ cache' = cache /\ stale' = stale /\ due' = (due \/ ~At("expire"))
  BY DEF Conflict, InReconcile, At, End, store, engine
<1>2. due' \/ "cache" \in stale'
  BY <1>1 DEF OldCopyIsSeen
<1>3. /\ Told(run') /\ Told(cache')
      /\ (last' # 0 \/ run'.wid # 0 \/ cache'.prep = "done" => run'.prep = "done")
  BY <1>1 DEF CopiesTell, Told, Terminal, PreparedFirst
<1> QED BY <1>1, <1>2, <1>3, EndKept

LEMMA ForceKillKept ==
    ASSUME KeptWith, ForceKill
    PROVE  Kept'
<1> USE DEF KeptWith, Kept
<1>1. /\ At("forceKill") /\ InReconcile /\ ctl'.pc = "finish" /\ ctl'.obj = Obj /\ last' = last
      /\ run' = run /\ cache' = cache /\ stale' = stale /\ due' = due
  BY DEF ForceKill, InReconcile, At, GoOn, store, CancelOpen, engine
<1>2. NotForgotten' /\ OldCopyIsSeen'
  BY <1>1 DEF NotForgotten, Awaited, OldCopyIsSeen, InReconcile, At
<1>3. CopiesTell' /\ PreparedFirst'
  BY <1>1 DEF CopiesTell, Told, Terminal, PreparedFirst, At, Obj
<1>4. FreshAgrees'
  BY <1>1 DEF FreshAgrees, Fresh, FreshCopy, InReconcile, At, Obj
<1> QED BY <1>2, <1>3, <1>4

LEMMA UsersKept ==
    ASSUME KeptWith, Users
    PROVE  Kept'
<1> USE DEF KeptWith, Kept
<1>1. /\ ctl' = ctl /\ last' = last /\ cache' = cache /\ stale' = {"cache", "read"} /\ run \in Object
      /\ \/ run' \in {[run EXCEPT !.kill = TRUE], [run EXCEPT !.ts = TRUE]}
         \/ run.wid # 0 /\ run' = [run EXCEPT !.retry = run.wid]
  BY DEF Users, Kill, Retry, Delete, Write, engine, TypeOK
<1>2. /\ run'.wid = run.wid /\ run'.step = run.step /\ run'.prep = run.prep
      /\ run'.state = run.state /\ (run'.retry = run.retry \/ run.wid # 0)
  BY <1>1 DEF Object
<1>3. CopiesTell' /\ PreparedFirst'
  BY <1>1, <1>2 DEF CopiesTell, Told, Terminal, PreparedFirst, InReconcile, At, Obj
<1>4. NotForgotten' /\ OldCopyIsSeen' /\ FreshAgrees'
  BY <1>1 DEF NotForgotten, Awaited, OldCopyIsSeen, FreshAgrees, Fresh
<1> QED BY <1>3, <1>4

LEMMA RestKept ==
    ASSUME KeptWith, CacheSync \/ Crash \/ DrainTimeout \/ (\E r \in 1..MaxRuns : Closes(r)) \/ UNCHANGED vars
    PROVE  Kept'
<1> USE DEF KeptWith, Kept
<1>1. run' = run /\ last' = last
  BY DEF CacheSync, Crash, DrainTimeout, Closes, store, engine, vars
<1>2. /\ Told(run) /\ Told(cache)
      /\ (last # 0 \/ run.wid # 0 \/ cache.prep = "done" => run.prep = "done")
  BY DEF CopiesTell, PreparedFirst
<1>3. CASE Crash
  <2>1. ctl' = Idle /\ due' /\ cache' = run
    BY <1>3 DEF Crash
  <2> QED BY <1>1, <1>2, <2>1, EndKept
<1>4. CASE CacheSync
  <2>1. ctl' = ctl /\ due' /\ cache' = run /\ stale' = stale \ {"cache"}
    BY <1>4 DEF CacheSync
  <2>2. NotForgotten' /\ OldCopyIsSeen'
    BY <2>1 DEF NotForgotten, Awaited, OldCopyIsSeen
  <2>3. CopiesTell' /\ PreparedFirst'
    BY <1>1, <1>2, <2>1 DEF CopiesTell, Told, Terminal, PreparedFirst, InReconcile, At, Obj
  <2>4. FreshAgrees'
    BY <1>1, <2>1 DEF FreshAgrees, Fresh, FreshCopy, Terminal, InReconcile, At, Obj
  <2> QED BY <2>2, <2>3, <2>4
<1>5. CASE DrainTimeout \/ (\E r \in 1..MaxRuns : Closes(r)) \/ UNCHANGED vars
  <2>1. ctl' = ctl /\ due' = due /\ cache' = cache /\ stale' = stale
    BY <1>5 DEF DrainTimeout, Closes, store, vars
  <2>2. NotForgotten' /\ OldCopyIsSeen'
    BY <1>1, <2>1 DEF NotForgotten, Awaited, OldCopyIsSeen, InReconcile, At, Drained, Terminal
  <2>3. CopiesTell' /\ PreparedFirst'
    BY <1>1, <2>1 DEF CopiesTell, Told, Terminal, PreparedFirst, InReconcile, At, Obj
  <2>4. FreshAgrees'
    BY <1>1, <2>1 DEF FreshAgrees, Fresh, FreshCopy, Terminal, InReconcile, At, Obj
  <2> QED BY <2>2, <2>3, <2>4
<1> QED BY <1>3, <1>4, <1>5

LEMMA KeptStep ==
    ASSUME KeptWith, [Next]_vars
    PROVE  Kept'
BY ActorsKept, ReconcileKept, UpdatesKept, ExpireKept, ConflictKept, ForceKillKept, UsersKept, RestKept
DEF Next, Controller

LEMMA KeptInit ==
    ASSUME Init
    PROVE  Kept
<1>1. ~InReconcile /\ due /\ last = 0 /\ run = NewRun /\ cache = NewRun /\ ctl.pc = "idle"
  BY IdleType DEF Init, InReconcile, At
<1>2. Told(NewRun) /\ NewRun.wid = 0 /\ NewRun.prep = "none"
  BY DEF Told, NewRun
<1> QED
  BY <1>1, <1>2
  DEF Kept, NotForgotten, Awaited, OldCopyIsSeen, CopiesTell, PreparedFirst, FreshAgrees, Fresh

LEMMA RunStaysKept == Spec => []Kept
<1>1. KeptWith /\ [Next]_vars => Kept'
  BY KeptStep
<1>2. Init => Kept
  BY KeptInit
<1>3. KeptWith <=> TypeOK /\ InOrder /\ SuccessIsKnown /\ Kept
  BY DEF KeptWith
<1> QED BY <1>1, <1>2, <1>3, TypeCorrect, CopiesStayInOrder, SuccessStaysKnown, PTL DEF Spec

\* Whatever fails, is refused or crashes, a run is awaited by somebody until it is drained,
\* or over and immutable: the wake-up it needs is never lost.
THEOREM RunIsKept == Spec => []NotForgotten
<1>1. Kept => NotForgotten
  BY DEF Kept
<1> QED BY <1>1, RunStaysKept, PTL

=============================================================================
