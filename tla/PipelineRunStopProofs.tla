----------------------- MODULE PipelineRunStopProofs -----------------------
(***************************************************************************)
(* A pipeline run that is let go of, or shown as killed, leaves no workflow*)
(* that runs and was not told to stop: for any number of executions,       *)
(* crashes and deletions, as long as nobody retries and the engine answers.*)
(* For a killed run it is enough that it finds executions by name.         *)
(* And, whatever fails, a run is a child that is drained as Drain says.    *)
(***************************************************************************)
EXTENDS PipelineRunProofs

Answered == EngineAnswered /\ run.retry = 0

StepOver(o) == o.step \in {"succeeded", "failed", "killed"}

\* Nothing will be done for the run again.
Over(o) == Terminal(o) \/ StepOver(o) \/ o.imm \/ (o.ts /\ ~o.fin)

\* A copy names the one execution there is, or none; a step that is over was its.
Named(o) ==
    /\ o.wid # 0 => o.wid = last
    /\ StepOver(o) => o.wid # 0

CopiesNamed ==
    /\ Named(run) /\ Named(cache) /\ (InReconcile => Named(Obj))
    /\ ctl.pc \in {"engine", "forceKill", "markKilled"} /\ Obj.wid = 0 => last = 0
    /\ At("engine") /\ Obj.ts => Obj.wid # 0
    /\ At("markKilled") => Obj.wid = 0

\* The workflow comes after the preparation, and that after the finalizer.
Prepared ==
    /\ last # 0 => run.prep = "done"
    /\ cache.prep = "done" => run.prep = "done"
    /\ InReconcile /\ ~At("persist") /\ Obj.prep = "done" => run.prep = "done"
    /\ run.prep # "none" \/ run.imm => run.fin \/ run.ts
    /\ InReconcile /\ Obj.ts => cache.ts

\* Who might start a workflow for a run that is over would have to know neither of its
\* deletion nor of the missing image.
Closed ==
    last = 0 /\ Over(run) =>
        \/ cache.ts
        \/ run.prep = "failed"
        \/ run.prep = "none" /\ Drained

NoLateStart ==
    At("engine") /\ Obj.wid = 0 /\ Obj.prep = "done" => ~Over(run)

\* What a reconcile that can store knows.
FreshEngine ==
    /\ Obj.prep = run.prep /\ Obj.step = run.step
    /\ Terminal(Obj) => Terminal(run) \/ (last # 0 /\ ~Runs(last))

FreshPersist ==
    /\ run.prep \in {"done", "failed"} => Obj.prep = run.prep
    /\ Terminal(Obj) \/ StepOver(Obj) => ~Runs(last)
    /\ last = 0 /\ Terminal(Obj) => Obj.prep = "failed"

FreshKnows ==
    Fresh =>
      /\ ~Drained /\ Obj.imm = run.imm
      /\ ctl.pc \notin {"ensure", "persist", "expire", "finish"} => FreshEngine
      /\ At("persist") => FreshPersist
      /\ At("expire") => ~Runs(last) /\ (last = 0 => Terminal(run))
      /\ At("finish") => ~Runs(last)

OverRunsNothing == Over(run) => ~Runs(last)

Quiet ==
    CopiesNamed /\ Prepared /\ Closed /\ NoLateStart /\ FreshKnows /\ OverRunsNothing

Stops == Answered => Quiet

Situation == TypeOK /\ InOrder /\ SuccessIsKnown /\ Quiet

-----------------------------------------------------------------------------
(* Steps that leave the object or the workflow's engine alone.             *)

\* An answering engine has answered so far, and nobody has retried.
LEMMA AnsweredBefore ==
    ASSUME TypeOK, InOrder, [Next]_vars, Answered'
    PROVE  Answered /\ ~(Fault("call") \/ Fault("lookup"))
<1>1. run.retry = 0
  BY StoredStays DEF Answered, InOrder
<1>2. faults["lookup"] = 0
  BY FaultsStay DEF Answered, EngineAnswered
<1>3. ~Fault("call") /\ ~Fault("lookup")
  BY FaultType DEF Answered, EngineAnswered, FaultKinds
<1>4. faults["call"] \in 0..MaxFaults /\ faults'["call"] = 0
  BY DEF TypeOK, FaultKinds, Answered, EngineAnswered
<1>5. CASE faults' = faults
  BY <1>1, <1>2, <1>3, <1>4, <1>5 DEF Answered, EngineAnswered
<1>6. CASE Fault("crash")
  BY <1>1, <1>2, <1>3, <1>4, <1>6, FaultType DEF Answered, EngineAnswered, FaultKinds
<1>7. CASE \E f \in FaultKinds : Fault(f)
  BY <1>3, <1>6, <1>7 DEF FaultKinds
<1>8. UNCHANGED faults \/ \E f \in FaultKinds : Fault(f)
  <2>1. CASE Actors
    BY <2>1 DEF Actors, SourcePipeline, SourcePipelineFails, ImageBuild, ImageMissing, Satisfied,
       StepIsOver, ManualRetry, RetryRefused, RetryFails, EngineError, Terminate, CancelWorkflow,
       CancelFails, StartWorkflow, StartFails, WatchWorkflow, WatchFails, FaultKinds
  <2>2. CASE Controller
    BY <2>2 DEF Controller, Reconcile, LookupFails, EnsureDrainFinalizer, UpdateStatus,
       MarkImmutableIfExpired, Conflict, RequestCancel, MarkKilled, ForceKill, CompleteDrain, FaultKinds
  <2>3. CASE Users \/ CacheSync \/ Crash \/ DrainTimeout \/ (\E r \in 1..MaxRuns : Closes(r))
             \/ UNCHANGED vars
    BY <2>3 DEF Users, Kill, Retry, Delete, CacheSync, Crash, DrainTimeout, Closes, vars, FaultKinds
  <2> QED BY <2>1, <2>2, <2>3 DEF Next
<1> QED BY <1>5, <1>7, <1>8

\* The reconcile ends or stays where it is, and the workflow is not set going.
LEMMA WorldQuiet ==
    ASSUME Situation, run' = run, cache' \in {cache, run}, last' = last,
           Runs(last)' => Runs(last),
           ctl' = Idle \/ (ctl' = ctl /\ ("read" \notin stale' => "read" \notin stale))
    PROVE  Quiet'
<1> USE IdleType DEF Situation, Quiet, InReconcile, At, Obj
<1>1. CopiesNamed'
  BY DEF CopiesNamed, Named, StepOver
<1>2. Prepared'
  <2>1. (InReconcile /\ Obj.ts) => run.ts
    BY DEF InOrder, CopiesInOrder, Earlier
  <2> QED BY <2>1 DEF Prepared
<1>3. Closed'
  <2>1. cache.ts => run.ts
    BY DEF InOrder, CopiesInOrder, Earlier
  <2> QED BY <2>1 DEF Closed, Over, Terminal, StepOver, Drained
<1>4. NoLateStart'
  BY DEF NoLateStart, Over, Terminal, StepOver
<1>5. FreshKnows'
  BY DEF FreshKnows, FreshEngine, FreshPersist, Fresh, Terminal, StepOver, Drained
<1>6. OverRunsNothing'
  BY DEF OverRunsNothing, Over, Terminal, StepOver
<1> QED BY <1>1, <1>2, <1>3, <1>4, <1>5, <1>6

\* What is written has the preparation, the step and the state of what was stored.
LEMMA RewriteQuiet ==
    ASSUME Situation, cache' = cache, last' = last, wf' = wf,
           run'.prep = run.prep, run'.wid = run.wid, run'.step = run.step,
           ctl' = Idle \/ (ctl' = ctl /\ "read" \in stale'),
           run'.prep # "none" \/ run'.imm => run'.fin \/ run'.ts,
           Closed', NoLateStart', OverRunsNothing'
    PROVE  Quiet'
<1> USE IdleType DEF Situation, Quiet, InReconcile, At, Obj
<1>1. CopiesNamed'
  BY DEF CopiesNamed, Named, StepOver
<1>2. Prepared'
  BY DEF Prepared
<1>3. FreshKnows'
  BY DEF FreshKnows, Fresh
<1> QED BY <1>1, <1>2, <1>3

-----------------------------------------------------------------------------
(* The actors.                                                             *)

\* What a copy o that is about to be stored must be.
Storable(o) ==
    /\ run.prep \in {"done", "failed"} => o.prep = run.prep
    /\ Terminal(o) \/ StepOver(o) => ~Runs(last)'
    /\ last' = 0 /\ Terminal(o) => o.prep = "failed"

\* What an actor does to the engine, as a run that is over sees it.
Harmless ==
    /\ last' = last \/ (last = 0 /\ run.prep = "done" /\ ~Over(run))
    /\ Runs(last)' => Runs(last) \/ ~Over(run)

LEMMA ResultGoes ==
    ASSUME NEW o, Result(o) \/ GoOn("persist", o)
    PROVE  \/ ctl' = Idle
           \/ ctl' = [pc |-> "persist", obj |-> o]
           \/ /\ o = Obj /\ Terminal(o)
              /\ ctl' = [pc |-> IF o.ts THEN "finish" ELSE "expire", obj |-> o]
BY DEF Result, Continue, End, GoOn

LEMMA ResultQuiet ==
    ASSUME Situation, ctl.pc \in {"engine", "cancel", "info", "retried"}, UNCHANGED store,
           NEW o \in Object, Result(o) \/ GoOn("persist", o),
           o.ts = Obj.ts, o.imm = Obj.imm,
           o.wid # 0 => o.wid = last', StepOver(o) => o.wid # 0,
           Harmless,
           Fresh => Storable(o)
    PROVE  Quiet'
<1> USE DEF Situation, Quiet
<1>1. InReconcile /\ run' = run /\ cache' = cache /\ stale' = stale
  BY DEF InReconcile, At, store
<1>2. \/ ctl' = Idle
      \/ ctl'.pc = "persist" /\ ctl'.obj = o
      \/ o = Obj /\ Terminal(o) /\ ctl'.pc \in {"finish", "expire"} /\ ctl'.obj = o
  BY ResultGoes
<1>3. CopiesNamed'
  <2>1. Named(run)' /\ Named(cache)'
    <3>1. last = 0 => run.wid = 0 /\ cache.wid = 0
      BY DEF CopiesNamed, Named
    <3> QED BY <1>1, <3>1 DEF CopiesNamed, Named, StepOver, Harmless
  <2>2. ctl'.pc \notin {"engine", "forceKill", "markKilled"}
    BY <1>2, IdleType
  <2>3. InReconcile' => Named(Obj)'
    BY <1>2, IdleType DEF InReconcile, At, Obj, Named, StepOver
  <2> QED BY <2>1, <2>2, <2>3 DEF CopiesNamed, At
<1>4. Prepared'
  <2>1. last' # 0 => run.prep = "done"
    BY DEF Prepared, Harmless
  <2>2. (InReconcile /\ ~At("persist") /\ Obj.prep = "done")' => run.prep = "done"
    BY <1>1, <1>2, IdleType DEF Prepared, InReconcile, At, Obj
  <2>3. (InReconcile /\ Obj.ts)' => cache.ts
    BY <1>1, <1>2, IdleType DEF Prepared, InReconcile, At, Obj
  <2> QED BY <1>1, <2>1, <2>2, <2>3 DEF Prepared
<1>5. Closed'
  BY <1>1 DEF Closed, Harmless, Over, Terminal, StepOver, Drained
<1>6. NoLateStart'
  BY <1>2, IdleType DEF NoLateStart, At
<1>7. OverRunsNothing'
  BY <1>1 DEF OverRunsNothing, Harmless, Over, Terminal, StepOver
<1>8. FreshKnows'
  <2> SUFFICES ASSUME Fresh'
               PROVE  FreshKnows'
    BY DEF FreshKnows
  <2>1. Fresh /\ InReconcile'
    BY <1>1 DEF Fresh
  <2>2. ~Drained' /\ Obj'.imm = run.imm
    BY <1>1, <1>2, <2>1, IdleType DEF FreshKnows, Drained, InReconcile, At, Obj
  <2>3. CASE ctl'.pc = "persist" /\ ctl'.obj = o
    <3>1. FreshPersist'
      BY <1>1, <2>1, <2>3 DEF FreshPersist, Storable, Obj, Terminal, StepOver
    <3> QED BY <1>1, <2>2, <2>3, <3>1 DEF FreshKnows, At
  <2>4. CASE o = Obj /\ Terminal(o) /\ ctl'.pc \in {"finish", "expire"} /\ ctl'.obj = o
    <3>1. FreshEngine
      BY <2>1 DEF FreshKnows, At
    <3>2. ~Runs(last)'
      BY <2>1, <2>4 DEF Storable
    <3>3. last' = 0 => Terminal(run)
      BY <2>4, <3>1 DEF FreshEngine, Harmless
    <3> QED BY <1>1, <2>2, <2>4, <3>2, <3>3 DEF FreshKnows, At, Terminal
  <2> QED BY <1>2, <2>1, <2>3, <2>4, IdleType DEF InReconcile, At
<1> QED BY <1>3, <1>4, <1>5, <1>6, <1>7, <1>8

\* What an actor knows of the run it is asked about.
LEMMA ActorKnows ==
    ASSUME Situation, ctl.pc \in {"engine", "cancel", "info", "retried"}
    PROVE  /\ Obj \in Object /\ last \in 0..MaxRuns
           /\ Obj.wid # 0 => Obj.wid = last
           /\ StepOver(Obj) => Obj.wid # 0
           /\ last # 0 => run.prep = "done"
           /\ Obj.prep = "done" => run.prep = "done"
           /\ ctl.pc \in {"cancel", "info", "retried"} => Obj.wid # 0
           /\ Fresh => Obj.prep = run.prep /\ (StepOver(Obj) => ~Runs(last))
<1> USE DEF Situation, Quiet
<1>1. InReconcile /\ ~At("persist")
  BY DEF InReconcile, At
<1>2. Obj \in Object /\ last \in 0..MaxRuns
  BY <1>1, ObjType DEF TypeOK
<1>3. /\ Obj.wid # 0 => Obj.wid = last
      /\ StepOver(Obj) => Obj.wid # 0
  BY <1>1 DEF CopiesNamed, Named
<1>4. /\ last # 0 => run.prep = "done"
      /\ Obj.prep = "done" => run.prep = "done"
  BY <1>1 DEF Prepared
<1>5. ctl.pc \in {"cancel", "info", "retried"} => Obj.wid # 0
  BY DEF SuccessIsKnown
<1>6. Fresh => Obj.prep = run.prep /\ Obj.step = run.step
  BY DEF FreshKnows, FreshEngine
<1>7. Fresh => (StepOver(Obj) => ~Runs(last))
  BY <1>6 DEF OverRunsNothing, Over, StepOver
<1> QED BY <1>2, <1>3, <1>4, <1>5, <1>6, <1>7

LEMMA NoRetryDue ==
    ASSUME Situation, Answered
    PROVE  ~(At("engine") /\ RetryDue)
BY DEF Situation, InOrder, CopiesInOrder, Earlier, InReconcile, At, RetryDue, Answered

LEMMA PreparationQuiet ==
    ASSUME Situation, ~Fault("call"),
           SourcePipeline \/ SourcePipelineFails \/ ImageBuild \/ ImageMissing
    PROVE  Quiet'
<1>1. /\ At("engine") /\ ctl.pc = "engine" /\ UNCHANGED store
      /\ last' = last /\ wf' = wf /\ (Runs(last)' <=> Runs(last))
  BY DEF SourcePipeline, SourcePipelineFails, ImageBuild, ImageMissing, EngineError, At, engine, Runs
<1>2. PICK p \in {"source", "done", "failed"}, s \in {"running", "failed"} :
        /\ p = "failed" <=> s = "failed"
        /\ p = "source" => Obj.prep = "none"
        /\ p = "done" => Obj.prep = "source"
        /\ p = "failed" => Obj.prep \in {"source", "failed"}
        /\ LET o == [Obj EXCEPT !.prep = p, !.state = s] IN Result(o) \/ GoOn("persist", o)
  <2>1. CASE SourcePipeline \/ ImageBuild
    BY <2>1 DEF SourcePipeline, ImageBuild
  <2>2. CASE ImageMissing
    <3>1. [Obj EXCEPT !.prep = "failed", !.state = "failed"] = [Obj EXCEPT !.state = "failed"]
      BY <1>1, <2>2, ActorKnows DEF ImageMissing, Object
    <3> QED BY <2>2, <3>1 DEF ImageMissing
  <2>3. ~SourcePipelineFails
    BY DEF SourcePipelineFails, EngineError
  <2> QED BY <2>1, <2>2, <2>3
<1> DEFINE o == [Obj EXCEPT !.prep = p, !.state = s]
<1>3. /\ o \in Object /\ o.ts = Obj.ts /\ o.imm = Obj.imm /\ o.wid = Obj.wid
      /\ o.step = Obj.step /\ o.prep = p /\ o.state = s
  BY <1>1, ActorKnows DEF Object
<1>4. Result(o) \/ GoOn("persist", o)
  BY <1>2
<1> HIDE DEF o
<1>5. Harmless
  BY <1>1 DEF Harmless
<1>6. o.wid # 0 => o.wid = last'
  BY <1>1, <1>3, ActorKnows
<1>7. StepOver(o) => o.wid # 0
  BY <1>1, <1>3, ActorKnows DEF StepOver
<1>8. Fresh => Storable(o)
  <2> SUFFICES ASSUME Fresh PROVE Storable(o)
    OBVIOUS
  <2>1. Obj.prep = run.prep /\ (StepOver(Obj) => ~Runs(last)) /\ (last # 0 => run.prep = "done")
    BY <1>1, ActorKnows
  <2>2. run.prep \in {"done", "failed"} => o.prep = run.prep
    BY <1>2, <1>3, <2>1
  <2>3. Terminal(o) => o.prep = "failed" /\ last = 0
    BY <1>2, <1>3, <2>1 DEF Terminal
  <2>4. StepOver(o) => ~Runs(last)
    BY <1>3, <2>1 DEF StepOver
  <2> QED BY <1>1, <2>2, <2>3, <2>4 DEF Storable, Runs
<1> QED BY <1>1, <1>3, <1>4, <1>5, <1>6, <1>7, <1>8, ResultQuiet

\* A step that is over, a failed one or a cancelled one: the execution does not run.
LEMMA CloseQuiet ==
    ASSUME Situation, ctl.pc \in {"engine", "cancel", "info", "retried"}, UNCHANGED store,
           At("engine") => Obj.prep = "done",
           last' = last, Runs(last)' => Runs(last), Obj.wid # 0,
           NEW o \in Object, Result(o) \/ GoOn("persist", o),
           o.ts = Obj.ts, o.imm = Obj.imm, o.wid = Obj.wid, o.prep = Obj.prep,
           Terminal(o) \/ StepOver(o) => ~Runs(last)' \/ StepOver(Obj)
    PROVE  Quiet'
<1>1. Obj.wid = last /\ last # 0
  BY ActorKnows
<1>2. Harmless
  BY DEF Harmless
<1>3. Fresh => Storable(o)
  BY <1>1, ActorKnows DEF Storable
<1> QED BY <1>1, <1>2, <1>3, ResultQuiet

LEMMA StepOverQuiet ==
    ASSUME Situation, Satisfied \/ StepIsOver
    PROVE  Quiet'
<1>1. /\ ctl.pc = "engine" /\ Obj.prep = "done" /\ UNCHANGED store /\ last' = last /\ wf' = wf
      /\ Obj.step \in {"succeeded", "failed", "killed"} /\ ResultState(Obj.step)
  BY DEF Satisfied, StepIsOver, Executing, At, engine
<1> DEFINE o == [Obj EXCEPT !.state = Obj.step]
<1>2. /\ o \in Object /\ o.ts = Obj.ts /\ o.imm = Obj.imm /\ o.wid = Obj.wid /\ o.prep = Obj.prep
      /\ o.step = Obj.step
  BY <1>1, ActorKnows DEF Object
<1>3. StepOver(Obj) /\ Obj.wid # 0
  BY <1>1, ActorKnows DEF StepOver
<1>4. Result(o)
  BY <1>1 DEF ResultState
<1> HIDE DEF o
<1>5. Runs(last)' => Runs(last)
  BY <1>1 DEF Runs
<1> QED BY <1>1, <1>2, <1>3, <1>4, <1>5, CloseQuiet

LEMMA TerminateQuiet ==
    ASSUME Situation, Terminate
    PROVE  Quiet'
<1> USE DEF Situation, Quiet
<1>1. /\ At("engine") /\ InReconcile /\ Obj.wid # 0
      /\ run' = run /\ cache' = cache /\ stale' = stale /\ last' = last /\ wf' = wf
      /\ ctl'.obj = Obj /\ ctl'.pc \in {"cancel", "info"}
  BY DEF Terminate, Active, Executing, At, InReconcile, GoOn, store, engine
<1>2. CopiesNamed'
  BY <1>1 DEF CopiesNamed, Named, StepOver, InReconcile, At, Obj
<1>3. Prepared'
  BY <1>1 DEF Prepared, InReconcile, At, Obj
<1>4. Closed' /\ OverRunsNothing'
  BY <1>1 DEF Closed, OverRunsNothing, Over, Terminal, StepOver, Drained, Runs
<1>5. NoLateStart'
  BY <1>1 DEF NoLateStart, At
<1>6. FreshKnows'
  BY <1>1 DEF FreshKnows, FreshEngine, Fresh, InReconcile, At, Obj, Terminal, Drained, Runs
<1> QED BY <1>2, <1>3, <1>4, <1>5, <1>6

LEMMA CancelQuiet ==
    ASSUME Situation, ~Fault("call"), CancelWorkflow \/ CancelFails
    PROVE  Quiet'
<1>1. /\ ctl.pc = "cancel" /\ UNCHANGED store
      /\ IF IsOpen(Obj.wid) THEN CancelOpen /\ Result(Killed) ELSE UNCHANGED engine /\ StepError
  BY DEF CancelWorkflow, CancelFails, At
<1>2. Obj \in Object /\ last \in 0..MaxRuns /\ Obj.wid # 0 /\ Obj.wid = last
  BY <1>1, ActorKnows
<1>3. wf \in [1..MaxRuns -> Executions] /\ last \in 1..MaxRuns
  BY <1>2, WfType DEF Situation, TypeOK
<1>4. last' = last /\ ~Runs(last)'
  <2>1. CASE IsOpen(Obj.wid)
    BY <1>1, <1>2, <1>3, <2>1 DEF CancelOpen, Runs
  <2>2. CASE ~IsOpen(Obj.wid)
    BY <1>1, <1>2, <2>2 DEF engine, Runs, IsOpen, Open
  <2> QED BY <2>1, <2>2
<1>5. PICK o \in Object : /\ Result(o)
                          /\ o.ts = Obj.ts /\ o.imm = Obj.imm /\ o.wid = Obj.wid /\ o.prep = Obj.prep
  <2>1. CASE IsOpen(Obj.wid)
    <3>1. /\ Killed \in Object
          /\ Killed.ts = Obj.ts /\ Killed.imm = Obj.imm /\ Killed.wid = Obj.wid
          /\ Killed.prep = Obj.prep
      BY <1>2 DEF Killed, Object
    <3> QED BY <1>1, <2>1, <3>1
  <2>2. CASE ~IsOpen(Obj.wid)
    <3> DEFINE o == [Obj EXCEPT !.state = "failed", !.step = IF @ = "none" THEN "pending" ELSE @]
    <3>1. /\ o \in Object
          /\ o.ts = Obj.ts /\ o.imm = Obj.imm /\ o.wid = Obj.wid /\ o.prep = Obj.prep
      BY <1>2 DEF Object
    <3>2. Result(o)
      BY <1>1, <2>2 DEF StepError
    <3> QED BY <3>1, <3>2
  <2> QED BY <2>1, <2>2
<1>6. ~At("engine")
  BY <1>1 DEF At
<1> QED BY <1>1, <1>2, <1>4, <1>5, <1>6, CloseQuiet

LEMMA WatchQuiet ==
    ASSUME Situation, ~Fault("call"), WatchWorkflow \/ WatchFails
    PROVE  Quiet'
<1>1. WatchWorkflow
  BY DEF WatchFails
<1>2. /\ ctl.pc \in {"engine", "info", "retried"} /\ UNCHANGED store /\ last' = last /\ wf' = wf
      /\ At("engine") => Obj.prep = "done" /\ Obj.wid # 0
  BY <1>1 DEF WatchWorkflow, Watching, Active, Executing, At, engine
<1>3. Obj \in Object /\ Obj.wid # 0 /\ Obj.wid = last
  BY <1>2, ActorKnows DEF At
<1> DEFINE step == StepOf(wf[Obj.wid])
           o == [Obj EXCEPT !.step = step,
                            !.state = IF step = "succeeded" THEN "running" ELSE step]
<1>4. step \in {"running", "succeeded", "failed", "killed"}
  BY StateType
<1>5. step # "running" => ~Runs(last)'
  BY <1>2, <1>3 DEF StepOf, Open, Runs
<1>6. Result(o) \/ GoOn("persist", o)
  BY <1>1 DEF WatchWorkflow
<1> HIDE DEF step
<1>7. /\ o \in Object /\ o.step = step /\ (o.state = "running" \/ o.state = step)
      /\ o.ts = Obj.ts /\ o.imm = Obj.imm /\ o.wid = Obj.wid /\ o.prep = Obj.prep
  BY <1>3, <1>4 DEF Object
<1> HIDE DEF o
<1>8. Terminal(o) \/ StepOver(o) => ~Runs(last)'
  BY <1>5, <1>7 DEF Terminal, StepOver
<1>9. Runs(last)' => Runs(last)
  BY <1>2 DEF Runs
<1> QED BY <1>2, <1>3, <1>6, <1>7, <1>8, <1>9, CloseQuiet

\* The workflow starts, and the run is not over.
LEMMA StartQuiet ==
    ASSUME Situation, ~Fault("call"), StartWorkflow \/ StartFails
    PROVE  Quiet'
<1>1. StartWorkflow
  BY DEF StartFails
<1>2. ctl.pc = "engine" /\ Obj.prep = "done" /\ Obj.wid = 0 /\ UNCHANGED store
      /\ Obj.step \in {"none", "pending", "running"}
  BY <1>1 DEF StartWorkflow, Starting, Active, Executing, At
<1>3. last = 0 /\ ~Over(run) /\ run.prep = "done" /\ Obj \in Object
  BY <1>2, ActorKnows DEF Situation, Quiet, CopiesNamed, NoLateStart, At
<1>4. PICK r \in 1..MaxRuns :
        Start(r) /\ Result([Obj EXCEPT !.wid = r, !.step = "running", !.state = "running"])
  BY <1>1 DEF StartWorkflow
<1>5. last' = r /\ r # 0 /\ r \in 0..MaxRuns
  BY <1>3, <1>4, RunAssumption DEF Start, IsOpen
<1> DEFINE o == [Obj EXCEPT !.wid = r, !.step = "running", !.state = "running"]
<1>6. /\ o \in Object /\ o.step = "running" /\ o.state = "running" /\ o.wid = r
      /\ o.ts = Obj.ts /\ o.imm = Obj.imm /\ o.prep = Obj.prep
  BY <1>3, <1>5 DEF Object
<1>7. Result(o)
  BY <1>4
<1> HIDE DEF o
<1>8. Harmless
  BY <1>3 DEF Harmless
<1>9. ~Terminal(o) /\ ~StepOver(o)
  BY <1>6 DEF Terminal, StepOver
<1>10. Storable(o)
  BY <1>2, <1>3, <1>6, <1>9 DEF Storable
<1> QED BY <1>2, <1>5, <1>6, <1>7, <1>8, <1>9, <1>10, ResultQuiet

LEMMA ActorsQuiet ==
    ASSUME Situation, Answered, ~Fault("call"), Actors
    PROVE  Quiet'
<1>1. ~(ManualRetry \/ RetryRefused \/ RetryFails)
  BY NoRetryDue DEF ManualRetry, RetryRefused, RetryFails, Executing
<1> QED
  BY <1>1, PreparationQuiet, StepOverQuiet, TerminateQuiet, CancelQuiet, WatchQuiet, StartQuiet DEF Actors

-----------------------------------------------------------------------------
(* The controller.                                                         *)

LEMMA ReconcileQuiet ==
    ASSUME Situation, Reconcile
    PROVE  Quiet'
<1> USE DEF Situation, Quiet
<1>1. PICK o \in Object :
        /\ Begin(o)
        /\ o.fin = cache.fin /\ o.ts = cache.ts /\ o.imm = cache.imm
        /\ o.step = cache.step /\ o.prep = cache.prep
        /\ \/ o = cache /\ (cache.wid # 0 \/ last = 0)
           \/ cache.wid = 0 /\ last # 0 /\ o.wid = last /\ o.state = StateOf(wf[last])
  <2>1. CASE cache.wid = 0 /\ last # 0
    <3>1. wf[last] \in Executions /\ cache \in Object /\ last \in 0..MaxRuns
      BY <2>1, WfType DEF TypeOK
    <3>2. /\ Reconstructed(cache) \in Object
          /\ Reconstructed(cache).fin = cache.fin /\ Reconstructed(cache).ts = cache.ts
          /\ Reconstructed(cache).imm = cache.imm /\ Reconstructed(cache).step = cache.step
          /\ Reconstructed(cache).prep = cache.prep /\ Reconstructed(cache).wid = last
          /\ Reconstructed(cache).state = StateOf(wf[last])
      BY <3>1, StateType DEF Object, Reconstructed
    <3> QED BY <2>1, <3>2 DEF Reconcile
  <2>2. CASE ~(cache.wid = 0 /\ last # 0)
    BY <2>2 DEF Reconcile, TypeOK
  <2> QED BY <2>1, <2>2
<1>2. /\ run' = run /\ cache' = cache /\ last' = last /\ wf' = wf
      /\ "read" \notin stale' => cache = run
  BY <1>1 DEF Begin, engine, InOrder, CopiesInOrder
<1>3. ctl' = Idle \/ (ctl'.pc = Entry(o) /\ ctl'.obj = o /\ Entry(o) # "idle")
  BY <1>1 DEF Begin
<1>4. /\ Entry(o) \in {"ensure", "engine"} => ~o.ts \/ (o.wid # 0 /\ o.fin)
      /\ Entry(o) \in {"idle", "ensure", "engine", "finish", "forceKill", "markKilled", "requestCancel"}
      /\ Entry(o) = "markKilled" => o.wid = 0
      /\ Entry(o) = "finish" => Terminal(o)
      /\ o.ts /\ ~o.fin => Entry(o) = "idle"
  BY DEF Entry, DrainEntry
<1>5. Named(o) /\ (o.wid = 0 => last = 0 /\ o = cache)
  BY <1>1 DEF CopiesNamed, Named, StepOver
<1>6. Terminal(o) /\ o # cache => last # 0 /\ ~Runs(last)
  BY <1>1 DEF Terminal, StateOf, Open, Runs
<1>7. CopiesNamed'
  <2>1. Named(run)' /\ Named(cache)' /\ (ctl'.obj = o => Named(Obj)')
    BY <1>2, <1>5 DEF CopiesNamed, Named, StepOver, Obj
  <2> QED BY <1>2, <1>3, <1>4, <1>5, <2>1, IdleType DEF CopiesNamed, InReconcile, At, Obj
<1>8. Prepared'
  BY <1>1, <1>2, <1>3, IdleType DEF Prepared, InReconcile, At, Obj
<1>9. Closed' /\ OverRunsNothing'
  BY <1>2 DEF Closed, OverRunsNothing, Over, Terminal, StepOver, Drained, Runs
<1>10. NoLateStart'
  <2> SUFFICES ASSUME ctl'.pc = "engine", ctl'.obj = o, o.wid = 0, o.prep = "done", Over(run)
               PROVE  FALSE
    BY <1>2, <1>3, IdleType DEF NoLateStart, At, Obj, Over, Terminal, StepOver
  <2>1. last = 0 /\ ~o.ts /\ ~cache.ts
    BY <1>1, <1>3, <1>4, <1>5, IdleType
  <2>2. run.prep = "done"
    BY <1>1 DEF Prepared
  <2> QED BY <2>1, <2>2 DEF Closed
<1>11. FreshKnows'
  <2> SUFFICES ASSUME Fresh'
               PROVE  FreshKnows'
    BY DEF FreshKnows
  <2>1. cache = run /\ ctl'.pc = Entry(o) /\ ctl'.obj = o /\ Entry(o) # "idle"
    BY <1>2, <1>3, IdleType DEF Fresh, InReconcile, At
  <2>2. ~Drained' /\ Obj'.imm = run.imm
    BY <1>1, <1>2, <1>4, <2>1 DEF Drained, Obj
  <2>3. FreshEngine'
    <3>1. Terminal(o) => Terminal(run) \/ (last # 0 /\ ~Runs(last))
      BY <1>6, <2>1
    <3> QED BY <1>1, <1>2, <2>1, <3>1 DEF FreshEngine, Obj, Terminal, Runs
  <2>4. Entry(o) = "finish" => ~Runs(last)
    BY <1>4, <1>6, <2>1 DEF OverRunsNothing, Over
  <2> QED BY <1>2, <1>4, <2>1, <2>2, <2>3, <2>4 DEF FreshKnows, At, Runs
<1> QED BY <1>7, <1>8, <1>9, <1>10, <1>11

LEMMA EnsureQuiet ==
    ASSUME Situation, EnsureDrainFinalizer
    PROVE  Quiet'
<1> USE DEF Situation, Quiet
<1>1. /\ run' = [run EXCEPT !.fin = TRUE] /\ cache' = cache /\ Fresh /\ At("ensure")
      /\ ctl'.pc = "engine" /\ ctl'.obj = run' /\ last' = last /\ wf' = wf
  BY DEF EnsureDrainFinalizer, Update, GoOn, engine, Fresh, InReconcile, At
<1>2. /\ run'.fin /\ run'.ts = run.ts /\ run'.imm = run.imm /\ run'.prep = run.prep
      /\ run'.wid = run.wid /\ run'.step = run.step /\ run'.state = run.state
  BY <1>1 DEF TypeOK, Object
<1>3. ~run.ts /\ ~run.fin /\ ~cache.ts /\ last = 0
  BY <1>1 DEF InOrder, CopiesInOrder, WorkHasFinalizer, Earlier, Fresh, InReconcile, At
<1>4. Over(run') => Over(run)
  BY <1>2, <1>3 DEF Over, Terminal, StepOver
<1>5. Over(run) => run.prep = "failed"
  BY <1>3 DEF Closed, Drained
<1>6. CopiesNamed'
  BY <1>1, <1>2, <1>3 DEF CopiesNamed, Named, StepOver, InReconcile, At, Obj
<1>7. Prepared'
  BY <1>1, <1>2, <1>3 DEF Prepared, InReconcile, At, Obj
<1>8. Closed' /\ OverRunsNothing'
  BY <1>1, <1>2, <1>3, <1>4, <1>5 DEF Closed, OverRunsNothing, Runs
<1>9. NoLateStart'
  BY <1>1, <1>2, <1>4, <1>5 DEF NoLateStart, Obj
<1>10. FreshKnows'
  BY <1>1, <1>2, <1>3 DEF FreshKnows, FreshEngine, At, Obj, Drained, Terminal
<1> QED BY <1>6, <1>7, <1>8, <1>9, <1>10

\* The status is stored, and says no more than is true.
LEMMA UpdateQuiet ==
    ASSUME Situation, UpdateStatus
    PROVE  Quiet'
<1> USE DEF Situation, Quiet
<1>1. /\ run' = [Obj EXCEPT !.kill = run.kill] /\ cache' = cache /\ Fresh /\ At("persist")
      /\ Continue(run') /\ last' = last /\ wf' = wf /\ InReconcile
  BY DEF UpdateStatus, Update, engine, Fresh, InReconcile, At
<1>2. /\ run'.fin = Obj.fin /\ run'.ts = Obj.ts /\ run'.imm = Obj.imm /\ run'.prep = Obj.prep
      /\ run'.wid = Obj.wid /\ run'.step = Obj.step /\ run'.state = Obj.state
  BY <1>1, ObjType DEF Object
<1>3. \/ ctl' = Idle
      \/ ctl'.pc \in {"finish", "expire"} /\ ctl'.obj = run' /\ Terminal(run')
  BY <1>1 DEF Continue, End, GoOn
<1>4. Obj.fin = run.fin /\ Obj.ts = run.ts /\ Obj.imm = run.imm /\ (run.fin \/ run.ts)
  BY <1>1 DEF InOrder, CopiesInOrder, WorkHasFinalizer, FreshKnows, Fresh, At
<1>5. FreshPersist /\ ~Drained
  BY <1>1 DEF FreshKnows
<1>6. Terminal(run') \/ StepOver(run') => ~Runs(last)
  BY <1>2, <1>5 DEF FreshPersist, Terminal, StepOver
<1>7. Over(run') => Terminal(run') \/ StepOver(run') \/ Over(run)
  BY <1>2, <1>4 DEF Over
<1>8. CopiesNamed'
  BY <1>1, <1>2, <1>3, IdleType DEF CopiesNamed, Named, StepOver, InReconcile, At, Obj
<1>9. Prepared'
  <2>1. last # 0 \/ cache.prep = "done" => run'.prep = "done"
    BY <1>2, <1>5 DEF Prepared, FreshPersist
  <2>2. run'.fin \/ run'.ts
    BY <1>2, <1>4
  <2>3. run'.ts => cache.ts
    BY <1>1, <1>2 DEF Prepared
  <2> QED BY <1>1, <1>3, <2>1, <2>2, <2>3, IdleType DEF Prepared, InReconcile, At, Obj
<1>10. Closed'
  <2> SUFFICES ASSUME last = 0, Over(run')
               PROVE  cache.ts \/ run'.prep = "failed"
    BY <1>1 DEF Closed
  <2>1. Terminal(run') => run'.prep = "failed"
    BY <1>2, <1>5 DEF FreshPersist, Terminal
  <2>2. ~StepOver(run')
    BY <1>1, <1>2 DEF CopiesNamed, Named, StepOver
  <2>3. Over(run) => cache.ts \/ run.prep = "failed"
    BY <1>5 DEF Closed
  <2> QED BY <1>2, <1>5, <1>7, <2>1, <2>2, <2>3 DEF FreshPersist
<1>11. NoLateStart'
  BY <1>3, IdleType DEF NoLateStart, At
<1>12. OverRunsNothing'
  BY <1>1, <1>6, <1>7 DEF OverRunsNothing, Runs
<1>13. FreshKnows'
  <2>1. CASE ctl' = Idle
    BY <2>1, IdleType DEF FreshKnows, Fresh, InReconcile, At
  <2>2. CASE ctl'.pc \in {"finish", "expire"} /\ ctl'.obj = run' /\ Terminal(run')
    <3>1. ~Drained'
      BY <1>2, <1>4, <1>5 DEF Drained
    <3> QED BY <1>1, <1>6, <2>2, <3>1 DEF FreshKnows, At, Obj, Runs
  <2> QED BY <1>3, <2>1, <2>2
<1> QED BY <1>8, <1>9, <1>10, <1>11, <1>12, <1>13

LEMMA MarkKilledQuiet ==
    ASSUME Situation, MarkKilled
    PROVE  Quiet'
<1> USE DEF Situation, Quiet
<1>1. /\ run' = [run EXCEPT !.state = "killed"] /\ cache' = cache /\ Fresh /\ At("markKilled")
      /\ ctl'.pc = "finish" /\ ctl'.obj = run' /\ last' = last /\ wf' = wf /\ InReconcile
  BY DEF MarkKilled, Update, GoOn, engine, Fresh, InReconcile, At
<1>2. /\ run'.fin = run.fin /\ run'.ts = run.ts /\ run'.imm = run.imm /\ run'.prep = run.prep
      /\ run'.wid = run.wid /\ run'.step = run.step
  BY <1>1 DEF TypeOK, Object
<1>3. last = 0 /\ cache.ts
  BY <1>1 DEF CopiesNamed, Prepared, InOrder, WorkHasFinalizer, At
<1>4. CopiesNamed'
  BY <1>1, <1>2 DEF CopiesNamed, Named, StepOver, InReconcile, At, Obj
<1>5. Prepared'
  BY <1>1, <1>2, <1>3 DEF Prepared, InReconcile, At, Obj
<1>6. Closed' /\ OverRunsNothing'
  BY <1>1, <1>3 DEF Closed, OverRunsNothing, Runs
<1>7. NoLateStart'
  BY <1>1 DEF NoLateStart, At
<1>8. FreshKnows'
  BY <1>1, <1>2, <1>3 DEF FreshKnows, At, Obj, Drained, Runs
<1> QED BY <1>4, <1>5, <1>6, <1>7, <1>8

\* After a drain timeout the execution is told to stop, or is over.
LEMMA ForceKillQuiet ==
    ASSUME Situation, ForceKill, ~Fault("call")
    PROVE  Quiet'
<1> USE DEF Situation, Quiet
<1>1. /\ run' = run /\ cache' = cache /\ stale' = stale /\ At("forceKill") /\ InReconcile
      /\ ctl'.pc = "finish" /\ ctl'.obj = Obj
      /\ IF IsOpen(Obj.wid) THEN CancelOpen ELSE UNCHANGED engine
  BY DEF ForceKill, store, GoOn, InReconcile, At
<1>2. (Obj.wid = 0 => last = 0) /\ (Obj.wid # 0 => Obj.wid = last)
  BY <1>1 DEF CopiesNamed, Named, At
<1>3. last' = last /\ ~Runs(last)'
  <2>1. CASE last = 0
    BY <1>1, <1>2, <2>1 DEF IsOpen, CancelOpen, engine, Runs
  <2>2. CASE last # 0 /\ IsOpen(last)
    <3>1. last \in 1..MaxRuns /\ wf \in [1..MaxRuns -> Executions]
      BY <2>2, WfType DEF TypeOK
    <3> QED BY <1>1, <1>2, <2>2, <3>1 DEF CancelOpen, Runs
  <2>3. CASE last # 0 /\ ~IsOpen(last)
    BY <1>1, <1>2, <2>3 DEF IsOpen, Open, engine, Runs
  <2> QED BY <2>1, <2>2, <2>3
<1>4. CopiesNamed'
  BY <1>1, <1>3 DEF CopiesNamed, Named, StepOver, InReconcile, At, Obj
<1>5. Prepared'
  BY <1>1, <1>3 DEF Prepared, InReconcile, At, Obj
<1>6. Closed' /\ OverRunsNothing'
  BY <1>1, <1>3 DEF Closed, OverRunsNothing, Over, Terminal, StepOver, Drained
<1>7. NoLateStart'
  BY <1>1 DEF NoLateStart, At
<1>8. FreshKnows'
  BY <1>1, <1>3 DEF FreshKnows, Fresh, InReconcile, At, Obj, Drained
<1> QED BY <1>4, <1>5, <1>6, <1>7, <1>8

LEMMA DrainQuiet ==
    ASSUME Situation, RequestCancel \/ MarkImmutableIfExpired \/ CompleteDrain
    PROVE  Quiet'
<1> USE DEF Situation, Quiet
<1>1. CASE UNCHANGED store /\ MarkImmutableIfExpired
  BY <1>1, WorldQuiet DEF MarkImmutableIfExpired, store, engine, End, Runs
<1>2. CASE ~(UNCHANGED store /\ MarkImmutableIfExpired)
  <2>1. /\ cache' = cache /\ last' = last /\ wf' = wf /\ ctl' = Idle /\ Fresh /\ InReconcile
        /\ ~At("ensure")
        /\ \/ run' = [run EXCEPT !.kill = TRUE, !.counted = TRUE] /\ At("requestCancel")
           \/ run' = [run EXCEPT !.imm = TRUE] /\ At("expire")
           \/ run' = [run EXCEPT !.imm = TRUE, !.counted = FALSE, !.fin = FALSE] /\ At("finish")
    BY <1>2 DEF RequestCancel, MarkImmutableIfExpired, CompleteDrain, Update, End, engine, Fresh,
       InReconcile, At
  <2>2. /\ run'.prep = run.prep /\ run'.wid = run.wid /\ run'.step = run.step
        /\ run'.state = run.state /\ run'.ts = run.ts
        /\ ~At("finish") => run'.fin = run.fin
        /\ ~At("finish") /\ ~At("expire") => run'.imm = run.imm
    BY <2>1 DEF TypeOK, Object
  <2>3. (run.fin \/ run.ts) /\ (At("finish") => run.ts /\ cache.ts)
    <3>1. run.fin \/ run.ts
      BY <2>1 DEF InOrder, WorkHasFinalizer
    <3>2. At("finish") => Obj.ts
      BY DEF InOrder, WorkHasFinalizer, At
    <3>3. Obj.ts => run.ts /\ cache.ts
      BY <2>1 DEF InOrder, CopiesInOrder, Earlier, Prepared
    <3> QED BY <3>1, <3>2, <3>3
  <2>4. run'.fin \/ run'.ts
    BY <2>2, <2>3
  <2>5. (At("finish") \/ At("expire") => ~Runs(last)) /\ (At("expire") /\ last = 0 => Terminal(run))
    BY <2>1 DEF FreshKnows
  <2>6. Over(run') => Over(run) \/ At("finish") \/ At("expire")
    BY <2>2 DEF Over, Terminal, StepOver
  <2>7. Closed'
    <3> SUFFICES ASSUME last = 0, Over(run')
                 PROVE  Closed'
      BY <2>1 DEF Closed
    <3>1. CASE At("finish")
      BY <2>1, <2>3, <3>1 DEF Closed
    <3>2. CASE ~At("finish")
      <4>1. Over(run)
        BY <2>5, <2>6, <3>2 DEF Over
      <4> QED BY <2>1, <2>2, <3>2, <4>1 DEF Closed, Drained
    <3> QED BY <3>1, <3>2
  <2>8. OverRunsNothing'
    BY <2>1, <2>5, <2>6 DEF OverRunsNothing, Runs
  <2>9. NoLateStart'
    BY <2>1, IdleType DEF NoLateStart, At
  <2> QED BY <2>1, <2>2, <2>4, <2>7, <2>8, <2>9, RewriteQuiet
<1> QED BY <1>1, <1>2

-----------------------------------------------------------------------------
(* Users and the world.                                                    *)

LEMMA KillQuiet ==
    ASSUME Situation, Kill
    PROVE  Quiet'
<1> USE DEF Situation, Quiet
<1>1. /\ run' = [run EXCEPT !.kill = TRUE] /\ cache' = cache /\ "read" \in stale'
      /\ ctl' = ctl /\ last' = last /\ wf' = wf
  BY DEF Kill, Write, engine
<1>2. /\ run'.prep = run.prep /\ run'.wid = run.wid /\ run'.step = run.step /\ run'.imm = run.imm
      /\ run'.state = run.state /\ run'.ts = run.ts /\ run'.fin = run.fin
  BY <1>1 DEF TypeOK, Object
<1>3. Closed' /\ OverRunsNothing'
  BY <1>1, <1>2 DEF Closed, OverRunsNothing, Over, Terminal, StepOver, Drained, Runs
<1>4. NoLateStart'
  BY <1>1, <1>2 DEF NoLateStart, At, Obj, Over, Terminal, StepOver
<1>5. run'.prep # "none" \/ run'.imm => run'.fin \/ run'.ts
  BY <1>2 DEF Prepared
<1> QED BY <1>1, <1>2, <1>3, <1>4, <1>5, RewriteQuiet

\* A run is deleted: one without the drain finalizer is gone at once, and nothing was
\* prepared for it.
LEMMA DeleteQuiet ==
    ASSUME Situation, Delete
    PROVE  Quiet'
<1> USE DEF Situation, Quiet
<1>1. /\ run' = [run EXCEPT !.ts = TRUE] /\ cache' = cache /\ "read" \in stale'
      /\ ctl' = ctl /\ last' = last /\ wf' = wf /\ ~run.ts
  BY DEF Delete, Write, engine
<1>2. /\ run'.prep = run.prep /\ run'.wid = run.wid /\ run'.step = run.step /\ run'.imm = run.imm
      /\ run'.state = run.state /\ run'.ts /\ run'.fin = run.fin
  BY <1>1 DEF TypeOK, Object
<1>3. Over(run') => Over(run) \/ (~run.fin /\ run.prep = "none" /\ Drained')
  BY <1>1, <1>2 DEF Over, Terminal, StepOver, Drained, Prepared
<1>4. ~run.fin => last = 0 /\ ~At("engine")
  BY <1>1 DEF InOrder, WorkHasFinalizer, InReconcile, At
<1>5. Closed'
  BY <1>1, <1>2, <1>3 DEF Closed, Drained
<1>6. OverRunsNothing'
  BY <1>1, <1>3, <1>4 DEF OverRunsNothing, Runs
<1>7. NoLateStart'
  BY <1>1, <1>3, <1>4 DEF NoLateStart, At, Obj
<1> QED BY <1>1, <1>2, <1>5, <1>6, <1>7, RewriteQuiet

LEMMA RestQuiet ==
    ASSUME Situation,
           \/ Conflict \/ CacheSync \/ Crash \/ DrainTimeout \/ UNCHANGED vars
           \/ \E r \in 1..MaxRuns : Closes(r)
    PROVE  Quiet'
<1>1. CASE Conflict \/ CacheSync \/ Crash \/ DrainTimeout \/ UNCHANGED vars
  <2>1. /\ run' = run /\ cache' \in {cache, run} /\ last' = last /\ wf' = wf
        /\ ctl' = Idle \/ (ctl' = ctl /\ ("read" \notin stale' => "read" \notin stale))
    BY <1>1 DEF Conflict, CacheSync, Crash, DrainTimeout, vars, store, engine, End
  <2> QED BY <2>1, WorldQuiet DEF Runs
<1>2. CASE \E r \in 1..MaxRuns : Closes(r)
  <2>1. PICK r \in 1..MaxRuns, s \in {"completed", "failed", "canceled"} :
          wf' = [wf EXCEPT ![r] = s] /\ UNCHANGED <<store, ctl, last>>
    BY <1>2 DEF Closes
  <2>2. Runs(last)' => Runs(last)
    <3>1. wf \in [1..MaxRuns -> Executions]
      BY DEF Situation, TypeOK
    <3>2. last # 0 => last \in 1..MaxRuns
      BY WfType DEF Situation, TypeOK
    <3> QED BY <2>1, <3>1, <3>2 DEF Runs
  <2> QED BY <2>1, <2>2, WorldQuiet DEF store
<1> QED BY <1>1, <1>2

LEMMA StopsStep ==
    ASSUME TypeOK, InOrder, SuccessIsKnown, Stops, [Next]_vars
    PROVE  Stops'
<1> SUFFICES ASSUME Answered'
             PROVE  Quiet'
  BY DEF Stops
<1>1. Answered /\ ~Fault("call") /\ ~Fault("lookup")
  BY AnsweredBefore
<1>2. Situation
  BY <1>1 DEF Stops, Situation
<1>3. CASE Actors
  BY <1>1, <1>2, <1>3, ActorsQuiet
<1>4. CASE Controller
  <2>1. ~LookupFails
    BY <1>1 DEF LookupFails
  <2> QED
    BY <1>1, <1>2, <1>4, <2>1, ReconcileQuiet, EnsureQuiet, UpdateQuiet, MarkKilledQuiet,
       ForceKillQuiet, DrainQuiet, RestQuiet DEF Controller
<1>5. CASE Users
  <2>1. ~Retry
    <3> SUFFICES ASSUME Retry PROVE FALSE
      OBVIOUS
    <3>1. run' = [run EXCEPT !.retry = run.wid] /\ run.wid # 0
      BY DEF Retry, Write
    <3> QED BY <3>1 DEF TypeOK, Object, Answered
  <2> QED BY <1>2, <1>5, <2>1, KillQuiet, DeleteQuiet DEF Users
<1>6. CASE CacheSync \/ Crash \/ DrainTimeout \/ (\E r \in 1..MaxRuns : Closes(r)) \/ UNCHANGED vars
  BY <1>2, <1>6, RestQuiet
<1> QED BY <1>3, <1>4, <1>5, <1>6 DEF Next

LEMMA StopsInit ==
    ASSUME Init
    PROVE  Stops
<1>1. run = NewRun /\ cache = NewRun /\ last = 0 /\ ctl.pc = "idle"
  BY IdleType DEF Init
<1>2. /\ run.prep = "none" /\ run.step = "none" /\ run.state = "none" /\ run.wid = 0
      /\ ~run.imm /\ ~run.ts /\ ~run.fin
  BY <1>1 DEF NewRun
<1>3. ~Over(run)
  BY <1>2 DEF Over, Terminal, StepOver
<1>4. CopiesNamed
  BY <1>1, <1>2 DEF CopiesNamed, Named, StepOver, InReconcile, At
<1>5. Prepared
  BY <1>1, <1>2 DEF Prepared, InReconcile, At
<1>6. Closed /\ NoLateStart /\ OverRunsNothing /\ FreshKnows
  BY <1>1, <1>3 DEF Closed, NoLateStart, OverRunsNothing, FreshKnows, Fresh, InReconcile, At
<1> QED BY <1>4, <1>5, <1>6 DEF Stops, Quiet

\* If the engine answers and nobody retries, a run that is over, by its state, by its
\* step, by being immutable or drained, runs no workflow and no reconcile is about to
\* start one for it: the inductive invariant.
THEOREM NothingRunsOn == Spec => []Stops
<1>1. Init => Stops
  BY StopsInit
<1>2. TypeOK /\ InOrder /\ SuccessIsKnown /\ Stops /\ [Next]_vars => Stops'
  BY StopsStep
<1> QED BY <1>1, <1>2, TypeCorrect, CopiesStayInOrder, SuccessStaysKnown, PTL DEF Spec

\* A run that is let go of leaves no workflow behind that was not told to stop,
\* however often the manager restarts and whenever its pipeline is deleted.
THEOREM LetGoLeavesNothing == Spec => []LetGoLeavesNoWorkflow
<1>1. Stops => LetGoLeavesNoWorkflow
  BY DEF Stops, Answered, Quiet, OverRunsNothing, Over, Drained, LetGoLeavesNoWorkflow
<1> QED BY <1>1, NothingRunsOn, PTL

-----------------------------------------------------------------------------
(* A run that is shown as killed, although calls of the engine fail.       *)

Unretried == faults["lookup"] = 0 /\ run.retry = 0

KillParts ==
    /\ Settled(run) /\ Settled(cache) /\ (InReconcile => Settled(Obj))
    /\ InReconcile /\ Obj.ts => cache.ts
    /\ At("engine") /\ Obj.ts => Obj.wid # 0
    /\ At("markKilled") => last = 0
    /\ At("engine") /\ Obj.wid = 0 => ~Shown(run) /\ ~Shown(cache) /\ ~Shown(Obj)

KillSituation == TypeOK /\ InOrder /\ SuccessIsKnown /\ Unretried /\ KillParts

LEMMA UnretriedBefore ==
    ASSUME TypeOK, InOrder, [Next]_vars, Unretried'
    PROVE  Unretried /\ ~LookupFails
BY StoredStays, FaultsStay DEF Unretried, InOrder

\* What an actor does to the engine, and the copy o it leaves.
KillStep(o) ==
    /\ Follows(o) /\ o.ts = Obj.ts
    /\ o.wid # 0 => o.wid = last'
    /\ o.step = "killed" => o.wid # 0
    /\ Shown(o) => ~Runs(last)'
    /\ o.state = "killed" => last' # 0
    /\ \/ last' = last /\ (Runs(last)' => Runs(last))
       \/ At("engine") /\ Obj.wid = 0

LEMMA FollowsResult ==
    ASSUME TypeOK, NEW o \in Object, Result(o) \/ (GoOn("persist", o) /\ UNCHANGED due)
    PROVE  Follows(o)
BY ResultType, PersistType

LEMMA UnretriedRuns ==
    ASSUME KillSituation
    PROVE  ~(At("engine") /\ RetryDue)
BY DEF KillSituation, Unretried, InOrder, CopiesInOrder, Earlier, InReconcile, At, RetryDue

\* An actor that stores what it knew of the execution, with another state.
LEMMA SameStepKill ==
    ASSUME KillSituation, InReconcile, NEW o \in Object,
           Result(o) \/ (GoOn("persist", o) /\ UNCHANGED due),
           o.ts = Obj.ts, o.wid = Obj.wid,
           o.step = "killed" => Obj.step = "killed",
           o.state = "killed" => Obj.step = "killed",
           last' = last, Runs(last)' => Runs(last)
    PROVE  KillStep(o)
<1>1. Follows(o)
  BY FollowsResult DEF KillSituation
<1>2. Settled(Obj)
  BY DEF KillSituation, KillParts
<1>3. Obj.step = "killed" => last # 0 /\ ~Runs(last)
  BY <1>2 DEF Settled, Shown
<1> QED BY <1>1, <1>2, <1>3 DEF KillStep, Settled, Shown

LEMMA ErrorKill ==
    ASSUME KillSituation, InReconcile, StepError, last' = last, Runs(last)' => Runs(last)
    PROVE  \E o : KillStep(o)
<1> DEFINE o == [Obj EXCEPT !.state = "failed", !.step = IF @ = "none" THEN "pending" ELSE @]
<1>1. Obj \in Object
  BY ObjType DEF KillSituation
<1>2. /\ o \in Object /\ o.ts = Obj.ts /\ o.wid = Obj.wid /\ o.state = "failed"
      /\ o.step = "killed" => Obj.step = "killed"
  BY <1>1 DEF Object
<1>3. Result(o)
  BY DEF StepError
<1> HIDE DEF o
<1> QED BY <1>2, <1>3, SameStepKill

LEMMA StateKill ==
    ASSUME KillSituation, InReconcile, NEW s \in {"running", "succeeded", "failed", "killed"},
           ResultState(s), s = "killed" => Obj.step = "killed", UNCHANGED engine
    PROVE  \E o : KillStep(o)
<1> DEFINE o == [Obj EXCEPT !.state = s]
<1>1. Obj \in Object
  BY ObjType DEF KillSituation
<1>2. /\ o \in Object /\ o.ts = Obj.ts /\ o.wid = Obj.wid /\ o.state = s
      /\ o.step = Obj.step
  BY <1>1 DEF Object
<1>3. Result(o)
  BY DEF ResultState
<1>4. last' = last /\ (Runs(last)' => Runs(last))
  BY DEF engine, Runs
<1> HIDE DEF o
<1> QED BY <1>2, <1>3, <1>4, SameStepKill

LEMMA PreparationKill ==
    ASSUME KillSituation, SourcePipeline \/ SourcePipelineFails \/ ImageBuild \/ ImageMissing
    PROVE  \E o : KillStep(o)
<1>1. At("engine") /\ InReconcile /\ UNCHANGED engine
  BY DEF SourcePipeline, SourcePipelineFails, ImageBuild, ImageMissing, At, InReconcile
<1>2. Obj \in Object
  BY <1>1, ObjType DEF KillSituation
<1>3. last' = last /\ (Runs(last)' => Runs(last))
  BY <1>1 DEF engine, Runs
<1>4. ASSUME NEW p \in {"source", "done", "failed"}, NEW s \in {"running", "failed"},
             Result([Obj EXCEPT !.prep = p, !.state = s])
      PROVE  \E o : KillStep(o)
  <2> DEFINE o == [Obj EXCEPT !.prep = p, !.state = s]
  <2>1. /\ o \in Object /\ o.ts = Obj.ts /\ o.wid = Obj.wid /\ o.state = s
        /\ o.step = Obj.step
    BY <1>2 DEF Object
  <2>2. Result(o)
    BY <1>4
  <2> HIDE DEF o
  <2> QED BY <1>1, <1>3, <2>1, <2>2, SameStepKill
<1>5. CASE SourcePipeline \/ ImageBuild
  BY <1>4, <1>5 DEF SourcePipeline, ImageBuild
<1>6. CASE SourcePipelineFails
  BY <1>1, <1>6, StateKill DEF SourcePipelineFails, EngineError
<1>7. CASE ImageMissing
  <2> DEFINE o == [Obj EXCEPT !.state = "failed"]
  <2>1. /\ o \in Object /\ o.ts = Obj.ts /\ o.wid = Obj.wid /\ o.state = "failed"
        /\ o.step = Obj.step
    BY <1>2 DEF Object
  <2>2. GoOn("persist", o) /\ UNCHANGED due
    BY <1>7 DEF ImageMissing
  <2> HIDE DEF o
  <2> QED BY <1>1, <1>3, <2>1, <2>2, SameStepKill
<1> QED BY <1>5, <1>6, <1>7

LEMMA CancelKill ==
    ASSUME KillSituation, CancelWorkflow \/ CancelFails
    PROVE  \E o : KillStep(o)
<1>1. At("cancel") /\ InReconcile
  BY DEF CancelWorkflow, CancelFails, At, InReconcile
<1>2. Obj \in Object /\ Obj.wid # 0 /\ Obj.wid = last /\ last \in 1..MaxRuns /\ TypeOK
  <2>1. Obj.wid # 0 /\ Settled(Obj)
    BY <1>1 DEF KillSituation, SuccessIsKnown, KillParts, At
  <2> QED BY <1>1, <2>1, ObjType, RunAssumption DEF KillSituation, Settled, TypeOK
<1>3. CancelOpen => last' = last /\ ~Runs(last)'
  BY <1>2 DEF CancelOpen, Runs, TypeOK
<1>4. UNCHANGED engine => last' = last /\ (Runs(last)' => Runs(last))
  BY DEF engine, Runs
<1>5. CASE StepError
  BY <1>1, <1>3, <1>4, <1>5, ErrorKill DEF CancelWorkflow, CancelFails, CancelOpen, Killed
<1>6. CASE CancelOpen /\ Result(Killed)
  <2>1. /\ Killed \in Object /\ Killed.ts = Obj.ts /\ Killed.wid = Obj.wid
    BY <1>2 DEF Killed, Object
  <2>2. Follows(Killed)
    BY <1>2, <1>6, <2>1, FollowsResult
  <2> QED BY <1>2, <1>3, <1>6, <2>1, <2>2, RunAssumption DEF KillStep
<1> QED BY <1>5, <1>6 DEF CancelWorkflow, CancelFails

LEMMA StartKill ==
    ASSUME KillSituation, StartWorkflow \/ StartFails
    PROVE  \E o : KillStep(o)
<1>1. /\ At("engine") /\ InReconcile /\ Obj.wid = 0
      /\ Obj.step \in {"none", "pending", "running"}
  BY DEF StartWorkflow, StartFails, Starting, Active, Executing, At, InReconcile
<1>2. Obj \in Object /\ TypeOK /\ last = 0
  BY <1>1, ObjType DEF KillSituation, InOrder, FoundAgain, Unretried
<1>3. ASSUME NEW r \in 1..MaxRuns, Start(r),
             Result([Obj EXCEPT !.wid = r, !.step = "running", !.state = "running"])
      PROVE  \E o : KillStep(o)
  <2> DEFINE o == [Obj EXCEPT !.wid = r, !.step = "running", !.state = "running"]
  <2>1. /\ o \in Object /\ o.ts = Obj.ts /\ o.wid = r /\ o.state = "running"
        /\ o.step = "running"
    BY <1>2, r \in 0..MaxRuns DEF Object
  <2>2. last' = r
    BY <1>2, <1>3 DEF Start, IsOpen
  <2>3. Result(o)
    BY <1>3
  <2> HIDE DEF o
  <2>4. Follows(o)
    BY <1>2, <2>1, <2>3, FollowsResult
  <2> QED BY <1>1, <2>1, <2>2, <2>4 DEF KillStep, Shown
<1>4. CASE StepError
  <2> DEFINE o == [Obj EXCEPT !.state = "failed", !.step = IF @ = "none" THEN "pending" ELSE @]
  <2>1. /\ o \in Object /\ o.ts = Obj.ts /\ o.wid = 0 /\ o.state = "failed"
        /\ o.step # "killed"
    BY <1>1, <1>2 DEF Object
  <2>2. Result(o)
    BY <1>4 DEF StepError
  <2> HIDE DEF o
  <2>3. Follows(o)
    BY <1>2, <2>1, <2>2, FollowsResult
  <2> QED BY <1>1, <2>1, <2>3 DEF KillStep, Shown
<1> QED BY <1>3, <1>4 DEF StartWorkflow, StartFails

LEMMA WatchKill ==
    ASSUME KillSituation, WatchWorkflow \/ WatchFails
    PROVE  \E o : KillStep(o)
<1>1. InReconcile /\ Obj.wid # 0 /\ UNCHANGED engine
  BY DEF WatchWorkflow, WatchFails, Watching, Active, Executing, At, InReconcile,
     KillSituation, SuccessIsKnown
<1>2. Obj \in Object /\ Obj.wid = last /\ last # 0
  BY <1>1, ObjType DEF KillSituation, KillParts, Settled
<1>3. last' = last /\ (Runs(last)' => Runs(last))
  BY <1>1 DEF engine, Runs
<1>4. CASE WatchFails
  BY <1>1, <1>3, <1>4, ErrorKill DEF WatchFails
<1>5. CASE WatchWorkflow
  <2> DEFINE step == StepOf(wf[Obj.wid])
             o == [Obj EXCEPT !.step = step,
                              !.state = IF step = "succeeded" THEN "running" ELSE step]
  <2>1. step \in {"running", "succeeded", "failed", "killed"}
    BY StateType
  <2>2. Result(o) \/ (GoOn("persist", o) /\ UNCHANGED due)
    BY <1>5 DEF WatchWorkflow
  <2>3. step = "killed" => ~Runs(last)'
    BY <1>1, <1>2 DEF engine, StepOf, Open, Runs
  <2> HIDE DEF step
  <2>4. /\ o \in Object /\ o.ts = Obj.ts /\ o.wid = Obj.wid /\ o.step = step
        /\ o.state = "killed" => step = "killed"
    BY <1>2, <2>1 DEF Object
  <2> HIDE DEF o
  <2>5. Follows(o)
    BY <2>2, <2>4, FollowsResult DEF KillSituation
  <2> QED BY <1>2, <1>3, <2>3, <2>4, <2>5 DEF KillStep, Shown
<1> QED BY <1>4, <1>5

LEMMA ActorsKill ==
    ASSUME KillSituation, Actors
    PROVE  \E o : KillStep(o)
<1>1. InReconcile
  BY ActorFrame DEF KillSituation
<1>2. ~ManualRetry /\ ~RetryRefused /\ ~RetryFails
  BY UnretriedRuns DEF ManualRetry, RetryRefused, RetryFails, Executing
<1>3. CASE Satisfied
  BY <1>1, <1>3, StateKill DEF Satisfied
<1>4. CASE StepIsOver
  BY <1>1, <1>4, StateKill DEF StepIsOver
<1>5. CASE Terminate
  <2>1. /\ GoOn("cancel", Obj) \/ GoOn("info", Obj)
        /\ UNCHANGED due /\ UNCHANGED engine /\ Obj.wid # 0
    BY <1>5 DEF Terminate
  <2>2. Settled(Obj) /\ Obj \in Object
    BY <1>1, ObjType DEF KillSituation, KillParts
  <2>3. Follows(Obj)
    BY <2>1, <2>2, PersistType DEF KillSituation
  <2>4. last' = last /\ Runs(last)' = Runs(last)
    BY <2>1 DEF engine, Runs
  <2> QED BY <2>1, <2>2, <2>3, <2>4 DEF KillStep, Settled, Shown
<1> QED
  BY <1>2, <1>3, <1>4, <1>5, PreparationKill, CancelKill, StartKill, WatchKill DEF Actors

LEMMA ActorsSettle ==
    ASSUME KillSituation, Actors
    PROVE  KillParts'
<1>1. PICK o : KillStep(o)
  BY ActorsKill
<1>2. InReconcile /\ UNCHANGED <<run, cache>>
  BY ActorFrame DEF KillSituation, store
<1>3. /\ ctl'.pc \notin {"engine", "markKilled"}
      /\ InReconcile' => Obj' = o
  BY <1>1, IdleType DEF KillStep, Follows, InReconcile, At, Obj
<1>4. ASSUME NEW p, Settled(p), At("engine") /\ Obj.wid = 0 => ~Shown(p)
      PROVE  /\ p.wid # 0 => p.wid = last'
             /\ p.step = "killed" => p.wid # 0
             /\ Shown(p) => ~Runs(last)'
             /\ p.state = "killed" /\ last' = 0 => cache.ts
  <2>1. CASE last' = last /\ (Runs(last)' => Runs(last))
    BY <1>4, <2>1 DEF Settled
  <2>2. CASE At("engine") /\ Obj.wid = 0
    <3>1. last = 0
      BY <2>2 DEF KillSituation, InOrder, FoundAgain, Unretried
    <3>2. p.wid = 0
      BY <1>4, <3>1 DEF Settled
    <3> QED BY <1>4, <2>2, <3>2 DEF Settled, Shown
  <2> QED BY <1>1, <2>1, <2>2 DEF KillStep
<1>5. Settled(run)' /\ Settled(cache)'
  BY <1>2, <1>4 DEF KillSituation, KillParts, Settled, Shown
<1>6. InReconcile' => Settled(Obj)'
  BY <1>1, <1>2, <1>3 DEF KillStep, Settled, Shown
<1>7. (InReconcile /\ Obj.ts => cache.ts)'
  BY <1>1, <1>2, <1>3 DEF KillStep, KillSituation, KillParts
<1> QED BY <1>3, <1>5, <1>6, <1>7 DEF KillParts, At

LEMMA ReconcileSettles ==
    ASSUME KillSituation, Reconcile, [Next]_vars
    PROVE  KillParts'
<1>0. Settled(run) /\ Settled(cache) /\ TypeOK
  BY DEF KillSituation, KillParts
<1>1. PICK o \in Object :
        /\ Begin(o) /\ o.ts = cache.ts /\ o.step = cache.step
        /\ \/ o = cache /\ (cache.wid # 0 \/ last = 0)
           \/ cache.wid = 0 /\ last # 0 /\ o.wid = last /\ o.state = StateOf(wf[last])
  BY <1>0, ReconcileCopy
<1>2. UNCHANGED <<run, cache, last, wf>>
  BY <1>1 DEF Begin, engine
<1>3. ctl' = Idle \/ (ctl'.pc = Entry(o) /\ ctl'.obj = o)
  BY <1>0, <1>1, BeginType
<1>4. /\ o.wid # 0 => o.wid = last
      /\ o.step = "killed" => o.wid # 0
      /\ Shown(o) => ~Runs(last)
      /\ o.state = "killed" /\ last = 0 => cache.ts
  <2>1. CASE o = cache
    BY <1>0, <2>1 DEF Settled
  <2>2. CASE cache.wid = 0 /\ last # 0 /\ o.wid = last /\ o.state = StateOf(wf[last])
    <3>1. o.step # "killed"
      BY <1>0, <1>1, <2>2 DEF Settled
    <3>2. o.state = "killed" => ~Runs(last)
      BY <2>2 DEF StateOf, Open, Runs
    <3> QED BY <2>2, <3>1, <3>2 DEF Shown
  <2> QED BY <1>1, <2>1, <2>2
<1>5. Settled(run)' /\ Settled(cache)' /\ (InReconcile => Settled(Obj))'
  BY <1>0, <1>2, <1>3, <1>4, IdleType DEF Settled, Shown, Runs, InReconcile, At, Obj
<1>6. /\ Entry(o) = "engine" /\ o.ts => o.wid # 0
      /\ Entry(o) = "markKilled" => o.ts /\ o.wid = 0
  BY DEF Entry, DrainEntry
<1>7. o.wid = 0 => last = 0
  BY <1>1
<1>8. ASSUME At("engine")', (Obj.wid = 0)'
      PROVE  ~Shown(run) /\ ~Shown(cache) /\ ~Shown(o)
  <2>1. o.wid = 0 /\ Entry(o) = "engine" /\ ~cache.ts
    BY <1>1, <1>3, <1>6, <1>8, IdleType DEF At, Obj
  <2>2. last = 0
    BY <1>7, <2>1
  <2> QED BY <1>0, <1>4, <2>1, <2>2 DEF Settled, Shown
<1> QED BY <1>1, <1>2, <1>3, <1>5, <1>6, <1>7, <1>8, IdleType
        DEF KillParts, InReconcile, At, Obj, Shown

\* A step that leaves the copies and the execution as they are, or sends the reconcile to
\* where it starts nothing.
LEMMA OthersSettle ==
    ASSUME KillSituation, cache' \in {cache, run}, last' = last, Runs(last)' => Runs(last),
           run'.wid = run.wid, run'.step = run.step, run'.state = run.state,
           run.ts => run'.ts,
           \/ ctl' = ctl \/ ctl' = Idle
           \/ InReconcile /\ ctl'.pc = "finish" /\ ctl'.obj = Obj
    PROVE  KillParts'
<1>1. Settled(run) /\ Settled(cache) /\ (InReconcile => Settled(Obj)) /\ KillParts
  BY DEF KillSituation, KillParts
<1>2. cache.ts => cache'.ts
  BY DEF KillSituation, InOrder, CopiesInOrder, Earlier
<1>3. Settled(run)' /\ Settled(cache)'
  BY <1>1, <1>2 DEF Settled, Shown
<1>4. (InReconcile => Settled(Obj))'
  BY <1>1, <1>2, IdleType DEF Settled, Shown, InReconcile, At, Obj
<1>5. ctl'.pc \in {"engine", "markKilled"} => ctl' = ctl
  BY IdleType
<1> QED BY <1>1, <1>2, <1>3, <1>4, <1>5, IdleType DEF KillParts, Shown, InReconcile, At, Obj

LEMMA EnsureSettles ==
    ASSUME KillSituation, EnsureDrainFinalizer, [Next]_vars, Unretried'
    PROVE  KillParts'
<1>1. /\ At("ensure") /\ InReconcile /\ "read" \notin stale
      /\ run' = [run EXCEPT !.fin = TRUE] /\ ctl' = [pc |-> "engine", obj |-> run']
      /\ UNCHANGED <<cache, last, wf>>
  BY DEF EnsureDrainFinalizer, Update, GoOn, engine, At, InReconcile
<1>2. /\ run'.wid = run.wid /\ run'.step = run.step /\ run'.state = run.state
      /\ run'.ts = run.ts
  BY <1>1 DEF KillSituation, TypeOK, Object
<1>3. ~run.ts /\ ~cache.ts
  BY <1>1 DEF KillSituation, InOrder, CopiesInOrder, Earlier, WorkHasFinalizer
<1>4. Settled(run) /\ Settled(cache)
  BY DEF KillSituation, KillParts
<1>5. Settled(run)' /\ Settled(cache)'
  BY <1>1, <1>2, <1>4 DEF Settled, Shown, Runs
<1>6. run'.wid = 0 => last = 0
  <2>1. InOrder'
    BY OrderStep DEF KillSituation
  <2> QED BY <1>1, <2>1 DEF InOrder, FoundAgain, Unretried, At, Obj
<1>7. run'.wid = 0 => ~Shown(run') /\ ~Shown(cache)
  BY <1>2, <1>3, <1>4, <1>6 DEF Settled, Shown
<1>8. ctl'.pc = "engine" /\ ctl'.obj = run'
  BY <1>1
<1> QED BY <1>1, <1>2, <1>3, <1>5, <1>7, <1>8 DEF KillParts, InReconcile, At, Obj, Shown, Settled, Runs

LEMMA StoresSettle ==
    ASSUME KillSituation, UpdateStatus \/ MarkKilled
    PROVE  KillParts'
<1>0. Settled(run) /\ Settled(cache) /\ TypeOK
  BY DEF KillSituation, KillParts
<1>1. CASE UpdateStatus
  <2>1. InReconcile /\ UNCHANGED <<cache, last, wf>>
    BY <1>1 DEF UpdateStatus, Update, engine, At, InReconcile
  <2>2. Obj \in Object /\ run.kill \in BOOLEAN /\ Settled(Obj) /\ (Obj.ts => cache.ts)
    BY <2>1, ObjType DEF KillSituation, KillParts, TypeOK, Object
  <2>3. run' = [Obj EXCEPT !.kill = run.kill] /\ Continue(run')
    BY <1>1 DEF UpdateStatus, Update
  <2>4. /\ run' \in Object /\ run'.wid = Obj.wid /\ run'.step = Obj.step
        /\ run'.state = Obj.state /\ run'.ts = Obj.ts
    BY <2>2, <2>3 DEF Object
  <2>5. ctl' = Idle \/ (ctl'.pc \in {"finish", "expire"} /\ ctl'.obj = run')
    BY <2>3 DEF Continue, End, GoOn
  <2>6. Settled(run)' /\ Settled(cache)'
    BY <1>0, <2>1, <2>2, <2>4 DEF Settled, Shown, Runs
  <2> QED BY <2>1, <2>2, <2>4, <2>5, <2>6, IdleType
          DEF KillParts, InReconcile, At, Obj, Settled, Shown, Runs
<1>2. CASE MarkKilled
  <2>1. /\ InReconcile /\ At("markKilled") /\ UNCHANGED <<cache, last, wf>>
        /\ run' = [run EXCEPT !.state = "killed"] /\ ctl' = [pc |-> "finish", obj |-> run']
    BY <1>2 DEF MarkKilled, Update, GoOn, engine, At, InReconcile
  <2>2. /\ run'.wid = run.wid /\ run'.step = run.step /\ run'.state = "killed"
        /\ run'.ts = run.ts
    BY <1>0, <2>1 DEF TypeOK, Object
  <2>3. last = 0 /\ cache.ts
    BY <2>1 DEF KillSituation, KillParts, InOrder, WorkHasFinalizer, At
  <2>4. Settled(run)' /\ Settled(cache)'
    BY <1>0, <2>1, <2>2, <2>3 DEF Settled, Shown, Runs
  <2>5. ctl'.pc = "finish" /\ ctl'.obj = run'
    BY <2>1
  <2> QED BY <2>1, <2>3, <2>4, <2>5 DEF KillParts, InReconcile, At, Obj, Settled, Shown, Runs
<1> QED BY <1>1, <1>2

LEMMA KillsSettledStep ==
    ASSUME TypeOK, InOrder, SuccessIsKnown, KillsSettled, [Next]_vars
    PROVE  KillsSettled'
<1> SUFFICES ASSUME Unretried'
             PROVE  KillParts'
  BY DEF KillsSettled, Unretried, KillParts
<1>1. Unretried /\ ~LookupFails
  BY UnretriedBefore
<1>2. KillSituation
  BY <1>1 DEF KillSituation, KillsSettled, Unretried, KillParts
<1>3. CASE MarkImmutableIfExpired \/ RequestCancel \/ Conflict \/ CompleteDrain
  <2>1. /\ UNCHANGED <<cache, last, wf>> /\ ctl' = Idle
        /\ run' \in {run, [run EXCEPT !.imm = TRUE], [run EXCEPT !.kill = TRUE, !.counted = TRUE],
                     [run EXCEPT !.imm = TRUE, !.counted = FALSE, !.fin = FALSE]}
    BY <1>3 DEF MarkImmutableIfExpired, RequestCancel, Conflict, CompleteDrain, Update, End, store, engine
  <2>2. /\ run'.wid = run.wid /\ run'.step = run.step /\ run'.state = run.state
        /\ run.ts => run'.ts
    BY <2>1 DEF TypeOK, Object
  <2>3. Runs(last)' => Runs(last)
    BY <2>1 DEF Runs
  <2> QED BY <1>2, <2>1, <2>2, <2>3, OthersSettle
<1>4. CASE ForceKill
  <2>1. UNCHANGED <<run, cache, last>> /\ InReconcile
    BY <1>4 DEF ForceKill, store, engine, CancelOpen, At, InReconcile
  <2>2. ctl'.pc = "finish" /\ ctl'.obj = Obj
    BY <1>4 DEF ForceKill, GoOn
  <2>3. Runs(last)' => Runs(last)
    <3>1. last \in 0..MaxRuns /\ wf \in [1..MaxRuns -> Executions]
      BY DEF TypeOK
    <3>2. wf' = wf \/ wf' = [wf EXCEPT ![Obj.wid] = "canceling"]
      BY <1>4 DEF ForceKill, CancelOpen, engine
    <3> QED BY <2>1, <3>1, <3>2, RunAssumption DEF Runs
  <2> QED BY <1>2, <2>1, <2>2, <2>3, OthersSettle
<1>5. CASE Users
  <2>1. /\ UNCHANGED <<cache, last, wf, ctl>>
        /\ \/ run' \in {[run EXCEPT !.kill = TRUE], [run EXCEPT !.ts = TRUE]}
           \/ \E r \in 0..MaxRuns : run' = [run EXCEPT !.retry = r]
    BY <1>5 DEF Users, Kill, Retry, Delete, Write, engine, TypeOK, Object
  <2>2. /\ run'.wid = run.wid /\ run'.step = run.step /\ run'.state = run.state
        /\ run.ts => run'.ts
    BY <2>1 DEF TypeOK, Object
  <2>3. Runs(last)' => Runs(last)
    BY <2>1 DEF Runs
  <2> QED BY <1>2, <2>1, <2>2, <2>3, OthersSettle
<1>6. CASE CacheSync \/ Crash \/ DrainTimeout \/ UNCHANGED vars
  <2>1. /\ UNCHANGED <<run, last, wf>> /\ cache' \in {cache, run} /\ ctl' \in {ctl, Idle}
    BY <1>6 DEF CacheSync, Crash, DrainTimeout, vars, engine, store
  <2>2. Runs(last)' => Runs(last)
    BY <2>1 DEF Runs
  <2> QED BY <1>2, <2>1, <2>2, OthersSettle
<1>7. CASE \E r \in 1..MaxRuns : Closes(r)
  <2>1. UNCHANGED <<run, cache, ctl, last>>
    BY <1>7 DEF Closes, store
  <2>2. Runs(last)' => Runs(last)
    BY <1>7, <2>1 DEF Closes, Runs, TypeOK
  <2> QED BY <1>2, <2>1, <2>2, OthersSettle
<1> QED
  BY <1>1, <1>2, <1>3, <1>4, <1>5, <1>6, <1>7, ActorsSettle, ReconcileSettles, EnsureSettles,
     StoresSettle DEF Next, Controller

\* A run that is shown as KILLED runs nothing that was not told to stop, whatever calls of
\* the engine fail and however often the manager restarts, if executions are found by name
\* and nobody retries.
THEOREM KilledIsQuiet == Spec => []KilledRunsNothing
<1>1. Init => KillsSettled
  <2> SUFFICES ASSUME Init
               PROVE  KillsSettled
    OBVIOUS
  <2>1. run = NewRun /\ cache = NewRun /\ last = 0 /\ ctl.pc = "idle"
    BY IdleType DEF Init
  <2>2. NewRun.wid = 0 /\ NewRun.step = "none" /\ NewRun.state = "none"
    BY DEF NewRun
  <2> QED BY <2>1, <2>2 DEF KillsSettled, Settled, Shown, InReconcile, At
<1>2. TypeOK /\ InOrder /\ SuccessIsKnown /\ KillsSettled /\ [Next]_vars => KillsSettled'
  BY KillsSettledStep
<1>3. KillsSettled => KilledRunsNothing
  BY DEF KillsSettled, Settled, Shown, KilledRunsNothing
<1> QED BY <1>1, <1>2, <1>3, TypeCorrect, CopiesStayInOrder, SuccessStaysKnown, PTL DEF Spec

-----------------------------------------------------------------------------
(* A run is a child that is drained.                                       *)

\* What the calls of a drain have seen is so until they store something, unless another
\* write comes first.
DrainInOrder ==
    /\ InReconcile /\ Obj.ts => Obj.fin
    /\ ctl.pc \in {"engine", "cancel", "info"} /\ Obj.ts => ~Terminal(Obj) /\ Obj.wid # 0
    /\ At("forceKill") => expired
    /\ Fresh => Obj.counted = run.counted
    /\ At("requestCancel") => ~Obj.counted
    /\ At("finish") /\ Fresh => FoundOver \/ expired

Unseen(o) == ~o.fin /\ ~o.ts => o.prep = "none"

\* A run that was let go of is looked at again from an old copy only if that says that the
\* run is over: whoever might start or reset a workflow sees the finalizer.
LetGoIsSeen ==
    /\ cache.fin /\ ~cache.ts => run.fin
    /\ InReconcile => (Obj.fin /\ ~Obj.ts => run.fin) /\ (Obj.ts => cache.ts)
    /\ Unseen(run) /\ Unseen(cache) /\ (At("engine") => Unseen(Obj))
    /\ due \/ InReconcile => (cache.fin /\ ~run.fin => Terminal(cache))
    /\ At("engine") /\ Obj.ts /\ RetryDue => run.fin
    /\ Fresh /\ Obj.ts /\ ~At("finish") => ~due /\ "cache" \notin stale
    /\ Fresh /\ At("finish") => (due => Terminal(cache)) /\ ("cache" \in stale => Terminal(run))

DrainWith == KeptWith /\ DrainInOrder /\ LetGoIsSeen

\* The reconcile is over.
LEMMA EndDrains ==
    ASSUME DrainWith, ctl' = Idle,
           cache'.fin /\ ~cache'.ts => run'.fin,
           Unseen(run'), Unseen(cache'),
           due' => (cache'.fin /\ ~run'.fin => Terminal(cache'))
    PROVE  DrainInOrder' /\ LetGoIsSeen'
<1>1. ~InReconcile' /\ ctl'.pc = "idle"
  BY IdleType DEF InReconcile, At
<1>2. DrainInOrder'
  BY <1>1 DEF DrainInOrder, Fresh, At
<1>3. LetGoIsSeen'
  BY <1>1 DEF LetGoIsSeen, Fresh, At, Unseen, Terminal
<1> QED BY <1>2, <1>3

\* It leaves everything as it was.
LEMMA EndSameDrains ==
    ASSUME DrainWith, InReconcile, ctl' = Idle, run' = run, cache' = cache
    PROVE  DrainInOrder' /\ LetGoIsSeen'
BY EndDrains DEF DrainWith, LetGoIsSeen

LEMMA ResultLeaves ==
    ASSUME NEW o, Result(o)
    PROVE  \/ ctl' = Idle
           \/ ctl'.pc = "persist" /\ due' = due
           \/ /\ o = Obj /\ Terminal(Obj) /\ ~At("retried")
              /\ ctl'.pc \in {"finish", "expire"} /\ ctl'.obj = Obj /\ due' = due
BY DEF Result, Continue, End, GoOn

\* Where the actors lead to: what they pass on as it was, was so.
LEMMA ActorsLead ==
    ASSUME Actors
    PROVE  /\ ctl.pc \in {"engine", "cancel", "info", "retried"}
           /\ ctl' = Idle \/ due' = due
           /\ ctl'.pc \in {"cancel", "info"} => At("engine") /\ ctl'.obj = Obj
           /\ ctl'.pc = "finish" => Terminal(Obj) /\ ctl'.obj = Obj /\ ~At("retried")
<1>1. CASE SourcePipeline \/ SourcePipelineFails \/ ImageBuild \/ ImageMissing
  <2>1. At("engine") /\ ((\E o : Result(o)) \/ \E o : GoOn("persist", o) /\ UNCHANGED due)
    BY <1>1 DEF SourcePipeline, SourcePipelineFails, ImageBuild, ImageMissing, EngineError, ResultState
  <2> QED BY <2>1, ResultLeaves, IdleType DEF At, GoOn
<1>2. CASE Satisfied \/ StepIsOver \/ RetryRefused \/ RetryFails
  <2>1. At("engine") /\ \E o : Result(o)
    BY <1>2 DEF Satisfied, StepIsOver, RetryRefused, RetryFails, EngineError, ResultState, Executing
  <2> QED BY <2>1, ResultLeaves, IdleType DEF At
<1>3. CASE ManualRetry
  <2>1. At("engine") /\ (\E o : GoOn("retried", o)) /\ due' = due
    BY <1>3 DEF ManualRetry, Executing
  <2> QED BY <2>1 DEF At, GoOn
<1>4. CASE Terminate
  <2>1. At("engine") /\ (GoOn("cancel", Obj) \/ GoOn("info", Obj)) /\ due' = due
    BY <1>4 DEF Terminate, Active, Executing
  <2> QED BY <2>1 DEF At, GoOn
<1>5. CASE CancelWorkflow \/ CancelFails
  <2>1. At("cancel") /\ \E o : Result(o)
    BY <1>5 DEF CancelWorkflow, CancelFails, StepError
  <2> QED BY <2>1, ResultLeaves, IdleType DEF At
<1>6. CASE StartWorkflow \/ StartFails
  <2>1. At("engine") /\ \E o : Result(o)
    BY <1>6 DEF StartWorkflow, StartFails, StepError, Starting, Active, Executing
  <2> QED BY <2>1, ResultLeaves, IdleType DEF At
<1>7. CASE WatchWorkflow \/ WatchFails
  <2>1. ctl.pc \in {"info", "retried", "engine"}
    BY <1>7 DEF WatchWorkflow, WatchFails, Watching, Active, Executing, At
  <2>2. (\E o : Result(o)) \/ \E o : GoOn("persist", o) /\ UNCHANGED due
    BY <1>7 DEF WatchWorkflow, WatchFails, StepError
  <2> QED BY <2>1, <2>2, ResultLeaves, IdleType DEF At, GoOn
<1> QED BY <1>1, <1>2, <1>3, <1>4, <1>5, <1>6, <1>7 DEF Actors

LEMMA ActorsDrain ==
    ASSUME DrainWith, Actors
    PROVE  DrainInOrder' /\ LetGoIsSeen'
<1>0. TypeOK /\ InReconcile /\ run' = run /\ cache' = cache /\ stale' = stale /\ expired' = expired
  BY ActorFrame DEF DrainWith, KeptWith, store, world
<1>1. CASE ctl' = Idle
  BY <1>0, <1>1, EndSameDrains
<1>2. CASE ctl' # Idle
  <2>1. PICK o \in Object : Follows(o) /\ SameMeta(o)
    BY <1>0, ActorsStep DEF ActorStep
  <2>2. /\ ctl'.obj = o /\ ctl'.pc \in {"cancel", "info", "retried", "persist", "expire", "finish"}
        /\ ctl'.pc = "finish" => o.ts
        /\ o.fin = Obj.fin /\ o.ts = Obj.ts /\ o.counted = Obj.counted
    BY <1>2, <2>1 DEF Follows, SameMeta
  <2>3. /\ ctl.pc \in {"engine", "cancel", "info", "retried"} /\ due' = due
        /\ ctl'.pc \in {"cancel", "info"} => At("engine") /\ o = Obj
    BY <1>2, <2>2, ActorsLead
  <2>4. ctl'.pc # "finish"
    BY <1>2, <2>2, ActorsLead DEF DrainWith, DrainInOrder, At
  <2>5. InReconcile' /\ (Fresh' => Fresh)
    BY <1>0, <2>2 DEF InReconcile, Fresh, At
  <2>6. DrainInOrder'
    BY <1>0, <2>2, <2>3, <2>4, <2>5 DEF DrainWith, DrainInOrder, At, Obj, Terminal
  <2>7. LetGoIsSeen'
    BY <1>0, <2>2, <2>3, <2>4, <2>5 DEF DrainWith, LetGoIsSeen, At, Obj, Terminal, Unseen
  <2> QED BY <2>6, <2>7
<1> QED BY <1>1, <1>2

\* What a reconcile begins with.
LEMMA EntryLeads ==
    ASSUME NEW o, Entry(o) # "idle"
    PROVE  /\ Entry(o) \in {"ensure", "engine", "forceKill", "markKilled", "requestCancel", "finish"}
           /\ o.ts => o.fin
           /\ Entry(o) = "engine" /\ o.ts => ~Terminal(o) /\ o.wid # 0
           /\ Entry(o) = "forceKill" => expired
           /\ Entry(o) = "requestCancel" => ~o.counted
           /\ Entry(o) = "finish" => Terminal(o)
BY DEF Entry, DrainEntry

LEMMA OpenRuns ==
    ASSUME NEW s, Open(s)
    PROVE  StateOf(s) = "running"
BY DEF StateOf, Open

LEMMA ReconcileDrains ==
    ASSUME DrainWith, Reconcile \/ LookupFails
    PROVE  DrainInOrder' /\ LetGoIsSeen'
<1> USE DEF DrainWith, KeptWith
<1>1. PICK o \in Object :
        /\ Begin(o)
        /\ o.fin = cache.fin /\ o.ts = cache.ts /\ o.retry = cache.retry
        /\ o.prep = cache.prep /\ o.counted = cache.counted
        /\ \/ o = cache
           \/ cache.wid = 0 /\ last # 0 /\ o.wid = last /\ o.state = StateOf(wf[last])
  BY ReconcileCopy
<1>2. /\ run' = run /\ cache' = cache /\ last' = last /\ wf' = wf /\ expired' = expired
      /\ due /\ ~due'
      /\ "read" \notin stale' => cache = run /\ "cache" \notin stale'
  BY <1>1 DEF Begin, engine, world, InOrder, CopiesInOrder
<1>3. CASE ctl' = Idle
  BY <1>2, <1>3, EndDrains DEF LetGoIsSeen
<1>4. CASE ctl' # Idle
  <2>1. ctl'.pc = Entry(o) /\ ctl'.obj = o /\ Entry(o) # "idle"
    BY <1>1, <1>4 DEF Begin
  <2>2. /\ ctl'.pc \in {"ensure", "engine", "forceKill", "markKilled", "requestCancel", "finish"}
        /\ o.ts => o.fin
        /\ ctl'.pc = "engine" /\ o.ts => ~Terminal(o) /\ o.wid # 0
        /\ ctl'.pc = "forceKill" => expired
        /\ ctl'.pc = "requestCancel" => ~o.counted
        /\ ctl'.pc = "finish" => Terminal(o)
    BY <2>1, EntryLeads
  <2>3. cache = run /\ Terminal(o) => FoundOver
    <3>1. CASE o = cache
      BY <3>1 DEF FoundOver
    <3>2. CASE cache.wid = 0 /\ last # 0 /\ o.wid = last /\ o.state = StateOf(wf[last])
      <4>1. Open(wf[last]) => o.state = "running"
        BY <3>2, OpenRuns
      <4>2. Open(wf[last]) => ~Terminal(o)
        BY <4>1 DEF Terminal
      <4> QED BY <3>2, <4>2 DEF FoundOver
    <3> QED BY <1>1, <3>1, <3>2
  <2>4. FoundOver' = FoundOver
    BY <1>2 DEF FoundOver, Terminal, Open
  <2>5. DrainInOrder'
    BY <1>1, <1>2, <2>1, <2>2, <2>3, <2>4 DEF DrainInOrder, Fresh, InReconcile, At, Obj, Terminal
  <2>6. o.ts /\ o.retry # 0 /\ o.retry = o.wid /\ ctl'.pc = "engine" => run.fin
    <3>1. cache.retry # 0 => cache.wid # 0
      BY DEF Kept, CopiesTell, Told
    <3>2. cache.fin /\ ~run.fin => Terminal(cache)
      BY <1>2 DEF LetGoIsSeen
    <3> QED BY <1>1, <2>2, <3>1, <3>2
  <2>7. LetGoIsSeen'
    BY <1>1, <1>2, <2>1, <2>2, <2>6
       DEF LetGoIsSeen, Fresh, InReconcile, At, Obj, Terminal, RetryDue, Unseen
  <2> QED BY <2>5, <2>7
<1> QED BY <1>3, <1>4

LEMMA EnsureDrains ==
    ASSUME DrainWith, EnsureDrainFinalizer
    PROVE  DrainInOrder' /\ LetGoIsSeen'
<1>1. /\ run' = [run EXCEPT !.fin = TRUE] /\ cache' = cache /\ ctl'.pc = "engine" /\ ctl'.obj = run'
      /\ run \in Object
      /\ ~run.ts
  BY DEF DrainWith, KeptWith, EnsureDrainFinalizer, Update, GoOn, InOrder, CopiesInOrder,
     WorkHasFinalizer, InReconcile, At, TypeOK
<1>2. run'.fin /\ ~run'.ts
  BY <1>1 DEF Object
<1>3. DrainInOrder'
  BY <1>1, <1>2 DEF DrainInOrder, At, Obj
<1>4. LetGoIsSeen'
  BY <1>1, <1>2 DEF DrainWith, LetGoIsSeen, At, Obj, Unseen
<1> QED BY <1>3, <1>4

\* The last write of a reconcile that found the run over, or killed it.
LEMMA WriteDrains ==
    ASSUME DrainWith, Fresh, Obj.ts => ~At("finish"), ~At("ensure"),
           Update(run'), Terminal(run'), due' = due,
           run'.fin = run.fin, run'.ts = run.ts, run'.prep = run.prep \/ run.fin \/ run.ts,
           ctl'.obj = run', (ctl'.pc = "finish" /\ run'.ts) \/ (ctl'.pc = "expire" /\ ~run'.ts)
    PROVE  DrainInOrder' /\ LetGoIsSeen'
<1> USE DEF DrainWith, KeptWith
<1>1. /\ InReconcile /\ cache' = cache /\ stale' = {"cache"}
      /\ Obj.fin = run.fin /\ Obj.ts = run.ts
  BY DEF Update, Fresh, InOrder, CopiesInOrder
<1>2. DrainInOrder'
  BY <1>1 DEF DrainInOrder, At, Obj, FoundOver
<1>3. run'.ts => ~due /\ cache.ts
  BY <1>1 DEF LetGoIsSeen, Fresh
<1>4. LetGoIsSeen'
  BY <1>1, <1>3 DEF LetGoIsSeen, At, Obj, Unseen, Fresh, Terminal
<1> QED BY <1>2, <1>4

LEMMA UpdateDrains ==
    ASSUME DrainWith, UpdateStatus
    PROVE  DrainInOrder' /\ LetGoIsSeen'
<1> USE DEF DrainWith, KeptWith
<1>1. /\ InReconcile /\ Obj \in Object /\ run.kill \in BOOLEAN /\ Fresh
      /\ run' = [Obj EXCEPT !.kill = run.kill] /\ cache' = cache
      /\ Update(run') /\ Continue(run') /\ At("persist")
  BY ObjType DEF UpdateStatus, Update, InReconcile, At, TypeOK, Object, Fresh
<1>2. /\ run'.fin = run.fin /\ run'.ts = run.ts /\ run'.state = Obj.state
      /\ run.fin \/ run.ts
  BY <1>1 DEF Object, InOrder, CopiesInOrder, WorkHasFinalizer, Fresh, At
<1>3. CASE Terminal(run')
  <2>1. due' = due /\ ctl' = [pc |-> IF run'.ts THEN "finish" ELSE "expire", obj |-> run']
    BY <1>1, <1>3 DEF Continue, GoOn
  <2> QED BY <1>1, <1>2, <1>3, <2>1, WriteDrains DEF At
<1>4. CASE ~Terminal(run')
  <2>1. ctl' = Idle
    BY <1>1, <1>4 DEF Continue, End
  <2> QED BY <1>1, <1>2, <2>1, EndDrains DEF LetGoIsSeen, Unseen
<1> QED BY <1>3, <1>4

LEMMA KilledDrains ==
    ASSUME DrainWith, MarkKilled
    PROVE  DrainInOrder' /\ LetGoIsSeen'
<1>1. /\ run \in Object /\ run' = [run EXCEPT !.state = "killed"] /\ Update(run')
      /\ ctl' = [pc |-> "finish", obj |-> run'] /\ due' = due /\ At("markKilled") /\ Fresh
  BY DEF DrainWith, KeptWith, MarkKilled, Update, GoOn, TypeOK, Fresh, InReconcile, At
<1>2. /\ run'.fin = run.fin /\ run'.ts = run.ts /\ run'.prep = run.prep /\ Terminal(run')
      /\ run.ts
  BY <1>1 DEF DrainWith, KeptWith, InOrder, CopiesInOrder, WorkHasFinalizer, Fresh, At, Object, Terminal
<1> QED BY <1>1, <1>2, WriteDrains DEF At

LEMMA ForceDrains ==
    ASSUME DrainWith, ForceKill
    PROVE  DrainInOrder' /\ LetGoIsSeen'
<1>1. /\ run' = run /\ cache' = cache /\ stale' = stale /\ due' = due /\ expired' = expired
      /\ ctl' = [pc |-> "finish", obj |-> Obj] /\ At("forceKill") /\ InReconcile
      /\ Fresh' => Fresh
  BY DEF ForceKill, GoOn, store, world, InReconcile, At, Fresh
<1>2. Obj.ts /\ expired
  BY <1>1 DEF DrainWith, KeptWith, InOrder, WorkHasFinalizer, DrainInOrder, At
<1>3. DrainInOrder'
  BY <1>1, <1>2 DEF DrainWith, DrainInOrder, At, Obj
<1>4. LetGoIsSeen'
  BY <1>1, <1>2 DEF DrainWith, LetGoIsSeen, At, Obj
<1> QED BY <1>3, <1>4

LEMMA LastDrains ==
    ASSUME DrainWith, RequestCancel \/ CompleteDrain \/ MarkImmutableIfExpired \/ Conflict
    PROVE  DrainInOrder' /\ LetGoIsSeen'
<1> USE DEF DrainWith, KeptWith
<1>0. run \in Object
  BY DEF TypeOK
<1>1. CASE Conflict
  <2>1. InReconcile /\ ctl' = Idle /\ run' = run /\ cache' = cache
    BY <1>1 DEF Conflict, End, store, InReconcile, At
  <2> QED BY <2>1, EndSameDrains
<1>2. CASE RequestCancel \/ MarkImmutableIfExpired
  <2>1. /\ InReconcile /\ ctl' = Idle /\ cache' = cache
        /\ run' \in {run, [run EXCEPT !.imm = TRUE], [run EXCEPT !.kill = TRUE, !.counted = TRUE]}
    BY <1>2 DEF RequestCancel, MarkImmutableIfExpired, Update, End, store, InReconcile, At
  <2>2. run'.fin = run.fin /\ run'.ts = run.ts /\ run'.prep = run.prep
    BY <1>0, <2>1 DEF Object
  <2> QED BY <2>1, <2>2, EndDrains DEF LetGoIsSeen, Unseen
<1>3. CASE CompleteDrain
  <2>1. /\ Fresh /\ At("finish") /\ ctl' = Idle /\ due' = (due \/ FALSE) /\ cache' = cache
        /\ run' = [run EXCEPT !.imm = TRUE, !.counted = FALSE, !.fin = FALSE]
    BY <1>3 DEF CompleteDrain, Update, End, Fresh, InReconcile, At
  <2>2. run.ts /\ cache.ts /\ (due' => Terminal(cache))
    BY <2>1 DEF LetGoIsSeen, InOrder, CopiesInOrder, WorkHasFinalizer, Fresh, At
  <2>3. run'.ts
    BY <1>0, <2>1, <2>2 DEF Object
  <2> QED BY <2>1, <2>2, <2>3, EndDrains DEF LetGoIsSeen, Unseen
<1> QED BY <1>1, <1>2, <1>3

LEMMA UsersDrain ==
    ASSUME DrainWith, Users
    PROVE  DrainInOrder' /\ LetGoIsSeen'
<1>1. /\ ctl' = ctl /\ cache' = cache /\ stale' = {"cache", "read"} /\ due' = due
      /\ expired' = expired /\ run \in Object
      /\ run' \in {[run EXCEPT !.kill = TRUE], [run EXCEPT !.retry = run.wid], [run EXCEPT !.ts = TRUE]}
  BY DEF DrainWith, KeptWith, Users, Kill, Retry, Delete, Write, TypeOK, world
<1>2. run'.fin = run.fin /\ (run.ts => run'.ts) /\ run'.prep = run.prep
  BY <1>1 DEF Object
<1>3. ~Fresh' /\ InReconcile' = InReconcile
  BY <1>1 DEF Fresh, InReconcile, At
<1>4. DrainInOrder'
  BY <1>1, <1>3 DEF DrainWith, DrainInOrder, At, Obj
<1>5. LetGoIsSeen'
  BY <1>1, <1>2, <1>3 DEF DrainWith, LetGoIsSeen, At, Obj, Unseen, RetryDue
<1> QED BY <1>4, <1>5

LEMMA RestDrains ==
    ASSUME DrainWith,
           \/ CacheSync \/ Crash \/ DrainTimeout \/ (\E r \in 1..MaxRuns : Closes(r))
           \/ UNCHANGED vars
    PROVE  DrainInOrder' /\ LetGoIsSeen'
<1> USE DEF DrainWith, KeptWith
<1>1. CASE CacheSync
  <2>1. /\ run' = run /\ ctl' = ctl /\ cache' = run /\ due' /\ "cache" \in stale
        /\ stale' = stale \ {"cache"} /\ wf' = wf /\ last' = last /\ expired' = expired
    BY <1>1 DEF CacheSync, engine, world
  <2>2. InReconcile' = InReconcile /\ Fresh' = Fresh /\ FoundOver' = FoundOver
    BY <2>1 DEF InReconcile, Fresh, At, FoundOver, Terminal, Open
  <2>3. InReconcile /\ Obj.ts => run.ts
    BY DEF InOrder, CopiesInOrder, Earlier
  <2>4. DrainInOrder'
    BY <2>1, <2>2 DEF DrainInOrder, At, Obj
  <2>5. LetGoIsSeen'
    BY <2>1, <2>2, <2>3 DEF LetGoIsSeen, At, Obj, Unseen, RetryDue
  <2> QED BY <2>4, <2>5
<1>2. CASE Crash
  <2>1. ctl' = Idle /\ run' = run /\ cache' = run
    BY <1>2 DEF Crash
  <2> QED BY <2>1, EndDrains DEF LetGoIsSeen, Unseen
<1>3. CASE DrainTimeout \/ (\E r \in 1..MaxRuns : Closes(r)) \/ UNCHANGED vars
  <2>1. /\ UNCHANGED <<run, cache, stale, due, ctl>> /\ last' = last
        /\ expired => expired'
    BY <1>3 DEF DrainTimeout, Closes, store, engine, world, vars
  <2>2. FoundOver => FoundOver'
    <3>1. last # 0 /\ ~Open(wf[last]) => ~Open(wf'[last])
      <4>1. CASE wf' = wf
        BY <4>1
      <4>2. CASE \E r \in 1..MaxRuns : Closes(r)
        <5>1. PICK r \in 1..MaxRuns, x \in {"completed", "failed", "canceled"} : wf' = [wf EXCEPT ![r] = x]
          BY <4>2 DEF Closes
        <5>2. last # 0 => last \in 1..MaxRuns
          BY WfType DEF TypeOK
        <5> QED BY <5>1, <5>2 DEF TypeOK, Open
      <4> QED BY <1>3, <4>1, <4>2 DEF DrainTimeout, engine, vars
    <3> QED BY <2>1, <3>1 DEF FoundOver, Terminal, Open
  <2>3. InReconcile' = InReconcile /\ Fresh' = Fresh
    BY <2>1 DEF InReconcile, Fresh, At
  <2>4. DrainInOrder'
    BY <2>1, <2>2, <2>3 DEF DrainInOrder, At, Obj, Terminal
  <2>5. LetGoIsSeen'
    BY <2>1, <2>3 DEF LetGoIsSeen, At, Obj, Unseen, RetryDue, Terminal
  <2> QED BY <2>4, <2>5
<1> QED BY <1>1, <1>2, <1>3

LEMMA DrainStaysInOrder == Spec => [](DrainInOrder /\ LetGoIsSeen)
<1>1. Init => DrainInOrder /\ LetGoIsSeen
  <2> SUFFICES ASSUME Init
               PROVE  DrainInOrder /\ LetGoIsSeen
    OBVIOUS
  <2>1. ctl.pc = "idle" /\ run = NewRun /\ cache = NewRun
    BY IdleType DEF Init
  <2>2. NewRun.fin = FALSE /\ NewRun.prep = "none"
    BY DEF NewRun
  <2> QED BY <2>1, <2>2 DEF DrainInOrder, LetGoIsSeen, Fresh, InReconcile, At, Unseen
<1>2. DrainWith /\ [Next]_vars => (DrainInOrder /\ LetGoIsSeen)'
  BY ActorsDrain, ReconcileDrains, EnsureDrains, UpdateDrains, KilledDrains, ForceDrains, LastDrains,
     UsersDrain, RestDrains DEF Next, Controller
<1>3. DrainWith <=> TypeOK /\ InOrder /\ SuccessIsKnown /\ Kept /\ DrainInOrder /\ LetGoIsSeen
  BY DEF DrainWith, KeptWith
<1> QED BY <1>1, <1>2, <1>3, TypeCorrect, CopiesStayInOrder, SuccessStaysKnown, RunStaysKept, PTL DEF Spec

\* Only ExecuteWorkflow opens an execution: by a start, or by a retry.
LEMMA ActorsOpen ==
    ASSUME TypeOK, Actors, ~IsOpen(last), IsOpen(last)'
    PROVE  Executing /\ (Obj.wid = 0 \/ RetryDue)
<1>1. CASE ManualRetry \/ RetryFails
  BY <1>1 DEF ManualRetry, RetryFails
<1>2. CASE StartWorkflow \/ StartFails
  BY <1>2 DEF StartWorkflow, StartFails, Starting, Active
<1>3. CASE CancelWorkflow \/ CancelFails
  <2>1. InReconcile /\ (UNCHANGED engine \/ (IsOpen(Obj.wid) /\ CancelOpen))
    BY <1>3 DEF CancelWorkflow, CancelFails, InReconcile, At
  <2>2. CASE UNCHANGED engine
    BY <2>2 DEF engine, IsOpen
  <2>3. CASE IsOpen(Obj.wid) /\ CancelOpen
    <3>1. /\ last' = last /\ wf' = [wf EXCEPT ![Obj.wid] = "canceling"] /\ Open(wf[Obj.wid])
      BY <2>3 DEF CancelOpen, IsOpen
    <3>2. last # 0 => last \in 1..MaxRuns
      BY WfType DEF TypeOK
    <3>3. last # 0 /\ last # Obj.wid => wf'[last] = wf[last]
      BY <3>1, <3>2 DEF TypeOK
    <3> QED BY <3>1, <3>3 DEF IsOpen
  <2> QED BY <2>1, <2>2, <2>3
<1>4. CASE ~(ManualRetry \/ RetryFails \/ StartWorkflow \/ StartFails \/ CancelWorkflow \/ CancelFails)
  <2>1. UNCHANGED engine
    BY <1>4 DEF Actors, SourcePipeline, SourcePipelineFails, ImageBuild, ImageMissing, Satisfied,
       StepIsOver, RetryRefused, Terminate, WatchWorkflow, WatchFails
  <2> QED BY <2>1 DEF engine, IsOpen
<1> QED BY <1>1, <1>2, <1>3, <1>4

LEMMA OpensUnderFinalizer ==
    ASSUME DrainWith, [Next]_vars, ~IsOpen(last), IsOpen(last)'
    PROVE  run.fin
<1>0. TypeOK
  BY DEF DrainWith, KeptWith
<1>1. CASE Actors
  <2>1. At("engine") /\ Obj.prep = "done" /\ (Obj.wid = 0 \/ RetryDue)
    BY <1>0, <1>1, ActorsOpen DEF Executing
  <2>2. Obj.fin \in BOOLEAN /\ Obj.ts \in BOOLEAN /\ InReconcile
    BY <1>0, <2>1, ObjType DEF Object, InReconcile, At
  <2>3. Obj.ts => RetryDue
    BY <2>1, <2>2 DEF DrainWith, DrainInOrder, At
  <2>4. ~Obj.ts => Obj.fin
    BY <2>1, <2>2 DEF DrainWith, LetGoIsSeen, Unseen
  <2> QED BY <2>1, <2>2, <2>3, <2>4 DEF DrainWith, LetGoIsSeen
<1>2. CASE ForceKill
  <2>1. InReconcile /\ (UNCHANGED engine \/ (IsOpen(Obj.wid) /\ CancelOpen))
    BY <1>2 DEF ForceKill, InReconcile, At
  <2>2. CASE UNCHANGED engine
    BY <2>2 DEF engine, IsOpen
  <2>3. CASE IsOpen(Obj.wid) /\ CancelOpen
    <3>1. /\ last' = last /\ wf' = [wf EXCEPT ![Obj.wid] = "canceling"] /\ Open(wf[Obj.wid])
      BY <2>3 DEF CancelOpen, IsOpen
    <3>2. last # 0 => last \in 1..MaxRuns
      BY <1>0, WfType DEF TypeOK
    <3>3. last # 0 /\ last # Obj.wid => wf'[last] = wf[last]
      BY <1>0, <3>1, <3>2 DEF TypeOK
    <3> QED BY <3>1, <3>3 DEF IsOpen
  <2> QED BY <2>1, <2>2, <2>3
<1>3. CASE \E r \in 1..MaxRuns : Closes(r)
  <2>1. PICK r \in 1..MaxRuns, x \in {"completed", "failed", "canceled"} :
          wf' = [wf EXCEPT ![r] = x] /\ last' = last
    BY <1>3 DEF Closes
  <2>2. last # 0 => last \in 1..MaxRuns
    BY <1>0, WfType DEF TypeOK
  <2> QED BY <1>0, <2>1, <2>2 DEF TypeOK, IsOpen, Open
<1>4. CASE ~(Actors \/ ForceKill \/ \E r \in 1..MaxRuns : Closes(r))
  <2>1. UNCHANGED engine
    BY <1>4 DEF Next, Controller, Users, Reconcile, LookupFails, Begin, EnsureDrainFinalizer,
       UpdateStatus, MarkImmutableIfExpired, Conflict, RequestCancel, MarkKilled, CompleteDrain,
       Kill, Retry, Delete, CacheSync, Crash, DrainTimeout, vars, engine
  <2> QED BY <2>1 DEF engine, IsOpen
<1> QED BY <1>1, <1>2, <1>3, <1>4

\* A run is marked immutable only after it was put under the drain finalizer, or deleted.
MarkedLate == run.imm => run.fin \/ run.ts

LEMMA ImmutableComesLate == Spec => []MarkedLate
<1>1. Init => MarkedLate
  BY DEF Init, NewRun, MarkedLate
<1>2. TypeOK /\ InOrder /\ Kept /\ MarkedLate /\ [Next]_vars => MarkedLate'
  <2> SUFFICES ASSUME TypeOK, InOrder, Kept, MarkedLate, [Next]_vars
               PROVE  MarkedLate'
    OBVIOUS
  <2>0. run \in Object
    BY DEF TypeOK
  <2>1. CASE UpdateStatus
    <3>1. Fresh /\ At("persist") /\ Obj \in Object /\ run' = [Obj EXCEPT !.kill = run.kill]
      BY <2>1, ObjType DEF UpdateStatus, Update, InReconcile, At, Fresh
    <3>2. run.fin \/ run.ts
      BY <3>1 DEF InOrder, WorkHasFinalizer, Fresh, At
    <3>3. Obj.fin = run.fin /\ Obj.ts = run.ts
      BY <3>1 DEF InOrder, CopiesInOrder, Fresh
    <3> QED BY <3>1, <3>2, <3>3 DEF MarkedLate, Object
  <2>2. CASE MarkImmutableIfExpired
    <3>1. InReconcile /\ At("expire") /\ run' \in {run, [run EXCEPT !.imm = TRUE]}
      BY <2>2 DEF MarkImmutableIfExpired, Update, store, InReconcile, At
    <3>2. run.fin \/ run.ts
      BY <3>1 DEF InOrder, WorkHasFinalizer, At
    <3> QED BY <2>0, <3>1, <3>2 DEF MarkedLate, Object
  <2>3. CASE CompleteDrain
    <3>1. /\ Fresh /\ At("finish")
          /\ run' = [run EXCEPT !.imm = TRUE, !.counted = FALSE, !.fin = FALSE]
      BY <2>3 DEF CompleteDrain, Update, InReconcile, At, Fresh
    <3>2. run.ts
      BY <3>1 DEF InOrder, CopiesInOrder, WorkHasFinalizer, Fresh, At
    <3> QED BY <2>0, <3>1, <3>2 DEF MarkedLate, Object
  <2>4. CASE EnsureDrainFinalizer \/ RequestCancel \/ MarkKilled \/ Users
    <3>1. \/ run' = [run EXCEPT !.fin = TRUE] \/ run' = [run EXCEPT !.kill = TRUE, !.counted = TRUE]
          \/ run' = [run EXCEPT !.state = "killed"] \/ run' = [run EXCEPT !.kill = TRUE]
          \/ run' = [run EXCEPT !.retry = run.wid] \/ run' = [run EXCEPT !.ts = TRUE]
      BY <2>4 DEF EnsureDrainFinalizer, RequestCancel, MarkKilled, Users, Kill, Retry, Delete, Update, Write
    <3> QED BY <2>0, <3>1 DEF MarkedLate, Object
  <2>5. CASE ~(\/ UpdateStatus \/ MarkImmutableIfExpired \/ CompleteDrain \/ EnsureDrainFinalizer
              \/ RequestCancel \/ MarkKilled \/ Users)
    <3>1. run' = run
      <4>1. CASE Actors
        BY <4>1, ActorFrame DEF store
      <4>2. CASE ~Actors
        BY <2>5, <4>2 DEF Next, Controller, Reconcile, LookupFails, Begin, Conflict, ForceKill, CacheSync,
           Crash, DrainTimeout, Closes, store, vars
      <4> QED BY <4>1, <4>2
    <3> QED BY <3>1 DEF MarkedLate
  <2> QED BY <2>1, <2>2, <2>3, <2>4, <2>5
<1> QED BY <1>1, <1>2, TypeCorrect, CopiesStayInOrder, RunStaysKept, PTL DEF Spec

\* What garbage collection and the gauge see of a run stays as it is.
DrainFlags ==
    /\ run'.fin = run.fin /\ run'.ts = run.ts /\ run'.imm = run.imm
    /\ run'.counted = run.counted
    /\ expired' = expired

LEMMA FlagsStay ==
    ASSUME DrainWith, [Next]_vars, DrainFlags
    PROVE  Child!Work
<1>1. FoundOver' \in BOOLEAN /\ IsOpen(last)' \in BOOLEAN
  BY DEF FoundOver, Terminal, IsOpen, Open
<1>2. ~IsOpen(last) /\ IsOpen(last)' => run.fin
  BY OpensUnderFinalizer
<1>3. run.fin \in BOOLEAN /\ IsOpen(last) \in BOOLEAN
  BY DEF DrainWith, KeptWith, TypeOK, Object, IsOpen, Open
<1> QED BY <1>1, <1>2, <1>3 DEF Child!Work, DrainFlags

\* The engine and the state a reconcile finds stay as they are.
LEMMA FoundStays ==
    ASSUME UNCHANGED engine, run'.state = run.state, run'.wid = run.wid
    PROVE  FoundOver' = FoundOver /\ IsOpen(last)' = IsOpen(last)
<1>1. wf' = wf /\ last' = last
  BY DEF engine
<1> QED BY <1>1 DEF FoundOver, Terminal, IsOpen, Open

LEMMA StoresImplement ==
    ASSUME DrainWith, MarkedLate, [Next]_vars,
           EnsureDrainFinalizer \/ RequestCancel \/ CompleteDrain
    PROVE  Child!Next
<1> USE DEF DrainWith, KeptWith
<1>0. /\ run \in Object /\ Fresh /\ UNCHANGED engine /\ expired' = expired
      /\ Obj.fin = run.fin /\ Obj.ts = run.ts
  BY DEF TypeOK, EnsureDrainFinalizer, RequestCancel, CompleteDrain, Update, Fresh, InReconcile, At,
     InOrder, CopiesInOrder, world
<1>1. CASE EnsureDrainFinalizer
  <2>1. ~run.fin /\ ~run.ts /\ ~run.imm /\ run' = [run EXCEPT !.fin = TRUE]
    BY <1>0, <1>1 DEF EnsureDrainFinalizer, Update, InOrder, WorkHasFinalizer, MarkedLate
  <2>2. /\ run'.fin /\ run'.ts = run.ts /\ run'.imm = run.imm /\ run'.counted = run.counted
        /\ run'.state = run.state /\ run'.wid = run.wid
    BY <1>0, <2>1 DEF Object
  <2> QED BY <1>0, <2>1, <2>2, FoundStays DEF Child!EnsureDrainFinalizer, Child!Next
<1>2. CASE RequestCancel
  <2>1. /\ run.ts /\ run.fin /\ ~run.counted
        /\ run' = [run EXCEPT !.kill = TRUE, !.counted = TRUE]
    BY <1>0, <1>2 DEF RequestCancel, Update, InOrder, WorkHasFinalizer, DrainInOrder, Fresh, At
  <2>2. /\ run'.counted /\ run'.ts = run.ts /\ run'.fin = run.fin /\ run'.imm = run.imm
        /\ run'.state = run.state /\ run'.wid = run.wid
    BY <1>0, <2>1 DEF Object
  <2> QED BY <1>0, <2>1, <2>2, FoundStays DEF Child!RequestCancel, Child!Next
<1>3. CASE CompleteDrain
  <2>1. /\ run.ts /\ run.fin /\ (FoundOver \/ expired)
        /\ run' = [run EXCEPT !.imm = TRUE, !.counted = FALSE, !.fin = FALSE]
    BY <1>0, <1>3 DEF CompleteDrain, Update, InOrder, WorkHasFinalizer, DrainInOrder, Fresh, At
  <2>2. /\ run'.fin = FALSE /\ run'.counted = FALSE /\ run'.imm = TRUE /\ run'.ts = run.ts
        /\ run'.state = run.state /\ run'.wid = run.wid
    BY <1>0, <2>1 DEF Object
  <2> QED BY <1>0, <2>1, <2>2, FoundStays DEF Child!CompleteDrain, Child!Next
<1> QED BY <1>1, <1>2, <1>3

LEMMA WritesImplement ==
    ASSUME DrainWith, [Next]_vars, Users \/ DrainTimeout
    PROVE  Child!Next
<1>0. run \in Object
  BY DEF DrainWith, KeptWith, TypeOK
<1>1. CASE Delete
  <2>1. /\ run' = [run EXCEPT !.ts = TRUE] /\ ~run.ts
        /\ UNCHANGED engine /\ expired' = expired
    BY <1>1 DEF Delete, Write, world
  <2>2. /\ run'.ts /\ run'.fin = run.fin /\ run'.imm = run.imm /\ run'.counted = run.counted
        /\ run'.state = run.state /\ run'.wid = run.wid
    BY <1>0, <2>1 DEF Object
  <2> QED BY <2>1, <2>2, FoundStays DEF Child!Delete, Child!Next
<1>2. CASE DrainTimeout
  <2>1. run' = run /\ UNCHANGED engine /\ run.ts /\ ~expired /\ expired'
    BY <1>2 DEF DrainTimeout, store
  <2> QED BY <1>2, <2>1, FoundStays DEF DrainTimeout, Child!Timeout, Child!Next
<1>3. CASE Kill \/ Retry
  <2>1. /\ run' = [run EXCEPT !.kill = TRUE] \/ run' = [run EXCEPT !.retry = run.wid]
        /\ expired' = expired
    BY <1>3 DEF Kill, Retry, Write, world
  <2> QED BY <1>0, <2>1, FlagsStay DEF Object, DrainFlags, Child!Next
<1> QED BY <1>1, <1>2, <1>3 DEF Users

LEMMA RestImplements ==
    ASSUME DrainWith, [Next]_vars,
           ~(EnsureDrainFinalizer \/ RequestCancel \/ CompleteDrain \/ Users \/ DrainTimeout)
    PROVE  Child!Next
<1> USE DEF DrainWith, KeptWith
<1>0. run \in Object
  BY DEF TypeOK
<1>1. CASE UpdateStatus
  <2>1. /\ InReconcile /\ Obj \in Object /\ Fresh /\ expired' = expired
        /\ run' = [Obj EXCEPT !.kill = run.kill]
    BY <1>1, ObjType DEF UpdateStatus, Update, InReconcile, At, Fresh, world
  <2>2. Obj.fin = run.fin /\ Obj.ts = run.ts /\ Obj.imm = run.imm /\ Obj.counted = run.counted
    BY <2>1 DEF InOrder, CopiesInOrder, DrainInOrder, Kept, FreshAgrees, FreshCopy, Fresh
  <2>3. DrainFlags
    BY <2>1, <2>2 DEF Object, DrainFlags
  <2> QED BY <2>3, FlagsStay DEF Child!Next
<1>2. CASE MarkKilled
  <2>1. run' = [run EXCEPT !.state = "killed"] /\ expired' = expired
    BY <1>2 DEF MarkKilled, Update, world
  <2>2. DrainFlags
    BY <1>0, <2>1 DEF Object, DrainFlags
  <2> QED BY <2>2, FlagsStay DEF Child!Next
<1>4. CASE MarkImmutableIfExpired /\ run' = [run EXCEPT !.imm = TRUE] /\ ~Obj.imm /\ Fresh
  <2>1. UNCHANGED engine /\ expired' = expired /\ At("expire")
    BY <1>4 DEF MarkImmutableIfExpired, world
  <2>2. Terminal(run) /\ ~Obj.ts /\ Obj.imm = run.imm /\ Obj.ts = run.ts
    BY <1>4, <2>1 DEF Kept, FreshAgrees, FreshCopy, InOrder, CopiesInOrder, Fresh
  <2>3. /\ run'.imm /\ run'.fin = run.fin /\ run'.ts = run.ts /\ run'.counted = run.counted
        /\ run'.state = run.state /\ run'.wid = run.wid
    BY <1>0, <1>4 DEF Object
  <2>4. ~run.imm /\ ~run.ts /\ FoundOver
    BY <1>4, <2>2 DEF FoundOver
  <2> QED BY <2>1, <2>3, <2>4, FoundStays DEF Child!MarkImmutable, Child!Next
<1>5. CASE MarkImmutableIfExpired /\ run' = run
  <2>1. DrainFlags
    BY <1>5 DEF MarkImmutableIfExpired, DrainFlags, world
  <2> QED BY <2>1, FlagsStay DEF Child!Next
<1>3. CASE ~(UpdateStatus \/ MarkKilled \/ MarkImmutableIfExpired)
  <2>1. run' = run /\ expired' = expired
    <3>1. CASE Actors
      BY <3>1, ActorFrame DEF store, world
    <3>2. CASE ~Actors
      BY <1>3, <3>2 DEF Next, Controller, Reconcile, LookupFails, Begin, Conflict, ForceKill, CacheSync,
         Crash, Closes, store, world, vars
    <3> QED BY <3>1, <3>2
  <2>2. DrainFlags
    BY <2>1 DEF DrainFlags
  <2> QED BY <2>2, FlagsStay DEF Child!Next
<1>6. MarkImmutableIfExpired =>
        run' = run \/ (run' = [run EXCEPT !.imm = TRUE] /\ ~Obj.imm /\ Fresh)
  BY DEF MarkImmutableIfExpired, Update, store, Fresh, InReconcile, At
<1> QED BY <1>1, <1>2, <1>3, <1>4, <1>5, <1>6

\* A run implements the abstract drain: no finalizer comes late or goes early, nobody
\* starts, or resets, the workflow of a run that was let go of, and the drain is counted
\* once, however old the copies of its reconciles are.
THEOREM RunDrains == Spec => IsDrained
<1>1. Init => Child!Init
  <2> SUFFICES ASSUME Init
               PROVE  Child!Init
    OBVIOUS
  <2>1. /\ run.fin = FALSE /\ run.ts = FALSE /\ run.imm = FALSE
        /\ run.counted = FALSE /\ run.state = "none"
        /\ last = 0 /\ expired = FALSE
    BY DEF Init, NewRun
  <2> QED BY <2>1 DEF Child!Init, FoundOver, Terminal, IsOpen
<1>2. DrainWith /\ MarkedLate /\ [Next]_vars => [Child!Next]_(Child!vars)
  BY StoresImplement, WritesImplement, RestImplements
<1>3. DrainWith <=> TypeOK /\ InOrder /\ SuccessIsKnown /\ Kept /\ DrainInOrder /\ LetGoIsSeen
  BY DEF DrainWith, KeptWith
<1> QED
  BY <1>1, <1>2, <1>3, TypeCorrect, CopiesStayInOrder, SuccessStaysKnown, RunStaysKept,
     DrainStaysInOrder, ImmutableComesLate, PTL DEF Spec, IsDrained, Child!Spec

\* Hence a run bears the token of the gauge of active drains only in its drain: none is let go
\* of that is still counted.
THEOREM RunCountedInDrain == Spec => []Child!CountedInDrain
<1>1. Child!Init => Child!CountedInDrain
  BY DEF Child!Init, Child!CountedInDrain
<1>2. Child!CountedInDrain /\ [Child!Next]_(Child!vars) => Child!CountedInDrain'
  BY DEF Child!CountedInDrain, Child!Next, Child!vars, Child!EnsureDrainFinalizer, Child!Work,
     Child!MarkImmutable, Child!Delete, Child!Timeout, Child!RequestCancel, Child!CompleteDrain
<1> QED BY <1>1, <1>2, RunDrains, PTL DEF IsDrained, Child!Spec

\* A run is let go of, and marked for eviction, only when the reconcile that stores it finds it over,
\* as stored or by the lookup, or when its 24 hours have passed.
THEOREM RunLetGoIsOver == Spec => Child!LetGoIsOver
<1>1. [Child!Next]_(Child!vars) =>
        [(run.fin /\ ~run.fin') \/ (~run.imm /\ run.imm') => FoundOver \/ expired]_(Child!vars)
  BY DEF Child!Next, Child!vars, Child!EnsureDrainFinalizer, Child!Work, Child!MarkImmutable,
     Child!Delete, Child!Timeout, Child!RequestCancel, Child!CompleteDrain
<1> QED BY <1>1, RunDrains, PTL DEF IsDrained, Child!Spec, Child!LetGoIsOver

=============================================================================
