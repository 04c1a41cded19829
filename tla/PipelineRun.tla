---------------------------- MODULE PipelineRun ----------------------------
(***************************************************************************)
(* One PipelineRun: the controller that prepares it, starts, watches,      *)
(* retries and kills its workflow, and drains it when its pipeline is      *)
(* deleted; the informer cache the controller reads; and the executions    *)
(* the workflow engine (Temporal, Cadence) has under the run's name.       *)
(*                                                                         *)
(* A reconcile works on one copy of the object.  Every Update carries the  *)
(* resourceVersion of that copy: it fails if the object was written since, *)
(* and otherwise the copy becomes what is stored.  Calls to the workflow   *)
(* engine have no such check.  An Update leaves the status as it is, and a *)
(* status update leaves the rest.                                          *)
(***************************************************************************)
EXTENDS Naturals

CONSTANTS
    NoRun,
    MaxRuns,    \* bound: executions of the workflow
    MaxFaults,  \* bound: faults of each kind
    Retries     \* whether users ask for manual retries

\* Spec (kill and the execution retryInfo names, 0 for none), metadata (drain
\* finalizer, deletionTimestamp, Immutable and drain-counted annotations), and
\* status (the steps before the workflow's, the WorkflowRunId, the workflow's step
\* and the state).  WorkflowId and WorkflowRunId are always set together.
Object == [kill : BOOLEAN, retry : 0..MaxRuns,
           fin : BOOLEAN, ts : BOOLEAN, imm : BOOLEAN, counted : BOOLEAN,
           prep : {"none", "source", "done", "failed"}, wid : 0..MaxRuns,
           step : {"none", "pending", "running", "succeeded", "failed", "killed"},
           state : {"none", "running", "succeeded", "failed", "killed"}]

Executions == {"none", "running", "canceling", "completed", "failed", "canceled", "terminated"}

FaultKinds == {"crash", "lookup", "call"}

ASSUME RunAssumption ==
    /\ MaxRuns \in Nat \ {0} /\ MaxFaults \in Nat
    /\ Retries \in BOOLEAN
    /\ NoRun \notin Object

VARIABLES
    run,      \* the object in etcd
    cache,    \* the informer's copy
    stale,    \* which copies, the cache's and the reconcile's, are not the latest
    due,      \* the work queue has the run
    ctl,      \* the reconcile in progress: its next call and its copy
    wf,       \* the executions under the run's name
    last,     \* the latest of them
    expired,  \* the drain timeout (24 hours) has passed
    asked,    \* history: the latest execution when the run was last killed
    faults    \* how many of each kind there were

vars == <<run, cache, stale, due, ctl, wf, last, expired, asked, faults>>

store == <<run, cache, stale>>
engine == <<wf, last>>
world == <<expired, asked>>

Pcs == {"ensure", "engine", "cancel", "info", "retried", "persist", "expire",
        "forceKill", "markKilled", "requestCancel", "finish"}

Idle == [pc |-> "idle", obj |-> NoRun]

TypeOK ==
    /\ run \in Object /\ cache \in Object
    /\ stale \subseteq {"cache", "read"}
    /\ due \in BOOLEAN
    /\ ctl \in [pc : Pcs, obj : Object] \cup {Idle}
    /\ wf \in [1..MaxRuns -> Executions]
    /\ last \in 0..MaxRuns
    /\ expired \in BOOLEAN
    /\ asked \in 0..MaxRuns
    /\ faults \in [FaultKinds -> 0..MaxFaults]

NewRun ==
    [kill |-> FALSE, retry |-> 0, fin |-> FALSE, ts |-> FALSE, imm |-> FALSE,
     counted |-> FALSE, prep |-> "none", wid |-> 0, step |-> "none", state |-> "none"]

Init ==
    /\ run = NewRun
    /\ cache = NewRun
    /\ stale = {}
    /\ due = TRUE
    /\ ctl = Idle
    /\ wf = [r \in 1..MaxRuns |-> "none"]
    /\ last = 0
    /\ expired = FALSE
    /\ asked = 0
    /\ faults = [f \in FaultKinds |-> 0]

Fault(f) == faults[f] < MaxFaults /\ faults' = [faults EXCEPT ![f] = @ + 1]

-----------------------------------------------------------------------------
(* Reading and writing the object.                                         *)

At(pc) == ctl.pc = pc
Obj == ctl.obj
GoOn(pc, o) == ctl' = [pc |-> pc, obj |-> o]

\* The reconcile ends; the controller asks to be called again or waits for a
\* change of the object.
End(again) == ctl' = Idle /\ due' = (due \/ again)

\* Someone else writes the object.
Write(o) ==
    /\ run' = o
    /\ stale' = {"cache", "read"}
    /\ UNCHANGED cache

\* The reconcile writes its copy.
Update(o) ==
    /\ "read" \notin stale
    /\ run' = o
    /\ stale' = {"cache"}
    /\ UNCHANGED cache

Terminal(o) == o.state \in {"succeeded", "failed", "killed"}

\* What a drain does next.
DrainEntry(o) ==
    CASE ~o.fin -> "idle"
      [] o.fin /\ Terminal(o) -> "finish"
      [] o.fin /\ ~Terminal(o) /\ expired -> "forceKill"
      [] o.fin /\ ~Terminal(o) /\ ~expired /\ o.wid = 0 -> "markKilled"
      [] o.fin /\ ~Terminal(o) /\ ~expired /\ o.wid # 0 /\ ~o.counted -> "requestCancel"
      [] OTHER -> "engine"

\* Variant: a run is worked on before it has the drain finalizer.
EntryUnguarded(o) == IF o.ts THEN DrainEntry(o) ELSE "engine"

Entry(o) ==
    IF o.ts THEN DrainEntry(o)
    ELSE IF Terminal(o) \/ o.fin THEN "engine" ELSE "ensure"

Open(s) == s \in {"running", "canceling"}
IsOpen(r) == r # 0 /\ Open(wf[r])

\* Variant: what the engine says is the state.
StateAsTold(s) == IF Open(s) THEN "running" ELSE s

StateOf(s) ==
    CASE Open(s) -> "running"
      [] s = "completed" -> "succeeded"
      [] s = "failed" -> "failed"
      [] OTHER -> "killed"

\* A run without its WorkflowRunId is given the latest execution of its name, in
\* the copy only.
Reconstructed(o) == [o EXCEPT !.wid = last, !.state = StateOf(wf[last])]

Begin(o) ==
    /\ At("idle") /\ due
    /\ due' = FALSE
    /\ ctl' = IF Entry(o) = "idle" THEN Idle ELSE [pc |-> Entry(o), obj |-> o]
    /\ stale' = IF "cache" \in stale THEN {"cache", "read"} ELSE {}
    /\ UNCHANGED <<run, cache, engine, world>>

\* Variant: the workflow is not looked up by its name.
ReconcileBlindly == Begin(cache) /\ UNCHANGED faults

Reconcile ==
    /\ Begin(IF cache.wid = 0 /\ last # 0 THEN Reconstructed(cache) ELSE cache)
    /\ UNCHANGED faults

\* The lookup by name fails, and the reconcile goes on.
LookupFails ==
    /\ cache.wid = 0 /\ last # 0
    /\ Begin(cache)
    /\ Fault("lookup")

\* The Update returns the stored status: what was reconstructed is forgotten.
EnsureDrainFinalizer ==
    /\ At("ensure")
    /\ Update([run EXCEPT !.fin = TRUE])
    /\ GoOn("engine", run')
    /\ UNCHANGED <<due, engine, world, faults>>

\* An Update of an old copy is refused.
Conflict ==
    /\ ctl.pc \in {"ensure", "persist", "expire", "markKilled", "requestCancel", "finish"}
    /\ "read" \in stale
    /\ End(~At("expire"))
    /\ UNCHANGED <<store, engine, world, faults>>

-----------------------------------------------------------------------------
(* The condition engine: the actors SourcePipeline, ImageBuild and then    *)
(* ExecuteWorkflow; an error of one makes the run FAILED.                  *)

\* Variant: a run that goes on is looked at when it changes.
ContinueOnChange(o) ==
    IF ~Terminal(o) THEN End(FALSE)
    ELSE GoOn(IF o.ts THEN "finish" ELSE "expire", o) /\ UNCHANGED due

\* After the status is stored: a drained run is let go of, a finished one waits
\* for its TTL, any other is looked at again.
Continue(o) ==
    IF ~Terminal(o) THEN End(TRUE)
    ELSE GoOn(IF o.ts THEN "finish" ELSE "expire", o) /\ UNCHANGED due

\* The status is written if it changed.  A reset execution changed it already.
Result(o) ==
    IF o = Obj /\ ~At("retried") THEN Continue(o) ELSE GoOn("persist", o) /\ UNCHANGED due

ResultState(s) == Result([Obj EXCEPT !.state = s])

EngineError == Fault("call") /\ ResultState("failed")

\* An error of ExecuteWorkflow leaves its step behind.
StepError ==
    Result([Obj EXCEPT !.state = "failed", !.step = IF @ = "none" THEN "pending" ELSE @])

SourcePipeline ==
    /\ At("engine") /\ Obj.prep = "none"
    /\ Result([Obj EXCEPT !.prep = "source", !.state = "running"])
    /\ UNCHANGED <<store, engine, world, faults>>

SourcePipelineFails ==
    /\ At("engine") /\ Obj.prep = "none"
    /\ EngineError
    /\ UNCHANGED <<store, engine, world>>

ImageBuild ==
    /\ At("engine") /\ Obj.prep = "source"
    /\ \/ Result([Obj EXCEPT !.prep = "done", !.state = "running"])
       \/ Result([Obj EXCEPT !.prep = "failed", !.state = "failed"])   \* no image
    /\ UNCHANGED <<store, engine, world, faults>>

\* A run without an image fails again, with another end time: the status is stored
\* whenever the run is looked at.
ImageMissing ==
    /\ At("engine") /\ Obj.prep = "failed"
    /\ GoOn("persist", [Obj EXCEPT !.state = "failed"])
    /\ UNCHANGED <<due, store, engine, world, faults>>

\* The actor ExecuteWorkflow.
Executing == At("engine") /\ Obj.prep = "done"

RetryDue == Obj.retry # 0 /\ Obj.retry = Obj.wid

Satisfied ==
    /\ Executing /\ ~RetryDue /\ Obj.step = "succeeded"
    /\ ResultState("succeeded")
    /\ UNCHANGED <<store, engine, world, faults>>

StepIsOver ==
    /\ Executing /\ ~RetryDue /\ Obj.step \in {"failed", "killed"}
    /\ ResultState(Obj.step)
    /\ UNCHANGED <<store, engine, world, faults>>

\* A reset ends the execution that is open and starts another.
Reset ==
    /\ last < MaxRuns
    /\ last' = last + 1
    /\ wf' = [r \in 1..MaxRuns |->
                IF r = last + 1 THEN "running"
                ELSE IF Open(wf[r]) THEN "terminated" ELSE wf[r]]

\* Variant: the step of the execution that was reset is kept.
RetryKeepsStep ==
    /\ Executing /\ RetryDue
    /\ Reset
    /\ GoOn("retried", [Obj EXCEPT !.wid = last + 1, !.state = "running", !.kill = FALSE])
    /\ UNCHANGED <<due, store, world, faults>>

\* processManualRetrySpec clears kill in the copy.
ManualRetry ==
    /\ Executing /\ RetryDue
    /\ Reset
    /\ GoOn("retried", [Obj EXCEPT !.wid = last + 1, !.state = "running", !.kill = FALSE,
                                   !.step = IF @ \in {"none", "pending"} THEN @ ELSE "running"])
    /\ UNCHANGED <<due, store, world, faults>>

\* The execution has no such activity, or there is nothing to reset it to.
RetryRefused ==
    /\ Executing /\ RetryDue
    /\ ResultState("failed")
    /\ UNCHANGED <<store, engine, world, faults>>

RetryFails ==
    /\ Executing /\ RetryDue
    /\ Reset
    /\ EngineError
    /\ UNCHANGED <<store, world>>

Active == Executing /\ ~RetryDue /\ Obj.step \in {"none", "pending", "running"}

\* Variant: an execution that was told to stop is not told again.
TerminateRunning ==
    /\ Active /\ Obj.kill /\ Obj.wid # 0
    /\ GoOn(IF wf[Obj.wid] = "running" THEN "cancel" ELSE "info", Obj)
    /\ UNCHANGED <<due, store, engine, world, faults>>

\* processJobTermination asks for the execution's status first; a failure of that
\* is not an error.
Terminate ==
    /\ Active /\ Obj.kill /\ Obj.wid # 0
    /\ \/ wf[Obj.wid] \notin {"completed", "terminated"} /\ GoOn("cancel", Obj) /\ UNCHANGED faults
       \/ wf[Obj.wid] \in {"completed", "terminated"} /\ GoOn("info", Obj) /\ UNCHANGED faults
       \/ GoOn("info", Obj) /\ Fault("call")
    /\ UNCHANGED <<due, store, engine, world>>

Killed == [Obj EXCEPT !.step = "killed", !.state = "killed"]

CancelOpen == wf' = [wf EXCEPT ![Obj.wid] = "canceling"] /\ UNCHANGED last

\* Variant: the step is closed, and the engine is not asked.
KillWithoutCancel ==
    /\ At("cancel")
    /\ Result(Killed)
    /\ UNCHANGED <<store, engine, world, faults>>

\* A cancellation is a request; the run does not wait for the answer.  To cancel
\* an execution that is closed is an error.
CancelWorkflow ==
    /\ At("cancel")
    /\ \/ IsOpen(Obj.wid) /\ CancelOpen /\ Result(Killed)
       \/ ~IsOpen(Obj.wid) /\ UNCHANGED engine /\ StepError
    /\ UNCHANGED <<store, world, faults>>

CancelFails ==
    /\ At("cancel")
    /\ (IsOpen(Obj.wid) /\ CancelOpen) \/ UNCHANGED engine
    /\ Fault("call") /\ StepError
    /\ UNCHANGED <<store, world>>

\* StartWorkflow under the name of the run: an open execution is returned, and a
\* closed one is followed by another.
Start(r) ==
    \/ /\ IsOpen(last)
       /\ r = last
       /\ UNCHANGED engine
    \/ /\ ~IsOpen(last)
       /\ last < MaxRuns
       /\ r = last + 1
       /\ last' = r
       /\ wf' = [wf EXCEPT ![r] = "running"]

Starting == Active /\ Obj.wid = 0

\* A run that is killed before its workflow starts is started all the same.
StartWorkflow ==
    /\ Starting
    /\ \E r \in 1..MaxRuns :
        /\ Start(r)
        /\ Result([Obj EXCEPT !.wid = r, !.step = "running", !.state = "running"])
    /\ UNCHANGED <<store, world, faults>>

StartFails ==
    /\ Starting
    /\ UNCHANGED engine \/ \E r \in 1..MaxRuns : Start(r)
    /\ Fault("call") /\ StepError
    /\ UNCHANGED <<store, world>>

Watching == At("info") \/ At("retried") \/ (Active /\ Obj.wid # 0 /\ ~Obj.kill)

StepOf(s) == IF Open(s) THEN "running" ELSE StateOf(s)

\* Success of the workflow shows in the step first, and in the state when the
\* actors are asked again.
WatchWorkflow ==
    /\ Watching
    /\ LET step == StepOf(wf[Obj.wid])
           o == [Obj EXCEPT !.step = step,
                            !.state = IF step = "succeeded" THEN "running" ELSE step]
       IN  Result(o) \/ (GoOn("persist", o) /\ UNCHANGED due)   \* tasks made progress
    /\ UNCHANGED <<store, engine, world, faults>>

WatchFails ==
    /\ Watching
    /\ Fault("call") /\ StepError
    /\ UNCHANGED <<store, engine, world>>

-----------------------------------------------------------------------------
(* The rest of the reconcile.                                              *)

\* The status is stored, and kill is again what it is in etcd.
UpdateStatus ==
    /\ At("persist")
    /\ Update([Obj EXCEPT !.kill = run.kill])
    /\ Continue(run')
    /\ UNCHANGED <<engine, world, faults>>

\* A finished run becomes immutable once its TTL is over.
MarkImmutableIfExpired ==
    /\ At("expire")
    /\ \/ ~Obj.imm /\ Update([run EXCEPT !.imm = TRUE]) /\ End(FALSE)
       \/ UNCHANGED store /\ End(~Obj.imm)
    /\ UNCHANGED <<engine, world, faults>>

\* Variant: the update does not record that the drain began.
RequestCancelUncounted ==
    /\ At("requestCancel")
    /\ Update([run EXCEPT !.kill = TRUE])
    /\ End(TRUE)
    /\ asked' = last
    /\ UNCHANGED <<engine, expired, faults>>

RequestCancel ==
    /\ At("requestCancel")
    /\ Update([run EXCEPT !.kill = TRUE, !.counted = TRUE])
    /\ End(TRUE)
    /\ asked' = last
    /\ UNCHANGED <<engine, expired, faults>>

MarkKilled ==
    /\ At("markKilled")
    /\ Update([run EXCEPT !.state = "killed"])
    /\ GoOn("finish", run')
    /\ UNCHANGED <<due, engine, world, faults>>

\* The drain timeout: a last cancellation, whose errors do not count.
ForceKill ==
    /\ At("forceKill")
    /\ \/ IsOpen(Obj.wid) /\ CancelOpen /\ UNCHANGED faults
       \/ ~IsOpen(Obj.wid) /\ UNCHANGED <<engine, faults>>
       \/ UNCHANGED engine /\ Fault("call")
    /\ GoOn("finish", Obj)
    /\ UNCHANGED <<due, store, world>>

CompleteDrain ==
    /\ At("finish")
    /\ Update([run EXCEPT !.imm = TRUE, !.counted = FALSE, !.fin = FALSE])
    /\ End(FALSE)
    /\ UNCHANGED <<engine, world, faults>>

-----------------------------------------------------------------------------
(* The rest of the world.                                                  *)

\* The informer delivers the latest object and the work queue takes it up.
CacheSync ==
    /\ "cache" \in stale
    /\ cache' = run
    /\ stale' = stale \ {"cache"}
    /\ due' = TRUE
    /\ UNCHANGED <<run, ctl, engine, world, faults>>

\* A restart lists every object again.
Crash ==
    /\ cache' = run
    /\ stale' = {}
    /\ due' = TRUE
    /\ ctl' = Idle
    /\ Fault("crash")
    /\ UNCHANGED <<run, engine, world>>

Drained == run.ts /\ ~run.fin

Kill ==
    /\ ~run.kill /\ ~Drained
    /\ Write([run EXCEPT !.kill = TRUE])
    /\ asked' = last
    /\ UNCHANGED <<due, ctl, engine, expired, faults>>

\* A user retries the execution the run shows.
Retry ==
    /\ Retries
    /\ run.wid # 0 /\ run.retry # run.wid /\ ~Drained
    /\ Write([run EXCEPT !.retry = run.wid])
    /\ UNCHANGED <<due, ctl, engine, world, faults>>

\* The pipeline is deleted, and its runs with it.
Delete ==
    /\ ~run.ts
    /\ Write([run EXCEPT !.ts = TRUE])
    /\ UNCHANGED <<due, ctl, engine, world, faults>>

DrainTimeout ==
    /\ run.ts /\ ~expired
    /\ expired' = TRUE
    /\ UNCHANGED <<store, due, ctl, engine, asked, faults>>

Closes(r) ==
    /\ Open(wf[r])
    /\ \E s \in {"completed", "failed", "canceled"} :
        /\ s = "canceled" => wf[r] = "canceling"
        /\ wf' = [wf EXCEPT ![r] = s]
    /\ UNCHANGED <<store, due, ctl, last, world, faults>>

-----------------------------------------------------------------------------
Actors ==
    \/ SourcePipeline \/ SourcePipelineFails \/ ImageBuild \/ ImageMissing
    \/ Satisfied \/ StepIsOver
    \/ ManualRetry \/ RetryRefused \/ RetryFails
    \/ Terminate \/ CancelWorkflow \/ CancelFails
    \/ StartWorkflow \/ StartFails
    \/ WatchWorkflow \/ WatchFails

Controller ==
    \/ Reconcile \/ LookupFails
    \/ EnsureDrainFinalizer \/ UpdateStatus \/ MarkImmutableIfExpired \/ Conflict
    \/ RequestCancel \/ MarkKilled \/ ForceKill \/ CompleteDrain

Users == Kill \/ Retry \/ Delete

Next ==
    \/ Controller \/ Actors \/ Users
    \/ CacheSync \/ Crash \/ DrainTimeout
    \/ \E r \in 1..MaxRuns : Closes(r)

Spec == Init /\ [][Next]_vars

\* The work queue hands out what it has, every call of a reconcile returns, and the
\* informer delivers.  Nothing is assumed of users, of workflows and of the clock.
Fairness ==
    /\ WF_vars(Reconcile) /\ WF_vars(CacheSync)
    /\ WF_vars(EnsureDrainFinalizer) /\ WF_vars(UpdateStatus) /\ WF_vars(Conflict)
    /\ WF_vars(MarkImmutableIfExpired)
    /\ WF_vars(RequestCancel) /\ WF_vars(MarkKilled) /\ WF_vars(ForceKill) /\ WF_vars(CompleteDrain)
    /\ WF_vars(SourcePipeline) /\ WF_vars(ImageBuild) /\ WF_vars(ImageMissing) /\ WF_vars(Satisfied) /\ WF_vars(StepIsOver)
    /\ WF_vars(ManualRetry \/ RetryRefused) /\ WF_vars(Terminate) /\ WF_vars(CancelWorkflow)
    /\ WF_vars(StartWorkflow) /\ WF_vars(WatchWorkflow)

FairSpec == Spec /\ Fairness

-----------------------------------------------------------------------------
(* What holds.                                                             *)

\* An execution that runs and was not told to stop.
Runs(r) == r # 0 /\ wf[r] = "running"

EngineAnswered == faults["lookup"] = 0 /\ faults["call"] = 0

\* However often the manager restarts, a run is let go of (it is drained, or
\* immutable and so evicted from etcd) only when its workflow is over or told to
\* stop, if the workflow engine answers and nobody retries.
LetGoLeavesNoWorkflow ==
    (Drained \/ run.imm) /\ EngineAnswered /\ run.retry = 0 => ~Runs(last)

\* The same of a run shown as KILLED, and although calls of the engine fail: neither a
\* cancellation that failed nor a start that was not recorded is taken for a kill.
KilledRunsNothing ==
    run.state = "killed" /\ faults["lookup"] = 0 /\ run.retry = 0 => ~Runs(last)

\* The workflow is started once, although its WorkflowRunId is stored after the
\* start and may be lost: the lookup by name finds it again.
StartedOnce == faults["lookup"] = 0 /\ run.retry = 0 => last <= 1

\* SUCCEEDED is said of a run only when the execution it shows completed.
SucceededIsCompleted ==
    run.state = "succeeded" => run.wid # 0 /\ wf[run.wid] = "completed"

\* Why the last two hold.  There are three copies of the object: run, cache and, in a
\* reconcile, Obj.
InReconcile == ~At("idle")

\* Executions are numbered as they start.
ExecutionsInOrder == \A r \in 1..MaxRuns : r > last <=> wf[r] = "none"

\* A copy that speaks of success names an execution that completed.
KnowsSuccess(o) ==
    o.step = "succeeded" \/ o.state = "succeeded" => o.wid # 0 /\ wf[o.wid] = "completed"

SuccessIsKnown ==
    /\ KnowsSuccess(run) /\ KnowsSuccess(cache) /\ (InReconcile => KnowsSuccess(Obj))
    /\ ctl.pc \in {"cancel", "info", "retried"} => Obj.wid # 0

\* What a copy says of deletion, of retries and of the drain finalizer was stored.
Earlier(o) ==
    /\ o.ts => run.ts
    /\ o.retry # 0 => run.retry # 0
    /\ o.fin \/ o.state # "none" => run.fin \/ run.ts

CopiesInOrder ==
    /\ Earlier(run) /\ Earlier(cache) /\ (InReconcile => Earlier(Obj))
    /\ "cache" \notin stale => cache = run
    /\ InReconcile /\ "read" \notin stale =>
         Obj.fin = run.fin /\ Obj.ts = run.ts /\ Obj.retry = run.retry

\* The drain finalizer comes before the workflow and goes with a drain only.
WorkHasFinalizer ==
    /\ last # 0 => run.fin \/ run.ts
    /\ InReconcile /\ ~At("ensure") => run.fin \/ run.ts
    /\ At("ensure") => ~Obj.fin /\ ~Obj.ts
    /\ ctl.pc \in {"forceKill", "markKilled", "requestCancel", "finish"} => Obj.ts

\* The workflow is found again.
FoundAgain ==
    faults["lookup"] = 0 =>
        /\ At("engine") /\ Obj.wid = 0 => last = 0
        /\ run.retry = 0 => last <= 1

\* A copy that shows the run, or its step, as killed, shows it of the execution there is,
\* or of none that an undeleted copy could start.
Shown(o) == o.state = "killed" \/ o.step = "killed"

Settled(o) ==
    /\ o.wid # 0 => o.wid = last
    /\ o.step = "killed" => o.wid # 0
    /\ Shown(o) => ~Runs(last)
    /\ o.state = "killed" /\ last = 0 => cache.ts

KillsSettled ==
    faults["lookup"] = 0 /\ run.retry = 0 =>
        /\ Settled(run) /\ Settled(cache) /\ (InReconcile => Settled(Obj))
        /\ InReconcile /\ Obj.ts => cache.ts
        /\ At("engine") /\ Obj.ts => Obj.wid # 0
        /\ At("markKilled") => last = 0
        /\ At("engine") /\ Obj.wid = 0 => ~Shown(run) /\ ~Shown(cache) /\ ~Shown(Obj)

\* Somebody will look at the run: the work queue has it, a reconcile works on it, or
\* the informer has news of it.
Awaited == due \/ InReconcile \/ "cache" \in stale

\* However calls fail, updates conflict and the manager restarts, a run is not forgotten:
\* it is awaited until it is drained, or over and immutable.
NotForgotten == Awaited \/ Drained \/ (Terminal(run) /\ run.imm /\ ~run.ts)

\* The state a reconcile finds, with the WorkflowRunId reconstructed or without.
FoundOver == Terminal(run) \/ (run.wid = 0 /\ last # 0 /\ ~Open(wf[last]))

Child == INSTANCE Drain WITH
    fin <- run.fin, ts <- run.ts, imm <- run.imm, counted <- run.counted,
    over <- FoundOver, working <- IsOpen(last), expired <- expired

\* Seen by garbage collection and by the gauge of active drains, a run is a child that is
\* drained as cascadedelete promises.  In particular no reconcile, however old its copy,
\* starts or resets the workflow of a run that was let go of.
IsDrained == Child!Spec

\* A drain ends, whatever the engine answers.
DrainEnds == (run.ts /\ run.fin) ~> Drained

\* A killed run ends.
KillEnds == run.kill ~> (Terminal(run) \/ Drained)

\* A run whose execution is over is finished, unless it is retried.
OverIsSeen ==
    \A r \in 1..MaxRuns :
        (run.wid = r /\ wf[r] \notin {"none", "running", "canceling"})
            ~> (Terminal(run) \/ run.wid # r \/ Drained)

-----------------------------------------------------------------------------
(* What the code says of itself and does not do.                           *)

\* "The finalizer is removed once the run reaches a terminal state", and the ingester then
\* retains the final state: short of the timeout, the state of a run that is let go of is
\* terminal.
RetainedIsOver == [][run.fin /\ ~run'.fin => Terminal(run) \/ expired]_vars

\* "Clear kill flag from previous run to prevent immediate termination of new
\* workflow": a retried execution is cancelled only when it is killed itself.
RetriedRunsOn ==
    \A r \in 2..MaxRuns : wf[r] = "canceling" => asked >= r \/ run.ts

=============================================================================
