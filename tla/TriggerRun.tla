----------------------------- MODULE TriggerRun -----------------------------
(***************************************************************************)
(* One TriggerRun: the controller that starts its trigger, brings it up to *)
(* date, pauses, resumes and kills it, and drains it when its pipeline is  *)
(* deleted; the informer cache the controller reads; and what the workflow *)
(* engine has of it.                                                       *)
(*                                                                         *)
(* A cron trigger is a schedule beside the executions it fires on Temporal *)
(* and one workflow that runs again and again on Cadence; a backfill is an *)
(* ordinary workflow on both.  A reconcile works on one copy of the object *)
(* and writes spec and status apart, each write refused if the copy is old.*)
(***************************************************************************)
EXTENDS Naturals

CONSTANTS
    NoTrigger,
    Setups,     \* which engines and which kinds of trigger there are
    MaxCrons,   \* bound: cron expressions
    MaxOrders,  \* bound: writes of users
    MaxFaults   \* bound: faults

Orders == {"none", "kill", "pause", "resume"}

\* Spec (the action, the deprecated kill flag, the cron expression), metadata (drain
\* finalizer, deletionTimestamp, Immutable and drain-counted annotations) and status
\* (the state, the cron of ActualTrigger, 0 for none, and whether there is an
\* ExecutionWorkflowId).
Object == [action : Orders, kill : BOOLEAN, cron : 1..MaxCrons,
           fin : BOOLEAN, ts : BOOLEAN, imm : BOOLEAN, counted : BOOLEAN,
           actual : 0..MaxCrons, known : BOOLEAN,
           state : {"invalid", "running", "paused", "succeeded", "failed", "killed"}]

Schedules == [cron : 0..MaxCrons, paused : BOOLEAN]

ASSUME TriggerAssumption ==
    /\ Setups \subseteq [engine : {"temporal", "cadence"}, kind : {"cron", "backfill"}]
    /\ MaxCrons \in Nat \ {0} /\ MaxOrders \in Nat /\ MaxFaults \in Nat
    /\ NoTrigger \notin Object

VARIABLES
    setup,    \* the engine of this installation and the kind of this trigger
    run,      \* the object in etcd
    cache,    \* the informer's copy
    stale,    \* which copies, the cache's and the reconcile's, are not the latest
    due,      \* the work queue has the trigger
    ctl,      \* the reconcile in progress: its next call, its copy, why it kills, and
              \* what it found open
    sched,    \* Temporal's schedule; cron 0: there is none
    exec,     \* the latest execution under the trigger's workflow id
    expired,  \* the drain timeout (24 hours) has passed
    orders,   \* how many writes of users there were
    faults    \* how many restarts, calls that failed and kills that came late

vars == <<setup, run, cache, stale, due, ctl, sched, exec, expired, orders, faults>>

store == <<run, cache, stale>>
engine == <<sched, exec>>
world == <<setup, expired, orders>>

Pcs == {"fin", "imm", "step", "act", "lookup", "delete", "terminate",
        "spec", "status", "mark", "count", "killed", "finish"}

Reasons == {"user", "cancel", "progress", "force"}

Idle == [pc |-> "idle", obj |-> NoTrigger, why |-> "user", rid |-> "none"]

TypeOK ==
    /\ setup \in Setups
    /\ run \in Object /\ cache \in Object
    /\ stale \subseteq {"cache", "read"}
    /\ due \in BOOLEAN
    /\ ctl \in [pc : Pcs, obj : Object, why : Reasons, rid : {"none", "open", "old"}] \cup {Idle}
    /\ sched \in Schedules
    /\ exec \in {"none", "open", "completed", "failed", "terminated"}
    /\ expired \in BOOLEAN
    /\ orders \in 0..MaxOrders
    /\ faults \in 0..MaxFaults

NewTrigger ==
    [action |-> "none", kill |-> FALSE, cron |-> 1,
     fin |-> FALSE, ts |-> FALSE, imm |-> FALSE, counted |-> FALSE,
     actual |-> 0, known |-> FALSE, state |-> "invalid"]

NoSchedule == [cron |-> 0, paused |-> FALSE]

Init ==
    /\ setup \in Setups
    /\ run = NewTrigger
    /\ cache = NewTrigger
    /\ stale = {}
    /\ due = TRUE
    /\ ctl = Idle
    /\ sched = NoSchedule
    /\ exec = "none"
    /\ expired = FALSE
    /\ orders = 0
    /\ faults = 0

Temporal == setup.engine = "temporal"
Cron == setup.kind = "cron"

Fault == faults < MaxFaults /\ faults' = faults + 1

-----------------------------------------------------------------------------
(* Reading and writing the object.                                         *)

At(pc) == ctl.pc = pc
Obj == ctl.obj
GoOn(pc, o) == ctl' = [pc |-> pc, obj |-> o, why |-> "user", rid |-> "none"] /\ UNCHANGED due

\* The reconcile ends and is asked for again, by an error or in a minute.
End(again) == ctl' = Idle /\ due' = (due \/ again)

\* Someone else writes the object.
Write(o) ==
    /\ run' = o
    /\ stale' = {"cache", "read"}
    /\ UNCHANGED cache

\* Variant: the last write wins.
Overwrite(o) ==
    /\ run' = o
    /\ stale' = {"cache"}
    /\ UNCHANGED cache

\* The reconcile writes its copy.
Update(o) ==
    /\ "read" \notin stale
    /\ run' = o
    /\ stale' = {"cache"}
    /\ UNCHANGED cache

Terminal(o) == o.state \in {"succeeded", "failed", "killed"}

WithStatus(o, s) == [o EXCEPT !.state = s.state, !.actual = s.actual, !.known = s.known]

\* What the state machine changed: spec first, then status.
PersistStatus(stored, o) ==
    IF WithStatus(stored, o) = stored THEN End(TRUE) ELSE GoOn("status", o)

Persist(o) ==
    IF o.action # Obj.action \/ o.kill # Obj.kill THEN GoOn("spec", o)
    ELSE PersistStatus(run, o)

\* An error of the engine is shown in the status.
ShowError(o) == GoOn("status", o)

\* What a drain does next: the call, and why it kills.
DrainEntry(o) ==
    CASE ~o.fin -> <<"idle", "user">>
      [] o.fin /\ Terminal(o) -> <<"finish", "user">>
      [] o.fin /\ ~Terminal(o) /\ expired -> <<"lookup", "force">>
      [] o.fin /\ ~Terminal(o) /\ ~expired /\ o.state = "invalid" -> <<"mark", "user">>
      [] o.fin /\ ~Terminal(o) /\ ~expired /\ o.state # "invalid" /\ ~o.counted -> <<"lookup", "cancel">>
      [] OTHER -> <<"lookup", "progress">>

\* Variant: a drain that takes as long as it takes.
EntryPatient(o) ==
    IF o.ts THEN IF ~o.fin THEN <<"idle", "user">> ELSE IF Terminal(o) THEN <<"finish", "user">>
                 ELSE IF ~o.counted THEN <<"lookup", "cancel">> ELSE <<"lookup", "progress">>
    ELSE IF Terminal(o) THEN <<IF o.imm THEN "idle" ELSE "imm", "user">>
    ELSE <<IF o.fin THEN "step" ELSE "fin", "user">>

\* Variant: the state machine comes before the drain.
EntryUnguarded(o) ==
    IF o.ts /\ o.state # "invalid" THEN DrainEntry(o)
    ELSE <<IF Terminal(o) THEN "imm" ELSE "step", "user">>

Entry(o) ==
    IF o.ts THEN DrainEntry(o)
    ELSE IF Terminal(o) THEN <<IF o.imm THEN "idle" ELSE "imm", "user">>
    ELSE <<IF o.fin THEN "step" ELSE "fin", "user">>

Reconcile ==
    /\ At("idle") /\ due
    /\ due' = FALSE
    /\ ctl' = IF Entry(cache)[1] = "idle" THEN Idle
              ELSE [pc |-> Entry(cache)[1], obj |-> cache, why |-> Entry(cache)[2], rid |-> "none"]
    /\ stale' = IF "cache" \in stale THEN {"cache", "read"} ELSE {}
    /\ UNCHANGED <<run, cache, engine, world, faults>>

EnsureDrainFinalizer ==
    /\ At("fin")
    /\ Update([run EXCEPT !.fin = TRUE])
    /\ GoOn("step", run')
    /\ UNCHANGED <<engine, world, faults>>

\* A trigger that is over is not looked at again.
MarkImmutable ==
    /\ At("imm")
    /\ Update([run EXCEPT !.imm = TRUE])
    /\ End(FALSE)
    /\ UNCHANGED <<engine, world, faults>>

\* An Update of an old copy is refused.
Conflict ==
    /\ ctl.pc \in {"fin", "imm", "spec", "status", "mark", "count", "killed", "finish"}
    /\ "read" \in stale
    /\ End(TRUE)
    /\ UNCHANGED <<store, engine, world, faults>>

-----------------------------------------------------------------------------
(* A trigger that was not started.                                         *)

KillBeforeStart ==
    /\ At("step") /\ Obj.state = "invalid" /\ Obj.kill
    /\ Persist([Obj EXCEPT !.state = "killed", !.actual = 0, !.known = FALSE])
    /\ UNCHANGED <<store, engine, world, faults>>

Starting == At("step") /\ Obj.state = "invalid" /\ ~Obj.kill

\* What is open is found again, and so is the schedule.
Start ==
    IF exec = "open" THEN UNCHANGED engine
    ELSE IF Temporal /\ Cron
    THEN /\ sched' = IF sched.cron = 0 THEN [cron |-> Obj.cron, paused |-> FALSE] ELSE sched
         /\ UNCHANGED exec
    ELSE exec' = "open" /\ UNCHANGED sched

\* The ActualTrigger of the answer is not stored.
Run ==
    /\ Starting
    /\ Start
    /\ Persist([Obj EXCEPT !.state = "running", !.known = ~Cron])
    /\ UNCHANGED <<store, world, faults>>

RunFails ==
    /\ Starting
    /\ Start \/ UNCHANGED engine
    /\ Fault /\ Persist([Obj EXCEPT !.state = "failed"])
    /\ UNCHANGED <<store, world>>

-----------------------------------------------------------------------------
(* A trigger that runs or is paused: its schedule is brought up to date    *)
(* together with a pause or a resumption, and then the rest is done.       *)

Working == At("step") /\ Obj.state \in {"running", "paused"}

Order(o) == IF o.action = "none" /\ o.kill THEN "kill" ELSE o.action

Drifted(o) == o.actual # o.cron
Switch(o) == Order(o) \in {"pause", "resume"}
OutOfDate(o) == Cron /\ (Drifted(o) \/ Switch(o))

Updated(o) ==
    LET synced == [o EXCEPT !.actual = o.cron]
    IN  IF ~Switch(o) THEN synced
        ELSE [synced EXCEPT !.state = IF Order(o) = "pause" THEN "paused" ELSE "running",
                            !.action = "none", !.kill = FALSE]

\* Cadence has no schedule to change, and says that it did.
ChangeSchedule ==
    IF ~Temporal THEN UNCHANGED engine
    ELSE /\ sched' = [cron |-> IF Drifted(Obj) THEN Obj.cron ELSE sched.cron,
                      paused |-> IF Switch(Obj) THEN Order(Obj) = "pause" ELSE sched.paused]
         /\ UNCHANGED exec

UpdateTrigger ==
    /\ Working /\ OutOfDate(Obj)
    /\ IF Temporal /\ sched.cron = 0
       THEN UNCHANGED engine /\ ShowError(Obj)
       ELSE /\ ChangeSchedule
            /\ IF Switch(Obj) THEN Persist(Updated(Obj))
               ELSE \* what changed shows in the status, whatever follows
                    GoOn("act", Updated(Obj))
    /\ UNCHANGED <<store, world, faults>>

UpdateFails ==
    /\ Working /\ OutOfDate(Obj)
    /\ UNCHANGED engine \/ (Temporal /\ sched.cron # 0 /\ ChangeSchedule)
    /\ Fault /\ ShowError(Obj)
    /\ UNCHANGED <<store, world>>

\* The runner of a backfill answers with the state only.
Synced == IF Cron THEN Obj ELSE [Obj EXCEPT !.actual = 0, !.known = FALSE]

Acting == At("act") \/ (Working /\ ~OutOfDate(Obj))

\* To be killed: the execution that is open is looked up first.
BeginKill ==
    /\ Acting /\ Order(Obj) = "kill"
    /\ GoOn("lookup", Synced)
    /\ UNCHANGED <<store, engine, world, faults>>

\* A cron runs until it is killed; nothing is asked about one that is paused.
Watch ==
    /\ Cron /\ Acting /\ Order(Obj) # "kill"
    /\ PersistStatus(run, Obj)
    /\ UNCHANGED <<store, engine, world, faults>>

WatchFails ==
    /\ Cron /\ Acting /\ Order(Obj) # "kill" /\ Obj.state = "running"
    /\ Fault /\ ShowError(Obj)
    /\ UNCHANGED <<store, engine, world>>

\* Variant: what the engine says is the state.
BackfillAsTold(o) == IF o.action = "pause" THEN "failed" ELSE exec

\* A backfill is done with when its workflow is; it cannot be paused.
BackfillState(o) ==
    IF o.action = "pause" \/ ~o.known THEN "failed"
    ELSE CASE exec = "open" -> "running"
           [] exec = "completed" -> "succeeded"
           [] OTHER -> "failed"

WatchBackfill ==
    /\ ~Cron /\ Acting /\ Order(Obj) # "kill"
    /\ PersistStatus(run, [Synced EXCEPT !.state = BackfillState(Synced)])
    /\ UNCHANGED <<store, engine, world, faults>>

WatchBackfillFails ==
    /\ ~Cron /\ Acting /\ Order(Obj) # "kill"
    /\ Fault /\ PersistStatus(run, [Synced EXCEPT !.state = "failed"])
    /\ UNCHANGED <<store, engine, world>>

-----------------------------------------------------------------------------
(* killWorkflow: the open execution is looked up, the schedule is deleted, *)
(* and what was found open is terminated.                                  *)

Kills(pc, rid) == ctl' = [ctl EXCEPT !.pc = pc, !.rid = rid] /\ UNCHANGED due

\* The trigger is stopped, as far as the engine tells.
Stopped ==
    CASE ctl.why = "user" ->
           Persist([Obj EXCEPT !.state = "killed", !.action = "none",
                               !.kill = IF Obj.state = "running" THEN FALSE ELSE @])
      [] ctl.why = "cancel" -> GoOn("count", Obj)
      [] ctl.why = "progress" -> GoOn("killed", [Obj EXCEPT !.state = "killed"])
      [] ctl.why = "force" -> GoOn("finish", Obj)

\* Variant: a kill that was refused once is given up.
RefusedForGood ==
    CASE ctl.why = "user" -> ShowError([Obj EXCEPT !.state = "failed"])
      [] ctl.why = "force" -> GoOn("finish", Obj)
      [] OTHER -> End(TRUE)

\* The drain timeout does not wait for an engine that refuses.
Refused ==
    CASE ctl.why = "user" -> ShowError(Obj)
      [] ctl.why = "force" -> GoOn("finish", Obj)
      [] OTHER -> End(TRUE)

ListOpen ==
    /\ At("lookup")
    /\ Kills("delete", IF exec = "open" THEN "open" ELSE "none")
    /\ UNCHANGED <<store, engine, world, faults>>

\* The execution is terminated next, if one was open.
Deleted == IF ctl.rid = "none" THEN Stopped ELSE Kills("terminate", ctl.rid)

\* Variant: what is open is terminated, and the schedule is left alone.
TerminateOnly ==
    /\ At("delete")
    /\ Deleted
    /\ UNCHANGED <<store, engine, world, faults>>

DeleteTrigger ==
    /\ At("delete")
    /\ IF ~Temporal THEN Deleted /\ UNCHANGED engine
       ELSE IF sched.cron = 0 THEN Refused /\ UNCHANGED engine
       ELSE Deleted /\ sched' = NoSchedule /\ UNCHANGED exec
    /\ UNCHANGED <<store, world, faults>>

\* An execution that is over, or gave way to the next, is not terminated.
TerminateWorkflow ==
    /\ At("terminate")
    /\ IF ctl.rid = "open" THEN Stopped /\ exec' = "terminated" ELSE Refused /\ UNCHANGED exec
    /\ UNCHANGED <<sched, store, world, faults>>

\* A call fails, and may have been carried out.
KillFails ==
    /\ \/ ctl.pc \in {"lookup", "delete", "terminate"} /\ UNCHANGED engine
       \/ At("delete") /\ Temporal /\ sched' = NoSchedule /\ UNCHANGED exec
       \/ At("terminate") /\ ctl.rid = "open" /\ exec' = "terminated" /\ UNCHANGED sched
    /\ Fault /\ Refused
    /\ UNCHANGED <<store, world>>

-----------------------------------------------------------------------------
(* Storing the outcome.                                                    *)

\* An action is not done twice: it is taken back before the outcome is stored.
UpdateSpec ==
    /\ At("spec")
    /\ Update([run EXCEPT !.action = Obj.action, !.kill = Obj.kill])
    /\ PersistStatus(run', Obj)
    /\ UNCHANGED <<engine, world, faults>>

UpdateStatus ==
    /\ At("status")
    /\ Update(WithStatus(run, Obj))
    /\ End(TRUE)
    /\ UNCHANGED <<engine, world, faults>>

\* The drain: the count of drains in progress, the state KILLED, and the finalizer.
RequestCancel ==
    /\ At("count")
    /\ Update([run EXCEPT !.counted = TRUE])
    /\ End(TRUE)
    /\ UNCHANGED <<engine, world, faults>>

MarkKilled ==
    /\ At("mark") \/ At("killed")
    /\ Update([run EXCEPT !.state = "killed"])
    /\ GoOn("finish", run')
    /\ UNCHANGED <<engine, world, faults>>

CompleteDrain ==
    /\ At("finish")
    /\ Update([run EXCEPT !.imm = TRUE, !.counted = FALSE, !.fin = FALSE])
    /\ End(FALSE)
    /\ UNCHANGED <<engine, world, faults>>

-----------------------------------------------------------------------------
(* The rest of the world.                                                  *)

\* The informer delivers the latest object and the work queue takes it up.
CacheSync ==
    /\ "cache" \in stale
    /\ cache' = run
    /\ stale' = stale \ {"cache"}
    /\ due' = TRUE
    /\ UNCHANGED <<run, ctl, engine, world, faults>>

\* A restart lists every object again.
Crash ==
    /\ cache' = run
    /\ stale' = {}
    /\ due' = TRUE
    /\ ctl' = Idle
    /\ Fault
    /\ UNCHANGED <<run, engine, world>>

Drained == run.ts /\ ~run.fin

\* A user orders something, or edits the cron expression.
UserWrites ==
    /\ orders < MaxOrders
    /\ ~Drained /\ ~run.imm
    /\ \/ \E a \in Orders \ {"none", run.action} : Write([run EXCEPT !.action = a])
       \/ ~run.kill /\ Write([run EXCEPT !.kill = TRUE])
       \/ \E c \in 1..MaxCrons \ {run.cron} : Write([run EXCEPT !.cron = c])
    /\ orders' = orders + 1
    /\ UNCHANGED <<due, ctl, engine, setup, expired, faults>>

\* The pipeline is deleted, and its triggers with it.
Delete ==
    /\ ~run.ts
    /\ Write([run EXCEPT !.ts = TRUE])
    /\ UNCHANGED <<due, ctl, engine, world, faults>>

DrainTimeout ==
    /\ run.ts /\ ~expired
    /\ expired' = TRUE
    /\ UNCHANGED <<setup, orders, store, due, ctl, engine, faults>>

\* Temporal fires at most one execution of a schedule at a time.
Fire ==
    /\ sched.cron # 0 /\ ~sched.paused /\ exec # "open"
    /\ exec' = "open"
    /\ UNCHANGED <<store, due, ctl, sched, world, faults>>

\* An execution is over.  Cadence runs a cron again, under the same id.  A kill that
\* found the execution comes late.
Closes ==
    /\ exec = "open"
    /\ exec' \in IF ~Cron THEN {"completed", "failed"}
                 ELSE IF Temporal THEN {"completed"} ELSE {"open"}
    /\ IF ctl.rid = "open" THEN Fault /\ ctl' = [ctl EXCEPT !.rid = "old"]
       ELSE UNCHANGED <<ctl, faults>>
    /\ UNCHANGED <<store, due, sched, world>>

-----------------------------------------------------------------------------
StateMachine ==
    \/ KillBeforeStart \/ Run \/ RunFails
    \/ UpdateTrigger \/ UpdateFails
    \/ Watch \/ WatchFails \/ WatchBackfill \/ WatchBackfillFails

Killing == BeginKill \/ ListOpen \/ DeleteTrigger \/ TerminateWorkflow \/ KillFails

Stores ==
    \/ EnsureDrainFinalizer \/ MarkImmutable
    \/ UpdateSpec \/ UpdateStatus
    \/ RequestCancel \/ MarkKilled \/ CompleteDrain
    \/ Conflict

Next ==
    \/ Reconcile \/ StateMachine \/ Killing \/ Stores
    \/ CacheSync \/ Crash
    \/ UserWrites \/ Delete \/ DrainTimeout
    \/ Fire \/ Closes

Spec == Init /\ [][Next]_vars

\* The work queue hands out what it has, every call of a reconcile returns, the
\* informer delivers and 24 hours pass.  Nothing is assumed of users and workflows.
Fairness ==
    /\ WF_vars(Reconcile) /\ WF_vars(CacheSync)
    /\ WF_vars(StateMachine) /\ WF_vars(Killing) /\ WF_vars(Stores)
    /\ WF_vars(DrainTimeout)

FairSpec == Spec /\ Fairness

-----------------------------------------------------------------------------
(* What holds.                                                             *)

\* Something is there that starts pipelines.
Armed == sched.cron # 0 \/ (exec = "open" /\ ~(Temporal /\ Cron))

\* Nothing is started for a trigger that has no drain finalizer, or was let go of:
\* a deletion that is under way cannot be overtaken by a start from an old copy.
ArmedUnderFinalizer == [][~Armed /\ Armed' => run.fin]_vars

\* A trigger that was shown RUNNING or PAUSED is shown KILLED only when nothing of
\* it is left to start a pipeline, whatever failed on the way.
KilledIsDisarmed ==
    [][run.state \in {"running", "paused"} /\ run'.state = "killed" => ~Armed']_vars

\* The state a trigger ended in is not changed, by no copy however old.
EndIsFinal == [][Terminal(run) => run'.state = run.state]_vars

\* Somebody will look at the trigger: the work queue has it, a reconcile works on it, or
\* the informer has news of it.
Awaited == due \/ ~At("idle") \/ "cache" \in stale

\* However calls fail, updates conflict and the manager restarts, a trigger is awaited
\* until it is drained, or over and immutable.
NotForgotten == Awaited \/ Drained \/ (Terminal(run) /\ run.imm /\ ~run.ts)

\* Nothing is left that starts pipelines, or the schedule rests or fires as ordered.
CarriedOut(order) ==
    /\ order = "kill" => ~Armed
    /\ order \in {"pause", "resume"} /\ Temporal =>
         sched.cron # 0 /\ sched.paused = (order = "pause")

\* The order of a user to a trigger at work is taken back by the controller only when it
\* was carried out, whatever crashes, conflicts and drains come in between.
OrdersAreCarriedOut ==
    [][run.state \in {"running", "paused"} /\ orders' = orders =>
         \A order \in Orders :
           Order(run) = order /\ Order(run') # order => order # "none" /\ CarriedOut(order)']_vars

\* The work of a trigger in the engine is what starts pipelines.
Child == INSTANCE Drain WITH
    fin <- run.fin, ts <- run.ts, imm <- run.imm, counted <- run.counted,
    over <- Terminal(run), working <- Armed, expired <- expired

\* Seen by garbage collection and by the gauge of active drains, a trigger is a child that
\* is drained as cascadedelete promises: what it was deleted or killed amid, and which of
\* its copies was old, does not show.
IsDrained == Child!Spec

\* A drain ends in a day, whatever the engine answers.
DrainEnds == (run.ts /\ run.fin) ~> Drained

\* A cron that is told to stop stops, when that is the last thing a user said, whatever
\* becomes of the order and of the state it leads to.
KillDisarms ==
    (Cron /\ run.state \in {"running", "paused"} /\ Order(run) = "kill" /\ orders = MaxOrders)
        ~> (~Armed \/ run.ts)

-----------------------------------------------------------------------------
(* What the code says of itself and does not do.                           *)

\* "KILLED: The trigger was manually stopped", and the drain of a TriggerRun "deletes
\* the Temporal schedule and terminates any open run": with no fault at all, nothing
\* is left to start a pipeline for a trigger that is shown KILLED.
KilledIsStopped == MaxFaults = 0 /\ Cron /\ run.state = "killed" => ~Armed

\* "Query the actual cron schedule from the workflow engine": with no fault, the schedule
\* of a trigger at rest that shows the cron expression of its spec has that expression.
ScheduleIsActual ==
    MaxFaults = 0 /\ Temporal /\ Cron /\ At("idle") /\ stale = {}
      /\ run.state \in {"running", "paused"} /\ run.actual = run.cron
      => sched.cron \in {0, run.cron}

\* "A backfill trigger moves to SUCCEEDED when it finishes": with no fault, it is not
\* shown FAILED while its workflow runs.
BackfillIsWatched ==
    MaxFaults = 0 /\ MaxOrders = 0 /\ ~Cron /\ exec = "open" => run.state # "failed"

=============================================================================
