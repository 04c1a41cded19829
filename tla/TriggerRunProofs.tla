-------------------------- MODULE TriggerRunProofs --------------------------
(***************************************************************************)
(* A trigger with any number of cron expressions, orders and faults: types,*)
(* what a reconcile may conclude from an old copy, and what is left of a   *)
(* trigger that is killed.                                                 *)
(***************************************************************************)
EXTENDS TriggerRun, TLAPS

\* Before the reconcile made up its mind.
Undecided == {"fin", "step", "act", "lookup", "delete", "terminate", "mark", "count"}

\* A copy that is not old is what is stored; what a reconcile works on is not over.
CopiesAreRuns ==
    /\ "cache" \notin stale => cache = run
    /\ ctl.pc \in Pcs \ {"imm", "finish"} /\ "read" \notin stale => ~Terminal(run)
    /\ ctl.pc \in Undecided /\ "read" \notin stale => Obj.state = run.state
    /\ At("mark") => Obj.state = "invalid"

\* Only a reconcile that saw the deletion takes the finalizer away.
Drains ==
    \/ ctl.pc \in {"mark", "count", "killed", "finish"}
    \/ ctl.pc \in {"lookup", "delete", "terminate"} /\ ctl.why # "user"

FinalizerStays ==
    /\ cache.ts => run.ts
    /\ cache.fin /\ ~cache.ts => run.fin
    /\ At("step") => run.fin
    /\ Drains => cache.ts

Outcome(state) == ctl.pc \in {"spec", "status"} /\ Obj.state = state

\* How far a kill has come.
KillInOrder ==
    /\ sched.cron # 0 => Temporal /\ Cron
    /\ ctl.rid = "open" => exec = "open" /\ ctl.pc \in {"delete", "terminate"}
    /\ At("delete") /\ ~Temporal /\ ctl.rid = "none" => exec # "open"
    /\ At("terminate") => sched.cron = 0 /\ (~Temporal \/ Cron)
    /\ At("killed") => ~Armed
    /\ Outcome("killed") /\ "read" \notin stale /\ run.state \in {"running", "paused"} => ~Armed

-----------------------------------------------------------------------------
(* What is made of a copy.                                                 *)

Busy == [pc : Pcs, obj : Object, why : Reasons, rid : {"none", "open", "old"}]

Executions == {"none", "open", "completed", "failed", "terminated"}

\* The reconcile goes on with a call on its copy o.
Goes(pc, o) == ctl' = [pc |-> pc, obj |-> o, why |-> "user", rid |-> "none"] /\ due' \in BOOLEAN

Rests == ctl' = Idle /\ due' \in BOOLEAN

\* The reconcile stores o, or had nothing to store.
Concludes(o) == Rests \/ Goes("spec", o) \/ Goes("status", o)

LEMMA IdleFacts ==
    /\ Idle.pc = "idle" /\ Idle.rid = "none" /\ "idle" \notin Pcs
    /\ \A o \in Object : o # NoTrigger
BY TriggerAssumption DEF Idle, Pcs

LEMMA CopyType ==
    ASSUME TypeOK, ~At("idle")
    PROVE  Obj \in Object /\ ctl \in Busy
BY DEF TypeOK, At, Obj, Idle, Busy

LEMMA GoesType ==
    ASSUME NEW o \in Object, NEW pc \in Pcs, Goes(pc, o)
    PROVE  /\ ctl' \in Busy /\ ctl'.pc = pc /\ ctl'.obj = o
           /\ ctl'.why = "user" /\ ctl'.rid = "none"
BY DEF Goes, Busy, Reasons

LEMMA GoOnGoes ==
    ASSUME TypeOK, NEW o, NEW pc, GoOn(pc, o)
    PROVE  Goes(pc, o)
BY DEF GoOn, Goes, TypeOK

LEMMA EndRests ==
    ASSUME TypeOK, NEW again \in BOOLEAN, End(again)
    PROVE  Rests
BY DEF End, Rests, TypeOK

LEMMA PersistStatusConcludes ==
    ASSUME TypeOK, NEW r, NEW o, PersistStatus(r, o)
    PROVE  Concludes(o)
BY GoOnGoes, EndRests DEF PersistStatus, Concludes

LEMMA PersistConcludes ==
    ASSUME TypeOK, NEW o, Persist(o)
    PROVE  Concludes(o)
BY GoOnGoes, PersistStatusConcludes DEF Persist, Concludes

LEMMA ShowErrorConcludes ==
    ASSUME TypeOK, NEW o, ShowError(o)
    PROVE  Concludes(o)
BY GoOnGoes DEF ShowError, Concludes

LEMMA ConcludesType ==
    ASSUME NEW o \in Object, Concludes(o)
    PROVE  /\ ctl' \in Busy \cup {Idle} /\ due' \in BOOLEAN
           /\ ctl'.pc \in {"idle", "spec", "status"} /\ ctl'.rid = "none"
           /\ ctl'.pc # "idle" => ctl'.obj = o
<1>1. CASE Rests
  BY <1>1, IdleFacts DEF Rests
<1>2. CASE Goes("spec", o)
  BY <1>2, GoesType DEF Goes, Pcs
<1>3. CASE Goes("status", o)
  BY <1>3, GoesType DEF Goes, Pcs
<1> QED BY <1>1, <1>2, <1>3 DEF Concludes

\* The changes that reconciles and others make.
LEMMA MetaEdits ==
    ASSUME NEW o \in Object
    PROVE  /\ LET e == [o EXCEPT !.fin = TRUE]
              IN  e \in Object /\ e.state = o.state /\ e.ts = o.ts /\ e.fin
           /\ LET e == [o EXCEPT !.imm = TRUE]
              IN  e \in Object /\ e.state = o.state /\ e.ts = o.ts /\ e.fin = o.fin
           /\ LET e == [o EXCEPT !.counted = TRUE]
              IN  e \in Object /\ e.state = o.state /\ e.ts = o.ts /\ e.fin = o.fin
           /\ LET e == [o EXCEPT !.imm = TRUE, !.counted = FALSE, !.fin = FALSE]
              IN  e \in Object /\ e.state = o.state /\ e.ts = o.ts
           /\ LET e == [o EXCEPT !.ts = TRUE]
              IN  e \in Object /\ e.state = o.state /\ e.ts /\ e.fin = o.fin
BY DEF Object

LEMMA SpecEdits ==
    ASSUME NEW o \in Object, NEW a \in Orders, NEW k \in BOOLEAN, NEW c \in 1..MaxCrons
    PROVE  /\ LET e == [o EXCEPT !.action = a]
              IN  e \in Object /\ e.state = o.state /\ e.ts = o.ts /\ e.fin = o.fin
           /\ LET e == [o EXCEPT !.kill = k]
              IN  e \in Object /\ e.state = o.state /\ e.ts = o.ts /\ e.fin = o.fin
           /\ LET e == [o EXCEPT !.cron = c]
              IN  e \in Object /\ e.state = o.state /\ e.ts = o.ts /\ e.fin = o.fin
           /\ LET e == [o EXCEPT !.action = a, !.kill = k]
              IN  e \in Object /\ e.state = o.state /\ e.ts = o.ts /\ e.fin = o.fin
BY DEF Object

States == {"invalid", "running", "paused", "succeeded", "failed", "killed"}

LEMMA StatusEdits ==
    ASSUME NEW o \in Object, NEW s \in States, NEW n \in 0..MaxCrons, NEW k \in BOOLEAN
    PROVE  /\ LET e == [o EXCEPT !.state = s, !.actual = n, !.known = k]
              IN  e \in Object /\ e.state = s /\ e.ts = o.ts /\ e.fin = o.fin
           /\ LET e == [o EXCEPT !.state = s, !.known = k]
              IN  e \in Object /\ e.state = s
           /\ LET e == [o EXCEPT !.state = s]
              IN  e \in Object /\ e.state = s /\ e.ts = o.ts /\ e.fin = o.fin
BY DEF Object, States

LEMMA StateEdit ==
    ASSUME NEW o \in Object, NEW s \in States
    PROVE  [o EXCEPT !.state = s] \in Object /\ [o EXCEPT !.state = s].state = s
BY DEF Object, States

LEMMA ActualEdits ==
    ASSUME NEW o \in Object, NEW n \in 0..MaxCrons, NEW k \in BOOLEAN
    PROVE  /\ LET e == [o EXCEPT !.actual = n, !.known = k]
              IN  e \in Object /\ e.state = o.state
           /\ LET e == [o EXCEPT !.actual = n]
              IN  e \in Object /\ e.state = o.state
BY DEF Object

LEMMA SwitchEdit ==
    ASSUME NEW o \in Object, NEW s \in States
    PROVE  /\ [o EXCEPT !.state = s, !.action = "none", !.kill = FALSE] \in Object
           /\ [o EXCEPT !.state = s, !.action = "none", !.kill = FALSE].state = s
BY DEF Object, States, Orders

LEMMA KillEdit ==
    ASSUME NEW o \in Object
    PROVE  LET e == [o EXCEPT !.state = "killed", !.action = "none",
                              !.kill = IF o.state = "running" THEN FALSE ELSE @]
           IN  e \in Object /\ e.state = "killed"
BY DEF Object, Orders

LEMMA UpdatedType ==
    ASSUME NEW o \in Object
    PROVE  /\ Updated(o) \in Object
           /\ Updated(o).state = o.state \/ Updated(o).state \in {"running", "paused"}
           /\ ~Switch(o) => Updated(o).state = o.state
<1>1. o.cron \in 0..MaxCrons
  BY TriggerAssumption DEF Object
<1> DEFINE synced == [o EXCEPT !.actual = o.cron]
<1>2. synced \in Object /\ synced.state = o.state
  BY <1>1, ActualEdits
<1>3. CASE ~Switch(o)
  <2>1. Updated(o) = synced
    BY <1>3 DEF Updated
  <2> QED BY <1>2, <1>3, <2>1
<1>4. CASE Switch(o)
  <2> DEFINE s == IF Order(o) = "pause" THEN "paused" ELSE "running"
  <2>1. s \in States /\ s \in {"running", "paused"} /\ "none" \in Orders
    BY DEF States, Orders
  <2>2. Updated(o) = [synced EXCEPT !.state = s, !.action = "none", !.kill = FALSE]
    BY <1>4 DEF Updated
  <2> HIDE DEF s, synced
  <2>3. /\ [synced EXCEPT !.state = s, !.action = "none", !.kill = FALSE] \in Object
        /\ [synced EXCEPT !.state = s, !.action = "none", !.kill = FALSE].state = s
    BY <1>2, <2>1, SwitchEdit
  <2> QED BY <1>4, <2>1, <2>2, <2>3
<1> QED BY <1>3, <1>4

LEMMA SyncedType ==
    ASSUME Obj \in Object
    PROVE  Synced \in Object /\ Synced.state = Obj.state
<1>1. 0 \in 0..MaxCrons
  BY TriggerAssumption
<1> QED BY <1>1, ActualEdits DEF Synced

LEMMA BackfillType ==
    ASSUME NEW o \in Object
    PROVE  BackfillState(o) \in {"running", "succeeded", "failed"} /\ BackfillState(o) \in States
BY DEF BackfillState, States

-----------------------------------------------------------------------------
(* What the parts of a reconcile do.                                       *)

\* The engine is left alone or brought up to date; only a start arms it.
Armless ==
    /\ sched' \in Schedules /\ exec' \in Executions
    /\ exec' = exec \/ (exec' = "open" /\ At("step"))
    /\ sched'.cron # 0 => sched.cron # 0 \/ (At("step") /\ Temporal /\ Cron)

LEMMA SameEngine ==
    ASSUME TypeOK, UNCHANGED engine
    PROVE  Armless
BY DEF Armless, engine, TypeOK, Executions

LEMMA StartType ==
    ASSUME TypeOK, At("step"), Start
    PROVE  Armless
<1>1. Obj.cron \in 0..MaxCrons
  <2>1. Obj \in Object
    BY CopyType DEF At
  <2> QED BY <2>1, TriggerAssumption DEF Object
<1>2. CASE UNCHANGED engine
  BY <1>2, SameEngine
<1>3. CASE Temporal /\ Cron /\ exec # "open"
  <2>1. sched' = (IF sched.cron = 0 THEN [cron |-> Obj.cron, paused |-> FALSE] ELSE sched)
        /\ exec' = exec
    BY <1>3 DEF Start
  <2> QED BY <1>1, <1>3, <2>1 DEF Armless, TypeOK, Schedules, Executions
<1>4. CASE ~(Temporal /\ Cron) /\ exec # "open"
  BY <1>4 DEF Start, Armless, TypeOK, Executions
<1> QED BY <1>2, <1>3, <1>4 DEF Start

LEMMA ChangeType ==
    ASSUME TypeOK, At("step"), ChangeSchedule, ~Temporal \/ sched.cron # 0
    PROVE  Armless
<1>1. Obj.cron \in 0..MaxCrons
  <2>1. Obj \in Object
    BY CopyType DEF At
  <2> QED BY <2>1, TriggerAssumption DEF Object
<1>2. CASE ~Temporal
  BY <1>2, SameEngine DEF ChangeSchedule
<1>3. CASE Temporal
  <2> DEFINE c == IF Drifted(Obj) THEN Obj.cron ELSE sched.cron
             p == IF Switch(Obj) THEN Order(Obj) = "pause" ELSE sched.paused
  <2>1. c \in 0..MaxCrons /\ p \in BOOLEAN
    BY <1>1 DEF TypeOK, Schedules
  <2>2. sched' = [cron |-> c, paused |-> p] /\ exec' = exec
    BY <1>3 DEF ChangeSchedule
  <2> HIDE DEF c, p
  <2>3. sched' \in Schedules
    BY <2>1, <2>2 DEF Schedules
  <2> QED BY <1>3, <2>2, <2>3 DEF Armless, TypeOK, Executions
<1> QED BY <1>2, <1>3

\* What the state machine leads to with the changed copy o.
Moves(o) ==
    /\ Concludes(o) \/ (Goes("act", o) /\ o.state = Obj.state)
    /\ o.state = "killed" => Obj.state \notin {"running", "paused"}

MachineStep ==
    /\ UNCHANGED <<run, cache, stale, world>>
    /\ faults' \in 0..MaxFaults
    /\ ctl.pc \in {"step", "act"}
    /\ Armless
    /\ \E o \in Object : Moves(o)

LEMMA FaultType ==
    ASSUME TypeOK, Fault
    PROVE  faults' \in 0..MaxFaults
BY TriggerAssumption DEF TypeOK, Fault

LEMMA StartStep ==
    ASSUME TypeOK, KillBeforeStart \/ Run \/ RunFails
    PROVE  MachineStep
<1>1. /\ Obj \in Object /\ Obj.state = "invalid" /\ ctl.pc = "step" /\ At("step")
      /\ UNCHANGED <<run, cache, stale, world>>
  BY CopyType DEF KillBeforeStart, Run, RunFails, Starting, At, store
<1>2. CASE KillBeforeStart
  <2> DEFINE o == [Obj EXCEPT !.state = "killed", !.actual = 0, !.known = FALSE]
  <2>0. 0 \in 0..MaxCrons
    BY TriggerAssumption
  <2>1. o \in Object
    BY <1>1, <2>0 DEF Object
  <2>2. Persist(o) /\ UNCHANGED engine /\ UNCHANGED faults
    BY <1>2 DEF KillBeforeStart
  <2> HIDE DEF o
  <2>3. Moves(o)
    BY <1>1, <2>2, PersistConcludes DEF Moves
  <2> QED BY <1>1, <2>1, <2>2, <2>3, SameEngine DEF MachineStep, TypeOK
<1>3. CASE Run
  <2> DEFINE o == [Obj EXCEPT !.state = "running", !.known = ~Cron]
  <2>1. o \in Object /\ o.state = "running"
    BY <1>1 DEF Object
  <2>2. Persist(o) /\ Start /\ UNCHANGED faults
    BY <1>3 DEF Run
  <2> HIDE DEF o
  <2>3. Moves(o)
    BY <1>1, <2>1, <2>2, PersistConcludes DEF Moves
  <2> QED BY <1>1, <2>1, <2>2, <2>3, StartType DEF MachineStep, TypeOK
<1>4. CASE RunFails
  <2> DEFINE o == [Obj EXCEPT !.state = "failed"]
  <2>1. o \in Object /\ o.state = "failed"
    BY <1>1, StateEdit DEF States
  <2>2. Persist(o) /\ (Start \/ UNCHANGED engine) /\ Fault
    BY <1>4 DEF RunFails
  <2> HIDE DEF o
  <2>3. Moves(o)
    BY <1>1, <2>1, <2>2, PersistConcludes DEF Moves
  <2> QED BY <1>1, <2>1, <2>2, <2>3, StartType, SameEngine, FaultType DEF MachineStep
<1> QED BY <1>2, <1>3, <1>4

LEMMA UpdateStep ==
    ASSUME TypeOK, UpdateTrigger \/ UpdateFails
    PROVE  MachineStep
<1>1. /\ Obj \in Object /\ Obj.state \in {"running", "paused"} /\ ctl.pc = "step" /\ At("step")
      /\ UNCHANGED <<run, cache, stale, world>>
  BY CopyType DEF UpdateTrigger, UpdateFails, Working, At, store
<1>2. Updated(Obj) \in Object /\ Updated(Obj).state # "killed"
      /\ (~Switch(Obj) => Updated(Obj).state = Obj.state)
  BY <1>1, UpdatedType
<1>3. CASE UpdateTrigger /\ Temporal /\ sched.cron = 0
  BY <1>1, <1>3, ShowErrorConcludes, SameEngine DEF UpdateTrigger, MachineStep, Moves, TypeOK
<1>4. CASE UpdateTrigger /\ ~(Temporal /\ sched.cron = 0)
  <2>1. /\ ChangeSchedule /\ UNCHANGED faults
        /\ Persist(Updated(Obj)) \/ (~Switch(Obj) /\ GoOn("act", Updated(Obj)))
    BY <1>4 DEF UpdateTrigger
  <2>2. Moves(Updated(Obj))
    BY <1>2, <2>1, PersistConcludes, GoOnGoes DEF Moves
  <2> QED BY <1>1, <1>2, <1>4, <2>1, <2>2, ChangeType DEF MachineStep, TypeOK
<1>5. CASE UpdateFails
  BY <1>1, <1>5, ShowErrorConcludes, SameEngine, ChangeType, FaultType
     DEF UpdateFails, MachineStep, Moves
<1> QED BY <1>3, <1>4, <1>5

LEMMA WatchStep ==
    ASSUME TypeOK, Watch \/ WatchFails \/ WatchBackfill \/ WatchBackfillFails
    PROVE  MachineStep
<1>1. /\ Obj \in Object /\ ctl.pc \in {"step", "act"}
      /\ UNCHANGED <<run, cache, stale, world>> /\ UNCHANGED engine
      /\ Synced \in Object
      /\ faults' \in 0..MaxFaults
      /\ At("act") \/ Obj.state # "killed"
  BY CopyType, SyncedType, FaultType DEF Watch, WatchFails, WatchBackfill, WatchBackfillFails, Acting,
     Working, At, store, TypeOK
<1>2. ASSUME NEW o \in Object, Concludes(o),
             o.state = "killed" => Obj.state \notin {"running", "paused"}
      PROVE  MachineStep
  BY <1>1, <1>2, SameEngine DEF MachineStep, Moves
<1>3. CASE Watch \/ WatchFails
  <2>1. Concludes(Obj)
    BY <1>3, PersistStatusConcludes, ShowErrorConcludes DEF Watch, WatchFails
  <2> QED BY <1>1, <1>2, <2>1
<1>4. CASE WatchBackfill
  <2> DEFINE o == [Synced EXCEPT !.state = BackfillState(Synced)]
  <2>1. o \in Object /\ o.state = BackfillState(Synced) /\ o.state # "killed"
    <3>1. BackfillState(Synced) \in {"running", "succeeded", "failed"} /\ BackfillState(Synced) \in States
      BY <1>1, BackfillType
    <3>2. o \in Object /\ o.state = BackfillState(Synced)
      BY <1>1, <3>1, StateEdit
    <3> QED BY <3>1, <3>2
  <2>2. PersistStatus(run, o)
    BY <1>4 DEF WatchBackfill
  <2> HIDE DEF o
  <2> QED BY <1>2, <2>1, <2>2, PersistStatusConcludes
<1>5. CASE WatchBackfillFails
  <2> DEFINE o == [Synced EXCEPT !.state = "failed"]
  <2>1. o \in Object /\ o.state = "failed"
    BY <1>1, StateEdit DEF States
  <2>2. PersistStatus(run, o)
    BY <1>5 DEF WatchBackfillFails
  <2> HIDE DEF o
  <2> QED BY <1>2, <2>1, <2>2, PersistStatusConcludes
<1> QED BY <1>3, <1>4, <1>5

LEMMA StateMachineStep ==
    ASSUME TypeOK, StateMachine
    PROVE  MachineStep
BY StartStep, UpdateStep, WatchStep DEF StateMachine

\* A kill on its way: looked up, the schedule deleted, the execution terminated.
KillCall(pc, rid) ==
    /\ ctl' = [ctl EXCEPT !.pc = pc, !.rid = rid]
    /\ due' \in BOOLEAN

\* It is done, and the drain or the user hears of it.
KillDone ==
    \/ ctl.why = "user" /\ \E o \in Object : Concludes(o) /\ o.state = "killed"
    \/ ctl.why = "cancel" /\ Goes("count", Obj)
    \/ ctl.why = "progress" /\ Goes("killed", [Obj EXCEPT !.state = "killed"])
    \/ ctl.why = "force" /\ Goes("finish", Obj)

\* It is refused, which the drain timeout overrules.
KillRefused ==
    \/ ctl.why = "user" /\ Concludes(Obj)
    \/ ctl.why = "force" /\ Goes("finish", Obj)
    \/ ctl.why # "user" /\ Rests

LEMMA StoppedDone ==
    ASSUME TypeOK, ~At("idle"), Stopped
    PROVE  KillDone
<1>1. Obj \in Object /\ ctl.why \in Reasons
  BY CopyType DEF Busy
<1>2. CASE ctl.why = "user"
  <2> DEFINE o == [Obj EXCEPT !.state = "killed", !.action = "none",
                              !.kill = IF Obj.state = "running" THEN FALSE ELSE @]
  <2>1. o \in Object /\ o.state = "killed"
    BY <1>1, KillEdit
  <2>2. Persist(o)
    BY <1>2 DEF Stopped
  <2> HIDE DEF o
  <2> QED BY <1>2, <2>1, <2>2, PersistConcludes DEF KillDone
<1>3. CASE ctl.why = "cancel"
  BY <1>3, GoOnGoes DEF Stopped, KillDone
<1>4. CASE ctl.why = "progress"
  BY <1>4, GoOnGoes DEF Stopped, KillDone
<1>5. CASE ctl.why = "force"
  BY <1>5, GoOnGoes DEF Stopped, KillDone
<1> QED BY <1>1, <1>2, <1>3, <1>4, <1>5 DEF Reasons

LEMMA RefusedRefuses ==
    ASSUME TypeOK, ~At("idle"), Refused
    PROVE  KillRefused
<1>1. CASE ctl.why = "user"
  BY <1>1, ShowErrorConcludes DEF Refused, KillRefused
<1>2. CASE ctl.why = "force"
  BY <1>2, GoOnGoes DEF Refused, KillRefused
<1>3. CASE ctl.why \notin {"user", "force"}
  BY <1>3, EndRests DEF Refused, KillRefused
<1> QED BY <1>1, <1>2, <1>3

\* How a step of a kill leaves the engine, and what it comes to.
Begins ==
    /\ ctl.pc \in {"step", "act"} /\ UNCHANGED engine
    /\ \E o \in Object : Goes("lookup", o) /\ o.state = Obj.state

Looks ==
    /\ ctl.pc = "lookup" /\ UNCHANGED engine
    /\ KillCall("delete", IF exec = "open" THEN "open" ELSE "none")

Deletes ==
    /\ ctl.pc = "delete" /\ exec' = exec
    /\ (~Temporal /\ sched' = sched) \/ (Temporal /\ sched' = NoSchedule /\ sched.cron # 0)
    /\ IF ctl.rid = "none" THEN KillDone ELSE KillCall("terminate", ctl.rid)

Terminates ==
    /\ ctl.pc = "terminate" /\ sched' = sched
    /\ ctl.rid = "open" /\ exec' = "terminated" /\ KillDone

GivesUp ==
    /\ ctl.pc \in {"lookup", "delete", "terminate"} /\ KillRefused
    /\ sched' = sched \/ sched' = NoSchedule
    /\ exec' = exec \/ exec' = "terminated"

KillStep == Begins \/ Looks \/ Deletes \/ Terminates \/ GivesUp

LEMMA KillingStep ==
    ASSUME TypeOK, Killing
    PROVE  KillStep /\ UNCHANGED <<run, cache, stale, world>> /\ faults' \in 0..MaxFaults
<1>0. UNCHANGED faults => faults' \in 0..MaxFaults
  BY DEF TypeOK
<1>1. CASE BeginKill
  <2>1. ctl.pc \in {"step", "act"} /\ Synced \in Object /\ Synced.state = Obj.state
    BY <1>1, CopyType, SyncedType DEF BeginKill, Acting, Working, At
  <2>2. Goes("lookup", Synced)
    BY <1>1, GoOnGoes DEF BeginKill
  <2>3. Begins
    BY <1>1, <2>1, <2>2 DEF BeginKill, Begins
  <2> QED BY <1>0, <1>1, <2>3 DEF BeginKill, KillStep, store
<1>2. CASE ListOpen
  <2>1. due' \in BOOLEAN
    BY <1>2 DEF ListOpen, Kills, TypeOK
  <2>2. Looks
    BY <1>2, <2>1 DEF ListOpen, Kills, KillCall, Looks, At
  <2> QED BY <1>0, <1>2, <2>2 DEF ListOpen, KillStep, store
<1>3. CASE DeleteTrigger /\ Temporal /\ sched.cron = 0
  <2>1. ctl.pc = "delete" /\ ~At("idle") /\ Refused /\ UNCHANGED engine
    BY <1>3 DEF DeleteTrigger, At
  <2>2. GivesUp
    BY <2>1, RefusedRefuses DEF GivesUp, engine
  <2> QED BY <1>0, <1>3, <2>2 DEF DeleteTrigger, KillStep, store
<1>4. CASE DeleteTrigger /\ ~(Temporal /\ sched.cron = 0)
  <2>1. /\ ctl.pc = "delete" /\ ~At("idle") /\ Deleted /\ exec' = exec
        /\ (~Temporal /\ sched' = sched) \/ (Temporal /\ sched' = NoSchedule /\ sched.cron # 0)
    BY <1>4 DEF DeleteTrigger, At, engine
  <2>2. CASE ctl.rid = "none"
    <3>1. KillDone
      BY <2>1, <2>2, StoppedDone DEF Deleted
    <3> QED BY <1>0, <1>4, <2>1, <2>2, <3>1 DEF DeleteTrigger, Deletes, KillStep, store
  <2>3. CASE ctl.rid # "none"
    <3>1. KillCall("terminate", ctl.rid)
      BY <2>1, <2>3 DEF Deleted, Kills, KillCall, TypeOK
    <3> QED BY <1>0, <1>4, <2>1, <2>3, <3>1 DEF DeleteTrigger, Deletes, KillStep, store
  <2> QED BY <2>2, <2>3
<1>5. CASE TerminateWorkflow
  <2>1. ctl.pc = "terminate" /\ ~At("idle") /\ sched' = sched
    BY <1>5 DEF TerminateWorkflow, At
  <2>2. CASE ctl.rid = "open"
    <3>1. KillDone /\ exec' = "terminated"
      BY <1>5, <2>1, <2>2, StoppedDone DEF TerminateWorkflow
    <3> QED BY <1>0, <1>5, <2>1, <2>2, <3>1 DEF TerminateWorkflow, Terminates, KillStep, store
  <2>3. CASE ctl.rid # "open"
    <3>1. KillRefused /\ exec' = exec
      BY <1>5, <2>1, <2>3, RefusedRefuses DEF TerminateWorkflow
    <3> QED BY <1>0, <1>5, <2>1, <3>1 DEF TerminateWorkflow, GivesUp, KillStep, store
  <2> QED BY <2>2, <2>3
<1>6. CASE KillFails
  <2>1. /\ ctl.pc \in {"lookup", "delete", "terminate"} /\ ~At("idle") /\ Refused /\ Fault
        /\ sched' = sched \/ sched' = NoSchedule
        /\ exec' = exec \/ exec' = "terminated"
    BY <1>6 DEF KillFails, At, engine
  <2>2. GivesUp
    BY <2>1, RefusedRefuses DEF GivesUp
  <2> QED BY <1>6, <2>1, <2>2, FaultType DEF KillFails, KillStep, store
<1> QED BY <1>1, <1>2, <1>3, <1>4, <1>5, <1>6 DEF Killing

-----------------------------------------------------------------------------
(* Types.                                                                  *)

Contexts == Busy \cup {Idle}

LEMMA TypeParts ==
    TypeOK <=>
      /\ setup \in Setups /\ run \in Object /\ cache \in Object
      /\ stale \subseteq {"cache", "read"} /\ due \in BOOLEAN /\ ctl \in Contexts
      /\ sched \in Schedules /\ exec \in Executions
      /\ expired \in BOOLEAN /\ orders \in 0..MaxOrders /\ faults \in 0..MaxFaults
BY DEF TypeOK, Contexts, Busy, Executions

LEMMA TypePartsNext ==
    TypeOK' <=>
      /\ setup' \in Setups /\ run' \in Object /\ cache' \in Object
      /\ stale' \subseteq {"cache", "read"} /\ due' \in BOOLEAN /\ ctl' \in Contexts
      /\ sched' \in Schedules /\ exec' \in Executions
      /\ expired' \in BOOLEAN /\ orders' \in 0..MaxOrders /\ faults' \in 0..MaxFaults
BY DEF TypeOK, Contexts, Busy, Executions

LEMMA GoesContext ==
    ASSUME NEW o \in Object, NEW pc \in Pcs, Goes(pc, o)
    PROVE  ctl' \in Contexts /\ due' \in BOOLEAN
BY GoesType DEF Goes, Contexts

LEMMA RestsContext ==
    ASSUME Rests
    PROVE  ctl' \in Contexts /\ due' \in BOOLEAN
BY DEF Rests, Contexts

LEMMA ConcludesContext ==
    ASSUME NEW o \in Object, Concludes(o)
    PROVE  ctl' \in Contexts /\ due' \in BOOLEAN
BY ConcludesType DEF Contexts

LEMMA CallContext ==
    ASSUME TypeOK, ~At("idle"), NEW pc \in Pcs, NEW rid \in {"none", "open", "old"},
           KillCall(pc, rid)
    PROVE  /\ ctl' \in Contexts /\ due' \in BOOLEAN
           /\ ctl'.pc = pc /\ ctl'.rid = rid /\ ctl'.obj = Obj /\ ctl'.why = ctl.why
<1>1. ctl \in Busy
  BY CopyType
<1> QED BY <1>1 DEF KillCall, Busy, Contexts, Obj

LEMMA DoneContext ==
    ASSUME TypeOK, ~At("idle"), KillDone \/ KillRefused
    PROVE  ctl' \in Contexts /\ due' \in BOOLEAN
<1>1. Obj \in Object /\ {"count", "killed", "finish"} \subseteq Pcs
  BY CopyType DEF Pcs
<1>2. [Obj EXCEPT !.state = "killed"] \in Object
  BY <1>1 DEF Object
<1> QED BY <1>1, <1>2, GoesContext, RestsContext, ConcludesContext DEF KillDone, KillRefused

LEMMA MachineContext ==
    ASSUME TypeOK, MachineStep
    PROVE  TypeOK'
<1>1. ctl' \in Contexts /\ due' \in BOOLEAN
  BY GoesContext, ConcludesContext DEF MachineStep, Moves, Pcs
<1> QED BY <1>1, TypeParts, TypePartsNext DEF MachineStep, Armless, world

LEMMA KillContext ==
    ASSUME TypeOK, KillStep, UNCHANGED <<run, cache, stale, world>>, faults' \in 0..MaxFaults
    PROVE  TypeOK'
<1>0. NoSchedule \in Schedules /\ Pcs \cap {"lookup", "delete", "terminate"} = {"lookup", "delete", "terminate"}
  BY TriggerAssumption DEF NoSchedule, Schedules, Pcs
<1>1. sched' \in Schedules /\ exec' \in Executions
  BY <1>0, TypeParts DEF KillStep, Begins, Looks, Deletes, Terminates, GivesUp, engine, Executions
<1>2. ctl' \in Contexts /\ due' \in BOOLEAN
  <2>1. CASE Begins
    BY <1>0, <2>1, GoesContext DEF Begins
  <2>2. CASE Looks
    BY <1>0, <2>2, CallContext DEF Looks, At
  <2>3. CASE Deletes
    <3>1. ~At("idle") /\ ctl.rid \in {"none", "open", "old"}
      BY <2>3, CopyType DEF Deletes, At, Busy
    <3> QED BY <1>0, <2>3, <3>1, CallContext, DoneContext DEF Deletes
  <2>4. CASE Terminates \/ GivesUp
    BY <2>4, DoneContext DEF Terminates, GivesUp, At
  <2> QED BY <2>1, <2>2, <2>3, <2>4 DEF KillStep
<1> QED BY <1>1, <1>2, TypeParts, TypePartsNext DEF world

\* The specification as it is stored after the state machine changed it.
TakenBack == [run EXCEPT !.action = Obj.action, !.kill = Obj.kill]

LEMMA StoreEdits ==
    ASSUME TypeOK, ~At("idle")
    PROVE  /\ TakenBack \in Object /\ TakenBack.state = run.state
           /\ TakenBack.ts = run.ts /\ TakenBack.fin = run.fin
           /\ WithStatus(run, Obj) \in Object /\ WithStatus(run, Obj).state = Obj.state
           /\ WithStatus(run, Obj).ts = run.ts /\ WithStatus(run, Obj).fin = run.fin
<1>1. Obj \in Object /\ run \in Object
  BY CopyType DEF TypeOK
<1>2. /\ Obj.action \in Orders /\ Obj.kill \in BOOLEAN /\ Obj.state \in States
      /\ Obj.actual \in 0..MaxCrons /\ Obj.known \in BOOLEAN
  BY <1>1 DEF Object, States
<1>3. /\ TakenBack \in Object /\ TakenBack.state = run.state
      /\ TakenBack.ts = run.ts /\ TakenBack.fin = run.fin
  BY <1>1, <1>2 DEF TakenBack, Object
<1>4. /\ WithStatus(run, Obj) \in Object /\ WithStatus(run, Obj).state = Obj.state
      /\ WithStatus(run, Obj).ts = run.ts /\ WithStatus(run, Obj).fin = run.fin
  BY <1>1, <1>2 DEF WithStatus, Object, States
<1> QED BY <1>3, <1>4

\* What the reconcile stores of its copy, and where it goes on.
StoreStep ==
    /\ "read" \notin stale /\ stale' = {"cache"} /\ cache' = cache
    /\ UNCHANGED <<engine, world, faults>>
    /\ \/ ctl.pc = "fin" /\ run' = [run EXCEPT !.fin = TRUE] /\ Goes("step", run')
       \/ ctl.pc = "imm" /\ run' = [run EXCEPT !.imm = TRUE] /\ Rests
       \/ ctl.pc = "spec" /\ run' = TakenBack /\ (Rests \/ Goes("status", Obj))
       \/ ctl.pc = "status" /\ run' = WithStatus(run, Obj) /\ Rests
       \/ ctl.pc = "count" /\ run' = [run EXCEPT !.counted = TRUE] /\ Rests
       \/ /\ ctl.pc \in {"mark", "killed"} /\ run' = [run EXCEPT !.state = "killed"]
          /\ Goes("finish", run')
       \/ /\ ctl.pc = "finish" /\ Rests
          /\ run' = [run EXCEPT !.imm = TRUE, !.counted = FALSE, !.fin = FALSE]

LEMMA StoresStep ==
    ASSUME TypeOK, Stores
    PROVE  ~At("idle") /\ (StoreStep \/ (UNCHANGED <<store, engine, world, faults>> /\ Rests))
<1> USE EndRests, GoOnGoes
<1>1. CASE EnsureDrainFinalizer
  BY <1>1 DEF EnsureDrainFinalizer, Update, At, StoreStep
<1>2. CASE MarkImmutable
  BY <1>2 DEF MarkImmutable, Update, At, StoreStep
<1>3. CASE UpdateSpec
  <2>1. End(TRUE) \/ GoOn("status", Obj)
    BY <1>3 DEF UpdateSpec, PersistStatus
  <2>2. Rests \/ Goes("status", Obj)
    BY <2>1
  <2> QED BY <1>3, <2>2 DEF UpdateSpec, Update, At, StoreStep, TakenBack
<1>4. CASE UpdateStatus
  BY <1>4 DEF UpdateStatus, Update, At, StoreStep
<1>5. CASE RequestCancel
  BY <1>5 DEF RequestCancel, Update, At, StoreStep
<1>6. CASE MarkKilled
  BY <1>6 DEF MarkKilled, Update, At, StoreStep
<1>7. CASE CompleteDrain
  BY <1>7 DEF CompleteDrain, Update, At, StoreStep
<1>8. CASE Conflict
  BY <1>8 DEF Conflict, At
<1> QED BY <1>1, <1>2, <1>3, <1>4, <1>5, <1>6, <1>7, <1>8 DEF Stores

LEMMA StoresContext ==
    ASSUME TypeOK, Stores
    PROVE  TypeOK'
<1>0. ~At("idle") /\ Obj \in Object
  BY StoresStep, CopyType
<1>1. CASE UNCHANGED <<store, engine, world, faults>> /\ Rests
  BY <1>1, RestsContext, TypeParts, TypePartsNext DEF store, engine, world
<1>2. CASE StoreStep
  <2>1. run' \in Object
    <3>1. run \in Object
      BY TypeParts
    <3>2. [run EXCEPT !.state = "killed"] \in Object
      BY <3>1, StateEdit DEF States
    <3>3. TakenBack \in Object /\ WithStatus(run, Obj) \in Object
      BY <1>0, StoreEdits
    <3>4. /\ [run EXCEPT !.fin = TRUE] \in Object /\ [run EXCEPT !.imm = TRUE] \in Object
          /\ [run EXCEPT !.counted = TRUE] \in Object
          /\ [run EXCEPT !.imm = TRUE, !.counted = FALSE, !.fin = FALSE] \in Object
      BY <3>1, MetaEdits
    <3> QED BY <1>2, <3>1, <3>2, <3>3, <3>4 DEF StoreStep
  <2>2. ctl' \in Contexts /\ due' \in BOOLEAN
    BY <1>0, <1>2, <2>1, GoesContext, RestsContext DEF StoreStep, Pcs
  <2> QED BY <1>2, <2>1, <2>2, TypeParts, TypePartsNext DEF StoreStep, engine, world
<1> QED BY <1>1, <1>2, StoresStep

\* What a reconcile begins with.
LEMMA EntryFacts ==
    ASSUME NEW o \in Object, Entry(o)[1] # "idle"
    PROVE  /\ Entry(o)[1] \in {"fin", "imm", "step", "lookup", "mark", "finish"}
           /\ Entry(o)[2] \in Reasons
           /\ Entry(o)[1] = "step" => ~o.ts /\ o.fin
           /\ Entry(o)[1] \in {"fin", "step", "lookup", "mark"} => ~Terminal(o)
           /\ Entry(o)[1] \in {"lookup", "mark", "finish"} => o.ts
           /\ Entry(o)[1] = "mark" => o.state = "invalid"
<1>1. CASE ~o.ts /\ Terminal(o)
  BY <1>1 DEF Entry, Reasons
<1>2. CASE ~o.ts /\ ~Terminal(o)
  BY <1>2 DEF Entry, Reasons
<1>3. CASE o.ts
  <2>1. Entry(o) = DrainEntry(o)
    BY <1>3 DEF Entry
  <2>2. CASE ~o.fin
    BY <2>1, <2>2 DEF DrainEntry
  <2>3. CASE o.fin /\ Terminal(o)
    <3>1. DrainEntry(o) = <<"finish", "user">>
      BY <2>3 DEF DrainEntry
    <3> QED BY <1>3, <2>1, <2>3, <3>1 DEF Reasons
  <2>4. CASE o.fin /\ ~Terminal(o) /\ expired
    <3>1. DrainEntry(o) = <<"lookup", "force">>
      BY <2>4 DEF DrainEntry
    <3> QED BY <1>3, <2>1, <2>4, <3>1 DEF Reasons
  <2>5. CASE o.fin /\ ~Terminal(o) /\ ~expired /\ o.state = "invalid"
    <3>1. DrainEntry(o) = <<"mark", "user">>
      BY <2>5 DEF DrainEntry
    <3> QED BY <1>3, <2>1, <2>5, <3>1 DEF Reasons
  <2>6. CASE o.fin /\ ~Terminal(o) /\ ~expired /\ o.state # "invalid"
    <3>1. DrainEntry(o) \in {<<"lookup", "cancel">>, <<"lookup", "progress">>}
      BY <2>6 DEF DrainEntry
    <3> QED BY <1>3, <2>1, <2>6, <3>1 DEF Reasons
  <2> QED BY <2>2, <2>3, <2>4, <2>5, <2>6
<1> QED BY <1>1, <1>2, <1>3

LEMMA ReconcileStep ==
    ASSUME TypeOK, Reconcile
    PROVE  /\ ctl = Idle
           /\ \/ ctl' = Idle
              \/ /\ Entry(cache)[1] # "idle" /\ ctl' \in Busy
                 /\ ctl'.pc = Entry(cache)[1] /\ ctl'.obj = cache
                 /\ ctl'.why = Entry(cache)[2] /\ ctl'.rid = "none"
<1>1. ctl = Idle
  BY DEF Reconcile, At, TypeOK, Pcs
<1>2. CASE Entry(cache)[1] = "idle"
  BY <1>1, <1>2 DEF Reconcile
<1>3. CASE Entry(cache)[1] # "idle"
  <2>1. ctl' = [pc |-> Entry(cache)[1], obj |-> cache, why |-> Entry(cache)[2], rid |-> "none"]
    BY <1>3 DEF Reconcile
  <2>2. Entry(cache)[1] \in Pcs /\ Entry(cache)[2] \in Reasons /\ cache \in Object
    BY <1>3, EntryFacts DEF TypeOK, Pcs
  <2> QED BY <1>1, <1>3, <2>1, <2>2 DEF Busy
<1> QED BY <1>2, <1>3

\* What others write.
OthersWrite ==
    /\ run' \in Object /\ run'.state = run.state /\ run'.fin = run.fin
    /\ run.ts => run'.ts
    /\ stale' = {"cache", "read"} /\ UNCHANGED <<cache, due, ctl, engine, setup, expired, faults>>

LEMMA WritesStep ==
    ASSUME TypeOK, UserWrites \/ Delete
    PROVE  OthersWrite /\ orders' \in 0..MaxOrders
<1>0. run \in Object
  BY DEF TypeOK
<1>1. CASE Delete
  <2>1. run' = [run EXCEPT !.ts = TRUE]
    BY <1>1 DEF Delete, Write
  <2>2. run' \in Object /\ run'.state = run.state /\ run'.ts /\ run'.fin = run.fin
    BY <1>0, <2>1, MetaEdits
  <2> QED BY <1>1, <2>2 DEF Delete, Write, OthersWrite, world, TypeOK
<1>2. CASE UserWrites
  <2>1. orders' \in 0..MaxOrders
    BY <1>2, TriggerAssumption DEF UserWrites, TypeOK
  <2>2. \/ \E a \in Orders : run' = [run EXCEPT !.action = a]
        \/ run' = [run EXCEPT !.kill = TRUE]
        \/ \E c \in 1..MaxCrons : run' = [run EXCEPT !.cron = c]
    BY <1>2 DEF UserWrites, Write
  <2>3. run' \in Object /\ run'.state = run.state /\ run'.ts = run.ts /\ run'.fin = run.fin
    <3>1. CASE \E a \in Orders : run' = [run EXCEPT !.action = a]
      BY <1>0, <3>1 DEF Object
    <3>2. CASE run' = [run EXCEPT !.kill = TRUE]
      BY <1>0, <3>2 DEF Object
    <3>3. CASE \E c \in 1..MaxCrons : run' = [run EXCEPT !.cron = c]
      BY <1>0, <3>3 DEF Object
    <3> QED BY <2>2, <3>1, <3>2, <3>3
  <2>4. stale' = {"cache", "read"} /\ UNCHANGED <<cache, due, ctl, engine, setup, expired, faults>>
    BY <1>2 DEF UserWrites, Write
  <2> QED BY <2>1, <2>3, <2>4 DEF OthersWrite
<1> QED BY <1>1, <1>2

LEMMA ClosesStep ==
    ASSUME TypeOK, Closes
    PROVE  /\ exec = "open" /\ exec' \in Executions /\ UNCHANGED <<store, due, sched, world>>
           /\ faults' \in 0..MaxFaults
           /\ \/ ctl' = ctl /\ ctl.rid # "open"
              \/ /\ ctl' \in Busy /\ ctl \in Busy /\ ctl.rid = "open" /\ ctl'.rid = "old"
                 /\ ctl'.pc = ctl.pc /\ ctl'.obj = ctl.obj /\ ctl'.why = ctl.why
<1>1. exec' \in Executions /\ exec = "open" /\ UNCHANGED <<store, due, sched, world>>
  BY DEF Closes, Executions
<1>2. CASE ctl.rid # "open"
  BY <1>1, <1>2 DEF Closes, TypeOK
<1>3. CASE ctl.rid = "open"
  <2>1. ctl' = [ctl EXCEPT !.rid = "old"] /\ Fault
    BY <1>3 DEF Closes
  <2>2. ctl \in Busy
    BY <1>3, IdleFacts DEF TypeOK, Busy
  <2>3. /\ ctl' \in Busy /\ ctl'.rid = "old"
        /\ ctl'.pc = ctl.pc /\ ctl'.obj = ctl.obj /\ ctl'.why = ctl.why
    BY <2>1, <2>2 DEF Busy
  <2> QED BY <1>1, <1>3, <2>1, <2>2, <2>3, FaultType
<1> QED BY <1>2, <1>3

LEMMA TypeNext ==
    ASSUME TypeOK, [Next]_vars
    PROVE  TypeOK'
<1>0. Idle \in Contexts /\ "open" \in Executions
  BY DEF Contexts, Executions
<1>1. CASE Reconcile
  <2>1. ctl' \in Contexts
    BY <1>1, ReconcileStep DEF Contexts
  <2> QED BY <1>1, <2>1, TypeParts, TypePartsNext DEF Reconcile, engine, world
<1>2. CASE StateMachine
  BY <1>2, StateMachineStep, MachineContext
<1>3. CASE Killing
  BY <1>3, KillingStep, KillContext
<1>4. CASE Stores
  BY <1>4, StoresContext
<1>5. CASE CacheSync
  BY <1>5, TypeParts, TypePartsNext DEF CacheSync, engine, world
<1>6. CASE Crash
  BY <1>0, <1>6, FaultType, TypeParts, TypePartsNext DEF Crash, engine, world
<1>7. CASE UserWrites \/ Delete
  BY <1>7, WritesStep, TypeParts, TypePartsNext DEF OthersWrite, engine
<1>8. CASE DrainTimeout
  BY <1>8, TypeParts, TypePartsNext DEF DrainTimeout, engine, store
<1>9. CASE Fire
  BY <1>0, <1>9, TypeParts, TypePartsNext DEF Fire, store, world
<1>10. CASE Closes
  BY <1>10, ClosesStep, TypeParts, TypePartsNext DEF store, world, Contexts
<1>11. CASE UNCHANGED vars
  BY <1>11, TypeParts, TypePartsNext DEF vars
<1> QED BY <1>1, <1>2, <1>3, <1>4, <1>5, <1>6, <1>7, <1>8, <1>9, <1>10, <1>11 DEF Next

\* Every variable keeps its type, on both engines and for both kinds of trigger.
THEOREM TypeCorrect == Spec => []TypeOK
<1>1. Init => TypeOK
  <2>1. ASSUME Init PROVE TypeOK
    <3>1. /\ 0 \in 0..MaxCrons /\ 0 \in 0..MaxOrders /\ 0 \in 0..MaxFaults /\ 1 \in 1..MaxCrons
      BY TriggerAssumption
    <3>2. NewTrigger \in Object /\ NoSchedule \in Schedules /\ Idle \in Contexts
      BY <3>1 DEF NewTrigger, Object, Orders, NoSchedule, Schedules, Contexts
    <3> QED BY <2>1, <3>1, <3>2, TypeParts DEF Init, Executions
  <2> QED BY <2>1
<1>2. TypeOK /\ [Next]_vars => TypeOK'
  BY TypeNext
<1> QED BY <1>1, <1>2, PTL DEF Spec

-----------------------------------------------------------------------------
(* Invariants, for each part of a reconcile.                               *)

LEMMA MovesFacts ==
    ASSUME NEW o \in Object, Moves(o)
    PROVE  /\ ctl'.rid = "none"
           /\ ctl'.pc \in {"idle", "act", "spec", "status"}
           /\ ctl'.pc # "idle" => ctl'.obj = o
           /\ ctl'.pc = "act" => o.state = Obj.state
BY ConcludesType, GoesType DEF Moves, Pcs

LEMMA DoneFacts ==
    ASSUME TypeOK, ~At("idle"), KillDone
    PROVE  /\ ctl'.rid = "none"
           /\ ctl'.pc \in {"idle", "spec", "status", "count", "killed", "finish"}
           /\ ctl'.pc = "count" => ctl'.obj = Obj
           /\ ctl'.pc \in {"count", "killed", "finish"} => ctl.why # "user"
<1>0. Obj \in Object /\ {"count", "killed", "finish"} \subseteq Pcs
  BY CopyType DEF Pcs
<1>1. CASE ctl.why = "user" /\ \E o \in Object : Concludes(o) /\ o.state = "killed"
  BY <1>1, ConcludesType
<1>2. CASE ctl.why = "cancel" /\ Goes("count", Obj)
  BY <1>0, <1>2, GoesType
<1>3. CASE ctl.why = "progress" /\ Goes("killed", [Obj EXCEPT !.state = "killed"])
  <2>1. [Obj EXCEPT !.state = "killed"] \in Object
    BY <1>0 DEF Object
  <2> QED BY <1>0, <1>3, <2>1, GoesType
<1>4. CASE ctl.why = "force" /\ Goes("finish", Obj)
  BY <1>0, <1>4, GoesType
<1> QED BY <1>1, <1>2, <1>3, <1>4 DEF KillDone

LEMMA RefusedFacts ==
    ASSUME TypeOK, ~At("idle"), KillRefused
    PROVE  /\ ctl'.rid = "none"
           /\ ctl'.pc \in {"idle", "spec", "status", "finish"}
           /\ ctl'.pc \in {"spec", "status"} => ctl'.obj = Obj
           /\ ctl'.pc = "finish" => ctl.why # "user"
<1>0. Obj \in Object /\ "finish" \in Pcs
  BY CopyType DEF Pcs
<1>1. CASE ctl.why = "user" /\ Concludes(Obj)
  BY <1>0, <1>1, ConcludesType
<1>2. CASE ctl.why = "force" /\ Goes("finish", Obj)
  BY <1>0, <1>2, GoesType
<1>3. CASE ctl.why # "user" /\ Rests
  BY <1>3, IdleFacts DEF Rests
<1> QED BY <1>1, <1>2, <1>3 DEF KillRefused

\* The state machine.
LEMMA MachineInv ==
    ASSUME TypeOK, CopiesAreRuns, FinalizerStays, KillInOrder, MachineStep
    PROVE  CopiesAreRuns' /\ FinalizerStays' /\ KillInOrder'
<1>1. PICK o \in Object : Moves(o)
  BY DEF MachineStep
<1>2. /\ ctl'.rid = "none" /\ ctl'.pc \in {"idle", "act", "spec", "status"}
      /\ ctl'.pc # "idle" => ctl'.obj = o
      /\ ctl'.pc = "act" => o.state = Obj.state
      /\ o.state = "killed" => Obj.state \notin {"running", "paused"}
      /\ ctl.pc \in {"step", "act"}
      /\ UNCHANGED <<run, cache, stale, setup>>
  BY <1>1, MovesFacts DEF Moves, MachineStep, world
<1>3. "read" \notin stale => ~Terminal(run) /\ Obj.state = run.state
  BY <1>2 DEF CopiesAreRuns, Undecided, Pcs
<1>4. CopiesAreRuns'
  BY <1>2, <1>3 DEF CopiesAreRuns, Undecided, Terminal, At, Obj
<1>5. FinalizerStays'
  BY <1>2 DEF FinalizerStays, Drains, At
<1>6. KillInOrder'
  <2>1. sched'.cron # 0 => Temporal' /\ Cron'
    BY <1>2 DEF MachineStep, Armless, KillInOrder, Temporal, Cron
  <2>2. Outcome("killed")' /\ "read" \notin stale' => run'.state \notin {"running", "paused"}
    BY <1>2, <1>3 DEF Outcome, Obj
  <2> QED BY <1>2, <2>1, <2>2 DEF KillInOrder, At
<1> QED BY <1>4, <1>5, <1>6

\* A kill that is done leaves nothing that starts pipelines.
LEMMA DoneDisarms ==
    ASSUME TypeOK, KillInOrder, setup' = setup,
           (Deletes /\ ctl.rid = "none") \/ Terminates
    PROVE  ~Armed'
<1>1. NoSchedule.cron = 0
  BY DEF NoSchedule
<1>2. CASE Deletes /\ ctl.rid = "none" /\ Temporal
  BY <1>1, <1>2 DEF Deletes, Armed, KillInOrder, Temporal, Cron
<1>3. CASE Deletes /\ ctl.rid = "none" /\ ~Temporal
  BY <1>3 DEF Deletes, Armed, KillInOrder, Temporal, Cron, At
<1>4. CASE Terminates
  BY <1>4 DEF Terminates, Armed, KillInOrder, At
<1> QED BY <1>2, <1>3, <1>4

LEMMA KillingInv ==
    ASSUME TypeOK, CopiesAreRuns, FinalizerStays, KillInOrder,
           KillStep, UNCHANGED <<run, cache, stale, world>>
    PROVE  CopiesAreRuns' /\ FinalizerStays' /\ KillInOrder'
<1>0. NoSchedule.cron = 0 /\ setup' = setup /\ UNCHANGED <<run, cache, stale>>
  BY DEF NoSchedule, world
<1>1. ctl.pc \in Undecided /\ ctl.pc \in Pcs \ {"imm", "finish"} /\ ~At("idle")
  BY DEF KillStep, Begins, Looks, Deletes, Terminates, GivesUp, Undecided, Pcs, At
<1>2. "read" \notin stale => ~Terminal(run) /\ Obj.state = run.state
  BY <1>1 DEF CopiesAreRuns
<1>3. sched'.cron # 0 => sched' = sched
  BY <1>0 DEF KillStep, Begins, Looks, Deletes, Terminates, GivesUp, engine
<1>4. CASE Begins
  <2>1. PICK o \in Object : Goes("lookup", o) /\ o.state = Obj.state
    BY <1>4 DEF Begins
  <2>2. ctl'.pc = "lookup" /\ ctl'.obj = o /\ ctl'.why = "user" /\ ctl'.rid = "none"
    BY <2>1, GoesType DEF Pcs
  <2>3. CopiesAreRuns'
    BY <1>0, <1>2, <2>1, <2>2 DEF CopiesAreRuns, Undecided, Terminal, At, Obj
  <2>4. FinalizerStays'
    BY <1>0, <2>2 DEF FinalizerStays, Drains, At
  <2>5. KillInOrder'
    BY <1>0, <1>3, <2>2 DEF KillInOrder, Outcome, Temporal, Cron, At
  <2> QED BY <2>3, <2>4, <2>5
<1>5. CASE Looks
  <2>1. /\ ctl'.pc = "delete" /\ ctl'.obj = Obj /\ ctl'.why = ctl.why
        /\ ctl'.rid = IF exec = "open" THEN "open" ELSE "none"
        /\ ctl.pc = "lookup" /\ UNCHANGED engine
    BY <1>1, <1>5, CallContext DEF Looks, Pcs
  <2>2. CopiesAreRuns'
    BY <1>0, <1>2, <2>1 DEF CopiesAreRuns, Undecided, Terminal, At, Obj
  <2>3. FinalizerStays'
    BY <1>0, <2>1 DEF FinalizerStays, Drains, At
  <2>4. KillInOrder'
    BY <1>0, <1>3, <2>1 DEF KillInOrder, Outcome, Temporal, Cron, At, engine
  <2> QED BY <2>2, <2>3, <2>4
<1>6. CASE Deletes /\ ctl.rid # "none"
  <2>0. ctl.rid \in {"none", "open", "old"}
    BY <1>1, CopyType DEF Busy
  <2>1. /\ ctl'.pc = "terminate" /\ ctl'.obj = Obj /\ ctl'.why = ctl.why /\ ctl'.rid = ctl.rid
        /\ ctl.pc = "delete" /\ exec' = exec
    BY <1>1, <1>6, <2>0, CallContext DEF Deletes, Pcs
  <2>2. CopiesAreRuns'
    BY <1>0, <1>2, <2>1 DEF CopiesAreRuns, Undecided, Terminal, At, Obj
  <2>3. FinalizerStays'
    BY <1>0, <2>1 DEF FinalizerStays, Drains, At
  <2>4. sched'.cron = 0 /\ (~Temporal \/ Cron)
    BY <1>0, <1>6 DEF Deletes, KillInOrder
  <2>5. KillInOrder'
    BY <1>0, <2>1, <2>4 DEF KillInOrder, Outcome, Temporal, Cron, At
  <2> QED BY <2>2, <2>3, <2>5
<1>7. CASE (Deletes /\ ctl.rid = "none") \/ Terminates
  <2>1. KillDone /\ ctl.pc \in {"delete", "terminate"}
    BY <1>7 DEF Deletes, Terminates
  <2>2. /\ ctl'.rid = "none"
        /\ ctl'.pc \in {"idle", "spec", "status", "count", "killed", "finish"}
        /\ ctl'.pc = "count" => ctl'.obj = Obj
        /\ ctl'.pc \in {"count", "killed", "finish"} => ctl.why # "user"
    BY <1>1, <2>1, DoneFacts
  <2>3. CopiesAreRuns'
    BY <1>0, <1>2, <2>2 DEF CopiesAreRuns, Undecided, Terminal, At, Obj
  <2>4. FinalizerStays'
    BY <1>0, <2>1, <2>2 DEF FinalizerStays, Drains, At
  <2>5. ~Armed'
    BY <1>0, <1>7, DoneDisarms
  <2>6. KillInOrder'
    BY <1>0, <1>3, <2>2, <2>5 DEF KillInOrder, Temporal, Cron, At
  <2> QED BY <2>3, <2>4, <2>6
<1>8. CASE GivesUp
  <2>1. KillRefused /\ ctl.pc \in {"lookup", "delete", "terminate"}
    BY <1>8 DEF GivesUp
  <2>2. /\ ctl'.rid = "none" /\ ctl'.pc \in {"idle", "spec", "status", "finish"}
        /\ ctl'.pc \in {"spec", "status"} => ctl'.obj = Obj
        /\ ctl'.pc = "finish" => ctl.why # "user"
    BY <1>1, <2>1, RefusedFacts
  <2>3. CopiesAreRuns'
    BY <1>0, <1>2, <2>2 DEF CopiesAreRuns, Undecided, Terminal, At, Obj
  <2>4. FinalizerStays'
    BY <1>0, <2>1, <2>2 DEF FinalizerStays, Drains, At
  <2>5. Outcome("killed")' /\ "read" \notin stale' => run'.state \notin {"running", "paused"}
    BY <1>0, <1>2, <2>2 DEF Outcome, Obj
  <2>6. KillInOrder'
    BY <1>0, <1>3, <2>2, <2>5 DEF KillInOrder, Temporal, Cron, At
  <2> QED BY <2>3, <2>4, <2>6
<1> QED BY <1>4, <1>5, <1>6, <1>7, <1>8 DEF KillStep

\* The stores of a reconcile, and one that ends with nothing stored.
LEMMA StoresInv ==
    ASSUME TypeOK, CopiesAreRuns, FinalizerStays, KillInOrder, Stores
    PROVE  CopiesAreRuns' /\ FinalizerStays' /\ KillInOrder'
<1>0. ~At("idle") /\ Obj \in Object /\ run \in Object
  BY StoresStep, CopyType DEF TypeOK
<1>1. CASE UNCHANGED <<store, engine, world, faults>> /\ Rests
  <2>1. ctl'.pc = "idle" /\ ctl'.rid = "none" /\ UNCHANGED <<run, cache, stale, sched, exec, setup>>
    BY <1>1, IdleFacts DEF Rests, store, engine, world
  <2>2. CopiesAreRuns'
    BY <2>1, IdleFacts DEF CopiesAreRuns, Undecided, At
  <2>3. FinalizerStays'
    BY <2>1 DEF FinalizerStays, Drains, At
  <2>4. KillInOrder'
    BY <2>1 DEF KillInOrder, Outcome, Temporal, Cron, At
  <2> QED BY <2>2, <2>3, <2>4
<1>2. CASE StoreStep
  <2>1. /\ "read" \notin stale /\ stale' = {"cache"} /\ cache' = cache
        /\ UNCHANGED <<sched, exec, setup>>
    BY <1>2 DEF StoreStep, engine, world
  <2>2. [run EXCEPT !.state = "killed"].ts = run.ts /\ [run EXCEPT !.state = "killed"].fin = run.fin
    BY <1>0 DEF Object
  <2>3. run'.ts = run.ts /\ (ctl.pc # "finish" /\ run.fin => run'.fin)
    <3>1. run \in Object /\ TakenBack.ts = run.ts /\ TakenBack.fin = run.fin
          /\ WithStatus(run, Obj).ts = run.ts /\ WithStatus(run, Obj).fin = run.fin
      BY <1>0, StoreEdits DEF TypeOK
    <3>2. CASE ctl.pc = "finish"
      <4>1. run' = [run EXCEPT !.imm = TRUE, !.counted = FALSE, !.fin = FALSE]
        BY <1>2, <3>2 DEF StoreStep
      <4> QED BY <3>1, <3>2, <4>1, MetaEdits
    <3>3. CASE ctl.pc # "finish"
      <4>1. \/ run' \in {TakenBack, WithStatus(run, Obj), [run EXCEPT !.state = "killed"]}
            \/ run' \in {[run EXCEPT !.fin = TRUE], [run EXCEPT !.imm = TRUE],
                         [run EXCEPT !.counted = TRUE]}
        BY <1>2, <3>3 DEF StoreStep
      <4>2. CASE run' \in {TakenBack, WithStatus(run, Obj), [run EXCEPT !.state = "killed"]}
        BY <2>2, <3>1, <4>2
      <4>3. CASE run' \in {[run EXCEPT !.fin = TRUE], [run EXCEPT !.imm = TRUE],
                           [run EXCEPT !.counted = TRUE]}
        BY <3>1, <4>3, MetaEdits
      <4> QED BY <4>1, <4>2, <4>3
    <3> QED BY <3>2, <3>3
  <2>4. /\ ctl'.rid = "none" /\ ctl'.pc \in {"idle", "step", "status", "finish"}
        /\ ctl'.pc = "step" => run'.fin /\ run'.state = run.state /\ ctl'.obj = run' /\ ctl.pc = "fin"
        /\ ctl'.pc = "status" => run'.state = run.state /\ ctl'.obj = Obj /\ ctl.pc = "spec"
        /\ ctl'.pc = "finish" => ctl.pc \in {"mark", "killed"}
    <3>1. run' \in Object
      BY StoresContext DEF TypeOK
    <3>2. CASE Rests
      BY <3>2, IdleFacts DEF Rests
    <3>3. CASE ctl.pc = "fin" /\ run' = [run EXCEPT !.fin = TRUE] /\ Goes("step", run')
      <4>1. ctl'.pc = "step" /\ ctl'.obj = run' /\ ctl'.rid = "none"
        BY <3>1, <3>3, GoesType DEF Pcs
      <4>2. run'.fin /\ run'.state = run.state
        BY <1>0, <3>3, MetaEdits
      <4> QED BY <3>3, <4>1, <4>2
    <3>4. CASE ctl.pc = "spec" /\ run' = TakenBack /\ Goes("status", Obj)
      <4>1. ctl'.pc = "status" /\ ctl'.obj = Obj /\ ctl'.rid = "none"
        BY <1>0, <3>4, GoesType DEF Pcs
      <4> QED BY <1>0, <3>4, <4>1, StoreEdits
    <3>5. CASE ctl.pc \in {"mark", "killed"} /\ Goes("finish", run')
      BY <3>1, <3>5, GoesType DEF Pcs
    <3> QED BY <1>2, <3>2, <3>3, <3>4, <3>5 DEF StoreStep
  <2>5. CopiesAreRuns'
    BY <2>1, <2>4, IdleFacts DEF CopiesAreRuns, Undecided, Pcs, Terminal, At, Obj
  <2>6. FinalizerStays'
    BY <2>1, <2>3, <2>4 DEF FinalizerStays, Drains, At
  <2>7. KillInOrder'
    BY <2>1, <2>4 DEF KillInOrder, Outcome, Temporal, Cron, At, Obj, Armed
  <2> QED BY <2>5, <2>6, <2>7
<1> QED BY <1>1, <1>2, StoresStep

LEMMA ReconcileInv ==
    ASSUME TypeOK, CopiesAreRuns, FinalizerStays, KillInOrder, Reconcile
    PROVE  CopiesAreRuns' /\ FinalizerStays' /\ KillInOrder'
<1>0. /\ UNCHANGED <<run, cache, sched, exec, setup>> /\ cache \in Object
      /\ "read" \notin stale' => cache = run
      /\ "cache" \notin stale' => cache = run
  BY DEF Reconcile, engine, world, CopiesAreRuns, TypeOK
<1>1. CASE ctl' = Idle
  <2>1. ctl'.pc = "idle" /\ ctl'.rid = "none"
    BY <1>1, IdleFacts
  <2>2. CopiesAreRuns'
    BY <1>0, <2>1, IdleFacts DEF CopiesAreRuns, Undecided, At
  <2>3. FinalizerStays'
    BY <1>0, <2>1 DEF FinalizerStays, Drains, At
  <2>4. KillInOrder'
    BY <1>0, <2>1 DEF KillInOrder, Outcome, Temporal, Cron, At
  <2> QED BY <2>2, <2>3, <2>4
<1>2. CASE ctl' # Idle
  <2>1. /\ ctl'.obj = cache /\ ctl'.rid = "none"
        /\ ctl'.pc \in {"fin", "imm", "step", "lookup", "mark", "finish"}
        /\ ctl'.pc = "step" => ~cache.ts /\ cache.fin
        /\ ctl'.pc \in {"fin", "step", "lookup", "mark"} => ~Terminal(cache)
        /\ ctl'.pc \in {"lookup", "mark", "finish"} => cache.ts
        /\ ctl'.pc = "mark" => cache.state = "invalid"
    BY <1>0, <1>2, ReconcileStep, EntryFacts
  <2>2. CopiesAreRuns'
    BY <1>0, <2>1 DEF CopiesAreRuns, Undecided, Terminal, At, Obj
  <2>3. FinalizerStays'
    BY <1>0, <2>1 DEF FinalizerStays, Drains, At
  <2>4. KillInOrder'
    BY <1>0, <2>1 DEF KillInOrder, Outcome, Temporal, Cron, At
  <2> QED BY <2>2, <2>3, <2>4
<1> QED BY <1>1, <1>2

LEMMA WorldInv ==
    ASSUME TypeOK, CopiesAreRuns, FinalizerStays, KillInOrder,
           \/ CacheSync \/ Crash \/ UserWrites \/ Delete \/ DrainTimeout \/ Fire \/ Closes
           \/ UNCHANGED vars
    PROVE  CopiesAreRuns' /\ FinalizerStays' /\ KillInOrder'
<1>1. CASE CacheSync
  <2>1. /\ cache' = run /\ UNCHANGED <<run, ctl, sched, exec, setup>>
        /\ "read" \notin stale' => "read" \notin stale
    BY <1>1 DEF CacheSync, engine, world
  <2>2. CopiesAreRuns'
    BY <2>1 DEF CopiesAreRuns, Terminal, At, Obj
  <2>3. FinalizerStays'
    BY <2>1 DEF FinalizerStays, Drains, At
  <2>4. KillInOrder'
    BY <2>1 DEF KillInOrder, Outcome, Temporal, Cron, At, Armed, Obj
  <2> QED BY <2>2, <2>3, <2>4
<1>2. CASE Crash
  <2>1. /\ cache' = run /\ UNCHANGED <<run, sched, exec, setup>>
        /\ ctl'.pc = "idle" /\ ctl'.rid = "none"
    BY <1>2, IdleFacts DEF Crash, engine, world
  <2>2. CopiesAreRuns'
    BY <2>1, IdleFacts DEF CopiesAreRuns, Undecided, At
  <2>3. FinalizerStays'
    BY <2>1 DEF FinalizerStays, Drains, At
  <2>4. KillInOrder'
    BY <2>1 DEF KillInOrder, Outcome, Temporal, Cron, At
  <2> QED BY <2>2, <2>3, <2>4
<1>3. CASE UserWrites \/ Delete
  <2>1. OthersWrite
    BY <1>3, WritesStep
  <2>2. UNCHANGED <<cache, ctl, sched, exec, setup>> /\ stale' = {"cache", "read"}
        /\ run'.fin = run.fin /\ (run.ts => run'.ts)
    BY <2>1 DEF OthersWrite, engine
  <2>3. CopiesAreRuns'
    BY <2>2 DEF CopiesAreRuns, At, Obj
  <2>4. FinalizerStays'
    BY <2>2 DEF FinalizerStays, Drains, At
  <2>5. KillInOrder'
    BY <2>2 DEF KillInOrder, Outcome, Temporal, Cron, At, Armed, Obj
  <2> QED BY <2>3, <2>4, <2>5
<1>4. CASE DrainTimeout \/ UNCHANGED vars
  <2>1. UNCHANGED <<run, cache, stale, ctl, sched, exec, setup>>
    BY <1>4 DEF DrainTimeout, store, engine, vars
  <2>2. CopiesAreRuns' /\ FinalizerStays'
    BY <2>1 DEF CopiesAreRuns, FinalizerStays, Drains, Terminal, At, Obj
  <2>3. KillInOrder'
    BY <2>1 DEF KillInOrder, Outcome, Temporal, Cron, At, Armed, Obj
  <2> QED BY <2>2, <2>3
<1>5. CASE Fire
  <2>1. /\ UNCHANGED <<run, cache, stale, ctl, sched, setup>>
        /\ sched.cron # 0 /\ exec # "open"
    BY <1>5 DEF Fire, store, world
  <2>2. CopiesAreRuns' /\ FinalizerStays'
    BY <2>1 DEF CopiesAreRuns, FinalizerStays, Drains, Terminal, At, Obj
  <2>3. KillInOrder'
    BY <2>1 DEF KillInOrder, Outcome, Temporal, Cron, At, Armed, Obj
  <2> QED BY <2>2, <2>3
<1>6. CASE Closes
  <2>1. /\ UNCHANGED <<run, cache, stale, sched, setup>> /\ exec = "open"
        /\ ctl'.pc = ctl.pc /\ ctl'.obj = ctl.obj /\ ctl'.why = ctl.why
        /\ ctl'.rid # "open" /\ (ctl'.rid = "none" => ctl.rid = "none")
    BY <1>6, ClosesStep DEF store, world
  <2>2. CopiesAreRuns' /\ FinalizerStays'
    BY <2>1 DEF CopiesAreRuns, FinalizerStays, Drains, Terminal, At, Obj
  <2>3. KillInOrder'
    BY <2>1 DEF KillInOrder, Outcome, Temporal, Cron, At, Armed, Obj
  <2> QED BY <2>2, <2>3
<1> QED BY <1>1, <1>2, <1>3, <1>4, <1>5, <1>6

-----------------------------------------------------------------------------
(* The theorems.                                                           *)

TriggerInv == TypeOK /\ CopiesAreRuns /\ FinalizerStays /\ KillInOrder

\* What the theorems rest on: what an old copy can still lead to, and how far a kill is.
THEOREM TriggerInvariant == Spec => []TriggerInv
<1>1. Init => CopiesAreRuns /\ FinalizerStays /\ KillInOrder
  BY IdleFacts DEF Init, CopiesAreRuns, FinalizerStays, KillInOrder, NewTrigger, NoSchedule,
     Undecided, Drains, Outcome, At
<1>2. TriggerInv /\ [Next]_vars => (CopiesAreRuns /\ FinalizerStays /\ KillInOrder)'
  <2> SUFFICES ASSUME TriggerInv, [Next]_vars
               PROVE  (CopiesAreRuns /\ FinalizerStays /\ KillInOrder)'
    OBVIOUS
  <2>0. TypeOK /\ CopiesAreRuns /\ FinalizerStays /\ KillInOrder
    BY DEF TriggerInv
  <2>1. CASE StateMachine
    BY <2>0, <2>1, StateMachineStep, MachineInv
  <2>2. CASE Killing
    BY <2>0, <2>2, KillingStep, KillingInv
  <2>3. CASE Stores
    BY <2>0, <2>3, StoresInv
  <2>4. CASE Reconcile
    BY <2>0, <2>4, ReconcileInv
  <2>5. CASE \/ CacheSync \/ Crash \/ UserWrites \/ Delete \/ DrainTimeout \/ Fire \/ Closes
             \/ UNCHANGED vars
    BY <2>0, <2>5, WorldInv
  <2> QED BY <2>1, <2>2, <2>3, <2>4, <2>5 DEF Next
<1>3. Init /\ TypeOK => TriggerInv
  BY <1>1 DEF TriggerInv
<1>4. TriggerInv /\ [Next]_vars => TriggerInv'
  BY <1>2, TypeNext DEF TriggerInv
<1> QED BY <1>3, <1>4, TypeCorrect, PTL DEF Spec

\* What a step that changes the state the trigger is in has read.
LEMMA StateChanges ==
    ASSUME TriggerInv, [Next]_vars, run'.state # run.state
    PROVE  /\ "read" \notin stale /\ UNCHANGED engine /\ setup' = setup
           /\ \/ ctl.pc = "status" /\ run'.state = Obj.state
              \/ ctl.pc \in {"mark", "killed"}
<1> USE DEF TriggerInv
<1>1. CASE Stores
  <2>1. StoreStep /\ ~At("idle") /\ run \in Object
    BY <1>1, StoresStep DEF store, TypeOK
  <2>2. "read" \notin stale /\ UNCHANGED engine /\ setup' = setup
    BY <2>1 DEF StoreStep, world
  <2>3. CASE ctl.pc = "status" /\ run' = WithStatus(run, Obj)
    BY <2>1, <2>2, <2>3, StoreEdits
  <2>4. CASE ctl.pc = "spec" /\ run' = TakenBack
    BY <2>1, <2>4, StoreEdits
  <2>5. CASE \/ run' = [run EXCEPT !.fin = TRUE] \/ run' = [run EXCEPT !.imm = TRUE]
             \/ run' = [run EXCEPT !.counted = TRUE]
             \/ run' = [run EXCEPT !.imm = TRUE, !.counted = FALSE, !.fin = FALSE]
    BY <2>1, <2>5, MetaEdits
  <2>6. CASE ctl.pc \in {"mark", "killed"}
    BY <2>2, <2>6
  <2> QED BY <2>1, <2>3, <2>4, <2>5, <2>6 DEF StoreStep
<1>2. CASE StateMachine
  BY <1>2, StateMachineStep DEF MachineStep
<1>3. CASE Killing
  BY <1>3, KillingStep
<1>4. CASE UserWrites \/ Delete
  BY <1>4, WritesStep DEF OthersWrite
<1>5. CASE Reconcile \/ CacheSync \/ Crash \/ DrainTimeout \/ Fire \/ Closes \/ UNCHANGED vars
  BY <1>5 DEF Reconcile, CacheSync, Crash, DrainTimeout, Fire, Closes, store, vars
<1> QED BY <1>1, <1>2, <1>3, <1>4, <1>5 DEF Next

\* The state a trigger ended in stays: a copy whose state machine still goes on is older
\* than that, and is refused.
THEOREM EndStays == Spec => EndIsFinal
<1>1. TriggerInv /\ [Next]_vars => (Terminal(run) => run'.state = run.state)
  <2> SUFFICES ASSUME TriggerInv, [Next]_vars, Terminal(run), run'.state # run.state
               PROVE  FALSE
    OBVIOUS
  <2>1. "read" \notin stale /\ ctl.pc \in {"status", "mark", "killed"}
    BY StateChanges
  <2> QED BY <2>1 DEF TriggerInv, CopiesAreRuns, Pcs
<1> QED BY <1>1, TriggerInvariant, PTL DEF Spec, EndIsFinal

LEMMA ArmsUnderFinalizer ==
    ASSUME TriggerInv, [Next]_vars, ~Armed, Armed'
    PROVE  run.fin
<1>0. TypeOK /\ NoSchedule.cron = 0
  BY DEF TriggerInv, NoSchedule
<1>1. CASE StateMachine
  <2>1. Armless /\ setup' = setup
    BY <1>0, <1>1, StateMachineStep DEF MachineStep, world
  <2>2. At("step")
    BY <2>1 DEF Armless, Armed, Temporal, Cron
  <2> QED BY <2>2 DEF TriggerInv, FinalizerStays
<1>2. CASE Killing
  <2>1. KillStep /\ setup' = setup
    BY <1>0, <1>2, KillingStep DEF world
  <2> QED BY <1>0, <2>1 DEF KillStep, Begins, Looks, Deletes, Terminates, GivesUp, engine, Armed,
          Temporal, Cron
<1>3. CASE Stores
  BY <1>0, <1>3, StoresStep DEF StoreStep, engine, world, Armed, Temporal, Cron
<1>4. CASE UserWrites \/ Delete
  BY <1>0, <1>4, WritesStep DEF OthersWrite, engine, Armed, Temporal, Cron
<1>5. CASE Fire
  BY <1>5 DEF Fire, Armed
<1>6. CASE Closes
  BY <1>0, <1>6, ClosesStep DEF Armed, Temporal, Cron, world
<1>7. CASE Reconcile \/ CacheSync \/ Crash \/ DrainTimeout \/ UNCHANGED vars
  BY <1>7 DEF Reconcile, CacheSync, Crash, DrainTimeout, engine, world, vars, Armed, Temporal, Cron
<1> QED BY <1>1, <1>2, <1>3, <1>4, <1>5, <1>6, <1>7 DEF Next

\* Whatever starts pipelines was started under the drain finalizer: the reconcile that
\* starts it is the only one that could take the finalizer away.
THEOREM StartedUnderFinalizer == Spec => ArmedUnderFinalizer
<1>1. TriggerInv /\ [Next]_vars => (~Armed /\ Armed' => run.fin)
  BY ArmsUnderFinalizer
<1> QED BY <1>1, TriggerInvariant, PTL DEF Spec, ArmedUnderFinalizer

\* A trigger that was started is shown KILLED only when nothing of it is left.
THEOREM KilledWhenDisarmed == Spec => KilledIsDisarmed
<1>1. TriggerInv /\ [Next]_vars =>
        (run.state \in {"running", "paused"} /\ run'.state = "killed" => ~Armed')
  <2> SUFFICES ASSUME TriggerInv, [Next]_vars,
                      run.state \in {"running", "paused"}, run'.state = "killed"
               PROVE  ~Armed'
    OBVIOUS
  <2>1. /\ "read" \notin stale /\ UNCHANGED engine /\ setup' = setup
        /\ \/ ctl.pc = "status" /\ Obj.state = "killed"
           \/ ctl.pc \in {"mark", "killed"}
    BY StateChanges
  <2>2. ctl.pc # "mark"
    BY <2>1 DEF TriggerInv, CopiesAreRuns, Undecided, At
  <2>3. ~Armed
    BY <2>1, <2>2 DEF TriggerInv, KillInOrder, Outcome, At
  <2> QED BY <2>1, <2>3 DEF Armed, engine, Temporal, Cron
<1> QED BY <1>1, TriggerInvariant, PTL DEF Spec, KilledIsDisarmed
-----------------------------------------------------------------------------
(* A trigger is not forgotten.                                             *)

\* A reconcile that ends asks to be called again.
Asks == ctl'.pc # "idle" \/ due'

LEMMA EndAsks ==
    ASSUME End(TRUE)
    PROVE  Asks /\ due' /\ ctl'.pc = "idle"
BY IdleFacts DEF End, Asks

LEMMA GoOnAsks ==
    ASSUME NEW pc, NEW o, GoOn(pc, o), pc # "idle"
    PROVE  Asks /\ ctl'.pc = pc
BY DEF GoOn, Asks

LEMMA PersistStatusAsks ==
    ASSUME NEW r, NEW o, PersistStatus(r, o)
    PROVE  Asks /\ ctl'.pc \in {"idle", "status"}
BY EndAsks, GoOnAsks DEF PersistStatus

LEMMA PersistAsks ==
    ASSUME NEW o, Persist(o)
    PROVE  Asks
BY PersistStatusAsks, GoOnAsks DEF Persist

LEMMA StateMachineAsks ==
    ASSUME StateMachine
    PROVE  Asks
<1>1. ASSUME NEW o, Persist(o) \/ PersistStatus(run, o) \/ ShowError(o) \/ GoOn("act", o)
      PROVE  Asks
  BY <1>1, PersistAsks, PersistStatusAsks, GoOnAsks DEF ShowError
<1>2. CASE KillBeforeStart \/ Run \/ RunFails
  BY <1>1, <1>2 DEF KillBeforeStart, Run, RunFails
<1>3. CASE UpdateTrigger \/ UpdateFails
  BY <1>1, <1>3 DEF UpdateTrigger, UpdateFails
<1>4. CASE Watch \/ WatchFails
  BY <1>1, <1>4 DEF Watch, WatchFails
<1>5. CASE WatchBackfill \/ WatchBackfillFails
  BY <1>1, <1>5 DEF WatchBackfill, WatchBackfillFails
<1> QED BY <1>2, <1>3, <1>4, <1>5 DEF StateMachine

LEMMA KillingAsks ==
    ASSUME TypeOK, Killing
    PROVE  Asks
<1>1. ASSUME NEW pc \in {"delete", "terminate"}, NEW rid, ~At("idle"), Kills(pc, rid)
      PROVE  Asks
  <2>1. ctl \in Busy
    BY <1>1, CopyType
  <2> QED BY <1>1, <2>1 DEF Kills, Asks, Busy
<1>2. ASSUME Stopped, ~At("idle")
      PROVE  Asks
  <2>1. ctl.why \in Reasons
    BY <1>2, CopyType DEF Busy
  <2> QED BY <1>2, <2>1, PersistAsks, GoOnAsks DEF Stopped, Reasons
<1>3. ASSUME Refused
      PROVE  Asks
  BY <1>3, EndAsks, GoOnAsks DEF Refused, ShowError
<1>4. CASE BeginKill
  BY <1>4, GoOnAsks DEF BeginKill
<1>5. CASE ListOpen
  BY <1>1, <1>5 DEF ListOpen, At
<1>6. CASE DeleteTrigger
  <2>1. Deleted \/ Refused
    BY <1>6 DEF DeleteTrigger
  <2> QED BY <1>1, <1>2, <1>3, <1>6, <2>1 DEF DeleteTrigger, Deleted, At
<1>7. CASE TerminateWorkflow
  BY <1>2, <1>3, <1>7 DEF TerminateWorkflow, At
<1>8. CASE KillFails
  BY <1>3, <1>8 DEF KillFails
<1> QED BY <1>4, <1>5, <1>6, <1>7, <1>8 DEF Killing

\* A store that ends without asking leaves news for the informer.
LEMMA StoresAwaited ==
    ASSUME TypeOK, Stores
    PROVE  Awaited'
<1>1. CASE Conflict
  BY <1>1, EndAsks DEF Conflict, Awaited
<1>2. CASE ~Conflict
  BY <1>2 DEF Stores, EnsureDrainFinalizer, MarkImmutable, UpdateSpec, UpdateStatus, RequestCancel,
     MarkKilled, CompleteDrain, Update, Awaited
<1> QED BY <1>1, <1>2

\* A reconcile that has nothing to do has seen what is stored, or will see it.
LEMMA NothingToDo ==
    ASSUME Entry(run)[1] = "idle"
    PROVE  Drained \/ (Terminal(run) /\ run.imm /\ ~run.ts)
<1>1. CASE ~run.ts
  BY <1>1 DEF Entry
<1>2. CASE run.ts
  <2>1. Entry(run) = DrainEntry(run)
    BY <1>2 DEF Entry
  <2>2. ASSUME run.fin
        PROVE  FALSE
    <3>1. DrainEntry(run)[1] \in {"finish", "lookup", "mark"}
      BY <2>2 DEF DrainEntry
    <3> QED BY <2>1, <3>1
  <2> QED BY <1>2, <2>2 DEF Drained
<1> QED BY <1>1, <1>2

LEMMA NotForgottenNext ==
    ASSUME TriggerInv, NotForgotten, [Next]_vars
    PROVE  NotForgotten'
<1>0. TypeOK /\ ("cache" \notin stale => cache = run)
  BY DEF TriggerInv, CopiesAreRuns
<1>1. CASE Reconcile
  <2>1. /\ UNCHANGED <<run, cache>> /\ ("cache" \in stale => "cache" \in stale')
        /\ Entry(cache)[1] # "idle" => ctl'.pc # "idle"
    BY <1>1 DEF Reconcile
  <2>2. CASE "cache" \in stale \/ Entry(cache)[1] # "idle"
    BY <2>1, <2>2 DEF NotForgotten, Awaited, At
  <2>3. CASE "cache" \notin stale /\ Entry(cache)[1] = "idle"
    <3>1. Drained \/ (Terminal(run) /\ run.imm /\ ~run.ts)
      BY <1>0, <2>3, NothingToDo
    <3> QED BY <2>1, <3>1 DEF NotForgotten, Drained, Terminal
  <2> QED BY <2>2, <2>3
<1>2. CASE StateMachine \/ Killing
  BY <1>0, <1>2, StateMachineAsks, KillingAsks DEF Asks, NotForgotten, Awaited, At
<1>3. CASE Stores
  BY <1>0, <1>3, StoresAwaited DEF NotForgotten
<1>4. CASE CacheSync \/ Crash \/ UserWrites \/ Delete
  BY <1>4 DEF CacheSync, Crash, UserWrites, Delete, Write, NotForgotten, Awaited
<1>5. CASE DrainTimeout \/ Fire \/ UNCHANGED vars
  <2>1. UNCHANGED <<run, stale, due, ctl>>
    BY <1>5 DEF DrainTimeout, Fire, vars, store
  <2> QED BY <2>1 DEF NotForgotten, Awaited, Drained, Terminal, At
<1>6. CASE Closes
  <2>1. UNCHANGED <<run, stale, due>> /\ ctl'.pc = ctl.pc
    BY <1>0, <1>6, ClosesStep DEF store
  <2> QED BY <2>1 DEF NotForgotten, Awaited, Drained, Terminal, At
<1> QED BY <1>1, <1>2, <1>3, <1>4, <1>5, <1>6 DEF Next

\* Somebody looks at every trigger that is neither drained nor over: each call that fails,
\* each refused update and each restart leaves the next reconcile asked for.
THEOREM TriggerIsKept == Spec => []NotForgotten
<1>1. Init => NotForgotten
  BY DEF Init, NotForgotten, Awaited
<1>2. TriggerInv /\ NotForgotten /\ [Next]_vars => NotForgotten'
  BY NotForgottenNext
<1> QED BY <1>1, <1>2, TriggerInvariant, PTL DEF Spec
-----------------------------------------------------------------------------
(* Orders.                                                                 *)

Ordered(o) == o.action = run.action /\ o.kill = run.kill

\* A reconcile acts on the order that is stored, kills for a user only when told to, and
\* takes an order back when it was carried out.
OrderInv ==
    /\ ctl.pc \in {"fin", "step", "act", "lookup", "delete", "terminate"} /\ "read" \notin stale =>
         Ordered(Obj)
    /\ ctl.pc \in {"lookup", "delete", "terminate"} /\ ctl.why = "user" => Order(Obj) = "kill"
    /\ At("spec") /\ "read" \notin stale /\ run.state \in {"running", "paused"} =>
         \A order \in Orders : Order(run) = order => order # "none" /\ CarriedOut(order)

\* The order of a copy, which no call to the engine changes.
SameOrder(o) == o.action = Obj.action /\ o.kill = Obj.kill

LEMMA PersistedOrder ==
    ASSUME NEW o, Persist(o), SameOrder(o)
    PROVE  ctl'.pc \in {"idle", "status"}
BY PersistStatusAsks DEF Persist, SameOrder

LEMMA ShowErrorOrder ==
    ASSUME NEW o, ShowError(o)
    PROVE  ctl'.pc = "status"
BY GoOnAsks DEF ShowError

\* The state machine takes back only the order to pause or resume that the schedule obeys,
\* and the one to kill a trigger that was not started.
MachineObeys ==
    /\ ctl'.pc = "spec" => \/ Obj.state = "invalid"
                           \/ \A order \in Orders :
                                Order(Obj) = order => order # "none" /\ CarriedOut(order)'
    /\ ctl'.pc = "act" => SameOrder(ctl'.obj)
    /\ ctl'.pc \in {"idle", "spec", "status", "act"}

LEMMA StartObeys ==
    ASSUME TypeOK, KillBeforeStart \/ Run \/ RunFails
    PROVE  MachineObeys
<1>1. Obj \in Object /\ Obj.state = "invalid"
  BY CopyType DEF KillBeforeStart, Run, RunFails, Starting, At
<1>2. \E o : Persist(o)
  BY DEF KillBeforeStart, Run, RunFails
<1>3. ctl'.pc \in {"idle", "spec", "status"}
  BY <1>2, PersistStatusAsks, GoOnAsks DEF Persist
<1> QED BY <1>1, <1>3 DEF MachineObeys

LEMMA ChangeObeys ==
    ASSUME TypeOK, At("step"), ChangeSchedule, Switch(Obj), ~Temporal \/ sched.cron # 0, setup' = setup
    PROVE  \A order \in Orders : Order(Obj) = order => order # "none" /\ CarriedOut(order)'
<1> SUFFICES ASSUME NEW order \in Orders, Order(Obj) = order
             PROVE  order # "none" /\ CarriedOut(order)'
  OBVIOUS
<1>1. Order(Obj) \in {"pause", "resume"} /\ Obj \in Object
  BY CopyType DEF Switch, At
<1>2. CASE ~Temporal
  BY <1>1, <1>2 DEF CarriedOut, Temporal
<1>3. CASE Temporal
  <2>1. sched' = [cron |-> IF Drifted(Obj) THEN Obj.cron ELSE sched.cron,
                  paused |-> IF Switch(Obj) THEN Order(Obj) = "pause" ELSE sched.paused]
    BY <1>3 DEF ChangeSchedule
  <2>2. sched'.paused = (Order(Obj) = "pause")
    BY <2>1
  <2>3. Obj.cron # 0
    BY <1>1 DEF Object
  <2>4. sched'.cron # 0
    BY <1>3, <2>1, <2>3
  <2> QED BY <1>1, <2>2, <2>4 DEF CarriedOut
<1> QED BY <1>2, <1>3

LEMMA UpdateObeys ==
    ASSUME TypeOK, UpdateTrigger \/ UpdateFails
    PROVE  MachineObeys
<1>1. Obj \in Object /\ At("step") /\ setup' = setup
  BY CopyType DEF UpdateTrigger, UpdateFails, Working, At, world
<1>2. CASE ShowError(Obj)
  BY <1>2, ShowErrorOrder DEF MachineObeys
<1>3. CASE /\ ChangeSchedule /\ ~(Temporal /\ sched.cron = 0)
           /\ Switch(Obj) /\ Persist(Updated(Obj))
  <2>1. ctl'.pc \in {"idle", "spec", "status"}
    BY <1>3, PersistStatusAsks, GoOnAsks DEF Persist
  <2>2. \A order \in Orders : Order(Obj) = order => order # "none" /\ CarriedOut(order)'
    BY <1>1, <1>3, ChangeObeys
  <2> QED BY <2>1, <2>2 DEF MachineObeys
<1>4. CASE ~Switch(Obj) /\ GoOn("act", Updated(Obj))
  <2>1. ctl'.pc = "act" /\ ctl'.obj = Updated(Obj)
    BY <1>4 DEF GoOn
  <2>2. SameOrder(Updated(Obj))
    BY <1>1, <1>4 DEF Updated, SameOrder, Object
  <2> QED BY <2>1, <2>2 DEF MachineObeys
<1> QED BY <1>2, <1>3, <1>4 DEF UpdateTrigger, UpdateFails

LEMMA WatchObeys ==
    ASSUME Watch \/ WatchFails \/ WatchBackfill \/ WatchBackfillFails
    PROVE  MachineObeys
<1>1. \E o : PersistStatus(run, o) \/ ShowError(o)
  BY DEF Watch, WatchFails, WatchBackfill, WatchBackfillFails
<1> QED BY <1>1, PersistStatusAsks, ShowErrorOrder DEF MachineObeys

LEMMA StateMachineObeys ==
    ASSUME TypeOK, StateMachine
    PROVE  MachineObeys
BY StartObeys, UpdateObeys, WatchObeys DEF StateMachine

\* A kill keeps to the order it was begun for.
KillObeys ==
    \/ /\ ctl'.pc = "lookup" /\ ctl.pc \in {"step", "act"}
       /\ Order(Obj) = "kill" /\ SameOrder(ctl'.obj)
    \/ /\ ctl'.pc \in {"delete", "terminate"} /\ ctl.pc \in {"lookup", "delete"}
       /\ ctl'.obj = Obj /\ ctl'.why = ctl.why
    \/ /\ ctl'.pc = "spec" /\ ctl.pc \in {"delete", "terminate"} /\ ctl.why = "user" /\ ~Armed'
    \/ ctl'.pc \in {"idle", "status", "count", "killed", "finish"}

LEMMA StoppedObeys ==
    ASSUME TypeOK, ctl.pc \in {"delete", "terminate"}, Stopped, ~Armed'
    PROVE  KillObeys
<1>1. ctl.why \in Reasons
  BY CopyType DEF Busy, At
<1>2. CASE ctl.why = "user"
  <2>1. \E o : Persist(o)
    BY <1>2 DEF Stopped
  <2> QED BY <1>2, <2>1, PersistStatusAsks, GoOnAsks DEF Persist, KillObeys
<1>3. CASE ctl.why \in {"cancel", "progress", "force"}
  <2>1. ctl'.pc \in {"count", "killed", "finish"}
    BY <1>3, GoOnAsks DEF Stopped
  <2> QED BY <2>1 DEF KillObeys
<1> QED BY <1>1, <1>2, <1>3 DEF Reasons

LEMMA RefusedObeys ==
    ASSUME Refused
    PROVE  KillObeys
<1>1. ctl'.pc \in {"idle", "status", "finish"}
  BY EndAsks, GoOnAsks DEF Refused, ShowError
<1> QED BY <1>1 DEF KillObeys

LEMMA KillingObeys ==
    ASSUME TypeOK, KillInOrder, Killing
    PROVE  KillObeys
<1>0. setup' = setup
  BY KillingStep DEF world
<1>1. CASE BeginKill
  <2>1. /\ ctl.pc \in {"step", "act"} /\ Obj \in Object /\ Order(Obj) = "kill"
        /\ ctl'.pc = "lookup" /\ ctl'.obj = Synced
    BY <1>1, CopyType DEF BeginKill, Acting, Working, At, GoOn
  <2>2. SameOrder(Synced)
    BY <2>1 DEF Synced, SameOrder, Object
  <2> QED BY <2>1, <2>2 DEF KillObeys
<1>2. CASE ListOpen
  <2>1. ctl \in Busy /\ ctl.pc = "lookup"
    BY <1>2, CopyType DEF ListOpen, At
  <2>2. ctl' = [ctl EXCEPT !.pc = "delete", !.rid = IF exec = "open" THEN "open" ELSE "none"]
    BY <1>2 DEF ListOpen, Kills
  <2>3. ctl'.pc = "delete" /\ ctl'.obj = Obj /\ ctl'.why = ctl.why
    BY <2>1, <2>2 DEF Busy, Obj
  <2> QED BY <2>1, <2>3 DEF KillObeys
<1>3. CASE DeleteTrigger
  <2>1. ctl \in Busy /\ ctl.pc = "delete"
    BY <1>3, CopyType DEF DeleteTrigger, At
  <2>2. CASE Refused
    BY <2>2, RefusedObeys
  <2>3. CASE ctl.rid # "none" /\ Kills("terminate", ctl.rid)
    <3>1. ctl'.pc = "terminate" /\ ctl'.obj = Obj /\ ctl'.why = ctl.why
      BY <2>1, <2>3 DEF Kills, Busy, Obj
    <3> QED BY <2>1, <3>1 DEF KillObeys
  <2>4. CASE ctl.rid = "none" /\ Stopped /\ ~(Temporal /\ sched.cron = 0)
    <3>1. NoSchedule.cron = 0
      BY DEF NoSchedule
    <3>2. IF ~Temporal THEN UNCHANGED engine ELSE sched' = NoSchedule /\ exec' = exec
      BY <1>3, <2>4 DEF DeleteTrigger, engine
    <3>3. ~Armed'
      BY <1>0, <2>1, <2>4, <3>1, <3>2 DEF Armed, KillInOrder, Temporal, Cron, At, engine
    <3> QED BY <2>1, <2>4, <3>3, StoppedObeys
  <2>5. CASE Refused /\ Temporal /\ sched.cron = 0
    BY <2>5, RefusedObeys
  <2> QED BY <1>3, <2>2, <2>3, <2>4 DEF DeleteTrigger, Deleted
<1>4. CASE TerminateWorkflow
  <2>1. ctl.pc = "terminate" /\ sched' = sched
    BY <1>4 DEF TerminateWorkflow, At
  <2>2. CASE Refused
    BY <2>2, RefusedObeys
  <2>3. CASE Stopped /\ exec' = "terminated"
    <3>1. ~Armed'
      BY <1>0, <2>1, <2>3 DEF Armed, KillInOrder, At
    <3> QED BY <2>1, <2>3, <3>1, StoppedObeys
  <2> QED BY <1>4, <2>2, <2>3 DEF TerminateWorkflow
<1>5. CASE KillFails
  BY <1>5, RefusedObeys DEF KillFails
<1> QED BY <1>1, <1>2, <1>3, <1>4, <1>5 DEF Killing

\* A deletion kills for reasons of its own.
LEMMA DrainsKill ==
    ASSUME NEW o \in Object, Entry(o)[1] = "lookup"
    PROVE  Entry(o)[2] # "user"
<1>1. o.ts /\ Entry(o) = DrainEntry(o)
  BY DEF Entry
<1>2. DrainEntry(o) \in {<<"lookup", "force">>, <<"lookup", "cancel">>, <<"lookup", "progress">>}
  BY <1>1 DEF DrainEntry
<1> QED BY <1>1, <1>2

\* A store leaves the order alone, but for the one that takes it back.
LEMMA StoresOrder ==
    ASSUME TypeOK, StoreStep, ctl.pc # "spec"
    PROVE  run'.action = run.action /\ run'.kill = run.kill
<1>1. run \in Object
  BY DEF TypeOK
<1>2. CASE run' = WithStatus(run, Obj)
  BY <1>1, <1>2 DEF WithStatus, Object
<1>3. CASE \/ run' = [run EXCEPT !.fin = TRUE] \/ run' = [run EXCEPT !.imm = TRUE]
           \/ run' = [run EXCEPT !.counted = TRUE] \/ run' = [run EXCEPT !.state = "killed"]
           \/ run' = [run EXCEPT !.imm = TRUE, !.counted = FALSE, !.fin = FALSE]
  BY <1>1, <1>3 DEF Object
<1> QED BY <1>2, <1>3 DEF StoreStep

LEMMA MachineOrders ==
    ASSUME TriggerInv, OrderInv, StateMachine
    PROVE  OrderInv'
<1>0. TypeOK /\ CopiesAreRuns
  BY DEF TriggerInv
<1>1. /\ MachineObeys /\ ctl.pc \in {"step", "act"} /\ UNCHANGED <<run, stale>>
  BY <1>0, StateMachineObeys, StateMachineStep DEF MachineStep
<1>2. "read" \notin stale => Ordered(Obj) /\ Obj.state = run.state
  BY <1>0, <1>1 DEF OrderInv, CopiesAreRuns, Undecided
<1>3. ctl'.pc \in {"idle", "spec", "status", "act"}
  BY <1>1 DEF MachineObeys
<1>4. ctl'.pc = "act" /\ "read" \notin stale' => Ordered(Obj)'
  BY <1>1, <1>2 DEF MachineObeys, SameOrder, Ordered, Obj
<1>5. ctl'.pc = "spec" /\ "read" \notin stale' /\ run'.state \in {"running", "paused"} =>
        \A order \in Orders : Order(run') = order => order # "none" /\ CarriedOut(order)'
  <2> SUFFICES ASSUME ctl'.pc = "spec", "read" \notin stale', run'.state \in {"running", "paused"},
                      NEW order \in Orders, Order(run') = order
               PROVE  order # "none" /\ CarriedOut(order)'
    OBVIOUS
  <2>1. Order(Obj) = order /\ Obj.state # "invalid"
    BY <1>1, <1>2 DEF Order, Ordered
  <2> QED BY <1>1, <2>1 DEF MachineObeys
<1> QED BY <1>3, <1>4, <1>5 DEF OrderInv, At

LEMMA KillingOrders ==
    ASSUME TriggerInv, OrderInv, Killing
    PROVE  OrderInv'
<1>0. TypeOK /\ KillInOrder
  BY DEF TriggerInv
<1>1. KillObeys /\ UNCHANGED <<run, stale>>
  BY <1>0, KillingObeys, KillingStep
<1>2. CASE /\ ctl'.pc = "lookup" /\ ctl.pc \in {"step", "act"}
           /\ Order(Obj) = "kill" /\ SameOrder(ctl'.obj)
  <2>1. Order(Obj)' = "kill"
    BY <1>2 DEF Order, SameOrder, Obj
  <2>2. "read" \notin stale' => Ordered(Obj)'
    BY <1>1, <1>2 DEF OrderInv, Ordered, SameOrder, Obj
  <2> QED BY <1>2, <2>1, <2>2 DEF OrderInv, At
<1>3. CASE /\ ctl'.pc \in {"delete", "terminate"} /\ ctl.pc \in {"lookup", "delete"}
           /\ ctl'.obj = Obj /\ ctl'.why = ctl.why
  <2>1. ctl'.why = "user" => Order(Obj)' = "kill"
    BY <1>3 DEF OrderInv, Order, Obj
  <2>2. "read" \notin stale' => Ordered(Obj)'
    BY <1>1, <1>3 DEF OrderInv, Ordered, Obj
  <2> QED BY <1>3, <2>1, <2>2 DEF OrderInv, At
<1>4. CASE ctl'.pc = "spec" /\ ctl.pc \in {"delete", "terminate"} /\ ctl.why = "user" /\ ~Armed'
  <2>1. "read" \notin stale' => Order(run') = "kill"
    BY <1>1, <1>4 DEF OrderInv, Order, Ordered
  <2>2. CarriedOut("kill")'
    BY <1>4 DEF CarriedOut
  <2> QED BY <1>4, <2>1, <2>2 DEF OrderInv, At
<1>5. CASE ctl'.pc \in {"idle", "status", "count", "killed", "finish"}
  BY <1>5 DEF OrderInv, At
<1> QED BY <1>1, <1>2, <1>3, <1>4, <1>5 DEF KillObeys

LEMMA StoresOrders ==
    ASSUME TriggerInv, OrderInv, Stores
    PROVE  OrderInv'
<1>0. TypeOK
  BY DEF TriggerInv
<1>1. CASE Rests \/ \E pc \in {"status", "finish"} : \E o : Goes(pc, o)
  <2>1. ctl'.pc \in {"idle", "status", "finish"}
    BY <1>1, IdleFacts DEF Rests, Goes
  <2> QED BY <2>1 DEF OrderInv, At
<1>2. CASE Goes("step", run')
  <2>1. ctl'.pc = "step" /\ ctl'.obj = run'
    BY <1>2 DEF Goes
  <2> QED BY <2>1 DEF OrderInv, Ordered, At, Obj
<1> QED BY <1>0, <1>1, <1>2, StoresStep DEF StoreStep

LEMMA ReconcileOrders ==
    ASSUME TriggerInv, OrderInv, Reconcile
    PROVE  OrderInv'
<1>0. /\ TypeOK /\ cache \in Object /\ UNCHANGED <<run, cache>>
      /\ "read" \notin stale' => cache = run
  BY DEF TriggerInv, TypeOK, CopiesAreRuns, Reconcile
<1>1. CASE ctl' = Idle
  BY <1>1, IdleFacts DEF OrderInv, At
<1>2. CASE ctl' # Idle
  <2>1. /\ ctl'.pc = Entry(cache)[1] /\ ctl'.obj = cache /\ ctl'.why = Entry(cache)[2]
        /\ ctl'.pc \in {"fin", "imm", "step", "lookup", "mark", "finish"}
        /\ ctl'.pc = "lookup" => ctl'.why # "user"
    BY <1>0, <1>2, ReconcileStep, EntryFacts, DrainsKill
  <2> QED BY <1>0, <2>1 DEF OrderInv, Ordered, At, Obj
<1> QED BY <1>1, <1>2

LEMMA WorldOrders ==
    ASSUME TriggerInv, OrderInv,
           \/ CacheSync \/ Crash \/ UserWrites \/ Delete \/ DrainTimeout \/ Fire \/ Closes
           \/ UNCHANGED vars
    PROVE  OrderInv'
<1>0. TypeOK
  BY DEF TriggerInv
<1>1. CASE CacheSync \/ DrainTimeout \/ UNCHANGED vars
  <2>1. /\ UNCHANGED <<run, ctl, sched, exec, setup>>
        /\ "read" \notin stale' => "read" \notin stale
    BY <1>1 DEF CacheSync, DrainTimeout, vars, store, engine, world
  <2> QED BY <2>1 DEF OrderInv, Ordered, Order, CarriedOut, Armed, Temporal, Cron, At, Obj
<1>2. CASE Crash
  BY <1>2, IdleFacts DEF Crash, OrderInv, At
<1>3. CASE UserWrites \/ Delete
  <2>1. "read" \in stale' /\ ctl' = ctl
    BY <1>0, <1>3, WritesStep DEF OthersWrite
  <2> QED BY <2>1 DEF OrderInv, Order, At, Obj
<1>4. CASE Fire \/ Closes
  <2>1. /\ UNCHANGED <<run, stale, sched, setup>>
        /\ ctl'.pc = ctl.pc /\ ctl'.obj = ctl.obj /\ ctl'.why = ctl.why
    BY <1>0, <1>4, ClosesStep DEF Fire, store, world
  <2>2. ~Armed => ~Armed'
    BY <1>0, <1>4, <2>1, ClosesStep DEF Fire, Armed, Temporal, Cron
  <2>3. \A order : CarriedOut(order) => CarriedOut(order)'
    BY <2>1, <2>2 DEF CarriedOut, Temporal
  <2> QED BY <2>1, <2>3 DEF OrderInv, Ordered, Order, At, Obj
<1> QED BY <1>1, <1>2, <1>3, <1>4

LEMMA OrdersNext ==
    ASSUME TriggerInv, OrderInv, [Next]_vars
    PROVE  OrderInv'
BY MachineOrders, KillingOrders, StoresOrders, ReconcileOrders, WorldOrders DEF Next

\* What a trigger at work was told is withdrawn only when it was done: the kill left nothing
\* that starts pipelines, the schedule rests or fires.
THEOREM OrdersAreObeyed == Spec => OrdersAreCarriedOut
<1>1. Init => OrderInv
  BY IdleFacts DEF Init, OrderInv, At
<1>2. TriggerInv /\ OrderInv /\ [Next]_vars => OrderInv'
  BY OrdersNext
<1>3. TriggerInv /\ OrderInv /\ [Next]_vars =>
        (run.state \in {"running", "paused"} /\ orders' = orders =>
           \A order \in Orders :
             Order(run) = order /\ Order(run') # order => order # "none" /\ CarriedOut(order)')
  <2> SUFFICES ASSUME TriggerInv, OrderInv, [Next]_vars,
                      run.state \in {"running", "paused"}, orders' = orders,
                      NEW order \in Orders, Order(run) = order, Order(run') # order
               PROVE  order # "none" /\ CarriedOut(order)'
    OBVIOUS
  <2>0. TypeOK /\ run \in Object
    BY DEF TriggerInv, TypeOK
  <2>1. ASSUME run'.action = run.action /\ run'.kill = run.kill
        PROVE  FALSE
    BY <2>1 DEF Order
  <2>2. CASE StoreStep /\ At("spec")
    <3>1. /\ "read" \notin stale /\ UNCHANGED <<sched, exec, setup>>
      BY <2>2 DEF StoreStep, engine, world
    <3>2. order # "none" /\ CarriedOut(order)
      BY <2>2, <3>1 DEF OrderInv
    <3> QED BY <3>1, <3>2 DEF CarriedOut, Armed, Temporal, Cron
  <2>3. CASE Stores /\ ~(StoreStep /\ At("spec"))
    BY <2>0, <2>1, <2>3, StoresStep, StoresOrder DEF store, At
  <2>4. CASE UserWrites
    BY <2>0, <2>4 DEF UserWrites, TypeOK, TriggerAssumption
  <2>5. CASE Delete
    <3>1. run' = [run EXCEPT !.ts = TRUE]
      BY <2>5 DEF Delete, Write
    <3>2. run'.action = run.action /\ run'.kill = run.kill
      BY <2>0, <3>1 DEF Object
    <3> QED BY <2>1, <3>2
  <2>6. CASE StateMachine \/ Killing
    BY <2>0, <2>1, <2>6, StateMachineStep, KillingStep DEF MachineStep
  <2>7. CASE Reconcile \/ CacheSync \/ Crash \/ DrainTimeout \/ Fire \/ Closes \/ UNCHANGED vars
    <3>1. run' = run
      BY <2>7 DEF Reconcile, CacheSync, Crash, DrainTimeout, Fire, Closes, store, vars
    <3> QED BY <2>1, <3>1
  <2> QED BY <2>2, <2>3, <2>4, <2>5, <2>6, <2>7 DEF Next
<1> QED BY <1>1, <1>2, <1>3, TriggerInvariant, PTL DEF Spec, OrdersAreCarriedOut
-----------------------------------------------------------------------------
(* A trigger is a child that is drained.                                   *)

Asking(why) == ctl.pc \in {"lookup", "delete", "terminate"} /\ ctl.why = why

\* What the calls of a drain have seen is so until they store something, unless another
\* write comes first.
DrainInOrder ==
    /\ At("fin") /\ "read" \notin stale => ~run.fin /\ ~run.ts
    /\ At("imm") /\ "read" \notin stale => Terminal(run) /\ ~run.ts /\ ~run.imm
    /\ Drains /\ "read" \notin stale => run.fin /\ run.ts
    /\ Asking("cancel") \/ At("count") => ("read" \notin stale => ~run.counted)
    /\ Asking("force") => expired
    /\ At("finish") /\ "read" \notin stale => Terminal(run) \/ expired

\* Only a trigger that is over, or was deleted, is marked immutable.
MarkedWhenOver == run.imm => Terminal(run) \/ run.ts

DrainFlags == <<run.fin, run.ts, run.imm, run.counted, expired>>

LEMMA DrainEntryFacts ==
    ASSUME NEW o \in Object, Entry(o)[1] # "idle"
    PROVE  /\ Entry(o)[1] = "fin" => ~o.fin /\ ~o.ts
           /\ Entry(o)[1] = "imm" => Terminal(o) /\ ~o.ts /\ ~o.imm
           /\ Entry(o)[1] \in {"lookup", "mark", "finish"} => o.fin /\ o.ts
           /\ Entry(o)[1] = "lookup" => Entry(o)[2] \in {"force", "cancel", "progress"}
           /\ Entry(o)[1] = "lookup" /\ Entry(o)[2] = "cancel" => ~o.counted
           /\ Entry(o)[1] = "lookup" /\ Entry(o)[2] = "force" => expired
           /\ Entry(o)[1] = "finish" => Terminal(o)
<1>1. CASE ~o.ts
  BY <1>1 DEF Entry
<1>2. CASE o.ts
  <2>1. Entry(o) = DrainEntry(o)
    BY <1>2 DEF Entry
  <2>2. CASE ~o.fin
    BY <2>1, <2>2 DEF DrainEntry
  <2>3. CASE o.fin /\ Terminal(o)
    <3>1. DrainEntry(o) = <<"finish", "user">>
      BY <2>3 DEF DrainEntry
    <3> QED BY <1>2, <2>1, <2>3, <3>1
  <2>4. CASE o.fin /\ ~Terminal(o) /\ expired
    <3>1. DrainEntry(o) = <<"lookup", "force">>
      BY <2>4 DEF DrainEntry
    <3> QED BY <1>2, <2>1, <2>4, <3>1
  <2>5. CASE o.fin /\ ~Terminal(o) /\ ~expired /\ o.state = "invalid"
    <3>1. DrainEntry(o) = <<"mark", "user">>
      BY <2>5 DEF DrainEntry
    <3> QED BY <1>2, <2>1, <2>5, <3>1
  <2>6. CASE o.fin /\ ~Terminal(o) /\ ~expired /\ o.state # "invalid" /\ ~o.counted
    <3>1. DrainEntry(o) = <<"lookup", "cancel">>
      BY <2>6 DEF DrainEntry
    <3> QED BY <1>2, <2>1, <2>6, <3>1
  <2>7. CASE o.fin /\ ~Terminal(o) /\ ~expired /\ o.state # "invalid" /\ o.counted
    <3>1. DrainEntry(o) = <<"lookup", "progress">>
      BY <2>7 DEF DrainEntry
    <3> QED BY <1>2, <2>1, <2>7, <3>1
  <2> QED BY <2>2, <2>3, <2>4, <2>5, <2>6, <2>7
<1> QED BY <1>1, <1>2

\* Why the reconcile killed is why it goes on.
LEMMA DoneReasons ==
    ASSUME TypeOK, ~At("idle"), KillDone
    PROVE  /\ ctl'.pc \in {"idle", "spec", "status", "count", "killed", "finish"}
           /\ ctl'.pc = "count" => ctl.why = "cancel"
           /\ ctl'.pc = "killed" => ctl.why = "progress"
           /\ ctl'.pc = "finish" => ctl.why = "force"
<1>0. Obj \in Object /\ {"count", "killed", "finish"} \subseteq Pcs
  BY CopyType DEF Pcs
<1>1. CASE ctl.why = "user" /\ \E o \in Object : Concludes(o) /\ o.state = "killed"
  BY <1>1, ConcludesType
<1>2. CASE ctl.why = "cancel" /\ Goes("count", Obj)
  BY <1>0, <1>2, GoesType
<1>3. CASE ctl.why = "progress" /\ Goes("killed", [Obj EXCEPT !.state = "killed"])
  <2>1. [Obj EXCEPT !.state = "killed"] \in Object
    BY <1>0 DEF Object
  <2> QED BY <1>0, <1>3, <2>1, GoesType
<1>4. CASE ctl.why = "force" /\ Goes("finish", Obj)
  BY <1>0, <1>4, GoesType
<1> QED BY <1>1, <1>2, <1>3, <1>4 DEF KillDone

LEMMA RefusedReasons ==
    ASSUME TypeOK, ~At("idle"), KillRefused
    PROVE  /\ ctl'.pc \in {"idle", "spec", "status", "finish"}
           /\ ctl'.pc = "finish" => ctl.why = "force"
<1>0. Obj \in Object /\ "finish" \in Pcs
  BY CopyType DEF Pcs
<1>1. CASE ctl.why = "user" /\ Concludes(Obj)
  BY <1>0, <1>1, ConcludesType
<1>2. CASE ctl.why = "force" /\ Goes("finish", Obj)
  BY <1>0, <1>2, GoesType
<1>3. CASE ctl.why # "user" /\ Rests
  BY <1>3, IdleFacts DEF Rests
<1> QED BY <1>1, <1>2, <1>3 DEF KillRefused

LEMMA KillingDrain ==
    ASSUME TypeOK, DrainInOrder, KillStep, UNCHANGED <<run, cache, stale, world>>
    PROVE  DrainInOrder'
<1>0. UNCHANGED <<run, stale, expired>>
  BY DEF world
<1>1. ~At("idle")
  BY DEF KillStep, Begins, Looks, Deletes, Terminates, GivesUp, At
<1>2. CASE Begins
  <2>1. ctl'.pc = "lookup" /\ ctl'.why = "user"
    BY <1>2, GoesType DEF Begins, Pcs
  <2> QED BY <1>0, <2>1 DEF DrainInOrder, Drains, Asking, At
<1>3. CASE Looks \/ (Deletes /\ ctl.rid # "none")
  <2>0. ctl.rid \in {"none", "open", "old"}
    BY <1>1, CopyType DEF Busy
  <2>1. /\ ctl.pc \in {"lookup", "delete"} /\ ctl'.pc \in {"delete", "terminate"}
        /\ ctl'.why = ctl.why
    BY <1>1, <1>3, <2>0, CallContext DEF Looks, Deletes, Pcs
  <2> QED BY <1>0, <2>1 DEF DrainInOrder, Drains, Asking, At
<1>4. CASE (Deletes /\ ctl.rid = "none") \/ Terminates
  <2>1. KillDone /\ ctl.pc \in {"delete", "terminate"}
    BY <1>4 DEF Deletes, Terminates
  <2>2. /\ ctl'.pc \in {"idle", "spec", "status", "count", "killed", "finish"}
        /\ ctl'.pc = "count" => ctl.why = "cancel"
        /\ ctl'.pc = "killed" => ctl.why = "progress"
        /\ ctl'.pc = "finish" => ctl.why = "force"
    BY <1>1, <2>1, DoneReasons
  <2> QED BY <1>0, <2>1, <2>2 DEF DrainInOrder, Drains, Asking, At
<1>5. CASE GivesUp
  <2>1. KillRefused /\ ctl.pc \in {"lookup", "delete", "terminate"}
    BY <1>5 DEF GivesUp
  <2>2. /\ ctl'.pc \in {"idle", "spec", "status", "finish"}
        /\ ctl'.pc = "finish" => ctl.why = "force"
    BY <1>1, <2>1, RefusedReasons
  <2> QED BY <1>0, <2>1, <2>2 DEF DrainInOrder, Drains, Asking, At
<1> QED BY <1>2, <1>3, <1>4, <1>5 DEF KillStep

LEMMA StoresDrain ==
    ASSUME TypeOK, DrainInOrder, Stores
    PROVE  DrainInOrder'
<1>0. ~At("idle") /\ Obj \in Object /\ run \in Object
  BY StoresStep, CopyType DEF TypeOK
<1>1. CASE Rests
  <2>1. ctl'.pc = "idle"
    BY <1>1, IdleFacts DEF Rests
  <2> QED BY <2>1 DEF DrainInOrder, Drains, Asking, At
<1>2. CASE StoreStep /\ ctl.pc = "fin" /\ Goes("step", run')
  <2>1. [run EXCEPT !.fin = TRUE] \in Object
    BY <1>0, MetaEdits
  <2>2. ctl'.pc = "step"
    BY <1>2, <2>1, StoresContext, GoesType DEF StoreStep, Pcs, TypeOK
  <2> QED BY <2>2 DEF DrainInOrder, Drains, Asking, At
<1>3. CASE StoreStep /\ ctl.pc = "spec" /\ Goes("status", Obj)
  <2>1. ctl'.pc = "status"
    BY <1>0, <1>3, GoesType DEF Pcs
  <2> QED BY <2>1 DEF DrainInOrder, Drains, Asking, At
<1>4. CASE /\ StoreStep /\ ctl.pc \in {"mark", "killed"}
           /\ run' = [run EXCEPT !.state = "killed"] /\ Goes("finish", run')
  <2>1. run' \in Object /\ run'.fin = run.fin /\ run'.ts = run.ts /\ run'.state = "killed"
    BY <1>0, <1>4 DEF Object
  <2>2. ctl'.pc = "finish" /\ ctl'.why = "user"
    BY <1>4, <2>1, GoesType DEF Pcs
  <2>3. "read" \notin stale
    BY <1>4 DEF StoreStep
  <2>4. run'.fin /\ run'.ts
    BY <1>4, <2>1, <2>3 DEF DrainInOrder, Drains
  <2> QED BY <2>1, <2>2, <2>4 DEF DrainInOrder, Drains, Asking, At, Terminal
<1> QED BY <1>1, <1>2, <1>3, <1>4, StoresStep DEF StoreStep

LEMMA OthersDrain ==
    ASSUME TypeOK, CopiesAreRuns, DrainInOrder,
           \/ StateMachine \/ Reconcile \/ CacheSync \/ Crash \/ UserWrites \/ Delete
           \/ DrainTimeout \/ Fire \/ Closes \/ UNCHANGED vars
    PROVE  DrainInOrder'
<1>1. CASE StateMachine
  <2>1. PICK o \in Object : Moves(o)
    BY <1>1, StateMachineStep DEF MachineStep
  <2>2. ctl'.pc \in {"idle", "act", "spec", "status"}
    BY <2>1, MovesFacts
  <2> QED BY <2>2 DEF DrainInOrder, Drains, Asking, At
<1>2. CASE Reconcile
  <2>0. /\ UNCHANGED <<run, expired>> /\ cache \in Object
        /\ "read" \notin stale' => cache = run
    BY <1>2 DEF Reconcile, CopiesAreRuns, TypeOK, world
  <2>1. CASE ctl' = Idle
    BY <2>1, IdleFacts DEF DrainInOrder, Drains, Asking, At
  <2>2. CASE ctl' # Idle
    <3>1. /\ ctl'.pc = Entry(cache)[1] /\ ctl'.why = Entry(cache)[2] /\ Entry(cache)[1] # "idle"
      BY <1>2, <2>2, ReconcileStep
    <3>2. ctl'.pc \in {"fin", "imm", "step", "lookup", "mark", "finish"}
      BY <2>0, <3>1, EntryFacts
    <3>3. /\ ctl'.pc = "fin" => ~cache.fin /\ ~cache.ts
          /\ ctl'.pc = "imm" => Terminal(cache) /\ ~cache.ts /\ ~cache.imm
          /\ ctl'.pc \in {"lookup", "mark", "finish"} => cache.fin /\ cache.ts
          /\ ctl'.pc = "lookup" /\ ctl'.why = "cancel" => ~cache.counted
          /\ ctl'.pc = "lookup" /\ ctl'.why = "force" => expired
          /\ ctl'.pc = "finish" => Terminal(cache)
      BY <2>0, <3>1, DrainEntryFacts
    <3> QED BY <2>0, <3>2, <3>3 DEF DrainInOrder, Drains, Asking, At, Terminal
  <2> QED BY <2>1, <2>2
<1>3. CASE Crash
  BY <1>3, IdleFacts DEF Crash, DrainInOrder, Drains, Asking, At
<1>4. CASE UserWrites \/ Delete
  <2>1. "read" \in stale' /\ UNCHANGED <<ctl, expired>>
    BY <1>4, WritesStep DEF OthersWrite
  <2> QED BY <2>1 DEF DrainInOrder, Drains, Asking, At
<1>5. CASE CacheSync \/ DrainTimeout \/ Fire \/ Closes \/ UNCHANGED vars
  <2>1. /\ run' = run /\ (expired => expired') /\ ctl'.pc = ctl.pc /\ ctl'.why = ctl.why
        /\ "read" \notin stale' => "read" \notin stale
    BY <1>5, ClosesStep DEF CacheSync, DrainTimeout, Fire, vars, store, world
  <2> QED BY <2>1 DEF DrainInOrder, Drains, Asking, At, Terminal
<1> QED BY <1>1, <1>2, <1>3, <1>4, <1>5

LEMMA DrainStaysInOrder == Spec => []DrainInOrder
<1>1. Init => DrainInOrder
  BY IdleFacts DEF Init, DrainInOrder, Drains, Asking, At
<1>2. TriggerInv /\ DrainInOrder /\ [Next]_vars => DrainInOrder'
  <2> SUFFICES ASSUME TriggerInv, DrainInOrder, [Next]_vars
               PROVE  DrainInOrder'
    OBVIOUS
  <2>1. TypeOK /\ CopiesAreRuns
    BY DEF TriggerInv
  <2>2. CASE Killing
    BY <2>1, <2>2, KillingStep, KillingDrain
  <2>3. CASE Stores
    BY <2>1, <2>3, StoresDrain
  <2> QED BY <2>1, <2>2, <2>3, OthersDrain DEF Next
<1> QED BY <1>1, <1>2, TriggerInvariant, PTL DEF Spec

LEMMA MarkedWhenOverNext ==
    ASSUME TriggerInv, DrainInOrder, MarkedWhenOver, [Next]_vars
    PROVE  MarkedWhenOver'
<1>0. TypeOK /\ run \in Object
  BY DEF TriggerInv, TypeOK
<1>1. Terminal(run) => Terminal(run')
  <2>1. run'.state # run.state => ~Terminal(run)
    BY StateChanges DEF TriggerInv, CopiesAreRuns, Pcs
  <2> QED BY <2>1 DEF Terminal
<1>2. CASE StoreStep
  <2>1. "read" \notin stale /\ ~At("idle")
    BY <1>2, IdleFacts DEF StoreStep, At
  <2>2. CASE ctl.pc = "imm" /\ run' = [run EXCEPT !.imm = TRUE]
    <3>1. Terminal(run')
      BY <1>1, <2>1, <2>2 DEF DrainInOrder, At
    <3> QED BY <3>1 DEF MarkedWhenOver
  <2>3. CASE ctl.pc = "finish" /\ run' = [run EXCEPT !.imm = TRUE, !.counted = FALSE, !.fin = FALSE]
    <3>1. run'.ts
      BY <1>0, <2>1, <2>3 DEF DrainInOrder, Drains, Object
    <3> QED BY <3>1 DEF MarkedWhenOver
  <2>4. CASE \/ run' = [run EXCEPT !.fin = TRUE] \/ run' = [run EXCEPT !.counted = TRUE]
             \/ run' = [run EXCEPT !.state = "killed"]
             \/ run' = TakenBack \/ run' = WithStatus(run, Obj)
    <3>1. run'.imm = run.imm /\ run'.ts = run.ts
      BY <1>0, <2>4 DEF Object, TakenBack, WithStatus
    <3> QED BY <1>1, <3>1 DEF MarkedWhenOver
  <2> QED BY <1>2, <2>2, <2>3, <2>4 DEF StoreStep
<1>3. CASE UserWrites \/ Delete
  <2>1. \/ \E a \in Orders : run' = [run EXCEPT !.action = a]
        \/ run' = [run EXCEPT !.kill = TRUE] \/ run' = [run EXCEPT !.ts = TRUE]
        \/ \E c \in 1..MaxCrons : run' = [run EXCEPT !.cron = c]
    BY <1>3 DEF UserWrites, Delete, Write
  <2>2. run'.imm = run.imm /\ (run.ts => run'.ts)
    BY <1>0, <2>1 DEF Object
  <2> QED BY <1>1, <2>2 DEF MarkedWhenOver
<1>4. CASE ~StoreStep /\ ~(UserWrites \/ Delete)
  <2>1. run' = run
    BY <1>0, <1>4, StateMachineStep, KillingStep, StoresStep
       DEF Next, MachineStep, Reconcile, CacheSync, Crash, DrainTimeout, Fire, Closes, store, vars
  <2> QED BY <2>1 DEF MarkedWhenOver
<1> QED BY <1>2, <1>3, <1>4

LEMMA ImmutableWhenOver == Spec => []MarkedWhenOver
<1>1. Init => MarkedWhenOver
  BY DEF Init, NewTrigger, MarkedWhenOver
<1> QED BY <1>1, MarkedWhenOverNext, TriggerInvariant, DrainStaysInOrder, PTL DEF Spec

LEMMA WorkedFacts ==
    ASSUME TriggerInv, [Next]_vars, UNCHANGED DrainFlags
    PROVE  Child!Work
<1>1. ~Armed /\ Armed' => run.fin
  BY ArmsUnderFinalizer
<1>2. Terminal(run)' \in BOOLEAN /\ Armed' \in BOOLEAN
  BY DEF Terminal, Armed
<1> QED BY <1>1, <1>2 DEF Child!Work, DrainFlags

LEMMA SameArms ==
    ASSUME UNCHANGED <<engine, world>>
    PROVE  Armed' = Armed /\ expired' = expired
BY DEF engine, world, Armed, Temporal, Cron

LEMMA StoresImplement ==
    ASSUME TriggerInv, DrainInOrder, MarkedWhenOver, StoreStep, [Next]_vars
    PROVE  Child!Next
<1>0. /\ run \in Object /\ Armed' = Armed /\ expired' = expired /\ "read" \notin stale
      /\ TypeOK /\ ~At("idle")
  BY SameArms DEF TriggerInv, TypeOK, StoreStep, At
<1>1. CASE ctl.pc = "fin"
  <2>1. ~run.fin /\ ~run.ts /\ ~Terminal(run)
    BY <1>0, <1>1 DEF DrainInOrder, TriggerInv, CopiesAreRuns, Pcs, At
  <2>2. run' = [run EXCEPT !.fin = TRUE]
    BY <1>1 DEF StoreStep
  <2>3. /\ run'.fin /\ run'.ts = run.ts /\ run'.imm = run.imm /\ run'.counted = run.counted
        /\ Terminal(run') = Terminal(run)
    BY <1>0, <2>2 DEF Object, Terminal
  <2> QED BY <1>0, <2>1, <2>3 DEF MarkedWhenOver, Child!EnsureDrainFinalizer, Child!Next
<1>2. CASE ctl.pc = "count"
  <2>1. run.ts /\ run.fin /\ ~run.counted
    BY <1>0, <1>2 DEF DrainInOrder, Drains, At
  <2>2. run' = [run EXCEPT !.counted = TRUE]
    BY <1>2 DEF StoreStep
  <2>3. /\ run'.counted /\ run'.ts = run.ts /\ run'.fin = run.fin /\ run'.imm = run.imm
        /\ Terminal(run') = Terminal(run)
    BY <1>0, <2>2 DEF Object, Terminal
  <2> QED BY <1>0, <2>1, <2>3 DEF Child!RequestCancel, Child!Next
<1>3. CASE ctl.pc = "finish"
  <2>1. run.ts /\ run.fin /\ (Terminal(run) \/ expired)
    BY <1>0, <1>3 DEF DrainInOrder, Drains, At
  <2>2. run' = [run EXCEPT !.imm = TRUE, !.counted = FALSE, !.fin = FALSE]
    BY <1>3 DEF StoreStep
  <2>3. /\ ~run'.fin /\ ~run'.counted /\ run'.imm /\ run'.ts = run.ts
        /\ Terminal(run') = Terminal(run)
    BY <1>0, <2>2 DEF Object, Terminal
  <2> QED BY <1>0, <2>1, <2>3 DEF Child!CompleteDrain, Child!Next
<1>4. CASE ctl.pc = "imm"
  <2>1. Terminal(run) /\ ~run.ts /\ ~run.imm
    BY <1>0, <1>4 DEF DrainInOrder, At
  <2>2. run' = [run EXCEPT !.imm = TRUE]
    BY <1>4 DEF StoreStep
  <2>3. /\ run'.imm /\ run'.fin = run.fin /\ run'.ts = run.ts /\ run'.counted = run.counted
        /\ Terminal(run') = Terminal(run)
    BY <1>0, <2>2 DEF Object, Terminal
  <2> QED BY <1>0, <2>1, <2>3 DEF Child!MarkImmutable, Child!Next
<1>5. CASE ctl.pc \in {"spec", "status", "mark", "killed"}
  <2>1. \/ run' = [run EXCEPT !.state = "killed"]
        \/ run' = TakenBack \/ run' = WithStatus(run, Obj)
    BY <1>5 DEF StoreStep
  <2>2. run'.fin = run.fin /\ run'.ts = run.ts /\ run'.imm = run.imm /\ run'.counted = run.counted
    BY <1>0, <2>1 DEF Object, TakenBack, WithStatus
  <2>3. Child!Work
    BY <1>0, <2>2, WorkedFacts DEF DrainFlags
  <2> QED BY <2>3 DEF Child!Next
<1> QED BY <1>1, <1>2, <1>3, <1>4, <1>5 DEF StoreStep

LEMMA WorldImplements ==
    ASSUME TriggerInv, UserWrites \/ Delete \/ DrainTimeout, [Next]_vars
    PROVE  Child!Next
<1>0. TypeOK /\ run \in Object
  BY DEF TriggerInv, TypeOK
<1>1. CASE Delete
  <2>1. run' = [run EXCEPT !.ts = TRUE] /\ ~run.ts
    BY <1>1 DEF Delete, Write
  <2>2. /\ run'.ts /\ run'.fin = run.fin /\ run'.imm = run.imm /\ run'.counted = run.counted
        /\ Terminal(run') = Terminal(run)
    BY <1>0, <2>1 DEF Object, Terminal
  <2>3. Armed' = Armed /\ expired' = expired
    BY <1>1, SameArms DEF Delete
  <2> QED BY <2>1, <2>2, <2>3 DEF Child!Delete, Child!Next
<1>2. CASE DrainTimeout
  <2>1. run' = run /\ Armed' = Armed
    BY <1>2 DEF DrainTimeout, store, engine, Armed, Temporal, Cron
  <2> QED BY <1>2, <2>1 DEF DrainTimeout, Child!Timeout, Child!Next
<1>3. CASE UserWrites
  <2>1. \/ \E a \in Orders : run' = [run EXCEPT !.action = a]
        \/ run' = [run EXCEPT !.kill = TRUE]
        \/ \E c \in 1..MaxCrons : run' = [run EXCEPT !.cron = c]
    BY <1>3 DEF UserWrites, Write
  <2>2. run'.fin = run.fin /\ run'.ts = run.ts /\ run'.imm = run.imm /\ run'.counted = run.counted
    BY <1>0, <2>1 DEF Object
  <2>3. expired' = expired
    BY <1>3 DEF UserWrites
  <2> QED BY <2>2, <2>3, WorkedFacts DEF DrainFlags, Child!Next
<1> QED BY <1>1, <1>2, <1>3

\* Every step of the controller, of users and of the engine is one that cascadedelete
\* allows a child: no finalizer comes late or goes early, no work begins unseen by it, and
\* the drain is counted once.
THEOREM TriggerDrains == Spec => IsDrained
<1>1. Init => Child!Init
  BY DEF Init, Child!Init, NewTrigger, NoSchedule, Terminal, Armed
<1>2. TriggerInv /\ DrainInOrder /\ MarkedWhenOver /\ [Next]_vars => [Child!Next]_(Child!vars)
  <2> SUFFICES ASSUME TriggerInv, DrainInOrder, MarkedWhenOver, [Next]_vars
               PROVE  Child!Next
    BY DEF Child!vars
  <2>0. TypeOK
    BY DEF TriggerInv
  <2>1. CASE StoreStep
    BY <2>1, StoresImplement
  <2>2. CASE UserWrites \/ Delete \/ DrainTimeout
    BY <2>2, WorldImplements
  <2>3. CASE ~StoreStep /\ ~(UserWrites \/ Delete \/ DrainTimeout)
    <3>1. run' = run /\ expired' = expired
      BY <2>0, <2>3, StateMachineStep, KillingStep, StoresStep
         DEF Next, MachineStep, Reconcile, CacheSync, Crash, Fire, Closes, store, world, vars
    <3>2. Child!Work
      BY <3>1, WorkedFacts DEF DrainFlags
    <3> QED BY <3>2 DEF Child!Next
  <2> QED BY <2>1, <2>2, <2>3
<1> QED
  BY <1>1, <1>2, TriggerInvariant, DrainStaysInOrder, ImmutableWhenOver, PTL
     DEF Spec, IsDrained, Child!Spec

\* Hence a trigger bears the token of the gauge of active drains only in its drain: none is let go
\* of that is still counted.
THEOREM TriggerCountedInDrain == Spec => []Child!CountedInDrain
<1>1. Child!Init => Child!CountedInDrain
  BY DEF Child!Init, Child!CountedInDrain
<1>2. Child!CountedInDrain /\ [Child!Next]_(Child!vars) => Child!CountedInDrain'
  BY DEF Child!CountedInDrain, Child!Next, Child!vars, Child!EnsureDrainFinalizer, Child!Work,
     Child!MarkImmutable, Child!Delete, Child!Timeout, Child!RequestCancel, Child!CompleteDrain
<1> QED BY <1>1, <1>2, TriggerDrains, PTL DEF IsDrained, Child!Spec

\* A trigger is let go of, and marked for eviction, only in a terminal state, or when its 24 hours
\* have passed: of the status that the cascade retains, this is what its readers rely on.
THEOREM TriggerLetGoIsOver == Spec => Child!LetGoIsOver
<1>1. [Child!Next]_(Child!vars) =>
        [(run.fin /\ ~run.fin') \/ (~run.imm /\ run.imm') => Terminal(run) \/ expired]_(Child!vars)
  BY DEF Child!Next, Child!vars, Child!EnsureDrainFinalizer, Child!Work, Child!MarkImmutable,
     Child!Delete, Child!Timeout, Child!RequestCancel, Child!CompleteDrain
<1> QED BY <1>1, TriggerDrains, PTL DEF IsDrained, Child!Spec, Child!LetGoIsOver

=============================================================================
