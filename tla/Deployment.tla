----------------------------- MODULE Deployment -----------------------------
(***************************************************************************)
(* One Deployment: the controller that rolls a model out to the clusters   *)
(* of an inference server, rolls it back and cleans it up; the informer    *)
(* cache it reads; and what it writes on the clusters: the model config    *)
(* that a sidecar loads models from, the traffic rule of each cluster and  *)
(* the discovery rule.                                                     *)
(*                                                                         *)
(* A reconcile lets one actor act, the first that is not satisfied, and    *)
(* then writes metadata and status apart.  An error of these two writes is *)
(* logged and not returned.  Only changes of the spec and deletions are    *)
(* events: everything else is seen because the reconcile asks to be called *)
(* again.                                                                  *)
(***************************************************************************)
EXTENDS Naturals

CONSTANTS
    Models,
    First,       \* the models the deployment may be created with
    NoModel,
    NoDeployment,
    Clusters,    \* how many clusters the inference server has; they are 1..Clusters
    Home,        \* the one the control plane runs in
    Strategies,  \* are rollbacks on: FALSE is a blast without rollback trigger
    MaxOrders,   \* bound: writes of others
    MaxFaults    \* bound: faults, and changes of the inference server's health

Targets == 1..Clusters
Revisions == Models \cup {NoModel}

Terminal == {"rolledOut", "rolloutFailed", "rolledBack", "rollbackFailed",
             "cleanedUp", "cleanUpFailed"}
CleanedUp == {"cleanedUp", "cleanUpFailed"}
InProgress == {"placement", "validation"}

\* Spec (the desired revision), metadata (deletionTimestamp, finalizer, the snapshot
\* of target clusters, empty if there is none) and status (revisions, stage, and of the
\* conditions: the clusters whose model they say is loaded, whether the rollout is said to
\* be complete, and the clusters whose conditions are older than that one).
Object == [desired : Revisions, ts : BOOLEAN, fin : BOOLEAN, snap : SUBSET Targets,
           candidate : Revisions, current : Revisions,
           stage : {"init"} \cup InProgress \cup Terminal,
           loads : SUBSET Targets, done : BOOLEAN, before : SUBSET Targets]

ASSUME DeploymentAssumption ==
    /\ NoModel \notin Models /\ First \subseteq Models
    /\ NoDeployment \notin Object
    /\ Clusters \in Nat /\ Home \in Targets
    /\ Strategies \subseteq BOOLEAN
    /\ MaxOrders \in Nat /\ MaxFaults \in Nat

VARIABLES
    dep,      \* the object in etcd
    cache,    \* the informer's copy
    stale,    \* which copies, the cache's and the reconcile's, are not the latest
    due,      \* the work queue has the deployment
    ctl,      \* the reconcile in progress: its next call, its copy, does it come again
    config,   \* the models in the model config of each cluster
    loaded,   \* the models its server has loaded
    route,    \* the model the deployment's traffic rule leads to
    disc,     \* the discovery rule exists
    rollback, \* rollbacks are on
    healthy,  \* the inference server passes the health gate
    serving,  \* the clusters it serves in, by its status
    torn,     \* since a rollout last completed in one piece, a reconcile could not store
              \* what it did
    orders, faults

store == <<dep, cache, stale>>
servers == <<config, route, disc>>
world == <<loaded, rollback, healthy, serving, orders>>
vars == <<store, due, ctl, servers, world, torn, faults>>

Idle == [pc |-> "idle", obj |-> NoDeployment, again |-> FALSE]

TypeOK ==
    /\ dep \in Object /\ cache \in Object
    /\ dep.stage \in Terminal => dep.loads = {} /\ ~dep.done
    /\ stale \subseteq {"cache", "read"}
    /\ due \in BOOLEAN
    /\ ctl \in [pc : {"fin", "act", "update", "status"}, obj : Object, again : BOOLEAN]
                  \cup {Idle}
    /\ config \in [Targets -> SUBSET Models] /\ loaded \in [Targets -> SUBSET Models]
    /\ route \in [Targets -> Revisions]
    /\ disc \in BOOLEAN /\ rollback \in BOOLEAN /\ healthy \in BOOLEAN /\ torn \in BOOLEAN
    /\ serving \subseteq Targets
    /\ orders \in 0..MaxOrders /\ faults \in 0..MaxFaults

Init ==
    /\ dep \in {[desired |-> m, ts |-> FALSE, fin |-> FALSE, snap |-> {},
                 candidate |-> NoModel, current |-> NoModel,
                 stage |-> "init", loads |-> {}, done |-> FALSE, before |-> {}] : m \in First}
    /\ cache = dep
    /\ stale = {}
    /\ due = TRUE
    /\ ctl = Idle
    /\ config = [k \in Targets |-> {}]
    /\ loaded = config
    /\ route = [k \in Targets |-> NoModel]
    /\ disc = FALSE
    /\ rollback \in Strategies
    /\ healthy = TRUE
    /\ serving = Targets
    /\ torn = FALSE
    /\ orders = 0 /\ faults = 0

-----------------------------------------------------------------------------
(* Reading and writing the object.                                         *)

At(pc) == ctl.pc = pc
Obj == ctl.obj

\* The finalizer is gone from a deleted object: the controller has let go of it.
LetGo == dep.ts /\ ~dep.fin

End(again) == ctl' = Idle /\ due' = (due \/ again)

\* Someone else writes the object.
Write(o) ==
    /\ dep' = o
    /\ stale' = {"cache", "read"}
    /\ UNCHANGED cache

\* The reconcile writes its copy, if the copy is the latest.
Update(o) ==
    /\ "read" \notin stale
    /\ dep' = o
    /\ stale' = IF o = dep THEN stale ELSE stale \cup {"cache"}
    /\ UNCHANGED cache

\* Variant: it comes again only if there is something to store.
PersistChanges(o) ==
    IF o = Obj THEN End(FALSE)
    ELSE /\ ctl' = [pc |-> "update", obj |-> o, again |-> o.stage \notin CleanedUp]
         /\ UNCHANGED due

\* The copy as the reconcile leaves it is stored, and it comes again unless it cleaned up.
Persist(o) ==
    IF o = Obj THEN End(o.stage \notin CleanedUp)
    ELSE /\ ctl' = [pc |-> "update", obj |-> o, again |-> o.stage \notin CleanedUp]
         /\ UNCHANGED due

Fault == faults < MaxFaults /\ faults' = faults + 1

\* The work queue hands the deployment out; the finalizer is added first.
Reconcile ==
    /\ At("idle") /\ due
    /\ due' = FALSE
    /\ ctl' = [pc |-> IF cache.fin \/ cache.ts THEN "act" ELSE "fin",
               obj |-> cache, again |-> TRUE]
    /\ stale' = IF "cache" \in stale THEN stale \cup {"read"} ELSE stale \ {"read"}
    /\ UNCHANGED <<dep, cache, servers, world, torn, faults>>

AddFinalizer ==
    /\ At("fin")
    /\ Update([Obj EXCEPT !.fin = TRUE])
    /\ ctl' = [ctl EXCEPT !.pc = "act", !.obj.fin = TRUE]
    /\ UNCHANGED <<due, servers, world, torn, faults>>

\* Finalizer and snapshot, and then the status.
UpdateMetadata ==
    /\ At("update")
    /\ Update([dep EXCEPT !.fin = Obj.fin, !.snap = Obj.snap])
    /\ ctl' = [ctl EXCEPT !.pc = "status"]
    /\ UNCHANGED <<due, servers, world, torn, faults>>

UpdateStatus ==
    /\ At("status")
    /\ Update(Obj)
    /\ End(ctl.again)
    /\ torn' = (torn /\ (Obj.stage # "rolledOut" \/ dep.stage = "rolledOut" \/ dep.done))
    /\ UNCHANGED <<servers, world, faults>>

\* A write is refused.  The finalizer's error is returned, the other two are not: the
\* reconcile comes again only if it was to come again.
Conflict ==
    /\ ctl.pc \in {"fin", "update", "status"} /\ "read" \in stale
    /\ torn' = TRUE
    /\ End(ctl.again)
    /\ UNCHANGED <<store, servers, world, faults>>

\* A write fails, or the probe of the current revision before it, whose error is returned.
WriteFails ==
    /\ Fault
    /\ \/ ctl.pc \in {"update", "status"} /\ End(ctl.again)
       \/ ctl.pc = "update" /\ Obj.current # NoModel /\ End(TRUE)
    /\ torn' = TRUE
    /\ UNCHANGED <<store, servers, world>>

\* The reconcile panics: nothing is stored and nothing is asked for.
Panic == End(FALSE) /\ torn' = TRUE

-----------------------------------------------------------------------------
(* Which plugin a reconcile runs.                                          *)

ShouldCleanup(o) ==
    o.ts \/ (o.desired = NoModel /\ (o.current # NoModel \/ o.candidate # NoModel))

RolloutInProgress(o) == o.current # o.candidate /\ o.stage \in InProgress

\* Variant: a change of the desired revision in the middle of a rollout goes unnoticed.
ShouldRollbackOnAlert(o) == rollback /\ ~healthy

ShouldRollback(o) == rollback /\ (~healthy \/ o.desired # o.candidate)

TriggerNewRollout(o) == o.desired # o.candidate /\ o.stage \notin InProgress

-----------------------------------------------------------------------------
(* Rollout: the actors in their order.  The actors of the clusters are     *)
(* those of the snapshot the reconcile read.                               *)

Lowest(S) == CHOOSE k \in S : \A j \in S : k <= j

\* The snapshot is missing or not what the inference server serves in.
Unplaced(o) == o.snap = {} \/ serving # o.snap

\* Clusters with the model: once seen ready, the condition keeps that.
Ready(o) == {k \in o.snap : k \in o.loads \/ o.desired \in loaded[k]}

Pending(o) == {k \in o.snap : k \notin Ready(o) \/ route[k] # o.desired}

\* Clusters where the revision before this one is still loaded.
OldLoaded(o) ==
    {k \in o.snap : o.current \notin {NoModel, o.desired} /\ o.current \in loaded[k]}

Placed(o) == ~Unplaced(o) /\ Pending(o) = {}

PlacementPrep(o) == Unplaced(o) /\ UNCHANGED servers

RollingRollout(o) ==
    /\ ~Unplaced(o) /\ Pending(o) # {}
    /\ LET k == Lowest(Pending(o)) IN
         /\ k \notin Ready(o)
         /\ config' = [config EXCEPT ![k] = @ \cup {o.desired}]
    /\ UNCHANGED <<route, disc>>

TrafficRouting(o) ==
    /\ ~Unplaced(o) /\ Pending(o) # {}
    /\ LET k == Lowest(Pending(o)) IN
         /\ k \in Ready(o)
         /\ route' = [route EXCEPT ![k] = o.desired]
    /\ UNCHANGED <<config, disc>>

DiscoveryRouting(o) ==
    /\ Placed(o) /\ ~disc
    /\ disc' = TRUE
    /\ UNCHANGED <<config, route>>

ModelCleanup(o) ==
    /\ Placed(o) /\ disc /\ OldLoaded(o) # {}
    /\ config' = [config EXCEPT ![Lowest(OldLoaded(o))] = @ \ {o.current}]
    /\ UNCHANGED <<route, disc>>

ActorRuns(o) ==
    \/ PlacementPrep(o)
    \/ RollingRollout(o)
    \/ TrafficRouting(o)
    \/ DiscoveryRouting(o)
    \/ ModelCleanup(o)

Completes(o) == Placed(o) /\ disc /\ OldLoaded(o) = {}

\* Variant: the conditions of the rollout are kept.
TransitionOnly(o, stage) == [o EXCEPT !.stage = stage]

\* The stage is terminal: the conditions are dropped.
Transition(o, stage) ==
    [o EXCEPT !.stage = stage, !.loads = {}, !.done = FALSE, !.before = {}]

\* The snapshot after the placement was prepared.
Refreshed(o) ==
    [o EXCEPT !.snap = IF Unplaced(o) /\ serving # {} THEN serving ELSE @]

InPlacement(o) ==
    [Refreshed(o) EXCEPT !.stage = "placement", !.loads = Ready(o),
                         !.before = o.before \cap o.snap]

\* A rollout that ends in the stage it started from makes no transition: the stage stays
\* validation, the conditions stay, and nothing graduates.
Unmoved(o, loads) == [o EXCEPT !.stage = "validation", !.loads = loads]

\* Every actor is satisfied: the candidate becomes the current revision.
Graduated(o) ==
    IF o.stage = "rolledOut"
    THEN [Unmoved(o, Ready(o)) EXCEPT !.done = TRUE, !.before = o.snap]
    ELSE [Transition(o, "rolledOut") EXCEPT !.current = o.candidate]

FailedCopies(o) ==
    IF o.stage = "rolloutFailed" THEN {Unmoved(o, loads) : loads \in SUBSET Ready(o)}
    ELSE {Transition(o, "rolloutFailed")}

\* After an actor has run: the conditions before the one that was kept of a completed
\* rollout hold.  Those after it, of clusters that came later, are not looked at.
StillComplete(o) ==
    /\ o.done
    /\ Unplaced(o) => o.snap # {} /\ serving # {}
    /\ \A k \in o.before \cap o.snap : k \in Ready(o) \ OldLoaded(o) /\ route'[k] = o.desired
    /\ disc'

Rollout(o) ==
    \/ /\ ActorRuns(o) /\ ~StillComplete(o)
       /\ Persist(InPlacement(o))
    \/ /\ ActorRuns(o) /\ StillComplete(o)
       /\ Persist(Graduated(Refreshed(o)))
    \/ /\ Completes(o)
       /\ Persist(Graduated(o))
       /\ UNCHANGED servers

\* The revision a new rollout is for becomes the candidate.
Begun(o) == [o EXCEPT !.candidate = o.desired]

Starts(o) == ~ShouldCleanup(o) /\ ~RolloutInProgress(o) /\ TriggerNewRollout(o)

Continues(o) == ~ShouldCleanup(o) /\ RolloutInProgress(o) /\ ~ShouldRollback(o)

ContinueRollout ==
    /\ At("act") /\ Continues(Obj)
    /\ Rollout(Obj)
    /\ UNCHANGED <<store, world, torn, faults>>

StartRollout ==
    /\ At("act") /\ Starts(Obj) /\ Obj.desired # Obj.current
    /\ Rollout(Begun(Obj))
    /\ UNCHANGED <<store, world, torn, faults>>

\* What is desired is what is current: nothing to roll out.
SkipRollout ==
    /\ At("act") /\ Starts(Obj) /\ Obj.desired = Obj.current
    /\ Persist(Begun(Obj))
    /\ UNCHANGED <<store, servers, world, torn, faults>>

\* The health gate cannot be asked: nothing is done, and the reconcile comes again.
GateFails ==
    /\ Fault
    /\ At("act") /\ ~ShouldCleanup(Obj) /\ RolloutInProgress(Obj)
    /\ End(TRUE)
    /\ UNCHANGED <<store, servers, world, torn>>

\* The call of an actor fails, with or without effect: that ends the rollout, unless the
\* one before it failed too and this one has just begun.
RolloutFails ==
    /\ Fault
    /\ At("act")
    /\ \E o \in {Obj, Begun(Obj)} :
         /\ IF o = Obj THEN Continues(Obj) ELSE Starts(Obj) /\ Obj.desired # Obj.current
         /\ ~Completes(o)
         /\ ActorRuns(o) \/ UNCHANGED servers
         /\ \E failed \in FailedCopies(o) : Persist(failed)
    /\ UNCHANGED <<store, world, torn>>

-----------------------------------------------------------------------------
(* Rollback, cleanup and rest.  Both write the model config of the cluster *)
(* the control plane runs in.                                              *)

RemoveModel(m) == config' = [config EXCEPT ![Home] = @ \ {m}]

Rollback ==
    /\ At("act") /\ ~ShouldCleanup(Obj) /\ RolloutInProgress(Obj) /\ ShouldRollback(Obj)
    /\ \/ /\ RemoveModel(Obj.candidate)
          /\ Persist(Transition(Obj, "rolledBack"))
          /\ UNCHANGED faults
       \/ /\ Fault
          /\ UNCHANGED config
          /\ Persist(Transition(Obj, "rollbackFailed"))
    /\ UNCHANGED <<store, route, disc, world, torn>>

\* Variant: only the model is looked for.
UncleanedModel(o) == o.current \in config[Home]

\* Is there anything to clean up?  Without a current revision no rule is looked for
\* but the discovery rule.
Uncleaned(o) ==
    \/ o.current \in config[Home]
    \/ o.current # NoModel /\ \E k \in o.snap : route[k] = o.current
    \/ disc

Finished(o, stage) == [Transition(o, stage) EXCEPT !.fin = FALSE]

Cleaned(o) ==
    [Finished(o, "cleanedUp") EXCEPT !.current = NoModel, !.candidate = NoModel]

RemoveRoutes(ks) == route' = [k \in Targets |-> IF k \in ks THEN NoModel ELSE route[k]]

\* The model, the traffic rules and the discovery rule, in this order.
CleanUp(o) ==
    /\ RemoveModel(o.current)
    /\ RemoveRoutes(o.snap)
    /\ disc' = FALSE

\* It stops on the way.
CleanUpPart(o) ==
    \/ UNCHANGED servers
    \/ /\ RemoveModel(o.current)
       /\ \E k \in 1..(Clusters + 1) : RemoveRoutes({j \in o.snap : j < k})
       /\ UNCHANGED disc
    \/ CleanUp(o)

CleansUp(o) == ShouldCleanup(o) /\ Uncleaned(o)

Cleanup ==
    /\ At("act") /\ ShouldCleanup(Obj)
    /\ \/ ~Uncleaned(Obj) /\ UNCHANGED servers
       \/ Uncleaned(Obj) /\ Obj.current # NoModel /\ CleanUp(Obj)
    /\ Persist(Cleaned(Obj))
    /\ UNCHANGED <<store, world, torn, faults>>

\* The name of the current revision is asked for where there is none.
CleanupPanics ==
    /\ At("act") /\ CleansUp(Obj) /\ Obj.current = NoModel
    /\ Panic
    /\ UNCHANGED <<store, servers, world, faults>>

\* A call fails: what was done stays done, and the deployment is let go of.  The probe
\* that follows asks for the name of the desired revision.
CleanupFails ==
    /\ Fault
    /\ At("act") /\ CleansUp(Obj) /\ Obj.current # NoModel
    /\ CleanUpPart(Obj)
    /\ IF Obj.desired = NoModel THEN Panic
       ELSE Persist(Finished(Obj, "cleanUpFailed")) /\ UNCHANGED torn
    /\ UNCHANGED <<store, world>>

\* Nothing to do but to look again.
Rest ==
    /\ At("act")
    /\ ~ShouldCleanup(Obj) /\ ~RolloutInProgress(Obj) /\ ~TriggerNewRollout(Obj)
    /\ IF Obj.stage \in CleanedUp THEN Persist([Obj EXCEPT !.fin = FALSE]) ELSE Persist(Obj)
    /\ UNCHANGED <<store, servers, world, torn, faults>>

-----------------------------------------------------------------------------
(* The cache, restarts, users, the ingester and the inference server.      *)

\* The informer delivers the latest state; the predicate lets changes of the
\* generation through.
CacheSync ==
    /\ "cache" \in stale
    /\ cache' = dep
    /\ stale' = stale \ {"cache"}
    /\ due' = (due \/ cache.desired # dep.desired \/ cache.ts # dep.ts)
    /\ UNCHANGED <<dep, ctl, servers, world, torn, faults>>

Crash ==
    /\ Fault
    /\ ctl' = Idle
    /\ cache' = dep
    /\ stale' = {}
    /\ due' = TRUE
    /\ torn' = (torn \/ ctl # Idle)
    /\ IF At("act") /\ CleansUp(Obj) /\ Obj.current # NoModel THEN CleanUpPart(Obj)
       ELSE UNCHANGED servers
    /\ UNCHANGED <<dep, world>>

Others(o) ==
    /\ orders < MaxOrders /\ orders' = orders + 1
    /\ Write(o)
    /\ UNCHANGED <<due, ctl, servers, loaded, rollback, healthy, serving, torn, faults>>

UserWrites == \E m \in Revisions \ {dep.desired} : Others([dep EXCEPT !.desired = m])

Delete == ~dep.ts /\ Others([dep EXCEPT !.ts = TRUE])

\* The ingester writes annotations and finalizers of its own.
IngesterWrites == Others(dep)

\* The sidecar loads and unloads what the model config says.
Load(k) ==
    /\ loaded[k] # config[k]
    /\ loaded' = [loaded EXCEPT ![k] = config[k]]
    /\ UNCHANGED <<store, due, ctl, servers, rollback, healthy, serving, orders, torn, faults>>

HealthTurns ==
    /\ Fault
    /\ \/ healthy' = ~healthy /\ UNCHANGED serving
       \/ serving' \in SUBSET Targets \ {serving} /\ UNCHANGED healthy
    /\ UNCHANGED <<store, due, ctl, servers, loaded, rollback, orders, torn>>

-----------------------------------------------------------------------------

Acts ==
    \/ ContinueRollout \/ StartRollout \/ SkipRollout
    \/ Rollback \/ Cleanup \/ CleanupPanics \/ Rest

Next ==
    \/ Reconcile \/ AddFinalizer \/ Acts
    \/ GateFails \/ RolloutFails \/ CleanupFails
    \/ UpdateMetadata \/ UpdateStatus \/ Conflict \/ WriteFails
    \/ CacheSync \/ Crash
    \/ UserWrites \/ Delete \/ IngesterWrites
    \/ \E k \in Targets : Load(k)
    \/ HealthTurns

Spec == Init /\ [][Next]_vars

Fairness ==
    /\ WF_vars(Reconcile) /\ WF_vars(AddFinalizer) /\ WF_vars(Acts)
    /\ WF_vars(UpdateMetadata) /\ WF_vars(UpdateStatus) /\ WF_vars(Conflict)
    /\ WF_vars(CacheSync)
    /\ \A k \in Targets : WF_vars(Load(k))

FairSpec == Spec /\ Fairness

-----------------------------------------------------------------------------
(* What should hold.                                                       *)

\* A deployment that is rolled out leads the traffic of each of its clusters to its
\* current revision, unless a reconcile could not store what it did and no rollout has
\* completed in one piece since.
CompletedIsRouted ==
    At("idle") /\ rollback /\ ~torn /\ dep.stage = "rolledOut"
        => \A k \in dep.snap : route[k] = dep.current

\* The finalizer of a deployment that was rolled out goes only when no rule is left.
LetGoLeavesNoRoute ==
    [][dep.fin /\ ~dep'.fin /\ ~torn /\ dep.current # NoModel /\ Obj.stage = "cleanedUp"
        => ~disc /\ \A k \in dep.snap : route[k] = NoModel]_vars

\* Whatever is desired gets a verdict: it becomes the candidate of a rollout that ends.
VerdictComes ==
    \A m \in Models :
        (dep.desired = m)
            ~> \/ dep.candidate = m /\ dep.stage \notin InProgress
               \/ dep.desired # m \/ dep.ts \/ serving = {}

\* After a rollback the traffic is led to the previous revision.
RollbackRestores ==
    At("idle") /\ ~torn /\ dep.stage = "rolledBack" /\ dep.current # NoModel
        => \A k \in dep.snap : route[k] = dep.current

\* The current revision of a deployment that is rolled out stays in the model config.
CompletedIsServed ==
    At("idle") /\ rollback /\ ~torn /\ dep.stage = "rolledOut"
        => \A k \in dep.snap : dep.current \in config[k]

\* A rollout whose actor fails does not continue.
FailureIsTerminal ==
    [][RolloutFails => ctl'.obj.stage = "rolloutFailed"]_vars

\* A deployment that is deleted is let go of.
DeletedGoes == (dep.ts /\ dep.current # NoModel) ~> LetGo

=============================================================================
