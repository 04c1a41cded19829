-------------------------- MODULE DeploymentProofs --------------------------
(***************************************************************************)
(* A deployment with any number of clusters, models, writes of others and  *)
(* faults: types, where the traffic of a rolled-out deployment leads, and  *)
(* what a deployment that is let go of leaves behind.                      *)
(***************************************************************************)
EXTENDS Deployment, TLAPS

\* The reconcile has decided and stores its copy.
Storing == ctl.pc \in {"update", "status"}
Leaving == Storing /\ Obj.stage \in CleanedUp

\* A terminal stage has no conditions; what is cleaned up has no revision, and a cleanup
\* that failed was that of a deleted deployment.
WellFormed(o) ==
    /\ o.stage \in Terminal => o.loads = {}
    /\ o.done => o.stage \in InProgress
    /\ o.stage = "cleanedUp" => o.current = NoModel
    /\ o.stage = "cleanUpFailed" => o.ts

CopiesWellFormed ==
    /\ WellFormed(dep) /\ WellFormed(cache)
    /\ ctl # Idle => WellFormed(Obj)

\* A rollout is complete, and every reconcile since could store what it did.
Completed == rollback /\ ~torn /\ dep.stage = "rolledOut"

\* What an old copy may still say.
Sound(o) ==
    /\ o.ts => dep.ts
    /\ o.ts /\ ~o.fin => ~dep.fin
    /\ o.stage = "cleanUpFailed" => dep.stage \in CleanedUp
    /\ Completed /\ o.stage \in InProgress => o.snap = dep.snap /\ o.desired = dep.current

CopiesSound ==
    /\ Sound(cache)
    /\ ctl.pc \in {"fin", "act"} => Sound(Obj)

\* What a copy that is not old agrees in with what is stored.
CopiesFresh ==
    /\ "cache" \notin stale => cache = dep
    /\ ctl # Idle /\ "read" \notin stale =>
         /\ Obj.desired = dep.desired /\ Obj.ts = dep.ts
         /\ cache.desired = dep.desired /\ cache.stage = dep.stage
         /\ ctl.pc \in {"fin", "act"} => Obj = dep
         /\ At("status") => Obj.fin = dep.fin /\ Obj.snap = dep.snap
         /\ ~At("status") => cache.snap = dep.snap
         /\ Storing /\ Obj.stage = "rolledOut" /\ ~dep.done => Obj.snap = cache.snap
         /\ At("update") /\ Obj.stage \notin CleanedUp => Obj.fin = dep.fin

\* Work is done under the finalizer, or for a deletion, which is a cleanup.
UnderFinalizer ==
    /\ At("fin") => ~Obj.ts
    /\ At("act") => Obj.fin \/ Obj.ts
    /\ Storing => (Obj.ts => Obj.stage \in CleanedUp)
                  /\ (Obj.stage \in CleanedUp <=> ~Obj.fin)

\* A deployment with a current revision has the finalizer and a discovery rule.
Stands ==
    ~torn /\ dep.current # NoModel /\ ~Leaving
        => (dep.fin => disc) /\ (dep.fin \/ dep.ts)

\* What is to be stored of a rollout was done.
Graduates ==
    Storing /\ "read" \notin stale /\ Obj.stage \notin CleanedUp =>
        /\ Obj.current # NoModel /\ ~disc =>
             Obj.current = dep.current /\ (Obj.stage = "rolledOut" => dep.stage = "rolledOut")
        /\ rollback /\ Obj.stage = "rolledOut" /\ ~dep.done =>
             \/ Obj.desired = Obj.current /\ \A k \in Obj.snap : route[k] = Obj.current
             \/ dep.stage = "rolledOut" /\ Obj.current = dep.current

\* The condition that a rollout is complete is kept only where something could not be
\* stored: with rollbacks on, no rollout begins that is complete already.
KeptIsTorn ==
    rollback =>
        /\ dep.done => torn
        /\ Storing /\ "read" \notin stale /\ Obj.done => torn

\* What is to be stored of a cleanup was done.
LeavesNothing ==
    At("update") /\ "read" \notin stale /\ Obj.stage = "cleanedUp"
    /\ ~torn /\ dep.fin /\ dep.current # NoModel
        => ~disc /\ \A k \in dep.snap : route[k] = NoModel

\* Traffic leads to the current revision until a reconcile is about to say otherwise.
StaysRouted ==
    Completed /\ (Storing => Obj.stage = "rolledOut")
        => \A k \in dep.snap : route[k] = dep.current

Inv ==
    /\ CopiesWellFormed /\ CopiesSound /\ CopiesFresh /\ UnderFinalizer
    /\ Stands /\ Graduates /\ KeptIsTorn /\ LeavesNothing /\ StaysRouted

IInv == TypeOK /\ Inv

-----------------------------------------------------------------------------
(* Copies and what is made of them.                                        *)

Busy == [pc : {"fin", "act", "update", "status"}, obj : Object, again : BOOLEAN]
Stages == {"init"} \cup InProgress \cup Terminal

LEMMA IdleFacts ==
    /\ Idle.pc = "idle" /\ Idle \notin Busy
    /\ NoDeployment \notin Object
BY DeploymentAssumption DEF Idle, Busy

LEMMA Working ==
    ASSUME TypeOK
    PROVE  /\ ctl # Idle => ctl \in Busy /\ Obj \in Object
           /\ At("idle") <=> ctl = Idle
BY IdleFacts DEF TypeOK, Busy, At, Obj, Idle

LEMMA StageFacts ==
    /\ CleanedUp \subseteq Terminal
    /\ \A s \in CleanedUp : s = "cleanedUp" \/ s = "cleanUpFailed"
    /\ \A s \in InProgress : s \notin Terminal
    /\ "init" \notin Terminal \cup InProgress
    /\ "placement" \in InProgress /\ "validation" \in InProgress
    /\ "rolledOut" \in Terminal \ CleanedUp
    /\ "rolloutFailed" \in Terminal \ CleanedUp
    /\ "rolledBack" \in Terminal \ CleanedUp
    /\ "rollbackFailed" \in Terminal \ CleanedUp
    /\ "cleanedUp" \in CleanedUp /\ "cleanUpFailed" \in CleanedUp
BY DEF CleanedUp, InProgress, Terminal

\* The parts of a copy that the edits below do not mention stay as they are.
Same(o, b) == o.desired = b.desired /\ o.ts = b.ts

LEMMA BegunCopy ==
    ASSUME NEW b \in Object
    PROVE  /\ Begun(b) \in Object /\ Same(Begun(b), b)
           /\ Begun(b).fin = b.fin /\ Begun(b).snap = b.snap
           /\ Begun(b).candidate = b.desired /\ Begun(b).current = b.current
           /\ Begun(b).stage = b.stage /\ Begun(b).loads = b.loads /\ Begun(b).done = b.done
BY DEF Begun, Object, Same

LEMMA TransitionCopy ==
    ASSUME NEW b \in Object, NEW s \in Stages
    PROVE  /\ Transition(b, s) \in Object /\ Same(Transition(b, s), b)
           /\ Transition(b, s).fin = b.fin /\ Transition(b, s).snap = b.snap
           /\ Transition(b, s).candidate = b.candidate
           /\ Transition(b, s).current = b.current
           /\ Transition(b, s).stage = s /\ Transition(b, s).loads = {}
           /\ ~Transition(b, s).done
BY DEF Transition, Object, Same, Stages

LEMMA ReadyType ==
    ASSUME NEW b \in Object
    PROVE  Ready(b) \in SUBSET Targets
BY DEF Ready, Object

LEMMA UnmovedCopy ==
    ASSUME NEW b \in Object, NEW loads \in SUBSET Targets
    PROVE  /\ Unmoved(b, loads) \in Object /\ Same(Unmoved(b, loads), b)
           /\ Unmoved(b, loads).fin = b.fin /\ Unmoved(b, loads).snap = b.snap
           /\ Unmoved(b, loads).current = b.current
           /\ Unmoved(b, loads).stage = "validation" /\ Unmoved(b, loads).done = b.done
BY StageFacts DEF Unmoved, Object, Same

LEMMA GraduatedCopy ==
    ASSUME NEW b \in Object, b.stage # "rolledOut"
    PROVE  /\ Graduated(b) \in Object /\ Same(Graduated(b), b)
           /\ Graduated(b).fin = b.fin /\ Graduated(b).snap = b.snap
           /\ Graduated(b).current = b.candidate
           /\ Graduated(b).stage = "rolledOut" /\ Graduated(b).loads = {}
           /\ ~Graduated(b).done
BY StageFacts DEF Graduated, Transition, Object, Same

LEMMA KeptCopy ==
    ASSUME NEW b \in Object, b.stage = "rolledOut"
    PROVE  /\ Graduated(b) \in Object /\ Same(Graduated(b), b)
           /\ Graduated(b).fin = b.fin /\ Graduated(b).current = b.current
           /\ Graduated(b).stage = "validation"
<1> DEFINE o == Unmoved(b, Ready(b))
<1>1. o \in Object /\ Same(o, b) /\ o.fin = b.fin /\ o.current = b.current
      /\ o.stage = "validation"
  BY ReadyType, UnmovedCopy
<1>2. Graduated(b) = [o EXCEPT !.done = TRUE, !.before = b.snap]
  BY DEF Graduated
<1> HIDE DEF o
<1> QED
  BY <1>1, <1>2 DEF Object, Same

LEMMA RefreshedCopy ==
    ASSUME TypeOK, NEW b \in Object
    PROVE  /\ Refreshed(b) \in Object /\ Same(Refreshed(b), b)
           /\ Refreshed(b).fin = b.fin /\ Refreshed(b).candidate = b.candidate
           /\ Refreshed(b).current = b.current
           /\ Refreshed(b).stage = b.stage /\ Refreshed(b).done = b.done
<1>1. serving \in SUBSET Targets
  BY DEF TypeOK
<1> QED
  BY <1>1 DEF Refreshed, Object, Same

LEMMA FinishedCopy ==
    ASSUME NEW b \in Object, NEW s \in Stages
    PROVE  /\ Finished(b, s) \in Object /\ Same(Finished(b, s), b)
           /\ ~Finished(b, s).fin /\ Finished(b, s).current = b.current
           /\ Finished(b, s).stage = s /\ Finished(b, s).loads = {}
           /\ ~Finished(b, s).done
BY DEF Finished, Transition, Object, Same, Stages

LEMMA CleanedCopy ==
    ASSUME NEW b \in Object
    PROVE  /\ Cleaned(b) \in Object /\ Same(Cleaned(b), b)
           /\ ~Cleaned(b).fin /\ Cleaned(b).current = NoModel
           /\ Cleaned(b).stage = "cleanedUp" /\ Cleaned(b).loads = {} /\ ~Cleaned(b).done
<1>1. "cleanedUp" \in Stages /\ NoModel \in Revisions
  BY DEF Stages, Terminal, Revisions
<1>2. Finished(b, "cleanedUp") \in Object
  BY <1>1, FinishedCopy
<1> QED
  BY <1>1, <1>2, FinishedCopy DEF Cleaned, Object, Same

LEMMA InPlacementCopy ==
    ASSUME TypeOK, NEW b \in Object
    PROVE  /\ InPlacement(b) \in Object /\ Same(InPlacement(b), b)
           /\ InPlacement(b).fin = b.fin
           /\ InPlacement(b).current = b.current
           /\ InPlacement(b).stage = "placement" /\ InPlacement(b).done = b.done
<1> DEFINE o == Refreshed(b)
           ready == Ready(b)
           older == b.before \cap b.snap
<1>1. o \in Object /\ Same(o, b) /\ o.fin = b.fin /\ o.current = b.current /\ o.done = b.done
  BY RefreshedCopy
<1>2. ready \in SUBSET Targets /\ older \in SUBSET Targets
  BY ReadyType DEF Object
<1>3. InPlacement(b) =
        [o EXCEPT !.stage = "placement", !.loads = ready, !.before = older]
  BY DEF InPlacement
<1> HIDE DEF o, ready, older
<1>4. InPlacement(b) \in Object
  <2>1. "placement" \in {"init"} \cup InProgress \cup Terminal
    BY StageFacts
  <2> QED
    BY <1>1, <1>2, <1>3, <2>1 DEF Object
<1> QED
  BY <1>1, <1>3, <1>4 DEF Object, Same

-----------------------------------------------------------------------------
(* What a reconcile decides.                                               *)

ServerTypes ==
    /\ config \in [Targets -> SUBSET Models]
    /\ route \in [Targets -> Revisions]
    /\ disc \in BOOLEAN

\* The reconcile stores o, if that is not the copy it read.
Stores(o) ==
    /\ due' \in BOOLEAN
    /\ IF o = Obj THEN ctl' = Idle
       ELSE ctl' \in Busy /\ ctl'.pc = "update" /\ ctl'.obj = o

LEMMA PersistStores ==
    ASSUME TypeOK, NEW o \in Object, Persist(o)
    PROVE  Stores(o)
<1>1. (o.stage \notin CleanedUp) \in BOOLEAN /\ due \in BOOLEAN
  BY DEF TypeOK
<1>2. CASE o = Obj
  BY <1>1, <1>2 DEF Persist, End, Stores
<1>3. CASE o # Obj
  <2> DEFINE again == o.stage \notin CleanedUp
  <2>1. due' \in BOOLEAN /\ ctl' = [pc |-> "update", obj |-> o, again |-> again]
    BY <1>1, <1>3 DEF Persist
  <2>2. again \in BOOLEAN
    BY <1>1
  <2> HIDE DEF again
  <2> QED
    BY <1>3, <2>1, <2>2 DEF Stores, Busy
<1> QED
  BY <1>2, <1>3

Deciding == TypeOK /\ CopiesWellFormed /\ UnderFinalizer /\ At("act")

LEMMA DecidingCopy ==
    ASSUME Deciding
    PROVE  Obj \in Object /\ WellFormed(Obj) /\ (Obj.fin \/ Obj.ts)
BY IdleFacts, Working DEF Deciding, CopiesWellFormed, UnderFinalizer, At

\* What becomes of the copy, and what was done for it.
Decided(o) ==
    /\ o \in Object /\ WellFormed(o) /\ Same(o, Obj)
    /\ Obj.ts => o.stage \in CleanedUp
    /\ o.stage \in CleanedUp <=> ~o.fin
    /\ o.stage \notin CleanedUp => o.fin = Obj.fin /\ (disc => disc')
    /\ o.stage \notin CleanedUp /\ o.current # NoModel /\ ~disc' =>
         o.current = Obj.current /\ (o.stage = "rolledOut" => Obj.stage = "rolledOut")
    /\ o.stage = "rolledOut" /\ ~Obj.done =>
         /\ o.snap = Obj.snap /\ route' = route
         /\ rollback =>
              \/ o.desired = o.current /\ \A k \in o.snap : route[k] = o.current
              \/ Obj.stage = "rolledOut" /\ o.current = Obj.current
    /\ o.stage = "cleanedUp" /\ Obj.current # NoModel =>
         ~disc' /\ (disc => \A k \in Obj.snap : route'[k] = NoModel)
    /\ o = Obj /\ Obj.stage # "cleanUpFailed" => (disc => disc')
    /\ \/ o = Obj /\ Obj.stage # "cleanUpFailed"
       \/ o.stage = "rolledOut"
       => ((Obj.stage \in InProgress => \A k \in Obj.snap : route[k] = Obj.desired)
              => route' = route)
    /\ rollback /\ o.done =>
         \/ Obj.done
         \/ /\ Obj.stage = "rolledOut" /\ Obj.desired # Obj.current
            /\ Obj.snap # {} /\ \A k \in Obj.snap : route[k] = Obj.desired

\* The copy a rollout works on.
Base(b) ==
    \/ Continues(Obj) /\ b = Obj
    \/ Starts(Obj) /\ Obj.desired # Obj.current /\ b = Begun(Obj)

LEMMA BaseCopy ==
    ASSUME Deciding, NEW b, Base(b)
    PROVE  /\ b \in Object /\ Same(b, Obj) /\ b.desired \in Models
           /\ ~Obj.ts /\ Obj.fin /\ b.fin
           /\ b.snap = Obj.snap /\ b.current = Obj.current /\ b.stage = Obj.stage
           /\ b.done = Obj.done
           /\ Obj.stage \in InProgress => b = Obj
           /\ Obj.stage \notin InProgress =>
                b # Obj /\ b.candidate # Obj.candidate /\ Obj.desired # Obj.current
           /\ rollback => b.candidate = b.desired
<1>1. Obj \in Object /\ (Obj.fin \/ Obj.ts)
  BY DecidingCopy
<1>2. CASE Continues(Obj) /\ b = Obj
  <2>1. Obj.desired # NoModel /\ ~Obj.ts /\ Obj.stage \in InProgress
    BY <1>2 DEF Continues, ShouldCleanup, RolloutInProgress
  <2>2. rollback => Obj.desired = Obj.candidate
    BY <1>2 DEF Continues, ShouldRollback
  <2> QED
    BY <1>1, <1>2, <2>1, <2>2 DEF Same, Object, Revisions
<1>3. CASE Starts(Obj) /\ Obj.desired # Obj.current /\ b = Begun(Obj)
  <2>1. Obj.desired # NoModel /\ ~Obj.ts /\ Obj.stage \notin InProgress
        /\ Obj.desired # Obj.candidate
    BY <1>3 DEF Starts, ShouldCleanup, TriggerNewRollout
  <2>2. Obj.desired \in Models
    BY <1>1, <2>1 DEF Object, Revisions
  <2> QED
    BY <1>1, <1>3, <2>1, <2>2, BegunCopy DEF Same
<1> QED
  BY <1>2, <1>3 DEF Base

LEMMA ActorServers ==
    ASSUME TypeOK, NEW b \in Object, b.desired \in Models, ActorRuns(b)
    PROVE  /\ ServerTypes' /\ (disc => disc')
           /\ (\A k \in b.snap : route[k] = b.desired) => route' = route
<1>1. ServerTypes /\ b.desired \in Revisions
  BY DEF TypeOK, ServerTypes, Revisions
<1>2. CASE PlacementPrep(b)
  BY <1>1, <1>2 DEF PlacementPrep, servers, ServerTypes
<1>3. CASE RollingRollout(b)
  BY <1>1, <1>3 DEF RollingRollout, ServerTypes
<1>4. CASE TrafficRouting(b)
  <2>1. PICK k : k \in Ready(b) /\ route' = [route EXCEPT ![k] = b.desired]
    BY <1>4 DEF TrafficRouting
  <2>2. k \in b.snap
    BY <2>1 DEF Ready
  <2> QED
    BY <1>1, <1>4, <2>1, <2>2 DEF TrafficRouting, ServerTypes
<1>5. CASE DiscoveryRouting(b)
  BY <1>1, <1>5 DEF DiscoveryRouting, ServerTypes
<1>6. CASE ModelCleanup(b)
  BY <1>1, <1>6 DEF ModelCleanup, ServerTypes
<1> QED
  BY <1>2, <1>3, <1>4, <1>5, <1>6 DEF ActorRuns

LEMMA UnmovedDecides ==
    ASSUME Deciding, NEW b, Base(b), NEW loads \in SUBSET Targets,
           Persist(Unmoved(b, loads)), b.stage \notin InProgress,
           ServerTypes', disc => disc'
    PROVE  ServerTypes' /\ \E o \in Object : Decided(o) /\ Stores(o)
<1> DEFINE o == Unmoved(b, loads)
<1>1. TypeOK /\ Obj \in Object
  BY DecidingCopy DEF Deciding
<1>2. /\ o \in Object /\ Same(o, Obj) /\ o.fin /\ ~Obj.ts /\ Obj.fin
      /\ o.current = Obj.current /\ o.stage = "validation" /\ o.done = Obj.done
  BY BaseCopy, UnmovedCopy DEF Same
<1>3. WellFormed(o)
  BY <1>2, StageFacts DEF WellFormed
<1>4. o # Obj
  BY <1>2, BaseCopy, StageFacts
<1>5. Decided(o)
  BY <1>2, <1>3, <1>4, StageFacts DEF Decided
<1> QED
  BY <1>1, <1>2, <1>5, PersistStores

\* A rollout that begins where another was completed finds everything in place.
LEMMA KeptDecides ==
    ASSUME Deciding, NEW b, Base(b), Completes(b), b.stage = "rolledOut",
           Persist(Graduated(b)), UNCHANGED servers
    PROVE  ServerTypes' /\ \E o \in Object : Decided(o) /\ Stores(o)
<1> DEFINE o == Graduated(b)
<1>1. TypeOK /\ Obj \in Object
  BY DecidingCopy DEF Deciding
<1>2. /\ o \in Object /\ Same(o, Obj) /\ o.fin /\ ~Obj.ts /\ Obj.fin
      /\ o.current = Obj.current /\ o.stage = "validation"
  BY BaseCopy, KeptCopy DEF Same
<1>3. Obj.stage = "rolledOut" /\ Obj.desired # Obj.current /\ o # Obj
  BY <1>2, BaseCopy, StageFacts
<1>4. WellFormed(o)
  BY <1>2, StageFacts DEF WellFormed
<1>5. Obj.snap # {} /\ \A k \in Obj.snap : route[k] = Obj.desired
  BY BaseCopy DEF Completes, Placed, Unplaced, Pending, Same
<1>6. ServerTypes' /\ disc' = disc /\ route' = route
  BY <1>1 DEF servers, ServerTypes, TypeOK
<1>7. Decided(o)
  BY <1>2, <1>3, <1>4, <1>5, <1>6, StageFacts DEF Decided
<1> QED
  BY <1>1, <1>2, <1>6, <1>7, PersistStores

\* The condition that was kept ends the rollout although an actor has run.
LEMMA EarlyDecides ==
    ASSUME Deciding, NEW b, Base(b), ActorRuns(b), StillComplete(b),
           Persist(Graduated(Refreshed(b)))
    PROVE  ServerTypes' /\ \E o \in Object : Decided(o) /\ Stores(o)
<1> DEFINE r == Refreshed(b)
           o == Graduated(r)
<1>1. TypeOK /\ Obj \in Object /\ WellFormed(Obj)
  BY DecidingCopy DEF Deciding
<1>2. Obj.done /\ disc' /\ Obj.stage \in InProgress /\ b = Obj
  BY <1>1, BaseCopy DEF StillComplete, WellFormed
<1>3. /\ r \in Object /\ Same(r, Obj) /\ r.fin = Obj.fin /\ r.stage = Obj.stage
      /\ r.stage # "rolledOut"
  BY <1>1, <1>2, RefreshedCopy, StageFacts
<1> HIDE DEF r
<1>4. /\ o \in Object /\ Same(o, Obj) /\ o.fin /\ ~Obj.ts /\ Obj.fin
      /\ o.stage = "rolledOut" /\ o.loads = {} /\ ~o.done
  BY <1>3, BaseCopy, GraduatedCopy DEF Same
<1>5. WellFormed(o) /\ o # Obj
  BY <1>2, <1>4, StageFacts DEF WellFormed
<1>6. ServerTypes' /\ ((\A k \in Obj.snap : route[k] = Obj.desired) => route' = route)
  BY <1>1, <1>2, BaseCopy, ActorServers
<1>7. Decided(o)
  BY <1>2, <1>4, <1>5, <1>6, StageFacts DEF Decided
<1> QED
  BY <1>1, <1>4, <1>6, <1>7, PersistStores DEF r

LEMMA RolloutDecides ==
    ASSUME Deciding, NEW b, Base(b), Rollout(b)
    PROVE  ServerTypes' /\ \E o \in Object : Decided(o) /\ Stores(o)
<1>1. TypeOK /\ Obj \in Object /\ WellFormed(Obj)
  BY DecidingCopy DEF Deciding
<1>2. CASE ActorRuns(b) /\ Persist(InPlacement(b))
  <2> DEFINE o == InPlacement(b)
  <2>1. /\ o \in Object /\ Same(o, Obj) /\ o.fin /\ ~Obj.ts /\ Obj.fin
        /\ o.current = Obj.current /\ o.stage = "placement" /\ o.done = Obj.done
    BY <1>1, BaseCopy, InPlacementCopy DEF Same
  <2>2. WellFormed(o)
    BY <2>1, StageFacts DEF WellFormed
  <2>3. ServerTypes' /\ (disc => disc')
        /\ ((\A k \in b.snap : route[k] = b.desired) => route' = route)
    BY <1>1, <1>2, BaseCopy, ActorServers
  <2>4. o = Obj => b = Obj
    BY <1>2, <2>1, BaseCopy, StageFacts
  <2>5. Decided(o)
    BY <2>1, <2>2, <2>3, <2>4, StageFacts DEF Decided
  <2> QED
    BY <1>1, <1>2, <2>1, <2>3, <2>5, PersistStores
<1>3. CASE /\ b.stage = "rolledOut"
           /\ Completes(b) /\ Persist(Graduated(b)) /\ UNCHANGED servers
  BY <1>3, KeptDecides
<1>4. CASE /\ b.stage # "rolledOut"
           /\ Completes(b) /\ Persist(Graduated(b)) /\ UNCHANGED servers
  <2> DEFINE o == Graduated(b)
  <2>1. /\ o \in Object /\ Same(o, Obj) /\ o.fin /\ ~Obj.ts /\ Obj.fin
        /\ o.snap = Obj.snap /\ o.current = b.candidate
        /\ o.stage = "rolledOut" /\ o.loads = {} /\ ~o.done
    BY <1>1, <1>4, BaseCopy, GraduatedCopy DEF Same
  <2>2. WellFormed(o)
    BY <2>1, StageFacts DEF WellFormed
  <2>3. disc /\ \A k \in b.snap : route[k] = b.desired
    BY <1>4, BaseCopy DEF Completes, Placed, Pending
  <2>4. rollback => o.desired = o.current /\ \A k \in o.snap : route[k] = o.current
    BY <2>1, <2>3, BaseCopy DEF Same
  <2>5. Decided(o)
    BY <1>4, <2>1, <2>2, <2>3, <2>4, StageFacts DEF Decided, servers
  <2> QED
    BY <1>1, <1>4, <2>1, <2>5, PersistStores DEF servers, ServerTypes, TypeOK
<1>5. CASE ActorRuns(b) /\ StillComplete(b) /\ Persist(Graduated(Refreshed(b)))
  BY <1>5, EarlyDecides
<1> QED
  BY <1>2, <1>3, <1>4, <1>5 DEF Rollout

LEMMA SkipDecides ==
    ASSUME Deciding, SkipRollout
    PROVE  ServerTypes' /\ \E o \in Object : Decided(o) /\ Stores(o)
<1> DEFINE o == Begun(Obj)
<1>1. TypeOK /\ Obj \in Object /\ WellFormed(Obj) /\ (Obj.fin \/ Obj.ts)
  BY DecidingCopy DEF Deciding
<1>2. ~Obj.ts /\ ~(Obj.desired = NoModel /\ Obj.candidate # NoModel)
      /\ Obj.desired # Obj.candidate /\ Obj.desired = Obj.current
  BY DEF SkipRollout, Starts, ShouldCleanup, TriggerNewRollout
<1>3. Obj.stage \notin CleanedUp
  BY <1>1, <1>2, StageFacts DEF WellFormed
<1>4. WellFormed(o)
  BY <1>1, BegunCopy DEF WellFormed, Same
<1>5. UNCHANGED servers /\ Persist(o)
  BY DEF SkipRollout
<1>6. Decided(o)
  BY <1>1, <1>2, <1>3, <1>4, <1>5, BegunCopy, StageFacts DEF Decided, servers, Same
<1> QED
  BY <1>1, <1>5, <1>6, BegunCopy, PersistStores DEF servers, ServerTypes, TypeOK

LEMMA RestDecides ==
    ASSUME Deciding, Rest
    PROVE  ServerTypes' /\ \E o \in Object : Decided(o) /\ Stores(o)
<1>1. TypeOK /\ Obj \in Object /\ WellFormed(Obj) /\ (Obj.fin \/ Obj.ts)
  BY DecidingCopy DEF Deciding
<1>2. UNCHANGED servers /\ ~Obj.ts
  BY DEF Rest, ShouldCleanup
<1>3. ServerTypes'
  BY <1>1, <1>2 DEF servers, ServerTypes, TypeOK
<1>4. CASE Obj.stage \in CleanedUp
  <2> DEFINE o == [Obj EXCEPT !.fin = FALSE]
  <2>1. o \in Object /\ Same(o, Obj) /\ ~o.fin /\ o.current = Obj.current
        /\ o.stage = Obj.stage /\ o.loads = Obj.loads /\ o.done = Obj.done
    BY <1>1 DEF Object, Same
  <2>2. Persist(o)
    BY <1>4 DEF Rest
  <2>3. WellFormed(o)
    BY <1>1, <2>1 DEF WellFormed, Same
  <2>4. Decided(o)
    BY <1>1, <1>2, <1>4, <2>1, <2>3, StageFacts DEF Decided, WellFormed, servers
  <2> QED
    BY <1>1, <1>3, <2>1, <2>2, <2>4, PersistStores
<1>5. CASE Obj.stage \notin CleanedUp
  <2>1. Persist(Obj)
    BY <1>5 DEF Rest
  <2>2. Decided(Obj)
    BY <1>1, <1>2, <1>5, StageFacts DEF Decided, Same, servers
  <2> QED
    BY <1>1, <1>3, <2>1, <2>2, PersistStores
<1> QED
  BY <1>4, <1>5

LEMMA RolloutFailsDecides ==
    ASSUME Deciding, RolloutFails
    PROVE  ServerTypes' /\ \E o \in Object : Decided(o) /\ Stores(o)
<1>1. PICK b \in {Obj, Begun(Obj)} :
        /\ IF b = Obj THEN Continues(Obj) ELSE Starts(Obj) /\ Obj.desired # Obj.current
        /\ ActorRuns(b) \/ UNCHANGED servers
        /\ \E failed \in FailedCopies(b) : Persist(failed)
  BY DEF RolloutFails
<1>2. Base(b)
  BY <1>1 DEF Base
<1>3. TypeOK /\ Obj \in Object /\ WellFormed(Obj)
  BY DecidingCopy DEF Deciding
<1>4. ServerTypes' /\ (disc => disc')
  BY <1>1, <1>2, <1>3, BaseCopy, ActorServers DEF servers, ServerTypes, TypeOK
<1>5. CASE b.stage = "rolloutFailed"
  <2>1. PICK loads \in SUBSET Ready(b) : Persist(Unmoved(b, loads))
    BY <1>1, <1>5 DEF FailedCopies
  <2>2. loads \in SUBSET Targets /\ b.stage \notin InProgress
    BY <1>2, <1>5, <2>1, BaseCopy, ReadyType, StageFacts
  <2> QED
    BY <1>2, <1>4, <2>1, <2>2, UnmovedDecides
<1>6. CASE b.stage # "rolloutFailed"
  <2> DEFINE o == Transition(b, "rolloutFailed")
  <2>1. Persist(o)
    BY <1>1, <1>6 DEF FailedCopies
  <2>2. "rolloutFailed" \in Stages /\ "rolloutFailed" \notin CleanedUp
        /\ "rolloutFailed" \in Terminal
    BY StageFacts DEF Stages
  <2>3. /\ o \in Object /\ Same(o, Obj) /\ o.fin /\ ~Obj.ts /\ Obj.fin
        /\ o.current = Obj.current /\ o.candidate = b.candidate
        /\ o.stage = "rolloutFailed" /\ o.loads = {} /\ ~o.done
    BY <1>2, <2>2, BaseCopy, TransitionCopy DEF Same
  <2>4. WellFormed(o)
    BY <2>3 DEF WellFormed
  <2>5. o # Obj
    BY <1>2, <1>6, <2>3, BaseCopy
  <2>6. Decided(o)
    BY <1>4, <2>2, <2>3, <2>4, <2>5 DEF Decided
  <2> QED
    BY <1>3, <1>4, <2>1, <2>3, <2>6, PersistStores
<1> QED
  BY <1>5, <1>6

LEMMA RemoveModelType ==
    ASSUME TypeOK, NEW m, RemoveModel(m)
    PROVE  config' \in [Targets -> SUBSET Models]
BY DEF TypeOK, RemoveModel

LEMMA RemoveRoutesType ==
    ASSUME TypeOK, NEW ks, RemoveRoutes(ks)
    PROVE  route' \in [Targets -> Revisions]
BY DEF TypeOK, RemoveRoutes, Revisions

LEMMA RollbackDecides ==
    ASSUME Deciding, Rollback
    PROVE  ServerTypes' /\ \E o \in Object : Decided(o) /\ Stores(o)
<1>1. PICK s \in {"rolledBack", "rollbackFailed"} : Persist(Transition(Obj, s))
  BY DEF Rollback
<1> DEFINE o == Transition(Obj, s)
<1>2. TypeOK /\ Obj \in Object /\ WellFormed(Obj) /\ (Obj.fin \/ Obj.ts)
  BY DecidingCopy DEF Deciding
<1>3. s \in Stages /\ s \notin CleanedUp /\ s \in Terminal /\ s # "rolledOut"
  BY StageFacts DEF Stages
<1>4. ~Obj.ts /\ Obj.stage \in InProgress
  BY DEF Rollback, ShouldCleanup, RolloutInProgress
<1>5. /\ o \in Object /\ Same(o, Obj) /\ o.fin = Obj.fin
      /\ o.current = Obj.current /\ o.stage = s /\ o.loads = {} /\ ~o.done
  BY <1>2, <1>3, TransitionCopy
<1>6. WellFormed(o) /\ o # Obj
  BY <1>3, <1>4, <1>5, StageFacts DEF WellFormed
<1>7. ServerTypes' /\ disc' = disc
  BY <1>2, RemoveModelType DEF Rollback, ServerTypes, TypeOK
<1>8. Decided(o)
  BY <1>2, <1>3, <1>4, <1>5, <1>6, <1>7, StageFacts DEF Decided
<1> QED
  BY <1>1, <1>2, <1>5, <1>7, <1>8, PersistStores

LEMMA CleanUpServers ==
    ASSUME TypeOK, NEW o \in Object, CleanUp(o)
    PROVE  ServerTypes' /\ ~disc' /\ \A k \in o.snap : route'[k] = NoModel
<1>1. ServerTypes'
  BY RemoveModelType, RemoveRoutesType DEF CleanUp, ServerTypes
<1>2. o.snap \subseteq Targets
  BY DEF Object
<1> QED
  BY <1>1, <1>2 DEF CleanUp, RemoveRoutes

LEMMA CleanUpPartServers ==
    ASSUME TypeOK, NEW o \in Object, CleanUpPart(o)
    PROVE  ServerTypes'
<1>1. CASE UNCHANGED servers
  BY <1>1 DEF servers, ServerTypes, TypeOK
<1>2. CASE /\ RemoveModel(o.current)
           /\ \E k \in 1..(Clusters + 1) : RemoveRoutes({j \in o.snap : j < k})
           /\ UNCHANGED disc
  BY <1>2, RemoveModelType, RemoveRoutesType DEF ServerTypes, TypeOK
<1>3. CASE CleanUp(o)
  BY <1>3, CleanUpServers
<1> QED
  BY <1>1, <1>2, <1>3 DEF CleanUpPart

LEMMA CleanupDecides ==
    ASSUME Deciding, Cleanup
    PROVE  ServerTypes' /\ \E o \in Object : Decided(o) /\ Stores(o)
<1> DEFINE o == Cleaned(Obj)
<1>1. TypeOK /\ Obj \in Object /\ WellFormed(Obj)
  BY DecidingCopy DEF Deciding
<1>2. /\ o \in Object /\ Same(o, Obj) /\ ~o.fin
      /\ o.current = NoModel /\ o.stage = "cleanedUp" /\ o.loads = {} /\ ~o.done
  BY <1>1, CleanedCopy
<1>3. WellFormed(o) /\ o.stage \in CleanedUp
  BY <1>2, StageFacts DEF WellFormed
<1>4. Persist(o)
  BY DEF Cleanup
<1>5. CASE ~Uncleaned(Obj) /\ UNCHANGED servers
  <2>1. ServerTypes' /\ ~disc /\ ~disc' /\ route' = route
    BY <1>1, <1>5 DEF servers, ServerTypes, TypeOK, Uncleaned
  <2>2. Decided(o)
    BY <1>2, <1>3, <2>1 DEF Decided
  <2> QED
    BY <1>1, <1>2, <1>4, <2>1, <2>2, PersistStores
<1>6. CASE Obj.current # NoModel /\ CleanUp(Obj)
  <2>1. ServerTypes' /\ ~disc' /\ \A k \in Obj.snap : route'[k] = NoModel
    BY <1>1, <1>6, CleanUpServers
  <2>2. o # Obj
    BY <1>2, <1>6
  <2>3. Decided(o)
    BY <1>2, <1>3, <2>1, <2>2 DEF Decided
  <2> QED
    BY <1>1, <1>2, <1>4, <2>1, <2>3, PersistStores
<1> QED
  BY <1>5, <1>6 DEF Cleanup

\* The reconcile is over without storing anything.
Panics == ctl' = Idle /\ due' \in BOOLEAN /\ torn'

LEMMA PanicPanics ==
    ASSUME TypeOK, Panic
    PROVE  Panics /\ torn' \in BOOLEAN
BY DEF TypeOK, Panic, End, Panics

LEMMA CleanupFailsDecides ==
    ASSUME Deciding, CleanupFails
    PROVE  /\ ServerTypes' /\ torn' \in BOOLEAN
           /\ \/ Panics
              \/ torn' = torn /\ \E o \in Object : Decided(o) /\ Stores(o)
<1>1. TypeOK /\ Obj \in Object /\ WellFormed(Obj)
  BY DecidingCopy DEF Deciding
<1>2. ServerTypes'
  BY <1>1, CleanUpPartServers DEF CleanupFails
<1>3. CASE Obj.desired = NoModel
  BY <1>1, <1>2, <1>3, PanicPanics DEF CleanupFails
<1>4. CASE Obj.desired # NoModel
  <2> DEFINE o == Finished(Obj, "cleanUpFailed")
  <2>1. torn' = torn /\ Persist(o) /\ Obj.ts /\ torn \in BOOLEAN
    BY <1>1, <1>4 DEF CleanupFails, CleansUp, ShouldCleanup, TypeOK
  <2>2. "cleanUpFailed" \in Stages
    BY StageFacts DEF Stages
  <2>3. /\ o \in Object /\ Same(o, Obj) /\ ~o.fin
        /\ o.current = Obj.current /\ o.stage = "cleanUpFailed" /\ o.loads = {} /\ ~o.done
    BY <1>1, <2>2, FinishedCopy
  <2>4. WellFormed(o) /\ o.stage \in CleanedUp
    BY <2>1, <2>3, StageFacts DEF WellFormed, Same
  <2>5. Decided(o)
    BY <2>3, <2>4, StageFacts DEF Decided
  <2> QED
    BY <1>1, <1>2, <2>1, <2>3, <2>5, PersistStores
<1> QED
  BY <1>3, <1>4

Deciders ==
    \/ ContinueRollout \/ StartRollout \/ SkipRollout \/ GateFails \/ RolloutFails
    \/ Rollback \/ Cleanup \/ CleanupPanics \/ CleanupFails \/ Rest

\* What one of these steps does, all told.
Turns ==
    /\ UNCHANGED <<store, world>>
    /\ ServerTypes' /\ torn' \in BOOLEAN /\ faults' \in 0..MaxFaults
    /\ \/ torn' = torn /\ \E o \in Object : Decided(o) /\ Stores(o)
       \/ Panics
       \/ UNCHANGED <<servers, torn>> /\ ctl' = Idle /\ due' \in BOOLEAN

LEMMA FaultType ==
    ASSUME TypeOK, faults' = faults \/ Fault
    PROVE  faults' \in 0..MaxFaults
BY DeploymentAssumption DEF TypeOK, Fault

LEMMA DecidersTurn ==
    ASSUME Deciding, Deciders
    PROVE  Turns
<1>1. TypeOK /\ At("act") /\ torn \in BOOLEAN /\ faults \in 0..MaxFaults
  BY DEF Deciding, TypeOK
<1>2. CASE ContinueRollout
  <2>1. Base(Obj) /\ Rollout(Obj)
    BY <1>2 DEF ContinueRollout, Base
  <2> QED
    BY <1>1, <1>2, <2>1, RolloutDecides DEF ContinueRollout, Turns
<1>3. CASE StartRollout
  <2>1. Base(Begun(Obj)) /\ Rollout(Begun(Obj))
    BY <1>3 DEF StartRollout, Base
  <2> QED
    BY <1>1, <1>3, <2>1, RolloutDecides DEF StartRollout, Turns
<1>4. CASE SkipRollout
  BY <1>1, <1>4, SkipDecides DEF SkipRollout, Turns
<1>5. CASE GateFails
  <2>1. faults' \in 0..MaxFaults
    BY <1>1, <1>5, FaultType DEF GateFails
  <2>2. ctl' = Idle /\ due' \in BOOLEAN
    BY <1>1, <1>5 DEF GateFails, End, TypeOK
  <2>3. ServerTypes'
    BY <1>1, <1>5 DEF GateFails, servers, ServerTypes, TypeOK
  <2> QED
    BY <1>1, <1>5, <2>1, <2>2, <2>3 DEF GateFails, Turns
<1>6. CASE RolloutFails
  BY <1>1, <1>6, RolloutFailsDecides, FaultType DEF RolloutFails, Turns
<1>7. CASE Rollback
  BY <1>1, <1>7, RollbackDecides, FaultType DEF Rollback, Turns
<1>8. CASE Cleanup
  BY <1>1, <1>8, CleanupDecides DEF Cleanup, Turns
<1>9. CASE CleanupPanics
  <2>1. ServerTypes'
    BY <1>1, <1>9 DEF CleanupPanics, servers, ServerTypes, TypeOK
  <2> QED
    BY <1>1, <1>9, <2>1, PanicPanics DEF CleanupPanics, Turns
<1>10. CASE CleanupFails
  BY <1>1, <1>10, CleanupFailsDecides, FaultType DEF CleanupFails, Turns
<1>11. CASE Rest
  BY <1>1, <1>11, RestDecides DEF Rest, Turns
<1> QED
  BY <1>2, <1>3, <1>4, <1>5, <1>6, <1>7, <1>8, <1>9, <1>10, <1>11 DEF Deciders

-----------------------------------------------------------------------------
(* The other steps, all told.                                              *)

Begins ==
    /\ At("idle")
    /\ ctl' \in Busy /\ ctl'.obj = cache
    /\ ctl'.pc = IF cache.fin \/ cache.ts THEN "act" ELSE "fin"
    /\ stale' = IF "cache" \in stale THEN stale \cup {"read"} ELSE stale \ {"read"}
    /\ due' \in BOOLEAN
    /\ UNCHANGED <<dep, cache, servers, world, torn, faults>>

\* It stores nothing, and others do not see what it did.
Drops ==
    /\ ctl' = Idle /\ due' \in BOOLEAN /\ torn' = TRUE /\ faults' \in 0..MaxFaults
    /\ UNCHANGED <<store, servers, world>>

Restarts ==
    /\ ctl' = Idle /\ due' \in BOOLEAN /\ faults' \in 0..MaxFaults
    /\ cache' = dep /\ stale' = {}
    /\ torn' \in BOOLEAN /\ (~torn' => ~torn /\ ctl = Idle)
    /\ ServerTypes' /\ (ctl = Idle => UNCHANGED servers)
    /\ UNCHANGED <<dep, world>>

Elsewhere ==
    /\ dep' \in Object /\ (dep.ts => dep'.ts)
    /\ dep'.fin = dep.fin /\ dep'.snap = dep.snap /\ dep'.current = dep.current
    /\ dep'.stage = dep.stage /\ dep'.loads = dep.loads /\ dep'.done = dep.done
    /\ stale' = {"cache", "read"}
    /\ orders' \in 0..MaxOrders
    /\ UNCHANGED <<cache, due, ctl, servers, loaded, rollback, healthy, serving, torn, faults>>

Quiet ==
    /\ loaded' \in [Targets -> SUBSET Models]
    /\ healthy' \in BOOLEAN /\ serving' \subseteq Targets /\ faults' \in 0..MaxFaults
    /\ UNCHANGED <<store, due, ctl, servers, rollback, orders, torn>>

Steps ==
    \/ At("act") /\ Turns
    \/ Begins \/ AddFinalizer \/ UpdateMetadata \/ UpdateStatus
    \/ Drops \/ CacheSync \/ Restarts \/ Elsewhere \/ Quiet

LEMMA ReconcileBegins ==
    ASSUME TypeOK, Reconcile
    PROVE  Begins
BY DEF TypeOK, Reconcile, Begins, Busy

LEMMA EndDue ==
    ASSUME TypeOK, NEW again \in BOOLEAN, End(again)
    PROVE  ctl' = Idle /\ due' \in BOOLEAN
BY DEF TypeOK, End

LEMMA ConflictDrops ==
    ASSUME TypeOK, Conflict
    PROVE  Drops
<1>1. ctl \in Busy
  BY Working, IdleFacts DEF Conflict
<1>2. ctl' = Idle /\ due' \in BOOLEAN
  BY <1>1, EndDue DEF Conflict, Busy
<1> QED
  BY <1>2 DEF Conflict, Drops, TypeOK

LEMMA WriteFailsDrops ==
    ASSUME TypeOK, WriteFails
    PROVE  Drops
<1>1. ctl \in Busy
  BY Working, IdleFacts DEF WriteFails, At
<1>2. ctl' = Idle /\ due' \in BOOLEAN
  BY <1>1, EndDue DEF WriteFails, Busy
<1>3. faults' \in 0..MaxFaults
  BY FaultType DEF WriteFails
<1> QED
  BY <1>2, <1>3 DEF WriteFails, Drops

LEMMA CrashRestarts ==
    ASSUME TypeOK, Crash
    PROVE  Restarts
<1>1. faults' \in 0..MaxFaults
  BY FaultType DEF Crash
<1>2. torn' \in BOOLEAN /\ (~torn' => ~torn /\ ctl = Idle)
  BY DEF Crash, TypeOK
<1>3. At("act") => ctl # Idle /\ Obj \in Object
  BY Working, IdleFacts DEF At
<1>4. ServerTypes' /\ (ctl = Idle => UNCHANGED servers)
  <2>1. CASE UNCHANGED servers
    BY <2>1 DEF servers, ServerTypes, TypeOK
  <2>2. CASE At("act") /\ CleanUpPart(Obj)
    BY <1>3, <2>2, CleanUpPartServers
  <2> QED
    BY <2>1, <2>2 DEF Crash
<1> QED
  BY <1>1, <1>2, <1>4 DEF Crash, Restarts

LEMMA OthersElsewhere ==
    ASSUME TypeOK, UserWrites \/ Delete \/ IngesterWrites
    PROVE  Elsewhere
<1>1. PICK o \in Object :
        /\ Others(o) /\ (dep.ts => o.ts)
        /\ o.fin = dep.fin /\ o.snap = dep.snap /\ o.current = dep.current
        /\ o.stage = dep.stage /\ o.loads = dep.loads /\ o.done = dep.done
  <2>1. CASE UserWrites
    <3>1. PICK m \in Revisions : Others([dep EXCEPT !.desired = m])
      BY <2>1 DEF UserWrites
    <3> DEFINE o == [dep EXCEPT !.desired = m]
    <3>2. o \in Object
      BY <3>1 DEF TypeOK, Object
    <3>3. /\ o.ts = dep.ts
          /\ o.fin = dep.fin /\ o.snap = dep.snap /\ o.current = dep.current
          /\ o.stage = dep.stage /\ o.loads = dep.loads /\ o.done = dep.done
      BY DEF TypeOK, Object
    <3> QED
      BY <3>1, <3>2, <3>3
  <2>2. CASE Delete
    <3> DEFINE o == [dep EXCEPT !.ts = TRUE]
    <3>1. Others(o)
      BY <2>2 DEF Delete
    <3>2. o \in Object
      BY DEF TypeOK, Object
    <3>3. /\ o.ts
          /\ o.fin = dep.fin /\ o.snap = dep.snap /\ o.current = dep.current
          /\ o.stage = dep.stage /\ o.loads = dep.loads /\ o.done = dep.done
      BY DEF TypeOK, Object
    <3> QED
      BY <3>1, <3>2, <3>3
  <2>3. CASE IngesterWrites
    BY <2>3 DEF IngesterWrites, TypeOK
  <2> QED
    BY <2>1, <2>2, <2>3
<1>2. orders' \in 0..MaxOrders
  BY <1>1, DeploymentAssumption DEF Others, TypeOK
<1> QED
  BY <1>1, <1>2 DEF Others, Write, Elsewhere

LEMMA QuietSteps ==
    ASSUME TypeOK, (\E k \in Targets : Load(k)) \/ HealthTurns \/ UNCHANGED vars
    PROVE  Quiet
<1>1. CASE \E k \in Targets : Load(k)
  BY <1>1 DEF Load, TypeOK, Quiet
<1>2. CASE HealthTurns
  BY <1>2, FaultType DEF HealthTurns, TypeOK, Quiet
<1>3. CASE UNCHANGED vars
  BY <1>3 DEF vars, store, servers, world, TypeOK, Quiet
<1> QED
  BY <1>1, <1>2, <1>3

LEMMA NextSteps ==
    ASSUME IInv, [Next]_vars
    PROVE  Steps
<1> USE DEF Steps
<1>1. TypeOK
  BY DEF IInv
<1>2. CASE Deciders
  <2>1. At("act")
    BY <1>2 DEF Deciders, ContinueRollout, StartRollout, SkipRollout, GateFails,
                RolloutFails, Rollback, Cleanup, CleanupPanics, CleanupFails, Rest
  <2> QED
    BY <1>2, <2>1, DecidersTurn DEF Deciding, IInv, Inv
<1>3. CASE Reconcile
  BY <1>1, <1>3, ReconcileBegins
<1>4. CASE Conflict \/ WriteFails
  BY <1>1, <1>4, ConflictDrops, WriteFailsDrops
<1>5. CASE Crash
  BY <1>1, <1>5, CrashRestarts
<1>6. CASE UserWrites \/ Delete \/ IngesterWrites
  BY <1>1, <1>6, OthersElsewhere
<1>7. CASE (\E k \in Targets : Load(k)) \/ HealthTurns \/ UNCHANGED vars
  BY <1>1, <1>7, QuietSteps
<1>8. CASE AddFinalizer \/ UpdateMetadata \/ UpdateStatus \/ CacheSync
  BY <1>8
<1> QED
  BY <1>2, <1>3, <1>4, <1>5, <1>6, <1>7, <1>8 DEF Next, Acts, Deciders

-----------------------------------------------------------------------------
(* Every step preserves the invariant.                                     *)

LEMMA Parts ==
    ASSUME IInv
    PROVE  /\ dep \in Object /\ cache \in Object
           /\ ctl # Idle => ctl \in Busy /\ Obj \in Object /\ WellFormed(Obj)
           /\ At("idle") <=> ctl = Idle
           /\ WellFormed(dep) /\ WellFormed(cache)
           /\ stale \subseteq {"cache", "read"}
BY Working DEF IInv, Inv, TypeOK, CopiesWellFormed

\* A reconcile at rest has nothing to keep.
LEMMA AtRest ==
    ASSUME ctl' = Idle
    PROVE  /\ ctl'.pc = "idle" /\ ~Storing' /\ ~Leaving'
           /\ UnderFinalizer' /\ Graduates' /\ LeavesNothing'
BY IdleFacts DEF Storing, Leaving, UnderFinalizer, Graduates, LeavesNothing, At

LEMMA BeginsKeeps ==
    ASSUME IInv, Begins
    PROVE  IInv'
<1>1. /\ dep \in Object /\ cache \in Object /\ WellFormed(dep) /\ WellFormed(cache)
      /\ ctl = Idle /\ ctl.pc = "idle"
  BY Parts, IdleFacts DEF Begins
<1>2. ctl' # Idle /\ ctl'.pc \in {"fin", "act"} /\ ctl'.obj = cache /\ dep' = dep /\ cache' = cache
  BY IdleFacts DEF Begins
<1>3. TypeOK'
  BY DEF Begins, IInv, TypeOK, Busy, servers, world
<1>4. CopiesWellFormed'
  BY <1>1, <1>2 DEF CopiesWellFormed, WellFormed, Obj
<1>5. CopiesSound'
  BY <1>2 DEF Begins, IInv, Inv, CopiesSound, Sound, Completed, Obj, world
<1>6. CopiesFresh'
  BY <1>2 DEF Begins, IInv, Inv, CopiesFresh, Obj, At, Storing
<1>7. UnderFinalizer'
  BY <1>2 DEF Begins, UnderFinalizer, Obj, At, Storing
<1>8. Stands' /\ StaysRouted'
  BY <1>1, <1>2 DEF Begins, IInv, Inv, Stands, StaysRouted, Completed, Leaving, Storing,
                    servers, world
<1>9. Graduates' /\ LeavesNothing'
  BY <1>2 DEF Graduates, LeavesNothing, Storing, At
<1>10. KeptIsTorn'
  BY <1>1, <1>2 DEF Begins, IInv, Inv, KeptIsTorn, Storing, world
<1> QED
  BY <1>3, <1>4, <1>5, <1>6, <1>7, <1>8, <1>9, <1>10 DEF IInv, Inv

LEMMA QuietKeeps ==
    ASSUME IInv, Quiet
    PROVE  IInv'
<1>1. TypeOK'
  BY DEF Quiet, IInv, TypeOK, store, servers
<1>2. CopiesWellFormed' /\ CopiesSound' /\ CopiesFresh' /\ UnderFinalizer'
  BY DEF Quiet, IInv, Inv, CopiesWellFormed, WellFormed, CopiesSound, Sound, Completed,
         CopiesFresh, UnderFinalizer, Storing, At, Obj, store
<1>3. Stands' /\ Graduates' /\ KeptIsTorn' /\ LeavesNothing' /\ StaysRouted'
  BY DEF Quiet, IInv, Inv, Stands, Graduates, KeptIsTorn, LeavesNothing, StaysRouted,
         Completed, Leaving, Storing, At, Obj, store, servers
<1> QED
  BY <1>1, <1>2, <1>3 DEF IInv, Inv

LEMMA DropsKeeps ==
    ASSUME IInv, Drops
    PROVE  IInv'
<1>1. TypeOK'
  BY DEF Drops, IInv, TypeOK, store, servers, world
<1>2. CopiesWellFormed' /\ CopiesFresh'
  BY DEF Drops, IInv, Inv, CopiesWellFormed, WellFormed, CopiesFresh, store
<1>3. CopiesSound'
  BY AtRest DEF Drops, IInv, Inv, CopiesSound, Sound, Completed, store
<1>4. Stands' /\ StaysRouted' /\ KeptIsTorn'
  BY DEF Drops, Stands, StaysRouted, Completed, KeptIsTorn
<1> QED
  BY <1>1, <1>2, <1>3, <1>4, AtRest DEF IInv, Inv, Drops

LEMMA RestartsKeeps ==
    ASSUME IInv, Restarts
    PROVE  IInv'
<1>1. TypeOK'
  BY DEF Restarts, IInv, TypeOK, ServerTypes, world
<1>2. CopiesWellFormed' /\ CopiesFresh'
  BY DEF Restarts, IInv, Inv, CopiesWellFormed, WellFormed, CopiesFresh
<1>3. CopiesSound'
  <2>1. ctl'.pc = "idle" /\ dep' = dep /\ cache' = dep
    BY AtRest DEF Restarts
  <2>2. dep.stage = "cleanUpFailed" => dep.stage \in CleanedUp
    BY StageFacts
  <2>3. dep.stage = "rolledOut" => dep.stage \notin InProgress
    BY StageFacts
  <2> QED
    BY <2>1, <2>2, <2>3 DEF CopiesSound, Sound, Completed
<1>4. Stands' /\ StaysRouted' /\ KeptIsTorn'
  <2>1. CASE torn'
    BY <2>1 DEF Stands, StaysRouted, Completed, KeptIsTorn
  <2>2. CASE ~torn'
    BY <2>2, AtRest, IdleFacts DEF Restarts, IInv, Inv, Stands, StaysRouted, Completed,
                        KeptIsTorn, Leaving, Storing, servers, world
  <2> QED
    BY <2>1, <2>2
<1> QED
  BY <1>1, <1>2, <1>3, <1>4, AtRest DEF IInv, Inv, Restarts

LEMMA ElsewhereKeeps ==
    ASSUME IInv, Elsewhere
    PROVE  IInv'
<1>1. CopiesWellFormed'
  BY DEF Elsewhere, IInv, Inv, CopiesWellFormed, WellFormed, Obj
<1>2. TypeOK'
  BY <1>1 DEF Elsewhere, IInv, TypeOK, servers, CopiesWellFormed, WellFormed
<1>3. CopiesSound'
  BY DEF Elsewhere, IInv, Inv, CopiesSound, Sound, Completed, Obj
<1>4. CopiesFresh'
  BY DEF Elsewhere, CopiesFresh
<1>5. UnderFinalizer'
  BY DEF Elsewhere, IInv, Inv, UnderFinalizer, Storing, At, Obj
<1>6. Stands' /\ StaysRouted'
  BY DEF Elsewhere, IInv, Inv, Stands, StaysRouted, Completed, Leaving, Storing, Obj, servers
<1>7. Graduates' /\ LeavesNothing' /\ KeptIsTorn'
  BY DEF Elsewhere, IInv, Inv, Graduates, LeavesNothing, KeptIsTorn
<1> QED
  BY <1>1, <1>2, <1>3, <1>4, <1>5, <1>6, <1>7 DEF IInv, Inv

LEMMA CacheSyncKeeps ==
    ASSUME IInv, CacheSync
    PROVE  IInv'
<1>0. /\ dep' = dep /\ cache' = dep /\ ctl' = ctl /\ torn' = torn /\ rollback' = rollback
      /\ UNCHANGED servers /\ stale' = stale \ {"cache"}
  BY DEF CacheSync, world
<1>1. TypeOK'
  BY DEF CacheSync, IInv, TypeOK, servers, world
<1>2. CopiesWellFormed'
  BY <1>0 DEF IInv, Inv, CopiesWellFormed, WellFormed, Obj
<1>3. CopiesSound'
  <2>1. Sound(cache)'
    <3>1. dep.stage = "cleanUpFailed" => dep.stage \in CleanedUp
      BY StageFacts
    <3> QED
      BY <1>0, <3>1, StageFacts DEF Sound, Completed
  <2>2. ctl.pc \in {"fin", "act"} => Sound(Obj)'
    BY <1>0 DEF IInv, Inv, CopiesSound, Sound, Completed, Obj
  <2> QED
    BY <1>0, <2>1, <2>2 DEF CopiesSound
<1>4. CopiesFresh'
  BY <1>0, Parts DEF IInv, Inv, CopiesFresh, Storing, At, Obj, Busy
<1>5. UnderFinalizer'
  BY <1>0 DEF IInv, Inv, UnderFinalizer, Storing, At, Obj
<1>6. Stands' /\ StaysRouted'
  BY <1>0 DEF IInv, Inv, Stands, StaysRouted, Completed, Leaving, Storing, Obj, servers
<1>7. Graduates' /\ LeavesNothing' /\ KeptIsTorn'
  BY <1>0 DEF IInv, Inv, Graduates, LeavesNothing, KeptIsTorn, Storing, At, Obj, servers
<1> QED
  BY <1>1, <1>2, <1>3, <1>4, <1>5, <1>6, <1>7 DEF IInv, Inv

LEMMA AddFinalizerKeeps ==
    ASSUME IInv, AddFinalizer
    PROVE  IInv'
<1>1. /\ At("fin") /\ ctl \in Busy /\ "read" \notin stale /\ Obj = dep /\ dep \in Object
      /\ ~dep.ts /\ ~Storing /\ ~Leaving
  <2>1. At("fin") /\ "read" \notin stale
    BY DEF AddFinalizer, Update
  <2> QED
    BY <2>1, Parts, IdleFacts DEF IInv, Inv, CopiesFresh, UnderFinalizer, At, Storing, Leaving
<1> DEFINE o == [dep EXCEPT !.fin = TRUE]
<1>2. /\ dep' = o /\ cache' = cache
      /\ stale' = IF o = dep THEN stale ELSE stale \cup {"cache"}
  BY <1>1 DEF AddFinalizer, Update
<1>3. /\ o \in Object /\ o.fin /\ Same(o, dep) /\ o.snap = dep.snap /\ o.current = dep.current
      /\ o.stage = dep.stage /\ o.loads = dep.loads /\ o.done = dep.done
  BY <1>1 DEF Object, Same
<1>4. ctl' \in Busy /\ ctl'.pc = "act" /\ ctl'.obj = o /\ ctl' # Idle
  <2>1. ctl' = [ctl EXCEPT !.pc = "act", !.obj.fin = TRUE]
    BY DEF AddFinalizer
  <2>2. ctl'.pc = "act" /\ ctl'.obj = o /\ ctl' \in Busy
    BY <1>1, <1>3, <2>1 DEF Busy, Obj
  <2> QED
    BY <2>2, IdleFacts
<1> HIDE DEF o
<1>5. UNCHANGED <<due, servers, world, torn, faults>>
  BY DEF AddFinalizer
<1>6. CopiesWellFormed'
  BY <1>2, <1>3, <1>4, Parts DEF CopiesWellFormed, WellFormed, Same, Obj
<1>7. TypeOK'
  BY <1>2, <1>3, <1>4, <1>5, <1>6
     DEF IInv, TypeOK, Busy, servers, world, CopiesWellFormed, WellFormed
<1>8. CopiesSound'
  BY <1>1, <1>2, <1>3, <1>4, <1>5, StageFacts
     DEF IInv, Inv, CopiesSound, Sound, Completed, Same, Obj, world
<1>9. CopiesFresh'
  BY <1>1, <1>2, <1>3, <1>4, IdleFacts DEF IInv, Inv, CopiesFresh, Same, Storing, At, Obj
<1>10. UnderFinalizer' /\ Graduates' /\ LeavesNothing'
  BY <1>3, <1>4 DEF UnderFinalizer, Graduates, LeavesNothing, Storing, At, Obj
<1>11. Stands' /\ StaysRouted' /\ KeptIsTorn'
  BY <1>1, <1>2, <1>3, <1>4, <1>5
     DEF IInv, Inv, Stands, StaysRouted, Completed, KeptIsTorn, Leaving, Storing, Same, Obj,
         servers, world
<1> QED
  BY <1>6, <1>7, <1>8, <1>9, <1>10, <1>11 DEF IInv, Inv

LEMMA UpdateMetadataKeeps ==
    ASSUME IInv, UpdateMetadata
    PROVE  IInv'
<1>1. /\ At("update") /\ ctl \in Busy /\ ctl # Idle /\ "read" \notin stale /\ Storing
      /\ dep \in Object /\ Obj \in Object
  BY Parts, IdleFacts DEF UpdateMetadata, Update, At, Storing
<1> DEFINE o == [dep EXCEPT !.fin = Obj.fin, !.snap = Obj.snap]
<1>2. /\ dep' = o /\ cache' = cache
      /\ stale' = IF o = dep THEN stale ELSE stale \cup {"cache"}
  BY DEF UpdateMetadata, Update
<1>3. /\ o \in Object /\ o.fin = Obj.fin /\ Same(o, dep) /\ o.snap = Obj.snap
      /\ o.current = dep.current /\ o.stage = dep.stage /\ o.loads = dep.loads
      /\ o.done = dep.done
  BY <1>1 DEF Object, Same
<1>4. ctl' \in Busy /\ ctl'.pc = "status" /\ ctl'.obj = Obj /\ ctl' # Idle /\ Storing'
  <2>1. ctl' = [ctl EXCEPT !.pc = "status"]
    BY DEF UpdateMetadata
  <2>2. ctl'.pc = "status" /\ ctl'.obj = Obj /\ ctl' \in Busy
    BY <1>1, <2>1 DEF Busy, Obj
  <2> QED
    BY <2>2, IdleFacts DEF Storing
<1> HIDE DEF o
<1>5. UNCHANGED <<due, servers, world, torn, faults>>
  BY DEF UpdateMetadata
<1>6. CopiesWellFormed'
  BY <1>1, <1>2, <1>3, <1>4, Parts DEF CopiesWellFormed, WellFormed, Same, Obj
<1>7. TypeOK'
  BY <1>2, <1>3, <1>4, <1>5, <1>6
     DEF IInv, TypeOK, Busy, servers, world, CopiesWellFormed, WellFormed
<1>8. CopiesSound'
  <2>1. Obj.fin => dep.fin
    BY <1>1 DEF IInv, Inv, CopiesFresh, UnderFinalizer
  <2>2. cache.stage = dep.stage
    BY <1>1 DEF IInv, Inv, CopiesFresh
  <2> QED
    BY <1>2, <1>3, <1>4, <1>5, <2>1, <2>2, StageFacts
       DEF IInv, Inv, CopiesSound, Sound, Completed, Same, world
<1>9. CopiesFresh'
  BY <1>1, <1>2, <1>3, <1>4 DEF IInv, Inv, CopiesFresh, Same, Storing, At, Obj
<1>10. UnderFinalizer'
  BY <1>1, <1>4 DEF IInv, Inv, UnderFinalizer, Storing, At, Obj
<1>11. Graduates' /\ LeavesNothing' /\ KeptIsTorn'
  BY <1>1, <1>2, <1>3, <1>4, <1>5
     DEF IInv, Inv, Graduates, LeavesNothing, KeptIsTorn, Storing, Same, At, Obj, servers,
         world
<1>12. Stands'
  BY <1>1, <1>2, <1>3, <1>4, <1>5
     DEF IInv, Inv, CopiesFresh, Stands, Leaving, Same, At, Obj, servers
<1>13. StaysRouted'
  <2>1. Obj.stage = "rolledOut" /\ dep.stage = "rolledOut" => Obj.snap = dep.snap
    BY <1>1, Parts, StageFacts DEF IInv, Inv, CopiesFresh, At, WellFormed
  <2> QED
    BY <1>1, <1>2, <1>3, <1>4, <1>5, <2>1
       DEF IInv, Inv, StaysRouted, Completed, Same, Obj, servers, world
<1> QED
  BY <1>6, <1>7, <1>8, <1>9, <1>10, <1>11, <1>12, <1>13 DEF IInv, Inv

LEMMA UpdateStatusKeeps ==
    ASSUME IInv, UpdateStatus
    PROVE  IInv'
<1>1. /\ At("status") /\ ctl \in Busy /\ ctl # Idle /\ "read" \notin stale /\ Storing
      /\ dep \in Object /\ Obj \in Object /\ WellFormed(Obj) /\ WellFormed(cache)
  BY Parts, IdleFacts DEF UpdateStatus, Update, At, Storing
<1>2. /\ dep' = Obj /\ cache' = cache
      /\ stale' = IF Obj = dep THEN stale ELSE stale \cup {"cache"}
      /\ UNCHANGED <<servers, world, faults>>
      /\ torn' = (torn /\ (Obj.stage # "rolledOut" \/ dep.stage = "rolledOut" \/ dep.done))
  BY DEF UpdateStatus, Update
<1>3. ctl' = Idle /\ due' \in BOOLEAN
  BY <1>1, EndDue DEF UpdateStatus, Busy, IInv
<1>4. torn' \in BOOLEAN
  BY <1>2 DEF IInv, TypeOK
<1>5. /\ Obj.desired = dep.desired /\ Obj.ts = dep.ts /\ Obj.fin = dep.fin /\ Obj.snap = dep.snap
      /\ cache.desired = dep.desired /\ cache.stage = dep.stage
      /\ Obj.stage = "rolledOut" /\ ~dep.done => Obj.snap = cache.snap
      /\ rollback /\ dep.done => torn
  BY <1>1 DEF IInv, Inv, CopiesFresh, KeptIsTorn
<1>6. /\ Obj.ts => Obj.stage \in CleanedUp
      /\ Obj.stage \in CleanedUp <=> ~Obj.fin
  BY <1>1 DEF IInv, Inv, UnderFinalizer
<1>7. CopiesWellFormed'
  BY <1>1, <1>2, <1>3 DEF CopiesWellFormed, WellFormed
<1>8. TypeOK'
  <2>1. Obj.stage \in Terminal => Obj.loads = {} /\ ~Obj.done
    BY <1>1, StageFacts DEF WellFormed
  <2> QED
    BY <1>1, <1>2, <1>3, <1>4, <2>1 DEF IInv, TypeOK, servers, world
<1>9. CopiesSound'
  <2>1. cache.stage = "cleanUpFailed" => Obj.stage \in CleanedUp
    BY <1>1, <1>5, <1>6 DEF IInv, Inv, CopiesSound, Sound, WellFormed
  <2>2. rollback /\ ~torn' /\ Obj.stage = "rolledOut" /\ cache.stage \in InProgress
          => cache.snap = Obj.snap /\ cache.desired = Obj.current
    <3> SUFFICES ASSUME rollback, ~torn', Obj.stage = "rolledOut", cache.stage \in InProgress
                 PROVE  cache.snap = Obj.snap /\ cache.desired = Obj.current
      OBVIOUS
    <3>1. Obj.stage \notin CleanedUp /\ dep.stage # "rolledOut" /\ ~dep.done
      BY <1>2, <1>5, StageFacts
    <3>2. Obj.desired = Obj.current
      BY <1>1, <3>1 DEF IInv, Inv, Graduates
    <3> QED
      BY <1>5, <3>1, <3>2
  <2>3. Sound(cache)'
    BY <1>2, <1>5, <2>1, <2>2 DEF IInv, Inv, CopiesSound, Sound, Completed, world
  <2> QED
    BY <1>2, <1>3, <2>3, AtRest DEF CopiesSound
<1>10. CopiesFresh'
  BY <1>2, <1>3 DEF IInv, Inv, CopiesFresh
<1>11. Stands'
  <2> SUFFICES ASSUME ~torn', Obj.current # NoModel
               PROVE  (Obj.fin => disc) /\ (Obj.fin \/ Obj.ts)
    BY <1>2 DEF Stands, servers
  <2>1. CASE Obj.stage \in CleanedUp
    BY <1>1, <1>6, <2>1, StageFacts DEF WellFormed
  <2>2. CASE Obj.stage \notin CleanedUp
    <3>1. ~disc => ~torn /\ Obj.current = dep.current
      BY <1>1, <1>2, <2>2 DEF IInv, Inv, Graduates
    <3>2. ~disc => ~dep.fin
      BY <2>2, <3>1 DEF IInv, Inv, Stands, Leaving
    <3> QED
      BY <1>5, <1>6, <2>2, <3>2
  <2> QED
    BY <2>1, <2>2
<1>12. StaysRouted'
  <2> SUFFICES ASSUME rollback, ~torn', Obj.stage = "rolledOut", NEW k \in Obj.snap
               PROVE  route[k] = Obj.current
    BY <1>2 DEF StaysRouted, Completed, servers, world
  <2>1. Obj.stage \notin CleanedUp /\ ~dep.done
    BY <1>2, <1>5, StageFacts
  <2>2. CASE dep.stage = "rolledOut" /\ Obj.current = dep.current
    BY <1>2, <1>5, <2>2 DEF IInv, Inv, StaysRouted, Completed
  <2> QED
    BY <1>1, <2>1, <2>2 DEF IInv, Inv, Graduates
<1>13. KeptIsTorn'
  <2>1. Obj.done => Obj.stage # "rolledOut"
    BY <1>1, StageFacts DEF WellFormed
  <2> QED
    BY <1>1, <1>2, <1>3, <2>1, AtRest DEF IInv, Inv, KeptIsTorn, world
<1> QED
  BY <1>3, <1>7, <1>8, <1>9, <1>10, <1>11, <1>12, <1>13, AtRest DEF IInv, Inv

\* The reconcile found nothing to store.
LEMMA NothingStored ==
    ASSUME IInv, At("act"), UNCHANGED <<store, world>>, ServerTypes',
           faults' \in 0..MaxFaults, torn' = torn, Decided(Obj), Stores(Obj)
    PROVE  IInv'
<1>1. ctl # Idle /\ Obj \in Object /\ WellFormed(Obj) /\ ~Storing /\ ~Leaving
  BY Parts, IdleFacts DEF At, Storing, Leaving
<1>2. ctl' = Idle /\ due' \in BOOLEAN
  BY DEF Stores
<1>3. TypeOK'
  BY <1>2 DEF IInv, TypeOK, ServerTypes, store, world
<1>4. CopiesWellFormed' /\ CopiesFresh'
  BY <1>2 DEF IInv, Inv, CopiesWellFormed, WellFormed, CopiesFresh, store
<1>5. CopiesSound'
  BY <1>2, AtRest DEF IInv, Inv, CopiesSound, Sound, Completed, store, world
<1>6. Sound(Obj)
  BY DEF IInv, Inv, CopiesSound, At
<1>7. Obj.stage = "cleanUpFailed" => ~dep.fin /\ dep.ts /\ dep.stage # "rolledOut"
  BY <1>1, <1>6, StageFacts DEF Decided, WellFormed, Sound
<1>8. Stands'
  BY <1>1, <1>7 DEF IInv, Inv, Stands, Decided, store
<1>9. StaysRouted'
  <2> SUFFICES ASSUME Completed PROVE \A k \in dep.snap : route'[k] = dep.current
    BY DEF StaysRouted, Completed, store, world
  <2>1. \A k \in dep.snap : route[k] = dep.current
    BY <1>1 DEF IInv, Inv, StaysRouted
  <2>2. Obj.stage # "cleanUpFailed"
    BY <1>7 DEF Completed
  <2>3. Obj.stage \in InProgress => \A k \in Obj.snap : route[k] = Obj.desired
    BY <1>6, <2>1 DEF Sound
  <2>4. route' = route
    BY <2>2, <2>3 DEF Decided
  <2> QED
    BY <2>1, <2>4
<1>10. KeptIsTorn'
  BY <1>2, AtRest DEF IInv, Inv, KeptIsTorn, store, world
<1> QED
  BY <1>2, <1>3, <1>4, <1>5, <1>8, <1>9, <1>10, AtRest DEF IInv, Inv

\* The reconcile goes on to store o.
LEMMA ToBeStored ==
    ASSUME IInv, At("act"), UNCHANGED <<store, world>>, ServerTypes',
           faults' \in 0..MaxFaults, torn' = torn,
           NEW o \in Object, o # Obj, Decided(o), Stores(o)
    PROVE  IInv'
<1>1. ctl # Idle /\ Obj \in Object /\ WellFormed(Obj) /\ ~Storing /\ ~Leaving
  BY Parts, IdleFacts DEF At, Storing, Leaving
<1>2. /\ ctl' \in Busy /\ ctl'.pc = "update" /\ ctl'.obj = o /\ due' \in BOOLEAN
      /\ ctl' # Idle /\ Storing'
  BY IdleFacts DEF Stores, Storing
<1>3. TypeOK'
  BY <1>2 DEF IInv, TypeOK, ServerTypes, Busy, store, world
<1>4. CopiesWellFormed'
  BY <1>2 DEF IInv, Inv, CopiesWellFormed, Decided, WellFormed, Obj, store
<1>5. CopiesSound'
  BY <1>2 DEF IInv, Inv, CopiesSound, Sound, Completed, store, world
<1>6. "read" \notin stale =>
        /\ Obj = dep
        /\ cache.desired = dep.desired /\ cache.stage = dep.stage /\ cache.snap = dep.snap
  BY <1>1 DEF IInv, Inv, CopiesFresh, At
<1>7. CopiesFresh'
  BY <1>2, <1>6 DEF IInv, Inv, CopiesFresh, Decided, Same, Storing, At, Obj, store
<1>8. UnderFinalizer'
  BY <1>2 DEF UnderFinalizer, Decided, Same, Storing, At, Obj
<1>9. Stands'
  BY <1>1, <1>2 DEF IInv, Inv, Stands, Leaving, Decided, Storing, Obj, store
<1>10. Graduates'
  BY <1>2, <1>6 DEF Graduates, Decided, Obj, store, world
<1>11. LeavesNothing'
  BY <1>1, <1>2, <1>6 DEF IInv, Inv, Stands, LeavesNothing, Decided, Obj, store
<1>12. StaysRouted'
  <2> SUFFICES ASSUME Completed, o.stage = "rolledOut"
               PROVE  \A k \in dep.snap : route'[k] = dep.current
    BY <1>2 DEF StaysRouted, Completed, Obj, store, world
  <2>1. \A k \in dep.snap : route[k] = dep.current
    BY <1>1 DEF IInv, Inv, StaysRouted
  <2>2. Obj.stage \in InProgress => \A k \in Obj.snap : route[k] = Obj.desired
    BY <2>1 DEF IInv, Inv, CopiesSound, Sound, At
  <2>3. route' = route
    BY <2>2 DEF Decided
  <2> QED
    BY <2>1, <2>3
<1>13. KeptIsTorn'
  <2> SUFFICES ASSUME rollback, "read" \notin stale, o.done, ~torn
               PROVE  FALSE
    BY <1>2 DEF IInv, Inv, KeptIsTorn, Obj, store, world
  <2>1. Obj = dep /\ ~Obj.done
    BY <1>6 DEF IInv, Inv, KeptIsTorn
  <2>2. /\ dep.stage = "rolledOut" /\ dep.desired # dep.current
        /\ dep.snap # {} /\ \A k \in dep.snap : route[k] = dep.desired
    BY <2>1 DEF Decided
  <2>3. \A k \in dep.snap : route[k] = dep.current
    BY <1>1, <2>2 DEF IInv, Inv, StaysRouted, Completed
  <2> QED
    BY <2>2, <2>3
<1> QED
  BY <1>3, <1>4, <1>5, <1>7, <1>8, <1>9, <1>10, <1>11, <1>12, <1>13 DEF IInv, Inv

\* The reconcile panics, or could not ask the health gate.
LEMMA GivenUp ==
    ASSUME IInv, At("act"), UNCHANGED <<store, world>>, ServerTypes',
           faults' \in 0..MaxFaults, torn' \in BOOLEAN, ctl' = Idle, due' \in BOOLEAN,
           torn' \/ UNCHANGED <<servers, torn>>
    PROVE  IInv'
<1>1. ~Storing /\ ~Leaving
  BY DEF At, Storing, Leaving
<1>2. TypeOK'
  BY DEF IInv, TypeOK, ServerTypes, store, world
<1>3. CopiesWellFormed' /\ CopiesFresh'
  BY DEF IInv, Inv, CopiesWellFormed, WellFormed, CopiesFresh, store
<1>4. CASE torn'
  <2>1. CopiesSound' /\ Stands' /\ StaysRouted' /\ KeptIsTorn'
    BY <1>4, AtRest
       DEF IInv, Inv, CopiesSound, Sound, Completed, Stands, StaysRouted, KeptIsTorn, store
  <2> QED
    BY <1>2, <1>3, <2>1, AtRest DEF IInv, Inv
<1>5. CASE UNCHANGED <<servers, torn>>
  <2>1. CopiesSound'
    BY <1>5, AtRest DEF IInv, Inv, CopiesSound, Sound, Completed, store, world
  <2>2. Stands' /\ StaysRouted' /\ KeptIsTorn'
    BY <1>1, <1>5, AtRest
       DEF IInv, Inv, Completed, Stands, StaysRouted, KeptIsTorn, store, servers, world
  <2> QED
    BY <1>2, <1>3, <2>1, <2>2, AtRest DEF IInv, Inv
<1> QED
  BY <1>4, <1>5

LEMMA TurnsKeeps ==
    ASSUME IInv, At("act"), Turns
    PROVE  IInv'
<1>1. /\ UNCHANGED <<store, world>> /\ ServerTypes'
      /\ faults' \in 0..MaxFaults /\ torn' \in BOOLEAN
  BY DEF Turns
<1>2. CASE torn' = torn /\ \E o \in Object : Decided(o) /\ Stores(o)
  <2>1. PICK o \in Object : Decided(o) /\ Stores(o)
    BY <1>2
  <2>2. CASE o = Obj
    BY <1>1, <1>2, <2>1, <2>2, NothingStored
  <2>3. CASE o # Obj
    BY <1>1, <1>2, <2>1, <2>3, ToBeStored
  <2> QED
    BY <2>2, <2>3
<1>3. CASE Panics
  BY <1>1, <1>3, GivenUp DEF Panics
<1>4. CASE UNCHANGED <<servers, torn>> /\ ctl' = Idle /\ due' \in BOOLEAN
  BY <1>1, <1>4, GivenUp
<1> QED
  BY <1>2, <1>3, <1>4 DEF Turns

LEMMA StepKeeps ==
    ASSUME IInv, [Next]_vars
    PROVE  IInv'
BY NextSteps, TurnsKeeps, BeginsKeeps, AddFinalizerKeeps, UpdateMetadataKeeps,
   UpdateStatusKeeps, DropsKeeps, CacheSyncKeeps, RestartsKeeps, ElsewhereKeeps,
   QuietKeeps
   DEF Steps

LEMMA InitKeeps ==
    ASSUME Init
    PROVE  IInv
<1>1. PICK m \in First :
        dep = [desired |-> m, ts |-> FALSE, fin |-> FALSE, snap |-> {},
               candidate |-> NoModel, current |-> NoModel,
               stage |-> "init", loads |-> {}, done |-> FALSE, before |-> {}]
  BY DEF Init
<1>2. dep \in Object
  BY <1>1, DeploymentAssumption DEF Object, Revisions
<1>3. dep.stage = "init" /\ dep.current = NoModel /\ ~dep.ts /\ ~dep.done
  BY <1>1
<1>4. "init" \notin Terminal /\ "init" \notin InProgress
  BY StageFacts
<1>5. ctl = Idle /\ ctl.pc = "idle" /\ cache = dep /\ stale = {}
  BY IdleFacts DEF Init
<1>6. TypeOK
  <2>1. /\ config \in [Targets -> SUBSET Models] /\ loaded \in [Targets -> SUBSET Models]
        /\ route \in [Targets -> Revisions]
    BY DEF Init, Revisions
  <2>2. rollback \in BOOLEAN
    BY DeploymentAssumption DEF Init
  <2>3. orders \in 0..MaxOrders /\ faults \in 0..MaxFaults
    BY DeploymentAssumption DEF Init
  <2>4. ctl \in Busy \cup {Idle} /\ stale \subseteq {"cache", "read"}
    BY <1>5
  <2>5. /\ due \in BOOLEAN /\ disc \in BOOLEAN /\ healthy \in BOOLEAN /\ torn \in BOOLEAN
        /\ serving \subseteq Targets
    BY DEF Init
  <2> QED
    BY <1>2, <1>3, <1>4, <1>5, <2>1, <2>2, <2>3, <2>4, <2>5 DEF TypeOK, Busy
<1>7. CopiesWellFormed /\ CopiesSound /\ CopiesFresh
  BY <1>3, <1>4, <1>5, StageFacts
     DEF CopiesWellFormed, WellFormed, CopiesSound, Sound, CopiesFresh
<1>8. UnderFinalizer /\ Stands /\ Graduates /\ KeptIsTorn /\ LeavesNothing /\ StaysRouted
  BY <1>3, <1>5 DEF UnderFinalizer, Stands, Graduates, KeptIsTorn, LeavesNothing, StaysRouted,
                    Completed, Storing, Leaving, At
<1> QED
  BY <1>6, <1>7, <1>8 DEF IInv, Inv

-----------------------------------------------------------------------------
(* What holds of every deployment.                                         *)

\* The inductive invariant: old copies, which one reconcile leaves to the next, say
\* nothing that what is stored has not gone beyond, and what a reconcile is about to
\* store was done on the clusters (Reconcile of deployment/controller.go).
THEOREM DeploymentInvariant == Spec => []IInv
<1>1. Init => IInv
  BY InitKeeps
<1>2. IInv /\ [Next]_vars => IInv'
  BY StepKeeps
<1> QED
  BY <1>1, <1>2, PTL DEF Spec

\* Type correctness; in a terminal stage the conditions of the rollout are gone
\* (handleTerminalTransition).
THEOREM TypeCorrect == Spec => []TypeOK
<1>1. IInv => TypeOK
  BY DEF IInv
<1> QED
  BY <1>1, DeploymentInvariant, PTL

\* A deployment shown as rolled out leads the traffic of each of its clusters to its
\* current revision: a change of the desired revision in the middle of a rollout, an old
\* copy or a restart does not graduate another one (handleStageTransition).
THEOREM RolledOutIsRouted == Spec => []CompletedIsRouted
<1>1. IInv => CompletedIsRouted
  <2> SUFFICES ASSUME IInv, At("idle"), Completed
               PROVE  \A k \in dep.snap : route[k] = dep.current
    BY DEF CompletedIsRouted, Completed
  <2>1. ~Storing
    BY DEF At, Storing
  <2> QED
    BY <2>1 DEF IInv, Inv, StaysRouted
<1> QED
  BY <1>1, DeploymentInvariant, PTL

\* The controller lets go of a deployment that was rolled out only when neither a
\* traffic rule nor the discovery rule is left (CleanupActor).
THEOREM NoRouteLeft == Spec => LetGoLeavesNoRoute
<1> DEFINE Released ==
      dep.fin /\ ~dep'.fin /\ ~torn /\ dep.current # NoModel /\ Obj.stage = "cleanedUp"
        => ~disc /\ \A k \in dep.snap : route[k] = NoModel
<1>1. IInv /\ [Next]_vars => [Released]_vars
  <2> SUFFICES ASSUME IInv, [Next]_vars, dep.fin, ~dep'.fin, ~torn,
                      dep.current # NoModel, Obj.stage = "cleanedUp"
               PROVE  ~disc /\ \A k \in dep.snap : route[k] = NoModel
    OBVIOUS
  <2>1. dep' # dep
    OBVIOUS
  <2>2. UpdateMetadata
    <3>1. ~((At("act") /\ Turns) \/ Begins \/ Drops \/ CacheSync \/ Restarts \/ Quiet)
      BY <2>1 DEF Turns, Begins, Drops, CacheSync, Restarts, Quiet, store
    <3>2. ~Elsewhere
      BY DEF Elsewhere
    <3>3. ~AddFinalizer
      <4> SUFFICES ASSUME AddFinalizer PROVE FALSE
        OBVIOUS
      <4>1. Obj \in Object /\ dep' = [Obj EXCEPT !.fin = TRUE]
        BY Parts, IdleFacts DEF AddFinalizer, Update, At
      <4> QED
        BY <4>1 DEF Object
    <3>4. ~UpdateStatus
      <4> SUFFICES ASSUME UpdateStatus PROVE FALSE
        OBVIOUS
      <4>1. ctl # Idle /\ "read" \notin stale /\ At("status") /\ dep' = Obj
        BY Parts, IdleFacts DEF UpdateStatus, Update, At
      <4> QED
        BY <4>1 DEF IInv, Inv, CopiesFresh
    <3> QED
      BY <3>1, <3>2, <3>3, <3>4, NextSteps DEF Steps
  <2>3. At("update") /\ "read" \notin stale
    BY <2>2 DEF UpdateMetadata, Update
  <2> QED
    BY <2>3 DEF IInv, Inv, LeavesNothing
<1> QED
  BY <1>1, DeploymentInvariant, PTL DEF Spec, LetGoLeavesNoRoute
=============================================================================
