---------------------------- MODULE MetadataSync ----------------------------
(***************************************************************************)
(* The two stores of a Michelangelo API object and the two programs that   *)
(* keep them in step: the API handler, which serves Create, Update and     *)
(* Delete against etcd and MySQL, and the ingester, which copies the       *)
(* object from etcd to MySQL, evicts it from etcd once it is immutable and *)
(* lets it go once it is deleted.                                          *)
(*                                                                         *)
(* Every operation addresses one object by its namespace and name, so the  *)
(* module follows one name.  The name may be used by several objects, one  *)
(* after the other, told apart by their uid.  The resourceVersion is the   *)
(* object itself: each successful write of an object changes it, and no    *)
(* write ever restores an earlier value, so "the stored object is the one  *)
(* that was read" is the comparison the API server makes.                  *)
(***************************************************************************)
EXTENDS Naturals

CONSTANTS
    Clients,        \* requests the API server handles at the same time
    NoObj,          \* nothing under this name in etcd
    NoRow,          \* no MySQL row for a uid
    Kinds,          \* kinds of API object
    RetainPolicy,   \* those in cascadeRetainKinds (PipelineRun, TriggerRun)
    DirectDelete,   \* objects are also deleted around the API server
                    \* (kubectl, GitOps, garbage collection of an owner)
    StorageFaults,  \* the MySQL lookup of a Create may fail with an error
    MaxUid,         \* bound: objects created under the name
    MaxVer          \* bound: writes of one object's contents

Uids == 1..MaxUid

Finalizers == {"ingester", "drain"}

\* ver stands for the spec, status, labels and annotations that writers change;
\* del, imm and key for the Deleting, Immutable and MetadataStoragePrimaryKey
\* annotations; ts for a deletionTimestamp.
Object == [uid : Uids, ver : Nat, fins : SUBSET Finalizers,
           del : BOOLEAN, imm : BOOLEAN, key : BOOLEAN, ts : BOOLEAN]

\* gone stands for a delete_time that is not NULL.
Row == [ver : Nat, gone : BOOLEAN]

ASSUME SyncAssumption ==
    /\ MaxUid \in Nat /\ MaxVer \in Nat
    /\ DirectDelete \in BOOLEAN /\ StorageFaults \in BOOLEAN
    /\ NoObj \notin Object
    /\ NoRow \notin Row

VARIABLES
    kind,     \* the kind of the objects under the name, which never changes
    etcd,     \* the object stored under the name
    lastUid,  \* the last uid given out
    rows,     \* the MySQL table, by primary key
    cache,    \* the ingester's informer cache: an earlier value of etcd
    ing,      \* the reconcile in progress: its next call and the object it read
    cli       \* the API requests in progress

vars == <<kind, etcd, lastUid, rows, cache, ing, cli>>

RetainKind == kind \in RetainPolicy

\* Only a call that comes back to the object it read carries it.
Reconcile == [pc : {"idle"}, obj : {NoObj}]
    \cup [pc : {"stripImmutable", "deleteImmutable", "deleteMarked", "strip"}, obj : Object]

APIRequest == [pc : {"idle", "create", "deleteRow"}, obj : {NoObj}]
    \cup [pc : {"mark"}, obj : Object]

TypeOK ==
    /\ kind \in Kinds
    /\ etcd \in Object \cup {NoObj}
    /\ lastUid \in 0..MaxUid
    /\ rows \in [Uids -> Row \cup {NoRow}]
    /\ cache \in Object \cup {NoObj}
    /\ ing \in Reconcile
    /\ cli \in [Clients -> APIRequest]

Init ==
    /\ kind \in Kinds
    /\ etcd = NoObj
    /\ lastUid = 0
    /\ rows = [u \in Uids |-> NoRow]
    /\ cache = NoObj
    /\ ing = [pc |-> "idle", obj |-> NoObj]
    /\ cli = [c \in Clients |-> [pc |-> "idle", obj |-> NoObj]]

-----------------------------------------------------------------------------
(* The Kubernetes API server.                                              *)

\* A terminating object leaves etcd with its last finalizer.
Stored(o) == IF o.ts /\ o.fins = {} THEN NoObj ELSE o

\* Update with optimistic concurrency: it fails unless the stored object is
\* still the one the caller read.
K8sUpdate(read, new) ==
    /\ etcd = read
    /\ etcd' = Stored(new)

\* Delete names no uid and no resourceVersion.
K8sDelete ==
    /\ etcd # NoObj
    /\ etcd' = Stored([etcd EXCEPT !.ts = TRUE])

Without(o, f) == [o EXCEPT !.fins = @ \ {f}]

Holds(u) == etcd # NoObj /\ etcd.uid = u

-----------------------------------------------------------------------------
(* MySQL.                                                                  *)

Live(u) == rows[u] # NoRow /\ ~rows[u].gone

FoundByName == \E u \in Uids : Live(u)

\* Variant: the upsert clears delete_time.
UpsertRevives(o) ==
    rows' = [rows EXCEPT ![o.uid] = [ver |-> o.ver, gone |-> FALSE]]

\* Variant: rows keyed by name, so by the latest uid.
UpsertByName(o) ==
    rows' = [rows EXCEPT ![lastUid] = [ver |-> o.ver, gone |-> Live(lastUid)]]

\* INSERT ... ON DUPLICATE KEY UPDATE leaves delete_time as it is.
Upsert(o) ==
    rows' = [rows EXCEPT ![o.uid] =
                [ver |-> o.ver, gone |-> rows[o.uid] # NoRow /\ rows[o.uid].gone]]

\* UPDATE ... SET delete_time WHERE name = ? AND delete_time IS NULL.
SoftDelete ==
    rows' = [u \in Uids |-> IF Live(u) THEN [rows[u] EXCEPT !.gone = TRUE] ELSE rows[u]]

-----------------------------------------------------------------------------
(* The API handler.                                                        *)

Request(c, pc) == cli[c].pc = pc
Go(c, pc, o) == cli' = [cli EXCEPT ![c] = [pc |-> pc, obj |-> o]]

\* Variant: a failed request that is never answered.
ReplyOverlooked(c) == cli' = [cli EXCEPT ![c] = [pc |-> "failed", obj |-> NoObj]]
Reply(c) == cli' = [cli EXCEPT ![c] = [pc |-> "idle", obj |-> NoObj]]

\* Create looks the name up in MySQL.  Only a row that is found refuses the
\* request: NotFound and any other error let it go on.
CreateLookup(c) ==
    /\ Request(c, "idle")
    /\ ~FoundByName \/ StorageFaults
    /\ lastUid < MaxUid
    /\ Go(c, "create", NoObj)
    /\ UNCHANGED <<kind, etcd, lastUid, rows, cache, ing>>

NewObject(u) == [uid |-> u, ver |-> 0, fins |-> {"ingester"},
                 del |-> FALSE, imm |-> FALSE, key |-> FALSE, ts |-> FALSE]

CreateInK8s(c) ==
    /\ Request(c, "create")
    /\ IF etcd = NoObj /\ lastUid < MaxUid
       THEN /\ etcd' = NewObject(lastUid + 1)
            /\ lastUid' = lastUid + 1
       ELSE UNCHANGED <<etcd, lastUid>>       \* AlreadyExists
    /\ Reply(c)
    /\ UNCHANGED <<kind, rows, cache, ing>>

\* Update and UpdateStatus by users and controllers.  For a name that is not in
\* etcd both end in an error: the direct update of MySQL is not implemented.
Write ==
    /\ etcd # NoObj
    /\ etcd.ver < MaxVer
    /\ etcd' = [etcd EXCEPT !.ver = @ + 1]
    /\ UNCHANGED <<kind, lastUid, rows, cache, ing, cli>>

\* A controller marks an object that reached its final state (utils.MarkImmutable).
MarkImmutable ==
    /\ etcd # NoObj
    /\ ~etcd.imm /\ ~etcd.ts
    /\ etcd' = [etcd EXCEPT !.imm = TRUE]
    /\ UNCHANGED <<kind, lastUid, rows, cache, ing, cli>>

\* Variant: Delete goes to etcd without asking for the Immutable annotation.
DeleteLookupStraight(c) ==
    /\ Request(c, "idle")
    /\ \/ /\ etcd = NoObj
          /\ Go(c, "deleteRow", NoObj)
          /\ UNCHANGED etcd
       \/ /\ etcd # NoObj
          /\ K8sDelete
          /\ UNCHANGED cli
    /\ UNCHANGED <<kind, lastUid, rows, cache, ing>>

\* Delete reads the object from etcd; an immutable one that is not yet
\* terminating is answered Unavailable and changes nothing.
DeleteLookup(c) ==
    /\ Request(c, "idle")
    /\ \/ /\ etcd = NoObj
          /\ Go(c, "deleteRow", NoObj)
       \/ /\ etcd # NoObj /\ etcd.imm /\ etcd.ts
          /\ Go(c, "deleteRow", NoObj)
       \/ /\ etcd # NoObj /\ ~etcd.imm
          /\ Go(c, "mark", etcd)
    /\ UNCHANGED <<kind, etcd, lastUid, rows, cache, ing>>

\* Variant: a Delete that loses its race writes what it read to MySQL.
DeleteMarkWritesThrough(c) ==
    /\ Request(c, "mark")
    /\ IF etcd = cli[c].obj
       THEN etcd' = [etcd EXCEPT !.del = TRUE] /\ UNCHANGED rows
       ELSE UNCHANGED etcd /\ Upsert(cli[c].obj)
    /\ Reply(c)
    /\ UNCHANGED <<kind, lastUid, cache, ing>>

\* It sets the Deleting annotation on the object it read.
DeleteMark(c) ==
    /\ Request(c, "mark")
    /\ IF etcd = cli[c].obj
       THEN etcd' = [etcd EXCEPT !.del = TRUE]
       ELSE UNCHANGED etcd                    \* conflict or NotFound
    /\ Reply(c)
    /\ UNCHANGED <<kind, lastUid, rows, cache, ing>>

\* Or deletes by name in MySQL.
DeleteRow(c) ==
    /\ Request(c, "deleteRow")
    /\ SoftDelete
    /\ Reply(c)
    /\ UNCHANGED <<kind, etcd, lastUid, cache, ing>>

-----------------------------------------------------------------------------
(* Deletion around the API server, and the drain finalizer that the        *)
(* controllers of the retained kinds hold.                                 *)

DeleteDirectly ==
    /\ DirectDelete
    /\ etcd # NoObj /\ ~etcd.ts
    /\ K8sDelete
    /\ UNCHANGED <<kind, lastUid, rows, cache, ing, cli>>

EnsureDrainFinalizer ==
    /\ RetainKind
    /\ etcd # NoObj /\ ~etcd.ts /\ "drain" \notin etcd.fins
    /\ ~etcd.imm
    /\ etcd' = [etcd EXCEPT !.fins = @ \cup {"drain"}]
    /\ UNCHANGED <<kind, lastUid, rows, cache, ing, cli>>

\* The drain is over: mark the object immutable and drop the drain finalizer,
\* in one Update.
CompleteDrain ==
    /\ etcd # NoObj /\ etcd.ts /\ "drain" \in etcd.fins
    /\ etcd' = Stored([Without(etcd, "drain") EXCEPT !.imm = TRUE])
    /\ UNCHANGED <<kind, lastUid, rows, cache, ing, cli>>

-----------------------------------------------------------------------------
(* The ingester.  A reconcile acts on the object it finds in the cache; the *)
(* calls it makes after the first are steps of their own.                   *)

\* The informer catches up with etcd.
CacheSync ==
    /\ cache # etcd
    /\ cache' = etcd
    /\ UNCHANGED <<kind, etcd, lastUid, rows, ing, cli>>

Reading == ing.pc = "idle" /\ cache # NoObj
Continue(pc) == ing' = [pc |-> pc, obj |-> cache]
Done == ing' = [pc |-> "idle", obj |-> NoObj]

\* A conflict makes the reconcile start again.
EnsureMetadataStoragePrimaryKey ==
    /\ Reading /\ ~cache.ts /\ ~cache.del /\ ~cache.key
    /\ K8sUpdate(cache, [cache EXCEPT !.key = TRUE])
    /\ UNCHANGED <<kind, lastUid, rows, cache, ing, cli>>

\* Variant: only the first sync writes.
HandleFirstSync ==
    /\ Reading /\ ~cache.ts /\ ~cache.del /\ cache.key /\ ~cache.imm
    /\ rows[cache.uid] = NoRow
    /\ Upsert(cache)
    /\ UNCHANGED <<kind, etcd, lastUid, cache, ing, cli>>

HandleSync ==
    /\ Reading /\ ~cache.ts /\ ~cache.del /\ cache.key /\ ~cache.imm
    /\ Upsert(cache)
    /\ UNCHANGED <<kind, etcd, lastUid, cache, ing, cli>>

\* An immutable object: Upsert, drop the finalizer, delete from etcd.
HandleImmutableUpsert ==
    /\ Reading /\ ~cache.ts /\ ~cache.del /\ cache.key /\ cache.imm
    /\ Upsert(cache)
    /\ Continue("stripImmutable")
    /\ UNCHANGED <<kind, etcd, lastUid, cache, cli>>

\* The Update that drops the ingester's finalizer from the object that was read.
Strip(from, to) ==
    /\ ing.pc = from
    /\ K8sUpdate(ing.obj, Without(ing.obj, "ingester"))
    /\ ing' = [pc |-> to, obj |-> IF to = "idle" THEN NoObj ELSE ing.obj]
    /\ UNCHANGED <<kind, lastUid, rows, cache, cli>>

\* Variant: the eviction stops after the Update.
HandleImmutableStripOnly == Strip("stripImmutable", "idle")

HandleImmutableStrip == Strip("stripImmutable", "deleteImmutable")

HandleImmutableDelete ==
    /\ ing.pc = "deleteImmutable"
    /\ K8sDelete
    /\ Done
    /\ UNCHANGED <<kind, lastUid, rows, cache, cli>>

\* Variant: the row is not deleted.
HandleDeletionAnnotationRowLeft ==
    /\ Reading /\ ~cache.ts /\ cache.del
    /\ Continue("deleteMarked")
    /\ UNCHANGED <<kind, etcd, lastUid, rows, cache, cli>>

HandleDeletionAnnotationTolerant ==
    /\ Reading /\ ~cache.ts /\ cache.del
    /\ SoftDelete
    /\ Continue("deleteMarked")
    /\ UNCHANGED <<kind, etcd, lastUid, cache, cli>>

\* An object with the Deleting annotation: soft-delete the row, then delete the
\* object.  A row that is not found is an error, and the reconcile ends.
HandleDeletionAnnotation ==
    /\ FoundByName
    /\ HandleDeletionAnnotationTolerant

HandleDeletionAnnotationDelete ==
    /\ ing.pc = "deleteMarked"
    /\ K8sDelete
    /\ Done
    /\ UNCHANGED <<kind, lastUid, rows, cache, cli>>

Terminating == Reading /\ cache.ts /\ "ingester" \in cache.fins

\* A terminating object with the Deleting annotation: the row is taken to have
\* been dealt with, only the finalizer is left.
HandleDeletion ==
    /\ Terminating /\ cache.del
    /\ K8sUpdate(cache, Without(cache, "ingester"))
    /\ UNCHANGED <<kind, lastUid, rows, cache, ing, cli>>

\* Variant: NotFound is an error.
HandleCascadeDeletionStrict ==
    /\ FoundByName
    /\ Terminating /\ ~cache.del /\ ~RetainKind
    /\ SoftDelete
    /\ Continue("strip")
    /\ UNCHANGED <<kind, etcd, lastUid, cache, cli>>

\* One without it, of a kind that is not retained: soft-delete (NotFound is no
\* error), then drop the finalizer.
HandleCascadeDeletion ==
    /\ Terminating /\ ~cache.del /\ ~RetainKind
    /\ SoftDelete
    /\ Continue("strip")
    /\ UNCHANGED <<kind, etcd, lastUid, cache, cli>>

\* Of a retained kind, still draining: refresh the row and come back.
HandleCascadeDraining ==
    /\ Terminating /\ ~cache.del /\ RetainKind /\ cache.fins # {"ingester"}
    /\ Upsert(cache)
    /\ UNCHANGED <<kind, etcd, lastUid, cache, ing, cli>>

HandleCascadeUpsertOnly ==
    /\ Terminating /\ ~cache.del /\ RetainKind
    /\ Upsert(cache)
    /\ Continue("strip")
    /\ UNCHANGED <<kind, etcd, lastUid, cache, cli>>

\* Variant: the final state is not written.
HandleCascadeSkipUpsert ==
    /\ Terminating /\ ~cache.del /\ RetainKind /\ cache.fins = {"ingester"}
    /\ Continue("strip")
    /\ UNCHANGED <<kind, etcd, lastUid, rows, cache, cli>>

\* Of a retained kind, drained: write the final state, then drop the finalizer.
HandleCascadeRetain ==
    /\ cache # NoObj /\ cache.fins = {"ingester"}
    /\ HandleCascadeUpsertOnly

HandleCascadeStrip == Strip("strip", "idle")

\* Any call after the first may fail, or the controller manager may die: the
\* object is reconciled again from the cache.
Abort ==
    /\ ing.pc # "idle"
    /\ Done
    /\ UNCHANGED <<kind, etcd, lastUid, rows, cache, cli>>

-----------------------------------------------------------------------------
ApiServer ==
    \/ \E c \in Clients :
          CreateLookup(c) \/ CreateInK8s(c) \/ DeleteLookup(c) \/ DeleteMark(c) \/ DeleteRow(c)
    \/ Write

Controllers == MarkImmutable \/ EnsureDrainFinalizer \/ CompleteDrain

Ingester ==
    \/ EnsureMetadataStoragePrimaryKey
    \/ HandleSync
    \/ HandleImmutableUpsert
    \/ HandleImmutableStrip
    \/ HandleImmutableDelete
    \/ HandleDeletionAnnotation
    \/ HandleDeletionAnnotationDelete
    \/ HandleDeletion
    \/ HandleCascadeDeletion
    \/ HandleCascadeDraining
    \/ HandleCascadeRetain
    \/ HandleCascadeStrip

Next == ApiServer \/ Controllers \/ DeleteDirectly \/ CacheSync \/ Ingester \/ Abort

Spec == Init /\ [][Next]_vars
-----------------------------------------------------------------------------
(* Properties.                                                             *)

\* The row of u holds what etcd holds of u.
InStep(u) == rows[u] # NoRow /\ rows[u].ver = etcd.ver

Released(u) == /\ Holds(u) /\ "ingester" \in etcd.fins
               /\ (etcd = NoObj \/ etcd.uid # u \/ "ingester" \notin etcd.fins)'

\* The ingester lets go of an object whose history is kept (an immutable one, or
\* one of a retained kind deleted around the API server) only at a moment when
\* its row holds exactly the contents that etcd is about to lose, whoever wrote
\* to it since the row was written.
FinalStateRetained ==
    [][\A u \in Uids : Released(u) /\ ~etcd.del /\ (RetainKind \/ ~etcd.ts) => InStep(u)]_vars

\* Why it holds: between the upsert and the Update that drops the finalizer, no
\* other upsert of the object takes place.
Recorded(o) == rows[o.uid] # NoRow /\ rows[o.uid].ver = o.ver

StripIsRecorded ==
    /\ ing.pc = "stripImmutable" => Recorded(ing.obj)
    /\ ing.pc = "strip" => ing.obj.ts /\ (RetainKind => Recorded(ing.obj))

\* A row that was deleted stays deleted, although the ingester may still upsert
\* the object from its cache.
NoResurrection ==
    [][\A u \in Uids : rows[u] # NoRow /\ rows[u].gone =>
                           rows'[u] # NoRow /\ rows'[u].gone]_vars

\* A row never goes back to an earlier state of its object: upserts carry no
\* resourceVersion check, and the cache is behind etcd.
NoStaleOverwrite ==
    [][\A u \in Uids : rows[u] # NoRow =>
                           rows'[u] # NoRow /\ rows'[u].ver >= rows[u].ver]_vars

\* No row is ahead of the object it mirrors, and there is none for an object
\* that was not created.
RowsBehindEtcd ==
    \A u \in Uids : rows[u] # NoRow =>
        /\ u <= lastUid
        /\ Holds(u) => rows[u].ver <= etcd.ver

\* Why it holds: the cache is an earlier state of etcd and the row an earlier
\* state of the cache, for the object they have in common.
SameObject(o, p) == o # NoObj /\ p # NoObj /\ o.uid = p.uid

StoresInOrder ==
    /\ \A o \in {etcd, cache} : o # NoObj => o.uid <= lastUid
    /\ SameObject(cache, etcd) => cache.ver <= etcd.ver
    /\ \A u \in Uids : rows[u] # NoRow =>
          /\ u <= lastUid
          /\ \A o \in {etcd, cache} : o # NoObj /\ o.uid = u => rows[u].ver <= o.ver

\* An object deleted through the API server leaves no live row when it leaves
\* etcd ("the ingester ensures MySQL is updated before the object is removed").
DeletedLeavesNoLiveRow ==
    [][\A u \in Uids : Released(u) /\ etcd.del => ~Live(u)]_vars

\* An object of a kind that is not retained, deleted around the API server, leaves no live
\* row either, whoever else reads and writes the row and the object meanwhile.
CascadeLeavesNoLiveRow ==
    [][\A u \in Uids : Released(u) /\ ~etcd.del /\ etcd.ts /\ ~RetainKind => ~Live(u)]_vars

\* Why it holds: nothing upserts the object between the two calls of its reconcile.
StripIsDeleted ==
    /\ ing.pc = "stripImmutable" => ~ing.obj.ts
    /\ ing.pc = "strip" /\ ~RetainKind => ~Live(ing.obj.uid)

\* The ingester deletes the object it reconciled and no later one of that name.
DeletesItsOwnObject ==
    [][ing.pc \in {"deleteImmutable", "deleteMarked"} /\ etcd' # etcd /\ ing'.pc = "idle"
          => etcd.uid = ing.obj.uid]_vars

\* Why both hold when objects are deleted through the API server only: a
\* terminating object was either evicted or marked; one that was marked stays
\* under its name, with the ingester's finalizer, until the ingester has deleted
\* its row and seen it terminate; and the cache has seen the mark before the row
\* is deleted, so no later upsert brings a row back.
Marked(o) == o # NoObj /\ o.del

DeletionsInOrder ==
    /\ \A o \in {etcd, cache} : o # NoObj /\ o.ts /\ ~o.del => o.imm /\ "ingester" \notin o.fins
    /\ etcd # NoObj /\ ~etcd.ts /\ (etcd.del \/ ~etcd.imm) => "ingester" \in etcd.fins
    /\ Marked(etcd) /\ etcd.ts => ~Live(etcd.uid) /\ Marked(cache) /\ SameObject(cache, etcd)
    /\ Marked(cache) /\ ~cache.ts => SameObject(cache, etcd) /\ etcd.del /\ "ingester" \in etcd.fins
    /\ ing.pc = "stripImmutable" => ing.obj.imm /\ ~ing.obj.del /\ ~ing.obj.ts
    /\ ing.pc = "deleteImmutable" => /\ SameObject(ing.obj, etcd)
                                    /\ etcd.imm /\ ~etcd.del /\ ~etcd.ts
                                    /\ "ingester" \notin etcd.fins
    /\ ing.pc = "deleteMarked" => /\ SameObject(ing.obj, etcd) /\ SameObject(cache, etcd)
                                 /\ etcd.del /\ cache.del
                                 /\ "ingester" \in etcd.fins
                                 /\ ~Live(etcd.uid)
    /\ ing.pc # "strip"
    /\ \A c \in Clients : cli[c].pc = "mark" => ~cli[c].obj.imm

-----------------------------------------------------------------------------
(* Fairness.  The informer delivers every change.  The work queue redelivers *)
(* an object until its reconcile succeeds, and every call of a reconcile ends *)
(* (its context expires after 30 seconds); a call that is made over and over  *)
(* succeeds in the end, though any number of attempts may fail.  A drain      *)
(* completes.  Nothing is assumed of users.                                   *)
NextCall ==
    \/ HandleImmutableStrip \/ HandleImmutableDelete
    \/ HandleDeletionAnnotationDelete \/ HandleCascadeStrip \/ Abort

Fairness ==
    /\ WF_vars(CacheSync) /\ WF_vars(CompleteDrain) /\ WF_vars(NextCall)
    /\ WF_vars(EnsureMetadataStoragePrimaryKey) /\ WF_vars(HandleSync)
    /\ WF_vars(HandleDeletion)
    /\ WF_vars(HandleImmutableUpsert) /\ SF_vars(HandleImmutableStrip)
    /\ SF_vars(HandleImmutableDelete)
    /\ WF_vars(HandleDeletionAnnotation) /\ SF_vars(HandleDeletionAnnotationDelete)
    /\ WF_vars(HandleCascadeDeletion) /\ WF_vars(HandleCascadeRetain)
    /\ SF_vars(HandleCascadeStrip)

FairSpec == Spec /\ Fairness

\* A terminating object goes, through drain, retention and finalizers.
TerminatingGoes ==
    \A u \in Uids : (Holds(u) /\ etcd.ts) ~> ~Holds(u)

\* What is written to an object that stays reaches its row.
WritesReachTheRow ==
    \A u \in Uids : \A v \in 0..MaxVer :
        (Holds(u) /\ etcd.ver = v /\ ~etcd.del /\ ~etcd.ts)
            ~> ((rows[u] # NoRow /\ rows[u].ver >= v) \/ ~Holds(u) \/ etcd.del \/ etcd.ts)

\* An immutable object that nobody deletes is evicted from etcd.
ImmutableIsEvicted ==
    \A u \in Uids : (Holds(u) /\ etcd.imm) ~> (~Holds(u) \/ etcd.del)

\* "It deletes the object from metadata storage and from K8s": an object with the
\* Deleting annotation leaves etcd.
MarkedGoes ==
    \A u \in Uids : (Holds(u) /\ etcd.del) ~> ~Holds(u)
=============================================================================
