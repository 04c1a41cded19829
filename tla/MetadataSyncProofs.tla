------------------------- MODULE MetadataSyncProofs -------------------------
(***************************************************************************)
(* What the API handler and the ingester keep true of etcd and MySQL, for  *)
(* any number of requests, objects and writes.                             *)
(***************************************************************************)
EXTENDS MetadataSync, TLAPS

-----------------------------------------------------------------------------
(* Types.                                                                  *)

LEMMA StoredType ==
    ASSUME NEW o \in Object
    PROVE  Stored(o) \in Object \cup {NoObj}
BY DEF Stored

LEMMA WithoutType ==
    ASSUME NEW o \in Object, NEW f
    PROVE  Without(o, f) \in Object
BY DEF Without, Object

\* The updates of etcd that the actions make stay within its type.
LEMMA UpdateType ==
    ASSUME NEW o \in Object
    PROVE  /\ [o EXCEPT !.ts = TRUE] \in Object
           /\ [o EXCEPT !.imm = TRUE] \in Object
           /\ [o EXCEPT !.del = TRUE] \in Object
           /\ [o EXCEPT !.key = TRUE] \in Object
           /\ [o EXCEPT !.ver = @ + 1] \in Object
           /\ [o EXCEPT !.fins = @ \cup {"drain"}] \in Object
<1>1. o.ver + 1 \in Nat /\ o.fins \cup {"drain"} \in SUBSET Finalizers
  BY DEF Object, Finalizers
<1>2. [o EXCEPT !.ts = TRUE] \in Object /\ [o EXCEPT !.imm = TRUE] \in Object
  BY DEF Object
<1>3. [o EXCEPT !.del = TRUE] \in Object /\ [o EXCEPT !.key = TRUE] \in Object
  BY DEF Object
<1>4. [o EXCEPT !.ver = @ + 1] \in Object
  BY <1>1 DEF Object
<1>5. [o EXCEPT !.fins = @ \cup {"drain"}] \in Object
  BY <1>1 DEF Object
<1> QED BY <1>2, <1>3, <1>4, <1>5

LEMMA NewObjectType ==
    ASSUME NEW u \in Uids
    PROVE  NewObject(u) \in Object
BY DEF NewObject, Object, Finalizers

LEMMA UpsertType ==
    ASSUME NEW o \in Object, rows \in [Uids -> Row \cup {NoRow}], Upsert(o)
    PROVE  rows' \in [Uids -> Row \cup {NoRow}]
<1>1. [ver |-> o.ver, gone |-> rows[o.uid] # NoRow /\ rows[o.uid].gone] \in Row
  <2>1. o.ver \in Nat /\ o.uid \in Uids
    BY DEF Object
  <2>2. (rows[o.uid] # NoRow /\ rows[o.uid].gone) \in BOOLEAN
    BY <2>1 DEF Row
  <2> QED BY <2>1, <2>2 DEF Row
<1> QED BY <1>1 DEF Upsert

LEMMA SoftDeleteType ==
    ASSUME rows \in [Uids -> Row \cup {NoRow}], SoftDelete
    PROVE  rows' \in [Uids -> Row \cup {NoRow}]
<1>1. \A u \in Uids : Live(u) => [rows[u] EXCEPT !.gone = TRUE] \in Row
  BY DEF Live, Row
<1> QED BY <1>1 DEF SoftDelete

LEMMA K8sDeleteType ==
    ASSUME etcd \in Object \cup {NoObj}, K8sDelete
    PROVE  etcd' \in Object \cup {NoObj}
BY UpdateType, StoredType DEF K8sDelete

LEMMA StripType ==
    ASSUME TypeOK, NEW from \in {"stripImmutable", "strip"},
           NEW to \in {"deleteImmutable", "idle"}, Strip(from, to)
    PROVE  TypeOK'
<1>1. ing.obj \in Object
  BY DEF Strip, TypeOK, Reconcile
<1>2. etcd' \in Object \cup {NoObj}
  BY <1>1, WithoutType, StoredType DEF Strip, K8sUpdate
<1>3. ing' \in Reconcile
  BY <1>1 DEF Strip, Reconcile
<1> QED BY <1>2, <1>3 DEF Strip, TypeOK

LEMMA TypePreserved ==
    ASSUME TypeOK, [Next]_vars
    PROVE  TypeOK'
<1> USE DEF TypeOK
<1>1. ASSUME NEW c \in Clients, CreateLookup(c) PROVE TypeOK'
  BY <1>1 DEF CreateLookup, Go, APIRequest
<1>2. ASSUME NEW c \in Clients, CreateInK8s(c) PROVE TypeOK'
  <2>1. CASE etcd = NoObj /\ lastUid < MaxUid
    <3>1. lastUid + 1 \in 0..MaxUid /\ lastUid + 1 \in Uids
      BY <2>1, SyncAssumption DEF Uids
    <3> QED BY <1>2, <2>1, <3>1, NewObjectType DEF CreateInK8s, Reply, APIRequest
  <2> QED BY <1>2, <2>1 DEF CreateInK8s, Reply, APIRequest
<1>3. ASSUME NEW c \in Clients, DeleteLookup(c) PROVE TypeOK'
  BY <1>3 DEF DeleteLookup, Go, APIRequest
<1>4. ASSUME NEW c \in Clients, DeleteMark(c) PROVE TypeOK'
  <2>1. cli[c].obj \in Object
    BY <1>4 DEF DeleteMark, Request, APIRequest
  <2> QED BY <1>4, <2>1, UpdateType DEF DeleteMark, Reply, APIRequest
<1>5. ASSUME NEW c \in Clients, DeleteRow(c) PROVE TypeOK'
  BY <1>5, SoftDeleteType DEF DeleteRow, Reply, APIRequest
<1>6. CASE Write
  BY <1>6, UpdateType DEF Write
<1>7. CASE MarkImmutable
  BY <1>7, UpdateType DEF MarkImmutable
<1>8. CASE EnsureDrainFinalizer
  BY <1>8, UpdateType DEF EnsureDrainFinalizer
<1>9. CASE CompleteDrain
  BY <1>9, UpdateType, WithoutType, StoredType DEF CompleteDrain
<1>10. CASE DeleteDirectly
  BY <1>10, K8sDeleteType DEF DeleteDirectly
<1>11. CASE CacheSync
  BY <1>11 DEF CacheSync
<1>12. CASE EnsureMetadataStoragePrimaryKey
  BY <1>12, UpdateType, StoredType DEF EnsureMetadataStoragePrimaryKey, Reading, K8sUpdate
<1>13. CASE HandleSync
  BY <1>13, UpsertType DEF HandleSync, Reading
<1>14. CASE HandleImmutableUpsert
  BY <1>14, UpsertType DEF HandleImmutableUpsert, Reading, Continue, Reconcile
<1>15. CASE HandleImmutableStrip
  BY <1>15, StripType DEF HandleImmutableStrip
<1>16. CASE HandleImmutableDelete
  BY <1>16, K8sDeleteType DEF HandleImmutableDelete, Done, Reconcile
<1>17. CASE HandleDeletionAnnotation
  BY <1>17, SoftDeleteType
     DEF HandleDeletionAnnotation, HandleDeletionAnnotationTolerant, Reading, Continue, Reconcile
<1>18. CASE HandleDeletionAnnotationDelete
  BY <1>18, K8sDeleteType DEF HandleDeletionAnnotationDelete, Done, Reconcile
<1>19. CASE HandleDeletion
  BY <1>19, WithoutType, StoredType DEF HandleDeletion, Terminating, Reading, K8sUpdate
<1>20. CASE HandleCascadeDeletion
  BY <1>20, SoftDeleteType DEF HandleCascadeDeletion, Terminating, Reading, Continue, Reconcile
<1>21. CASE HandleCascadeDraining
  BY <1>21, UpsertType DEF HandleCascadeDraining, Terminating, Reading
<1>22. CASE HandleCascadeRetain
  BY <1>22, UpsertType
     DEF HandleCascadeRetain, HandleCascadeUpsertOnly, Terminating, Reading, Continue, Reconcile
<1>23. CASE HandleCascadeStrip
  BY <1>23, StripType DEF HandleCascadeStrip
<1>24. CASE Abort
  BY <1>24 DEF Abort, Done, Reconcile
<1>25. CASE UNCHANGED vars
  BY <1>25 DEF vars
<1> QED
  BY <1>1, <1>2, <1>3, <1>4, <1>5, <1>6, <1>7, <1>8, <1>9, <1>10, <1>11, <1>12, <1>13,
     <1>14, <1>15, <1>16, <1>17, <1>18, <1>19, <1>20, <1>21, <1>22, <1>23, <1>24, <1>25
     DEF Next, ApiServer, Controllers, Ingester

\* Every request and every reconcile keeps the stores, the informer cache and the
\* calls in progress within their types.
THEOREM TypeCorrect == Spec => []TypeOK
<1>1. Init => TypeOK
  BY SyncAssumption DEF Init, TypeOK, Reconcile, APIRequest, Uids
<1> QED BY <1>1, TypePreserved, PTL DEF Spec

-----------------------------------------------------------------------------
(* Rows that were deleted.                                                 *)

\* Only these touch the table.
LEMMA RowsStep ==
    ASSUME Next
    PROVE  \/ UNCHANGED rows
           \/ SoftDelete
           \/ Upsert(cache) /\ cache # NoObj /\ ing.pc = "idle"
BY DEF Next, ApiServer, Controllers, Ingester, CreateLookup, CreateInK8s, DeleteLookup,
       DeleteMark, DeleteRow, Write, MarkImmutable, EnsureDrainFinalizer, CompleteDrain,
       DeleteDirectly, CacheSync, EnsureMetadataStoragePrimaryKey, HandleSync,
       HandleImmutableUpsert, HandleImmutableStrip, HandleImmutableDelete,
       HandleDeletionAnnotation, HandleDeletionAnnotationTolerant,
       HandleDeletionAnnotationDelete, HandleDeletion, HandleCascadeDeletion,
       HandleCascadeDraining, HandleCascadeRetain, HandleCascadeUpsertOnly,
       HandleCascadeStrip, Strip, Abort, Terminating, Reading

\* Neither a late upsert from the cache nor a second delete brings a deleted row
\* back.
THEOREM DeletedStaysDeleted == Spec => NoResurrection
<1>1. ASSUME TypeOK, [Next]_vars
      PROVE  [\A u \in Uids : rows[u] # NoRow /\ rows[u].gone =>
                  rows'[u] # NoRow /\ rows'[u].gone]_vars
  <2> SUFFICES ASSUME Next, NEW u \in Uids, rows[u] # NoRow, rows[u].gone
               PROVE  rows'[u] # NoRow /\ rows'[u].gone
    BY <1>1 DEF vars
  <2>1. CASE UNCHANGED rows
    BY <2>1
  <2>2. CASE SoftDelete
    BY <2>2 DEF SoftDelete, Live
  <2>3. CASE Upsert(cache) /\ cache # NoObj
    <3>1. rows \in [Uids -> Row \cup {NoRow}] /\ cache \in Object
      BY <1>1, <2>3 DEF TypeOK
    <3>2. CASE u = cache.uid
      <4>1. rows'[u] = [ver |-> cache.ver, gone |-> TRUE]
        BY <2>3, <3>1, <3>2 DEF Upsert
      <4>2. cache.ver \in Nat
        BY <3>1 DEF Object
      <4>3. rows'[u] \in Row
        BY <4>1, <4>2 DEF Row
      <4>4. rows'[u] # NoRow
        BY <4>3, SyncAssumption
      <4> QED BY <4>1, <4>4
    <3>3. CASE u # cache.uid
      BY <2>3, <3>1, <3>3 DEF Upsert
    <3> QED BY <3>2, <3>3
  <2> QED BY <2>1, <2>2, <2>3, RowsStep
<1> QED BY <1>1, TypeCorrect, PTL DEF Spec, NoResurrection
-----------------------------------------------------------------------------
(* Etcd, the cache and the table.                                          *)

LEMMA StoredFields ==
    ASSUME NEW o, Stored(o) # NoObj
    PROVE  Stored(o) = o
BY DEF Stored

LEMMA UpdateFields ==
    ASSUME NEW o \in Object, NEW f
    PROVE  /\ Without(o, f).uid = o.uid /\ Without(o, f).ver = o.ver
           /\ [Without(o, f) EXCEPT !.imm = TRUE].uid = o.uid
           /\ [Without(o, f) EXCEPT !.imm = TRUE].ver = o.ver
           /\ \A p \in { [o EXCEPT !.ts = TRUE], [o EXCEPT !.imm = TRUE], [o EXCEPT !.del = TRUE],
                          [o EXCEPT !.key = TRUE], [o EXCEPT !.fins = @ \cup {"drain"}] } :
                 p.uid = o.uid /\ p.ver = o.ver
           /\ [o EXCEPT !.ver = @ + 1].uid = o.uid /\ [o EXCEPT !.ver = @ + 1].ver = o.ver + 1
BY DEF Object, Without

\* What a step may do to etcd: nothing, remove the object, write it without going
\* back, or create the next one.
LEMMA EtcdStep ==
    ASSUME TypeOK, Next
    PROVE  \/ UNCHANGED <<etcd, lastUid>>
           \/ etcd' = NoObj /\ UNCHANGED lastUid
           \/ SameObject(etcd, etcd') /\ etcd.ver <= etcd'.ver /\ UNCHANGED lastUid
           \/ etcd = NoObj /\ lastUid' = lastUid + 1 /\ lastUid' \in Uids /\ etcd' = NewObject(lastUid')
<1> DEFINE Moves == \/ UNCHANGED <<etcd, lastUid>>
                    \/ etcd' = NoObj /\ UNCHANGED lastUid
                    \/ SameObject(etcd, etcd') /\ etcd.ver <= etcd'.ver /\ UNCHANGED lastUid
<1>1. ASSUME NEW o \in Object, NEW p, p.uid = o.uid, p.ver = o.ver \/ p.ver = o.ver + 1,
             etcd = o, etcd' = Stored(p) \/ etcd' = p, UNCHANGED lastUid
      PROVE  Moves
  <2>1. o.ver \in Nat
    BY DEF Object
  <2> QED BY <1>1, <2>1, StoredFields, SyncAssumption DEF SameObject
<1>2. ASSUME K8sDelete, UNCHANGED lastUid PROVE Moves
  BY <1>1, <1>2, UpdateFields DEF K8sDelete, TypeOK
<1>3. ASSUME NEW from \in {"stripImmutable", "strip"}, NEW to, Strip(from, to) PROVE Moves
  <2>1. ing.obj \in Object
    BY <1>3 DEF Strip, TypeOK, Reconcile
  <2> QED BY <1>1, <1>3, <2>1, UpdateFields DEF Strip, K8sUpdate
<1>4. ASSUME NEW c \in Clients, CreateInK8s(c)
      PROVE  \/ Moves
             \/ etcd = NoObj /\ lastUid' = lastUid + 1 /\ lastUid' \in Uids /\ etcd' = NewObject(lastUid')
  BY <1>4, SyncAssumption DEF CreateInK8s, TypeOK, Uids
<1>5. ASSUME NEW c \in Clients, DeleteMark(c) PROVE Moves
  <2>1. cli[c].obj \in Object
    BY <1>5 DEF DeleteMark, Request, TypeOK, APIRequest
  <2>2. CASE etcd = cli[c].obj
    BY <1>1, <1>5, <2>1, <2>2, UpdateFields DEF DeleteMark
  <2> QED BY <1>5, <2>2 DEF DeleteMark
<1>6. CASE Write
  BY <1>1, <1>6, UpdateFields DEF Write, TypeOK
<1>7. CASE MarkImmutable
  BY <1>1, <1>7, UpdateFields DEF MarkImmutable, TypeOK
<1>8. CASE EnsureDrainFinalizer
  BY <1>1, <1>8, UpdateFields DEF EnsureDrainFinalizer, TypeOK
<1>9. CASE CompleteDrain
  <2>1. etcd \in Object /\ etcd' = Stored([Without(etcd, "drain") EXCEPT !.imm = TRUE])
    BY <1>9 DEF CompleteDrain, TypeOK
  <2>2. UNCHANGED lastUid
    BY <1>9 DEF CompleteDrain
  <2> DEFINE p == [Without(etcd, "drain") EXCEPT !.imm = TRUE]
  <2>3. p.uid = etcd.uid /\ p.ver = etcd.ver
    BY <2>1, UpdateFields
  <2>4. etcd' = Stored(p)
    BY <2>1
  <2> HIDE DEF p
  <2>5. Moves
    BY <1>1, <2>1, <2>2, <2>3, <2>4
  <2> QED BY <2>5
<1>10. CASE EnsureMetadataStoragePrimaryKey
  BY <1>1, <1>10, UpdateFields, UpdateType
     DEF EnsureMetadataStoragePrimaryKey, K8sUpdate, Reading, TypeOK
<1>11. CASE HandleDeletion
  BY <1>1, <1>11, UpdateFields DEF HandleDeletion, Terminating, K8sUpdate, Reading, TypeOK
<1>12. CASE DeleteDirectly \/ HandleImmutableDelete \/ HandleDeletionAnnotationDelete
  BY <1>2, <1>12 DEF DeleteDirectly, HandleImmutableDelete, HandleDeletionAnnotationDelete
<1>13. CASE HandleImmutableStrip \/ HandleCascadeStrip
  BY <1>3, <1>13 DEF HandleImmutableStrip, HandleCascadeStrip
<1>14. ASSUME NEW c \in Clients, CreateLookup(c) \/ DeleteLookup(c) \/ DeleteRow(c) PROVE Moves
  BY <1>14 DEF CreateLookup, DeleteLookup, DeleteRow
<1>15. CASE CacheSync \/ HandleSync \/ HandleImmutableUpsert \/ HandleDeletionAnnotation
            \/ HandleCascadeDeletion \/ HandleCascadeDraining \/ HandleCascadeRetain \/ Abort
  BY <1>15 DEF CacheSync, HandleSync, HandleImmutableUpsert, HandleDeletionAnnotation,
     HandleDeletionAnnotationTolerant, HandleCascadeDeletion, HandleCascadeDraining,
     HandleCascadeRetain, HandleCascadeUpsertOnly, Abort
<1> QED BY <1>4, <1>5, <1>6, <1>7, <1>8, <1>9, <1>10, <1>11, <1>12, <1>13, <1>14, <1>15
        DEF Next, ApiServer, Controllers, Ingester

\* The cache moves only when it catches up with etcd.
LEMMA CacheStep == Next => UNCHANGED cache \/ (CacheSync /\ UNCHANGED <<etcd, lastUid, rows>>)
BY DEF Next, ApiServer, Controllers, Ingester, CreateLookup, CreateInK8s, DeleteLookup,
       DeleteMark, DeleteRow, Write, MarkImmutable, EnsureDrainFinalizer, CompleteDrain,
       DeleteDirectly, CacheSync, EnsureMetadataStoragePrimaryKey, HandleSync,
       HandleImmutableUpsert, HandleImmutableStrip, HandleImmutableDelete,
       HandleDeletionAnnotation, HandleDeletionAnnotationTolerant,
       HandleDeletionAnnotationDelete, HandleDeletion, HandleCascadeDeletion,
       HandleCascadeDraining, HandleCascadeRetain, HandleCascadeUpsertOnly,
       HandleCascadeStrip, Strip, Abort

\* No step writes both stores.
LEMMA OneStore ==
    ASSUME Next
    PROVE  UNCHANGED rows \/ UNCHANGED <<etcd, lastUid, cache>>
BY DEF Next, ApiServer, Controllers, Ingester, CreateLookup, CreateInK8s, DeleteLookup,
       DeleteMark, DeleteRow, Write, MarkImmutable, EnsureDrainFinalizer, CompleteDrain,
       DeleteDirectly, CacheSync, EnsureMetadataStoragePrimaryKey, HandleSync,
       HandleImmutableUpsert, HandleImmutableStrip, HandleImmutableDelete,
       HandleDeletionAnnotation, HandleDeletionAnnotationTolerant,
       HandleDeletionAnnotationDelete, HandleDeletion, HandleCascadeDeletion,
       HandleCascadeDraining, HandleCascadeRetain, HandleCascadeUpsertOnly,
       HandleCascadeStrip, Strip, Abort

LEMMA UpsertRow ==
    ASSUME TypeOK, cache # NoObj, Upsert(cache), NEW u \in Uids
    PROVE  /\ cache.uid = u => rows'[u] \in Row /\ rows'[u].ver = cache.ver
           /\ cache.uid # u => rows'[u] = rows[u]
<1>1. cache \in Object /\ rows \in [Uids -> Row \cup {NoRow}]
  BY DEF TypeOK
<1>2. CASE cache.uid = u
  <2>1. rows'[u] = [ver |-> cache.ver, gone |-> rows[u] # NoRow /\ rows[u].gone]
    BY <1>1, <1>2 DEF Upsert
  <2>2. cache.ver \in Nat /\ (rows[u] # NoRow /\ rows[u].gone) \in BOOLEAN
    BY <1>1 DEF Object, Row
  <2>3. rows'[u] \in Row
    BY <2>1, <2>2 DEF Row
  <2> QED BY <1>2, <2>1, <2>3
<1>3. CASE cache.uid # u
  BY <1>1, <1>3 DEF Upsert
<1> QED BY <1>2, <1>3

LEMMA SoftDeleteRow ==
    ASSUME TypeOK, SoftDelete, NEW u \in Uids
    PROVE  /\ rows'[u] = NoRow <=> rows[u] = NoRow
           /\ rows[u] # NoRow => rows'[u].ver = rows[u].ver
<1>1. rows[u] \in Row \cup {NoRow}
  BY DEF TypeOK
<1>2. CASE Live(u)
  <2>1. rows'[u] = [rows[u] EXCEPT !.gone = TRUE]
    BY <1>2 DEF SoftDelete
  <2>2. rows'[u] \in Row /\ rows'[u].ver = rows[u].ver
    BY <1>1, <1>2, <2>1 DEF Live, Row
  <2> QED BY <1>2, <2>2, SyncAssumption DEF Live
<1>3. CASE ~Live(u)
  BY <1>3 DEF SoftDelete
<1> QED BY <1>2, <1>3

\* Etcd, the cache and the rows stay ordered: the cache is never ahead of etcd nor
\* a row ahead of either, whatever order requests, informer events, upserts and
\* recreations of the name come in.
THEOREM StoresStayInOrder == Spec => []StoresInOrder
<1>1. Init => StoresInOrder
  BY DEF Init, StoresInOrder, SameObject
<1>2. TypeOK /\ StoresInOrder /\ [Next]_vars => StoresInOrder'
  <2> SUFFICES ASSUME TypeOK, StoresInOrder, [Next]_vars PROVE StoresInOrder'
    OBVIOUS
  <2> USE DEF StoresInOrder, SameObject
  <2>t. /\ etcd # NoObj => etcd \in Object /\ etcd.uid \in Nat /\ etcd.ver \in Nat
        /\ cache # NoObj => cache \in Object /\ cache.uid \in Nat /\ cache.ver \in Nat
        /\ lastUid \in Nat
        /\ \A u \in Uids : u \in Nat /\ (rows[u] # NoRow => rows[u].ver \in Nat)
    BY SyncAssumption DEF TypeOK, Object, Uids, Row
  <2>1. CASE UNCHANGED vars
    BY <2>1 DEF vars
  <2>2. CASE Next /\ UNCHANGED rows /\ UNCHANGED cache
    <3>1. CASE UNCHANGED <<etcd, lastUid>>
      BY <2>2, <3>1
    <3>2. CASE etcd' = NoObj /\ UNCHANGED lastUid
      BY <2>2, <3>2
    <3>3. CASE SameObject(etcd, etcd') /\ etcd.ver <= etcd'.ver /\ UNCHANGED lastUid
      <4>1. TypeOK'
        BY <2>2, TypePreserved
      <4>2. etcd'.ver \in Nat
        BY <4>1, <3>3 DEF TypeOK, Object
      <4> QED BY <2>t, <2>2, <3>3, <4>2
    <3>4. CASE etcd = NoObj /\ lastUid' = lastUid + 1 /\ lastUid' \in Uids /\ etcd' = NewObject(lastUid')
      BY <2>t, <2>2, <3>4 DEF NewObject
    <3> QED BY <2>2, <3>1, <3>2, <3>3, <3>4, EtcdStep
  <2>3. CASE Next /\ CacheSync
    BY <2>t, <2>3, CacheStep DEF CacheSync
  <2>4. CASE Next /\ UNCHANGED <<etcd, lastUid, cache>>
    <3>1. CASE SoftDelete
      BY <2>4, <3>1, SoftDeleteRow
    <3>2. CASE Upsert(cache) /\ cache # NoObj
      BY <2>t, <2>4, <3>2, UpsertRow, SyncAssumption
    <3> QED BY <2>4, <3>1, <3>2, RowsStep
  <2> QED BY <2>1, <2>2, <2>3, <2>4, CacheStep, OneStore
<1> QED BY <1>1, <1>2, TypeCorrect, PTL DEF Spec

\* No row is ahead of the object it mirrors.
THEOREM RowsNeverAhead == Spec => []RowsBehindEtcd
<1>1. StoresInOrder => RowsBehindEtcd
  BY DEF StoresInOrder, RowsBehindEtcd, Holds
<1> QED BY <1>1, StoresStayInOrder, PTL

\* A row never goes back to an earlier state of its object, although upserts carry
\* no version check.
THEOREM RowsMoveForward == Spec => NoStaleOverwrite
<1>1. ASSUME TypeOK, StoresInOrder, [Next]_vars
      PROVE  [\A u \in Uids : rows[u] # NoRow =>
                  rows'[u] # NoRow /\ rows'[u].ver >= rows[u].ver]_vars
  <2> SUFFICES ASSUME Next, NEW u \in Uids, rows[u] # NoRow
               PROVE  rows'[u] # NoRow /\ rows'[u].ver >= rows[u].ver
    BY <1>1 DEF vars
  <2>1. rows[u].ver \in Nat
    BY <1>1 DEF TypeOK, Row
  <2>2. CASE UNCHANGED rows
    BY <2>1, <2>2
  <2>3. CASE SoftDelete
    BY <1>1, <2>1, <2>3, SoftDeleteRow
  <2>4. CASE Upsert(cache) /\ cache # NoObj
    <3>1. cache.uid = u => rows[u].ver <= cache.ver /\ cache.ver \in Nat
      BY <1>1, <2>4 DEF StoresInOrder, TypeOK, Object
    <3>2. cache.uid = u => rows'[u] # NoRow /\ rows'[u].ver = cache.ver
      BY <1>1, <2>4, UpsertRow, SyncAssumption
    <3>3. cache.uid # u => rows'[u] = rows[u]
      BY <1>1, <2>4, UpsertRow
    <3> QED BY <2>1, <3>1, <3>2, <3>3
  <2> QED BY <2>2, <2>3, <2>4, RowsStep
<1> QED BY <1>1, TypeCorrect, StoresStayInOrder, PTL DEF Spec, NoStaleOverwrite

-----------------------------------------------------------------------------
(* Letting go of an object.                                                *)

\* The finalizer goes only with the three Updates that drop it.
LEMMA FinalizerStep ==
    ASSUME TypeOK, Next, etcd # NoObj, "ingester" \in etcd.fins
    PROVE  \/ HandleImmutableStrip \/ HandleCascadeStrip \/ HandleDeletion
           \/ SameObject(etcd, etcd') /\ "ingester" \in etcd'.fins
<1> DEFINE Kept == SameObject(etcd, etcd') /\ "ingester" \in etcd'.fins
<1>t. etcd \in Object
  BY DEF TypeOK
<1>1. ASSUME NEW p, p # NoObj, p.uid = etcd.uid, "ingester" \in p.fins,
             etcd' = Stored(p) \/ etcd' = p
      PROVE  Kept
  BY <1>1 DEF Stored, SameObject
<1>2. ASSUME K8sDelete PROVE Kept
  <2>1. [etcd EXCEPT !.ts = TRUE].uid = etcd.uid /\ [etcd EXCEPT !.ts = TRUE].fins = etcd.fins
    BY <1>t DEF Object
  <2> QED BY <1>t, <1>1, <1>2, <2>1, UpdateType, SyncAssumption DEF K8sDelete
<1>3. ASSUME NEW c \in Clients, DeleteMark(c) PROVE Kept
  <2>1. [etcd EXCEPT !.del = TRUE].uid = etcd.uid /\ [etcd EXCEPT !.del = TRUE].fins = etcd.fins
    BY <1>t DEF Object
  <2>2. CASE etcd = cli[c].obj
    BY <1>t, <1>1, <1>3, <2>1, <2>2, UpdateType, SyncAssumption DEF DeleteMark
  <2> QED BY <1>3, <2>2 DEF DeleteMark, SameObject
<1>4. CASE Write
  <2>1. [etcd EXCEPT !.ver = @ + 1].uid = etcd.uid /\ [etcd EXCEPT !.ver = @ + 1].fins = etcd.fins
    BY <1>t DEF Object
  <2> QED BY <1>t, <1>1, <1>4, <2>1, UpdateType, SyncAssumption DEF Write
<1>5. CASE MarkImmutable
  <2>1. [etcd EXCEPT !.imm = TRUE].uid = etcd.uid /\ [etcd EXCEPT !.imm = TRUE].fins = etcd.fins
    BY <1>t DEF Object
  <2> QED BY <1>t, <1>1, <1>5, <2>1, UpdateType, SyncAssumption DEF MarkImmutable
<1>6. CASE EnsureDrainFinalizer
  <2>1. /\ [etcd EXCEPT !.fins = @ \cup {"drain"}].uid = etcd.uid
        /\ [etcd EXCEPT !.fins = @ \cup {"drain"}].fins = etcd.fins \cup {"drain"}
    BY <1>t DEF Object
  <2> QED BY <1>t, <1>1, <1>6, <2>1, UpdateType, SyncAssumption DEF EnsureDrainFinalizer
<1>7. CASE CompleteDrain
  <2> DEFINE p == [Without(etcd, "drain") EXCEPT !.imm = TRUE]
  <2>1. p \in Object /\ p.uid = etcd.uid /\ p.fins = etcd.fins \ {"drain"}
    BY <1>t, WithoutType, UpdateType DEF Without, Object
  <2>2. etcd' = Stored(p)
    BY <1>7 DEF CompleteDrain
  <2>3. p # NoObj /\ "ingester" \in p.fins
    BY <2>1, SyncAssumption
  <2> HIDE DEF p
  <2>4. Kept
    BY <1>1, <2>1, <2>2, <2>3
  <2> QED BY <2>4
<1>8. CASE EnsureMetadataStoragePrimaryKey
  <2>1. [etcd EXCEPT !.key = TRUE].uid = etcd.uid /\ [etcd EXCEPT !.key = TRUE].fins = etcd.fins
    BY <1>t DEF Object
  <2> QED BY <1>t, <1>1, <1>8, <2>1, UpdateType, SyncAssumption
          DEF EnsureMetadataStoragePrimaryKey, K8sUpdate
<1>9. CASE DeleteDirectly \/ HandleImmutableDelete \/ HandleDeletionAnnotationDelete
  BY <1>2, <1>9 DEF DeleteDirectly, HandleImmutableDelete, HandleDeletionAnnotationDelete
<1>10. ASSUME NEW c \in Clients, CreateLookup(c) \/ CreateInK8s(c) \/ DeleteLookup(c) \/ DeleteRow(c)
       PROVE  Kept
  BY <1>10 DEF CreateLookup, CreateInK8s, DeleteLookup, DeleteRow, SameObject
<1>11. CASE CacheSync \/ HandleSync \/ HandleImmutableUpsert \/ HandleDeletionAnnotation
            \/ HandleCascadeDeletion \/ HandleCascadeDraining \/ HandleCascadeRetain \/ Abort
  BY <1>11 DEF CacheSync, HandleSync, HandleImmutableUpsert, HandleDeletionAnnotation,
     HandleDeletionAnnotationTolerant, HandleCascadeDeletion, HandleCascadeDraining,
     HandleCascadeRetain, HandleCascadeUpsertOnly, Abort, SameObject
<1> QED BY <1>3, <1>4, <1>5, <1>6, <1>7, <1>8, <1>9, <1>10, <1>11
        DEF Next, ApiServer, Controllers, Ingester

\* How a reconcile goes from one call to the next.
LEMMA ReconcileStep ==
    ASSUME Next
    PROVE  \/ UNCHANGED ing
           \/ ing'.pc \in {"idle", "deleteImmutable", "deleteMarked"}
           \/ HandleImmutableUpsert \/ HandleCascadeDeletion \/ HandleCascadeRetain
BY DEF Next, ApiServer, Controllers, Ingester, CreateLookup, CreateInK8s, DeleteLookup,
       DeleteMark, DeleteRow, Write, MarkImmutable, EnsureDrainFinalizer, CompleteDrain,
       DeleteDirectly, CacheSync, EnsureMetadataStoragePrimaryKey, HandleSync,
       HandleImmutableStrip, HandleImmutableDelete, HandleDeletionAnnotation,
       HandleDeletionAnnotationTolerant, HandleDeletionAnnotationDelete, HandleDeletion,
       HandleCascadeDraining, HandleCascadeStrip, Strip, Abort, Continue, Done

LEMMA KindStep == [Next]_vars => UNCHANGED kind
BY DEF vars, Next, ApiServer, Controllers, Ingester, CreateLookup, CreateInK8s, DeleteLookup,
       DeleteMark, DeleteRow, Write, MarkImmutable, EnsureDrainFinalizer, CompleteDrain,
       DeleteDirectly, CacheSync, EnsureMetadataStoragePrimaryKey, HandleSync,
       HandleImmutableUpsert, HandleImmutableStrip, HandleImmutableDelete,
       HandleDeletionAnnotation, HandleDeletionAnnotationTolerant,
       HandleDeletionAnnotationDelete, HandleDeletion, HandleCascadeDeletion,
       HandleCascadeDraining, HandleCascadeRetain, HandleCascadeUpsertOnly,
       HandleCascadeStrip, Strip, Abort

\* Between its upsert and its Update a reconcile finds the row as it wrote it.
LEMMA StripStaysRecorded == Spec => []StripIsRecorded
<1>1. Init => StripIsRecorded
  BY DEF Init, StripIsRecorded
<1>2. TypeOK /\ StripIsRecorded /\ [Next]_vars => StripIsRecorded'
  <2> SUFFICES ASSUME TypeOK, StripIsRecorded, [Next]_vars PROVE StripIsRecorded'
    OBVIOUS
  <2> USE DEF StripIsRecorded, Recorded
  <2>k. RetainKind' = RetainKind
    BY KindStep DEF RetainKind
  <2>1. CASE UNCHANGED vars
    BY <2>1, <2>k DEF vars
  <2>2. CASE Next /\ UNCHANGED ing
    <3>1. CASE UNCHANGED rows
      BY <2>2, <2>k, <3>1
    <3>2. CASE SoftDelete /\ ing.pc \in {"stripImmutable", "strip"}
      <4>1. ing.obj.uid \in Uids
        BY <3>2 DEF TypeOK, Reconcile, Object
      <4> QED BY <2>2, <2>k, <3>2, <4>1, SoftDeleteRow
    <3>3. CASE ing.pc \notin {"stripImmutable", "strip"}
      BY <2>2, <3>3
    <3> QED BY <2>2, <3>1, <3>2, <3>3, RowsStep
  <2>3. CASE ing'.pc \in {"idle", "deleteImmutable", "deleteMarked"}
    BY <2>3
  <2>4. CASE HandleImmutableUpsert
    <3>1. cache \in Object /\ cache # NoObj /\ Upsert(cache)
      BY <2>4 DEF HandleImmutableUpsert, Reading, TypeOK
    <3>2. Recorded(cache)'
      BY <3>1, UpsertRow, SyncAssumption, <2>4 DEF Object, HandleImmutableUpsert
    <3> QED BY <2>4, <3>2 DEF HandleImmutableUpsert, Continue
  <2>5. CASE HandleCascadeDeletion
    BY <2>5, <2>k DEF HandleCascadeDeletion, Terminating, Continue
  <2>6. CASE HandleCascadeRetain
    <3>1. cache \in Object /\ cache # NoObj /\ Upsert(cache) /\ cache.ts
      BY <2>6 DEF HandleCascadeRetain, HandleCascadeUpsertOnly, Terminating, Reading, TypeOK
    <3>2. Recorded(cache)'
      BY <3>1, UpsertRow, SyncAssumption, <2>6 DEF Object, HandleCascadeRetain, HandleCascadeUpsertOnly
    <3> QED BY <2>6, <3>1, <3>2 DEF HandleCascadeRetain, HandleCascadeUpsertOnly, Continue
  <2> QED BY <2>1, <2>2, <2>3, <2>4, <2>5, <2>6, ReconcileStep
<1> QED BY <1>1, <1>2, TypeCorrect, PTL DEF Spec

\* An object whose history is kept leaves the ingester's hands only when its row
\* holds the contents that etcd is about to lose.
THEOREM FinalStateIsRetained == Spec => FinalStateRetained
<1>1. ASSUME TypeOK, StripIsRecorded, [Next]_vars
      PROVE  [\A u \in Uids : Released(u) /\ ~etcd.del /\ (RetainKind \/ ~etcd.ts) => InStep(u)]_vars
  <2> SUFFICES ASSUME Next, NEW u \in Uids, Released(u), ~etcd.del, RetainKind \/ ~etcd.ts
               PROVE  InStep(u)
    BY <1>1 DEF vars
  <2>1. etcd # NoObj /\ etcd.uid = u /\ "ingester" \in etcd.fins
    BY DEF Released, Holds
  <2>2. ~(SameObject(etcd, etcd') /\ "ingester" \in etcd'.fins)
    BY <2>1 DEF Released, SameObject
  <2>3. CASE HandleImmutableStrip
    BY <1>1, <2>1, <2>3
       DEF HandleImmutableStrip, Strip, K8sUpdate, StripIsRecorded, Recorded, InStep
  <2>4. CASE HandleCascadeStrip
    BY <1>1, <2>1, <2>4
       DEF HandleCascadeStrip, Strip, K8sUpdate, StripIsRecorded, Recorded, InStep
  <2>5. ~HandleDeletion
    BY DEF HandleDeletion, K8sUpdate
  <2> QED BY <1>1, <2>1, <2>2, <2>3, <2>4, <2>5, FinalizerStep
<1> QED BY <1>1, TypeCorrect, StripStaysRecorded, PTL DEF Spec, FinalStateRetained

\* A soft delete leaves no live row, and it revives none.
LEMMA SoftDeleteKills ==
    ASSUME TypeOK, SoftDelete, NEW u \in Uids
    PROVE  ~Live(u)'
<1>1. rows[u] \in Row \cup {NoRow}
  BY DEF TypeOK
<1>2. CASE Live(u)
  <2>1. rows'[u] = [rows[u] EXCEPT !.gone = TRUE]
    BY <1>2 DEF SoftDelete
  <2>2. rows[u] \in Row
    BY <1>1, <1>2 DEF Live
  <2>3. rows'[u].gone
    BY <2>1, <2>2 DEF Row
  <2> QED BY <2>3 DEF Live
<1>3. CASE ~Live(u)
  <2>1. rows'[u] = rows[u]
    BY <1>3 DEF SoftDelete
  <2> QED BY <1>3, <2>1 DEF Live
<1> QED BY <1>2, <1>3

\* Between its soft delete and its Update a reconcile finds no live row.
LEMMA StripStaysDeleted == Spec => []StripIsDeleted
<1>1. Init => StripIsDeleted
  BY DEF Init, StripIsDeleted
<1>2. TypeOK /\ StripIsDeleted /\ [Next]_vars => StripIsDeleted'
  <2> SUFFICES ASSUME TypeOK, StripIsDeleted, [Next]_vars PROVE StripIsDeleted'
    OBVIOUS
  <2> USE DEF StripIsDeleted
  <2>k. RetainKind' = RetainKind
    BY KindStep DEF RetainKind
  <2>1. CASE UNCHANGED vars
    BY <2>1, <2>k DEF vars, Live
  <2>2. CASE Next /\ UNCHANGED ing
    <3>1. CASE UNCHANGED rows
      BY <2>2, <2>k, <3>1 DEF Live
    <3>2. CASE SoftDelete /\ ing.pc = "strip"
      <4>1. ing.obj.uid \in Uids
        BY <3>2 DEF TypeOK, Reconcile, Object
      <4>2. ASSUME NEW u \in Uids, u = ing.obj.uid PROVE ~Live(u)'
        BY <3>2, SoftDeleteKills
      <4>3. rows'[ing.obj.uid] = NoRow \/ rows'[ing.obj.uid].gone
        BY <4>1, <4>2 DEF Live
      <4> QED BY <2>2, <3>2, <4>3 DEF Live
    <3>3. CASE ing.pc # "strip" /\ ing.pc # "idle"
      BY <2>2, <3>3
    <3>4. CASE ing.pc = "idle"
      BY <2>2, <3>4
    <3> QED BY <2>2, <3>1, <3>2, <3>3, <3>4, RowsStep
  <2>3. CASE ing'.pc \in {"idle", "deleteImmutable", "deleteMarked"}
    BY <2>3
  <2>4. CASE HandleImmutableUpsert
    BY <2>4 DEF HandleImmutableUpsert, Continue
  <2>5. CASE HandleCascadeDeletion
    <3>1. SoftDelete /\ ing' = [pc |-> "strip", obj |-> cache] /\ cache \in Object
      BY <2>5 DEF HandleCascadeDeletion, Terminating, Reading, Continue, TypeOK
    <3>2. cache.uid \in Uids
      BY <3>1 DEF Object
    <3>3. ASSUME NEW u \in Uids, u = cache.uid PROVE ~Live(u)'
      BY <3>1, SoftDeleteKills
    <3>4. rows'[cache.uid] = NoRow \/ rows'[cache.uid].gone
      BY <3>2, <3>3 DEF Live
    <3> QED BY <3>1, <3>4 DEF Live
  <2>6. CASE HandleCascadeRetain
    <3>1. RetainKind /\ ing'.pc = "strip"
      BY <2>6 DEF HandleCascadeRetain, HandleCascadeUpsertOnly, Continue
    <3> QED BY <2>k, <3>1
  <2> QED BY <2>1, <2>2, <2>3, <2>4, <2>5, <2>6, ReconcileStep
<1> QED BY <1>1, <1>2, TypeCorrect, PTL DEF Spec

\* Nor does an object of a kind that is not retained, deleted around the API
\* server, leave a live row, whoever else reads and writes the name meanwhile.
THEOREM CascadeDeletesRow == Spec => CascadeLeavesNoLiveRow
<1>1. ASSUME TypeOK, StripIsDeleted, [Next]_vars
      PROVE  [\A u \in Uids : Released(u) /\ ~etcd.del /\ etcd.ts /\ ~RetainKind
                  => ~Live(u)]_vars
  <2> SUFFICES ASSUME Next, NEW u \in Uids, Released(u), ~etcd.del, etcd.ts, ~RetainKind
               PROVE  ~Live(u)
    BY <1>1 DEF vars
  <2>1. etcd # NoObj /\ etcd.uid = u /\ "ingester" \in etcd.fins
    BY DEF Released, Holds
  <2>2. ~(SameObject(etcd, etcd') /\ "ingester" \in etcd'.fins)
    BY <2>1 DEF Released, SameObject
  <2>3. ~HandleImmutableStrip
    BY <1>1 DEF HandleImmutableStrip, Strip, K8sUpdate, StripIsDeleted
  <2>4. CASE HandleCascadeStrip
    BY <1>1, <2>1, <2>4 DEF HandleCascadeStrip, Strip, K8sUpdate, StripIsDeleted
  <2>5. ~HandleDeletion
    BY DEF HandleDeletion, K8sUpdate
  <2> QED BY <1>1, <2>1, <2>2, <2>3, <2>4, <2>5, FinalizerStep
<1> QED BY <1>1, TypeCorrect, StripStaysDeleted, PTL DEF Spec, CascadeLeavesNoLiveRow

-----------------------------------------------------------------------------
(* Deletion through the API server.                                        *)

LEMMA DrainFinalizerKeeps ==
    ASSUME TypeOK, EnsureDrainFinalizer
    PROVE  etcd # NoObj /\ etcd' # NoObj
BY UpdateType, SyncAssumption DEF TypeOK, EnsureDrainFinalizer

LEMMA DeletionsPreserved ==
    ASSUME ~DirectDelete, TypeOK, TypeOK', DeletionsInOrder, [Next]_vars
    PROVE  DeletionsInOrder'
<1> USE SyncAssumption DEF DeletionsInOrder, Marked, SameObject, Live, TypeOK, Reconcile, APIRequest, Object
<1>1. ASSUME NEW c \in Clients, CreateLookup(c) PROVE DeletionsInOrder'
  BY <1>1 DEF CreateLookup, Go
<1>2. ASSUME NEW c \in Clients, CreateInK8s(c) PROVE DeletionsInOrder'
  BY <1>2 DEF CreateInK8s, Reply, NewObject
<1>3. ASSUME NEW c \in Clients, DeleteLookup(c) PROVE DeletionsInOrder'
  BY <1>3 DEF DeleteLookup, Go
<1>4. ASSUME NEW c \in Clients, DeleteMark(c) PROVE DeletionsInOrder'
  <2>1. CASE etcd = cli[c].obj
    <3> DEFINE p == [etcd EXCEPT !.del = TRUE]
    <3>1. /\ etcd \in Object /\ ~etcd.imm /\ UNCHANGED <<rows, cache, ing>>
          /\ etcd' = p /\ etcd # NoObj
      BY <1>4, <2>1 DEF DeleteMark, Request
    <3>2. /\ p.uid = etcd.uid /\ p.del /\ p.imm = etcd.imm /\ p.ts = etcd.ts
          /\ p.fins = etcd.fins /\ p \in Object
      BY <3>1
    <3>3. p # NoObj
      BY <3>2
    <3>4. \A d \in Clients : cli'[d].pc = "mark" => cli'[d] = cli[d]
      BY <1>4 DEF DeleteMark, Reply
    <3> HIDE DEF p, TypeOK, Object, Reconcile, APIRequest
    <3>5. etcd.ts => etcd.del
      BY <3>1
    <3> QED BY <3>1, <3>2, <3>3, <3>4, <3>5
  <2>2. CASE etcd # cli[c].obj
    BY <1>4, <2>2 DEF DeleteMark, Reply
  <2> QED BY <2>1, <2>2
<1>5. ASSUME NEW c \in Clients, DeleteRow(c) PROVE DeletionsInOrder'
  BY <1>5 DEF DeleteRow, Reply, SoftDelete
<1>6. CASE Write
  BY <1>6 DEF Write
<1>7. CASE MarkImmutable
  <2> DEFINE p == [etcd EXCEPT !.imm = TRUE]
  <2>1. /\ etcd \in Object /\ UNCHANGED <<rows, cache, ing, cli>> /\ ~etcd.ts /\ ~etcd.imm
        /\ etcd' = p /\ etcd # NoObj
    BY <1>7 DEF MarkImmutable
  <2>2. /\ p.uid = etcd.uid /\ p.del = etcd.del /\ p.imm /\ p.ts = etcd.ts
        /\ p.fins = etcd.fins /\ p \in Object
    BY <2>1
  <2>3. p # NoObj
    BY <2>2
  <2> HIDE DEF p, TypeOK, Object, Reconcile, APIRequest
  <2> QED BY <2>1, <2>2, <2>3
<1>8. CASE EnsureDrainFinalizer
  <2>1. etcd \in Object /\ UNCHANGED <<rows, cache, ing, cli>> /\ ~etcd.ts /\ ~etcd.imm
    BY <1>8 DEF EnsureDrainFinalizer
  <2>2. /\ etcd'.uid = etcd.uid /\ etcd'.del = etcd.del /\ etcd'.imm = etcd.imm /\ etcd'.ts = etcd.ts
        /\ etcd'.fins = etcd.fins \cup {"drain"}
    BY <1>8, <2>1 DEF EnsureDrainFinalizer
  <2>3. etcd # NoObj /\ etcd' # NoObj
    BY <1>8, DrainFinalizerKeeps
  <2> HIDE DEF TypeOK, Object, Reconcile, APIRequest
  <2> QED BY <2>1, <2>2, <2>3
<1>9. CASE CompleteDrain
  <2>1. etcd \in Object /\ UNCHANGED <<rows, cache, ing, cli>> /\ etcd.ts
    BY <1>9 DEF CompleteDrain
  <2> DEFINE p == [Without(etcd, "drain") EXCEPT !.imm = TRUE]
  <2>2. /\ p.uid = etcd.uid /\ p.del = etcd.del /\ p.imm /\ p.ts = etcd.ts
        /\ p.fins = etcd.fins \ {"drain"} /\ p \in Object
    BY <2>1 DEF Without
  <2>3. etcd' = Stored(p)
    BY <1>9 DEF CompleteDrain
  <2> HIDE DEF p, TypeOK, Object, Reconcile, APIRequest
  <2>4. CASE p.fins = {}
    <3>1. etcd' = NoObj /\ "ingester" \notin etcd.fins
      BY <2>1, <2>2, <2>3, <2>4 DEF Stored
    <3> QED BY <2>1, <3>1
  <2>5. CASE p.fins # {}
    <3>1. etcd' = p
      BY <2>1, <2>2, <2>3, <2>5 DEF Stored
    <3> QED BY <2>1, <2>2, <3>1
  <2> QED BY <2>4, <2>5
<1>10. CASE DeleteDirectly
  BY <1>10 DEF DeleteDirectly
<1>11. CASE CacheSync
  BY <1>11 DEF CacheSync
<1>12. CASE EnsureMetadataStoragePrimaryKey
  <2>1. etcd \in Object /\ UNCHANGED <<rows, cache, ing, cli>> /\ ~etcd.ts /\ ~etcd.del /\ cache = etcd
    BY <1>12 DEF EnsureMetadataStoragePrimaryKey, Reading, K8sUpdate
  <2> DEFINE p == [etcd EXCEPT !.key = TRUE]
  <2>2. /\ p.uid = etcd.uid /\ p.del = etcd.del /\ p.imm = etcd.imm /\ p.ts = etcd.ts
        /\ p.fins = etcd.fins /\ p \in Object
    BY <2>1
  <2>3. etcd' = p
    BY <1>12, <2>1, <2>2 DEF EnsureMetadataStoragePrimaryKey, K8sUpdate, Stored
  <2> HIDE DEF p
  <2> QED BY <2>1, <2>2, <2>3
<1>13. CASE HandleSync
  BY <1>13 DEF HandleSync, Reading
<1>14. CASE HandleImmutableUpsert
  BY <1>14 DEF HandleImmutableUpsert, Reading, Continue
<1>15. CASE HandleImmutableStrip
  BY <1>15 DEF HandleImmutableStrip, Strip, K8sUpdate, Without, Stored
<1>16. CASE HandleImmutableDelete
  BY <1>16 DEF HandleImmutableDelete, K8sDelete, Done, Stored
<1>17. CASE HandleDeletionAnnotation
  BY <1>17 DEF HandleDeletionAnnotation, HandleDeletionAnnotationTolerant, Reading, Continue, SoftDelete
<1>18. CASE HandleDeletionAnnotationDelete
  <2>1. /\ ing.pc = "deleteMarked" /\ ing'.pc = "idle" /\ etcd \in Object
        /\ UNCHANGED <<rows, cache, cli>>
    BY <1>18 DEF HandleDeletionAnnotationDelete, K8sDelete, Done
  <2> DEFINE p == [etcd EXCEPT !.ts = TRUE]
  <2>2. /\ p.uid = etcd.uid /\ p.del = etcd.del /\ p.imm = etcd.imm /\ p.ts
        /\ p.fins = etcd.fins /\ p \in Object
    BY <2>1
  <2>3. etcd' = Stored(p)
    BY <1>18 DEF HandleDeletionAnnotationDelete, K8sDelete
  <2> HIDE DEF p, TypeOK, Object, Reconcile, APIRequest
  <2>4. /\ SameObject(cache, etcd) /\ etcd.del /\ cache.del /\ ~Live(etcd.uid)
        /\ "ingester" \in etcd.fins
    BY <2>1
  <2>5. etcd' = p
    BY <2>2, <2>3, <2>4 DEF Stored
  <2> QED BY <2>1, <2>2, <2>4, <2>5
<1>19. CASE HandleDeletion
  BY <1>19 DEF HandleDeletion, Terminating, Reading, K8sUpdate, Without, Stored
<1>20. CASE HandleCascadeDeletion
  BY <1>20 DEF HandleCascadeDeletion, Terminating, Reading
<1>21. CASE HandleCascadeDraining
  BY <1>21 DEF HandleCascadeDraining, Terminating, Reading
<1>22. CASE HandleCascadeRetain
  BY <1>22 DEF HandleCascadeRetain, HandleCascadeUpsertOnly, Terminating, Reading
<1>23. CASE HandleCascadeStrip
  BY <1>23 DEF HandleCascadeStrip, Strip
<1>24. CASE Abort
  BY <1>24 DEF Abort, Done
<1>25. CASE UNCHANGED vars
  BY <1>25 DEF vars
<1> QED BY <1>1, <1>2, <1>3, <1>4, <1>5, <1>6, <1>7, <1>8, <1>9, <1>10, <1>11, <1>12, <1>13, <1>14, <1>15, <1>16, <1>17, <1>18, <1>19, <1>20, <1>21, <1>22, <1>23, <1>24, <1>25
   DEF Next, ApiServer, Controllers, Ingester

\* In a deployment where objects are deleted through the API server only, marks,
\* rows, finalizers and the informer cache stay in the order DeletionsInOrder gives.
THEOREM DeletionsStayInOrder == ASSUME ~DirectDelete PROVE Spec => []DeletionsInOrder
<1>1. Init => DeletionsInOrder
  BY DEF Init, DeletionsInOrder, Marked
<1>2. TypeOK /\ DeletionsInOrder /\ [Next]_vars => DeletionsInOrder'
  BY DeletionsPreserved, TypePreserved
<1> QED BY <1>1, <1>2, TypeCorrect, PTL DEF Spec

\* An object deleted through the API server has no live row when the ingester lets
\* it go, whatever requests, syncs and conflicts come in between.
THEOREM DeletionLeavesNoRow == ASSUME ~DirectDelete PROVE Spec => DeletedLeavesNoLiveRow
<1>1. ASSUME TypeOK, StripIsRecorded, DeletionsInOrder, [Next]_vars
      PROVE  [\A u \in Uids : Released(u) /\ etcd.del => ~Live(u)]_vars
  <2> SUFFICES ASSUME Next, NEW u \in Uids, Released(u), etcd.del
               PROVE  ~Live(u)
    BY <1>1 DEF vars
  <2>1. etcd # NoObj /\ etcd.uid = u /\ "ingester" \in etcd.fins
    BY DEF Released, Holds
  <2>2. ~(SameObject(etcd, etcd') /\ "ingester" \in etcd'.fins)
    BY <2>1 DEF Released, SameObject
  <2>3. ~HandleImmutableStrip /\ ~HandleCascadeStrip
    BY <1>1 DEF HandleImmutableStrip, HandleCascadeStrip, Strip, K8sUpdate, DeletionsInOrder
  <2>4. CASE HandleDeletion
    BY <1>1, <2>1, <2>4
       DEF HandleDeletion, Terminating, Reading, K8sUpdate, DeletionsInOrder, Marked
  <2> QED BY <1>1, <2>1, <2>2, <2>3, <2>4, FinalizerStep
<1> QED BY <1>1, TypeCorrect, StripStaysRecorded, DeletionsStayInOrder, PTL
        DEF Spec, DeletedLeavesNoLiveRow

\* In such a deployment the K8s delete that ends a reconcile, though it names no
\* uid, hits the object that was reconciled.
THEOREM DeletionHitsItsObject == ASSUME ~DirectDelete PROVE Spec => DeletesItsOwnObject
<1>1. ASSUME DeletionsInOrder, [Next]_vars
      PROVE  [ing.pc \in {"deleteImmutable", "deleteMarked"} /\ etcd' # etcd /\ ing'.pc = "idle"
                 => etcd.uid = ing.obj.uid]_vars
  BY <1>1 DEF DeletionsInOrder, SameObject
<1> QED BY <1>1, DeletionsStayInOrder, PTL DEF Spec, DeletesItsOwnObject
=============================================================================
