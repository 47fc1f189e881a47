------------------------- MODULE ApprovedBatchProofs -------------------------
(* Proofs about ApprovedBatch, for every tree, set of batches and number   *)
(* of failures: types, one father per folder, the refinement of            *)
(* AtomicBatches, the cache, and the tree as a whole.                      *)
EXTENDS ApprovedBatch, FiniteSetTheorems, TLAPS

-----------------------------------------------------------------------------
(* The inductive invariant.                                                *)

\* Ids that exist or are named by a waiting move are older than the next one.
IdsInv ==
  /\ \A f \in DOMAIN folders : f < nextId
  /\ \A row \in relations : IsMount(row) => row.child < nextId
  /\ \A w \in waiting : \A f \in IdsOf(w.batch.move) : f < nextId

\* The folders just inserted are distinct and have no father yet.
NewFoldersInv ==
  At("insertRelations") =>
    /\ executor.real \in [TempIdsOf(Batch) -> FolderIds]
    /\ \A x, y \in TempIdsOf(Batch) : executor.real[x] = executor.real[y] => x = y
    /\ \A x \in TempIdsOf(Batch) :
         /\ executor.real[x] < nextId
         /\ \A row \in relations : IsMount(row) => row.child # executor.real[x]

\* The mounts of the folders that move are those still to be deleted.
MovedFoldersInv ==
  /\ At("deleteRelations") =>
       \A row \in relations : IsMount(row) /\ row.child \in IdsOf(Batch.move) => row \in executor.old
  /\ At("createRelations") =>
       \A row \in relations : IsMount(row) => row.child \notin IdsOf(Batch.move)

Inv == TypeOK /\ IdsInv /\ NewFoldersInv /\ MovedFoldersInv /\ AtMostOneFather

-----------------------------------------------------------------------------
(* Types of the parts.                                                     *)

LEMMA BatchFacts ==
  ASSUME NEW b \in Batches
  PROVE  b \in BatchType /\ OneEach(b) /\ IsFiniteSet(b.create)
BY ConstantsAssumption

LEMMA BusyBatch ==
  ASSUME TypeOK, ~At("idle")
  PROVE  executor.req \in waiting /\ executor.req \in RequestType /\ Batch \in Batches
BY DEF TypeOK, RequestType, Batch

LEMMA ResolveType ==
  ASSUME NEW real \in NumberingType, NEW id \in Ids \cup {Root}, NEW type
  PROVE  Resolve(id, type, real) \in Refs
BY DEF Resolve, Refs, FolderRef, RootRef, NumberingType, Ids

LEMMA RowType ==
  ASSUME NEW ref \in Refs, NEW f \in FolderIds
  PROVE  /\ Row(ref, f) \in Rows
         /\ IsMount(Row(ref, f))
         /\ Row(ref, f).child = f
BY DEF Row, Rows, Refs, IsMount

LEMMA CachedFatherType ==
  ASSUME NEW ref \in Refs
  PROVE  CachedFather(ref) \in Refs
BY DEF CachedFather, Refs, RootRef, FolderRef

LEMMA StagesAfter ==
  ASSUME NEW b
  PROVE  /\ AfterRename(b) \in {"dropRelations", "commit"}
         /\ AfterMove(b) \in {"rename", "dropRelations", "commit"}
         /\ AfterCreate(b) \in {"findRelations", "rename", "dropRelations", "commit"}
         /\ FirstStage(b) \in
              {"insertFolders", "findRelations", "rename", "dropRelations", "commit"}
BY DEF AfterRename, AfterMove, AfterCreate, FirstStage

ExecutorType == [pc : Stages, req : RequestType \cup {None}, real : NumberingType,
                 old : SUBSET Rows, todo : BatchType]

LEMMA IdleType ==
  Idle \in ExecutorType /\ Idle.pc = "idle"
<1>1. Empty \in NumberingType
  <2>1. Empty \in [{} -> Ids]
    BY DEF Empty
  <2> QED
    BY <2>1 DEF NumberingType
<1>2. Nothing \in BatchType
  BY DEF Nothing, BatchType
<1> QED
  BY <1>1, <1>2 DEF Idle, ExecutorType, Stages

LEMMA GoType ==
  ASSUME executor \in ExecutorType, NEW stage \in Stages, Go(stage)
  PROVE  /\ executor' \in ExecutorType /\ executor'.pc = stage
         /\ executor'.req = executor.req /\ executor'.real = executor.real
         /\ executor'.old = executor.old
BY DEF Go, ExecutorType

\* A step that ends or begins an execution, or goes on to a stage without an
\* invariant of its own, has nothing to show but types when it adds nothing to
\* the tables.
Quiet == executor.pc \notin {"insertRelations", "deleteRelations", "createRelations"}

\* A folder once moved twice stays one: a request that is done was waiting.
LEMMA MovedTwiceStays ==
  ASSUME waiting \cup executed \subseteq waiting' \cup executed'
  PROVE  MovedTwice \subseteq MovedTwice'
BY DEF MovedTwice

LEMMA QuietStep ==
  ASSUME Inv, Quiet', relations' \subseteq relations, nextId' = nextId,
         DOMAIN folders' \subseteq DOMAIN folders, waiting' \subseteq waiting,
         waiting \cup executed \subseteq waiting' \cup executed'
  PROVE  IdsInv' /\ NewFoldersInv' /\ MovedFoldersInv' /\ AtMostOneFather'
<1>1. IdsInv'
  BY DEF Inv, IdsInv
<1>2. NewFoldersInv' /\ MovedFoldersInv'
  BY DEF Quiet, NewFoldersInv, MovedFoldersInv, At
<1>3. AtMostOneFather'
  BY MovedTwiceStays DEF Inv, AtMostOneFather
<1> QED
  BY <1>1, <1>2, <1>3

-----------------------------------------------------------------------------
LEMMA InitInv == Init => Inv
<1> SUFFICES ASSUME Init PROVE Inv
  OBVIOUS
<1> USE ConstantsAssumption
<1>1. \A f \in DOMAIN InitialTree :
        Row(InitialTree[f].father, f) \in Rows /\ Row(InitialTree[f].father, f).child = f
  BY RowType
<1>2. \A row \in OtherRows : row \in Rows /\ ~IsMount(row)
  BY DEF Rows, IsMount
<1>3. relations \subseteq Rows
  BY <1>1, <1>2 DEF Init
<1>4. TypeOK
  <2>1. DOMAIN folders \subseteq FolderIds /\ folders \in [DOMAIN folders -> Names]
    BY DEF Init
  <2>2. entry \in [FolderIds -> [name : Names \cup {None}, father : Refs \cup {None}]]
    BY DEF Init, NoEntry
  <2>3. version \in [FolderIds -> Nat \cup {None}]
    BY DEF Init
  <2> QED
    BY <1>3, <2>1, <2>2, <2>3, IdleType DEF Init, TypeOK, At, ExecutorType
<1>5. IdsInv
  BY <1>1, <1>2 DEF Init, IdsInv
<1>6. NewFoldersInv /\ MovedFoldersInv
  BY IdleType DEF Init, NewFoldersInv, MovedFoldersInv, At
<1>7. AtMostOneFather
  BY <1>1, <1>2 DEF Init, AtMostOneFather
<1> QED
  BY <1>4, <1>5, <1>6, <1>7 DEF Inv

-----------------------------------------------------------------------------
(* Steps that leave the relations alone.                                   *)

LEMMA SubmitInv ==
  ASSUME Inv, NEW m \in Members, NEW b \in Batches, Submit(m, b)
  PROVE  Inv'
<1> DEFINE w == [no |-> submitted, member |-> m, batch |-> b, early |-> DeletedEarly(b)]
<1>1. w \in RequestType
  <2>1. DeletedEarly(b) \in SUBSET FolderIds
    BY BatchFacts DEF DeletedEarly, BatchType, DeleteOps, IdsOf
  <2> QED
    BY <2>1 DEF Inv, TypeOK, RequestType
<1>2. TypeOK'
  BY <1>1 DEF Submit, Inv, TypeOK, At, tables, cache
<1>3. IdsInv'
  <2>1. \A f \in IdsOf(w.batch.move) : f < nextId
    BY DEF Submit, Inv, IdsInv
  <2> QED
    BY <2>1 DEF Submit, Inv, IdsInv, tables
<1>4. NewFoldersInv' /\ MovedFoldersInv'
  BY DEF Submit, Inv, NewFoldersInv, MovedFoldersInv, At, Batch, tables
<1>5. AtMostOneFather'
  BY MovedTwiceStays DEF Submit, Inv, AtMostOneFather, tables
<1> QED
  BY <1>2, <1>3, <1>4, <1>5 DEF Inv

LEMMA StartInv ==
  ASSUME Inv, NEW r \in waiting, Start(r)
  PROVE  Inv'
<1>1. r \in RequestType /\ r.batch \in BatchType
  BY BatchFacts DEF Inv, TypeOK, RequestType
<1>2. executor' \in ExecutorType /\ executor'.pc = FirstStage(r.batch) /\ executor'.req = r
  <2>1. FirstStage(r.batch) \in Stages
    BY StagesAfter DEF Stages
  <2> QED
    BY <1>1, <2>1, IdleType DEF Start, ExecutorType
<1>3. TypeOK'
  BY <1>2 DEF Start, Inv, TypeOK, At, tables, cache, ExecutorType
<1>4. Quiet'
  BY <1>2, StagesAfter DEF Quiet
<1> QED
  BY <1>3, <1>4, QuietStep DEF Start, tables, Inv

LEMMA FailInv ==
  ASSUME Inv, Fail
  PROVE  Inv'
<1>1. TypeOK'
  BY IdleType DEF Fail, GiveUp, Inv, TypeOK, At, tables, cache, ExecutorType
<1>2. Quiet'
  BY IdleType DEF Fail, GiveUp, Quiet
<1> QED
  BY <1>1, <1>2, QuietStep DEF Fail, tables, Inv

LEMMA InsertFoldersInv ==
  ASSUME Inv, InsertFolders
  PROVE  Inv'
<1> DEFINE new == nextId .. (nextId + Cardinality(Batch.create) - 1)
<1>1. Batch \in Batches /\ Batch \in BatchType /\ executor.req \in waiting
  BY BusyBatch, BatchFacts DEF InsertFolders, At, Inv
<1>2. Cardinality(Batch.create) \in Nat /\ nextId \in Nat
  BY <1>1, BatchFacts, FS_CardinalityType DEF Inv, TypeOK
<1>3. PICK real \in Numberings(Batch, (FolderIds \cup TempIds) \ new) :
        /\ new \subseteq FolderIds
        /\ folders' = [f \in DOMAIN folders \cup {real[op.temp] : op \in Batch.create} |->
              IF \E op \in Batch.create : real[op.temp] = f
              THEN (CHOOSE op \in Batch.create : real[op.temp] = f).name
              ELSE folders[f]]
        /\ executor' = [executor EXCEPT !.pc = "insertRelations", !.real = real]
  BY DEF InsertFolders
<1>4. /\ real \in [TempIdsOf(Batch) -> new]
      /\ \A x, y \in TempIdsOf(Batch) : real[x] = real[y] => x = y
  BY <1>3 DEF Numberings
<1>5. nextId' = nextId + Cardinality(Batch.create) /\ relations' = relations /\ waiting' = waiting
  BY DEF InsertFolders
<1>6. real \in [TempIdsOf(Batch) -> FolderIds] /\ real \in NumberingType
  <2>1. real \in [TempIdsOf(Batch) -> FolderIds]
    BY <1>3, <1>4
  <2>2. real \in [TempIdsOf(Batch) -> Ids]
    BY <2>1 DEF Ids
  <2>3. TempIdsOf(Batch) \subseteq TempIds
    BY <1>1 DEF TempIdsOf, BatchType, CreateOps
  <2> QED
    BY <2>1, <2>2, <2>3 DEF NumberingType
<1>7. /\ executor' \in ExecutorType /\ executor'.pc = "insertRelations"
      /\ executor'.real = real /\ executor'.req = executor.req
  BY <1>3, <1>6 DEF Inv, TypeOK, ExecutorType, Stages
<1>8. \A op \in Batch.create : op.name \in Names /\ op.temp \in TempIdsOf(Batch)
  BY <1>1 DEF BatchType, CreateOps, TempIdsOf
<1>9. DOMAIN folders' \subseteq DOMAIN folders \cup new
  BY <1>3, <1>4, <1>8
<1>10. TypeOK'
  <2>1. folders' \in [DOMAIN folders' -> Names]
    <3>1. \A f : (\E op \in Batch.create : real[op.temp] = f) =>
            (CHOOSE op \in Batch.create : real[op.temp] = f).name \in Names
      BY <1>8
    <3>2. \A f \in DOMAIN folders : folders[f] \in Names
      BY DEF Inv, TypeOK
    <3>3. \A f \in DOMAIN folders \cup {real[op.temp] : op \in Batch.create} :
            (~\E op \in Batch.create : real[op.temp] = f) => folders[f] \in Names
      BY <3>2
    <3> QED
      BY <1>3, <3>1, <3>3
  <2>2. DOMAIN folders' \subseteq FolderIds
    BY <1>3, <1>9 DEF Inv, TypeOK
  <2>3. nextId' \in Nat
    BY <1>2, <1>5
  <2>4. executor'.req \in waiting'
    BY <1>1, <1>5, <1>7
  <2> QED
    BY <1>5, <1>7, <2>1, <2>2, <2>3, <2>4
       DEF InsertFolders, Inv, TypeOK, cache, ExecutorType
<1>11. \A f \in new : f < nextId' /\ nextId <= f
  BY <1>2, <1>5
<1>12. IdsInv'
  <2>1. nextId <= nextId' /\ nextId' \in Nat
    BY <1>2, <1>5
  <2>2. \A f \in DOMAIN folders' : f < nextId'
    BY <1>2, <1>9, <1>11, <2>1, ConstantsAssumption DEF Inv, TypeOK, IdsInv
  <2>3. \A row \in relations : IsMount(row) => row.child < nextId'
    BY <1>2, <2>1, ConstantsAssumption DEF Inv, TypeOK, IdsInv, Rows
  <2>4. \A w \in waiting : \A f \in IdsOf(w.batch.move) : f < nextId'
    <3> SUFFICES ASSUME NEW w \in waiting, NEW f \in IdsOf(w.batch.move) PROVE f < nextId'
      OBVIOUS
    <3>1. f \in FolderIds
      BY BatchFacts DEF Inv, TypeOK, RequestType, BatchType, MoveOps, IdsOf
    <3> QED
      BY <1>2, <2>1, <3>1, ConstantsAssumption DEF Inv, IdsInv
  <2> QED
    BY <1>5, <2>2, <2>3, <2>4 DEF IdsInv
<1>13. NewFoldersInv'
  <2>1. Batch' = Batch
    BY <1>7 DEF Batch
  <2>2. ASSUME NEW x \in TempIdsOf(Batch)
        PROVE  /\ real[x] < nextId'
               /\ \A row \in relations : IsMount(row) => row.child # real[x]
    <3>1. real[x] \in new
      BY <1>4
    <3>2. real[x] \in Nat
      BY <1>3, <3>1, ConstantsAssumption
    <3> QED
      BY <1>2, <1>11, <3>1, <3>2, ConstantsAssumption DEF Inv, IdsInv, TypeOK, Rows
  <2> QED
    BY <1>4, <1>5, <1>6, <1>7, <2>1, <2>2 DEF NewFoldersInv
<1>14. MovedFoldersInv' /\ AtMostOneFather'
  BY <1>5, <1>7 DEF InsertFolders, Inv, MovedFoldersInv, AtMostOneFather, MovedTwice, At
<1> QED
  BY <1>10, <1>12, <1>13, <1>14 DEF Inv

LEMMA FindRelationsInv ==
  ASSUME Inv, FindRelations
  PROVE  Inv'
<1>1. Batch \in Batches /\ executor.req \in waiting
  BY BusyBatch DEF FindRelations, At, Inv
<1>2. OldMounts = {row \in relations : IsMount(row) /\ row.child \in IdsOf(Batch.move)}
  BY DEF OldMounts, MountsOf
<1>3. OldMounts \subseteq Rows
  BY <1>2 DEF Inv, TypeOK
<1>4. /\ executor' \in ExecutorType /\ executor'.old = OldMounts /\ executor'.req = executor.req
      /\ executor'.pc = IF OldMounts = {} THEN "createRelations" ELSE "deleteRelations"
  BY <1>3 DEF FindRelations, Inv, TypeOK, ExecutorType, Stages
<1>5. TypeOK'
  BY <1>1, <1>4 DEF FindRelations, Inv, TypeOK, At, tables, cache, ExecutorType
<1>6. relations' = relations /\ nextId' = nextId /\ folders' = folders /\ waiting' = waiting
  BY DEF FindRelations, tables
<1>7. MovedFoldersInv'
  <2>1. Batch' = Batch
    BY <1>4 DEF Batch
  <2> QED
    BY <1>2, <1>4, <1>6, <2>1 DEF MovedFoldersInv, At
<1>8. IdsInv' /\ NewFoldersInv' /\ AtMostOneFather'
  BY <1>4, <1>6 DEF FindRelations, Inv, IdsInv, NewFoldersInv, AtMostOneFather, MovedTwice, At
<1> QED
  BY <1>5, <1>7, <1>8 DEF Inv

\* The steps that write folders or the cache, and those that go on.
LEMMA RenameInv ==
  ASSUME Inv, Rename
  PROVE  Inv'
<1>1. Batch \in BatchType /\ executor.req \in waiting
  BY BusyBatch, BatchFacts DEF Rename, At, Inv
<1> DEFINE found == IdsOf(Batch.rename) \cap DOMAIN folders
<1>2. /\ DOMAIN folders' = DOMAIN folders /\ folders' \in [DOMAIN folders' -> Names]
      /\ executor' \in ExecutorType /\ Quiet' /\ faults' \in Nat
      /\ ~At("idle")' => executor'.req = executor.req
  <2>1. CASE found = {}
    BY <2>1, IdleType DEF Rename, GiveUp, Inv, TypeOK, Quiet, At
  <2>2. CASE found # {}
    <3>1. /\ folders' = [f \in DOMAIN folders |->
                         IF f \in found THEN (CHOOSE op \in Batch.rename : op.id = f).name
                         ELSE folders[f]]
          /\ Go(AfterRename(Batch)) /\ faults' = faults
      BY <2>2 DEF Rename
    <3>2. \A f \in found : (CHOOSE op \in Batch.rename : op.id = f).name \in Names
      BY <1>1 DEF IdsOf, BatchType, RenameOps
    <3>3. DOMAIN folders' = DOMAIN folders /\ folders' \in [DOMAIN folders' -> Names]
      BY <3>1, <3>2 DEF Inv, TypeOK
    <3>4. AfterRename(Batch) \in Stages
          /\ AfterRename(Batch) \notin {"insertRelations", "deleteRelations", "createRelations"}
      BY StagesAfter DEF Stages
    <3>5. executor' \in ExecutorType /\ executor'.pc = AfterRename(Batch)
          /\ executor'.req = executor.req
      BY <3>1, <3>4, GoType DEF Inv, TypeOK, ExecutorType
    <3> QED
      BY <3>1, <3>3, <3>4, <3>5 DEF Quiet, Inv, TypeOK
  <2> QED
    BY <2>1, <2>2
<1>3. TypeOK'
  BY <1>1, <1>2 DEF Rename, Inv, TypeOK, cache, ExecutorType, At
<1> QED
  BY <1>2, <1>3, QuietStep DEF Rename, Inv

LEMMA DropFoldersInv ==
  ASSUME Inv, DropFolders
  PROVE  Inv'
<1>1. executor' \in ExecutorType /\ executor'.pc = "commit" /\ executor'.req = executor.req
  BY GoType DEF DropFolders, Inv, TypeOK, ExecutorType, Stages
<1>2. DOMAIN folders' \subseteq DOMAIN folders /\ folders' \in [DOMAIN folders' -> Names]
  BY DEF DropFolders, Inv, TypeOK
<1>3. executor.req \in waiting
  BY BusyBatch DEF DropFolders, At, Inv
<1>4. TypeOK'
  BY <1>1, <1>2, <1>3 DEF DropFolders, Inv, TypeOK, cache, ExecutorType, At
<1> QED
  BY <1>1, <1>2, <1>4, QuietStep DEF DropFolders, Quiet, Inv

LEMMA CommitInv ==
  ASSUME Inv, Commit
  PROVE  Inv'
<1>1. executor' \in ExecutorType /\ executor'.pc = "cache" /\ executor'.req = executor.req
  BY GoType DEF Commit, Inv, TypeOK, ExecutorType, Stages
<1>2. executor.req \in waiting
  BY BusyBatch DEF Commit, At, Inv
<1>3. TypeOK'
  BY <1>1, <1>2 DEF Commit, Inv, TypeOK, tables, cache, ExecutorType, At
<1> QED
  BY <1>1, <1>3, QuietStep DEF Commit, Quiet, tables, Inv

LEMMA BumpProjectVersionInv ==
  ASSUME Inv, BumpProjectVersion
  PROVE  Inv'
<1>1. executor' \in ExecutorType /\ executor'.pc = "finish" /\ executor'.req = executor.req
  BY GoType DEF BumpProjectVersion, Inv, TypeOK, ExecutorType, Stages
<1>2. executor.req \in waiting /\ projectVersion' \in Nat
  BY BusyBatch DEF BumpProjectVersion, At, Inv, TypeOK
<1>3. TypeOK'
  BY <1>1, <1>2 DEF BumpProjectVersion, Inv, TypeOK, tables, ExecutorType, At
<1> QED
  BY <1>1, <1>3, QuietStep DEF BumpProjectVersion, Quiet, tables, Inv

LEMMA FinishInv ==
  ASSUME Inv, Finish
  PROVE  Inv'
<1>1. executor.req \in RequestType
  BY BusyBatch DEF Finish, At, Inv
<1>2. TypeOK'
  BY <1>1, IdleType DEF Finish, Inv, TypeOK, tables, cache, ExecutorType, At
<1> QED
  BY <1>2, IdleType, QuietStep DEF Finish, Quiet, tables, Inv
-----------------------------------------------------------------------------
(* Steps that write relations.                                             *)

LEMMA InsertRelationsInv ==
  ASSUME Inv, InsertRelations
  PROVE  Inv'
<1>1. /\ Batch \in BatchType /\ OneEach(Batch)
      /\ executor.req \in waiting /\ executor.real \in NumberingType
  BY BusyBatch, BatchFacts DEF InsertRelations, At, Inv, TypeOK
<1>2. executor' \in ExecutorType /\ executor'.pc = AfterCreate(Batch) /\ executor'.req = executor.req
  <2>1. AfterCreate(Batch) \in Stages
    BY StagesAfter DEF Stages
  <2> QED
    BY <2>1, GoType DEF InsertRelations, Inv, TypeOK, ExecutorType
<1>3. ASSUME NEW op \in Batch.create
      PROVE  /\ NewRow(op) \in Rows /\ NewRow(op).child = executor.real[op.temp]
             /\ NewRow(op).child < nextId
             /\ \A row \in relations : IsMount(row) => row.child # NewRow(op).child
  <2>1. op.father \in Ids \cup {Root} /\ op.temp \in TempIdsOf(Batch)
    BY <1>1 DEF BatchType, CreateOps, TempIdsOf
  <2>2. /\ executor.real[op.temp] \in FolderIds
        /\ executor.real[op.temp] < nextId
        /\ \A row \in relations : IsMount(row) => row.child # executor.real[op.temp]
    BY <2>1 DEF InsertRelations, Inv, NewFoldersInv
  <2>3. Resolve(op.father, op.fatherType, executor.real) \in Refs
    BY <1>1, <2>1, ResolveType
  <2> QED
    BY <2>2, <2>3, RowType DEF NewRow
<1>4. TypeOK'
  <2>1. relations' \subseteq Rows
    BY <1>3 DEF InsertRelations, Inv, TypeOK
  <2> QED
    BY <1>1, <1>2, <2>1 DEF InsertRelations, Inv, TypeOK, cache, ExecutorType, At
<1>5. IdsInv'
  BY <1>3 DEF InsertRelations, Inv, IdsInv
<1>6. NewFoldersInv' /\ MovedFoldersInv'
  BY <1>2, StagesAfter DEF NewFoldersInv, MovedFoldersInv, At
<1>7. AtMostOneFather'
  <2>1. ASSUME NEW op \in Batch.create, NEW other \in Batch.create,
               NewRow(op).child = NewRow(other).child
        PROVE  op = other
    <3>1. op.temp \in TempIdsOf(Batch) /\ other.temp \in TempIdsOf(Batch)
      BY DEF TempIdsOf
    <3>2. executor.real[op.temp] = executor.real[other.temp]
      BY <1>3, <2>1
    <3>3. op.temp = other.temp
      BY <3>1, <3>2 DEF InsertRelations, Inv, NewFoldersInv
    <3> QED
      BY <1>1, <3>3 DEF OneEach
  <2> QED
    BY <1>3, <2>1 DEF InsertRelations, Inv, AtMostOneFather, MovedTwice
<1> QED
  BY <1>4, <1>5, <1>6, <1>7 DEF Inv

LEMMA DeleteRelationInv ==
  ASSUME Inv, NEW row \in executor.old, DeleteRelation(row)
  PROVE  Inv'
<1>1. /\ executor' \in ExecutorType /\ executor'.old = executor.old \ {row}
      /\ executor'.req = executor.req
      /\ executor'.pc = IF executor.old = {row} THEN "createRelations" ELSE "deleteRelations"
  BY DEF DeleteRelation, Inv, TypeOK, ExecutorType, Stages
<1>2. relations' = relations \ SamePair(row) /\ executor.req \in waiting
  BY BusyBatch DEF DeleteRelation, At, Inv
<1>3. TypeOK'
  BY <1>1, <1>2 DEF DeleteRelation, Inv, TypeOK, cache, ExecutorType, At
<1>4. row \notin relations'
  BY <1>2 DEF SamePair
<1>5. MovedFoldersInv'
  <2>1. Batch' = Batch
    BY <1>1 DEF Batch
  <2>2. \A r \in relations' : IsMount(r) /\ r.child \in IdsOf(Batch.move) => r \in executor'.old
    BY <1>1, <1>2, <1>4 DEF DeleteRelation, Inv, MovedFoldersInv
  <2> QED
    BY <1>1, <2>1, <2>2 DEF MovedFoldersInv, At
<1>6. IdsInv' /\ NewFoldersInv' /\ AtMostOneFather'
  BY <1>1, <1>2 DEF DeleteRelation, Inv, IdsInv, NewFoldersInv, AtMostOneFather, MovedTwice, At
<1> QED
  BY <1>3, <1>5, <1>6 DEF Inv

LEMMA CreateRelationsInv ==
  ASSUME Inv, CreateRelations
  PROVE  Inv'
<1> DEFINE new(op) == Row(Resolve(op.father, op.fatherType, executor.real), op.id)
<1>1. /\ Batch \in BatchType
      /\ executor.req \in waiting /\ executor.real \in NumberingType
  BY BusyBatch, BatchFacts DEF CreateRelations, At, Inv, TypeOK
<1>2. executor' \in ExecutorType /\ executor'.pc = AfterMove(Batch) /\ executor'.req = executor.req
  <2>1. AfterMove(Batch) \in Stages
    BY StagesAfter DEF Stages
  <2> QED
    BY <2>1, GoType DEF CreateRelations, Inv, TypeOK, ExecutorType
<1>3. relations' = relations \cup {new(op) : op \in Batch.move}
  BY DEF CreateRelations
<1>4. ASSUME NEW op \in Batch.move
      PROVE  /\ new(op) \in Rows /\ new(op).child = op.id
             /\ op.id < nextId
             /\ \A row \in relations : IsMount(row) => row.child # op.id
  <2>1. op.father \in Ids \cup {Root} /\ op.id \in FolderIds /\ op.id \in IdsOf(Batch.move)
    BY <1>1 DEF BatchType, MoveOps, IdsOf
  <2>2. Resolve(op.father, op.fatherType, executor.real) \in Refs
    BY <1>1, <2>1, ResolveType
  <2>3. op.id < nextId
    BY <1>1, <2>1 DEF Inv, IdsInv, Batch
  <2>4. \A row \in relations : IsMount(row) => row.child # op.id
    BY <2>1 DEF CreateRelations, Inv, MovedFoldersInv
  <2> QED
    BY <2>1, <2>2, <2>3, <2>4, RowType
<1> HIDE DEF new
<1>5. TypeOK'
  <2>1. relations' \subseteq Rows
    BY <1>3, <1>4 DEF Inv, TypeOK
  <2> QED
    BY <1>1, <1>2, <2>1 DEF CreateRelations, Inv, TypeOK, cache, ExecutorType, At
<1>6. IdsInv'
  BY <1>3, <1>4 DEF CreateRelations, Inv, IdsInv
<1>7. NewFoldersInv' /\ MovedFoldersInv'
  BY <1>2, StagesAfter DEF NewFoldersInv, MovedFoldersInv, At
<1>8. AtMostOneFather'
  <2>1. MovedTwice' = MovedTwice
    BY DEF CreateRelations, MovedTwice
  <2>2. \A op, other \in Batch.move : op.id = other.id /\ op.id \notin MovedTwice => op = other
    BY <1>1 DEF MovedTwice, Batch, BatchType, MoveOps
  <2> QED
    BY <1>3, <1>4, <2>1, <2>2 DEF Inv, AtMostOneFather
<1> QED
  BY <1>5, <1>6, <1>7, <1>8 DEF Inv

LEMMA DropRelationsInv ==
  ASSUME Inv, DropRelations
  PROVE  Inv'
<1>1. executor' \in ExecutorType /\ executor'.pc = "dropFolders" /\ executor'.req = executor.req
  BY GoType DEF DropRelations, Inv, TypeOK, ExecutorType, Stages
<1>2. relations' \subseteq relations /\ executor.req \in waiting
  BY BusyBatch DEF DropRelations, At, Inv
<1>3. TypeOK'
  BY <1>1, <1>2 DEF DropRelations, Inv, TypeOK, cache, ExecutorType, At
<1> QED
  BY <1>1, <1>2, <1>3, QuietStep DEF DropRelations, Quiet, Inv

-----------------------------------------------------------------------------
(* Steps that write the cache.                                             *)

Fields == [name : Names \cup {None}, father : Refs \cup {None}]

\* The execution goes on with what is left to do, or is given up.
LEMMA CacheWrite ==
  ASSUME Inv, At("cache"), NEW rest \in BatchType,
         UNCHANGED <<tables, projectVersion, waiting, submitted, executed, before>>,
         entry' \in [FolderIds -> Fields], version' \in [FolderIds -> Nat \cup {None}],
         \/ executor' = [executor EXCEPT !.todo = rest] /\ UNCHANGED faults
         \/ GiveUp
  PROVE  Inv'
<1>1. executor.req \in waiting
  BY BusyBatch DEF At, Inv
<1>2. /\ executor' \in ExecutorType /\ executor'.pc \in {"cache", "idle"} /\ faults' \in Nat
      /\ executor'.pc # "idle" => executor'.req = executor.req
  BY IdleType DEF GiveUp, Inv, TypeOK, ExecutorType, At
<1>3. TypeOK'
  BY <1>1, <1>2 DEF Inv, TypeOK, tables, ExecutorType, At, Fields
<1> QED
  BY <1>2, <1>3, QuietStep DEF Quiet, tables, Inv

LEMMA WriteEntryInv ==
  ASSUME Inv, NEW f, NEW fields \in Fields, NEW rest \in BatchType, WriteEntry(f, fields, rest)
  PROVE  Inv'
<1>1. version' \in [FolderIds -> Nat \cup {None}]
  <2>1. version \in [FolderIds -> Nat \cup {None}]
    BY DEF Inv, TypeOK
  <2>2. Bumped(f) = [g \in FolderIds |->
          IF g # f THEN version[g] ELSE IF version[g] = None THEN 0 ELSE version[g] + 1]
    BY <2>1 DEF Bumped
  <2>3. \A g \in FolderIds :
          (IF g # f THEN version[g] ELSE IF version[g] = None THEN 0 ELSE version[g] + 1)
            \in Nat \cup {None}
    BY <2>1
  <2> QED
    BY <2>2, <2>3 DEF WriteEntry
<1>2. entry' \in [FolderIds -> Fields]
  BY DEF WriteEntry, Inv, TypeOK, Fields
<1> QED
  BY <1>1, <1>2, CacheWrite DEF WriteEntry

LEMMA CacheStepInv ==
  ASSUME Inv, CacheStep
  PROVE  Inv'
<1>1. Todo \in BatchType /\ executor.real \in NumberingType
  BY DEF Inv, TypeOK, Todo
<1>2. \A ref \in Refs : CachedFather(ref) \in Refs \cup {None}
  BY CachedFatherType
<1>3. ASSUME NEW op \in Todo.create, CacheCreate(op)
      PROVE  Inv'
  <2>1. op.name \in Names /\ op.father \in Ids \cup {Root}
    BY <1>1 DEF BatchType, CreateOps
  <2>2. [name |-> op.name,
         father |-> CachedFather(Resolve(op.father, op.fatherType, executor.real))] \in Fields
    BY <1>1, <1>2, <2>1, ResolveType DEF Fields
  <2>3. [Todo EXCEPT !.create = @ \ {op}] \in BatchType
    BY <1>1 DEF BatchType
  <2> QED
    BY <1>3, <2>2, <2>3, WriteEntryInv DEF CacheCreate
<1>4. ASSUME NEW op \in Todo.move, CacheMove(op)
      PROVE  Inv'
  <2>1. op.id \in FolderIds /\ op.father \in Ids \cup {Root}
    BY <1>1 DEF BatchType, MoveOps
  <2>2. Resolve(op.father, op.fatherType, executor.real) \in Refs
    BY <1>1, <2>1, ResolveType
  <2>3. [entry[op.id] EXCEPT
           !.father = CachedFather(Resolve(op.father, op.fatherType, executor.real))] \in Fields
    BY <1>2, <2>1, <2>2 DEF Fields, Inv, TypeOK
  <2>4. [Todo EXCEPT !.move = @ \ {op}] \in BatchType
    BY <1>1 DEF BatchType
  <2> QED
    BY <1>4, <2>3, <2>4, WriteEntryInv DEF CacheMove
<1>5. ASSUME NEW op \in Todo.rename, CacheRename(op)
      PROVE  Inv'
  <2>1. op.id \in FolderIds /\ op.name \in Names
    BY <1>1 DEF BatchType, RenameOps
  <2>2. [entry[op.id] EXCEPT !.name = op.name] \in Fields
    BY <2>1 DEF Fields, Inv, TypeOK
  <2>3. [Todo EXCEPT !.rename = @ \ {op}] \in BatchType
    BY <1>1 DEF BatchType
  <2> QED
    BY <1>5, <2>2, <2>3, WriteEntryInv DEF CacheRename
<1>6. ASSUME NEW op \in Todo.delete, CacheDelete(op)
      PROVE  Inv'
  <2> DEFINE rest == [Todo EXCEPT !.delete = @ \ {op}]
  <2>1. rest \in BatchType
    BY <1>1 DEF BatchType
  <2>2. [executor EXCEPT !.todo.delete = @ \ {op}] = [executor EXCEPT !.todo = rest]
    BY DEF Inv, TypeOK, Todo
  <2>3. version' \in [FolderIds -> Nat \cup {None}]
    BY <1>6 DEF CacheDelete, Inv, TypeOK
  <2>4. entry' \in [FolderIds -> Fields]
    <3>1. entry \in [FolderIds -> Fields] /\ NoEntry \in Fields
      BY DEF Inv, TypeOK, NoEntry, Fields
    <3> QED
      BY <1>6, <3>1 DEF CacheDelete
  <2> QED
    BY <1>6, <2>1, <2>2, <2>3, <2>4, CacheWrite DEF CacheDelete
<1> QED
  BY <1>3, <1>4, <1>5, <1>6, BumpProjectVersionInv DEF CacheStep

-----------------------------------------------------------------------------
LEMMA NextInv == Inv /\ [Next]_vars => Inv'
<1> SUFFICES ASSUME Inv, [Next]_vars PROVE Inv'
  OBVIOUS
<1>1. CASE \E m \in Members, b \in Batches : Submit(m, b)
  BY <1>1, SubmitInv
<1>2. CASE \E r \in waiting : Start(r)
  BY <1>2, StartInv
<1>3. CASE TablesStep
  BY <1>3, InsertFoldersInv, InsertRelationsInv, FindRelationsInv, DeleteRelationInv,
     CreateRelationsInv, RenameInv, DropRelationsInv, DropFoldersInv, CommitInv DEF TablesStep
<1>4. CASE UNCHANGED vars
  BY <1>4 DEF vars, Inv, TypeOK, IdsInv, NewFoldersInv, MovedFoldersInv, AtMostOneFather,
     MovedTwice, At, Batch
<1> QED
  BY <1>1, <1>2, <1>3, <1>4, FailInv, CacheStepInv, FinishInv DEF Next

LEMMA Invariance == Spec => []Inv
BY InitInv, NextInv, PTL DEF Spec

\* Every variable has its type, whatever the tree, the batches and the failures;
\* in particular the execution under way is that of a request still waiting.
THEOREM TypeCorrect == Spec => []TypeOK
<1>1. Inv => TypeOK
  BY DEF Inv
<1> QED
  BY <1>1, Invariance, PTL

\* Executing approved batches one statement at a time never gives a second father
\* to a folder that no single batch moves twice, for any tree and any batches of
\* the types of the API, and whatever fails and is executed again.
THEOREM OneFather == Spec => []AtMostOneFather
<1>1. Inv => AtMostOneFather
  BY DEF Inv
<1> QED
  BY <1>1, Invariance, PTL

-----------------------------------------------------------------------------
(* What an execution has done so far.  `before` is the tree it began with; *)
(* its statements leave alone what the batch does not name, and what they  *)
(* have written stays until the end.                                       *)

Touched(b) == IdsOf(b.move) \cup IdsOf(b.rename) \cup IdsOf(b.delete)

\* The father of f, by its mounts.
FatherBy(mounts) ==
  IF Cardinality(mounts) = 1
  THEN CHOOSE ref \in {<<row.parentType, row.parent>> : row \in mounts} : TRUE
  ELSE FolderRef(0)
FatherOf(f) == FatherBy(MountsOf(f))

MovedRow(op) == Row(Resolve(op.father, op.fatherType, executor.real), op.id)

\* Folders that are yet to be created have numbers that no waiting request names.
OldIds == \A w \in waiting : \A f \in Touched(w.batch) : f < nextId

\* What is left to write in the cache: all of the batch until it is committed,
\* and the deletes as long as there is anything else.
TodoInv ==
  /\ executor.pc \in {"idle", "finish"} => Todo = Nothing
  /\ executor.pc \notin {"idle", "finish", "cache"} => Todo = Batch
  /\ At("cache") =>
       /\ Todo.create \subseteq Batch.create /\ Todo.move \subseteq Batch.move
       /\ Todo.rename \subseteq Batch.rename
       /\ Todo.create \cup Todo.move \cup Todo.rename # {} => Todo.delete = Batch.delete

\* The new folders: numbers of their own, with the names and fathers of the batch.
CreatedInv ==
  /\ executor.pc \notin {"idle", "insertFolders", "finish"} =>
       /\ executor.real \in [TempIdsOf(Batch) -> FolderIds]
       /\ \A x, y \in TempIdsOf(Batch) : executor.real[x] = executor.real[y] => x = y
       /\ \A op \in Batch.create :
            /\ executor.real[op.temp] \in DOMAIN folders \ Touched(Batch)
            /\ folders[executor.real[op.temp]] = op.name
            /\ ~At("insertRelations") => NewRow(op) \in relations
  /\ At("insertFolders") => executor.real = Empty

\* The folders that moved and those that were renamed.
MovedInv ==
  /\ At("deleteRelations") => \A row \in executor.old : row.child \in IdsOf(Batch.move)
  /\ executor.pc \in {"rename", "dropRelations", "dropFolders", "commit", "cache"} =>
       \A op \in Batch.move : op.id \in IdsOf(Batch.delete) \/ MovedRow(op) \in relations
RenamedInv ==
  executor.pc \in {"dropRelations", "dropFolders", "commit", "cache"} =>
    \A op \in Batch.rename : op.id \in DOMAIN folders => folders[op.id] = op.name

\* The others are as they were.
FrameInv ==
  executor.pc \notin {"idle", "cache", "finish"} =>
    /\ DOMAIN folders = (DOMAIN before \cup Made) \ (IF At("commit") THEN IdsOf(Batch.delete) ELSE {})
    /\ Made \cap DOMAIN before = {}
    /\ \A f \in DOMAIN folders \cap DOMAIN before :
         /\ f \notin IdsOf(Batch.rename) => folders[f] = before[f].name
         /\ f \notin IdsOf(Batch.move) \cup IdsOf(Batch.delete) =>
              FatherOf(f) = before[f].father

ExecutionInv == OldIds /\ TodoInv /\ CreatedInv /\ MovedInv /\ RenamedInv /\ FrameInv

-----------------------------------------------------------------------------
(* Trees and stages.                                                       *)

LEMMA TreeFacts ==
  /\ DOMAIN TreeInTables = DOMAIN folders
  /\ \A f \in DOMAIN folders :
       TreeInTables[f] = [name |-> folders[f], father |-> FatherOf(f)]
BY DEF TreeInTables, FatherOf, FatherBy, FathersInTables

LEMMA OnlyMount ==
  ASSUME Inv, NEW ref \in Refs, NEW f \in FolderIds \ MovedTwice, Row(ref, f) \in relations
  PROVE  FatherOf(f) = ref
<1> DEFINE row == Row(ref, f)
<1>1. IsMount(row) /\ row.child = f
  BY RowType
<1>2. MountsOf(f) = {row}
  BY <1>1 DEF Inv, AtMostOneFather, MountsOf
<1>3. Cardinality(MountsOf(f)) = 1
  BY <1>2, FS_Singleton
<1>4. <<row.parentType, row.parent>> = ref
  BY DEF Row, Refs
<1>5. {<<r.parentType, r.parent>> : r \in MountsOf(f)} = {ref}
  BY <1>2, <1>4
<1> QED
  BY <1>3, <1>5 DEF FatherOf, FatherBy

LEMMA NoneMovedTwice ==
  ASSUME Intact
  PROVE  /\ MovedTwice = {}
         /\ \A r \in waiting \cup executed : OncePerFolder(r.batch)
BY DEF Intact, MovedTwice, OncePerFolder

LEMMA StagesSkip ==
  ASSUME NEW b
  PROVE  /\ AfterRename(b) = "commit" => b.delete = {}
         /\ AfterMove(b) # "rename" => b.rename = {} /\ AfterMove(b) = AfterRename(b)
         /\ AfterCreate(b) # "findRelations" => b.move = {} /\ AfterCreate(b) = AfterMove(b)
         /\ FirstStage(b) # "insertFolders" => b.create = {} /\ FirstStage(b) = AfterCreate(b)
BY DEF AfterRename, AfterMove, AfterCreate, FirstStage

LEMMA GoKeeps ==
  ASSUME Inv, NEW stage \in Stages, Go(stage)
  PROVE  /\ executor'.pc = stage /\ executor'.req = executor.req
         /\ executor'.real = executor.real /\ executor'.old = executor.old
         /\ Batch' = Batch /\ Todo' = Todo /\ Made' = Made
BY DEF Go, Inv, TypeOK, Batch, Todo, Made

\* An execution that is over, or has written everything.
LEMMA OverExec ==
  ASSUME Inv, ExecutionInv, executor'.pc \in {"idle", "finish"}, executor'.todo = Nothing,
         nextId' = nextId, waiting' \subseteq waiting
  PROVE  ExecutionInv'
BY DEF ExecutionInv, OldIds, TodoInv, CreatedInv, MovedInv, RenamedInv, FrameInv, At, Todo

LEMMA InitExec == Init => ExecutionInv
BY IdleType DEF Init, ExecutionInv, OldIds, TodoInv, CreatedInv, MovedInv, RenamedInv, FrameInv,
   At, Todo, Idle

LEMMA SubmitExec ==
  ASSUME Inv, ExecutionInv, NEW m \in Members, NEW b \in Batches, Submit(m, b)
  PROVE  ExecutionInv'
<1>1. OldIds'
  <2>1. \A f \in Touched(b) : f < nextId
    BY DEF Submit, Touched, Inv, IdsInv
  <2> QED
    BY <2>1 DEF Submit, tables, ExecutionInv, OldIds
<1>2. UNCHANGED <<folders, relations, executor, before>>
  BY DEF Submit, tables
<1>3. TodoInv' /\ CreatedInv' /\ MovedInv' /\ RenamedInv'
  BY <1>2 DEF ExecutionInv, TodoInv, CreatedInv, MovedInv, RenamedInv, At, Todo, Batch, NewRow,
              MovedRow
<1>4. FrameInv'
  BY <1>2 DEF ExecutionInv, FrameInv, Made, FatherOf, MountsOf, At, Batch
<1> QED
  BY <1>1, <1>3, <1>4 DEF ExecutionInv

LEMMA StartExec ==
  ASSUME Inv, ExecutionInv, NEW r \in waiting, Start(r)
  PROVE  ExecutionInv'
<1>1. r \in RequestType /\ r.batch \in BatchType
  BY BatchFacts DEF Inv, TypeOK, RequestType
<1>2. /\ executor'.pc = FirstStage(r.batch) /\ executor'.req = r /\ executor'.real = Empty
      /\ executor'.todo = r.batch /\ Batch' = r.batch /\ Todo' = r.batch
  BY DEF Start, Idle, Batch, Todo
<1>3. UNCHANGED <<folders, relations, nextId, waiting>> /\ before' = TreeInTables
  BY DEF Start, tables
<1>4. /\ FirstStage(r.batch) \in
           {"insertFolders", "findRelations", "rename", "dropRelations", "commit"}
      /\ FirstStage(r.batch) # "insertFolders" => r.batch.create = {}
      /\ FirstStage(r.batch) \in {"rename", "dropRelations", "commit"} => r.batch.move = {}
      /\ FirstStage(r.batch) \in {"dropRelations", "commit"} => r.batch.rename = {}
      /\ FirstStage(r.batch) = "commit" => r.batch.delete = {}
  BY StagesAfter, StagesSkip
<1>5. OldIds'
  BY <1>3 DEF ExecutionInv, OldIds
<1>6. TodoInv'
  BY <1>2, <1>4 DEF TodoInv, At
<1>7. CreatedInv'
  BY <1>2, <1>4 DEF CreatedInv, At, TempIdsOf, Empty
<1>8. MovedInv' /\ RenamedInv'
  BY <1>2, <1>4 DEF MovedInv, RenamedInv, At
<1>9. FrameInv'
  <2>1. Made' = {}
    BY <1>2 DEF Made, Empty
  <2>2. DOMAIN folders' = DOMAIN before'
    BY <1>3, TreeFacts
  <2>3. executor'.pc = "commit" => IdsOf(Batch') = IdsOf(Batch') /\ Batch'.delete = {}
    BY <1>2, <1>4
  <2>4. At("commit")' => IdsOf(Batch.delete)' = {}
    BY <2>3 DEF At, IdsOf
  <2>5. \A f \in DOMAIN folders :
          before'[f].name = folders[f] /\ before'[f].father = FatherOf(f)
    BY <1>3, TreeFacts
  <2>6. \A f : FatherOf(f)' = FatherOf(f)
    BY <1>3 DEF FatherOf, MountsOf
  <2> QED
    BY <1>3, <2>1, <2>2, <2>4, <2>5, <2>6 DEF FrameInv
<1> QED
  BY <1>5, <1>6, <1>7, <1>8, <1>9 DEF ExecutionInv

LEMMA GiveUpExec ==
  ASSUME Inv, ExecutionInv, GiveUp, nextId' = nextId, waiting' = waiting
  PROVE  ExecutionInv'
BY OverExec, IdleType DEF GiveUp, Idle

\* A statement that leaves alone the folders the batch does not name.
LEMMA FrameStep ==
  ASSUME ExecutionInv, executor.pc \notin {"idle", "cache", "finish", "commit"},
         Batch' = Batch, Made' = Made, before' = before,
         executor'.pc = "commit" => Batch.delete = {},
         DOMAIN folders' = DOMAIN folders,
         \A f \in DOMAIN folders : f \notin IdsOf(Batch.rename) => folders'[f] = folders[f],
         \A f \in DOMAIN before :
            f \notin IdsOf(Batch.move) \cup IdsOf(Batch.delete) => MountsOf(f)' = MountsOf(f)
  PROVE  FrameInv'
<1>1. At("commit")' => IdsOf(Batch.delete) = {}
  BY DEF At, IdsOf
<1>2. /\ DOMAIN folders = DOMAIN before \cup Made /\ Made \cap DOMAIN before = {}
      /\ \A f \in DOMAIN folders \cap DOMAIN before :
           /\ f \notin IdsOf(Batch.rename) => folders[f] = before[f].name
           /\ f \notin IdsOf(Batch.move) \cup IdsOf(Batch.delete) => FatherOf(f) = before[f].father
  BY DEF ExecutionInv, FrameInv, At
<1>3. \A f \in DOMAIN before :
        f \notin IdsOf(Batch.move) \cup IdsOf(Batch.delete) => FatherOf(f)' = FatherOf(f)
  BY DEF FatherOf
<1> QED
  BY <1>1, <1>2, <1>3 DEF FrameInv

LEMMA InsertFoldersExec ==
  ASSUME Inv, ExecutionInv, InsertFolders
  PROVE  ExecutionInv'
<1> DEFINE new == nextId .. (nextId + Cardinality(Batch.create) - 1)
<1>1. Batch \in Batches /\ Batch \in BatchType /\ executor.req \in waiting
  BY BusyBatch, BatchFacts DEF InsertFolders, At, Inv
<1>2. Cardinality(Batch.create) \in Nat /\ nextId \in Nat
  BY <1>1, BatchFacts, FS_CardinalityType DEF Inv, TypeOK
<1>3. PICK real \in Numberings(Batch, (FolderIds \cup TempIds) \ new) :
        /\ new \subseteq FolderIds
        /\ folders' = [f \in DOMAIN folders \cup {real[op.temp] : op \in Batch.create} |->
              IF \E op \in Batch.create : real[op.temp] = f
              THEN (CHOOSE op \in Batch.create : real[op.temp] = f).name
              ELSE folders[f]]
        /\ executor' = [executor EXCEPT !.pc = "insertRelations", !.real = real]
  BY DEF InsertFolders
<1>4. /\ real \in [TempIdsOf(Batch) -> new]
      /\ \A x, y \in TempIdsOf(Batch) : real[x] = real[y] => x = y
  BY <1>3 DEF Numberings
<1>5. /\ nextId' = nextId + Cardinality(Batch.create)
      /\ UNCHANGED <<relations, waiting, before>>
  BY DEF InsertFolders
<1>6. /\ executor'.pc = "insertRelations" /\ executor'.real = real
      /\ Batch' = Batch /\ Todo' = Todo
  BY <1>3 DEF Inv, TypeOK, Batch, Todo
<1>7. \A x \in TempIdsOf(Batch) :
        /\ real[x] \in FolderIds /\ real[x] \notin DOMAIN folders
        /\ real[x] \notin Touched(Batch)
  <2> SUFFICES ASSUME NEW x \in TempIdsOf(Batch)
               PROVE  /\ real[x] \in FolderIds /\ real[x] \notin DOMAIN folders
                      /\ real[x] \notin Touched(Batch)
    OBVIOUS
  <2>1. real[x] \in FolderIds /\ real[x] \in Nat /\ nextId <= real[x]
    BY <1>2, <1>3, <1>4, ConstantsAssumption
  <2>2. \A f \in DOMAIN folders : f < nextId /\ f \in Nat
    BY ConstantsAssumption DEF Inv, IdsInv, TypeOK
  <2>3. \A f \in Touched(Batch) : f < nextId
    BY <1>1 DEF ExecutionInv, OldIds, Batch
  <2> QED
    BY <1>2, <2>1, <2>2, <2>3
<1>8. {real[op.temp] : op \in Batch.create} = {real[x] : x \in TempIdsOf(Batch)}
  BY DEF TempIdsOf
<1>9. OldIds'
  <2>1. \A w \in waiting : \A f \in Touched(w.batch) : f \in Nat
    <3>1. \A w \in waiting : w.batch \in BatchType
      BY BatchFacts DEF Inv, TypeOK, RequestType
    <3>2. \A b \in BatchType : Touched(b) \subseteq FolderIds
      BY DEF BatchType, Touched, IdsOf, MoveOps, RenameOps, DeleteOps
    <3> QED
      BY <3>1, <3>2, ConstantsAssumption
  <2>2. \A f \in Nat : f < nextId => f < nextId'
    BY <1>2, <1>5
  <2> QED
    BY <1>5, <2>1, <2>2 DEF ExecutionInv, OldIds
<1>10. TodoInv'
  BY <1>6 DEF InsertFolders, ExecutionInv, TodoInv, At
<1>11. CreatedInv'
  <2>1. real \in [TempIdsOf(Batch) -> FolderIds]
    BY <1>4, <1>7
  <2>2. ASSUME NEW op \in Batch.create
        PROVE  /\ real[op.temp] \in DOMAIN folders' \ Touched(Batch)
               /\ folders'[real[op.temp]] = op.name
    <3>1. op.temp \in TempIdsOf(Batch)
      BY DEF TempIdsOf
    <3>2. real[op.temp] \in DOMAIN folders'
      BY <1>3
    <3>3. PICK o \in Batch.create : real[o.temp] = real[op.temp] /\ folders'[real[op.temp]] = o.name
      <4>1. \E o \in Batch.create : real[o.temp] = real[op.temp]
        OBVIOUS
      <4> QED
        BY <1>3, <3>2, <4>1
    <3>4. o.temp = op.temp
      BY <1>4, <3>1, <3>3 DEF TempIdsOf
    <3>5. o = op
      BY <1>1, <3>4, BatchFacts DEF OneEach
    <3> QED
      BY <1>7, <3>1, <3>2, <3>3, <3>5
  <2> QED
    BY <1>4, <1>6, <2>1, <2>2 DEF CreatedInv, At
<1>12. MovedInv' /\ RenamedInv'
  BY <1>6 DEF MovedInv, RenamedInv, At
<1>13. FrameInv'
  <2>1. /\ DOMAIN folders = DOMAIN before
        /\ \A f \in DOMAIN folders :
             /\ f \notin IdsOf(Batch.rename) => folders[f] = before[f].name
             /\ f \notin IdsOf(Batch.move) \cup IdsOf(Batch.delete) => FatherOf(f) = before[f].father
    <3>1. Made = {}
      BY DEF InsertFolders, ExecutionInv, CreatedInv, Made, Empty
    <3> QED
      BY <3>1 DEF InsertFolders, ExecutionInv, FrameInv, At
  <2>2. Made' = {real[x] : x \in TempIdsOf(Batch)}
    BY <1>4, <1>6 DEF Made
  <2>3. DOMAIN folders' = DOMAIN before \cup Made'
    BY <1>3, <1>8, <2>1, <2>2
  <2>4. Made' \cap DOMAIN before = {}
    BY <1>7, <2>1, <2>2
  <2>5. \A f \in DOMAIN before : folders'[f] = folders[f]
    <3>1. \A f \in DOMAIN before : ~\E op \in Batch.create : real[op.temp] = f
      BY <1>8, <2>2, <2>4
    <3> QED
      BY <1>3, <2>1, <3>1
  <2>6. \A f : FatherOf(f)' = FatherOf(f)
    BY <1>5 DEF FatherOf, MountsOf
  <2> QED
    BY <1>5, <1>6, <2>1, <2>3, <2>4, <2>5, <2>6 DEF FrameInv, At
<1> QED
  BY <1>9, <1>10, <1>11, <1>12, <1>13 DEF ExecutionInv

LEMMA InsertRelationsExec ==
  ASSUME Inv, ExecutionInv, InsertRelations
  PROVE  ExecutionInv'
<1>1. Batch \in BatchType
  BY BusyBatch, BatchFacts DEF InsertRelations, At, Inv
<1>2. /\ executor'.pc = AfterCreate(Batch) /\ executor'.real = executor.real
      /\ executor'.req = executor.req /\ Batch' = Batch /\ Todo' = Todo /\ Made' = Made
  <2>1. AfterCreate(Batch) \in Stages
    BY StagesAfter DEF Stages
  <2> QED
    BY <2>1, GoKeeps DEF InsertRelations
<1>3. /\ relations' = relations \cup {NewRow(op) : op \in Batch.create}
      /\ UNCHANGED <<folders, nextId, waiting, before>>
  BY DEF InsertRelations
<1>4. /\ AfterCreate(Batch) \in {"findRelations", "rename", "dropRelations", "commit"}
      /\ AfterCreate(Batch) \in {"rename", "dropRelations", "commit"} => Batch.move = {}
      /\ AfterCreate(Batch) \in {"dropRelations", "commit"} => Batch.rename = {}
      /\ AfterCreate(Batch) = "commit" => Batch.delete = {}
  BY StagesAfter, StagesSkip
<1>5. OldIds'
  BY <1>3 DEF ExecutionInv, OldIds
<1>6. TodoInv'
  BY <1>2, <1>4 DEF InsertRelations, ExecutionInv, TodoInv, At
<1>7. CreatedInv'
  <2>1. \A op : NewRow(op)' = NewRow(op)
    BY <1>2 DEF NewRow
  <2> QED
    BY <1>2, <1>3, <1>4, <2>1 DEF InsertRelations, ExecutionInv, CreatedInv, At
<1>8. MovedInv' /\ RenamedInv'
  BY <1>2, <1>4 DEF MovedInv, RenamedInv, At
<1>9. FrameInv'
  <2>1. \A op \in Batch.create : NewRow(op).child \in Made
    <3>1. \A op \in Batch.create : NewRow(op).child = executor.real[op.temp]
      BY DEF NewRow, Row
    <3>2. \A op \in Batch.create : op.temp \in DOMAIN executor.real
      BY DEF InsertRelations, ExecutionInv, CreatedInv, At, TempIdsOf
    <3> QED
      BY <3>1, <3>2 DEF Made
  <2>2. Made \cap DOMAIN before = {}
    BY DEF InsertRelations, ExecutionInv, FrameInv, At
  <2>3. \A f \in DOMAIN before : MountsOf(f)' = MountsOf(f)
    BY <1>3, <2>1, <2>2 DEF MountsOf
  <2> QED
    BY <1>2, <1>3, <1>4, <2>3, FrameStep DEF InsertRelations, At
<1> QED
  BY <1>5, <1>6, <1>7, <1>8, <1>9 DEF ExecutionInv

LEMMA FindRelationsExec ==
  ASSUME Inv, ExecutionInv, FindRelations
  PROVE  ExecutionInv'
<1>1. /\ executor'.pc \in {"createRelations", "deleteRelations"} /\ executor'.old = OldMounts
      /\ executor'.real = executor.real /\ executor'.req = executor.req
      /\ Batch' = Batch /\ Todo' = Todo /\ Made' = Made
  BY DEF FindRelations, Inv, TypeOK, Batch, Todo, Made
<1>2. UNCHANGED <<folders, relations, nextId, waiting, before>>
  BY DEF FindRelations, tables
<1>3. OldIds' /\ TodoInv'
  BY <1>1, <1>2 DEF FindRelations, ExecutionInv, OldIds, TodoInv, At
<1>4. CreatedInv'
  <2>1. \A op : NewRow(op)' = NewRow(op)
    BY <1>1 DEF NewRow
  <2> QED
    BY <1>1, <1>2, <2>1 DEF FindRelations, ExecutionInv, CreatedInv, At
<1>5. MovedInv' /\ RenamedInv'
  <2>1. \A row \in OldMounts : row.child \in IdsOf(Batch.move)
    BY DEF OldMounts, MountsOf
  <2> QED
    BY <1>1, <2>1 DEF MovedInv, RenamedInv, At
<1>6. FrameInv'
  <2>1. \A f : MountsOf(f)' = MountsOf(f)
    BY <1>2 DEF MountsOf
  <2> QED
    BY <1>1, <1>2, <2>1, FrameStep DEF FindRelations, At
<1> QED
  BY <1>3, <1>4, <1>5, <1>6 DEF ExecutionInv

LEMMA DeleteRelationExec ==
  ASSUME Inv, ExecutionInv, NEW row \in executor.old, DeleteRelation(row)
  PROVE  ExecutionInv'
<1>1. /\ executor'.pc \in {"createRelations", "deleteRelations"}
      /\ executor'.old = executor.old \ {row}
      /\ executor'.real = executor.real /\ executor'.req = executor.req
      /\ Batch' = Batch /\ Todo' = Todo /\ Made' = Made
  BY DEF DeleteRelation, Inv, TypeOK, Batch, Todo, Made
<1>2. /\ relations' = relations \ SamePair(row)
      /\ UNCHANGED <<folders, nextId, waiting, before>>
  BY DEF DeleteRelation
<1>3. row.child \in IdsOf(Batch.move)
  BY DEF DeleteRelation, ExecutionInv, MovedInv
<1>4. OldIds' /\ TodoInv'
  BY <1>1, <1>2 DEF DeleteRelation, ExecutionInv, OldIds, TodoInv, At
<1>5. CreatedInv'
  <2>1. \A op \in Batch.create : NewRow(op)' = NewRow(op)
    BY <1>1 DEF NewRow
  <2>2. \A op \in Batch.create :
          /\ executor.real[op.temp] \in DOMAIN folders \ Touched(Batch)
          /\ NewRow(op) \in relations
    BY DEF DeleteRelation, ExecutionInv, CreatedInv, At
  <2>3. \A op \in Batch.create : NewRow(op).child = executor.real[op.temp]
    BY DEF NewRow, Row
  <2>4. \A op \in Batch.create : NewRow(op) \in relations'
    BY <1>2, <1>3, <2>2, <2>3 DEF SamePair, Touched
  <2> QED
    BY <1>1, <1>2, <2>1, <2>4 DEF DeleteRelation, ExecutionInv, CreatedInv, At
<1>6. MovedInv' /\ RenamedInv'
  BY <1>1 DEF DeleteRelation, ExecutionInv, MovedInv, RenamedInv, At
<1>7. FrameInv'
  <2>1. \A f : f \notin IdsOf(Batch.move) => MountsOf(f)' = MountsOf(f)
    BY <1>2, <1>3 DEF MountsOf, SamePair
  <2> QED
    BY <1>1, <1>2, <2>1, FrameStep DEF DeleteRelation, At
<1> QED
  BY <1>4, <1>5, <1>6, <1>7 DEF ExecutionInv

LEMMA CreateRelationsExec ==
  ASSUME Inv, ExecutionInv, CreateRelations
  PROVE  ExecutionInv'
<1>1. /\ executor'.pc = AfterMove(Batch) /\ executor'.real = executor.real
      /\ executor'.req = executor.req /\ Batch' = Batch /\ Todo' = Todo /\ Made' = Made
  <2>1. AfterMove(Batch) \in Stages
    BY StagesAfter DEF Stages
  <2> QED
    BY <2>1, GoKeeps DEF CreateRelations
<1>2. /\ relations' = relations \cup {MovedRow(op) : op \in Batch.move}
      /\ UNCHANGED <<folders, nextId, waiting, before>>
  BY DEF CreateRelations, MovedRow
<1>3. /\ AfterMove(Batch) \in {"rename", "dropRelations", "commit"}
      /\ AfterMove(Batch) \in {"dropRelations", "commit"} => Batch.rename = {}
      /\ AfterMove(Batch) = "commit" => Batch.delete = {}
  BY StagesAfter, StagesSkip
<1>4. OldIds' /\ TodoInv'
  BY <1>1, <1>2, <1>3 DEF CreateRelations, ExecutionInv, OldIds, TodoInv, At
<1>5. CreatedInv'
  <2>1. \A op : NewRow(op)' = NewRow(op)
    BY <1>1 DEF NewRow
  <2> QED
    BY <1>1, <1>2, <1>3, <2>1 DEF CreateRelations, ExecutionInv, CreatedInv, At
<1>6. MovedInv' /\ RenamedInv'
  <2>1. \A op : MovedRow(op)' = MovedRow(op)
    BY <1>1 DEF MovedRow
  <2> QED
    BY <1>1, <1>2, <1>3, <2>1 DEF MovedInv, RenamedInv, At
<1>7. FrameInv'
  <2>1. \A op \in Batch.move : MovedRow(op).child \in IdsOf(Batch.move)
    BY DEF MovedRow, Row, IdsOf
  <2>2. \A f : f \notin IdsOf(Batch.move) => MountsOf(f)' = MountsOf(f)
    BY <1>2, <2>1 DEF MountsOf
  <2> QED
    BY <1>1, <1>2, <1>3, <2>2, FrameStep DEF CreateRelations, At
<1> QED
  BY <1>4, <1>5, <1>6, <1>7 DEF ExecutionInv

LEMMA RenameExec ==
  ASSUME Inv, ExecutionInv, Rename
  PROVE  ExecutionInv'
<1> DEFINE found == IdsOf(Batch.rename) \cap DOMAIN folders
<1>1. CASE found = {}
  BY <1>1, GiveUpExec DEF Rename
<1>2. CASE found # {}
  <2>1. /\ folders' = [f \in DOMAIN folders |->
                         IF f \in found THEN (CHOOSE op \in Batch.rename : op.id = f).name
                         ELSE folders[f]]
        /\ Go(AfterRename(Batch))
        /\ UNCHANGED <<relations, nextId, waiting, before>>
    BY <1>2 DEF Rename
  <2>2. /\ executor'.pc = AfterRename(Batch) /\ executor'.real = executor.real
        /\ executor'.req = executor.req /\ Batch' = Batch /\ Todo' = Todo /\ Made' = Made
    <3>1. AfterRename(Batch) \in Stages
      BY StagesAfter DEF Stages
    <3> QED
      BY <2>1, <3>1, GoKeeps
  <2>3. /\ AfterRename(Batch) \in {"dropRelations", "commit"}
        /\ AfterRename(Batch) = "commit" => Batch.delete = {}
    BY StagesAfter, StagesSkip
  <2>4. DOMAIN folders' = DOMAIN folders
        /\ \A f \in DOMAIN folders : f \notin IdsOf(Batch.rename) => folders'[f] = folders[f]
    BY <2>1
  <2>5. OldIds' /\ TodoInv'
    BY <2>1, <2>2, <2>3 DEF Rename, ExecutionInv, OldIds, TodoInv, At
  <2>6. CreatedInv'
    <3>1. \A op : NewRow(op)' = NewRow(op)
      BY <2>2 DEF NewRow
    <3>2. executor.pc = "rename"
      BY DEF Rename, At
    <3> QED
      BY <2>1, <2>2, <2>3, <2>4, <3>1, <3>2 DEF ExecutionInv, CreatedInv, At, Touched
  <2>7. MovedInv'
    <3>1. \A op : MovedRow(op)' = MovedRow(op)
      BY <2>2 DEF MovedRow
    <3> QED
      BY <2>1, <2>2, <2>3, <3>1 DEF Rename, ExecutionInv, MovedInv, At
  <2>8. RenamedInv'
    <3> SUFFICES ASSUME NEW op \in Batch.rename, op.id \in DOMAIN folders
                 PROVE  folders'[op.id] = op.name
      BY <2>2, <2>4 DEF RenamedInv
    <3>1. OneEach(Batch)
      BY BusyBatch, BatchFacts DEF Rename, At, Inv
    <3>2. op.id \in found
      BY DEF IdsOf
    <3>3. (CHOOSE o \in Batch.rename : o.id = op.id) = op
      BY <3>1 DEF OneEach
    <3> QED
      BY <2>1, <3>2, <3>3
  <2>9. FrameInv'
    <3>1. \A f : MountsOf(f)' = MountsOf(f)
      BY <2>1 DEF MountsOf
    <3> QED
      BY <2>1, <2>2, <2>3, <2>4, <3>1, FrameStep DEF Rename, At
  <2> QED
    BY <2>5, <2>6, <2>7, <2>8, <2>9 DEF ExecutionInv
<1> QED
  BY <1>1, <1>2

LEMMA DropRelationsExec ==
  ASSUME Inv, ExecutionInv, DropRelations
  PROVE  ExecutionInv'
<1>1. /\ executor'.pc = "dropFolders" /\ executor'.real = executor.real
      /\ executor'.req = executor.req /\ Batch' = Batch /\ Todo' = Todo /\ Made' = Made
  BY GoKeeps DEF DropRelations, Stages
<1>2. /\ relations' = relations \ MountedAs(IdsOf(Batch.delete))
      /\ UNCHANGED <<folders, nextId, waiting, before>>
  BY DEF DropRelations
<1>3. OldIds' /\ TodoInv' /\ RenamedInv'
  BY <1>1, <1>2 DEF DropRelations, ExecutionInv, OldIds, TodoInv, RenamedInv, At
<1>4. CreatedInv'
  <2>1. \A op \in Batch.create : NewRow(op)' = NewRow(op)
    BY <1>1 DEF NewRow
  <2>2. \A op \in Batch.create :
          /\ executor.real[op.temp] \in DOMAIN folders \ Touched(Batch)
          /\ NewRow(op) \in relations
    BY DEF DropRelations, ExecutionInv, CreatedInv, At
  <2>3. \A op \in Batch.create : NewRow(op).child = executor.real[op.temp]
    BY DEF NewRow, Row
  <2>4. \A op \in Batch.create : NewRow(op) \in relations'
    BY <1>2, <2>2, <2>3 DEF MountedAs, Touched
  <2> QED
    BY <1>1, <1>2, <2>1, <2>4 DEF DropRelations, ExecutionInv, CreatedInv, At
<1>5. MovedInv'
  <2>1. \A op : MovedRow(op)' = MovedRow(op) /\ MovedRow(op).child = op.id
    BY <1>1 DEF MovedRow, Row
  <2>2. \A op \in Batch.move : op.id \in IdsOf(Batch.delete) \/ MovedRow(op) \in relations
    BY DEF DropRelations, ExecutionInv, MovedInv, At
  <2>3. \A op \in Batch.move : op.id \in IdsOf(Batch.delete) \/ MovedRow(op) \in relations'
    BY <1>2, <2>1, <2>2 DEF MountedAs
  <2> QED
    BY <1>1, <2>1, <2>3 DEF MovedInv, At
<1>6. FrameInv'
  <2>1. \A f : f \notin IdsOf(Batch.delete) => MountsOf(f)' = MountsOf(f)
    BY <1>2 DEF MountsOf, MountedAs
  <2> QED
    BY <1>1, <1>2, <2>1, FrameStep DEF DropRelations, At
<1> QED
  BY <1>3, <1>4, <1>5, <1>6 DEF ExecutionInv

LEMMA DropFoldersExec ==
  ASSUME Inv, ExecutionInv, DropFolders
  PROVE  ExecutionInv'
<1>1. /\ executor'.pc = "commit" /\ executor'.real = executor.real
      /\ executor'.req = executor.req /\ Batch' = Batch /\ Todo' = Todo /\ Made' = Made
  BY GoKeeps DEF DropFolders, Stages
<1>2. /\ folders' = [f \in DOMAIN folders \ IdsOf(Batch.delete) |-> folders[f]]
      /\ UNCHANGED <<relations, nextId, waiting, before>>
  BY DEF DropFolders
<1>3. OldIds' /\ TodoInv'
  BY <1>1, <1>2 DEF DropFolders, ExecutionInv, OldIds, TodoInv, At
<1>4. CreatedInv'
  <2>1. \A op \in Batch.create : NewRow(op)' = NewRow(op)
    BY <1>1 DEF NewRow
  <2>2. \A op \in Batch.create :
          /\ executor.real[op.temp] \in DOMAIN folders \ Touched(Batch)
          /\ folders[executor.real[op.temp]] = op.name
          /\ NewRow(op) \in relations
    BY DEF DropFolders, ExecutionInv, CreatedInv, At
  <2>3. \A op \in Batch.create :
          /\ executor.real[op.temp] \in DOMAIN folders' \ Touched(Batch)
          /\ folders'[executor.real[op.temp]] = op.name
    BY <1>2, <2>2 DEF Touched
  <2> QED
    BY <1>1, <1>2, <2>1, <2>2, <2>3 DEF DropFolders, ExecutionInv, CreatedInv, At
<1>5. MovedInv' /\ RenamedInv'
  <2>1. \A op : MovedRow(op)' = MovedRow(op)
    BY <1>1 DEF MovedRow
  <2> QED
    BY <1>1, <1>2, <2>1 DEF DropFolders, ExecutionInv, MovedInv, RenamedInv, At
<1>6. FrameInv'
  <2>1. \A f : FatherOf(f)' = FatherOf(f)
    BY <1>2 DEF FatherOf, MountsOf
  <2>2. /\ DOMAIN folders = DOMAIN before \cup Made /\ Made \cap DOMAIN before = {}
        /\ \A f \in DOMAIN folders \cap DOMAIN before :
             /\ f \notin IdsOf(Batch.rename) => folders[f] = before[f].name
             /\ f \notin IdsOf(Batch.move) \cup IdsOf(Batch.delete) => FatherOf(f) = before[f].father
    BY DEF DropFolders, ExecutionInv, FrameInv, At
  <2>3. /\ DOMAIN folders' = DOMAIN folders \ IdsOf(Batch.delete)
        /\ \A f \in DOMAIN folders' : folders'[f] = folders[f]
    BY <1>2
  <2> QED
    BY <1>1, <1>2, <2>1, <2>2, <2>3 DEF FrameInv, At
<1> QED
  BY <1>3, <1>4, <1>5, <1>6 DEF ExecutionInv

LEMMA CommitExec ==
  ASSUME Inv, ExecutionInv, Commit
  PROVE  ExecutionInv'
<1>1. /\ executor'.pc = "cache" /\ executor'.real = executor.real
      /\ executor'.req = executor.req /\ Batch' = Batch /\ Todo' = Todo
  BY GoKeeps DEF Commit, Stages
<1>2. UNCHANGED <<folders, relations, nextId, waiting>>
  BY DEF Commit, tables
<1>3. \A op : NewRow(op)' = NewRow(op) /\ MovedRow(op)' = MovedRow(op)
  BY <1>1 DEF NewRow, MovedRow
<1>4. OldIds' /\ TodoInv'
  BY <1>1, <1>2 DEF Commit, ExecutionInv, OldIds, TodoInv, At
<1>5. CreatedInv' /\ MovedInv' /\ RenamedInv'
  BY <1>1, <1>2, <1>3 DEF Commit, ExecutionInv, CreatedInv, MovedInv, RenamedInv, At
<1>6. FrameInv'
  BY <1>1 DEF FrameInv
<1> QED
  BY <1>4, <1>5, <1>6 DEF ExecutionInv

\* One more operation is written to the cache.
LEMMA CachedExec ==
  ASSUME Inv, ExecutionInv, At("cache"), NEW rest,
         UNCHANGED <<tables, waiting, before>>,
         executor' = [executor EXCEPT !.todo = rest],
         rest.create \subseteq Todo.create, rest.move \subseteq Todo.move,
         rest.rename \subseteq Todo.rename,
         rest.create \cup rest.move \cup rest.rename # {} => rest.delete = Todo.delete
  PROVE  ExecutionInv'
<1>1. /\ executor'.pc = "cache" /\ executor'.real = executor.real
      /\ executor'.req = executor.req /\ Batch' = Batch /\ Todo' = rest
  BY DEF Inv, TypeOK, At, Batch, Todo
<1>2. UNCHANGED <<folders, relations, nextId, waiting>>
  BY DEF tables
<1>3. \A op : NewRow(op)' = NewRow(op) /\ MovedRow(op)' = MovedRow(op)
  BY <1>1 DEF NewRow, MovedRow
<1>4. OldIds' /\ TodoInv'
  BY <1>1, <1>2 DEF ExecutionInv, OldIds, TodoInv, At
<1>5. CreatedInv' /\ MovedInv' /\ RenamedInv'
  BY <1>1, <1>2, <1>3 DEF ExecutionInv, CreatedInv, MovedInv, RenamedInv, At
<1>6. FrameInv'
  BY <1>1 DEF FrameInv
<1> QED
  BY <1>4, <1>5, <1>6 DEF ExecutionInv

LEMMA CacheStepExec ==
  ASSUME Inv, ExecutionInv, CacheStep
  PROVE  ExecutionInv'
<1>1. Todo \in BatchType
  BY DEF Inv, TypeOK, Todo
<1>2. ASSUME NEW f, NEW fields, NEW op, NEW k \in {"create", "move", "rename"},
             WriteEntry(f, fields, [Todo EXCEPT ![k] = @ \ {op}])
      PROVE  ExecutionInv'
  <2> DEFINE rest == [Todo EXCEPT ![k] = @ \ {op}]
  <2>1. /\ rest.create \subseteq Todo.create /\ rest.move \subseteq Todo.move
        /\ rest.rename \subseteq Todo.rename /\ rest.delete = Todo.delete
    BY <1>1 DEF BatchType
  <2>2. CASE executor' = [executor EXCEPT !.todo = rest]
    BY <1>2, <2>1, <2>2, CachedExec DEF WriteEntry
  <2>3. CASE GiveUp
    BY <1>2, <2>3, GiveUpExec DEF WriteEntry, tables
  <2> QED
    BY <1>2, <2>2, <2>3 DEF WriteEntry
<1>3. ASSUME NEW op \in Todo.delete, CacheDelete(op)
      PROVE  ExecutionInv'
  <2> DEFINE rest == [Todo EXCEPT !.delete = @ \ {op}]
  <2>1. [executor EXCEPT !.todo.delete = @ \ {op}] = [executor EXCEPT !.todo = rest]
    BY DEF Inv, TypeOK, Todo
  <2>2. rest.create = {} /\ rest.move = {} /\ rest.rename = {}
    BY <1>1, <1>3 DEF CacheDelete, BatchType
  <2>3. CASE executor' = [executor EXCEPT !.todo = rest]
    BY <1>3, <2>2, <2>3, CachedExec DEF CacheDelete
  <2>4. CASE GiveUp
    BY <1>3, <2>4, GiveUpExec DEF CacheDelete, tables
  <2> QED
    BY <1>3, <2>1, <2>3, <2>4 DEF CacheDelete
<1>4. CASE BumpProjectVersion
  <2>1. executor'.pc = "finish" /\ executor'.todo = Nothing
    BY <1>4 DEF BumpProjectVersion, Go, Inv, TypeOK, Todo
  <2> QED
    BY <1>4, <2>1, OverExec DEF BumpProjectVersion, tables
<1> QED
  BY <1>2, <1>3, <1>4 DEF CacheStep, CacheCreate, CacheMove, CacheRename

LEMMA NextExec == Inv /\ ExecutionInv /\ [Next]_vars => ExecutionInv'
<1> SUFFICES ASSUME Inv, ExecutionInv, [Next]_vars PROVE ExecutionInv'
  OBVIOUS
<1>1. CASE \E m \in Members, b \in Batches : Submit(m, b)
  BY <1>1, SubmitExec
<1>2. CASE \E r \in waiting : Start(r)
  BY <1>2, StartExec
<1>3. CASE Fail
  BY <1>3, GiveUpExec DEF Fail, tables
<1>4. CASE TablesStep
  BY <1>4, InsertFoldersExec, InsertRelationsExec, FindRelationsExec, DeleteRelationExec,
     CreateRelationsExec, RenameExec, DropRelationsExec, DropFoldersExec, CommitExec DEF TablesStep
<1>5. CASE Finish
  <2>1. executor' = Idle /\ nextId' = nextId /\ waiting' \subseteq waiting
    BY <1>5 DEF Finish, tables
  <2> QED
    BY <2>1, OverExec, IdleType DEF Idle
<1>6. CASE UNCHANGED vars
  <2>1. UNCHANGED <<folders, relations, nextId, waiting, executor, before>>
    BY <1>6 DEF vars
  <2>2. OldIds' /\ TodoInv' /\ CreatedInv' /\ MovedInv' /\ RenamedInv'
    BY <2>1 DEF ExecutionInv, OldIds, TodoInv, CreatedInv, MovedInv, RenamedInv, At, Todo,
                Batch, NewRow, MovedRow
  <2>3. FrameInv'
    BY <2>1 DEF ExecutionInv, FrameInv, Made, FatherOf, MountsOf, At, Batch
  <2> QED
    BY <2>2, <2>3 DEF ExecutionInv
<1> QED
  BY <1>1, <1>2, <1>3, <1>4, <1>5, <1>6, CacheStepExec DEF Next

-----------------------------------------------------------------------------
(* The execution implements AtomicBatches: when the last statement of a    *)
(* batch has been executed, the tables hold the tree that Apply describes. *)

LEMMA CommittedTree ==
  ASSUME Inv, ExecutionInv, At("commit"), Intact
  PROVE  /\ TreeInTables = Apply(before, Batch, executor.real)
         /\ executor.real \in Numberings(Batch, DOMAIN before)
<1> DEFINE real == executor.real
           created == {real[op.temp] : op \in Batch.create}
           renamed(f) == CHOOSE op \in Batch.rename : op.id = f
           moved(f) == CHOOSE o \in Batch.move : o.id = f
           made(f) == CHOOSE op \in Batch.create : real[op.temp] = f
<1>1. /\ Batch \in Batches /\ Batch \in BatchType /\ MovedTwice = {}
      /\ real \in NumberingType
  BY BusyBatch, BatchFacts, NoneMovedTwice DEF At, Inv, TypeOK
<1>2. /\ real \in [TempIdsOf(Batch) -> FolderIds]
      /\ \A x, y \in TempIdsOf(Batch) : real[x] = real[y] => x = y
      /\ \A op \in Batch.create :
           /\ real[op.temp] \in DOMAIN folders \ Touched(Batch)
           /\ folders[real[op.temp]] = op.name
           /\ NewRow(op) \in relations
  BY DEF ExecutionInv, CreatedInv, At
<1>3. \A op \in Batch.move : op.id \in IdsOf(Batch.delete) \/ MovedRow(op) \in relations
  BY DEF ExecutionInv, MovedInv, At
<1>4. \A op \in Batch.rename : op.id \in DOMAIN folders => folders[op.id] = op.name
  BY DEF ExecutionInv, RenamedInv, At
<1>5. /\ DOMAIN folders = (DOMAIN before \cup Made) \ IdsOf(Batch.delete)
      /\ Made \cap DOMAIN before = {}
      /\ \A f \in DOMAIN folders \cap DOMAIN before :
           /\ f \notin IdsOf(Batch.rename) => folders[f] = before[f].name
           /\ f \notin IdsOf(Batch.move) \cup IdsOf(Batch.delete) => FatherOf(f) = before[f].father
  BY DEF ExecutionInv, FrameInv, At
<1>6. Made = created
  BY <1>2 DEF Made, TempIdsOf
<1>7. real \in Numberings(Batch, DOMAIN before)
  BY <1>2, <1>5 DEF Numberings, Made
<1>8. DOMAIN folders \subseteq FolderIds
  BY DEF Inv, TypeOK
<1>9. ASSUME NEW f \in DOMAIN folders
      PROVE  folders[f] = IF f \in IdsOf(Batch.rename) THEN renamed(f).name
                          ELSE IF f \in created THEN made(f).name
                          ELSE before[f].name
  <2>1. CASE f \in IdsOf(Batch.rename)
    <3>1. renamed(f) \in Batch.rename /\ renamed(f).id = f
      BY <2>1 DEF IdsOf
    <3> QED
      BY <1>4, <2>1, <3>1
  <2>2. CASE f \notin IdsOf(Batch.rename) /\ f \in created
    <3>1. made(f) \in Batch.create /\ real[made(f).temp] = f
      BY <2>2
    <3> QED
      BY <1>2, <2>2, <3>1
  <2>3. CASE f \notin IdsOf(Batch.rename) /\ f \notin created
    BY <1>5, <1>6, <2>3
  <2> QED
    BY <2>1, <2>2, <2>3
<1>10. ASSUME NEW f \in DOMAIN folders
       PROVE  FatherOf(f) =
                LET op == IF f \in IdsOf(Batch.move) THEN moved(f) ELSE made(f)
                IN IF f \in IdsOf(Batch.move) \cup created
                   THEN Resolve(op.father, op.fatherType, real)
                   ELSE before[f].father
  <2>1. f \notin IdsOf(Batch.delete)
    BY <1>5
  <2>2. CASE f \in IdsOf(Batch.move)
    <3>1. moved(f) \in Batch.move /\ moved(f).id = f
      BY <2>2 DEF IdsOf
    <3>2. Row(Resolve(moved(f).father, moved(f).fatherType, real), f) \in relations
      BY <1>3, <2>1, <3>1 DEF MovedRow
    <3>3. Resolve(moved(f).father, moved(f).fatherType, real) \in Refs
      BY <1>1, <3>1, ResolveType DEF BatchType, MoveOps
    <3> QED
      BY <1>1, <1>8, <2>2, <3>2, <3>3, OnlyMount
  <2>3. CASE f \notin IdsOf(Batch.move) /\ f \in created
    <3>1. made(f) \in Batch.create /\ real[made(f).temp] = f
      BY <2>3
    <3>2. Row(Resolve(made(f).father, made(f).fatherType, real), f) \in relations
      BY <1>2, <3>1 DEF NewRow
    <3>3. Resolve(made(f).father, made(f).fatherType, real) \in Refs
      BY <1>1, <3>1, ResolveType DEF BatchType, CreateOps
    <3> QED
      BY <1>1, <1>8, <2>3, <3>2, <3>3, OnlyMount
  <2>4. CASE f \notin IdsOf(Batch.move) /\ f \notin created
    BY <1>5, <1>6, <2>1, <2>4
  <2> QED
    BY <2>2, <2>3, <2>4
<1>11. TreeInTables = [f \in DOMAIN folders |-> [name |-> folders[f], father |-> FatherOf(f)]]
  BY DEF TreeInTables, FatherOf, FatherBy, FathersInTables
<1>12. DOMAIN folders = (DOMAIN before \cup created) \ IdsOf(Batch.delete)
  BY <1>5, <1>6
<1>13. TreeInTables = Apply(before, Batch, real)
  BY <1>9, <1>10, <1>11, <1>12 DEF Apply
<1> QED
  BY <1>7, <1>13

\* Requests are numbered, and none is executed again.
HistoryInv ==
  /\ \A r \in waiting \cup executed : r.no < submitted
  /\ waiting \cap executed = {}

LEMMA NextHistory == Inv /\ HistoryInv /\ [Next]_vars => HistoryInv'
<1> SUFFICES ASSUME Inv, HistoryInv, [Next]_vars PROVE HistoryInv'
  OBVIOUS
<1>1. ASSUME NEW m \in Members, NEW b \in Batches, Submit(m, b)
      PROVE  HistoryInv'
  <2> DEFINE w == [no |-> submitted, member |-> m, batch |-> b, early |-> DeletedEarly(b)]
  <2>1. /\ waiting' = waiting \cup {w} /\ submitted' = submitted + 1 /\ executed' = executed
    BY <1>1 DEF Submit
  <2>2. submitted \in Nat /\ \A r \in waiting \cup executed : r.no \in Nat /\ r.no < submitted
    BY DEF Inv, TypeOK, RequestType, HistoryInv
  <2>3. w.no = submitted
    OBVIOUS
  <2> HIDE DEF w
  <2>4. w \notin executed
    BY <2>2, <2>3
  <2>5. \A r \in waiting' \cup executed' : r.no < submitted'
    BY <2>1, <2>2, <2>3
  <2> QED
    BY <2>1, <2>4, <2>5 DEF HistoryInv
<1>2. CASE Finish
  <2>1. executor.req \in waiting
    BY <1>2, BusyBatch DEF Finish, At, Inv
  <2> QED
    BY <1>2, <2>1 DEF Finish, HistoryInv
<1>3. CASE UNCHANGED <<waiting, executed, submitted>>
  BY <1>3 DEF HistoryInv
<1>4. CASE (\E r \in waiting : Start(r)) \/ Fail \/ TablesStep \/ CacheStep
  <2>1. UNCHANGED <<waiting, executed, submitted>>
    BY <1>4 DEF Start, Fail, TablesStep, InsertFolders, InsertRelations, FindRelations,
       DeleteRelation, CreateRelations, Rename, DropRelations, DropFolders, Commit, CacheStep,
       CacheCreate, CacheMove, CacheRename, CacheDelete, WriteEntry, BumpProjectVersion
  <2> QED
    BY <1>3, <2>1
<1> QED
  BY <1>1, <1>2, <1>3, <1>4 DEF Next, vars

TreeSeen == IF Working THEN before ELSE TreeInTables
Requests == waiting \cup executed

CommittedOK == Intact /\ At("commit") =>
                 /\ TreeInTables = Apply(before, Batch, executor.real)
                 /\ executor.real \in Numberings(Batch, DOMAIN before)

\* After a failure, or with a batch that moves a folder twice, every step is one
\* that AtomicBatches allows.
LEMMA DamageStep ==
  ASSUME ~Intact'
  PROVE  Atomic!Next
BY DEF Atomic!Next, Atomic!Damage

\* A step that executes the last statement executes the request.
LEMMA LastStatement ==
  ASSUME Intact, CommittedOK', NEW r \in waiting,
         executor'.pc = "commit", executor'.req = r, before' = TreeSeen,
         r \notin Done, Done' = Done \cup {r}, Requests' = Requests, faults' = faults
  PROVE  Atomic!Next
<1>1. TreeSeen' = TreeInTables' /\ Intact' = TRUE
  BY DEF TreeSeen, Working, Intact, Requests
<1>2. /\ TreeInTables' = Apply(before', r.batch, executor'.real)
      /\ executor'.real \in Numberings(r.batch, DOMAIN before')
  BY <1>1 DEF CommittedOK, At, Batch
<1>3. \E real \in Numberings(r.batch, DOMAIN TreeSeen) : TreeSeen' = Apply(TreeSeen, r.batch, real)
  BY <1>1, <1>2
<1>4. Atomic!Execute(r)
  BY <1>1, <1>3 DEF Atomic!Execute, Atomic!Numberings, Atomic!Apply, Numberings, Apply,
     Atomic!Resolve, Resolve, Atomic!IdsOf, IdsOf, Atomic!TempIdsOf, TempIdsOf,
     Atomic!RootRef, RootRef, Atomic!FolderRef, FolderRef, TreeSeen, Requests
<1> QED
  BY <1>4 DEF Atomic!Next

\* A step that changes neither the tree, the requests, those done nor intactness.
Unseen == UNCHANGED <<TreeSeen, Requests, Done, Intact>>

LEMMA TablesSeen ==
  ASSUME Inv, ExecutionInv, HistoryInv, CommittedOK', Intact, TablesStep
  PROVE  Atomic!Next \/ Unseen
<1>1. /\ executor.req \in waiting /\ executor.req \notin executed
      /\ UNCHANGED <<waiting, executed, before>>
  <2>1. ~At("idle")
    BY DEF TablesStep, InsertFolders, InsertRelations, FindRelations, DeleteRelation,
           CreateRelations, Rename, DropRelations, DropFolders, Commit, At
  <2> QED
    BY <2>1, BusyBatch
       DEF Inv, HistoryInv, TablesStep, InsertFolders, InsertRelations, FindRelations,
           DeleteRelation, CreateRelations, Rename, DropRelations, DropFolders, Commit
<1>2. CASE Commit
  <2>1. executor'.pc = "cache" /\ executor'.req = executor.req
    BY <1>2, GoKeeps DEF Commit, Stages
  <2>2. TreeInTables' = TreeInTables
    BY <1>2 DEF Commit, tables, TreeInTables, FathersInTables, MountsOf
  <2>3. ~Working /\ ~At("idle") /\ ~Working' /\ ~At("idle")'
    BY <1>2, <2>1 DEF Commit, At, Working
  <2>4. TreeSeen' = TreeSeen /\ Requests' = Requests /\ Done' = Done /\ Intact' = Intact
    BY <1>1, <1>2, <2>1, <2>2, <2>3 DEF Commit, TreeSeen, Requests, Done, Intact
  <2> QED
    BY <2>4 DEF Unseen
<1>3. CASE ~Commit
  <2>1. /\ Working
        /\ \/ GiveUp
           \/ /\ executor'.req = executor.req /\ faults' = faults
              /\ executor'.pc \in {"insertRelations", "findRelations", "deleteRelations",
                                   "createRelations", "rename", "dropRelations", "dropFolders",
                                   "commit"}
    <3>1. CASE InsertFolders
      BY <3>1 DEF InsertFolders, At, Working, Inv, TypeOK
    <3>2. CASE InsertRelations
      <4>1. AfterCreate(Batch) \in Stages
        BY StagesAfter DEF Stages
      <4> QED
        BY <3>2, <4>1, GoKeeps, StagesAfter DEF InsertRelations, At, Working
    <3>3. CASE FindRelations \/ \E row \in executor.old : DeleteRelation(row)
      BY <3>3 DEF FindRelations, DeleteRelation, At, Working, Inv, TypeOK
    <3>4. CASE CreateRelations
      <4>1. AfterMove(Batch) \in Stages
        BY StagesAfter DEF Stages
      <4> QED
        BY <3>4, <4>1, GoKeeps, StagesAfter DEF CreateRelations, At, Working
    <3>5. CASE Rename
      <4>1. AfterRename(Batch) \in Stages
        BY StagesAfter DEF Stages
      <4> QED
        BY <3>5, <4>1, GoKeeps, StagesAfter DEF Rename, At, Working
    <3>6. CASE DropRelations \/ DropFolders
      BY <3>6, GoKeeps DEF DropRelations, DropFolders, At, Working, Stages
    <3> QED
      BY <1>3, <3>1, <3>2, <3>3, <3>4, <3>5, <3>6 DEF TablesStep
  <2>2. CASE GiveUp
    BY <2>2, DamageStep DEF GiveUp, Intact, Inv, TypeOK
  <2>3. CASE executor'.pc = "commit" /\ executor'.req = executor.req /\ faults' = faults
    <3>1. before' = TreeSeen /\ Requests' = Requests
      BY <1>1, <2>1 DEF TreeSeen, Requests
    <3>2. Done = executed /\ Done' = executed \cup {executor.req}
      BY <1>1, <2>1, <2>3 DEF Done, Working, At
    <3> QED
      BY <1>1, <2>3, <3>1, <3>2, LastStatement
  <2>4. CASE Working' /\ faults' = faults
    <3>1. TreeSeen' = TreeSeen /\ Requests' = Requests /\ Done' = Done /\ Intact' = Intact
      BY <1>1, <2>1, <2>4 DEF TreeSeen, Requests, Done, Intact
    <3> QED
      BY <3>1 DEF Unseen
  <2> QED
    BY <2>1, <2>2, <2>3, <2>4 DEF Working
<1> QED
  BY <1>2, <1>3

LEMMA OtherSeen ==
  ASSUME Inv, ExecutionInv, HistoryInv, CommittedOK', Intact,
         \/ \E m \in Members, b \in Batches : Submit(m, b)
         \/ \E r \in waiting : Start(r)
         \/ Fail \/ CacheStep \/ Finish
  PROVE  Atomic!Next \/ Unseen
<1>1. CASE \E m \in Members, b \in Batches : Submit(m, b)
  <2>1. UNCHANGED <<folders, relations, executor, before, executed, faults>>
        /\ waiting \subseteq waiting'
    BY <1>1 DEF Submit, tables
  <2>2. TreeInTables' = TreeInTables
    BY <2>1 DEF TreeInTables, FathersInTables, MountsOf
  <2>3. TreeSeen' = TreeSeen /\ Done' = Done
    BY <2>1, <2>2 DEF TreeSeen, Working, Done, At
  <2>4. Requests \subseteq Requests'
    BY <2>1 DEF Requests
  <2>5. CASE Intact'
    BY <2>3, <2>4, <2>5 DEF Atomic!Next, Atomic!Submit, TreeSeen, Requests
  <2> QED
    BY <2>5, DamageStep
<1>2. ASSUME NEW r \in waiting, Start(r)
      PROVE  Atomic!Next \/ Unseen
  <2>1. /\ executor'.pc = FirstStage(r.batch) /\ executor'.req = r
        /\ before' = TreeInTables
        /\ UNCHANGED <<waiting, executed, faults>>
    BY <1>2 DEF Start, Idle
  <2>2. ~Working /\ Done = executed /\ r \notin executed /\ Requests' = Requests
    BY <1>2, <2>1 DEF Start, At, Working, Done, HistoryInv, Requests
  <2>3. FirstStage(r.batch) \in
          {"insertFolders", "findRelations", "rename", "dropRelations", "commit"}
    BY StagesAfter
  <2>4. CASE FirstStage(r.batch) = "commit"
    <3>1. Done' = executed \cup {r}
      BY <2>1, <2>4 DEF Done, Working, At
    <3> QED
      BY <2>1, <2>2, <2>4, <3>1, LastStatement DEF TreeSeen
  <2>5. CASE FirstStage(r.batch) # "commit"
    <3>1. Working'
      BY <2>1, <2>3, <2>5 DEF Working
    <3>2. TreeSeen' = TreeSeen /\ Done' = Done /\ Intact' = Intact
      BY <2>1, <2>2, <3>1 DEF TreeSeen, Done, Intact
    <3> QED
      BY <2>2, <3>2 DEF Unseen
  <2> QED
    BY <2>4, <2>5
<1>3. CASE Fail
  BY <1>3, DamageStep DEF Fail, GiveUp, Intact, Inv, TypeOK
<1>4. CASE CacheStep
  <2>1. /\ At("cache")
        /\ UNCHANGED <<folders, relations, before, waiting, executed>>
        /\ \/ GiveUp
           \/ /\ faults' = faults /\ executor'.req = executor.req
              /\ executor'.pc \in {"cache", "finish"}
    <3>1. ASSUME NEW f, NEW fields, NEW rest, WriteEntry(f, fields, rest)
          PROVE  /\ At("cache")
                 /\ UNCHANGED <<folders, relations, before, waiting, executed>>
                 /\ \/ GiveUp
                    \/ /\ faults' = faults /\ executor'.req = executor.req
                       /\ executor'.pc = "cache"
      BY <3>1 DEF WriteEntry, At, tables, Inv, TypeOK
    <3>2. ASSUME NEW op \in Todo.delete, CacheDelete(op)
          PROVE  /\ At("cache")
                 /\ UNCHANGED <<folders, relations, before, waiting, executed>>
                 /\ \/ GiveUp
                    \/ /\ faults' = faults /\ executor'.req = executor.req
                       /\ executor'.pc = "cache"
      BY <3>2 DEF CacheDelete, At, tables, Inv, TypeOK
    <3>3. CASE BumpProjectVersion
      BY <3>3, GoKeeps DEF BumpProjectVersion, At, tables, Stages
    <3> QED
      BY <1>4, <3>1, <3>2, <3>3 DEF CacheStep, CacheCreate, CacheMove, CacheRename
  <2>2. CASE GiveUp
    BY <2>2, DamageStep DEF GiveUp, Intact, Inv, TypeOK
  <2>3. CASE /\ faults' = faults /\ executor'.req = executor.req
             /\ executor'.pc \in {"cache", "finish"}
    <3>1. TreeInTables' = TreeInTables
      BY <2>1 DEF TreeInTables, FathersInTables, MountsOf
    <3>2. TreeSeen' = TreeSeen /\ Requests' = Requests /\ Done' = Done /\ Intact' = Intact
      BY <2>1, <2>3, <3>1 DEF TreeSeen, Working, Requests, Done, Intact, At
    <3> QED
      BY <3>2 DEF Unseen
  <2> QED
    BY <2>1, <2>2, <2>3
<1>5. CASE Finish
  <2>1. /\ At("finish") /\ executor.req \in waiting
        /\ waiting' = waiting \ {executor.req} /\ executed' = executed \cup {executor.req}
        /\ executor'.pc = "idle" /\ UNCHANGED <<folders, relations, faults>>
    BY <1>5, BusyBatch, IdleType DEF Finish, At, tables, Inv
  <2>2. TreeInTables' = TreeInTables
    BY <2>1 DEF TreeInTables, FathersInTables, MountsOf
  <2>3. TreeSeen' = TreeSeen /\ Requests' = Requests /\ Done' = Done /\ Intact' = Intact
    BY <2>1, <2>2 DEF TreeSeen, Working, Requests, Done, Intact, At
  <2> QED
    BY <2>3 DEF Unseen
<1> QED
  BY <1>1, <1>2, <1>3, <1>4, <1>5

LEMMA Executions == Spec => [](Inv /\ ExecutionInv /\ HistoryInv /\ CommittedOK)
<1> DEFINE I == Inv /\ ExecutionInv /\ HistoryInv
<1>1. Init => I
  BY InitInv, InitExec DEF Init, HistoryInv
<1>2. I /\ [Next]_vars => I'
  BY NextInv, NextExec, NextHistory
<1>3. I => CommittedOK
  BY CommittedTree DEF CommittedOK
<1> QED
  BY <1>1, <1>2, <1>3, PTL DEF Spec

\* Executing a batch one statement at a time, with submissions and failures in
\* between, is executing it in one step: as long as nothing has failed, the tree
\* that each request leaves is the one its operations describe.
THEOREM AtomicExecution == Spec => ImplementsAtomicBatches
<1> DEFINE I == Inv /\ ExecutionInv /\ HistoryInv /\ CommittedOK
           avars == <<TreeSeen, Requests, Done, Intact>>
<1>1. Init => Atomic!Init
  <2> SUFFICES ASSUME Init PROVE Atomic!Init
    OBVIOUS
  <2>1. IsTree(InitialTree) /\ \A f \in DOMAIN InitialTree : InitialTree[f].father \in Refs
    BY ConstantsAssumption
  <2>2. ~Working /\ At("idle") /\ Intact
    BY IdleType DEF Init, Working, At, Intact
  <2>3. /\ DOMAIN TreeInTables = DOMAIN InitialTree
        /\ \A f \in DOMAIN InitialTree : TreeInTables[f].father = InitialTree[f].father
    <3>1. Inv
      BY InitInv
    <3>2. \A f \in DOMAIN InitialTree :
            /\ f \in FolderIds /\ InitialTree[f].father \in Refs
            /\ Row(InitialTree[f].father, f) \in relations
      BY <2>1, ConstantsAssumption DEF Init
    <3>3. \A f \in DOMAIN InitialTree : FatherOf(f) = InitialTree[f].father
      BY <2>2, <3>1, <3>2, NoneMovedTwice, OnlyMount
    <3> QED
      BY <3>3, TreeFacts DEF Init
  <2>4. IsTree(TreeInTables)
    BY <2>1, <2>3 DEF IsTree, HangsTogether, Detached
  <2>5. Atomic!IsTree(TreeSeen)
    BY <2>2, <2>4 DEF TreeSeen, Atomic!IsTree, Atomic!HangsTogether, Atomic!Detached, IsTree,
       HangsTogether, Detached, Atomic!RootRef, RootRef, Atomic!FolderRef, FolderRef
  <2>6. Requests = {} /\ Done = {}
    BY <2>2 DEF Init, Requests, Done
  <2> QED
    BY <2>2, <2>5, <2>6 DEF Atomic!Init, TreeSeen, Requests, Intact
<1>2. I /\ I' /\ [Next]_vars => [Atomic!Next]_avars
  <2> SUFFICES ASSUME I, I', [Next]_vars PROVE Atomic!Next \/ Unseen
    BY DEF Unseen
  <2>1. CASE UNCHANGED vars
    BY <2>1 DEF vars, Unseen, TreeSeen, Working, TreeInTables, FathersInTables, MountsOf,
       Requests, Done, Intact, At
  <2>2. CASE ~Intact /\ Next
    <3>1. faults' = faults \/ faults' = faults + 1
      BY <2>2 DEF Next, Submit, Start, Fail, GiveUp, TablesStep, InsertFolders, InsertRelations,
         FindRelations, DeleteRelation, CreateRelations, Rename, DropRelations, DropFolders,
         Commit, CacheStep, CacheCreate, CacheMove, CacheRename, CacheDelete, WriteEntry,
         BumpProjectVersion, Finish
    <3>2. waiting \cup executed \subseteq waiting' \cup executed'
      BY <2>2 DEF Next, Submit, Start, Fail, TablesStep, InsertFolders, InsertRelations,
         FindRelations, DeleteRelation, CreateRelations, Rename, DropRelations, DropFolders,
         Commit, CacheStep, CacheCreate, CacheMove, CacheRename, CacheDelete, WriteEntry,
         BumpProjectVersion, Finish
    <3>3. ~Intact'
      BY <2>2, <3>1, <3>2 DEF Intact, Inv, TypeOK
    <3> QED
      BY <3>3, DamageStep
  <2>3. CASE Intact /\ Next
    BY <2>3, TablesSeen, OtherSeen DEF Next
  <2> QED
    BY <2>1, <2>2, <2>3
<1> QED
  BY <1>1, <1>2, Executions, PTL
     DEF Spec, ImplementsAtomicBatches, Atomic!Spec, Atomic!vars, TreeSeen, Requests

-----------------------------------------------------------------------------
(* The cache.  That it agrees with the tables between executions depends   *)
(* on every request naming folders that still exist when it is executed,   *)
(* which is what the conflict check is for.                                *)

\* The temporary ids of clients are not ids of folders (ConflictCheck,
\* IdsAreApart): otherwise the check overlooks deletes.
IdsApart == FolderIds \cap TempIds = {}

Unfailed == faults = 0

\* Waiting requests name folders that exist, and none deletes what another names.
ExistInv ==
  /\ \A v, w \in waiting : v # w => IdsOf(v.batch.delete) \cap Touched(w.batch) = {}
  /\ Unfailed => \A w \in waiting : \A f \in Touched(w.batch) :
       \/ f \in DOMAIN folders
       \/ ~At("idle") /\ w = executor.req /\ f \in IdsOf(Batch.delete)

\* The cache agrees with the tables but for what is left to write.
CurrentInv ==
  Unfailed => \A f \in FolderIds \ IdsOf(Todo.delete) :
    /\ entry[f].name # None /\ f \notin IdsOf(Todo.rename) =>
         f \in DOMAIN folders /\ entry[f].name = folders[f]
    /\ entry[f].father # None /\ f \notin IdsOf(Todo.move) =>
         f \in DOMAIN folders /\ Row(entry[f].father, f) \in relations
    /\ version[f] # None => f \in DOMAIN folders

LEMMA ConflictFree ==
  ASSUME IdsApart, NEW b \in BatchType, NEW c \in BatchType, ConflictFolders(b, c) = {}
  PROVE  /\ IdsOf(b.delete) \cap Touched(c) = {}
         /\ IdsOf(c.delete) \cap Touched(b) = {}
<1>1. /\ MoveConflicts(b, c) = {} /\ RenameConflicts(b, c) = {} /\ DeleteConflicts(b, c) = {}
  BY DEF ConflictFolders
<1>2. \A k \in {"move", "rename", "delete"} :
        /\ \A op \in c[k] : op.id \in FolderIds
        /\ \A f : f \in IdsOf(b[k]) => k \in OpsOn(b, f)
  BY DEF BatchType, MoveOps, RenameOps, DeleteOps, OpsOn
<1>3. \A k \in {"move", "rename", "delete"} : Considered(c[k], b) = c[k]
  <2>1. TempIdsOf(b) \subseteq TempIds
    BY DEF TempIdsOf, BatchType, CreateOps
  <2> QED
    BY <1>2, <2>1 DEF Considered, IdsApart
<1>4. IdsOf(c.delete) \cap Touched(b) = {}
  <2>1. \A id \in IdsOf(c.delete) : OpsOn(b, id) = {}
    BY <1>1, <1>3 DEF DeleteConflicts
  <2> QED
    BY <1>2, <2>1 DEF Touched
<1>5. IdsOf(b.delete) \cap Touched(c) = {}
  <2>1. \A id \in IdsOf(b.delete) : "delete" \in OpsOn(b, id)
    BY <1>2
  <2>2. \A id \in IdsOf(c.move) \cup IdsOf(c.rename) : "delete" \notin OpsOn(b, id)
    BY <1>1, <1>3 DEF MoveConflicts, RenameConflicts
  <2>3. \A id \in IdsOf(c.delete) : "delete" \notin OpsOn(b, id)
    BY <1>1, <1>3 DEF DeleteConflicts
  <2> QED
    BY <2>1, <2>2, <2>3 DEF Touched
<1> QED
  BY <1>4, <1>5

LEMMA SubmitExist ==
  ASSUME IdsApart, Inv, ExistInv, NEW m \in Members, NEW b \in Batches, Submit(m, b)
  PROVE  ExistInv'
<1> DEFINE new == [no |-> submitted, member |-> m, batch |-> b, early |-> DeletedEarly(b)]
<1>1. /\ waiting' = waiting \cup {new}
      /\ UNCHANGED <<folders, executor, faults>>
      /\ \A w \in waiting : ConflictFolders(b, w.batch) = {}
      /\ Touched(b) \subseteq DOMAIN folders
  BY DEF Submit, OthersWaiting, tables, Touched
<1>2. new.batch = b
  OBVIOUS
<1> HIDE DEF new
<1>3. \A w \in waiting : /\ IdsOf(b.delete) \cap Touched(w.batch) = {}
                         /\ IdsOf(w.batch.delete) \cap Touched(b) = {}
  <2>1. b \in BatchType /\ \A w \in waiting : w.batch \in BatchType
    BY BatchFacts DEF Inv, TypeOK, RequestType
  <2> QED
    BY <1>1, <2>1, ConflictFree
<1> QED
  BY <1>1, <1>2, <1>3 DEF ExistInv, Unfailed, At, Batch

\* A step of an execution: it deletes no folder but those of its batch.
LEMMA ExistStep ==
  ASSUME Inv, ExistInv, ~At("idle"), waiting' = waiting,
         \/ executor'.req = executor.req /\ executor'.pc # "idle" /\ faults' = faults
         \/ GiveUp,
         DOMAIN folders \ IdsOf(Batch.delete) \subseteq DOMAIN folders'
  PROVE  ExistInv'
<1>1. CASE GiveUp
  <2>1. ~Unfailed'
    BY <1>1 DEF GiveUp, Unfailed, Inv, TypeOK
  <2> QED
    BY <2>1 DEF ExistInv
<1>2. CASE executor'.req = executor.req /\ executor'.pc # "idle" /\ faults' = faults
  <2>1. Batch' = Batch /\ executor.req \in waiting /\ Batch = executor.req.batch
    BY <1>2, BusyBatch DEF Batch, Inv
  <2>2. \A v \in waiting : v # executor.req => IdsOf(Batch.delete) \cap Touched(v.batch) = {}
    BY <2>1 DEF ExistInv
  <2> QED
    BY <1>2, <2>1, <2>2 DEF ExistInv, Unfailed, At
<1> QED
  BY <1>1, <1>2

\* A step of an execution goes on with its request or gives it up.
LEMMA ExecutionSteps ==
  ASSUME Inv, Fail \/ TablesStep \/ CacheStep
  PROVE  /\ ~At("idle") /\ waiting' = waiting
         /\ \/ executor'.req = executor.req /\ executor'.pc # "idle" /\ faults' = faults
            \/ GiveUp
         /\ TablesStep /\ ~DropFolders => DOMAIN folders \subseteq DOMAIN folders'
         /\ ~TablesStep => UNCHANGED tables
<1>1. CASE Fail
  BY <1>1 DEF Fail, tables
<1>2. CASE TablesStep
  <2>1. ~At("idle") /\ waiting' = waiting
    BY <1>2 DEF TablesStep, InsertFolders, InsertRelations, FindRelations, DeleteRelation,
       CreateRelations, Rename, DropRelations, DropFolders, Commit, At
  <2>2. ~DropFolders => DOMAIN folders \subseteq DOMAIN folders'
    <3>1. CASE InsertFolders
      BY <3>1 DEF InsertFolders
    <3>2. CASE Rename
      BY <3>2 DEF Rename
    <3> QED
      BY <1>2, <3>1, <3>2 DEF TablesStep, InsertRelations, FindRelations, DeleteRelation,
         CreateRelations, DropRelations, Commit, tables
  <2>3. \/ executor'.req = executor.req /\ executor'.pc # "idle" /\ faults' = faults
        \/ GiveUp
    <3>1. {AfterCreate(Batch), AfterMove(Batch), AfterRename(Batch), "dropFolders", "commit", "cache"}
             \subseteq Stages \ {"idle"}
      BY StagesAfter DEF Stages
    <3>2. CASE InsertFolders \/ FindRelations \/ \E row \in executor.old : DeleteRelation(row)
      BY <3>2 DEF InsertFolders, FindRelations, DeleteRelation, Inv, TypeOK
    <3>3. CASE Rename
      BY <3>1, <3>3, GoKeeps DEF Rename
    <3>4. CASE InsertRelations \/ CreateRelations \/ DropRelations \/ DropFolders \/ Commit
      BY <3>1, <3>4, GoKeeps DEF InsertRelations, CreateRelations, DropRelations, DropFolders, Commit
    <3> QED
      BY <1>2, <3>2, <3>3, <3>4 DEF TablesStep
  <2> QED
    BY <1>2, <2>1, <2>2, <2>3
<1>3. CASE CacheStep
  <2>1. ASSUME NEW f, NEW fields, NEW rest, WriteEntry(f, fields, rest)
        PROVE  /\ ~At("idle") /\ waiting' = waiting /\ UNCHANGED tables
               /\ \/ executor'.req = executor.req /\ executor'.pc # "idle" /\ faults' = faults
                  \/ GiveUp
    BY <2>1 DEF WriteEntry, At, tables, Inv, TypeOK
  <2>2. ASSUME NEW op \in Todo.delete, CacheDelete(op)
        PROVE  /\ ~At("idle") /\ waiting' = waiting /\ UNCHANGED tables
               /\ \/ executor'.req = executor.req /\ executor'.pc # "idle" /\ faults' = faults
                  \/ GiveUp
    BY <2>2 DEF CacheDelete, At, tables, Inv, TypeOK
  <2>3. ASSUME BumpProjectVersion
        PROVE  /\ ~At("idle") /\ waiting' = waiting /\ UNCHANGED tables
               /\ executor'.req = executor.req /\ executor'.pc # "idle" /\ faults' = faults
    BY <2>3, GoKeeps DEF BumpProjectVersion, At, Stages
  <2>4. /\ ~At("idle") /\ waiting' = waiting /\ UNCHANGED tables
        /\ \/ executor'.req = executor.req /\ executor'.pc # "idle" /\ faults' = faults
           \/ GiveUp
    BY <1>3, <2>1, <2>2, <2>3 DEF CacheStep, CacheCreate, CacheMove, CacheRename
  <2> QED
    BY <2>4 DEF tables
<1> QED
  BY <1>1, <1>2, <1>3

LEMMA NextExist == IdsApart /\ Inv /\ ExistInv /\ [Next]_vars => ExistInv'
<1> SUFFICES ASSUME IdsApart, Inv, ExistInv, [Next]_vars PROVE ExistInv'
  OBVIOUS
<1>1. CASE \E m \in Members, b \in Batches : Submit(m, b)
  BY <1>1, SubmitExist
<1>2. CASE \E r \in waiting : Start(r)
  <2>1. At("idle") /\ UNCHANGED <<folders, waiting, faults>>
    BY <1>2 DEF Start, tables
  <2>2. Unfailed => \A w \in waiting : Touched(w.batch) \subseteq DOMAIN folders
    BY <2>1 DEF ExistInv
  <2> QED
    BY <2>1, <2>2 DEF ExistInv, Unfailed
<1>3. CASE Fail \/ TablesStep \/ CacheStep
  <2>1. DOMAIN folders \ IdsOf(Batch.delete) \subseteq DOMAIN folders'
    BY <1>3, ExecutionSteps DEF DropFolders, tables
  <2> QED
    BY <1>3, <2>1, ExecutionSteps, ExistStep
<1>4. CASE Finish
  <2>1. waiting' = waiting \ {executor.req} /\ UNCHANGED <<folders, faults>>
    BY <1>4 DEF Finish, tables
  <2>2. Unfailed => \A w \in waiting' : Touched(w.batch) \subseteq DOMAIN folders
    BY <2>1 DEF ExistInv
  <2> QED
    BY <2>1, <2>2 DEF ExistInv, Unfailed
<1>5. CASE UNCHANGED vars
  BY <1>5 DEF vars, ExistInv, Unfailed, At, Batch
<1> QED
  BY <1>1, <1>2, <1>3, <1>4, <1>5 DEF Next

LEMMA InitCurrent == Init => ExistInv /\ CurrentInv
<1> SUFFICES ASSUME Init PROVE ExistInv /\ CurrentInv
  OBVIOUS
<1>1. ExistInv
  BY DEF Init, ExistInv
<1>2. \A f \in FolderIds :
        /\ f \in Cached => /\ entry[f] = InitialTree[f] /\ f \in DOMAIN folders
                           /\ folders[f] = InitialTree[f].name
                           /\ Row(InitialTree[f].father, f) \in relations
        /\ f \notin Cached => entry[f] = NoEntry /\ version[f] = None
  BY ConstantsAssumption DEF Init
<1>3. CurrentInv
  <2>1. ASSUME NEW f \in FolderIds
        PROVE  /\ entry[f].name # None => f \in DOMAIN folders /\ entry[f].name = folders[f]
               /\ entry[f].father # None =>
                    f \in DOMAIN folders /\ Row(entry[f].father, f) \in relations
               /\ version[f] # None => f \in DOMAIN folders
    <3>1. NoEntry.name = None /\ NoEntry.father = None
      BY DEF NoEntry
    <3> QED
      BY <1>2, <3>1
  <2> QED
    BY <2>1 DEF CurrentInv
<1> QED
  BY <1>1, <1>3

\* A step that leaves the cache alone, and the folders that are not its batch's.
LEMMA CurrentStep ==
  ASSUME CurrentInv, Unfailed' => Unfailed, UNCHANGED <<entry, version>>,
         IdsOf(Todo.rename) \subseteq IdsOf(Todo.rename)',
         IdsOf(Todo.move) \subseteq IdsOf(Todo.move)',
         IdsOf(Todo.delete) \subseteq IdsOf(Todo.delete)',
         \A f \in DOMAIN folders \ IdsOf(Todo.delete)' :
            /\ f \in DOMAIN folders'
            /\ f \notin IdsOf(Todo.rename)' => folders'[f] = folders[f]
            /\ f \notin IdsOf(Todo.move)' => MountsOf(f) \subseteq MountsOf(f)'
  PROVE  CurrentInv'
<1> SUFFICES ASSUME Unfailed', NEW f \in FolderIds, f \notin IdsOf(Todo.delete)'
             PROVE  /\ entry[f].name # None /\ f \notin IdsOf(Todo.rename)' =>
                         f \in DOMAIN folders' /\ entry[f].name = folders'[f]
                    /\ entry[f].father # None /\ f \notin IdsOf(Todo.move)' =>
                         f \in DOMAIN folders' /\ Row(entry[f].father, f) \in relations'
                    /\ version[f] # None => f \in DOMAIN folders'
  BY DEF CurrentInv
<1>1. /\ entry[f].name # None /\ f \notin IdsOf(Todo.rename) =>
           f \in DOMAIN folders /\ entry[f].name = folders[f]
      /\ entry[f].father # None /\ f \notin IdsOf(Todo.move) =>
           f \in DOMAIN folders /\ Row(entry[f].father, f) \in relations
      /\ version[f] # None => f \in DOMAIN folders
  BY DEF CurrentInv
<1>2. IsMount(Row(entry[f].father, f)) /\ Row(entry[f].father, f).child = f
  BY DEF IsMount, Row
<1>3. Row(entry[f].father, f) \in relations => Row(entry[f].father, f) \in MountsOf(f)
  BY <1>2 DEF MountsOf
<1>4. \A row \in MountsOf(f)' : row \in relations'
  BY DEF MountsOf
<1> QED
  BY <1>1, <1>3, <1>4

LEMMA TablesCurrent ==
  ASSUME Inv, ExecutionInv, CurrentInv, TablesStep
  PROVE  CurrentInv'
<1>1. UNCHANGED <<entry, version>>
  BY DEF TablesStep, InsertFolders, InsertRelations, FindRelations, DeleteRelation,
     CreateRelations, Rename, DropRelations, DropFolders, Commit, cache
<1>2. CASE GiveUp
  <2>1. ~Unfailed'
    BY <1>2 DEF GiveUp, Unfailed, Inv, TypeOK
  <2> QED
    BY <2>1 DEF CurrentInv
<1>3. CASE ~GiveUp
  <2>1. faults' = faults /\ Todo' = Todo /\ Batch' = Batch
    <3>1. {AfterCreate(Batch), AfterMove(Batch), AfterRename(Batch), "dropFolders", "commit", "cache"}
             \subseteq Stages
      BY StagesAfter DEF Stages
    <3>2. CASE InsertFolders \/ FindRelations \/ \E row \in executor.old : DeleteRelation(row)
      BY <3>2 DEF InsertFolders, FindRelations, DeleteRelation, Inv, TypeOK, Todo, Batch
    <3>3. CASE Rename
      BY <1>3, <3>1, <3>3, GoKeeps DEF Rename
    <3>4. CASE InsertRelations \/ CreateRelations \/ DropRelations \/ DropFolders \/ Commit
      BY <3>1, <3>4, GoKeeps DEF InsertRelations, CreateRelations, DropRelations, DropFolders, Commit
    <3> QED
      BY <3>2, <3>3, <3>4 DEF TablesStep
  <2>2. Todo = Batch
    BY DEF ExecutionInv, TodoInv, TablesStep, InsertFolders, InsertRelations, FindRelations,
           DeleteRelation, CreateRelations, Rename, DropRelations, DropFolders, Commit, At
  <2>3. ASSUME NEW f \in DOMAIN folders, f \notin IdsOf(Batch.delete)
        PROVE  f \in DOMAIN folders' /\ (f \notin IdsOf(Batch.rename) => folders'[f] = folders[f])
    <3>1. CASE InsertFolders
      <4>1. PICK real \in Numberings(Batch, (FolderIds \cup TempIds) \
                            (nextId .. (nextId + Cardinality(Batch.create) - 1))) :
              folders' = [g \in DOMAIN folders \cup {real[op.temp] : op \in Batch.create} |->
                IF \E op \in Batch.create : real[op.temp] = g
                THEN (CHOOSE op \in Batch.create : real[op.temp] = g).name
                ELSE folders[g]]
        BY <3>1 DEF InsertFolders
      <4>2. \A op \in Batch.create : real[op.temp] # f
        <5>1. f < nextId /\ f \in Nat /\ nextId \in Nat
          BY ConstantsAssumption DEF Inv, IdsInv, TypeOK
        <5>2. \A op \in Batch.create :
                real[op.temp] \in FolderIds \cup TempIds /\ nextId <= real[op.temp]
          <6>1. \A op \in Batch.create : op.temp \in TempIdsOf(Batch)
            BY DEF TempIdsOf
          <6>2. \A op \in Batch.create :
                  real[op.temp] \in nextId .. (nextId + Cardinality(Batch.create) - 1)
            BY <4>1, <6>1 DEF Numberings
          <6>3. Cardinality(Batch.create) \in Nat
            BY <3>1, BusyBatch, BatchFacts, FS_CardinalityType DEF InsertFolders, At, Inv
          <6>4. \A op \in Batch.create : real[op.temp] \in FolderIds \cup TempIds
            BY <4>1, <6>1 DEF Numberings
          <6> QED
            BY <5>1, <6>2, <6>3, <6>4
        <5> QED
          BY <5>1, <5>2
      <4> QED
        BY <4>1, <4>2
    <3>2. CASE Rename
      BY <1>3, <2>3, <3>2 DEF Rename
    <3>3. CASE DropFolders
      BY <2>3, <3>3 DEF DropFolders
    <3>4. CASE \/ InsertRelations \/ FindRelations \/ (\E row \in executor.old : DeleteRelation(row))
               \/ CreateRelations \/ DropRelations \/ Commit
      BY <3>4 DEF InsertRelations, FindRelations, DeleteRelation, CreateRelations, DropRelations,
         Commit, tables
    <3> QED
      BY <3>1, <3>2, <3>3, <3>4 DEF TablesStep
  <2>4. ASSUME NEW f, f \notin IdsOf(Batch.delete), f \notin IdsOf(Batch.move)
        PROVE  MountsOf(f) \subseteq MountsOf(f)'
    <3>1. CASE DropRelations
      BY <2>4, <3>1 DEF DropRelations, MountsOf, MountedAs
    <3>2. ASSUME NEW row \in executor.old, DeleteRelation(row)
          PROVE  MountsOf(f) \subseteq MountsOf(f)'
      <4>1. row.child \in IdsOf(Batch.move)
        BY <3>2 DEF DeleteRelation, ExecutionInv, MovedInv
      <4> QED
        BY <2>4, <3>2, <4>1 DEF DeleteRelation, MountsOf, SamePair
    <3>3. CASE InsertFolders \/ InsertRelations \/ FindRelations \/ CreateRelations \/ Rename
               \/ DropFolders \/ Commit
      <4>1. relations \subseteq relations'
        BY <3>3 DEF InsertFolders, InsertRelations, FindRelations, CreateRelations, Rename,
           DropFolders, Commit, tables
      <4> QED
        BY <4>1 DEF MountsOf
    <3> QED
      BY <3>1, <3>2, <3>3 DEF TablesStep
  <2> QED
    BY <1>1, <2>1, <2>2, <2>3, <2>4, CurrentStep DEF Unfailed
<1> QED
  BY <1>2, <1>3

LEMMA CachedFatherIs ==
  ASSUME NEW id, NEW type, NEW real
  PROVE  CachedFather(Resolve(id, type, real)) = Resolve(id, type, real)
BY DEF CachedFather, Resolve, FolderRef, RootRef

\* An operation that has been written to the cache: the folder's version and
\* fields are as the tables say.
LEMMA EntryWritten ==
  ASSUME Inv, CurrentInv, NEW f \in FolderIds, NEW fields \in Fields, NEW rest \in BatchType,
         WriteEntry(f, fields, rest), rest.delete = Todo.delete,
         \A g \in FolderIds : g # f => /\ g \in IdsOf(Todo.rename) => g \in IdsOf(rest.rename)
                                       /\ g \in IdsOf(Todo.move) => g \in IdsOf(rest.move),
         Unfailed /\ f \notin IdsOf(Todo.delete) =>
           /\ f \in DOMAIN folders
           /\ fields.name # None /\ f \notin IdsOf(rest.rename) => fields.name = folders[f]
           /\ fields.father # None /\ f \notin IdsOf(rest.move) =>
                Row(fields.father, f) \in relations
  PROVE  CurrentInv'
<1>1. CASE GiveUp
  <2>1. ~Unfailed'
    BY <1>1 DEF GiveUp, Unfailed, Inv, TypeOK
  <2> QED
    BY <2>1 DEF CurrentInv
<1>2. CASE ~GiveUp
  <2>1. /\ entry' = [entry EXCEPT ![f] = fields] /\ version' = Bumped(f) /\ Todo' = rest
        /\ UNCHANGED <<folders, relations, faults>>
    BY <1>2 DEF WriteEntry, tables, Todo, Inv, TypeOK
  <2>2. /\ entry'[f] = fields
        /\ \A g \in FolderIds : g # f => entry'[g] = entry[g] /\ version'[g] = version[g]
    BY <2>1 DEF Bumped, Inv, TypeOK
  <2> SUFFICES ASSUME Unfailed, NEW g \in FolderIds, g \notin IdsOf(rest.delete)
               PROVE  /\ entry'[g].name # None /\ g \notin IdsOf(rest.rename) =>
                           g \in DOMAIN folders /\ entry'[g].name = folders[g]
                      /\ entry'[g].father # None /\ g \notin IdsOf(rest.move) =>
                           g \in DOMAIN folders /\ Row(entry'[g].father, g) \in relations
                      /\ version'[g] # None => g \in DOMAIN folders
    BY <2>1 DEF CurrentInv, Unfailed
  <2>3. CASE g = f
    BY <2>2, <2>3
  <2>4. CASE g # f
    BY <2>2, <2>4 DEF CurrentInv
  <2> QED
    BY <2>3, <2>4
<1> QED
  BY <1>1, <1>2

LEMMA CacheCurrent ==
  ASSUME Inv, ExecutionInv, ExistInv, CurrentInv, CacheStep
  PROVE  CurrentInv'
<1>1. /\ At("cache") /\ Todo \in BatchType /\ Batch \in BatchType 
      /\ executor.real \in NumberingType /\ executor.req \in waiting
  <2>1. At("cache")
    BY DEF CacheStep, CacheCreate, CacheMove, CacheRename, CacheDelete, WriteEntry,
           BumpProjectVersion
  <2> QED
    BY <2>1, BusyBatch, BatchFacts DEF At, Inv, TypeOK, Todo
<1>2. Unfailed => \A f \in Touched(Batch) : f \in DOMAIN folders \/ f \in IdsOf(Batch.delete)
  BY <1>1 DEF ExistInv, Batch
<1>3. /\ Todo.create \subseteq Batch.create /\ Todo.move \subseteq Batch.move
      /\ Todo.rename \subseteq Batch.rename
      /\ Todo.create \cup Todo.move \cup Todo.rename # {} => Todo.delete = Batch.delete
  BY <1>1 DEF ExecutionInv, TodoInv
<1>4. ASSUME NEW op \in Todo.create, CacheCreate(op)
      PROVE  CurrentInv'
  <2> DEFINE f == executor.real[op.temp]
             ref == Resolve(op.father, op.fatherType, executor.real)
             fields == [name |-> op.name, father |-> CachedFather(ref)]
             rest == [Todo EXCEPT !.create = @ \ {op}]
  <2>1. /\ f \in DOMAIN folders /\ folders[f] = op.name /\ Row(ref, f) \in relations
        /\ f \in FolderIds
    BY <1>1, <1>3 DEF ExecutionInv, CreatedInv, At, NewRow, Inv, TypeOK
  <2>2. fields \in Fields /\ CachedFather(ref) = ref
    <3>1. op.name \in Names /\ op.father \in Ids \cup {Root}
      BY <1>1 DEF BatchType, CreateOps
    <3>2. ref \in Refs /\ CachedFather(ref) = ref
      BY <1>1, <3>1, ResolveType, CachedFatherIs
    <3> QED
      BY <3>1, <3>2 DEF Fields
  <2>3. /\ rest \in BatchType /\ rest.delete = Todo.delete /\ rest.move = Todo.move
        /\ rest.rename = Todo.rename
    BY <1>1 DEF BatchType
  <2>4. WriteEntry(f, fields, rest)
    BY <1>4 DEF CacheCreate
  <2>5. fields.name = op.name /\ fields.father = ref
    BY <2>2
  <2> HIDE DEF f, ref, fields, rest
  <2> QED
    BY <2>1, <2>2, <2>3, <2>4, <2>5, EntryWritten
<1>5. ASSUME NEW op \in Todo.move, CacheMove(op)
      PROVE  CurrentInv'
  <2> DEFINE f == op.id
             ref == Resolve(op.father, op.fatherType, executor.real)
             fields == [entry[f] EXCEPT !.father = CachedFather(ref)]
             rest == [Todo EXCEPT !.move = @ \ {op}]
  <2>1. f \in FolderIds /\ op.father \in Ids \cup {Root}
    BY <1>1 DEF BatchType, MoveOps
  <2>2. /\ fields \in Fields /\ CachedFather(ref) = ref
        /\ fields.father = ref /\ fields.name = entry[f].name
    <3>1. ref \in Refs /\ CachedFather(ref) = ref
      BY <1>1, <2>1, ResolveType, CachedFatherIs
    <3>2. entry[f] \in Fields
      BY <2>1 DEF Inv, TypeOK, Fields
    <3> QED
      BY <3>1, <3>2 DEF Fields
  <2>3. /\ rest \in BatchType /\ rest.delete = Todo.delete
        /\ rest.move = Todo.move \ {op} /\ rest.rename = Todo.rename
    BY <1>1 DEF BatchType
  <2>4. WriteEntry(f, fields, rest)
    BY <1>5 DEF CacheMove
  <2>5. Todo.delete = Batch.delete /\ f \in Touched(Batch) /\ op \in Batch.move
    BY <1>3, <1>5 DEF Touched, IdsOf
  <2>6. f \in IdsOf(Batch.delete) \/ Row(ref, f) \in relations
    BY <1>1, <2>5 DEF ExecutionInv, MovedInv, MovedRow, At
  <2>7. \A g : g # f /\ g \in IdsOf(Todo.move) => g \in IdsOf(rest.move)
    BY <2>3 DEF IdsOf
  <2>8. Unfailed /\ f \notin IdsOf(Todo.delete) =>
          (fields.name # None /\ f \notin IdsOf(rest.rename) => fields.name = folders[f])
    BY <2>1, <2>2, <2>3 DEF CurrentInv
  <2> HIDE DEF f, ref, fields, rest
  <2> QED
    BY <1>2, <2>1, <2>2, <2>3, <2>4, <2>5, <2>6, <2>7, <2>8, EntryWritten
<1>6. ASSUME NEW op \in Todo.rename, CacheRename(op)
      PROVE  CurrentInv'
  <2> DEFINE f == op.id
             fields == [entry[f] EXCEPT !.name = op.name]
             rest == [Todo EXCEPT !.rename = @ \ {op}]
  <2>1. f \in FolderIds /\ op.name \in Names
    BY <1>1 DEF BatchType, RenameOps
  <2>2. /\ fields \in Fields /\ fields.father = entry[f].father /\ fields.name = op.name
    <3>1. entry[f] \in Fields
      BY <2>1 DEF Inv, TypeOK, Fields
    <3> QED
      BY <2>1, <3>1 DEF Fields
  <2>3. /\ rest \in BatchType /\ rest.delete = Todo.delete
        /\ rest.rename = Todo.rename \ {op} /\ rest.move = Todo.move /\ Todo.move = {}
    BY <1>1, <1>6 DEF BatchType, CacheRename
  <2>4. WriteEntry(f, fields, rest)
    BY <1>6 DEF CacheRename
  <2>5. Todo.delete = Batch.delete /\ f \in Touched(Batch) /\ op \in Batch.rename
    BY <1>3, <1>6 DEF Touched, IdsOf
  <2>6. f \in DOMAIN folders => folders[f] = op.name
    BY <1>1, <2>5 DEF ExecutionInv, RenamedInv, At
  <2>7. \A g : g # f /\ g \in IdsOf(Todo.rename) => g \in IdsOf(rest.rename)
    BY <2>3 DEF IdsOf
  <2>8. Unfailed /\ f \notin IdsOf(Todo.delete) =>
          (fields.father # None => Row(fields.father, f) \in relations)
    <3>1. IdsOf(Todo.move) = {}
      BY <2>3 DEF IdsOf
    <3> QED
      BY <2>1, <2>2, <3>1 DEF CurrentInv
  <2> HIDE DEF f, fields, rest
  <2> QED
    BY <1>2, <2>1, <2>2, <2>3, <2>4, <2>5, <2>6, <2>7, <2>8, EntryWritten
<1>7. ASSUME NEW op \in Todo.delete, CacheDelete(op)
      PROVE  CurrentInv'
  <2>1. CASE GiveUp
    <3>1. ~Unfailed'
      BY <2>1 DEF GiveUp, Unfailed, Inv, TypeOK
    <3> QED
      BY <3>1 DEF CurrentInv
  <2>2. CASE ~GiveUp
    <3>1. /\ entry' = [entry EXCEPT ![op.id] = NoEntry]
          /\ version' = [version EXCEPT ![op.id] = None]
          /\ Todo' = [Todo EXCEPT !.delete = @ \ {op}]
          /\ UNCHANGED <<folders, relations, faults>>
      BY <1>7, <2>2 DEF CacheDelete, tables, Todo, Inv, TypeOK
    <3>2. /\ Todo'.delete = Todo.delete \ {op} /\ Todo'.move = Todo.move
          /\ Todo'.rename = Todo.rename
      BY <1>1, <3>1 DEF BatchType
    <3>3. op.id \in FolderIds /\ NoEntry.name = None /\ NoEntry.father = None
      BY <1>1 DEF BatchType, DeleteOps, NoEntry
    <3>4. /\ entry'[op.id] = NoEntry /\ version'[op.id] = None
          /\ \A g \in FolderIds : g # op.id => entry'[g] = entry[g] /\ version'[g] = version[g]
      BY <3>1, <3>3 DEF Inv, TypeOK
    <3>5. \A g \in FolderIds : g # op.id /\ g \in IdsOf(Todo.delete) => g \in IdsOf(Todo'.delete)
      BY <3>2 DEF IdsOf
    <3> SUFFICES ASSUME Unfailed, NEW g \in FolderIds, g \notin IdsOf(Todo'.delete)
                 PROVE  /\ entry'[g].name # None /\ g \notin IdsOf(Todo.rename) =>
                             g \in DOMAIN folders /\ entry'[g].name = folders[g]
                        /\ entry'[g].father # None /\ g \notin IdsOf(Todo.move) =>
                             g \in DOMAIN folders /\ Row(entry'[g].father, g) \in relations
                        /\ version'[g] # None => g \in DOMAIN folders
      BY <3>1, <3>2 DEF CurrentInv, Unfailed
    <3>6. CASE g = op.id
      BY <3>3, <3>4, <3>6
    <3>7. CASE g # op.id
      BY <3>4, <3>5, <3>7 DEF CurrentInv
    <3> QED
      BY <3>6, <3>7
  <2> QED
    BY <2>1, <2>2
<1>8. CASE BumpProjectVersion
  <2>1. /\ UNCHANGED <<folders, relations, entry, version, faults>> /\ Todo' = Todo
    BY <1>8, GoKeeps DEF BumpProjectVersion, tables, Stages
  <2> QED
    BY <2>1 DEF CurrentInv, Unfailed
<1> QED
  BY <1>4, <1>5, <1>6, <1>7, <1>8 DEF CacheStep

LEMMA NextCurrent ==
  ASSUME Inv, ExecutionInv, ExistInv, CurrentInv, [Next]_vars
  PROVE  CurrentInv'
<1>1. CASE \E m \in Members, b \in Batches : Submit(m, b)
  BY <1>1 DEF Submit, tables, cache, CurrentInv, Unfailed, Todo
<1>2. CASE \E r \in waiting : Start(r)
  <2>1. At("idle") /\ UNCHANGED <<folders, relations, entry, version, faults>>
    BY <1>2 DEF Start, tables, cache
  <2>2. /\ Todo.rename = {} /\ Todo.move = {} /\ Todo.delete = {}
    BY <2>1 DEF ExecutionInv, TodoInv, At, Nothing
  <2>3. \A f : f \notin IdsOf(Todo.rename) /\ f \notin IdsOf(Todo.move) /\ f \notin IdsOf(Todo.delete)
    BY <2>2 DEF IdsOf
  <2> QED
    BY <2>1, <2>3 DEF CurrentInv, Unfailed
<1>3. CASE Fail
  <2>1. ~Unfailed'
    BY <1>3 DEF Fail, GiveUp, Unfailed, Inv, TypeOK
  <2> QED
    BY <2>1 DEF CurrentInv
<1>4. CASE Finish
  <2>1. UNCHANGED <<folders, relations, entry, version, faults>>
    BY <1>4 DEF Finish, tables, cache
  <2>2. Todo = Nothing /\ Todo' = Nothing
    BY <1>4 DEF Finish, ExecutionInv, TodoInv, At, Todo, Idle
  <2> QED
    BY <2>1, <2>2 DEF CurrentInv, Unfailed
<1>5. CASE UNCHANGED vars
  BY <1>5 DEF vars, CurrentInv, Unfailed, Todo
<1> QED
  BY <1>1, <1>2, <1>3, <1>4, <1>5, TablesCurrent, CacheCurrent DEF Next

\* As long as nothing has failed and no batch moves a folder twice, what the cache says of a folder between two
\* executions is what the tables say, however the batches of the members overlap:
\* a client that reads the cache sees the tree.
THEOREM CacheFollowsTables ==
  ASSUME IdsApart
  PROVE  Spec => []CacheAgrees
<1> DEFINE I == Inv /\ ExecutionInv /\ ExistInv /\ CurrentInv
<1>1. Init => I
  BY InitInv, InitExec, InitCurrent
<1>2. I /\ [Next]_vars => I'
  BY NextInv, NextExec, NextExist, NextCurrent
<1>3. I => CacheAgrees
  <2> SUFFICES ASSUME I, Intact, At("idle"), NEW f \in FolderIds
               PROVE  /\ entry[f].name # None => f \in DOMAIN folders /\ entry[f].name = folders[f]
                      /\ entry[f].father # None =>
                           f \in DOMAIN folders /\ entry[f].father = TreeInTables[f].father
                      /\ version[f] # None => f \in DOMAIN folders
    BY DEF CacheAgrees
  <2>1. Todo.rename = {} /\ Todo.move = {} /\ Todo.delete = {}
    BY DEF ExecutionInv, TodoInv, At, Nothing
  <2>2. f \notin IdsOf(Todo.rename) /\ f \notin IdsOf(Todo.move) /\ f \notin IdsOf(Todo.delete)
    BY <2>1 DEF IdsOf
  <2>3. /\ entry[f].name # None => f \in DOMAIN folders /\ entry[f].name = folders[f]
        /\ entry[f].father # None => f \in DOMAIN folders /\ Row(entry[f].father, f) \in relations
        /\ version[f] # None => f \in DOMAIN folders
    BY <2>2 DEF CurrentInv, Intact, Unfailed
  <2>4. entry[f].father \in Refs \cup {None}
    BY DEF Inv, TypeOK
  <2>5. Row(entry[f].father, f) \in relations /\ entry[f].father # None =>
          FatherOf(f) = entry[f].father
    BY <2>4, NoneMovedTwice, OnlyMount
  <2> QED
    BY <2>3, <2>5, TreeFacts
<1> QED
  BY <1>1, <1>2, <1>3, PTL DEF Spec
-----------------------------------------------------------------------------
(* The tree as a whole.  It is followed from one execution to the next:    *)
(* the tree that the execution under way is about to complete, and the     *)
(* trees that the waiting requests would make of it.                       *)

\* Clients say of each father what it is, and no temporary id is 0, the father
\* of folders that have none.
ClientsAreExact ==
  /\ IdsApart
  /\ 0 \notin TempIds
  /\ \A b \in Batches : NewFathers(b, "enduring") \subseteq FolderIds \cup {Root}

Early(E) == UNION {r.early : r \in E}

\* A father that exists, or was deleted although it was still being made.
Sound(t, E) ==
  \A f \in DOMAIN t :
    t[f].father \in {RootRef} \cup {FolderRef(g) : g \in DOMAIN t \cup Early(E)}

TwoMove(E, S) ==
  \E r, q \in E : /\ r.member # q.member
                  /\ IdsOf(r.batch.move) \cap S # {}
                  /\ IdsOf(q.batch.move) \cap S # {}

\* What TreeSurvives asks of a tree when the requests E have been executed.
Good(t, E) == Sound(t, E) /\ \A S \in Detached(t) : TwoMove(E, S)

\* The batch with its temporary ids as the ids of its folders.
AsSent(b) == [x \in TempIdsOf(b) |-> x]

\* No conflict, as far as the tree is concerned.
Apart(b, c) ==
  /\ IdsOf(b.delete) \cap Touched(c) = {}
  /\ IdsOf(b.delete) \cap NewFathers(c, "enduring") = {}
  /\ IdsOf(b.move) \cap IdsOf(c.move) = {}

LEMMA RefFacts ==
  /\ \A f, g : FolderRef(f) = FolderRef(g) => f = g
  /\ \A f : FolderRef(f) # RootRef
BY DEF FolderRef, RootRef

LEMMA DetachedIs ==
  ASSUME NEW t, NEW S
  PROVE  S \in Detached(t) <=>
           /\ S \subseteq DOMAIN t /\ S # {}
           /\ \A f \in S : \E g \in S : t[f].father = FolderRef(g)
BY DEF Detached

LEMMA StaysDetached ==
  ASSUME NEW p, NEW q, NEW S \in Detached(p),
         \A f \in S : f \in DOMAIN q /\ q[f].father = p[f].father
  PROVE  S \in Detached(q)
BY DEF Detached

LEMMA SoundIs ==
  ASSUME NEW t, NEW E
  PROVE  Sound(t, E) <=>
           \A f \in DOMAIN t : t[f].father # RootRef =>
             \E g \in DOMAIN t \cup Early(E) : t[f].father = FolderRef(g)
BY DEF Sound

LEMMA SoundAt ==
  ASSUME NEW t, NEW E, Sound(t, E), NEW f \in DOMAIN t, NEW g, t[f].father = FolderRef(g)
  PROVE  g \in DOMAIN t \cup Early(E)
BY RefFacts DEF Sound

\* A numbering of the folders that b creates.
Numbers(b, real) ==
  /\ DOMAIN real = TempIdsOf(b)
  /\ \A x, y \in TempIdsOf(b) : real[x] = real[y] => x = y
  /\ \A x \in TempIdsOf(b) : real[x] \notin Touched(b)

New(b, real) == {real[x] : x \in TempIdsOf(b)}

\* The folders and the fathers of the tree u after a batch.
AppliedTo(t, b, real, u) ==
  /\ DOMAIN u = (DOMAIN t \cup New(b, real)) \ IdsOf(b.delete)
  /\ \A op \in b.move : op.id \in DOMAIN u =>
       u[op.id].father = Resolve(op.father, op.fatherType, real)
  /\ \A op \in b.create : /\ real[op.temp] \in DOMAIN u
                          /\ u[real[op.temp]].father = Resolve(op.father, op.fatherType, real)
  /\ \A f \in DOMAIN u : f \notin IdsOf(b.move) /\ f \notin New(b, real) =>
       f \in DOMAIN t /\ u[f].father = t[f].father

\* The batches that move no folder twice.
Exact == {b \in Batches : OncePerFolder(b)}

LEMMA ExactFacts ==
  ASSUME NEW b \in Exact
  PROVE  b \in Batches /\ b \in BatchType /\ OneEach(b) /\ OncePerFolder(b)
BY BatchFacts DEF Exact

LEMMA ApplyTree ==
  ASSUME NEW t, NEW b, OneEach(b), OncePerFolder(b), NEW real, Numbers(b, real)
  PROVE  AppliedTo(t, b, real, Apply(t, b, real))
<1> SUFFICES ASSUME NEW u, u = Apply(t, b, real) PROVE AppliedTo(t, b, real, u)
  OBVIOUS
<1> DEFINE created == {real[op.temp] : op \in b.create}
           op(f) == IF f \in IdsOf(b.move) THEN CHOOSE o \in b.move : o.id = f
                    ELSE CHOOSE o \in b.create : real[o.temp] = f
<1>1. created = New(b, real)
  BY DEF New, TempIdsOf
<1>2. DOMAIN u = (DOMAIN t \cup created) \ IdsOf(b.delete)
  BY DEF Apply
<1>3. \A f \in DOMAIN u :
        u[f].father = IF f \in IdsOf(b.move) \cup created
                      THEN Resolve(op(f).father, op(f).fatherType, real) ELSE t[f].father
  BY DEF Apply
<1>4. \A o \in b.move : o.id \in IdsOf(b.move) /\ op(o.id) = o
  BY DEF OncePerFolder, IdsOf
<1>5. ASSUME NEW o \in b.create
      PROVE  /\ o.temp \in TempIdsOf(b) /\ real[o.temp] \in created
             /\ real[o.temp] \notin Touched(b) /\ op(real[o.temp]) = o
  <2>1. o.temp \in TempIdsOf(b) /\ real[o.temp] \in created
    BY DEF TempIdsOf
  <2>2. real[o.temp] \notin Touched(b)
    BY <2>1 DEF Numbers
  <2>3. \A p \in b.create : real[p.temp] = real[o.temp] => p = o
    BY <2>1 DEF Numbers, TempIdsOf, OneEach
  <2>4. op(real[o.temp]) = o
    BY <2>2, <2>3 DEF Touched
  <2> QED
    BY <2>1, <2>2, <2>4
<1> HIDE DEF created, op
<1>6. \A o \in b.move : o.id \in DOMAIN u => u[o.id].father = Resolve(o.father, o.fatherType, real)
  BY <1>3, <1>4
<1>7. \A o \in b.create : /\ real[o.temp] \in DOMAIN u
                          /\ u[real[o.temp]].father = Resolve(o.father, o.fatherType, real)
  BY <1>2, <1>3, <1>5 DEF Touched
<1> QED
  BY <1>1, <1>2, <1>3, <1>6, <1>7 DEF AppliedTo

-----------------------------------------------------------------------------
(* What one batch makes of the tree.                                       *)

\* Where a father of the batch as sent is the folder x it creates, the father of
\* the batch as executed is the folder with the number of x.
LEMMA Renumbered ==
  ASSUME NEW b, NEW real, Numbers(b, real), NEW op,
         op.fatherType \in FatherTypes, op.fatherType = "enduring" => op.father \in FolderIds \cup {Root},
         ClientsAreExact, ConstantsAssumption
  PROVE  LET sent == Resolve(op.father, op.fatherType, AsSent(b))
             done == Resolve(op.father, op.fatherType, real)
         IN \/ sent = done /\ \A x \in TempIds : done # FolderRef(x)
            \/ \E x \in TempIdsOf(b) : sent = FolderRef(x) /\ done = FolderRef(real[x])
<1>1. CASE op.fatherType # "temp" /\ op.father = Root
  BY <1>1, RefFacts DEF Resolve
<1>2. CASE op.fatherType = "enduring" /\ op.father # Root
  BY <1>2, RefFacts DEF Resolve, ClientsAreExact, IdsApart
<1>3. CASE op.fatherType = "temp" /\ op.father \in TempIdsOf(b)
  BY <1>3 DEF Resolve, AsSent, Numbers
<1>4. CASE op.fatherType = "temp" /\ op.father \notin TempIdsOf(b)
  BY <1>4, RefFacts DEF Resolve, AsSent, Numbers, ClientsAreExact
<1> QED
  BY <1>1, <1>2, <1>3, <1>4 DEF FatherTypes

LEMMA SentNumbers ==
  ASSUME ClientsAreExact, NEW b \in BatchType
  PROVE  /\ Numbers(b, AsSent(b)) /\ New(b, AsSent(b)) = TempIdsOf(b)
         /\ TempIdsOf(b) \subseteq TempIds
         /\ Touched(b) \subseteq FolderIds
<1>1. TempIdsOf(b) \subseteq TempIds /\ Touched(b) \subseteq FolderIds
  BY DEF TempIdsOf, Touched, IdsOf, BatchType, CreateOps, MoveOps, RenameOps, DeleteOps
<1> QED
  BY <1>1 DEF ClientsAreExact, IdsApart, Numbers, New, AsSent

\* The operations that name a father.
FatherOps(b) == b.move \cup b.create

LEMMA FatherOpsNamed ==
  ASSUME ClientsAreExact, NEW b \in Batches, NEW op \in FatherOps(b)
  PROVE  /\ op.fatherType \in FatherTypes
         /\ op.fatherType = "enduring" =>
              op.father \in FolderIds \cup {Root} /\ op.father \in NewFathers(b, "enduring")
<1>1. b \in BatchType /\ NewFathers(b, "enduring") \subseteq FolderIds \cup {Root}
  BY BatchFacts DEF ClientsAreExact
<1> QED
  BY <1>1 DEF FatherOps, BatchType, MoveOps, CreateOps, NewFathers, FathersOf

\* A good tree stays one when the folders a batch creates get their numbers.
LEMMA NumberedTree ==
  ASSUME ClientsAreExact, NEW b \in Exact, NEW t, DOMAIN t \subseteq FolderIds,
         NEW P, Early(P) \subseteq FolderIds, Sound(t, P),
         NEW real, Numbers(b, real), New(b, real) \subseteq FolderIds,
         New(b, real) \cap DOMAIN t = {},
         NEW E, Early(E) \subseteq FolderIds \ New(b, real),
         \A r \in E : IdsOf(r.batch.move) \subseteq FolderIds,
         Good(Apply(t, b, AsSent(b)), E)
  PROVE  Good(Apply(t, b, real), E)
<1> SUFFICES ASSUME NEW q, q = Apply(t, b, AsSent(b)), NEW n, n = Apply(t, b, real)
             PROVE  Good(n, E)
  OBVIOUS
<1> DEFINE Numbered(from, to) ==
             \/ from = to /\ \A x \in TempIds : to # FolderRef(x)
             \/ \E x \in TempIdsOf(b) : from = FolderRef(x) /\ to = FolderRef(real[x])
<1>1. /\ b \in Batches /\ b \in BatchType /\ OneEach(b) /\ OncePerFolder(b)
      /\ Numbers(b, AsSent(b)) /\ New(b, AsSent(b)) = TempIdsOf(b) /\ TempIdsOf(b) \subseteq TempIds
      /\ Touched(b) \subseteq FolderIds
  BY ExactFacts, SentNumbers
<1>2. /\ FolderIds \cap TempIds = {} /\ 0 \notin TempIds
  BY DEF ClientsAreExact, IdsApart
<1>3. AppliedTo(t, b, AsSent(b), q) /\ AppliedTo(t, b, real, n)
  BY <1>1, ApplyTree
<1>4. DOMAIN q = (DOMAIN t \cup TempIdsOf(b)) \ IdsOf(b.delete)
  BY <1>1, <1>3 DEF AppliedTo
<1>5. \A op \in FatherOps(b) : Numbered(Resolve(op.father, op.fatherType, AsSent(b)),
                                        Resolve(op.father, op.fatherType, real))
  BY <1>1, Renumbered, FatherOpsNamed, ConstantsAssumption
<1> HIDE DEF Numbered
<1>6. \A x \in TempIdsOf(b) : /\ x \in DOMAIN q /\ real[x] \in DOMAIN n
                              /\ Numbered(q[x].father, n[real[x]].father)
  <2> SUFFICES ASSUME NEW x \in TempIdsOf(b)
               PROVE  /\ x \in DOMAIN q /\ real[x] \in DOMAIN n
                      /\ Numbered(q[x].father, n[real[x]].father)
    OBVIOUS
  <2>1. x \in DOMAIN q /\ real[x] \in DOMAIN n
    BY <1>1, <1>2, <1>3, <1>4 DEF AppliedTo, Numbers, New, Touched
  <2>2. PICK op \in b.create : op.temp = x
    BY DEF TempIdsOf
  <2>3. AsSent(b)[x] = x
    BY DEF AsSent
  <2> QED
    BY <1>3, <1>5, <2>1, <2>2, <2>3 DEF FatherOps, AppliedTo
<1>7. \A f \in DOMAIN n \ New(b, real) : f \in DOMAIN q /\ Numbered(q[f].father, n[f].father)
  <2> SUFFICES ASSUME NEW f \in DOMAIN n \ New(b, real)
               PROVE  f \in DOMAIN q /\ Numbered(q[f].father, n[f].father)
    OBVIOUS
  <2>1. f \in DOMAIN t /\ f \in DOMAIN q /\ f \notin TempIdsOf(b)
    BY <1>1, <1>2, <1>3, <1>4 DEF AppliedTo
  <2>2. CASE f \in IdsOf(b.move)
    <3>1. PICK op \in b.move : op.id = f
      BY <2>2 DEF IdsOf
    <3> QED
      BY <1>3, <1>5, <2>1, <3>1 DEF FatherOps, AppliedTo
  <2>3. CASE f \notin IdsOf(b.move)
    <3>1. q[f].father = t[f].father /\ n[f].father = t[f].father
      BY <1>1, <1>3, <2>1, <2>3 DEF AppliedTo
    <3>2. \A x \in TempIds : t[f].father # FolderRef(x)
      BY <1>2, <2>1, RefFacts DEF Sound
    <3> QED
      BY <2>1, <3>1, <3>2 DEF Numbered
  <2> QED
    BY <2>2, <2>3
<1>8. Sound(q, E) /\ \A S \in Detached(q) : TwoMove(E, S)
  BY DEF Good
<1>9. Sound(n, E)
  <2>1. ASSUME NEW to, NEW h \in DOMAIN q, Numbered(q[h].father, to)
        PROVE  to \in {RootRef} \cup {FolderRef(g) : g \in DOMAIN n \cup Early(E)}
    <3>1. CASE q[h].father = to /\ \A x \in TempIds : to # FolderRef(x)
      <4>1. \A g \in DOMAIN q : g \in DOMAIN n \/ g \in TempIds
        BY <1>1, <1>3, <1>4 DEF AppliedTo
      <4> QED
        BY <1>8, <3>1, <4>1 DEF Sound
    <3>2. CASE \E x \in TempIdsOf(b) : q[h].father = FolderRef(x) /\ to = FolderRef(real[x])
      BY <1>6, <3>2
    <3> QED
      BY <2>1, <3>1, <3>2 DEF Numbered
  <2> QED
    BY <1>6, <1>7, <2>1 DEF Sound, New
<1>10. ASSUME NEW S \in Detached(n)
       PROVE  TwoMove(E, S)
  <2> DEFINE sent == (S \ New(b, real)) \cup {x \in TempIdsOf(b) : real[x] \in S}
  <2>1. S \subseteq DOMAIN n /\ S # {} /\ \A f \in S : \E g \in S : n[f].father = FolderRef(g)
    BY <1>10, DetachedIs
  <2>2. sent \subseteq DOMAIN q /\ sent # {}
    BY <1>6, <1>7, <2>1 DEF New
  <2>3. ASSUME NEW f \in S, NEW h \in sent, Numbered(q[h].father, n[f].father)
        PROVE  \E g \in sent : q[h].father = FolderRef(g)
    <3>1. PICK g \in S : n[f].father = FolderRef(g)
      BY <2>1
    <3>2. CASE q[h].father = n[f].father
      <4>1. g \in DOMAIN q \cup Early(E)
        BY <1>8, <2>2, <3>1, <3>2, RefFacts DEF Sound
      <4>2. g \notin New(b, real)
        BY <1>1, <1>2, <1>4, <4>1
      <4> QED
        BY <3>1, <3>2, <4>2
    <3>3. CASE \E x \in TempIdsOf(b) : q[h].father = FolderRef(x) /\ n[f].father = FolderRef(real[x])
      BY <3>1, <3>3, RefFacts
    <3> QED
      BY <2>3, <3>2, <3>3 DEF Numbered
  <2>4. \A h \in sent : \E g \in sent : q[h].father = FolderRef(g)
    BY <1>6, <1>7, <2>1, <2>3
  <2>5. \A r \in E : IdsOf(r.batch.move) \cap sent \subseteq S
    BY <1>1, <1>2
  <2> HIDE DEF sent
  <2>6. sent \in Detached(q)
    BY <2>2, <2>4, DetachedIs
  <2>7. TwoMove(E, sent)
    BY <1>8, <2>6
  <2> QED
    BY <2>5, <2>7 DEF TwoMove
<1> QED
  BY <1>9, <1>10 DEF Good

LEMMA MoreMove ==
  ASSUME NEW E, NEW F, E \subseteq F, NEW S, NEW U, S \subseteq U, TwoMove(E, S)
  PROVE  TwoMove(F, U)
BY DEF TwoMove

\* A folder under which a batch puts another is one it names or one it creates.
LEMMA NamedFather ==
  ASSUME ClientsAreExact, NEW b \in Batches, NEW real, Numbers(b, real),
         NEW op \in FatherOps(b), NEW g \in FolderIds,
         Resolve(op.father, op.fatherType, real) = FolderRef(g)
  PROVE  g \in NewFathers(b, "enduring") \/ g \in New(b, real)
<1>1. /\ op.fatherType \in FatherTypes
      /\ op.fatherType = "enduring" => op.father \in NewFathers(b, "enduring")
  BY FatherOpsNamed
<1>2. CASE op.fatherType = "enduring"
  BY <1>1, <1>2, RefFacts DEF Resolve
<1>3. CASE op.fatherType = "temp"
  BY <1>3, RefFacts, ConstantsAssumption DEF Resolve, New, Numbers
<1> QED
  BY <1>1, <1>2, <1>3 DEF FatherTypes

LEMMA NamedAfter ==
  ASSUME ClientsAreExact, NEW b \in Batches, NEW real, Numbers(b, real),
         NEW t, NEW u, AppliedTo(t, b, real, u),
         NEW f \in DOMAIN u, f \in IdsOf(b.move) \/ f \in New(b, real),
         NEW g \in FolderIds, u[f].father = FolderRef(g)
  PROVE  g \in NewFathers(b, "enduring") \/ g \in New(b, real)
<1>1. PICK op \in FatherOps(b) : u[f].father = Resolve(op.father, op.fatherType, real)
  <2>1. CASE f \in IdsOf(b.move)
    BY <2>1 DEF IdsOf, AppliedTo, FatherOps
  <2>2. CASE f \in New(b, real)
    <3>1. PICK op \in b.create : real[op.temp] = f
      BY <2>2 DEF New, TempIdsOf
    <3> QED
      BY <3>1 DEF AppliedTo, FatherOps
  <2> QED
    BY <2>1, <2>2
<1> QED
  BY <1>1, NamedFather

\* A request that waits beside the one that is executed finds a good tree after it.
LEMMA TreeForOthers ==
  ASSUME ClientsAreExact, NEW t, DOMAIN t \subseteq FolderIds,
         NEW r, r.batch \in Exact, NEW w, w.batch \in Exact, r.member # w.member,
         Apart(r.batch, w.batch), Apart(w.batch, r.batch), Touched(w.batch) \subseteq DOMAIN t,
         NEW real, Numbers(r.batch, real), New(r.batch, real) \subseteq FolderIds \ DOMAIN t,
         NEW E, Early(E \cup {w}) \subseteq FolderIds \ New(r.batch, real),
         Early(E \cup {r}) \subseteq FolderIds,
         Good(Apply(t, r.batch, real), E \cup {r}),
         Good(Apply(t, w.batch, AsSent(w.batch)), E \cup {w})
  PROVE  Good(Apply(Apply(t, r.batch, real), w.batch, AsSent(w.batch)), E \cup {r, w})
<1> SUFFICES ASSUME NEW n, n = Apply(t, r.batch, real),
                    NEW q, q = Apply(t, w.batch, AsSent(w.batch)),
                    NEW p, p = Apply(n, w.batch, AsSent(w.batch))
             PROVE  Good(p, E \cup {r, w})
  OBVIOUS
<1> DEFINE b == r.batch
           c == w.batch
           new == New(b, real)
           T == TempIdsOf(c)
<1>1. /\ b \in Batches /\ c \in Batches
      /\ OneEach(b) /\ OncePerFolder(b) /\ OneEach(c) /\ OncePerFolder(c)
      /\ Numbers(c, AsSent(c)) /\ New(c, AsSent(c)) = T /\ T \subseteq TempIds
      /\ IdsOf(b.delete) \subseteq FolderIds /\ IdsOf(c.delete) \subseteq Touched(c)
      /\ IdsOf(c.move) \subseteq Touched(c)
  BY ExactFacts, SentNumbers DEF Touched
<1>2. FolderIds \cap TempIds = {}
  BY DEF ClientsAreExact, IdsApart
<1>3. AppliedTo(t, b, real, n) /\ AppliedTo(t, c, AsSent(c), q) /\ AppliedTo(n, c, AsSent(c), p)
  BY <1>1, ApplyTree
<1>4. /\ DOMAIN n = (DOMAIN t \cup new) \ IdsOf(b.delete)
      /\ DOMAIN q = (DOMAIN t \cup T) \ IdsOf(c.delete)
      /\ DOMAIN p = (DOMAIN n \cup T) \ IdsOf(c.delete)
  BY <1>1, <1>3 DEF AppliedTo
<1>5. /\ Sound(n, E \cup {r}) /\ \A S \in Detached(n) : TwoMove(E \cup {r}, S)
      /\ Sound(q, E \cup {w}) /\ \A S \in Detached(q) : TwoMove(E \cup {w}, S)
  BY DEF Good
<1>6. ASSUME NEW f \in DOMAIN p, f \in IdsOf(c.move) \/ f \in T
      PROVE  f \in DOMAIN q /\ p[f].father = q[f].father
  <2>1. f \in DOMAIN q
    BY <1>1, <1>4, <1>6
  <2>2. CASE f \in IdsOf(c.move)
    BY <1>3, <2>1, <2>2 DEF IdsOf, AppliedTo
  <2>3. CASE f \in T
    <3>1. PICK op \in c.create : AsSent(c)[op.temp] = f
      BY <2>3 DEF TempIdsOf, AsSent
    <3> QED
      BY <1>3, <2>1, <3>1 DEF AppliedTo
  <2> QED
    BY <1>6, <2>1, <2>2, <2>3
<1>7. ASSUME NEW f \in DOMAIN p, ~(f \in IdsOf(c.move) \/ f \in T)
      PROVE  f \in DOMAIN n /\ p[f].father = n[f].father
  BY <1>1, <1>3, <1>7 DEF AppliedTo
<1>8. ASSUME NEW f \in DOMAIN p, ~(f \in IdsOf(c.move) \/ f \in T), ~(f \in IdsOf(b.move) \/ f \in new)
      PROVE  f \in DOMAIN q /\ p[f].father = q[f].father
  <2>1. f \in DOMAIN t /\ p[f].father = t[f].father
    BY <1>3, <1>7, <1>8 DEF AppliedTo
  <2>2. f \in DOMAIN q
    BY <1>4, <2>1
  <2> QED
    BY <1>1, <1>3, <1>8, <2>1, <2>2 DEF AppliedTo
<1>9. Sound(p, E \cup {r, w})
  <2> SUFFICES ASSUME NEW f \in DOMAIN p, p[f].father # RootRef
               PROVE  \E g \in DOMAIN p \cup Early(E \cup {r, w}) : p[f].father = FolderRef(g)
    BY SoundIs
  <2>0. Early(E \cup {r}) \subseteq Early(E \cup {r, w}) /\ Early(E \cup {w}) \subseteq Early(E \cup {r, w})
    BY DEF Early
  <2>1. CASE f \in IdsOf(c.move) \/ f \in T
    <3>1. f \in DOMAIN q /\ p[f].father = q[f].father
      BY <1>6, <2>1
    <3>2. PICK g \in DOMAIN q \cup Early(E \cup {w}) : p[f].father = FolderRef(g)
      BY <1>5, <3>1, SoundIs
    <3>3. g \notin IdsOf(b.delete)
      <4>1. SUFFICES ASSUME g \in IdsOf(b.delete) PROVE FALSE
        OBVIOUS
      <4>2. g \in NewFathers(c, "enduring") \/ g \in T
        BY <1>1, <1>3, <2>1, <3>1, <3>2, <4>1, NamedAfter
      <4> QED
        BY <1>1, <1>2, <4>1, <4>2 DEF Apart
    <3> QED
      BY <1>4, <2>0, <3>2, <3>3
  <2>2. CASE ~(f \in IdsOf(c.move) \/ f \in T)
    <3>1. f \in DOMAIN n /\ p[f].father = n[f].father
      BY <1>7, <2>2
    <3>2. PICK g \in DOMAIN n \cup Early(E \cup {r}) : p[f].father = FolderRef(g)
      BY <1>5, <3>1, SoundIs
    <3>3. g \in Early(E \cup {w}) \/ g \notin IdsOf(c.delete)
      <4>1. SUFFICES ASSUME g \in IdsOf(c.delete) PROVE g \in Early(E \cup {w})
        OBVIOUS
      <4>2. CASE f \in IdsOf(b.move) \/ f \in new
        <5>1. g \in FolderIds
          BY <1>1, <4>1
        <5>2. g \in NewFathers(b, "enduring") \/ g \in new
          BY <1>1, <1>3, <3>1, <3>2, <4>2, <5>1, NamedAfter
        <5> QED
          BY <1>1, <4>1, <5>2 DEF Apart
      <4>3. CASE ~(f \in IdsOf(b.move) \/ f \in new)
        <5>1. f \in DOMAIN q /\ p[f].father = q[f].father
          BY <1>8, <2>2, <4>3
        <5> QED
          BY <1>1, <1>2, <1>4, <1>5, <3>2, <4>1, <5>1, SoundAt
      <4> QED
        BY <4>2, <4>3
    <3> QED
      BY <1>4, <2>0, <3>2, <3>3
  <2> QED
    BY <2>1, <2>2
<1>10. ASSUME NEW S \in Detached(p)
       PROVE  TwoMove(E \cup {r, w}, S)
  <2>1. S \subseteq DOMAIN p /\ S # {} /\ \A f \in S : \E g \in S : p[f].father = FolderRef(g)
    BY <1>10, DetachedIs
  <2>2. CASE IdsOf(b.move) \cap S # {} /\ IdsOf(c.move) \cap S # {}
    BY <2>2 DEF TwoMove
  <2>3. CASE IdsOf(c.move) \cap S = {} /\ S \subseteq T
    <3>1. \A f \in S : f \in DOMAIN q /\ p[f].father = q[f].father
      BY <1>6, <2>1, <2>3
    <3>3. S \in Detached(q)
      BY <1>10, <3>1, StaysDetached
    <3>4. TwoMove(E \cup {w}, S)
      BY <1>5, <3>3
    <3> QED
      BY <3>4, MoreMove
  <2>4. CASE IdsOf(c.move) \cap S = {} /\ ~(S \subseteq T)
    <3> DEFINE U == S \ T
    <3>1. \A f \in U : f \in DOMAIN n /\ p[f].father = n[f].father
      BY <1>7, <2>1, <2>4
    <3>2. ASSUME NEW f \in U PROVE \E g \in U : n[f].father = FolderRef(g)
      <4>1. PICK g \in S : n[f].father = FolderRef(g)
        BY <2>1, <3>1
      <4>2. g \in DOMAIN n \cup Early(E \cup {r})
        BY <1>5, <3>1, <4>1, SoundAt
      <4>3. g \notin T
        BY <1>1, <1>2, <1>4, <4>2
      <4> QED
        BY <4>1, <4>3
    <3>3. U \subseteq DOMAIN n /\ U # {} /\ U \subseteq S
      BY <2>4, <3>1
    <3> HIDE DEF U
    <3>4. U \in Detached(n)
      BY <3>2, <3>3, DetachedIs
    <3>5. TwoMove(E \cup {r}, U)
      BY <1>5, <3>4
    <3> QED
      BY <3>3, <3>5, MoreMove
  <2>5. CASE IdsOf(c.move) \cap S # {} /\ IdsOf(b.move) \cap S = {}
    <3> DEFINE U == S \ new
    <3>1. \A f \in U : f \in DOMAIN q /\ p[f].father = q[f].father
      BY <1>6, <1>8, <2>1, <2>5
    <3>2. ASSUME NEW f \in U PROVE \E g \in U : q[f].father = FolderRef(g)
      <4>1. PICK g \in S : q[f].father = FolderRef(g)
        BY <2>1, <3>1
      <4>2. g \in DOMAIN q \cup Early(E \cup {w})
        BY <1>5, <3>1, <4>1, SoundAt
      <4>3. g \notin new
        BY <1>1, <1>2, <1>4, <4>2
      <4> QED
        BY <4>1, <4>3
    <3>3. U \subseteq DOMAIN q /\ U # {} /\ U \subseteq S
      BY <1>1, <2>5, <3>1
    <3> HIDE DEF U
    <3>4. U \in Detached(q)
      BY <3>2, <3>3, DetachedIs
    <3>5. TwoMove(E \cup {w}, U)
      BY <1>5, <3>4
    <3> QED
      BY <3>3, <3>5, MoreMove
  <2> QED
    BY <2>2, <2>3, <2>4, <2>5
<1> QED
  BY <1>9, <1>10 DEF Good

LEMMA TreeIsGood ==
  ASSUME NEW t, IsTree(t), NEW E
  PROVE  Good(t, E) /\ Sound(t, {}) /\ Detached(t) = {}
BY DEF IsTree, HangsTogether, Good, Sound, Early

\* A request that is submitted while another is executed: it was made from the
\* tree m in the tables, and finds n, which that execution is about to complete.
LEMMA TreeForNew ==
  ASSUME ClientsAreExact, NEW r, r.batch \in Exact, NEW w, w.batch \in Exact,
         r.member # w.member, Apart(r.batch, w.batch), Apart(w.batch, r.batch),
         NEW m, DOMAIN m \subseteq FolderIds, NEW n, DOMAIN n = DOMAIN m \ IdsOf(r.batch.delete),
         NEW made, w.early = IdsOf(w.batch.delete) \cap made,
         \A f \in DOMAIN n : n[f].father # m[f].father =>
           /\ f \in IdsOf(r.batch.move) \/ m[f].father = FolderRef(0)
           /\ \A g \in FolderIds : n[f].father = FolderRef(g) =>
                g \in NewFathers(r.batch, "enduring") \/ g \in made,
         Touched(w.batch) \subseteq DOMAIN m,
         IsTree(Apply(m, w.batch, AsSent(w.batch))),
         NEW E, r \in E, Early(E) \subseteq FolderIds, Good(n, E)
  PROVE  Good(Apply(n, w.batch, AsSent(w.batch)), E \cup {w})
<1> SUFFICES ASSUME NEW q, q = Apply(m, w.batch, AsSent(w.batch)),
                    NEW p, p = Apply(n, w.batch, AsSent(w.batch))
             PROVE  Good(p, E \cup {w})
  OBVIOUS
<1> DEFINE b == r.batch
           c == w.batch
           T == TempIdsOf(c)
<1>1. /\ b \in Batches /\ c \in Batches /\ OneEach(c) /\ OncePerFolder(c)
      /\ Numbers(c, AsSent(c)) /\ New(c, AsSent(c)) = T /\ T \subseteq TempIds
      /\ IdsOf(b.delete) \subseteq FolderIds /\ IdsOf(c.delete) \subseteq Touched(c)
      /\ IdsOf(c.move) \subseteq Touched(c) /\ Touched(c) \subseteq FolderIds
  BY ExactFacts, SentNumbers DEF Touched
<1>2. FolderIds \cap TempIds = {} /\ 0 \notin FolderIds \cup TempIds
  BY ConstantsAssumption DEF ClientsAreExact, IdsApart
<1>3. AppliedTo(m, c, AsSent(c), q) /\ AppliedTo(n, c, AsSent(c), p)
  BY <1>1, ApplyTree
<1>4. /\ DOMAIN q = (DOMAIN m \cup T) \ IdsOf(c.delete)
      /\ DOMAIN p = (DOMAIN n \cup T) \ IdsOf(c.delete)
  BY <1>1, <1>3 DEF AppliedTo
<1>5. /\ Sound(n, E) /\ \A S \in Detached(n) : TwoMove(E, S)
      /\ Sound(q, {}) /\ Detached(q) = {} /\ Early({}) = {}
  BY TreeIsGood DEF Good, Early
<1>6. ASSUME NEW f \in DOMAIN p, f \in IdsOf(c.move) \/ f \in T
      PROVE  f \in DOMAIN q /\ q[f].father = p[f].father
  <2>1. f \in DOMAIN q
    BY <1>1, <1>4, <1>6
  <2>2. CASE f \in IdsOf(c.move)
    BY <1>3, <2>1, <2>2 DEF IdsOf, AppliedTo
  <2>3. CASE f \in T
    <3>1. PICK op \in c.create : AsSent(c)[op.temp] = f
      BY <2>3 DEF TempIdsOf, AsSent
    <3> QED
      BY <1>3, <2>1, <3>1 DEF AppliedTo
  <2> QED
    BY <1>6, <2>1, <2>2, <2>3
<1>7. ASSUME NEW f \in DOMAIN p, ~(f \in IdsOf(c.move) \/ f \in T)
      PROVE  /\ f \in DOMAIN n /\ p[f].father = n[f].father
             /\ f \in DOMAIN q /\ q[f].father = m[f].father
  <2>1. f \in DOMAIN n /\ p[f].father = n[f].father
    BY <1>1, <1>3, <1>7 DEF AppliedTo
  <2>2. f \in DOMAIN q
    BY <1>4, <2>1
  <2> QED
    BY <1>1, <1>3, <1>7, <2>1, <2>2 DEF AppliedTo
<1>8. Sound(p, E \cup {w})
  <2> SUFFICES ASSUME NEW f \in DOMAIN p, p[f].father # RootRef
               PROVE  \E g \in DOMAIN p \cup Early(E \cup {w}) : p[f].father = FolderRef(g)
    BY SoundIs
  <2>0. Early(E) \subseteq Early(E \cup {w}) /\ w.early \subseteq Early(E \cup {w})
    BY DEF Early
  <2>1. CASE f \in IdsOf(c.move) \/ f \in T
    <3>1. f \in DOMAIN q /\ p[f].father = q[f].father
      BY <1>6, <2>1
    <3>2. PICK g \in DOMAIN q : p[f].father = FolderRef(g)
      BY <1>5, <3>1, SoundIs
    <3>3. g \notin IdsOf(b.delete)
      <4>1. SUFFICES ASSUME g \in IdsOf(b.delete) PROVE FALSE
        OBVIOUS
      <4>2. g \in NewFathers(c, "enduring") \/ g \in T
        BY <1>1, <1>3, <2>1, <3>1, <3>2, <4>1, NamedAfter
      <4> QED
        BY <1>1, <1>2, <4>1, <4>2 DEF Apart
    <3> QED
      BY <1>4, <3>2, <3>3
  <2>2. CASE ~(f \in IdsOf(c.move) \/ f \in T)
    <3>1. /\ f \in DOMAIN n /\ p[f].father = n[f].father
          /\ f \in DOMAIN q /\ q[f].father = m[f].father
      BY <1>7, <2>2
    <3>2. PICK g \in DOMAIN n \cup Early(E) : p[f].father = FolderRef(g)
      BY <1>5, <3>1, SoundIs
    <3>3. g \in w.early \/ g \notin IdsOf(c.delete)
      <4>1. SUFFICES ASSUME g \in IdsOf(c.delete) PROVE g \in w.early
        OBVIOUS
      <4>2. CASE n[f].father = m[f].father
        BY <1>4, <1>5, <3>1, <3>2, <4>1, <4>2, SoundAt
      <4>3. CASE n[f].father # m[f].father
        <5>1. g \in NewFathers(b, "enduring") \/ g \in made
          BY <1>1, <3>1, <3>2, <4>1, <4>3
        <5> QED
          BY <4>1, <5>1 DEF Apart
      <4> QED
        BY <4>2, <4>3
    <3> QED
      BY <1>4, <2>0, <3>2, <3>3
  <2> QED
    BY <2>1, <2>2
<1>9. ASSUME NEW S \in Detached(p)
      PROVE  TwoMove(E \cup {w}, S)
  <2>1. S \subseteq DOMAIN p /\ S # {} /\ \A f \in S : \E g \in S : p[f].father = FolderRef(g)
    BY <1>9, DetachedIs
  <2>2. CASE IdsOf(b.move) \cap S # {} /\ IdsOf(c.move) \cap S # {}
    BY <2>2 DEF TwoMove
  <2>3. CASE IdsOf(c.move) \cap S = {} /\ S \subseteq T
    <3>1. \A f \in S : f \in DOMAIN q /\ q[f].father = p[f].father
      BY <1>6, <2>1, <2>3
    <3> QED
      BY <1>5, <1>9, <3>1, StaysDetached
  <2>4. CASE IdsOf(c.move) \cap S = {} /\ ~(S \subseteq T)
    <3> DEFINE U == S \ T
    <3>1. \A f \in U : f \in DOMAIN n /\ p[f].father = n[f].father
      BY <1>7, <2>1, <2>4
    <3>2. ASSUME NEW f \in U PROVE \E g \in U : n[f].father = FolderRef(g)
      <4>1. PICK g \in S : n[f].father = FolderRef(g)
        BY <2>1, <3>1
      <4>2. g \in DOMAIN n \cup Early(E)
        BY <1>5, <3>1, <4>1, SoundAt
      <4>3. g \notin T
        BY <1>1, <1>2, <4>2
      <4> QED
        BY <4>1, <4>3
    <3>3. U \subseteq DOMAIN n /\ U # {} /\ U \subseteq S
      BY <2>4, <3>1
    <3> HIDE DEF U
    <3>4. U \in Detached(n)
      BY <3>2, <3>3, DetachedIs
    <3>5. TwoMove(E, U)
      BY <1>5, <3>4
    <3> QED
      BY <3>3, <3>5, MoreMove
  <2>5. CASE IdsOf(b.move) \cap S = {}
    <3>1. ASSUME NEW f \in S PROVE f \in DOMAIN q /\ q[f].father = p[f].father
      <4>1. CASE f \in IdsOf(c.move) \/ f \in T
        BY <1>6, <2>1, <4>1
      <4>2. CASE ~(f \in IdsOf(c.move) \/ f \in T)
        <5>1. /\ f \in DOMAIN n /\ p[f].father = n[f].father
              /\ f \in DOMAIN q /\ q[f].father = m[f].father
          BY <1>7, <2>1, <4>2
        <5>2. m[f].father # FolderRef(0)
          BY <1>1, <1>2, <1>4, <1>5, <5>1, SoundAt
        <5> QED
          BY <2>5, <5>1, <5>2
      <4> QED
        BY <4>1, <4>2
    <3> QED
      BY <1>5, <1>9, <3>1, StaysDetached
  <2> QED
    BY <2>2, <2>3, <2>4, <2>5
<1> QED
  BY <1>8, <1>9 DEF Good

-----------------------------------------------------------------------------
(* Along the executions.                                                   *)

\* The execution under way has numbered its folders and is to complete this tree.
Planned == Working /\ ~At("insertFolders")
Now == IF Planned THEN Apply(before, Batch, executor.real) ELSE TreeInTables

\* The requests that have made Now, and those to come.
Past == executed \cup (IF At("idle") \/ At("insertFolders") THEN {} ELSE {executor.req})

\* The tree stays good, whichever of the waiting requests is executed next.
WholeInv ==
  /\ At("insertFolders") => before = TreeInTables
  /\ \A v, w \in waiting : v # w => v.member # w.member /\ Apart(v.batch, w.batch)
  /\ \A r \in waiting \cup executed : \A g \in r.early : g < nextId
  /\ Intact =>
       /\ Good(Now, Past)
       /\ \A w \in waiting \ Past : Good(Apply(Now, w.batch, AsSent(w.batch)), Past \cup {w})

LEMMA ConflictFreeApart ==
  ASSUME ClientsAreExact, NEW b \in BatchType, NEW c \in BatchType, ConflictFolders(b, c) = {}
  PROVE  Apart(b, c) /\ Apart(c, b)
<1>1. /\ MoveConflicts(b, c) = {} /\ DeleteConflicts(b, c) = {} /\ FatherConflicts(b, c) = {}
  BY DEF ConflictFolders
<1>2. \A k \in {"move", "delete"} :
        /\ \A op \in c[k] : op.id \in FolderIds
        /\ \A f : f \in IdsOf(b[k]) => k \in OpsOn(b, f)
  BY DEF BatchType, MoveOps, DeleteOps, OpsOn
<1>3. \A k \in {"move", "delete"} : Considered(c[k], b) = c[k]
  <2>1. TempIdsOf(b) \subseteq TempIds
    BY DEF TempIdsOf, BatchType, CreateOps
  <2> QED
    BY <1>2, <2>1 DEF Considered, ClientsAreExact, IdsApart
<1>4. IdsOf(b.move) \cap IdsOf(c.move) = {}
  BY <1>1, <1>2, <1>3 DEF MoveConflicts
<1>5. IdsOf(c.delete) \cap NewFathers(b, "enduring") = {}
  BY <1>1, <1>3 DEF DeleteConflicts
<1>6. IdsOf(b.delete) \cap NewFathers(c, "enduring") = {}
  BY <1>1, <1>2 DEF FatherConflicts
<1> QED
  BY <1>4, <1>5, <1>6, ConflictFree DEF Apart, ClientsAreExact

\* While an execution is under way, the tree in the tables is the one it is to
\* complete, but for the folders it is still to mount, move or delete.
LEMMA TreeInBetween ==
  ASSUME Inv, ExecutionInv, ClientsAreExact, Planned, Intact
  PROVE  /\ DOMAIN Now = DOMAIN TreeInTables \ IdsOf(Batch.delete)
         /\ \A f \in DOMAIN Now : Now[f].father # TreeInTables[f].father =>
              /\ f \in IdsOf(Batch.move) \/ TreeInTables[f].father = FolderRef(0)
              /\ \A g \in FolderIds : Now[f].father = FolderRef(g) =>
                   g \in NewFathers(Batch, "enduring") \/ g \in Made
<1>1. /\ executor.pc \notin {"idle", "insertFolders", "commit", "cache", "finish"}
      /\ Now = Apply(before, Batch, executor.real)
  BY DEF Planned, Working, At, Now
<1>2. /\ Batch \in Batches /\ Batch \in BatchType /\ OneEach(Batch)
      /\ OncePerFolder(Batch) /\ MovedTwice = {} /\ executor.real \in NumberingType
  <2>1. executor.req \in waiting /\ Batch \in Batches /\ executor.real \in NumberingType
    BY <1>1, BusyBatch DEF At, Inv, TypeOK
  <2> QED
    BY <2>1, BatchFacts, NoneMovedTwice DEF Batch
<1>3. /\ executor.real \in [TempIdsOf(Batch) -> FolderIds]
      /\ \A x, y \in TempIdsOf(Batch) : executor.real[x] = executor.real[y] => x = y
      /\ \A op \in Batch.create :
           /\ executor.real[op.temp] \in DOMAIN folders \ Touched(Batch)
           /\ ~At("insertRelations") => NewRow(op) \in relations
  BY <1>1 DEF ExecutionInv, CreatedInv
<1>4. Numbers(Batch, executor.real) /\ Made = New(Batch, executor.real)
  BY <1>3 DEF Numbers, Made, New, TempIdsOf
<1>5. AppliedTo(before, Batch, executor.real, Now)
  BY <1>1, <1>2, <1>4, ApplyTree
<1>6. /\ DOMAIN folders = DOMAIN before \cup Made
      /\ \A f \in DOMAIN folders \cap DOMAIN before :
           f \notin IdsOf(Batch.move) \cup IdsOf(Batch.delete) => FatherOf(f) = before[f].father
  BY <1>1 DEF ExecutionInv, FrameInv, At
<1>7. DOMAIN Now = DOMAIN TreeInTables \ IdsOf(Batch.delete)
  BY <1>4, <1>5, <1>6, TreeFacts DEF AppliedTo
<1>8. ASSUME NEW f \in DOMAIN Now, Now[f].father # TreeInTables[f].father
      PROVE  /\ f \in IdsOf(Batch.move) \/ TreeInTables[f].father = FolderRef(0)
             /\ f \in IdsOf(Batch.move) \/ f \in New(Batch, executor.real)
  <2>1. f \in DOMAIN folders /\ f \notin IdsOf(Batch.delete) /\ TreeInTables[f].father = FatherOf(f)
    BY <1>7, TreeFacts
  <2>2. CASE f \in New(Batch, executor.real)
    <3>1. PICK op \in Batch.create : executor.real[op.temp] = f
      BY <2>2 DEF New, TempIdsOf
    <3>2. Now[f].father = Resolve(op.father, op.fatherType, executor.real)
      BY <1>5, <3>1 DEF AppliedTo
    <3>3. CASE At("insertRelations")
      <4>1. MountsOf(f) = {}
        <5>1. op.temp \in TempIdsOf(Batch)
          BY DEF TempIdsOf
        <5> QED
          BY <3>1, <3>3, <5>1 DEF Inv, NewFoldersInv, MountsOf
      <4>2. FatherOf(f) = FolderRef(0)
        BY <4>1, FS_EmptySet DEF FatherOf, FatherBy
      <4> QED
        BY <2>1, <2>2, <4>2
    <3>4. CASE ~At("insertRelations")
      <4>1. Row(Resolve(op.father, op.fatherType, executor.real), f) \in relations
        BY <1>3, <3>1, <3>4 DEF NewRow
      <4>2. Resolve(op.father, op.fatherType, executor.real) \in Refs
        BY <1>2, ResolveType DEF BatchType, CreateOps
      <4>3. f \in FolderIds
        BY <2>1 DEF Inv, TypeOK
      <4> QED
        BY <1>2, <1>8, <2>1, <3>2, <4>1, <4>2, <4>3, OnlyMount
    <3> QED
      BY <3>3, <3>4
  <2>3. CASE f \notin New(Batch, executor.real) /\ f \notin IdsOf(Batch.move)
    <3>1. f \in DOMAIN before /\ Now[f].father = before[f].father
      BY <1>5, <2>3 DEF AppliedTo
    <3> QED
      BY <1>6, <1>8, <2>1, <2>3, <3>1
  <2> QED
    BY <2>2, <2>3
<1> QED
  BY <1>2, <1>4, <1>5, <1>7, <1>8, NamedAfter

LEMMA EarlyTypes ==
  ASSUME Inv, WholeInv
  PROVE  /\ Early(waiting \cup executed) \subseteq {g \in FolderIds : g < nextId}
         /\ \A r \in waiting \cup executed : /\ r.batch \in Batches
                                             /\ IdsOf(r.batch.move) \subseteq FolderIds
<1>1. \A r \in waiting \cup executed : r.early \subseteq FolderIds /\ r.batch \in Batches
  BY DEF Inv, TypeOK, RequestType
<1>2. \A r \in waiting \cup executed : IdsOf(r.batch.move) \subseteq FolderIds
  BY <1>1, BatchFacts DEF BatchType, MoveOps, IdsOf
<1> QED
  BY <1>1, <1>2 DEF WholeInv, Early

\* What was deleted early stays older than the next folder.
LEMMA EarlyStaysOld ==
  ASSUME Inv, WholeInv, waiting' \cup executed' \subseteq waiting \cup executed,
         nextId' \in Nat, nextId <= nextId'
  PROVE  \A r \in (waiting \cup executed)' : \A g \in r.early : g < nextId'
<1> SUFFICES ASSUME NEW r \in waiting \cup executed, NEW g \in r.early
             PROVE  g < nextId'
  OBVIOUS
<1>1. g \in Early(waiting \cup executed)
  BY DEF Early
<1>2. g \in Nat /\ g < nextId /\ nextId \in Nat
  BY <1>1, EarlyTypes, ConstantsAssumption DEF Inv, TypeOK
<1> QED
  BY <1>2

LEMMA PastRequests ==
  ASSUME Inv
  PROVE  Past \subseteq waiting \cup executed
BY BusyBatch DEF Past, Inv

\* A step after which the same tree is to be completed.
LEMMA KeepWhole ==
  ASSUME Inv, WholeInv, nextId' \in Nat, nextId <= nextId',
         At("insertFolders")' => before' = TreeInTables',
         waiting' \subseteq waiting, waiting' \cup executed' = waiting \cup executed,
         \/ ~Intact'
         \/ /\ faults' = faults /\ Now' = Now /\ Past' = Past
            /\ waiting' \ Past' \subseteq waiting \ Past
  PROVE  WholeInv'
<1>1. \A r \in (waiting \cup executed)' : \A g \in r.early : g < nextId'
  BY EarlyStaysOld
<1>2. CASE ~Intact'
  BY <1>1, <1>2 DEF WholeInv
<1>3. CASE /\ faults' = faults /\ Now' = Now /\ Past' = Past
           /\ waiting' \ Past' \subseteq waiting \ Past
  <2>1. Intact' => Intact
    BY <1>3 DEF Intact
  <2> QED
    BY <1>1, <1>3, <2>1 DEF WholeInv
<1> QED
  BY <1>2, <1>3

LEMMA SubmitWhole ==
  ASSUME ClientsAreExact, Inv, ExecutionInv, HistoryInv, WholeInv,
         NEW m \in Members, NEW b \in Batches, Submit(m, b)
  PROVE  WholeInv'
<1> DEFINE w == [no |-> submitted, member |-> m, batch |-> b, early |-> DeletedEarly(b)]
<1>1. /\ waiting' = waiting \cup {w} /\ w.member = m /\ w.batch = b /\ w.no = submitted
      /\ w.early = DeletedEarly(b)
      /\ UNCHANGED <<folders, relations, nextId, executor, executed, before, faults>>
      /\ \A v \in waiting : v.member # m /\ ConflictFolders(b, v.batch) = {}
      /\ Touched(b) \subseteq DOMAIN folders
      /\ IsTree(Apply(TreeInTables, b, AsSent(b)))
  BY DEF Submit, OthersWaiting, tables, Touched, AsSent
<1> HIDE DEF w
<1>2. b \in BatchType /\ \A v \in waiting : v.batch \in BatchType /\ v.batch \in Batches
  BY BatchFacts DEF Inv, TypeOK, RequestType
<1>3. \A v \in waiting : Apart(b, v.batch) /\ Apart(v.batch, b)
  BY <1>1, <1>2, ConflictFreeApart
<1>4. TreeInTables' = TreeInTables
  BY <1>1 DEF TreeInTables, FathersInTables, MountsOf
<1>5. Now' = Now /\ Past' = Past
  BY <1>1, <1>4 DEF Now, Planned, Working, Past, At, Batch
<1>6. \A g \in w.early : g < nextId
  <2>1. w.early \subseteq DOMAIN folders
    BY <1>1 DEF DeletedEarly, Touched
  <2> QED
    BY <2>1 DEF Inv, IdsInv
<1>7. ASSUME Intact'
      PROVE  /\ Intact
             /\ Good(Apply(Now, b, AsSent(b)), Past \cup {w})
  <2>3. Intact /\ OncePerFolder(b)
    BY <1>1, <1>7 DEF Intact
  <2>1. CASE ~Planned
    <3>1. Now = TreeInTables
      BY <2>1 DEF Now
    <3> QED
      BY <1>1, <2>3, <3>1, TreeIsGood
  <2>2. CASE Planned
    <3>1. /\ executor.req \in waiting /\ executor.req \in Past /\ Working
      BY <2>2, BusyBatch DEF Planned, Working, At, Past, Inv
    <3>2. w.early = IdsOf(w.batch.delete) \cap Made
      BY <1>1, <3>1 DEF DeletedEarly
    <3>3. Early(Past) \subseteq FolderIds
      BY EarlyTypes, PastRequests DEF Early
    <3>4. DOMAIN TreeInTables \subseteq FolderIds /\ Touched(b) \subseteq DOMAIN TreeInTables
      BY <1>1, TreeFacts DEF Inv, TypeOK
    <3>5. Good(Now, Past)
      BY <2>3 DEF WholeInv
    <3> DEFINE r == executor.req
               now == Now
               tree == TreeInTables
               made == Made
    <3>6. /\ DOMAIN now = DOMAIN tree \ IdsOf(r.batch.delete)
          /\ \A f \in DOMAIN now : now[f].father # tree[f].father =>
               /\ f \in IdsOf(r.batch.move) \/ tree[f].father = FolderRef(0)
               /\ \A g \in FolderIds : now[f].father = FolderRef(g) =>
                    g \in NewFathers(r.batch, "enduring") \/ g \in made
      BY <2>2, <2>3, TreeInBetween DEF Batch
    <3>7. /\ r.batch \in Exact /\ r.member # w.member /\ Apart(r.batch, w.batch) /\ Apart(w.batch, r.batch)
      BY <1>1, <1>2, <1>3, <2>3, <3>1, NoneMovedTwice DEF Exact
    <3>8. /\ IsTree(Apply(tree, w.batch, AsSent(w.batch))) /\ Touched(w.batch) \subseteq DOMAIN tree
          /\ DOMAIN tree \subseteq FolderIds /\ w.batch \in Exact
      BY <1>1, <2>3, <3>4 DEF Exact
    <3> HIDE DEF r, now, tree, made
    <3>9. Good(Apply(now, w.batch, AsSent(w.batch)), Past \cup {w})
      BY <3>1, <3>2, <3>3, <3>5, <3>6, <3>7, <3>8, TreeForNew DEF r, now, made
    <3> QED
      BY <1>1, <2>3, <3>9 DEF now
  <2> QED
    BY <2>1, <2>2
<1> QED
  BY <1>1, <1>3, <1>4, <1>5, <1>6, <1>7 DEF WholeInv, At

\* The step that numbers the folders of a request, or that begins it if there are
\* none, settles the tree.
LEMMA JumpWhole ==
  ASSUME ClientsAreExact, Inv, WholeInv, Intact, NEW r \in waiting \ Past,
         NEW real, Numbers(r.batch, real),
         \A g \in New(r.batch, real) : g \in FolderIds \ DOMAIN Now /\ nextId <= g,
         DOMAIN Now \subseteq FolderIds,
         \A w \in waiting \ (Past \cup {r}) : Touched(w.batch) \subseteq DOMAIN Now,
         waiting' = waiting, executed' = executed, nextId' \in Nat, nextId <= nextId',
         ~At("insertFolders")', Past' = Past \cup {r}, Now' = Apply(Now, r.batch, real)
  PROVE  WholeInv'
<1> DEFINE new == New(r.batch, real)
<1>1. /\ Early(Past) \subseteq FolderIds \ new
      /\ \A w \in waiting : Early(Past \cup {w}) \subseteq FolderIds \ new
      /\ \A v \in Past \cup {r} : IdsOf(v.batch.move) \subseteq FolderIds
      /\ \A w \in waiting : w.batch \in Exact
  <2>1. Early(waiting \cup executed) \subseteq FolderIds \ new
    <3>1. ASSUME NEW g \in Early(waiting \cup executed) PROVE g \in FolderIds /\ g \notin new
      <4>1. g \in FolderIds /\ g < nextId
        BY EarlyTypes
      <4>2. g \in Nat /\ nextId \in Nat
        BY <4>1, ConstantsAssumption DEF Inv, TypeOK
      <4> QED
        BY <4>1, <4>2
    <3> QED
      BY <3>1
  <2>2. \A w \in waiting : /\ Early(Past \cup {w}) \subseteq Early(waiting \cup executed)
                           /\ Early(Past) \subseteq Early(waiting \cup executed)
    BY PastRequests DEF Early
  <2>3. \A w \in waiting : w.batch \in Exact
    BY EarlyTypes, NoneMovedTwice DEF Exact
  <2> QED
    BY <2>1, <2>2, <2>3, EarlyTypes, PastRequests
<1>2. /\ Good(Now, Past) /\ Sound(Now, Past)
      /\ \A w \in waiting \ Past : Good(Apply(Now, w.batch, AsSent(w.batch)), Past \cup {w})
  BY DEF WholeInv, Good
<1>3. Good(Now', Past')
  <2> DEFINE now == Now
  <2>1. new \subseteq FolderIds /\ new \cap DOMAIN now = {} /\ DOMAIN now \subseteq FolderIds
    OBVIOUS
  <2>2. Sound(now, Past) /\ Good(Apply(now, r.batch, AsSent(r.batch)), Past \cup {r})
    BY <1>2
  <2> HIDE DEF now
  <2>3. Good(Apply(now, r.batch, real), Past \cup {r})
    BY <1>1, <2>1, <2>2, NumberedTree
  <2> QED
    BY <2>3 DEF now
<1>4. ASSUME NEW w \in waiting' \ Past'
      PROVE  Good(Apply(Now', w.batch, AsSent(w.batch)), Past' \cup {w})
  <2> DEFINE now == Now
  <2>1. /\ w \in waiting \ Past /\ w # r
        /\ Past' \cup {w} = Past \cup {r, w}
    OBVIOUS
  <2>2. r.member # w.member /\ Apart(r.batch, w.batch) /\ Apart(w.batch, r.batch)
    BY <2>1 DEF WholeInv
  <2>3. new \subseteq FolderIds \ DOMAIN now /\ DOMAIN now \subseteq FolderIds /\ Touched(w.batch) \subseteq DOMAIN now
    BY <2>1
  <2>4. /\ Good(Apply(now, r.batch, real), Past \cup {r})
        /\ Good(Apply(now, w.batch, AsSent(w.batch)), Past \cup {w})
    BY <1>2, <1>3, <2>1
  <2>5. Early(Past \cup {w}) \subseteq FolderIds \ new /\ Early(Past \cup {r}) \subseteq FolderIds
    BY <1>1, <2>1
  <2> HIDE DEF now
  <2>6. Good(Apply(Apply(now, r.batch, real), w.batch, AsSent(w.batch)), Past \cup {r, w})
    BY <1>1, <2>1, <2>2, <2>3, <2>4, <2>5, TreeForOthers
  <2> QED
    BY <2>1, <2>6 DEF now
<1>5. \A v \in (waiting \cup executed)' : \A g \in v.early : g < nextId'
  BY EarlyStaysOld
<1> QED
  BY <1>3, <1>4, <1>5 DEF WholeInv

\* The statements after the folders have their numbers.
LEMMA PlannedStep ==
  ASSUME Inv, TablesStep, ~Commit, ~InsertFolders
  PROVE  /\ Planned /\ UNCHANGED <<waiting, executed, before, nextId>>
         /\ \/ GiveUp
            \/ /\ executor'.req = executor.req /\ executor'.real = executor.real
               /\ faults' = faults
               /\ executor'.pc \in {"findRelations", "deleteRelations", "createRelations",
                                    "rename", "dropRelations", "dropFolders", "commit"}
<1>1. CASE InsertRelations
  <2>1. AfterCreate(Batch) \in Stages
    BY StagesAfter DEF Stages
  <2> QED
    BY <1>1, <2>1, GoKeeps, StagesAfter DEF InsertRelations, At, Working, Planned
<1>2. CASE FindRelations \/ \E row \in executor.old : DeleteRelation(row)
  BY <1>2 DEF FindRelations, DeleteRelation, tables, At, Working, Planned, Inv, TypeOK
<1>3. CASE CreateRelations
  <2>1. AfterMove(Batch) \in Stages
    BY StagesAfter DEF Stages
  <2> QED
    BY <1>3, <2>1, GoKeeps, StagesAfter DEF CreateRelations, At, Working, Planned
<1>4. CASE Rename
  <2>1. AfterRename(Batch) \in Stages
    BY StagesAfter DEF Stages
  <2> QED
    BY <1>4, <2>1, GoKeeps, StagesAfter DEF Rename, At, Working, Planned
<1>5. CASE DropRelations \/ DropFolders
  BY <1>5, GoKeeps DEF DropRelations, DropFolders, At, Working, Stages, Planned
<1> QED
  BY <1>1, <1>2, <1>3, <1>4, <1>5 DEF TablesStep

LEMMA PlannedStepWhole ==
  ASSUME Inv, Inv', WholeInv, CommittedOK', TablesStep, ~Commit, ~InsertFolders
  PROVE  WholeInv'
<1>1. /\ Planned /\ UNCHANGED <<waiting, executed, before, nextId>>
      /\ \/ GiveUp
         \/ /\ executor'.req = executor.req /\ executor'.real = executor.real
            /\ faults' = faults
            /\ executor'.pc \in {"findRelations", "deleteRelations", "createRelations",
                                 "rename", "dropRelations", "dropFolders", "commit"}
  BY PlannedStep
<1>2. nextId' \in Nat /\ nextId <= nextId' /\ faults \in Nat
  BY <1>1 DEF Inv, TypeOK
<1>3. CASE GiveUp
  <2>1. ~Intact' /\ ~At("insertFolders")'
    BY <1>2, <1>3 DEF GiveUp, Idle, At, Intact
  <2> QED
    BY <1>1, <1>2, <2>1, KeepWhole
<1>4. CASE ~GiveUp
  <2>1. ~At("insertFolders")' /\ ~At("idle")' /\ Past' = Past
    BY <1>1, <1>4 DEF At, Past, Planned, Working
  <2>2. Batch' = Batch /\ Now = Apply(before, Batch, executor.real)
    BY <1>1, <1>4 DEF Batch, Now
  <2>3. ASSUME Intact' PROVE Now' = Now
    <3>1. CASE executor'.pc = "commit"
      <4>1. ~Planned' /\ Now' = TreeInTables'
        BY <3>1 DEF Planned, Working, Now
      <4>2. TreeInTables' = Apply(before', Batch', executor'.real)
        BY <2>3, <3>1 DEF CommittedOK, At
      <4> QED
        BY <1>1, <1>4, <2>2, <4>1, <4>2
    <3>2. CASE executor'.pc # "commit"
      <4>1. Planned'
        BY <1>1, <1>4, <3>2 DEF Planned, Working, At
      <4>2. Now' = Apply(before', Batch', executor'.real)
        BY <4>1 DEF Now
      <4> QED
        BY <1>1, <1>4, <2>2, <4>2
    <3> QED
      BY <3>1, <3>2
  <2> QED
    BY <1>1, <1>2, <1>4, <2>1, <2>3, KeepWhole
<1> QED
  BY <1>3, <1>4

LEMMA InsertFoldersWhole ==
  ASSUME ClientsAreExact, Inv, Inv', ExecutionInv, HistoryInv, ExistInv, WholeInv, InsertFolders
  PROVE  WholeInv'
<1>1. /\ At("insertFolders") /\ Past = executed /\ Now = TreeInTables /\ before = TreeInTables
      /\ executor.req \in waiting \ Past /\ Batch \in Batches
      /\ DOMAIN Now = DOMAIN folders
  BY BusyBatch, TreeFacts
     DEF InsertFolders, At, Past, Now, Planned, WholeInv, Inv, HistoryInv
<1> DEFINE r == executor.req
           real == executor'.real
           ids == nextId .. (nextId + Cardinality(Batch.create) - 1)
<1>2. /\ ids \subseteq FolderIds /\ real \in Numberings(Batch, (FolderIds \cup TempIds) \ ids)
      /\ executor'.pc = "insertRelations" /\ executor'.req = executor.req
      /\ nextId' = nextId + Cardinality(Batch.create)
      /\ UNCHANGED <<waiting, executed, before, faults>>
  BY DEF InsertFolders, Inv, TypeOK
<1>3. /\ Cardinality(Batch.create) \in Nat /\ nextId \in Nat /\ nextId' \in Nat /\ nextId <= nextId'
      /\ faults \in Nat
  BY <1>1, <1>2, BatchFacts, FS_CardinalityType DEF Inv, TypeOK
<1> DEFINE b == Batch
<1>4. /\ real \in [TempIdsOf(b) -> FolderIds] /\ \A x \in TempIdsOf(b) : nextId <= real[x]
      /\ \A x, y \in TempIdsOf(b) : real[x] = real[y] => x = y
  BY <1>2, <1>3 DEF Numberings
<1>5. /\ r.batch = b /\ \A f \in Touched(b) : f \in Nat /\ f < nextId
  <2>1. Touched(b) \subseteq FolderIds
    BY <1>1, BatchFacts, SentNumbers
  <2> QED
    BY <1>1, <2>1, ConstantsAssumption DEF ExecutionInv, OldIds, Batch
<1>6. \A f \in DOMAIN Now : f \in FolderIds /\ f \in Nat /\ f < nextId
  BY <1>1, ConstantsAssumption DEF Inv, TypeOK, IdsInv
<1>7. /\ ~At("insertFolders")' /\ Past' = Past \cup {r}
      /\ Now' = Apply(Now, r.batch, real)
  <2>1. /\ Planned' /\ ~At("insertFolders")' /\ ~At("idle")' /\ Batch' = Batch
    BY <1>2 DEF Planned, Working, At, Batch
  <2>2. Now' = Apply(before', Batch', executor'.real)
    BY <2>1 DEF Now
  <2>3. Past' = executed' \cup {executor'.req}
    BY <2>1 DEF Past
  <2> QED
    BY <1>1, <1>2, <1>5, <2>1, <2>2, <2>3
<1> HIDE DEF real, ids, b
<1>8. Numbers(r.batch, real)
  BY <1>3, <1>4, <1>5 DEF Numbers
<1>9. \A g \in New(r.batch, real) : g \in FolderIds \ DOMAIN Now /\ nextId <= g
  BY <1>3, <1>4, <1>5, <1>6 DEF New
<1>10. CASE ~Intact
  <2>1. ~Intact'
    BY <1>2, <1>10 DEF Intact
  <2> QED
    BY <1>2, <1>3, <1>7, <2>1, KeepWhole
<1>11. CASE Intact
  <2>1. \A w \in waiting \ (Past \cup {r}) : Touched(w.batch) \subseteq DOMAIN Now
    BY <1>1, <1>11 DEF ExistInv, Intact, Unfailed
  <2>2. DOMAIN Now \subseteq FolderIds
    BY <1>6
  <2>3. r \in waiting \ Past
    BY <1>1
  <2> HIDE DEF r
  <2> QED
    BY <1>2, <1>3, <1>7, <1>8, <1>9, <1>11, <2>1, <2>2, <2>3, JumpWhole
<1> QED
  BY <1>10, <1>11

LEMMA StartWhole ==
  ASSUME ClientsAreExact, Inv, Inv', HistoryInv, ExistInv, WholeInv, CommittedOK',
         NEW r \in waiting, Start(r)
  PROVE  WholeInv'
<1>1. /\ At("idle") /\ executor'.pc = FirstStage(r.batch) /\ executor'.req = r
      /\ executor'.real = Empty /\ before' = TreeInTables
      /\ UNCHANGED <<folders, relations, nextId, waiting, executed, faults>>
  BY DEF Start, Idle, tables
<1>2. /\ r \notin executed /\ Past = executed /\ Now = TreeInTables
      /\ Batch' = r.batch /\ nextId \in Nat /\ nextId' \in Nat /\ nextId <= nextId' /\ faults \in Nat
  BY <1>1 DEF HistoryInv, Past, Now, Planned, Working, At, Batch, Inv, TypeOK
<1>3. TreeInTables' = TreeInTables
  BY <1>1 DEF TreeInTables, FathersInTables, MountsOf
<1>4. CASE FirstStage(r.batch) = "insertFolders"
  <2>1. Now' = Now /\ Past' = Past
    BY <1>1, <1>2, <1>3, <1>4 DEF Now, Planned, Past, At
  <2> QED
    BY <1>1, <1>2, <1>3, <2>1, KeepWhole
<1>5. CASE FirstStage(r.batch) # "insertFolders"
  <2>1. r.batch.create = {}
    BY <1>5, StagesSkip
  <2>2. FirstStage(r.batch) \in
          {"insertFolders", "findRelations", "rename", "dropRelations", "commit"}
    BY StagesAfter
  <2>3. ~At("insertFolders")' /\ Past' = Past \cup {r}
    BY <1>1, <1>2, <1>5, <2>2 DEF At, Past
  <2>4. ASSUME Intact' PROVE Now' = Apply(TreeInTables, r.batch, Empty)
    <3>1. CASE FirstStage(r.batch) = "commit"
      <4>1. Now' = TreeInTables'
        BY <1>1, <3>1 DEF Now, Planned, Working
      <4>2. TreeInTables' = Apply(before', Batch', executor'.real)
        BY <1>1, <2>4, <3>1 DEF CommittedOK, At
      <4> QED
        BY <1>1, <1>2, <4>1, <4>2
    <3>2. CASE FirstStage(r.batch) # "commit"
      <4>1. Planned'
        BY <1>1, <1>5, <2>2, <3>2 DEF Planned, Working, At
      <4>2. Now' = Apply(before', Batch', executor'.real)
        BY <4>1 DEF Now
      <4> QED
        BY <1>1, <1>2, <4>2
    <3> QED
      BY <3>1, <3>2
  <2>5. TempIdsOf(r.batch) = {}
    BY <2>1 DEF TempIdsOf
  <2>6. Numbers(r.batch, Empty) /\ New(r.batch, Empty) = {}
    BY <2>5 DEF Numbers, Empty, New
  <2>7. DOMAIN Now = DOMAIN folders /\ DOMAIN Now \subseteq FolderIds
    BY <1>2, TreeFacts DEF Inv, TypeOK
  <2>8. CASE ~Intact
    <3>1. ~Intact'
      BY <1>1, <2>8 DEF Intact
    <3> QED
      BY <1>1, <1>2, <2>3, <3>1, KeepWhole
  <2>9. CASE Intact
    <3>1. \A w \in waiting \ (Past \cup {r}) : Touched(w.batch) \subseteq DOMAIN Now
      BY <1>1, <2>7, <2>9 DEF ExistInv, Intact, Unfailed
    <3>2. Now' = Apply(Now, r.batch, Empty) /\ r \in waiting \ Past
      BY <1>1, <1>2, <2>4, <2>9 DEF Intact
    <3>3. \A g \in New(r.batch, Empty) : g \in FolderIds \ DOMAIN Now /\ nextId <= g
      BY <2>6
    <3> QED
      BY <1>1, <1>2, <2>3, <2>6, <2>7, <2>9, <3>1, <3>2, <3>3, JumpWhole
  <2> QED
    BY <2>8, <2>9
<1> QED
  BY <1>4, <1>5

\* Steps that change neither the tables nor, unless they fail, what is past.
LEMMA OtherWhole ==
  ASSUME Inv, Inv', HistoryInv, WholeInv,
         Commit \/ Fail \/ CacheStep \/ Finish \/ UNCHANGED vars
  PROVE  WholeInv'
<1>1. nextId' \in Nat /\ nextId' = nextId /\ nextId <= nextId' /\ faults \in Nat
  <2>1. nextId' = nextId
    BY DEF Commit, Fail, CacheStep, CacheCreate, CacheMove, CacheRename, CacheDelete, WriteEntry,
           BumpProjectVersion, Finish, tables, vars
  <2> QED
    BY <2>1 DEF Inv, TypeOK
<1>2. CASE GiveUp /\ UNCHANGED <<waiting, executed>>
  <2>1. ~Intact' /\ ~At("insertFolders")'
    BY <1>1, <1>2 DEF GiveUp, Idle, At, Intact
  <2> QED
    BY <1>1, <1>2, <2>1, KeepWhole
<1>3. CASE Fail
  BY <1>2, <1>3 DEF Fail
<1>4. CASE UNCHANGED vars
  <2>1. UNCHANGED <<folders, relations, waiting, executor, executed, before, faults>>
    BY <1>4 DEF vars
  <2>2. TreeInTables' = TreeInTables
    BY <2>1 DEF TreeInTables, FathersInTables, MountsOf
  <2>3. Now' = Now /\ Past' = Past /\ (At("insertFolders")' => before' = TreeInTables')
    BY <2>1, <2>2 DEF Now, Planned, Working, At, Batch, Past, WholeInv
  <2> QED
    BY <1>1, <2>1, <2>3, KeepWhole
<1>5. ASSUME executor.pc \in {"commit", "cache"}, executor'.pc \in {"cache", "finish"},
             executor'.req = executor.req,
             UNCHANGED <<folders, relations, waiting, executed, faults>>
      PROVE  WholeInv'
  <2>1. TreeInTables' = TreeInTables
    BY <1>5 DEF TreeInTables, FathersInTables, MountsOf
  <2>2. Now' = Now /\ Past' = Past /\ ~At("insertFolders")'
    BY <1>5, <2>1 DEF Now, Planned, Working, Past, At
  <2> QED
    BY <1>1, <1>5, <2>2, KeepWhole
<1>6. CASE Commit
  <2>1. executor'.pc = "cache" /\ executor'.req = executor.req
    BY <1>6, GoKeeps DEF Commit, Stages
  <2> QED
    BY <1>5, <1>6, <2>1 DEF Commit, At, tables
<1>7. CASE CacheStep
  <2>1. /\ At("cache") /\ UNCHANGED <<folders, relations, waiting, executed>>
        /\ \/ GiveUp
           \/ /\ faults' = faults /\ executor'.req = executor.req
              /\ executor'.pc \in {"cache", "finish"}
    <3>1. ASSUME NEW f, NEW fields, NEW rest, WriteEntry(f, fields, rest)
          PROVE  /\ At("cache") /\ UNCHANGED <<folders, relations, waiting, executed>>
                 /\ \/ GiveUp
                    \/ faults' = faults /\ executor'.req = executor.req /\ executor'.pc = "cache"
      BY <3>1 DEF WriteEntry, At, tables, Inv, TypeOK
    <3>2. ASSUME NEW op \in Todo.delete, CacheDelete(op)
          PROVE  /\ At("cache") /\ UNCHANGED <<folders, relations, waiting, executed>>
                 /\ \/ GiveUp
                    \/ faults' = faults /\ executor'.req = executor.req /\ executor'.pc = "cache"
      BY <3>2 DEF CacheDelete, At, tables, Inv, TypeOK
    <3>3. CASE BumpProjectVersion
      BY <3>3, GoKeeps DEF BumpProjectVersion, At, tables, Stages
    <3> QED
      BY <1>7, <3>1, <3>2, <3>3 DEF CacheStep, CacheCreate, CacheMove, CacheRename
  <2> QED
    BY <1>2, <1>5, <2>1 DEF At
<1>8. CASE Finish
  <2>1. /\ At("finish") /\ executor.req \in waiting
        /\ waiting' = waiting \ {executor.req} /\ executed' = executed \cup {executor.req}
        /\ executor'.pc = "idle" /\ UNCHANGED <<folders, relations, faults>>
    BY <1>8, BusyBatch, IdleType DEF Finish, At, tables, Inv
  <2>2. TreeInTables' = TreeInTables
    BY <2>1 DEF TreeInTables, FathersInTables, MountsOf
  <2>3. Now' = Now /\ Past' = Past /\ ~At("insertFolders")'
    BY <2>1, <2>2 DEF Now, Planned, Working, Past, At
  <2>4. waiting' \subseteq waiting /\ waiting' \cup executed' = waiting \cup executed
        /\ waiting' \ Past' \subseteq waiting \ Past
    BY <2>1, <2>3
  <2> QED
    BY <1>1, <2>1, <2>3, <2>4, KeepWhole
<1> QED
  BY <1>3, <1>4, <1>6, <1>7, <1>8

LEMMA NextWhole ==
  ClientsAreExact /\ Inv /\ Inv' /\ ExecutionInv /\ HistoryInv /\ CommittedOK' /\ ExistInv /\ WholeInv
  /\ [Next]_vars => WholeInv'
<1> SUFFICES ASSUME ClientsAreExact, Inv, Inv', ExecutionInv, HistoryInv, CommittedOK', ExistInv,
                    WholeInv, [Next]_vars
             PROVE  WholeInv'
  OBVIOUS
<1>1. CASE \E m \in Members, b \in Batches : Submit(m, b)
  BY <1>1, SubmitWhole
<1>2. CASE \E r \in waiting : Start(r)
  BY <1>2, StartWhole
<1>3. CASE TablesStep
  BY <1>3, InsertFoldersWhole, PlannedStepWhole, OtherWhole
<1>4. CASE Fail \/ CacheStep \/ Finish \/ UNCHANGED vars
  BY <1>4, OtherWhole
<1> QED
  BY <1>1, <1>2, <1>3, <1>4 DEF Next

LEMMA InitWhole == ClientsAreExact /\ Init => WholeInv
<1> SUFFICES ASSUME ClientsAreExact, Init PROVE WholeInv
  OBVIOUS
<1>1. IsTree(InitialTree) /\ \A f \in DOMAIN InitialTree : InitialTree[f].father \in Refs
  BY ConstantsAssumption
<1>2. /\ DOMAIN TreeInTables = DOMAIN InitialTree
      /\ \A f \in DOMAIN InitialTree : TreeInTables[f].father = InitialTree[f].father
  <2>1. \A f \in DOMAIN InitialTree :
          /\ f \in FolderIds /\ InitialTree[f].father \in Refs
          /\ Row(InitialTree[f].father, f) \in relations
    BY <1>1, ConstantsAssumption DEF Init
  <2>2. \A f \in DOMAIN InitialTree : FatherOf(f) = InitialTree[f].father
    BY <2>1, InitInv, OnlyMount DEF Init, MovedTwice
  <2> QED
    BY <2>2, TreeFacts DEF Init
<1>3. IsTree(TreeInTables)
  BY <1>1, <1>2 DEF IsTree, HangsTogether, Detached
<1>4. Now = TreeInTables /\ waiting = {} /\ executed = {} /\ ~At("insertFolders")
  BY DEF Init, Idle, At, Now, Planned, Working
<1> QED
  BY <1>3, <1>4, TreeIsGood DEF WholeInv

\* Whatever the members submit, at any time and executed in any order: as long as
\* nothing fails and no batch moves a folder twice, every folder hangs on the root or on a folder that exists, but
\* for the children of one that was deleted while it was being made, and only
\* folders that two members moved can come off the root together.
THEOREM TreeIsKept ==
  ASSUME ClientsAreExact
  PROVE  Spec => []TreeSurvives
<1> DEFINE I == ExistInv /\ WholeInv
           J == Inv /\ ExecutionInv /\ HistoryInv /\ CommittedOK
<1>1. Init => I
  BY InitWhole, InitCurrent
<1>2. J /\ J' /\ I /\ [Next]_vars => I'
  BY NextExist, NextWhole DEF ClientsAreExact
<1>3. I => TreeSurvives
  <2> SUFFICES ASSUME WholeInv, Intact, At("idle")
               PROVE  /\ \A f \in DOMAIN folders :
                           TreeInTables[f].father \in
                             {RootRef} \cup {FolderRef(g) : g \in DOMAIN folders \cup Early(executed)}
                      /\ \A S \in Detached(TreeInTables) : TwoMove(executed, S)
    BY DEF TreeSurvives, Early, TwoMove
  <2>1. Now = TreeInTables /\ Past = executed
    BY DEF Now, Planned, Working, Past, At
  <2>2. Good(TreeInTables, executed)
    BY <2>1 DEF WholeInv
  <2> QED
    BY <2>2, TreeFacts DEF Good, Sound
<1> QED
  BY <1>1, <1>2, <1>3, Executions, PTL DEF Spec
=============================================================================
