---------------------------- MODULE ApprovedBatch ----------------------------
(***************************************************************************)
(* Execution of approved batches (ApprovedBatchService.ExecuteApproved) on *)
(* the tables virtual_folders and mount_relations and on the folder cache, *)
(* together with the submissions it runs beside.                           *)
(*                                                                         *)
(* One action per SQL statement, and one per operation that is written to  *)
(* the cache.  The batch functions run on r.db and not on the transaction  *)
(* that ExecuteApprovedOps opens, so every statement takes effect at once  *)
(* and a rollback undoes nothing.                                          *)
(***************************************************************************)
EXTENDS FolderTree, FiniteSets

CONSTANTS
  Members,
  Batches,        \* what the members may submit
  InitialTree,
  Cached,         \* the folders that are in the cache at first
  FirstId,        \* the first id that virtual_folders gives out
  OtherRows,      \* relations of files, and calls between folders
  None,
  MaxRequests,    \* bound on the submissions
  MaxFaults       \* bound on the failing calls

Row(father, child) ==
  [parentType |-> father[1], parent |-> father[2], childType |-> "folder", child |-> child,
   kind |-> "mount"]

Rows == [parentType : {"root", "folder"}, parent : FolderIds \cup TempIds \cup {0, Root},
         childType : {"folder", "file"}, child : FolderIds, kind : {"mount", "call"}]

ASSUME ConstantsAssumption ==
  /\ FolderIds \subseteq Nat \ {0} /\ TempIds \subseteq Nat
  /\ Root \in Nat \ {0}
  /\ Batches \subseteq {b \in BatchType : OneEach(b) /\ IsFiniteSet(b.create)}
  /\ DOMAIN InitialTree \subseteq FolderIds
  /\ Cached \subseteq DOMAIN InitialTree
  /\ FirstId \in Nat /\ \A f \in DOMAIN InitialTree : f < FirstId
  /\ \A f \in DOMAIN InitialTree : InitialTree[f] \in [name : Names, father : Refs]
  /\ IsTree(InitialTree)
  /\ OtherRows \subseteq {row \in Rows : row.childType = "file" \/ row.kind = "call"}
  /\ None \notin Names \cup Refs \cup Nat
  /\ MaxRequests \in Nat /\ MaxFaults \in Nat

VARIABLES
  folders,         \* virtual_folders: the names of the rows that are not deleted
  relations,       \* mount_relations: the rows that are not deleted
  nextId,          \* the next id of virtual_folders
  entry,           \* hashes virfolder:{id}: name and father
  version,         \* hash project:{p}:folders: the minor version of each folder
  projectVersion,  \* field projectversion of the hash project:{p}
  waiting,         \* the requests that CheckConflict compares with
  executor,        \* the execution under way
  submitted,       \* number of submissions
  executed,        \* history: the requests executed to the end
  before,          \* history: the tree when the execution under way began
  faults           \* history: number of failed executions

tables == <<folders, relations, nextId>>
cache  == <<entry, version, projectVersion>>
vars   == <<folders, relations, nextId, entry, version, projectVersion, waiting, executor,
            submitted, executed, before, faults>>

NoEntry == [name |-> None, father |-> None]

Empty == [x \in {} |-> 0]
Nothing == [create |-> {}, move |-> {}, rename |-> {}, delete |-> {}]

\* The tree in the tables.
IsMount(row) == row.childType = "folder" /\ row.kind = "mount"

MountsOf(f) == {row \in relations : row.child = f /\ IsMount(row)}

FathersInTables(f) == {<<row.parentType, row.parent>> : row \in MountsOf(f)}

TreeInTables ==
  [f \in DOMAIN folders |->
     [name |-> folders[f],
      father |-> IF Cardinality(MountsOf(f)) = 1 THEN CHOOSE r \in FathersInTables(f) : TRUE
                 ELSE FolderRef(0)]]

-----------------------------------------------------------------------------
(* The executor: the stages of ExecuteApprovedOps and                      *)
(* ApplyApprovedVirtualFolderCache, without those a batch does not need.   *)

Idle == [pc |-> "idle", req |-> None, real |-> Empty, old |-> {}, todo |-> Nothing]

AfterRename(b) == IF b.delete # {} THEN "dropRelations" ELSE "commit"
\* Mutant of AfterMove: a batch that moved folders renames none.
AfterMoveOnly(b) == AfterRename(b)
AfterMove(b) == IF b.rename # {} THEN "rename" ELSE AfterRename(b)
AfterCreate(b) == IF b.move # {} THEN "findRelations" ELSE AfterMove(b)
FirstStage(b) == IF b.create # {} THEN "insertFolders" ELSE AfterCreate(b)

Stages == {"idle", "insertFolders", "insertRelations", "findRelations", "deleteRelations",
           "createRelations", "rename", "dropRelations", "dropFolders", "commit", "cache",
           "finish"}

Batch == executor.req.batch
At(stage) == executor.pc = stage
Go(stage) == executor' = [executor EXCEPT !.pc = stage]

\* An error: the request stays in its list and the execution is over.
GiveUp == executor' = Idle /\ faults' = faults + 1

-----------------------------------------------------------------------------
Init ==
  /\ folders = [f \in DOMAIN InitialTree |-> InitialTree[f].name]
  /\ relations = {Row(InitialTree[f].father, f) : f \in DOMAIN InitialTree} \cup OtherRows
  /\ nextId = FirstId
  /\ entry = [f \in FolderIds |-> IF f \in Cached THEN InitialTree[f] ELSE NoEntry]
  /\ version = [f \in FolderIds |-> IF f \in Cached THEN 0 ELSE None]
  /\ projectVersion = 0
  /\ waiting = {} /\ executor = Idle /\ submitted = 0
  /\ executed = {} /\ before = InitialTree /\ faults = 0

(* A member submits a batch made from the tree as it is.  The client is    *)
(* not part of the repository: a batch it makes turns the tree into a tree *)
(* and names only folders that exist; it makes one at a time.              *)

OthersWaiting(m) == {w \in waiting : w.member # m}

\* History: the folders the batch deletes although the execution that makes
\* them is still changing the tables.
Working == executor.pc \notin {"idle", "commit", "cache", "finish"}
Made == {executor.real[x] : x \in DOMAIN executor.real}
DeletedEarly(b) == IF Working THEN IdsOf(b.delete) \cap Made ELSE {}

Submit(m, b) ==
  /\ submitted < MaxRequests
  /\ \A w \in waiting : w.member # m
  /\ IdsOf(b.move) \cup IdsOf(b.rename) \cup IdsOf(b.delete) \subseteq DOMAIN folders
  /\ IsTree(Apply(TreeInTables, b, [x \in TempIdsOf(b) |-> x]))
  /\ \A w \in OthersWaiting(m) : ConflictFolders(b, w.batch) = {}
  /\ waiting' = waiting \cup
       {[no |-> submitted, member |-> m, batch |-> b, early |-> DeletedEarly(b)]}
  /\ submitted' = submitted + 1
  /\ UNCHANGED <<tables, cache, executor, executed, before, faults>>

\* The consumer begins with an approved request, perhaps one that has failed
\* before; the root is read and a transaction opened, which changes nothing.
Start(r) ==
  /\ At("idle")
  /\ faults <= MaxFaults   \* bound: Rename may fail by itself
  /\ executor' = [Idle EXCEPT !.pc = FirstStage(r.batch), !.req = r, !.todo = r.batch]
  /\ before' = TreeInTables
  /\ UNCHANGED <<tables, cache, waiting, submitted, executed, faults>>

\* A call returns an error and changes nothing.  No statement before it is
\* undone: the rollback is that of a transaction none of them belongs to.
Fail ==
  /\ ~At("idle") /\ faults < MaxFaults
  /\ GiveUp
  /\ UNCHANGED <<tables, cache, waiting, submitted, executed, before>>

InsertFolders ==
  /\ At("insertFolders")
  /\ LET new == nextId .. (nextId + Cardinality(Batch.create) - 1) IN
     /\ new \subseteq FolderIds   \* bound on the ids
     /\ \E real \in Numberings(Batch, (FolderIds \cup TempIds) \ new) :
          /\ folders' = [f \in DOMAIN folders \cup {real[op.temp] : op \in Batch.create} |->
                IF \E op \in Batch.create : real[op.temp] = f
                THEN (CHOOSE op \in Batch.create : real[op.temp] = f).name
                ELSE folders[f]]
          /\ executor' = [executor EXCEPT !.pc = "insertRelations", !.real = real]
  /\ nextId' = nextId + Cardinality(Batch.create)
  /\ UNCHANGED <<relations, cache, waiting, submitted, executed, before, faults>>

\* Mutant of NewRow: the temporary id is stored.
NewRowByTempId(op) == Row(Resolve(op.father, op.fatherType, executor.real), op.temp)
NewRow(op) == Row(Resolve(op.father, op.fatherType, executor.real), executor.real[op.temp])

InsertRelations ==
  /\ At("insertRelations")
  /\ relations' = relations \cup {NewRow(op) : op \in Batch.create}
  /\ Go(AfterCreate(Batch))
  /\ UNCHANGED <<folders, nextId, cache, waiting, submitted, executed, before, faults>>

\* batchMove: the mounts of all the folders that move are read first, ...
\* Mutant of OldMounts: folders under the root are forgotten.
OldFolderMounts ==
  {row \in UNION {MountsOf(f) : f \in IdsOf(Batch.move)} : row.parentType = "folder"}
OldMounts == UNION {MountsOf(f) : f \in IdsOf(Batch.move)}

FindRelations ==
  /\ At("findRelations")
  /\ executor' = [executor EXCEPT !.old = OldMounts,
        !.pc = IF OldMounts = {} THEN "createRelations" ELSE "deleteRelations"]
  /\ UNCHANGED <<tables, cache, waiting, submitted, executed, before, faults>>

\* ... deleted one by one, each with every relation between the same two ids, ...
SamePair(row) == {r \in relations : r.parent = row.parent /\ r.child = row.child}

DeleteRelation(row) ==
  /\ At("deleteRelations")
  /\ relations' = relations \ SamePair(row)
  /\ executor' = [executor EXCEPT !.old = @ \ {row},
        !.pc = IF executor.old = {row} THEN "createRelations" ELSE "deleteRelations"]
  /\ UNCHANGED <<folders, nextId, cache, waiting, submitted, executed, before, faults>>

\* ... and the new ones inserted.
CreateRelations ==
  /\ At("createRelations")
  /\ relations' = relations \cup
       {Row(Resolve(op.father, op.fatherType, executor.real), op.id) : op \in Batch.move}
  /\ Go(AfterMove(Batch))
  /\ UNCHANGED <<folders, nextId, cache, waiting, submitted, executed, before, faults>>

\* batchRename reads the folders and saves those it finds; saving none is an
\* error of the library.
Rename ==
  /\ At("rename")
  /\ LET found == IdsOf(Batch.rename) \cap DOMAIN folders IN
     IF found = {} THEN GiveUp /\ UNCHANGED folders
     ELSE /\ folders' = [f \in DOMAIN folders |->
                          IF f \in found THEN (CHOOSE op \in Batch.rename : op.id = f).name
                          ELSE folders[f]]
          /\ Go(AfterRename(Batch))
          /\ UNCHANGED faults
  /\ UNCHANGED <<relations, nextId, cache, waiting, submitted, executed, before>>

\* batchDelete: the relations in which a deleted folder is the child, then the
\* folders.  Those in which it is the parent stay.
MountedAs(ids) == {row \in relations : row.child \in ids /\ row.childType = "folder"}

DropRelations ==
  /\ At("dropRelations")
  /\ relations' = relations \ MountedAs(IdsOf(Batch.delete))
  /\ Go("dropFolders")
  /\ UNCHANGED <<folders, nextId, cache, waiting, submitted, executed, before, faults>>

DropFolders ==
  /\ At("dropFolders")
  /\ folders' = [f \in DOMAIN folders \ IdsOf(Batch.delete) |-> folders[f]]
  /\ Go("commit")
  /\ UNCHANGED <<relations, nextId, cache, waiting, submitted, executed, before, faults>>

Commit ==
  /\ At("commit")
  /\ Go("cache")
  /\ UNCHANGED <<tables, cache, waiting, submitted, executed, before, faults>>

-----------------------------------------------------------------------------
(* The cache, operation by operation in the order create, move, rename,    *)
(* delete.                                                                 *)

Todo == executor.todo

\* bumpFolderVersion
Bumped(f) == [version EXCEPT ![f] = IF @ = None THEN 0 ELSE @ + 1]

\* fatherCacheFields.
\* Mutant of CachedFather: every father is a folder.
CachedFolder(ref) == FolderRef(ref[2])
CachedFather(ref) == IF ref[1] = "root" THEN RootRef ELSE FolderRef(ref[2])

\* Folder f gets a new version and then new fields; the second write may fail.
WriteEntry(f, fields, rest) ==
  /\ At("cache")
  /\ version' = Bumped(f)
  /\ \/ /\ entry' = [entry EXCEPT ![f] = fields]
        /\ executor' = [executor EXCEPT !.todo = rest]
        /\ UNCHANGED faults
     \/ /\ faults < MaxFaults
        /\ GiveUp
        /\ UNCHANGED entry
  /\ UNCHANGED <<tables, projectVersion, waiting, submitted, executed, before>>

CacheCreate(op) ==
  LET f == executor.real[op.temp] IN
  WriteEntry(f, [name |-> op.name,
                 father |-> CachedFather(Resolve(op.father, op.fatherType, executor.real))],
             [Todo EXCEPT !.create = @ \ {op}])

CacheMove(op) ==
  /\ Todo.create = {}
  /\ WriteEntry(op.id,
        [entry[op.id] EXCEPT
           !.father = CachedFather(Resolve(op.father, op.fatherType, executor.real))],
        [Todo EXCEPT !.move = @ \ {op}])

CacheRename(op) ==
  /\ Todo.create = {} /\ Todo.move = {}
  /\ WriteEntry(op.id, [entry[op.id] EXCEPT !.name = op.name],
                [Todo EXCEPT !.rename = @ \ {op}])

\* A deleted folder leaves the hash of versions first.
CacheDelete(op) ==
  /\ At("cache")
  /\ Todo.create = {} /\ Todo.move = {} /\ Todo.rename = {}
  /\ version' = [version EXCEPT ![op.id] = None]
  /\ \/ /\ entry' = [entry EXCEPT ![op.id] = NoEntry]
        /\ executor' = [executor EXCEPT !.todo.delete = @ \ {op}]
        /\ UNCHANGED faults
     \/ /\ faults < MaxFaults
        /\ GiveUp
        /\ UNCHANGED entry
  /\ UNCHANGED <<tables, projectVersion, waiting, submitted, executed, before>>

Dirty(b) == b # Nothing

BumpProjectVersion ==
  /\ At("cache") /\ Todo = Nothing
  /\ projectVersion' = IF Dirty(Batch) THEN projectVersion + 1 ELSE projectVersion
  /\ Go("finish")
  /\ UNCHANGED <<tables, entry, version, waiting, submitted, executed, before, faults>>

\* The consumer takes the request off the lists.
Finish ==
  /\ At("finish")
  /\ waiting' = waiting \ {executor.req}
  /\ executed' = executed \cup {executor.req}
  /\ executor' = Idle
  /\ UNCHANGED <<tables, cache, submitted, before, faults>>

TablesStep == \/ InsertFolders \/ InsertRelations
              \/ FindRelations \/ (\E row \in executor.old : DeleteRelation(row))
              \/ CreateRelations
              \/ Rename \/ DropRelations \/ DropFolders \/ Commit

CacheStep == \/ \E op \in Todo.create : CacheCreate(op)
             \/ \E op \in Todo.move : CacheMove(op)
             \/ \E op \in Todo.rename : CacheRename(op)
             \/ \E op \in Todo.delete : CacheDelete(op)
             \/ BumpProjectVersion

Next == \/ \E m \in Members, b \in Batches : Submit(m, b)
        \/ \E r \in waiting : Start(r)
        \/ Fail
        \/ TablesStep
        \/ CacheStep
        \/ Finish

Spec == Init /\ [][Next]_vars

-----------------------------------------------------------------------------
(* Properties.                                                             *)

RequestType == [no : Nat, member : Members, batch : Batches, early : SUBSET FolderIds]
NumberingType == UNION {[S -> Ids] : S \in SUBSET TempIds}

TypeOK ==
  /\ DOMAIN folders \subseteq FolderIds /\ folders \in [DOMAIN folders -> Names]
  /\ relations \subseteq Rows
  /\ nextId \in Nat
  /\ entry \in [FolderIds -> [name : Names \cup {None}, father : Refs \cup {None}]]
  /\ version \in [FolderIds -> Nat \cup {None}]
  /\ projectVersion \in Nat
  /\ waiting \subseteq RequestType /\ executed \subseteq RequestType
  /\ executor \in [pc : Stages, req : RequestType \cup {None}, real : NumberingType,
                   old : SUBSET Rows, todo : BatchType]
  /\ ~At("idle") => executor.req \in waiting
  /\ submitted \in Nat /\ faults \in Nat

\* Nothing has failed, and no batch moves a folder twice.
Intact == faults = 0 /\ \A r \in waiting \cup executed : OncePerFolder(r.batch)

MovedTwice ==
  {f \in FolderIds : \E r \in waiting \cup executed :
     \E op, other \in r.batch.move : op.id = f /\ other.id = f /\ op # other}

\* A folder never has two fathers, whatever fails and whoever retries, unless one
\* batch moves it to two: batchMove reads and deletes every mount of a folder
\* before it inserts the new one, but inserts one for every move it is given
\* (approval_pg.go:154-193).  New folders get ids no relation names.
AtMostOneFather ==
  \A row, other \in relations :
    /\ IsMount(row) /\ IsMount(other)
    /\ row.child = other.child /\ row.child \notin MovedTwice
    => row = other

\* Requests that passed the conflict check can be executed in any order: none
\* leaves a folder without a father or under one that another has deleted, as
\* long as nothing fails and no batch moves a folder twice.  There are two
\* exceptions.  Folders that two members moved can come to hang on each
\* other and not on the root, for the check compares no two moves of different
\* folders.  And a folder that was still being made when its deletion was
\* submitted can take its children along, for the check compares that deletion
\* with the temporary id the children name.
TreeSurvives ==
  Intact /\ At("idle") =>
    /\ \A f \in DOMAIN folders :
         TreeInTables[f].father \in
           {RootRef} \cup {FolderRef(g) : g \in DOMAIN folders \cup UNION {r.early : r \in executed}}
    /\ \A S \in Detached(TreeInTables) :
         \E r, q \in executed : /\ r.member # q.member
                                /\ IdsOf(r.batch.move) \cap S # {}
                                /\ IdsOf(q.batch.move) \cap S # {}

\* As long as nothing fails and no batch moves a folder twice, the cache says of
\* a folder between executions what the tables say, and it lists a version only
\* for folders that exist.
CacheAgrees ==
  Intact /\ At("idle") =>
    \A f \in FolderIds :
       /\ entry[f].name # None => f \in DOMAIN folders /\ entry[f].name = folders[f]
       /\ entry[f].father # None =>
             f \in DOMAIN folders /\ entry[f].father = TreeInTables[f].father
       /\ version[f] # None => f \in DOMAIN folders

\* The execution is a transaction: a batch that failed leaves the tables as
\* they were (approval_pg.go:42, "open a transaction").
FailedBatchesLeaveNothing ==
  [][faults' > faults /\ ~At("cache") /\ ~At("finish") => TreeInTables' = before]_vars

\* ExecuteApproved implements AtomicBatches: a request is executed, and the tree
\* changes, when its last statement has been.  Failures, and batches that move a
\* folder twice, are its damage.
Done == executed \cup (IF Working \/ At("idle") THEN {} ELSE {executor.req})

Atomic == INSTANCE AtomicBatches
  WITH tree <- IF Working THEN before ELSE TreeInTables,
       requests <- waiting \cup executed,
       done <- Done,
       intact <- Intact

ImplementsAtomicBatches == Atomic!Spec
=============================================================================
