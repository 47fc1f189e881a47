----------------------------- MODULE FolderTree -----------------------------
(***************************************************************************)
(* Folder trees, and what a batch of operations makes of one.              *)
(*                                                                         *)
(* A tree gives every folder a name and a father.  A father is a pair of a *)
(* type and an id, as in the table mount_relations, because folders and    *)
(* roots are numbered independently of each other.                         *)
(***************************************************************************)
EXTENDS ConflictRelation, Naturals

CONSTANTS
  Root,   \* id of the project's virtual root
  Names

Refs == {"root", "folder"} \X (FolderIds \cup TempIds \cup {0, Root})
RootRef == <<"root", Root>>
FolderRef(f) == <<"folder", f>>

CreateOps == [temp : TempIds, father : Ids \cup {Root}, fatherType : FatherTypes, name : Names]
MoveOps   == [id : FolderIds, father : Ids \cup {Root}, fatherType : FatherTypes]
RenameOps == [id : FolderIds, name : Names]
DeleteOps == [id : FolderIds]

BatchType == [create : SUBSET CreateOps, move : SUBSET MoveOps,
              rename : SUBSET RenameOps, delete : SUBSET DeleteOps]

\* A client numbers the folders of one batch apart.  Of several new names for a
\* folder the tables and the cache take the last, so a batch stands for those
\* that have the same last ones.
OneEach(b) ==
  /\ \A op, other \in b.create : op.temp = other.temp => op = other
  /\ \A op, other \in b.rename : op.id = other.id => op = other

\* No folder moves twice.  Nothing in the code refuses a batch that says so.
OncePerFolder(b) == \A op, other \in b.move : op.id = other.id => op = other

\* The father an operation names.  A temporary id that the batch does not
\* create stands for folder 0, which does not exist.
Resolve(id, type, real) ==
  IF type = "temp" THEN FolderRef(IF id \in DOMAIN real THEN real[id] ELSE 0)
  ELSE IF id = Root THEN RootRef
  ELSE FolderRef(id)

\* No folder hangs on one that is missing, and every folder hangs on the root:
\* no set of folders has all its fathers among itself.
HangsTogether(t) ==
  \A f \in DOMAIN t : t[f].father \in {RootRef} \cup {FolderRef(g) : g \in DOMAIN t}

Detached(t) ==
  {S \in (SUBSET DOMAIN t) \ {{}} : \A f \in S : t[f].father \in {FolderRef(g) : g \in S}}

IsTree(t) == HangsTogether(t) /\ Detached(t) = {}

\* The tree after the batch b; real numbers the folders it creates.
Apply(t, b, real) ==
  LET created == {real[op.temp] : op \in b.create}
      name(f) ==
        IF f \in IdsOf(b.rename) THEN (CHOOSE op \in b.rename : op.id = f).name
        ELSE IF f \in created THEN (CHOOSE op \in b.create : real[op.temp] = f).name
        ELSE t[f].name
      father(f) ==
        LET op == IF f \in IdsOf(b.move) THEN CHOOSE o \in b.move : o.id = f
                  ELSE CHOOSE o \in b.create : real[o.temp] = f
        IN IF f \in IdsOf(b.move) \cup created
           THEN Resolve(op.father, op.fatherType, real)
           ELSE t[f].father
  IN [f \in (DOMAIN t \cup created) \ IdsOf(b.delete) |->
        [name |-> name(f), father |-> father(f)]]

\* A numbering of the folders that b creates, by ids outside of used.
Numberings(b, used) ==
  {real \in [TempIdsOf(b) -> (FolderIds \cup TempIds) \ used] :
     \A x, y \in TempIdsOf(b) : real[x] = real[y] => x = y}
=============================================================================
