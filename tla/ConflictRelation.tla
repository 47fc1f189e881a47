-------------------------- MODULE ConflictRelation --------------------------
(***************************************************************************)
(* The folders on which two batches are in conflict, as CheckConflict      *)
(* finds them and as its comment documents them.                           *)
(*                                                                         *)
(* A batch is four sets of operations.  The code works with maps and a set *)
(* of folder ids, so neither the order of the operations nor a repeated    *)
(* one makes a difference.  An id is a number without a type of its own;   *)
(* whether it names a folder or a folder the batch creates is said by a    *)
(* father type, and for the folder an operation is about by nothing at all.*)
(***************************************************************************)
CONSTANTS
  FolderIds,   \* ids of folders ("enduring")
  TempIds      \* ids a client gives to the folders its batch creates ("temp")

Ids == FolderIds \cup TempIds
FatherTypes == {"enduring", "temp"}

-----------------------------------------------------------------------------
(* What the code collects of the current batch.                            *)

IdsOf(ops) == {op.id : op \in ops}
FathersOf(ops, type) == {op.father : op \in {o \in ops : o.fatherType = type}}
TempIdsOf(b) == {op.temp : op \in b.create}

\* currentOps[id]: the kinds of operation the batch performs on the id.
OpsOn(b, id) == {kind \in {"move", "rename", "delete"} : id \in IdsOf(b[kind])}

\* The folders under which the batch puts a folder.
NewFathers(b, type) == FathersOf(b.move, type) \cup FathersOf(b.create, type)

-----------------------------------------------------------------------------
(* The folders in conflict, part by part of the loop of CheckConflict.  A  *)
(* pending operation on an id that the current batch uses as a temporary   *)
(* one is skipped.                                                         *)

Considered(ops, mine) == {op \in ops : op.id \notin TempIdsOf(mine)}

MoveConflicts(mine, theirs) ==
  {id \in IdsOf(Considered(theirs.move, mine)) :
     OpsOn(mine, id) \cap {"move", "delete"} # {}}
  \cup
  {id \in FathersOf(Considered(theirs.move, mine), "temp") : "delete" \in OpsOn(mine, id)}

RenameConflicts(mine, theirs) ==
  {id \in IdsOf(Considered(theirs.rename, mine)) :
     OpsOn(mine, id) \cap {"rename", "delete"} # {}}

DeleteConflicts(mine, theirs) ==
  {id \in IdsOf(Considered(theirs.delete, mine)) :
     OpsOn(mine, id) # {} \/ id \in NewFathers(mine, "enduring")}

\* Mutant of FatherConflicts: the pending creates are left out.
MovedFatherConflicts(mine, theirs) ==
  {id \in FathersOf(theirs.move, "enduring") : "delete" \in OpsOn(mine, id)}

\* Condition 3 the other way round: the current batch deletes the father.
FatherConflicts(mine, theirs) ==
  {id \in NewFathers(theirs, "enduring") : "delete" \in OpsOn(mine, id)}

\* References of the current batch to temporary ids of the pending one.
TempConflicts(mine, theirs) ==
  {id \in NewFathers(mine, "temp") : id \in TempIdsOf(theirs) /\ id \in IdsOf(theirs.delete)}

ConflictFolders(mine, theirs) ==
  UNION {MoveConflicts(mine, theirs), RenameConflicts(mine, theirs),
         DeleteConflicts(mine, theirs), FatherConflicts(mine, theirs),
         TempConflicts(mine, theirs)}

-----------------------------------------------------------------------------
(* The documented conditions (service/project.go:304-309), on the folders  *)
(* of the project.                                                         *)

Touches(b, f) == OpsOn(b, f) # {}
Deletes(b, f) == "delete" \in OpsOn(b, f)

\* 1. two members perform the same operation on a folder
SameOperation(b, c, f) == OpsOn(b, f) \cap OpsOn(c, f) # {}
\* 2. one deletes a folder, the other does anything with it
DeletedAndUsed(b, c, f) == Deletes(b, f) /\ Touches(c, f)
\* 3. one deletes a folder, the other gives it a new child
DeletedAndFilled(b, c, f) == Deletes(b, f) /\ f \in NewFathers(c, "enduring")

InConflict(b, c, f) ==
  \/ SameOperation(b, c, f)
  \/ DeletedAndUsed(b, c, f) \/ DeletedAndUsed(c, b, f)
  \/ DeletedAndFilled(b, c, f) \/ DeletedAndFilled(c, b, f)

DocumentedFolders(b, c) == {f \in Ids : InConflict(b, c, f)}
=============================================================================
