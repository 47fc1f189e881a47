-------------------------- MODULE MCApprovedBatch --------------------------
(* Instances of ApprovedBatch for TLC.                                     *)
EXTENDS ApprovedBatch, TLC

Symmetry == Permutations(Members)

\* Folder 2 in folder 1, folder 3 beside it.
SmallTree ==
  1 :> [name |-> "old", father |-> RootRef] @@
  2 :> [name |-> "old", father |-> FolderRef(1)] @@
  3 :> [name |-> "old", father |-> RootRef]

NewNames == {"old", "new"}

Creates == {[temp |-> x, father |-> f, fatherType |-> "enduring", name |-> "new"] :
              x \in TempIds, f \in {2, 3}}
Moves == {op \in [id : {1, 2, 3}, father : {1, 3, Root}, fatherType : {"enduring"}] : op.id # op.father}
         \cup [id : {2}, father : TempIds, fatherType : {"temp"}]
Renames == [id : {2, 3}, name : {"new"}]
Removals == [id : {1, 2, 3, 4}]

\* Folder 2 moves to the folders 1 and 3.
TwoFathers ==
  [Nothing EXCEPT !.move = [id : {2}, father : {1, 3}, fatherType : {"enduring"}]]

\* Batches of one or two operations.
SmallBatches ==
  LET upToOne(S) == {{}} \cup {{x} : x \in S}
      batches == [create : upToOne(Creates), move : upToOne(Moves), rename : upToOne(Renames),
                  delete : {D \in SUBSET Removals : Cardinality(D) <= 2}]
  IN {b \in batches \ {Nothing} :
        Cardinality(b.create) + Cardinality(b.move) + Cardinality(b.rename) + Cardinality(b.delete) <= 2}
     \cup {TwoFathers}

\* A file in folder 1, and a call of folder 3 from folder 2.
FileAndCall ==
  {[parentType |-> "folder", parent |-> 1, childType |-> "file", child |-> 4, kind |-> "mount"],
   [parentType |-> "folder", parent |-> 2, childType |-> "folder", child |-> 3, kind |-> "call"]}
=============================================================================
