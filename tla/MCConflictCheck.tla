-------------------------- MODULE MCConflictCheck --------------------------
(* Instances of ConflictCheck for TLC: all batches of one or two operations.*)
EXTENDS ConflictCheck, TLC

Symmetry == Permutations(Members)

Creates == {op \in CreateOps : op.fatherType = "temp" <=> op.father \notin FolderIds}
Moves   == {op \in MoveOps : /\ op.id # op.father
                             /\ op.fatherType = "temp" => op.father \in TempIds
                             /\ op.fatherType = "enduring" => op.father \in FolderIds}

SmallBatches ==
  LET create(op) == [create |-> {op}, move |-> {}, rename |-> {}, delete |-> {}]
      move(op)   == [create |-> {}, move |-> {op}, rename |-> {}, delete |-> {}]
      rename(op) == [create |-> {}, move |-> {}, rename |-> {op}, delete |-> {}]
      delete(op) == [create |-> {}, move |-> {}, rename |-> {}, delete |-> {op}]
      single == {create(op) : op \in Creates} \cup {move(op) : op \in Moves}
                \cup {rename(op) : op \in IdOps} \cup {delete(op) : op \in IdOps}
      join(b, c) == [create |-> b.create \cup c.create, move |-> b.move \cup c.move,
                     rename |-> b.rename \cup c.rename, delete |-> b.delete \cup c.delete]
  IN {join(b, c) : b \in single, c \in single}
=============================================================================
