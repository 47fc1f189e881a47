------------------------- MODULE ConflictCheckProofs -------------------------
(* Proofs about ConflictCheck, for every set of members, ids and batches.  *)
EXTENDS ConflictCheck, TLAPS

-----------------------------------------------------------------------------
(* What the two collections of a batch contain.                            *)

LEMMA OpsOnMembers ==
  ASSUME NEW b \in BatchType, NEW id
  PROVE  /\ OpsOn(b, id) \subseteq {"move", "rename", "delete"}
         /\ "move"   \in OpsOn(b, id) <=> id \in IdsOf(b.move)
         /\ "rename" \in OpsOn(b, id) <=> id \in IdsOf(b.rename)
         /\ "delete" \in OpsOn(b, id) <=> id \in IdsOf(b.delete)
BY DEF OpsOn, BatchType

LEMMA OpsAreOnFolders ==
  ASSUME NEW b \in BatchType, NEW id, OpsOn(b, id) # {}
  PROVE  id \in FolderIds
BY OpsOnMembers DEF IdsOf, BatchType, MoveOps, IdOps

LEMMA ConsideredIds ==
  ASSUME NEW ops, NEW mine, NEW id
  PROVE  id \in IdsOf(Considered(ops, mine)) <=> id \in IdsOf(ops) /\ id \notin TempIdsOf(mine)
BY DEF IdsOf, Considered

\* One folder at a time: when the code reports it.
Reported(b, c, f) ==
  \/ f \in IdsOf(c.move) /\ f \notin TempIdsOf(b) /\ OpsOn(b, f) \cap {"move", "delete"} # {}
  \/ f \in IdsOf(c.rename) /\ f \notin TempIdsOf(b) /\ OpsOn(b, f) \cap {"rename", "delete"} # {}
  \/ /\ f \in IdsOf(c.delete) /\ f \notin TempIdsOf(b)
     /\ OpsOn(b, f) # {} \/ f \in NewFathers(b, "enduring")
  \/ f \in NewFathers(c, "enduring") /\ "delete" \in OpsOn(b, f)

\* Reports that rest on a temporary id.
ByTempId(b, c, f) ==
  \/ f \in FathersOf(Considered(c.move, b), "temp") /\ "delete" \in OpsOn(b, f)
  \/ f \in NewFathers(b, "temp") /\ f \in TempIdsOf(c) /\ f \in IdsOf(c.delete)

LEMMA ConflictFoldersAre ==
  ASSUME NEW b, NEW c, NEW f
  PROVE  f \in ConflictFolders(b, c) <=> Reported(b, c, f) \/ ByTempId(b, c, f)
<1>1. /\ f \in MoveConflicts(b, c) <=>
            \/ /\ f \in IdsOf(c.move) /\ f \notin TempIdsOf(b)
               /\ OpsOn(b, f) \cap {"move", "delete"} # {}
            \/ f \in FathersOf(Considered(c.move, b), "temp") /\ "delete" \in OpsOn(b, f)
      /\ f \in RenameConflicts(b, c) <=>
            /\ f \in IdsOf(c.rename) /\ f \notin TempIdsOf(b)
            /\ OpsOn(b, f) \cap {"rename", "delete"} # {}
      /\ f \in DeleteConflicts(b, c) <=>
            /\ f \in IdsOf(c.delete) /\ f \notin TempIdsOf(b)
            /\ OpsOn(b, f) # {} \/ f \in NewFathers(b, "enduring")
  BY ConsideredIds DEF MoveConflicts, RenameConflicts, DeleteConflicts
<1>2. /\ f \in FatherConflicts(b, c) <=>
            f \in NewFathers(c, "enduring") /\ "delete" \in OpsOn(b, f)
      /\ f \in TempConflicts(b, c) <=>
            f \in NewFathers(b, "temp") /\ f \in TempIdsOf(c) /\ f \in IdsOf(c.delete)
  BY DEF FatherConflicts, TempConflicts
<1>3. f \in ConflictFolders(b, c) <=>
        \/ f \in MoveConflicts(b, c) \/ f \in RenameConflicts(b, c)
        \/ f \in DeleteConflicts(b, c) \/ f \in FatherConflicts(b, c)
        \/ f \in TempConflicts(b, c)
  BY DEF ConflictFolders
<1> QED
  BY <1>1, <1>2, <1>3 DEF Reported, ByTempId

-----------------------------------------------------------------------------
(* The reports and the documented conditions.                              *)

LEMMA ReportsAreDocumented ==
  ASSUME NEW b \in BatchType, NEW c \in BatchType, NEW f, Reported(b, c, f)
  PROVE  InConflict(b, c, f)
BY OpsOnMembers
   DEF Reported, InConflict, SameOperation, DeletedAndUsed, DeletedAndFilled,
       Touches, Deletes

LEMMA DocumentedAreReported ==
  ASSUME NEW b \in BatchType, NEW c \in BatchType, NEW f,
         InConflict(b, c, f), f \notin TempIdsOf(b)
  PROVE  Reported(b, c, f)
BY OpsOnMembers
   DEF Reported, InConflict, SameOperation, DeletedAndUsed, DeletedAndFilled,
       Touches, Deletes

\* Whatever ids the clients choose: CheckConflict misses a documented conflict
\* only on an id that the submitted batch also uses for a folder it creates
\* (the three `continue` statements of the loop).
THEOREM MissesAreCollisions ==
  ASSUME NEW b \in BatchType, NEW c \in BatchType
  PROVE  DocumentedFolders(b, c) \ ConflictFolders(b, c) \subseteq TempIdsOf(b)
<1> SUFFICES ASSUME NEW f, InConflict(b, c, f), f \notin ConflictFolders(b, c)
             PROVE  f \in TempIdsOf(b)
  BY DEF DocumentedFolders
<1> QED
  BY DocumentedAreReported, ConflictFoldersAre

\* With temporary ids apart from folder ids CheckConflict reports exactly the
\* documented conflicts, so it does not matter who submitted first.
THEOREM CheckIsExact ==
  ASSUME IdsAreApart, NEW b \in Batches, NEW c \in Batches
  PROVE  ConflictFolders(b, c) = DocumentedFolders(b, c)
<1>0. b \in BatchType /\ c \in BatchType
  BY BatchesAssumption
<1>1. ASSUME NEW f \in ConflictFolders(b, c) PROVE f \in DocumentedFolders(b, c)
  <2>1. OpsOn(b, f) # {} \/ OpsOn(c, f) # {}
    BY <1>0, <1>1, ConflictFoldersAre, OpsOnMembers DEF Reported, ByTempId
  <2>2. f \in FolderIds
    BY <1>0, <2>1, OpsAreOnFolders
  <2>3. ~ByTempId(b, c, f)
    <3>1. f \notin NewFathers(b, "temp") /\ f \notin NewFathers(c, "temp")
      BY <2>2 DEF IdsAreApart
    <3> QED
      BY <3>1 DEF ByTempId, NewFathers, FathersOf, Considered
  <2> QED
    BY <1>0, <1>1, <2>2, <2>3, ConflictFoldersAre, ReportsAreDocumented DEF DocumentedFolders, Ids
<1>2. ASSUME NEW f \in DocumentedFolders(b, c) PROVE f \in ConflictFolders(b, c)
  <2>1. InConflict(b, c, f)
    BY <1>2 DEF DocumentedFolders
  <2>2. OpsOn(b, f) # {} \/ OpsOn(c, f) # {}
    BY <2>1 DEF InConflict, SameOperation, DeletedAndUsed, DeletedAndFilled, Touches, Deletes
  <2>3. f \notin TempIdsOf(b)
    BY <1>0, <2>2, OpsAreOnFolders DEF IdsAreApart, TempIdsOf, BatchType, CreateOps
  <2> QED
    BY <1>0, <2>1, <2>3, DocumentedAreReported, ConflictFoldersAre
<1> QED
  BY <1>1, <1>2

-----------------------------------------------------------------------------
(* The submissions.                                                        *)

Inv == TypeOK /\ WaitingAreCompatible /\ ReplyIsExact

LEMMA Symmetric ==
  ASSUME NEW b, NEW c
  PROVE  DocumentedFolders(b, c) = DocumentedFolders(c, b)
BY DEF DocumentedFolders, InConflict, SameOperation

\* What the others' requests are does not depend on the order of the union.
LEMMA FoundIsDocumented ==
  ASSUME IdsAreApart, TypeOK, NEW m \in Members, NEW b \in Batches
  PROVE  Found(m, b) = UNION {DocumentedFolders(b, w.batch) :
                                w \in {v \in waiting : v.member # m}}
<1>1. \A w \in waiting : w.batch \in Batches
  BY DEF TypeOK
<1>2. \A c \in OthersOf(m) : ConflictFolders(b, c) = DocumentedFolders(b, c)
  BY <1>1, CheckIsExact DEF OthersOf
<1>3. Found(m, b) = UNION {DocumentedFolders(b, c) : c \in OthersOf(m)}
  BY <1>2 DEF Found
<1>4. {DocumentedFolders(b, c) : c \in OthersOf(m)} =
        {DocumentedFolders(b, w.batch) : w \in {v \in waiting : v.member # m}}
  BY DEF OthersOf
<1> QED
  BY <1>3, <1>4

LEMMA SubmitInv ==
  ASSUME IdsAreApart, Inv, NEW m \in Members, NEW b \in Batches, Submit(m, b)
  PROVE  Inv'
<1> DEFINE w == [member |-> m, batch |-> b]
           others == {v \in waiting : v.member # m}
<1>1. /\ waiting' = waiting \/ (Found(m, b) = {} /\ waiting' = waiting \cup {w})
      /\ reply' = {[member |-> m, batch |-> b, folders |-> Found(m, b)]}
  BY DEF Submit
<1>2. Found(m, b) = UNION {DocumentedFolders(b, v.batch) : v \in others}
  BY FoundIsDocumented DEF Inv
<1>3. TypeOK'
  <2>1. Found(m, b) \subseteq Ids
    BY <1>2 DEF DocumentedFolders
  <2> QED
    BY <1>1, <2>1 DEF TypeOK, Inv
<1>4. {v \in waiting' : v.member # m} = others
  BY <1>1
<1>5. ReplyIsExact'
  BY <1>1, <1>2, <1>4 DEF ReplyIsExact
<1>6. WaitingAreCompatible'
  <2>1. CASE waiting' = waiting
    BY <2>1 DEF Inv, WaitingAreCompatible
  <2>2. CASE Found(m, b) = {} /\ waiting' = waiting \cup {w}
    <3>1. \A v \in others : DocumentedFolders(b, v.batch) = {}
      BY <1>2, <2>2
    <3>2. \A v \in others : DocumentedFolders(v.batch, b) = {}
      BY <3>1, Symmetric
    <3> QED
      BY <2>2, <3>1, <3>2 DEF Inv, WaitingAreCompatible
  <2> QED
    BY <1>1, <2>1, <2>2
<1> QED
  BY <1>3, <1>5, <1>6 DEF Inv

LEMMA NextInv ==
  ASSUME IdsAreApart, Inv, [Next]_vars
  PROVE  Inv'
<1>1. CASE Return
  BY <1>1 DEF Return, Inv, TypeOK, WaitingAreCompatible, ReplyIsExact
<1>2. CASE \E w \in waiting : Finish(w)
  BY <1>2 DEF Finish, Inv, TypeOK, WaitingAreCompatible, ReplyIsExact
<1>3. CASE UNCHANGED vars
  BY <1>3 DEF vars, Inv, TypeOK, WaitingAreCompatible, ReplyIsExact
<1> QED
  BY <1>1, <1>2, <1>3, SubmitInv DEF Next

LEMMA SpecInv ==
  ASSUME IdsAreApart
  PROVE  Spec => []Inv
<1>1. Init => Inv
  BY DEF Init, Inv, TypeOK, WaitingAreCompatible, ReplyIsExact
<1>2. Inv /\ [Next]_vars => Inv'
  BY NextInv
<1> QED
  BY <1>1, <1>2, PTL DEF Spec

\* However many members submit however many batches, no two requests of
\* different members that wait for approval meet a documented condition.
THEOREM Compatible ==
  ASSUME IdsAreApart
  PROVE  Spec => []WaitingAreCompatible
<1>1. Inv => WaitingAreCompatible
  BY DEF Inv
<1> QED
  BY <1>1, SpecInv, PTL

\* The answer to a submission names exactly the folders in conflict.
THEOREM ExactReply ==
  ASSUME IdsAreApart
  PROVE  Spec => []ReplyIsExact
<1>1. Inv => ReplyIsExact
  BY DEF Inv
<1> QED
  BY <1>1, SpecInv, PTL

\* Whoever submits first: the check finds the same folders whichever of two batches is the submitted
\* one, though it treats the two by different code (service/project.go:317-508).
THEOREM OrderIsIrrelevant ==
  ASSUME IdsAreApart, NEW a \in Batches, NEW b \in Batches
  PROVE  ConflictFolders(a, b) = ConflictFolders(b, a)
<1>1. ConflictFolders(a, b) = DocumentedFolders(a, b)
  BY CheckIsExact
<1>2. ConflictFolders(b, a) = DocumentedFolders(b, a)
  BY CheckIsExact
<1> QED
  BY <1>1, <1>2, Symmetric
=============================================================================
