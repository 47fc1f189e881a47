---------------------------- MODULE ConflictCheck ----------------------------
(***************************************************************************)
(* Submissions and the conflict detection they depend on                   *)
(* (ProjectService.SubmitChangeService, CheckConflict).  Submissions take  *)
(* turns here; ChangeApproval has them overlap.                            *)
(***************************************************************************)
EXTENDS ConflictRelation, FiniteSets, Naturals

CONSTANTS
  Members,
  Batches,     \* the batches that are submitted
  MaxWaiting   \* bound on the requests that wait for approval

CreateOps == [temp : TempIds, father : Ids, fatherType : FatherTypes]
MoveOps   == [id : FolderIds, father : Ids, fatherType : FatherTypes]
IdOps     == [id : FolderIds]
BatchType == [create : SUBSET CreateOps, move : SUBSET MoveOps,
              rename : SUBSET IdOps, delete : SUBSET IdOps]

ASSUME BatchesAssumption == Batches \subseteq BatchType /\ MaxWaiting \in Nat

VARIABLES
  waiting,  \* the requests that wait for approval: a member and a batch
  reply     \* the answer to the submission being served, or {}

vars == <<waiting, reply>>

-----------------------------------------------------------------------------
(* SubmitChangeService, and the end of a request.                          *)

Init == waiting = {} /\ reply = {}

OthersOf(m) == {w.batch : w \in {v \in waiting : v.member # m}}

\* Mutant of Found: only one of the other requests is compared.
FoundOne(m, b) ==
  IF OthersOf(m) = {} THEN {}
  ELSE ConflictFolders(b, CHOOSE c \in OthersOf(m) : TRUE)
Found(m, b) == UNION {ConflictFolders(b, c) : c \in OthersOf(m)}

\* A submission is compared with the requests of the other members; it waits
\* for approval when no folder is in conflict.
Submit(m, b) ==
  LET folders == Found(m, b) IN
  /\ reply = {}
  /\ Cardinality(waiting) < MaxWaiting
  /\ IF folders = {} THEN waiting' = waiting \cup {[member |-> m, batch |-> b]}
                     ELSE UNCHANGED waiting
  /\ reply' = {[member |-> m, batch |-> b, folders |-> folders]}

\* The handler answers its client.
Return ==
  /\ reply # {}
  /\ reply' = {}
  /\ UNCHANGED waiting

\* A request is executed, refused or given up; from then on it is not compared.
Finish(w) ==
  /\ reply = {}
  /\ waiting' = waiting \ {w}
  /\ UNCHANGED reply

Next == \/ \E m \in Members, b \in Batches : Submit(m, b)
        \/ Return
        \/ \E w \in waiting : Finish(w)

Spec == Init /\ [][Next]_vars

-----------------------------------------------------------------------------
(* Properties.                                                             *)

TypeOK ==
  /\ waiting \subseteq [member : Members, batch : Batches]
  /\ reply \subseteq [member : Members, batch : Batches, folders : SUBSET Ids]

\* The clients' temporary ids are not ids of folders, and what a client calls
\* temporary is one.  Nothing in the code sees to that: both are small numbers,
\* one drawn by the client, one by the database.
IdsAreApart == /\ FolderIds \cap TempIds = {}
               /\ \A b \in Batches : NewFathers(b, "temp") \subseteq TempIds

\* The requests that wait for approval can be approved in any order and
\* together: no two of different members meet a documented condition.
WaitingAreCompatible ==
  \A v, w \in waiting : v.member # w.member => DocumentedFolders(v.batch, w.batch) = {}

\* The client is told exactly the folders that are in conflict with the
\* requests of others (the answer of POST .../submit-change lists them).
ReplyIsExact ==
  \A r \in reply :
     r.folders = UNION {DocumentedFolders(r.batch, w.batch) :
                          w \in {v \in waiting : v.member # r.member}}
=============================================================================
