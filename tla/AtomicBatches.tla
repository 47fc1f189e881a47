---------------------------- MODULE AtomicBatches ----------------------------
(***************************************************************************)
(* What the execution of approved batches promises: as long as no          *)
(* execution has failed and no batch moves a folder twice, a request is    *)
(* executed at most once, it changes the tree in one step, to the tree its *)
(* operations describe, and nothing else changes it.                       *)
(***************************************************************************)
EXTENDS FolderTree

VARIABLES
  tree,      \* the project's folder tree
  requests,  \* the requests that were submitted, records with a field batch
  done,      \* those that were executed
  intact     \* no execution has failed and no batch moves a folder twice

vars == <<tree, requests, done, intact>>

Init == IsTree(tree) /\ requests = {} /\ done = {} /\ intact = TRUE

Submit ==
  /\ requests \subseteq requests'
  /\ UNCHANGED <<tree, done, intact>>

Execute(r) ==
  /\ intact /\ r \notin done
  /\ done' = done \cup {r}
  /\ \E real \in Numberings(r.batch, DOMAIN tree) : tree' = Apply(tree, r.batch, real)
  /\ UNCHANGED <<requests, intact>>

\* After a failure nothing is promised: the statements that were executed stay.
\* Nor is it once a batch moves a folder twice, which then has two fathers.
Damage == intact' = FALSE

Next == \/ Submit
        \/ \E r \in requests : Execute(r)
        \/ Damage

Spec == Init /\ [][Next]_vars
=============================================================================
