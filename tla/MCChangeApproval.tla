-------------------------- MODULE MCChangeApproval --------------------------
(* Instances of ChangeApproval for TLC. *)
EXTENDS ChangeApproval

CONSTANTS u1, u2, p1, p2, a1, a2, b1, b2

\* u1 submits a1 and a2, u2 submits b1 and b2; a2 and b1 conflict.
Owner   == (a1 :> u1) @@ (a2 :> u1) @@ (b1 :> u2) @@ (b2 :> u2)
Clashes == {<<a2, b1>>, <<b1, a2>>}

\* u1 works in one project and u2 in two.
Target   == (a1 :> p1) @@ (a2 :> p1) @@ (b1 :> p1) @@ (b2 :> p2)

OwnerHere    == [r \in Requests |-> Owner[r]]
TargetHere   == [r \in Requests |-> Target[r]]
ClashesHere  == Clashes \cap (Requests \X Requests)
=============================================================================
