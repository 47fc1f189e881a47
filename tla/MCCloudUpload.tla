--------------------------- MODULE MCCloudUpload ---------------------------
(* Instances of CloudUpload for TLC.                                       *)
EXTENDS CloudUpload, TLC

Symmetry == Permutations(Handlers) \cup Permutations(Users) \cup Permutations(Admins)
=============================================================================
