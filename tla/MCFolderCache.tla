--------------------------- MODULE MCFolderCache ---------------------------
(* Instance of FolderCache for TLC: the handlers are alike.                *)
EXTENDS FolderCache, TLC

Alike == Permutations(Handlers)
=============================================================================
