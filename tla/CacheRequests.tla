--------------------------- MODULE CacheRequests ---------------------------
(***************************************************************************)
(* What FolderCache and TagCache share: the folders of one project, and    *)
(* the goroutines of one process that serve the requests on them.  Each    *)
(* module has its own variables, and names of its own.                     *)
(***************************************************************************)
EXTENDS Naturals, Sequences, FiniteSets

CONSTANTS
  Folders,
  Handlers,            \* goroutines that serve requests or execute batches
  None,
  MaxCalls, MaxFaults  \* bounds on requests, chat messages and expiries (in FolderCache, with
                       \* the failures), and on failures
=============================================================================
