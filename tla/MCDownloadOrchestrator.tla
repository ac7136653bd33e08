----------------------- MODULE MCDownloadOrchestrator -----------------------
(* Two symmetric coroutines: one drives the task, one may be dispatched while
   the first is still there.                                               *)
EXTENDS DownloadOrchestrator, TLC
Symmetry == Permutations(Loop)
=============================================================================
