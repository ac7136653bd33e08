------------------------ MODULE MCAcquisitionCleanup ------------------------
(* Small instances of AcquisitionCleanup for TLC. *)
EXTENDS AcquisitionCleanup, TLC

Symmetry == Permutations(Worker) \union Permutations(Bundle)
=============================================================================
