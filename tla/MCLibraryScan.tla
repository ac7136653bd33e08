----------------------------- MODULE MCLibraryScan -----------------------------
(* Small instances of LibraryScan for TLC.                                  *)
EXTENDS LibraryScan
================================================================================
