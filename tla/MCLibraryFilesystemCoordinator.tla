--------------------- MODULE MCLibraryFilesystemCoordinator ---------------------
(* Two roots, two publishers, a scan and a thread.                          *)
EXTENDS LibraryFilesystemCoordinator
CONSTANTS p1, p2, scan, thread
================================================================================
