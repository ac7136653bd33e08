-------------------------- MODULE MCImportPublication --------------------------
(* One or two callers of publish_import_bundle and the recovery service; with
   two files, the first replaces the track at its own destination, the second a
   track at another path.                                                   *)
EXTENDS ImportPublication
CONSTANTS c1, c2, rec
================================================================================
