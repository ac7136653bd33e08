--------------------------- MODULE AtomicPublication ---------------------------
(***************************************************************************)
(* What the publication of an import bundle promises to the rest of the    *)
(* program, whatever fails on the way: the bundle is one step. Either all  *)
(* of it is on the shelf and in the catalogue, or the shelf is as it was   *)
(* before and the bundle may be tried again; and what can be neither is    *)
(* handed to an administrator instead of being reported as one of the two. *)
(* ImportPublication implements this with files, journal rows, leases and  *)
(* recovery.                                                               *)
(***************************************************************************)

VARIABLES
  outcome,   \* how far the bundle got
  shelf      \* what a reader of the library finds of it

vars == <<outcome, shelf>>

Outcomes == {"open", "committed", "done", "withdrawn", "attention", "resolved"}
Shelves  == {"before", "after", "tidy", "unknown"}

Init == outcome = "open" /\ shelf = "before"

Commit   == outcome = "open" /\ outcome' = "committed" /\ shelf' = "after"
\* The download's own files and the replaced tracks are gone, too.
Finish   == outcome = "committed" /\ outcome' = "done" /\ shelf' = "tidy"
Withdraw == outcome = "open" /\ outcome' = "withdrawn" /\ UNCHANGED shelf
Retry    == outcome = "withdrawn" /\ outcome' = "open" /\ UNCHANGED shelf
\* A bundle that can be neither finished nor undone.
GiveUp   == /\ outcome \in {"open", "committed"}
            /\ outcome' = "attention" /\ shelf' = "unknown"
Resolve  == outcome = "attention" /\ outcome' = "resolved" /\ UNCHANGED shelf

Next == Commit \/ Finish \/ Withdraw \/ Retry \/ GiveUp \/ Resolve

Spec == Init /\ [][Next]_vars
================================================================================
