---------------------------- MODULE FilesystemLease ----------------------------
(***************************************************************************)
(* What the coordinator promises to those who use its leases, scans and    *)
(* publishers: a lease of several roots is granted as a whole and ends as  *)
(* a whole, a writer's excludes every other on its roots, and the edition  *)
(* of a root rises at once with the end of whoever wrote it.  A scan that  *)
(* finds the edition it has recorded therefore knows that nobody has       *)
(* written the root since.  LibraryFilesystemCoordinator implements this   *)
(* root by root, with waiters, back-offs, cancellations and unwinding.     *)
(***************************************************************************)
EXTENDS Naturals

CONSTANTS Roots, Readers, Writers

VARIABLES
  lease,     \* per client: the roots it may use
  edition    \* per root: how often it may have been written

vars == <<lease, edition>>

Clients == Readers \union Writers

Init == lease = [c \in Clients |-> {}] /\ edition = [r \in Roots |-> 0]

\* None of the clients in C has a lease that touches one of the roots in S.
Clear(C, S) == \A c \in C : lease[c] \intersect S = {}

\* The roots in S may have been written: their editions rise together.
Raise(S) == edition' = [r \in Roots |-> IF r \in S THEN edition[r] + 1 ELSE edition[r]]

GrantRead(c, S) ==
  /\ c \in Readers /\ lease[c] = {} /\ Clear(Writers, S)
  /\ lease' = [lease EXCEPT ![c] = S]
  /\ UNCHANGED edition

GrantWrite(w, S) ==
  /\ w \in Writers /\ Clear(Clients, S)
  /\ lease' = [lease EXCEPT ![w] = S]
  /\ UNCHANGED edition

EndRead(c) ==
  /\ c \in Readers /\ lease[c] # {}
  /\ lease' = [lease EXCEPT ![c] = {}]
  /\ UNCHANGED edition

EndWrite(w) ==
  /\ w \in Writers /\ lease[w] # {}
  /\ lease' = [lease EXCEPT ![w] = {}]
  /\ Raise(lease[w])

\* A writer that has not got all its roots gives up: what it had counts as written.
Withdraw(S) == Clear(Clients, S) /\ Raise(S) /\ UNCHANGED lease

Next ==
  \/ \E c \in Clients : EndRead(c) \/ EndWrite(c)
  \/ \E c \in Clients, S \in (SUBSET Roots) \ {{}} : GrantRead(c, S) \/ GrantWrite(c, S)
  \/ \E S \in (SUBSET Roots) \ {{}} : Withdraw(S)

Spec == Init /\ [][Next]_vars
================================================================================
