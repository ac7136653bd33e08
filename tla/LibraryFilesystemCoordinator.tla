---------------------- MODULE LibraryFilesystemCoordinator ----------------------
(***************************************************************************)
(* The read and write leases of the library roots. A publisher takes the   *)
(* write lease of every root its bundle touches, scans and readers take    *)
(* read leases. Each root has its own lock, counters and parked waiters;   *)
(* write_many registers itself on all its roots before it acquires them in *)
(* order, read_many gives partial leases back when one root is taken.      *)
(*                                                                         *)
(* One step is one call under a root's condition: coroutines of another    *)
(* event loop and threads in read_sync run between any two of them. A      *)
(* wake-up is a broadcast, so a waiter is woken by leaving "waiters".      *)
(***************************************************************************)
EXTENDS Integers, FiniteSets

CONSTANTS
  NRoots,        \* roots, in the order of their identifiers
  Readers,       \* coroutines that read (read, read_many)
  SyncReaders,   \* threads that read (read_sync): one root, never cancelled
  Writers,       \* coroutines that write (write, write_many)
  MaxRequests    \* bound on the leases asked for

Roots     == 1..NRoots
AllReaders == Readers \union SyncReaders
Clients   == AllReaders \union Writers

ASSUME ConstantsOK ==
  /\ NRoots \in Nat \ {0} /\ MaxRequests \in Nat
  /\ IsFiniteSet(Readers) /\ IsFiniteSet(SyncReaders) /\ IsFiniteSet(Writers)
  /\ AllReaders \intersect Writers = {}

VARIABLES
  readers, writer_active, waiting_writers, revision,   \* per root
  waiters,   \* per root: who is parked until it changes
  pc, wants, \* per client: where it is, and the roots it asked for
  held,      \* per client: the roots it has a lease on
  reg,       \* per client: the roots it is registered on as a pending writer
  requests   \* leases asked for so far

roots   == <<readers, writer_active, waiting_writers, revision, waiters>>
clients == <<pc, wants, held, reg>>
vars    == <<roots, clients, requests>>

PCs == {"idle", "register", "acquire", "backoff", "parked", "holding", "unwind"}

First(r, S) == r \in S /\ \A s \in S : r <= s
Last(r, S)  == r \in S /\ \A s \in S : r >= s

Init ==
  /\ readers = [r \in Roots |-> 0] /\ writer_active = [r \in Roots |-> FALSE]
  /\ waiting_writers = [r \in Roots |-> 0] /\ revision = [r \in Roots |-> 0]
  /\ waiters = [r \in Roots |-> {}]
  /\ pc = [c \in Clients |-> "idle"] /\ wants = [c \in Clients |-> {}]
  /\ held = [c \in Clients |-> {}] /\ reg = [c \in Clients |-> {}]
  /\ requests = 0

--------------------------------------------------------------------------------
(* The operations of one root, each under its condition.                    *)

release_read(r) ==
  /\ readers' = [readers EXCEPT ![r] = @ - 1]
  /\ waiters' = [waiters EXCEPT ![r] = IF readers[r] = 1 THEN {} ELSE @]
  /\ UNCHANGED <<writer_active, waiting_writers, revision>>

\* Mutant: the counter is not raised.
register_write_waiterUncounted(r) == UNCHANGED roots
register_write_waiter(r) ==
  /\ waiting_writers' = [waiting_writers EXCEPT ![r] = @ + 1]
  /\ UNCHANGED <<readers, writer_active, revision, waiters>>

\* Mutant: nobody is woken when a pending writer gives up.
unregister_write_waiterSilently(r) ==
  /\ waiting_writers' = [waiting_writers EXCEPT ![r] = @ - 1]
  /\ UNCHANGED <<readers, writer_active, revision, waiters>>
unregister_write_waiter(r) ==
  /\ waiting_writers' = [waiting_writers EXCEPT ![r] = @ - 1]
  /\ waiters' = [waiters EXCEPT ![r] = IF waiting_writers[r] = 1 THEN {} ELSE @]
  /\ UNCHANGED <<readers, writer_active, revision>>

\* Mutant: only a waiting writer is woken.
release_writeToWriters(r) ==
  /\ writer_active' = [writer_active EXCEPT ![r] = FALSE]
  /\ revision' = [revision EXCEPT ![r] = @ + 1]
  /\ waiters' = [waiters EXCEPT ![r] = IF waiting_writers[r] > 0 THEN @ \ Writers ELSE @]
  /\ UNCHANGED <<readers, waiting_writers>>
\* Mutant: the revision is not raised.
release_writeUncounted(r) ==
  /\ writer_active' = [writer_active EXCEPT ![r] = FALSE]
  /\ waiters' = [waiters EXCEPT ![r] = {}]
  /\ UNCHANGED <<readers, waiting_writers, revision>>
release_write(r) ==
  /\ writer_active' = [writer_active EXCEPT ![r] = FALSE]
  /\ revision' = [revision EXCEPT ![r] = @ + 1]
  /\ waiters' = [waiters EXCEPT ![r] = {}]
  /\ UNCHANGED <<readers, waiting_writers>>

\* Mutant: a pending writer keeps no reader out.
ReadBlockedByWriter(r) == writer_active[r]
\* Mutant: a writer that got in while others are pending does not count.
ReadBlockedByPending(r) == waiting_writers[r] > 0
ReadBlocked(r) == writer_active[r] \/ waiting_writers[r] > 0
WriteBlocked(r) == writer_active[r] \/ readers[r] > 0

Park(c, r) ==
  /\ waiters' = [waiters EXCEPT ![r] = @ \union {c}]
  /\ UNCHANGED <<readers, writer_active, waiting_writers, revision>>

--------------------------------------------------------------------------------
(* read_many, write_many and read_sync, call by call.                       *)

Begin(c, S) ==
  /\ pc[c] = "idle" /\ requests < MaxRequests
  /\ S # {}
  /\ c \in SyncReaders => Cardinality(S) = 1
  /\ pc' = [pc EXCEPT ![c] = IF c \in Writers THEN "register" ELSE "acquire"]
  /\ wants' = [wants EXCEPT ![c] = S]
  /\ requests' = requests + 1
  /\ UNCHANGED <<roots, held, reg>>

\* Mutant: a writer registers on the first of its roots only.
RegisterFirst(w, r) ==
  /\ pc[w] = "register"
  /\ First(r, wants[w])
  /\ register_write_waiter(r)
  /\ reg' = [reg EXCEPT ![w] = {r}]
  /\ pc' = [pc EXCEPT ![w] = "acquire"]
  /\ UNCHANGED <<wants, held, requests>>
Register(w, r) ==
  /\ pc[w] = "register"
  /\ First(r, wants[w] \ reg[w])
  /\ register_write_waiter(r)
  /\ reg' = [reg EXCEPT ![w] = @ \union {r}]
  /\ pc' = [pc EXCEPT ![w] = IF wants[w] = reg[w] \union {r} THEN "acquire" ELSE @]
  /\ UNCHANGED <<wants, held, requests>>

Take(c, r) ==
  /\ held' = [held EXCEPT ![c] = @ \union {r}]
  /\ pc' = [pc EXCEPT ![c] = IF wants[c] = held[c] \union {r} THEN "holding" ELSE @]

AcquireRead(c, r) ==
  /\ pc[c] = "acquire" /\ c \in AllReaders
  /\ First(r, wants[c] \ held[c])
  /\ ~ReadBlocked(r)
  /\ readers' = [readers EXCEPT ![r] = @ + 1]
  /\ Take(c, r)
  /\ UNCHANGED <<writer_active, waiting_writers, revision, waiters, wants, reg, requests>>

\* The reader parks on the taken root before it gives its other leases back.
ParkRead(c, r) ==
  /\ pc[c] = "acquire" /\ c \in AllReaders
  /\ First(r, wants[c] \ held[c])
  /\ ReadBlocked(r)
  /\ Park(c, r)
  /\ pc' = [pc EXCEPT ![c] = IF held[c] = {} THEN "parked" ELSE "backoff"]
  /\ UNCHANGED <<wants, held, reg, requests>>

BackOff(c, r) ==
  /\ pc[c] = "backoff"
  /\ Last(r, held[c])
  /\ release_read(r)
  /\ held' = [held EXCEPT ![c] = @ \ {r}]
  /\ pc' = [pc EXCEPT ![c] = IF held[c] = {r} THEN "parked" ELSE @]
  /\ UNCHANGED <<wants, reg, requests>>

AcquireWrite(w, r) ==
  /\ pc[w] = "acquire" /\ w \in Writers
  /\ First(r, wants[w] \ held[w])
  /\ ~WriteBlocked(r)
  /\ writer_active' = [writer_active EXCEPT ![r] = TRUE]
  /\ waiting_writers' = [waiting_writers EXCEPT ![r] = @ - 1]
  /\ reg' = [reg EXCEPT ![w] = @ \ {r}]
  /\ Take(w, r)
  /\ UNCHANGED <<readers, revision, waiters, wants, requests>>

ParkWrite(w, r) ==
  /\ pc[w] = "acquire" /\ w \in Writers
  /\ First(r, wants[w] \ held[w])
  /\ WriteBlocked(r)
  /\ Park(w, r)
  /\ pc' = [pc EXCEPT ![w] = "parked"]
  /\ UNCHANGED <<wants, held, reg, requests>>

\* A woken client tries again: a reader all its roots, a writer the one it waits for.
Retry(c) ==
  /\ pc[c] = "parked" /\ \A r \in Roots : c \notin waiters[r]
  /\ pc' = [pc EXCEPT ![c] = "acquire"]
  /\ UNCHANGED <<roots, wants, held, reg, requests>>

\* The request is over.
Gone(c) == /\ pc' = [pc EXCEPT ![c] = "idle"]
           /\ wants' = [wants EXCEPT ![c] = {}]

\* The task is cancelled while it waits, woken or not.
Cancel(c) ==
  /\ pc[c] = "parked" /\ c \notin SyncReaders
  /\ waiters' = [r \in Roots |-> waiters[r] \ {c}]
  /\ IF c \in Writers THEN pc' = [pc EXCEPT ![c] = "unwind"] /\ UNCHANGED wants
     ELSE Gone(c)
  /\ UNCHANGED <<readers, writer_active, waiting_writers, revision, held, reg, requests>>

\* The body of the "with" ends, normally or not.
Leave(c) ==
  /\ pc[c] = "holding"
  /\ pc' = [pc EXCEPT ![c] = "unwind"]
  /\ UNCHANGED <<roots, wants, held, reg, requests>>

\* Mutant: a cancelled writer gives back what it holds and forgets its registrations.
UnwindHeldOnly(c, r) ==
  /\ pc[c] = "unwind"
  /\ Last(r, held[c])
  /\ IF c \in Writers THEN release_write(r) ELSE release_read(r)
  /\ held' = [held EXCEPT ![c] = @ \ {r}]
  /\ reg' = [reg EXCEPT ![c] = IF held[c] = {r} THEN {} ELSE @]
  /\ IF held[c] = {r} THEN Gone(c) ELSE UNCHANGED <<pc, wants>>
  /\ UNCHANGED requests
UnwindHeld(c, r) ==
  /\ pc[c] = "unwind"
  /\ Last(r, held[c])
  /\ IF c \in Writers THEN release_write(r) ELSE release_read(r)
  /\ held' = [held EXCEPT ![c] = @ \ {r}]
  /\ IF held[c] = {r} /\ reg[c] = {} THEN Gone(c) ELSE UNCHANGED <<pc, wants>>
  /\ UNCHANGED <<reg, requests>>

UnwindRegistered(w, r) ==
  /\ pc[w] = "unwind" /\ held[w] = {}
  /\ First(r, reg[w])
  /\ unregister_write_waiter(r)
  /\ reg' = [reg EXCEPT ![w] = @ \ {r}]
  /\ IF reg[w] = {r} THEN Gone(w) ELSE UNCHANGED <<pc, wants>>
  /\ UNCHANGED <<held, requests>>

Step(c) ==
  \/ Retry(c) \/ Leave(c)
  \/ \E r \in Roots :
       \/ Register(c, r) \/ AcquireRead(c, r) \/ ParkRead(c, r) \/ BackOff(c, r)
       \/ AcquireWrite(c, r) \/ ParkWrite(c, r)
       \/ UnwindHeld(c, r) \/ UnwindRegistered(c, r)

Next == \E c \in Clients :
  Step(c) \/ Cancel(c) \/ \E S \in SUBSET Roots : Begin(c, S)

Spec == Init /\ [][Next]_vars

\* Every client that can go on does, and a critical section ends; nobody has to
\* ask for a lease or to be cancelled.
FairSpec == Spec /\ \A c \in Clients : WF_vars(Step(c))

--------------------------------------------------------------------------------
\* Counters and leases keep their types: no counter of a root falls below zero.
TypeOK ==
  /\ readers \in [Roots -> Nat] /\ writer_active \in [Roots -> BOOLEAN]
  /\ waiting_writers \in [Roots -> Nat] /\ revision \in [Roots -> Nat]
  /\ waiters \in [Roots -> SUBSET Clients]
  /\ pc \in [Clients -> PCs] /\ wants \in [Clients -> SUBSET Roots]
  /\ held \in [Clients -> SUBSET Roots] /\ reg \in [Clients -> SUBSET Roots]
  /\ requests \in Nat

\* Nobody reads a root while somebody writes it, and one coroutine writes it.
Exclusive == \A c, d \in Clients, r \in Roots :
  c \in Writers /\ c # d /\ r \in held[c] => r \notin held[d]

\* The counters of a root are the leases and registrations that exist: a cancelled
\* or failed request leaves none behind that would keep the root closed for good.
Accounted == \A r \in Roots :
  /\ readers[r] = Cardinality({c \in AllReaders : r \in held[c]})
  /\ waiting_writers[r] = Cardinality({w \in Writers : r \in reg[w]})
  /\ writer_active[r] = \E w \in Writers : r \in held[w]

\* A parked client has something to wait for, whose end will wake it: no wake-up
\* is lost between looking at the counters and parking.
NoLostWakeup == \A r \in Roots : \A c \in waiters[r] :
  IF c \in Writers THEN WriteBlocked(r) ELSE ReadBlocked(r)

\* While a writer waits for one of its roots, be it an early one, no further reader
\* gets in on any of the roots it asked for (F-150).
NoOvertaking == [][\A w \in Writers : \A r \in wants[w] :
                     pc[w] \in {"acquire", "parked"} => readers'[r] <= readers[r]]_vars

\* Whoever waits gets its leases, unless it is cancelled: writers that share roots
\* do not wait for each other, and readers are not left behind. The bound on the
\* requests matters: a coroutine that asks again without awaiting starves others.
Served == \A c \in Clients : pc[c] = "parked" ~> pc[c] \in {"holding", "idle"}

--------------------------------------------------------------------------------
(* The leases as their users see them. A partial lease is none; a root that *)
(* a writer has yet to release has its next edition already.               *)
Lease == [c \in Clients |-> IF pc[c] = "holding" THEN wants[c] ELSE {}]

BeingReleased(r) == \E w \in Writers : pc[w] = "unwind" /\ r \in held[w]
Edition == [r \in Roots |-> IF BeingReleased(r) THEN revision[r] + 1 ELSE revision[r]]

Whole == INSTANCE FilesystemLease
           WITH Readers <- AllReaders, lease <- Lease, edition <- Edition

\* Although roots are taken and released one by one, and requests back off or are
\* cancelled half way, scans and publishers get and lose the lease of all their roots
\* in one step, and the revisions of all the roots of a publication rise in one.
AtomicLeases == Whole!Spec
================================================================================
