------------------ MODULE LibraryFilesystemCoordinator_proofs ------------------
(* Theorems about the leases, for every number of roots, clients and requests. *)
EXTENDS LibraryFilesystemCoordinator, FiniteSetTheorems, TLAPS

--------------------------------------------------------------------------------
(* Counting the clients that have a root, as the set of one grows or shrinks. *)

LEMMA ClientSets ==
  /\ IsFiniteSet(AllReaders) /\ IsFiniteSet(Writers)
  /\ AllReaders \subseteq Clients /\ Writers \subseteq Clients
  /\ AllReaders \intersect Writers = {}
  /\ \A c \in Clients : c \in AllReaders <=> c \notin Writers
  BY ConstantsOK, FS_Union DEF AllReaders, Clients

Holders(r)    == {c \in AllReaders : r \in held[c]}
Registered(r) == {w \in Writers : r \in reg[w]}
WriterIn(r)   == \E w \in Writers : r \in held[w]

LEMMA FiniteCounts ==
  ASSUME NEW r
  PROVE  IsFiniteSet(Holders(r)) /\ IsFiniteSet(Registered(r))
  <1>1. Holders(r) \in SUBSET AllReaders /\ Registered(r) \in SUBSET Writers
    BY DEF Holders, Registered
  <1> QED
    BY <1>1, ClientSets, FS_Subset

LEMMA HoldersGrow ==
  ASSUME TypeOK, NEW c \in AllReaders, NEW r \in Roots, r \notin held[c],
         held' = [held EXCEPT ![c] = @ \union {r}]
  PROVE  \A q \in Roots : Cardinality(Holders(q)') =
           IF q = r THEN Cardinality(Holders(q)) + 1 ELSE Cardinality(Holders(q))
  <1> SUFFICES ASSUME NEW q \in Roots
               PROVE  Cardinality(Holders(q)') =
                        IF q = r THEN Cardinality(Holders(q)) + 1
                        ELSE Cardinality(Holders(q))
    OBVIOUS
  <1>1. CASE q = r
    <2>1. Holders(q)' = Holders(q) \union {c} /\ c \notin Holders(q)
      BY <1>1, ClientSets DEF Holders, TypeOK
    <2>2. Cardinality(Holders(q) \union {c}) = Cardinality(Holders(q)) + 1
      BY <2>1, FiniteCounts, FS_AddElement
    <2> QED
      BY <1>1, <2>1, <2>2
  <1>2. CASE q # r
    <2>1. Holders(q)' = Holders(q)
      BY <1>2, ClientSets DEF Holders, TypeOK
    <2> QED
      BY <1>2, <2>1
  <1> QED
    BY <1>1, <1>2

LEMMA HoldersShrink ==
  ASSUME TypeOK, NEW c \in AllReaders, NEW r \in Roots, r \in held[c],
         held' = [held EXCEPT ![c] = @ \ {r}]
  PROVE  \A q \in Roots : Cardinality(Holders(q)') =
           IF q = r THEN Cardinality(Holders(q)) - 1 ELSE Cardinality(Holders(q))
  <1> SUFFICES ASSUME NEW q \in Roots
               PROVE  Cardinality(Holders(q)') =
                        IF q = r THEN Cardinality(Holders(q)) - 1
                        ELSE Cardinality(Holders(q))
    OBVIOUS
  <1>1. CASE q = r
    <2>1. Holders(q)' = Holders(q) \ {c} /\ c \in Holders(q)
      BY <1>1, ClientSets DEF Holders, TypeOK
    <2>2. Cardinality(Holders(q) \ {c}) = Cardinality(Holders(q)) - 1
      BY <2>1, FiniteCounts, FS_RemoveElement
    <2> QED
      BY <1>1, <2>1, <2>2
  <1>2. CASE q # r
    <2>1. Holders(q)' = Holders(q)
      BY <1>2, ClientSets DEF Holders, TypeOK
    <2> QED
      BY <1>2, <2>1
  <1> QED
    BY <1>1, <1>2

LEMMA RegisteredGrow ==
  ASSUME TypeOK, NEW c \in Writers, NEW r \in Roots, r \notin reg[c],
         reg' = [reg EXCEPT ![c] = @ \union {r}]
  PROVE  \A q \in Roots : Cardinality(Registered(q)') =
           IF q = r THEN Cardinality(Registered(q)) + 1 ELSE Cardinality(Registered(q))
  <1> SUFFICES ASSUME NEW q \in Roots
               PROVE  Cardinality(Registered(q)') =
                        IF q = r THEN Cardinality(Registered(q)) + 1
                        ELSE Cardinality(Registered(q))
    OBVIOUS
  <1>1. CASE q = r
    <2>1. Registered(q)' = Registered(q) \union {c} /\ c \notin Registered(q)
      BY <1>1, ClientSets DEF Registered, TypeOK
    <2>2. Cardinality(Registered(q) \union {c}) = Cardinality(Registered(q)) + 1
      BY <2>1, FiniteCounts, FS_AddElement
    <2> QED
      BY <1>1, <2>1, <2>2
  <1>2. CASE q # r
    <2>1. Registered(q)' = Registered(q)
      BY <1>2, ClientSets DEF Registered, TypeOK
    <2> QED
      BY <1>2, <2>1
  <1> QED
    BY <1>1, <1>2

LEMMA RegisteredShrink ==
  ASSUME TypeOK, NEW c \in Writers, NEW r \in Roots, r \in reg[c],
         reg' = [reg EXCEPT ![c] = @ \ {r}]
  PROVE  \A q \in Roots : Cardinality(Registered(q)') =
           IF q = r THEN Cardinality(Registered(q)) - 1 ELSE Cardinality(Registered(q))
  <1> SUFFICES ASSUME NEW q \in Roots
               PROVE  Cardinality(Registered(q)') =
                        IF q = r THEN Cardinality(Registered(q)) - 1
                        ELSE Cardinality(Registered(q))
    OBVIOUS
  <1>1. CASE q = r
    <2>1. Registered(q)' = Registered(q) \ {c} /\ c \in Registered(q)
      BY <1>1, ClientSets DEF Registered, TypeOK
    <2>2. Cardinality(Registered(q) \ {c}) = Cardinality(Registered(q)) - 1
      BY <2>1, FiniteCounts, FS_RemoveElement
    <2> QED
      BY <1>1, <2>1, <2>2
  <1>2. CASE q # r
    <2>1. Registered(q)' = Registered(q)
      BY <1>2, ClientSets DEF Registered, TypeOK
    <2> QED
      BY <1>2, <2>1
  <1> QED
    BY <1>1, <1>2

Counts(r) ==
  /\ readers[r] = Cardinality(Holders(r))
  /\ waiting_writers[r] = Cardinality(Registered(r))
  /\ writer_active[r] = WriterIn(r)

LEMMA AccountedCounts ==
  /\ Accounted <=> \A r \in Roots : Counts(r)
  /\ Accounted' <=> \A r \in Roots : Counts(r)'
  BY DEF Accounted, Counts, Holders, Registered, WriterIn

--------------------------------------------------------------------------------
(* The inductive invariant.                                                 *)

\* What a client has, by where it is in read_many, write_many or read_sync.
Shape(c) ==
  /\ c \in AllReaders => reg[c] = {}
  /\ pc[c] = "idle" => held[c] = {} /\ reg[c] = {}
  /\ pc[c] = "register" => c \in Writers /\ held[c] = {} /\ reg[c] \subseteq wants[c]
  /\ pc[c] \in {"acquire", "parked"} =>
       /\ c \in Writers => reg[c] = wants[c] \ held[c]
       /\ held[c] \subseteq wants[c]
  /\ pc[c] = "parked" /\ c \in AllReaders => held[c] = {}
  /\ pc[c] = "backoff" => c \in AllReaders
  /\ pc[c] = "holding" => reg[c] = {} /\ held[c] = wants[c]

Shapes == \A c \in Clients : Shape(c)

IndInv == TypeOK /\ Shapes /\ Exclusive /\ Accounted /\ NoLostWakeup

\* What the counters say about the leases.
LEMMA CountersTell ==
  ASSUME TypeOK, Accounted, NEW r \in Roots
  PROVE  /\ readers[r] = 0 <=> \A c \in AllReaders : r \notin held[c]
         /\ waiting_writers[r] = 0 <=> \A w \in Writers : r \notin reg[w]
         /\ ~writer_active[r] <=> \A w \in Writers : r \notin held[w]
  <1>1. Counts(r)
    BY AccountedCounts
  <1>2. readers[r] = 0 <=> Holders(r) = {}
    BY <1>1, FiniteCounts, FS_EmptySet DEF Counts
  <1>3. waiting_writers[r] = 0 <=> Registered(r) = {}
    BY <1>1, FiniteCounts, FS_EmptySet DEF Counts
  <1> QED
    BY <1>1, <1>2, <1>3 DEF Counts, Holders, Registered, WriterIn

LEMMA InitEstablishes == Init => IndInv
  <1> SUFFICES ASSUME Init PROVE IndInv
    OBVIOUS
  <1> USE DEF Init
  <1>1. TypeOK
    BY DEF TypeOK, PCs
  <1>2. Shapes
    BY DEF Shapes, Shape
  <1>3. Exclusive /\ NoLostWakeup
    BY DEF Exclusive, NoLostWakeup, Clients
  <1>4. Accounted
    <2> SUFFICES ASSUME NEW r \in Roots PROVE Counts(r)
      BY AccountedCounts
    <2>1. Holders(r) = {} /\ Registered(r) = {} /\ ~WriterIn(r)
      BY ClientSets DEF Holders, Registered, WriterIn
    <2>2. readers[r] = 0 /\ waiting_writers[r] = 0 /\ writer_active[r] = FALSE
      OBVIOUS
    <2>3. WriterIn(r) = FALSE
      BY <2>1 DEF WriterIn
    <2>4. Cardinality(Holders(r)) = 0 /\ Cardinality(Registered(r)) = 0
      BY <2>1, FS_EmptySet
    <2> HIDE DEF Init
    <2> QED
      BY <2>2, <2>3, <2>4 DEF Counts
  <1> QED
    BY <1>1, <1>2, <1>3, <1>4 DEF IndInv

--------------------------------------------------------------------------------
(* Every call preserves it.                                                 *)

\* A step that leaves the leases, the registrations and the counters alone.
LEMMA Quiet ==
  ASSUME IndInv,
         UNCHANGED <<readers, writer_active, waiting_writers, held, reg>>
  PROVE  Exclusive' /\ Accounted'
  BY DEF IndInv, Exclusive, Accounted

LEMMA BeginPreserves ==
  ASSUME IndInv, NEW c \in Clients, NEW S \in SUBSET Roots, Begin(c, S)
  PROVE  IndInv'
  <1> USE DEF IndInv, Begin, roots
  <1>1. TypeOK'
    BY DEF TypeOK, PCs
  <1>2. Shapes'
    BY ClientSets DEF Shapes, Shape, TypeOK
  <1>3. NoLostWakeup'
    BY DEF NoLostWakeup, WriteBlocked, ReadBlocked
  <1> QED
    BY <1>1, <1>2, <1>3, Quiet

LEMMA RegisterPreserves ==
  ASSUME IndInv, NEW w \in Clients, NEW r \in Roots, Register(w, r)
  PROVE  IndInv'
  <1> USE DEF IndInv, Register, register_write_waiter
  <1>1. w \in Writers /\ r \in wants[w] \ reg[w]
    BY DEF First, Shapes, Shape
  <1>2. TypeOK'
    BY DEF TypeOK, PCs
  <1>3. Shapes'
    BY <1>1, ClientSets DEF Shapes, Shape, TypeOK
  <1>4. Exclusive'
    BY DEF Exclusive
  <1>5. Accounted'
    <2> SUFFICES ASSUME NEW q \in Roots, Counts(q) PROVE Counts(q)'
      BY AccountedCounts
    <2>1. Cardinality(Registered(q)') =
            IF q = r THEN Cardinality(Registered(q)) + 1 ELSE Cardinality(Registered(q))
      BY <1>1, RegisteredGrow
    <2>2. Holders(q)' = Holders(q) /\ WriterIn(q)' = WriterIn(q)
      BY DEF Holders, WriterIn
    <2> QED
      BY <2>1, <2>2 DEF Counts, TypeOK
  <1>6. NoLostWakeup'
    BY DEF NoLostWakeup, WriteBlocked, ReadBlocked, TypeOK
  <1> QED
    BY <1>2, <1>3, <1>4, <1>5, <1>6

LEMMA AcquireReadPreserves ==
  ASSUME IndInv, NEW c \in Clients, NEW r \in Roots, AcquireRead(c, r)
  PROVE  IndInv'
  <1> USE DEF IndInv, AcquireRead, Take
  <1>1. c \in AllReaders /\ c \notin Writers /\ r \in wants[c] \ held[c]
    BY ClientSets DEF First
  <1>2. TypeOK'
    BY DEF TypeOK, PCs
  <1>3. Shapes'
    BY <1>1, ClientSets DEF Shapes, Shape, TypeOK
  <1>4. Exclusive'
    <2>1. \A w \in Writers : r \notin held[w]
      BY CountersTell DEF ReadBlocked
    <2> QED
      BY <1>1, <2>1, ClientSets DEF Exclusive, TypeOK
  <1>5. Accounted'
    <2> SUFFICES ASSUME NEW q \in Roots, Counts(q) PROVE Counts(q)'
      BY AccountedCounts
    <2>1. Cardinality(Holders(q)') =
            IF q = r THEN Cardinality(Holders(q)) + 1 ELSE Cardinality(Holders(q))
      BY <1>1, HoldersGrow
    <2>2. Registered(q)' = Registered(q)
      BY DEF Registered
    <2>3. WriterIn(q)' = WriterIn(q)
      BY <1>1, ClientSets DEF WriterIn, TypeOK
    <2> QED
      BY <2>1, <2>2, <2>3 DEF Counts, TypeOK
  <1>6. NoLostWakeup'
    BY DEF NoLostWakeup, WriteBlocked, ReadBlocked, TypeOK
  <1> QED
    BY <1>2, <1>3, <1>4, <1>5, <1>6

LEMMA ParkPreserves ==
  ASSUME IndInv, NEW c \in Clients, NEW r \in Roots, ParkRead(c, r) \/ ParkWrite(c, r)
  PROVE  IndInv'
  <1> USE DEF IndInv, ParkRead, ParkWrite, Park
  <1>1. TypeOK'
    BY DEF TypeOK, PCs
  <1>2. Shapes'
    BY ClientSets DEF Shapes, Shape, TypeOK
  <1>3. NoLostWakeup'
    BY ClientSets DEF NoLostWakeup, WriteBlocked, ReadBlocked, TypeOK
  <1> QED
    BY <1>1, <1>2, <1>3, Quiet

\* A read lease is given back: while a partial request backs off, or at its end.
LEMMA ReadLeaseReturned ==
  ASSUME IndInv, NEW c \in AllReaders, NEW r \in Roots, r \in held[c],
         release_read(r), held' = [held EXCEPT ![c] = @ \ {r}], UNCHANGED reg
  PROVE  Exclusive' /\ Accounted' /\ NoLostWakeup'
         /\ readers' \in [Roots -> Nat] /\ waiters' \in [Roots -> SUBSET Clients]
  <1> USE DEF IndInv, release_read
  <1>1. c \in Clients /\ c \notin Writers
    BY ClientSets
  <1>2. Exclusive'
    BY <1>1 DEF Exclusive, TypeOK
  <1>3. readers[r] # 0
    BY CountersTell
  <1>4. readers' \in [Roots -> Nat] /\ waiters' \in [Roots -> SUBSET Clients]
    BY <1>3 DEF TypeOK
  <1>5. Accounted'
    <2> SUFFICES ASSUME NEW q \in Roots, Counts(q) PROVE Counts(q)'
      BY AccountedCounts
    <2>1. Cardinality(Holders(q)') =
            IF q = r THEN Cardinality(Holders(q)) - 1 ELSE Cardinality(Holders(q))
      BY <1>1, HoldersShrink
    <2>2. Registered(q)' = Registered(q)
      BY DEF Registered
    <2>3. WriterIn(q)' = WriterIn(q)
      BY <1>1, ClientSets DEF WriterIn, TypeOK
    <2> QED
      BY <1>3, <2>1, <2>2, <2>3 DEF Counts, TypeOK
  <1>6. NoLostWakeup'
    BY <1>3 DEF NoLostWakeup, WriteBlocked, ReadBlocked, TypeOK
  <1> QED
    BY <1>2, <1>4, <1>5, <1>6

LEMMA BackOffPreserves ==
  ASSUME IndInv, NEW c \in Clients, NEW r \in Roots, BackOff(c, r)
  PROVE  IndInv'
  <1> USE DEF IndInv, BackOff
  <1>1. c \in AllReaders /\ r \in held[c]
    BY DEF Shapes, Shape, Last
  <1>2. Exclusive' /\ Accounted' /\ NoLostWakeup'
        /\ readers' \in [Roots -> Nat] /\ waiters' \in [Roots -> SUBSET Clients]
    BY <1>1, ReadLeaseReturned
  <1>3. TypeOK'
    BY <1>2 DEF TypeOK, PCs, release_read
  <1>4. Shapes'
    BY <1>1, ClientSets DEF Shapes, Shape, TypeOK
  <1> QED
    BY <1>2, <1>3, <1>4

LEMMA AcquireWritePreserves ==
  ASSUME IndInv, NEW w \in Clients, NEW r \in Roots, AcquireWrite(w, r)
  PROVE  IndInv'
  <1> USE DEF IndInv, AcquireWrite, Take
  <1>1. w \in Writers /\ w \notin AllReaders /\ r \in wants[w] \ held[w] /\ r \in reg[w]
    BY ClientSets DEF First, Shapes, Shape
  <1>2. waiting_writers[r] # 0
    BY <1>1, CountersTell
  <1>3. TypeOK'
    BY <1>2 DEF TypeOK, PCs
  <1>4. Shapes'
    BY <1>1, ClientSets DEF Shapes, Shape, TypeOK
  <1>5. Exclusive'
    <2>1. ~writer_active[r] /\ readers[r] = 0
      BY DEF WriteBlocked, TypeOK
    <2>2. \A c \in Clients : r \notin held[c]
      BY <2>1, CountersTell, ClientSets
    <2> QED
      BY <2>2 DEF Exclusive, TypeOK
  <1>6. Accounted'
    <2> SUFFICES ASSUME NEW q \in Roots, Counts(q) PROVE Counts(q)'
      BY AccountedCounts
    <2>1. Cardinality(Registered(q)') =
            IF q = r THEN Cardinality(Registered(q)) - 1 ELSE Cardinality(Registered(q))
      BY <1>1, RegisteredShrink
    <2>2. Holders(q)' = Holders(q)
      BY <1>1, ClientSets DEF Holders, TypeOK
    <2>3. WriterIn(q)' = (q = r \/ WriterIn(q))
      BY <1>1, ClientSets DEF WriterIn, TypeOK
    <2> QED
      BY <1>2, <2>1, <2>2, <2>3 DEF Counts, TypeOK
  <1>7. NoLostWakeup'
    BY DEF NoLostWakeup, WriteBlocked, ReadBlocked, TypeOK
  <1> QED
    BY <1>3, <1>4, <1>5, <1>6, <1>7

LEMMA WaitingPreserves ==
  ASSUME IndInv, NEW c \in Clients, Retry(c) \/ Cancel(c) \/ Leave(c)
  PROVE  IndInv'
  <1> USE DEF IndInv, Retry, Cancel, Leave, Gone, roots
  <1>1. TypeOK'
    BY DEF TypeOK, PCs
  <1>2. Shapes'
    BY ClientSets DEF Shapes, Shape, TypeOK
  <1>3. NoLostWakeup'
    BY DEF NoLostWakeup, WriteBlocked, ReadBlocked, TypeOK
  <1> QED
    BY <1>1, <1>2, <1>3, Quiet

LEMMA UnwindHeldPreserves ==
  ASSUME IndInv, NEW c \in Clients, NEW r \in Roots, UnwindHeld(c, r)
  PROVE  IndInv'
  <1> USE DEF IndInv, UnwindHeld, Gone
  <1>1. r \in held[c]
    BY DEF Last
  <1>2. Shapes'
    BY ClientSets DEF Shapes, Shape, TypeOK
  <1>3. CASE c \in AllReaders
    <2>1. c \notin Writers
      BY <1>3, ClientSets
    <2>2. Exclusive' /\ Accounted' /\ NoLostWakeup'
          /\ readers' \in [Roots -> Nat] /\ waiters' \in [Roots -> SUBSET Clients]
      BY <1>1, <1>3, <2>1, ReadLeaseReturned
    <2>3. TypeOK'
      BY <2>1, <2>2 DEF TypeOK, PCs, release_read
    <2> QED
      BY <1>2, <2>2, <2>3
  <1>4. CASE c \in Writers
    <2> USE <1>4 DEF release_write
    <2>1. TypeOK'
      <3>1. /\ writer_active' \in [Roots -> BOOLEAN] /\ revision' \in [Roots -> Nat]
            /\ waiters' \in [Roots -> SUBSET Clients]
        <4>1. release_write(r) /\ TypeOK
          OBVIOUS
        <4> HIDE DEF IndInv, UnwindHeld
        <4>2. writer_active' \in [Roots -> BOOLEAN]
          BY <4>1 DEF TypeOK
        <4>3. revision' \in [Roots -> Nat]
          BY <4>1 DEF TypeOK
        <4>4. waiters' \in [Roots -> SUBSET Clients]
          BY <4>1 DEF TypeOK
        <4> QED
          BY <4>2, <4>3, <4>4
      <3>2. CASE held[c] = {r} /\ reg[c] = {}
        BY <3>1, <3>2 DEF TypeOK, PCs
      <3>3. CASE ~(held[c] = {r} /\ reg[c] = {})
        BY <3>1, <3>3 DEF TypeOK
      <3> QED
        BY <3>2, <3>3
    <2>2. Exclusive'
      BY DEF Exclusive, TypeOK
    <2>3. Accounted'
      <3> SUFFICES ASSUME NEW q \in Roots, Counts(q) PROVE Counts(q)'
        BY AccountedCounts
      <3>1. Holders(q)' = Holders(q) /\ Registered(q)' = Registered(q)
        BY ClientSets DEF Holders, Registered, TypeOK
      <3>2. WriterIn(q)' = (q # r /\ WriterIn(q))
        <4>1. \A w \in Writers : r \notin held'[w]
          BY <1>1, ClientSets DEF Exclusive, TypeOK
        <4>2. q # r => \A w \in Writers : q \in held'[w] <=> q \in held[w]
          BY ClientSets DEF TypeOK
        <4> QED
          BY <4>1, <4>2 DEF WriterIn
      <3> QED
        BY <3>1, <3>2 DEF Counts, TypeOK
    <2>4. NoLostWakeup'
      BY DEF NoLostWakeup, WriteBlocked, ReadBlocked, TypeOK
    <2> QED
      BY <1>2, <2>1, <2>2, <2>3, <2>4
  <1> QED
    BY <1>3, <1>4, ClientSets

LEMMA UnwindRegisteredPreserves ==
  ASSUME IndInv, NEW w \in Clients, NEW r \in Roots, UnwindRegistered(w, r)
  PROVE  IndInv'
  <1> USE DEF IndInv, UnwindRegistered, unregister_write_waiter, Gone
  <1>1. w \in Writers /\ r \in reg[w]
    BY ClientSets DEF First, Shapes, Shape
  <1>2. waiting_writers[r] # 0
    BY <1>1, CountersTell
  <1>3. TypeOK'
    BY <1>2 DEF TypeOK, PCs
  <1>4. Shapes'
    BY <1>1, ClientSets DEF Shapes, Shape, TypeOK
  <1>5. Exclusive'
    BY DEF Exclusive
  <1>6. Accounted'
    <2> SUFFICES ASSUME NEW q \in Roots, Counts(q) PROVE Counts(q)'
      BY AccountedCounts
    <2>1. Cardinality(Registered(q)') =
            IF q = r THEN Cardinality(Registered(q)) - 1 ELSE Cardinality(Registered(q))
      BY <1>1, RegisteredShrink
    <2>2. Holders(q)' = Holders(q) /\ WriterIn(q)' = WriterIn(q)
      BY DEF Holders, WriterIn
    <2> QED
      BY <1>2, <2>1, <2>2 DEF Counts, TypeOK
  <1>7. NoLostWakeup'
    BY <1>2, SMTT(30) DEF NoLostWakeup, WriteBlocked, ReadBlocked, TypeOK
  <1> QED
    BY <1>3, <1>4, <1>5, <1>6, <1>7

LEMMA NextPreserves == IndInv /\ [Next]_vars => IndInv'
  <1> SUFFICES ASSUME IndInv, [Next]_vars PROVE IndInv'
    OBVIOUS
  <1>1. CASE UNCHANGED vars
    <2>1. TypeOK' /\ Exclusive' /\ NoLostWakeup'
      BY <1>1 DEF vars, roots, clients, IndInv, TypeOK, Exclusive, NoLostWakeup, WriteBlocked,
         ReadBlocked
    <2>2. Shapes'
      BY <1>1 DEF vars, roots, clients, IndInv, Shapes, Shape
    <2>3. Accounted'
      BY <1>1 DEF vars, roots, clients, IndInv, Accounted
    <2> QED
      BY <2>1, <2>2, <2>3 DEF IndInv
  <1>2. ASSUME NEW c \in Clients, Step(c)
        PROVE  IndInv'
    BY <1>2, WaitingPreserves, RegisterPreserves, AcquireReadPreserves, ParkPreserves,
       BackOffPreserves, AcquireWritePreserves, UnwindHeldPreserves,
       UnwindRegisteredPreserves DEF Step
  <1> QED
    BY <1>1, <1>2, WaitingPreserves, BeginPreserves DEF Next

THEOREM Invariance == Spec => []IndInv
  BY InitEstablishes, NextPreserves, PTL DEF Spec

--------------------------------------------------------------------------------
(* What follows from it.                                                    *)

\* The counters, leases and registrations of every root keep their types; no counter
\* falls below zero (_RootLeaseState).
THEOREM TypeCorrectness == Spec => []TypeOK
  BY Invariance, PTL DEF IndInv

\* A root that is written is neither read nor written by another client
\* (acquire_read_or_wait, acquire_registered_write_or_wait).
THEOREM Exclusion == Spec => []Exclusive
  BY Invariance, PTL DEF IndInv

\* The counters of a root are the leases and registrations that exist, after every
\* cancellation and every unwinding (write_many, _acquire_without_leaking_on_cancel).
THEOREM Accounting == Spec => []Accounted
  BY Invariance, PTL DEF IndInv

\* Whoever is parked on a root has a lease or registration of that root to wait for
\* (release_read, unregister_write_waiter, release_write wake the waiters).
THEOREM WakeupsArrive == Spec => []NoLostWakeup
  BY Invariance, PTL DEF IndInv

\* No reader gets in before a writer that waits, on any root the writer asked for: those
\* it has are being written, those it has yet to get it is registered on (F-150).
THEOREM WritersComeFirst == Spec => NoOvertaking
  <1>1. IndInv /\ [Next]_vars =>
          [\A w \in Writers : \A r \in wants[w] :
             pc[w] \in {"acquire", "parked"} => readers'[r] <= readers[r]]_vars
    <2> SUFFICES ASSUME IndInv, Next, NEW w \in Writers, NEW q \in wants[w],
                        pc[w] \in {"acquire", "parked"}
                 PROVE  readers'[q] <= readers[q]
      OBVIOUS
    <2>1. TypeOK /\ Accounted /\ Shape(w) /\ q \in Roots
      BY DEF IndInv, Shapes, Clients, TypeOK
    <2>2. readers[q] \in Nat /\ ReadBlocked(q)
      <3>1. q \in reg[w] \/ q \in held[w]
        BY <2>1 DEF Shape
      <3>2. waiting_writers[q] \in Nat /\ (waiting_writers[q] # 0 \/ writer_active[q])
        BY <2>1, <3>1, CountersTell DEF TypeOK
      <3> QED
        BY <2>1, <3>2 DEF ReadBlocked, TypeOK
    <2>3. ASSUME NEW c \in Clients, NEW r \in Roots, AcquireRead(c, r)
          PROVE  readers'[q] <= readers[q]
      BY <2>1, <2>2, <2>3 DEF AcquireRead, ReadBlocked, TypeOK
    <2>4. ASSUME NEW c \in Clients, NEW r \in Roots, BackOff(c, r) \/ UnwindHeld(c, r)
          PROVE  readers'[q] <= readers[q]
      BY <2>1, <2>2, <2>4 DEF BackOff, UnwindHeld, release_read, release_write, TypeOK
    <2>5. UNCHANGED readers => readers'[q] <= readers[q]
      BY <2>2
    <2>6. ASSUME NEW c \in Clients, Step(c)
          PROVE  readers'[q] <= readers[q]
      BY <2>3, <2>4, <2>5, <2>6 DEF Step, Retry, Leave, Register, register_write_waiter,
         ParkRead, ParkWrite, Park, AcquireWrite, UnwindRegistered, unregister_write_waiter,
         roots
    <2> QED
      BY <2>5, <2>6 DEF Next, Cancel, Begin, roots
  <1> QED
    BY <1>1, Invariance, PTL DEF Spec, NoOvertaking

\* The files under a read lease do not change, be it a partial one: no write ends (or
\* begins) meanwhile.
StableWhileRead == [][\A c \in AllReaders, r \in Roots :
                        r \in held[c] => revision'[r] = revision[r]]_vars

\* No write of a root ends or begins while somebody has a read lease on it, so a
\* reader that compares the revision under its lease compares a fixed one.
THEOREM ReadersSeeNoWrite == Spec => StableWhileRead
  <1>1. IndInv /\ [Next]_vars =>
          [\A c \in AllReaders, r \in Roots :
             r \in held[c] => revision'[r] = revision[r]]_vars
    <2> SUFFICES ASSUME IndInv, Next, NEW c \in AllReaders, NEW q \in Roots, q \in held[c]
                 PROVE  revision'[q] = revision[q]
      OBVIOUS
    <2>1. TypeOK /\ Exclusive
      BY DEF IndInv
    <2>2. ASSUME NEW d \in Clients, NEW r \in Roots, UnwindHeld(d, r)
          PROVE  revision'[q] = revision[q]
      <3>1. CASE d \in Writers
        <4>1. d # c /\ r \in held[d]
          BY <2>2, <3>1, ClientSets DEF UnwindHeld, Last
        <4>2. r # q
          BY <2>1, <3>1, <4>1, ClientSets DEF Exclusive
        <4> QED
          BY <2>1, <2>2, <3>1, <4>2 DEF UnwindHeld, release_write, TypeOK
      <3> QED
        BY <2>2, <3>1 DEF UnwindHeld, release_read
    <2>3. ASSUME NEW d \in Clients, Step(d)
          PROVE  revision'[q] = revision[q]
      BY <2>2, <2>3 DEF Step, Retry, Leave, Register, register_write_waiter, AcquireRead,
         ParkRead, ParkWrite, Park, BackOff, release_read, AcquireWrite, UnwindRegistered,
         unregister_write_waiter, roots
    <2> QED
      BY <2>3 DEF Next, Cancel, Begin, roots
  <1> QED
    BY <1>1, Invariance, PTL DEF Spec, StableWhileRead

--------------------------------------------------------------------------------
(* The leases are granted and ended as a whole: FilesystemLease is           *)
(* implemented. A request has its lease from its last root on, and the       *)
(* editions rise when a writer leaves or gives up, before it releases.       *)

\* A lease is what its client has, and nothing that it is still releasing.
LEMMA LeaseIsHeld ==
  ASSUME IndInv, NEW c \in Clients
  PROVE  /\ Lease[c] = IF pc[c] = "holding" THEN held[c] ELSE {}
         /\ Lease[c] \subseteq held[c]
  BY DEF IndInv, Shapes, Shape, Lease

\* Nobody else has a lease on what a writer has, or releases it.
LEMMA WritersApart ==
  ASSUME IndInv, NEW w \in Writers, pc[w] # "holding"
  PROVE  /\ Whole!Clear(Clients, held[w])
         /\ pc[w] # "unwind" => \A r \in held[w] : ~BeingReleased(r)
  <1>1. TypeOK /\ Exclusive
    BY DEF IndInv
  <1>2. ASSUME NEW c \in Clients PROVE Lease[c] \intersect held[w] = {}
    BY <1>1, <1>2, LeaseIsHeld, ClientSets DEF Exclusive, TypeOK
  <1>3. ASSUME pc[w] # "unwind", NEW r \in held[w] PROVE ~BeingReleased(r)
    BY <1>1, <1>3, ClientSets DEF BeingReleased, Exclusive, TypeOK
  <1> QED
    BY <1>2, <1>3 DEF Whole!Clear, Whole!Clients, Clients

\* Who has a lease on a root reads its edition (scan_revision under a read lease).
LEMMA LeaseShowsEdition ==
  ASSUME IndInv, NEW c \in Clients, NEW r \in Lease[c]
  PROVE  Edition[r] = revision[r]
  <1>1. TypeOK /\ Exclusive /\ r \in held[c] /\ pc[c] = "holding" /\ r \in Roots
    BY LeaseIsHeld DEF IndInv, TypeOK
  <1>2. ~BeingReleased(r)
    BY <1>1, ClientSets DEF BeingReleased, Exclusive
  <1> QED
    BY <1>1, <1>2 DEF Edition

\* The revision a lease holder reads is the edition, so comparing revisions under a lease
\* compares editions; who reads without a lease may be late, never early.
THEOREM LeaseReadsEdition ==
  Spec => [](\A c \in Clients : \A r \in Lease[c] : Edition[r] = revision[r])
  <1>1. IndInv => \A c \in Clients : \A r \in Lease[c] : Edition[r] = revision[r]
    BY LeaseShowsEdition
  <1> QED
    BY <1>1, Invariance, PTL

LEMMA InitRefines == Init => Whole!Init
  BY ClientSets DEF Init, Whole!Init, Whole!Clients, Clients, Lease, Edition, BeingReleased

LEMMA AcquireReadRefines ==
  ASSUME IndInv, IndInv', NEW c \in Clients, NEW r \in Roots, AcquireRead(c, r)
  PROVE  [Whole!Next]_Whole!vars
  <1> USE DEF AcquireRead, Take
  <1>1. TypeOK /\ Exclusive' /\ c \in AllReaders /\ c \notin Writers /\ r \in wants[c]
    BY ClientSets DEF IndInv, First
  <1>2. Edition' = Edition
    BY <1>1, ClientSets DEF Edition, BeingReleased, TypeOK
  <1>3. CASE wants[c] = held[c] \union {r}
    <2>1. Lease' = [Lease EXCEPT ![c] = wants[c]] /\ Lease[c] = {}
      BY <1>1, <1>3 DEF Lease, TypeOK
    <2>2. ASSUME NEW w \in Writers PROVE Lease[w] \intersect wants[c] = {}
      <3>1. w \in Clients /\ w # c /\ held'[w] = held[w] /\ held'[c] = wants[c]
        BY <1>1, <1>3, ClientSets DEF TypeOK
      <3> QED
        BY <1>1, <3>1, LeaseIsHeld DEF Exclusive, TypeOK
    <2>3. wants[c] \in (SUBSET Roots) \ {{}}
      BY <1>1 DEF TypeOK
    <2>4. Whole!GrantRead(c, wants[c])
      BY <1>1, <1>2, <2>1, <2>2 DEF Whole!GrantRead, Whole!Clear
    <2> QED
      BY <1>1, <2>3, <2>4 DEF Whole!Next, Whole!Clients
  <1>4. CASE wants[c] # held[c] \union {r}
    <2>1. Lease' = Lease
      BY <1>1, <1>4 DEF Lease, TypeOK
    <2> QED
      BY <1>2, <2>1 DEF Whole!vars
  <1> QED
    BY <1>3, <1>4

LEMMA AcquireWriteRefines ==
  ASSUME IndInv, IndInv', NEW c \in Clients, NEW r \in Roots, AcquireWrite(c, r)
  PROVE  [Whole!Next]_Whole!vars
  <1> USE DEF AcquireWrite, Take
  <1>1. TypeOK /\ Exclusive' /\ c \in Writers /\ r \in wants[c]
    BY DEF IndInv, First
  <1>2. Edition' = Edition
    BY <1>1, ClientSets DEF Edition, BeingReleased, TypeOK
  <1>3. CASE wants[c] = held[c] \union {r}
    <2>1. Lease' = [Lease EXCEPT ![c] = wants[c]] /\ Lease[c] = {}
      BY <1>1, <1>3 DEF Lease, TypeOK
    <2>2. ASSUME NEW d \in Clients PROVE Lease[d] \intersect wants[c] = {}
      <3>1. CASE d # c
        <4>1. held'[d] = held[d] /\ held'[c] = wants[c]
          BY <1>1, <1>3, <3>1 DEF TypeOK
        <4> QED
          BY <1>1, <3>1, <4>1, LeaseIsHeld DEF Exclusive, TypeOK
      <3> QED
        BY <2>1, <3>1
    <2>3. wants[c] \in (SUBSET Roots) \ {{}}
      BY <1>1 DEF TypeOK
    <2>4. Whole!GrantWrite(c, wants[c])
      BY <1>1, <1>2, <2>1, <2>2 DEF Whole!GrantWrite, Whole!Clear, Whole!Clients, Clients
    <2> QED
      BY <1>1, <2>3, <2>4 DEF Whole!Next, Whole!Clients
  <1>4. CASE wants[c] # held[c] \union {r}
    <2>1. Lease' = Lease
      BY <1>1, <1>4 DEF Lease, TypeOK
    <2> QED
      BY <1>2, <2>1 DEF Whole!vars
  <1> QED
    BY <1>3, <1>4

LEMMA LeaveRefines ==
  ASSUME IndInv, NEW c \in Clients, Leave(c)
  PROVE  [Whole!Next]_Whole!vars
  <1> USE DEF Leave
  <1>1. TypeOK /\ Exclusive /\ UNCHANGED <<revision, wants, held>>
    BY DEF IndInv, roots
  <1>2. Lease' = [Lease EXCEPT ![c] = {}] /\ Lease[c] = held[c]
    BY <1>1, LeaseIsHeld DEF Lease, TypeOK
  <1>3. CASE held[c] = {}
    <2>1. Lease' = Lease /\ Edition' = Edition
      BY <1>1, <1>2, <1>3, ClientSets DEF Lease, Edition, BeingReleased, TypeOK
    <2> QED
      BY <2>1 DEF Whole!vars
  <1>4. CASE held[c] # {} /\ c \in AllReaders
    <2>1. Edition' = Edition
      BY <1>1, <1>4, ClientSets DEF Edition, BeingReleased, TypeOK
    <2>2. Whole!EndRead(c)
      BY <1>2, <1>4, <2>1 DEF Whole!EndRead
    <2> QED
      BY <1>4, <2>2 DEF Whole!Next, Whole!Clients
  <1>5. CASE held[c] # {} /\ c \in Writers
    <2>1. ASSUME NEW r \in Roots
          PROVE  BeingReleased(r)' <=> BeingReleased(r) \/ r \in held[c]
      BY <1>1, <1>5, ClientSets DEF BeingReleased, TypeOK
    <2>2. ASSUME NEW r \in held[c] PROVE ~BeingReleased(r)
      BY <1>1, <1>5, ClientSets DEF BeingReleased, Exclusive, TypeOK
    <2>3. Whole!Raise(held[c])
      BY <1>1, <2>1, <2>2 DEF Whole!Raise, Edition
    <2>4. Whole!EndWrite(c)
      BY <1>2, <1>5, <2>3 DEF Whole!EndWrite
    <2> QED
      BY <1>5, <2>4 DEF Whole!Next, Whole!Clients
  <1> QED
    BY <1>3, <1>4, <1>5, ClientSets

LEMMA CancelRefines ==
  ASSUME IndInv, NEW c \in Clients, Cancel(c)
  PROVE  [Whole!Next]_Whole!vars
  <1> USE DEF Cancel, Gone
  <1>1. TypeOK /\ Exclusive /\ UNCHANGED <<revision, held>>
    BY DEF IndInv
  <1>2. Lease' = Lease
    BY <1>1 DEF Lease, TypeOK
  <1>3. CASE c \in AllReaders \/ held[c] = {}
    <2>1. Edition' = Edition
      BY <1>1, <1>3, ClientSets DEF Edition, BeingReleased, TypeOK
    <2> QED
      BY <1>2, <2>1 DEF Whole!vars
  <1>4. CASE c \in Writers /\ held[c] # {}
    <2>1. ASSUME NEW r \in Roots
          PROVE  BeingReleased(r)' <=> BeingReleased(r) \/ r \in held[c]
      BY <1>1, <1>4, ClientSets DEF BeingReleased, TypeOK
    <2>2. Whole!Raise(held[c])
      BY <1>1, <1>4, <2>1, WritersApart DEF Whole!Raise, Edition
    <2>3. Whole!Withdraw(held[c])
      BY <1>2, <1>4, <2>2, WritersApart DEF Whole!Withdraw, Whole!Clients, Clients
    <2>4. held[c] \in (SUBSET Roots) \ {{}}
      BY <1>1, <1>4 DEF TypeOK
    <2> QED
      BY <2>3, <2>4 DEF Whole!Next
  <1> QED
    BY <1>3, <1>4, ClientSets

\* A writer releases its roots one by one behind a lease that has ended.
LEMMA UnwindHeldRefines ==
  ASSUME IndInv, IndInv', NEW c \in Clients, NEW r \in Roots, UnwindHeld(c, r)
  PROVE  [Whole!Next]_Whole!vars
  <1> USE DEF UnwindHeld, Gone
  <1>1. TypeOK /\ Exclusive /\ r \in held[c] /\ held' = [held EXCEPT ![c] = @ \ {r}]
    BY DEF IndInv, Last
  <1>2. Lease' = Lease
    BY <1>1 DEF Lease, TypeOK
  <1>3. CASE c \in AllReaders
    <2>1. c \notin Writers /\ revision' = revision
      BY <1>3, ClientSets DEF release_read
    <2>2. \A q \in Roots : BeingReleased(q)' <=> BeingReleased(q)
      BY <1>1, <2>1, ClientSets DEF BeingReleased, TypeOK
    <2>3. Edition' = Edition
      BY <2>1, <2>2 DEF Edition
    <2> QED
      BY <1>2, <2>3 DEF Whole!vars
  <1>4. CASE c \in Writers
    <2>1. revision' = [revision EXCEPT ![r] = @ + 1]
      BY <1>4 DEF release_write
    <2>2. BeingReleased(r) /\ ~BeingReleased(r)'
      BY <1>1, <1>4, ClientSets DEF BeingReleased, Exclusive, TypeOK
    <2>3. ASSUME NEW q \in Roots, q # r PROVE BeingReleased(q)' <=> BeingReleased(q)
      BY <1>1, <1>4, <2>3, ClientSets DEF BeingReleased, TypeOK
    <2>4. Edition' = Edition
      BY <1>1, <2>1, <2>2, <2>3 DEF Edition, TypeOK
    <2> QED
      BY <1>2, <2>4 DEF Whole!vars
  <1> QED
    BY <1>3, <1>4, ClientSets

LEMMA OtherStepsRefine ==
  ASSUME IndInv, NEW c \in Clients, NEW r \in Roots, NEW S \in SUBSET Roots,
         \/ Begin(c, S) \/ Register(c, r) \/ ParkRead(c, r) \/ ParkWrite(c, r)
         \/ BackOff(c, r) \/ Retry(c) \/ UnwindRegistered(c, r)
  PROVE  [Whole!Next]_Whole!vars
  <1>1. TypeOK /\ Shape(c) /\ revision' = revision
    BY DEF IndInv, Shapes, Begin, Register, register_write_waiter, ParkRead, ParkWrite,
       Park, BackOff, release_read, Retry, UnwindRegistered, unregister_write_waiter, roots
  <1>2. Lease' = Lease
    BY <1>1 DEF Lease, TypeOK, Begin, Register, ParkRead, ParkWrite, BackOff, Retry,
       UnwindRegistered, Gone
  <1>3. \A q \in Roots : BeingReleased(q)' <=> BeingReleased(q)
    BY <1>1, ClientSets DEF BeingReleased, TypeOK, Shape, Begin, Register, ParkRead,
       ParkWrite, BackOff, Retry, UnwindRegistered, Gone
  <1>4. Edition' = Edition
    BY <1>1, <1>3 DEF Edition
  <1> QED
    BY <1>2, <1>4 DEF Whole!vars

\* For every number of roots, readers, threads and writers: to those who use them the
\* leases are FilesystemLease's, granted and ended as a whole, with an edition that rises
\* on all the roots of a write at once (read_many, write_many, read_sync).
THEOREM Implements == Spec => AtomicLeases
  <1>1. IndInv /\ IndInv' /\ [Next]_vars => [Whole!Next]_Whole!vars
    <2> SUFFICES ASSUME IndInv, IndInv', [Next]_vars PROVE [Whole!Next]_Whole!vars
      OBVIOUS
    <2>1. CASE UNCHANGED vars
      BY <2>1 DEF vars, roots, clients, Whole!vars, Lease, Edition, BeingReleased
    <2>2. 1 \in Roots /\ {} \in SUBSET Roots
      BY ConstantsOK DEF Roots
    <2>3. ASSUME NEW c \in Clients, Step(c) PROVE [Whole!Next]_Whole!vars
      BY <2>2, <2>3, AcquireReadRefines, AcquireWriteRefines, LeaveRefines,
         UnwindHeldRefines, OtherStepsRefine DEF Step
    <2> QED
      BY <2>1, <2>2, <2>3, CancelRefines, OtherStepsRefine DEF Next
  <1> QED
    BY <1>1, InitRefines, Invariance, PTL DEF Spec, AtomicLeases, Whole!Spec
================================================================================
