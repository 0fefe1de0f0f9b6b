---------------------------- MODULE RWLock_proofs ----------------------------
(***************************************************************************)
(* Proofs about RWLock: its types, that no wakeup is lost (NoLostWakeup),  *)
(* and that the fallback of threads.h is the read-write lock that          *)
(* AbstractRWLock describes (ImplementsReadersWriter).                     *)
(***************************************************************************)
EXTENDS RWLock, FiniteSetTheorems, TLAPS

(* Strays or not, the count is never above the number of read locks out.   *)
Counts ==
  /\ reader_count \in Int
  /\ -1 <= reader_count /\ reader_count <= Cardinality(reading)

Types ==
  /\ Counts
  /\ mutex \in Threads \cup {NoThread}
  /\ pc \in [Threads -> PCs]
  /\ reading \subseteq ReadLocks
  /\ writing \in Threads \cup {NoThread}
  /\ stray \in BOOLEAN /\ unwound \in BOOLEAN

(* Of a lock nobody strayed into, it says exactly who is in.               *)
Exact ==
  /\ writing # NoThread => reader_count = -1 /\ reading = {}
  /\ writing = NoThread => reader_count = Cardinality(reading)

IInv ==
  /\ Types
  /\ ~stray => Exact
  /\ NoLostWakeup

USE RWThreadsAssumption, RWOptionsAssumption DEF RWThreadsAssumption, RWOptionsAssumption

(* Read locks can be counted.                                              *)
LEMMA FiniteReads ==
  ASSUME NEW R, R \subseteq ReadLocks
  PROVE  /\ IsFiniteSet(R)
         /\ Cardinality(R) \in 0 .. MaxReads * Cardinality(Threads)
<1>1. IsFiniteSet(1 .. MaxReads) /\ Cardinality(1 .. MaxReads) = MaxReads
  BY FS_Interval
<1>2. /\ IsFiniteSet(ReadLocks)
      /\ Cardinality(ReadLocks) = Cardinality(Threads) * MaxReads
  BY <1>1, FS_Product DEF ReadLocks
<1>3. Cardinality(Threads) * MaxReads = MaxReads * Cardinality(Threads)
  BY FS_CardinalityType
<1> QED
  BY <1>2, <1>3, FS_Subset, FS_CardinalityType

LEMMA Initial == Init => IInv
<1> SUFFICES ASSUME Init
             PROVE  IInv
  OBVIOUS
<1>0. Cardinality(reading) = 0
  BY FS_EmptySet, Zenon DEF Init
<1>1. Counts /\ Exact
  BY <1>0 DEF Init, Counts, Exact
<1>2. Types
  BY <1>1 DEF Init, Types, PCs
<1>3. NoLostWakeup
  BY DEF Init, NoLostWakeup, At
<1> QED
  BY <1>1, <1>2, <1>3 DEF IInv

(* The count goes up and down with the read locks.                         *)
LEMMA OneMore ==
  ASSUME Types, NEW t \in Threads, GotRead(t)
  PROVE  /\ reading' \subseteq ReadLocks
         /\ Cardinality(reading) \in Nat
         /\ Cardinality(reading') = Cardinality(reading) + 1
<1>1. PICK n \in 1 .. MaxReads :
        <<t, n>> \notin reading /\ reading' = reading \cup {<<t, n>>}
  BY DEF GotRead
<1>2. IsFiniteSet(reading) /\ Cardinality(reading) \in Nat
  BY FiniteReads, FS_CardinalityType DEF Types
<1>3. Cardinality(reading') = Cardinality(reading) + 1
  BY <1>1, <1>2, FS_AddElement
<1>4. reading' \subseteq ReadLocks
  BY <1>1 DEF Types, ReadLocks
<1> QED
  BY <1>2, <1>3, <1>4

LEMMA OneLess ==
  ASSUME Types, NEW l \in reading, reading' = reading \ {l}
  PROVE  /\ reading' \subseteq ReadLocks
         /\ Cardinality(reading) \in Nat
         /\ Cardinality(reading') = Cardinality(reading) - 1
<1>1. IsFiniteSet(reading) /\ Cardinality(reading) \in Nat
  BY FiniteReads, FS_CardinalityType DEF Types
<1> QED
  BY <1>1, FS_RemoveElement DEF Types

(* Whoever gets in or is woken stays in a known place.                     *)
LEMMA PlacesInside ==
  ASSUME Types, NEW t \in Threads, NEW W, Inside(t, W)
  PROVE  /\ mutex' \in Threads \cup {NoThread}
         /\ pc' \in [Threads -> PCs]
         /\ unwound' = unwound
BY DEF Types, Inside, PCs

LEMMA CountsStep ==
  ASSUME IInv, NEW t \in Threads,
         LockRead(t) \/ LockWrite(t) \/ UnlockRead(t) \/ UnlockWrite(t)
  PROVE  Types' /\ (~stray => Exact)'
<1> USE DEF IInv
<1>0. Types /\ (~stray => Exact)
  OBVIOUS
<1>1. CASE LockRead(t)
  <2>1. GotRead(t) /\ Inside(t, {}) /\ reader_count # -1
    BY <1>1 DEF LockRead, ReadRefused
  <2>2. Types'
    BY <1>0, <2>1, OneMore, PlacesInside DEF GotRead, Types, Counts
  <2>3. (~stray => Exact)'
    BY <1>0, <2>1, OneMore DEF GotRead, Exact, Types, Counts
  <2> QED
    BY <2>2, <2>3
<1>2. CASE LockWrite(t)
  <2>1. GotWrite(t) /\ Inside(t, {}) /\ reader_count = 0
    BY <1>2 DEF LockWrite, WriteRefused
  <2>2. IsFiniteSet(reading) /\ Cardinality(reading) \in Nat
    BY <1>0, FiniteReads, FS_CardinalityType DEF Types
  <2>3. Cardinality(reading) = 0 => reading = {}
    BY <2>2, FS_EmptySet
  <2>4. Types'
    BY <1>0, <2>1, <2>2, PlacesInside DEF GotWrite, Types, Counts
  <2>5. (~stray => Exact)'
    BY <1>0, <2>1, <2>3 DEF GotWrite, Exact, Types, Counts
  <2> QED
    BY <2>4, <2>5
<1>3. CASE UnlockRead(t)
  <2> DEFINE mine == {l \in reading : l[1] = t}
  <2>1. /\ 0 < reader_count /\ reader_count' = reader_count - 1
        /\ IF mine = {} THEN UNCHANGED reading ELSE \E l \in mine : reading' = reading \ {l}
        /\ stray' = (stray \/ mine = {})
        /\ writing' = writing
    BY <1>0, <1>3 DEF UnlockRead, ReadNotOwned, Types, Counts
  <2>2. PICK W : Inside(t, W)
    BY <1>3 DEF UnlockRead
  <2>3. CASE mine = {}
    <3>1. reading' = reading /\ stray' = TRUE
      BY <2>1, <2>3
    <3>2. Cardinality(reading) \in Nat
      BY <1>0, FiniteReads DEF Types
    <3>3. Types'
      BY <1>0, <2>1, <2>2, <3>1, <3>2, PlacesInside DEF Types, Counts
    <3> QED
      BY <3>1, <3>3
  <2>4. CASE mine # {}
    <3>1. PICK l \in reading : reading' = reading \ {l}
      BY <2>1, <2>4
    <3>2. /\ reading' \subseteq ReadLocks
          /\ Cardinality(reading) \in Nat
          /\ Cardinality(reading') = Cardinality(reading) - 1
      BY <1>0, <3>1, OneLess
    <3>3. Types'
      BY <1>0, <2>1, <2>2, <2>4, <3>2, PlacesInside DEF Types, Counts
    <3>4. (~stray => Exact)'
      BY <1>0, <2>1, <2>4, <3>2 DEF Exact, Types, Counts
    <3> QED
      BY <3>3, <3>4
  <2> QED
    BY <2>3, <2>4
<1>4. CASE UnlockWrite(t)
  <2>1. /\ reader_count < 0 /\ reader_count' = 0
        /\ writing' = IF writing = t THEN NoThread ELSE writing
        /\ stray' = (stray \/ writing # t)
        /\ reading' = reading
    BY <1>0, <1>4 DEF UnlockWrite, WriteNotOwned, Types, Counts
  <2>2. PICK W : Inside(t, W)
    BY <1>4 DEF UnlockWrite
  <2>3. Cardinality(reading) \in Nat
    BY <1>0, FiniteReads DEF Types
  <2>4. Types'
    BY <1>0, <2>1, <2>2, <2>3, PlacesInside DEF Types, Counts
  <2>5. Cardinality({}) = 0
    BY FS_EmptySet
  <2>6. (~stray => Exact)'
    BY <1>0, <2>1, <2>3, <2>5 DEF Exact, Types, Counts
  <2> QED
    BY <2>4, <2>6
<1> QED
  BY <1>1, <1>2, <1>3, <1>4

(* The other steps leave the record alone.                                 *)
Idle(t) ==
  \/ LockReadWait(t) \/ LockWriteWait(t) \/ TryLock(t) \/ NotOwned(t) \/ Leave(t)
  \/ SpuriousWakeup(t) \/ Interrupt(t)

LEMMA IdleSteps ==
  ASSUME IInv, NEW t \in Threads, Idle(t)
  PROVE  /\ UNCHANGED <<reader_count, held, stray>>
         /\ Types' /\ (~stray => Exact)'
<1>1. UNCHANGED <<reader_count, held, stray>>
  BY DEF Idle, LockReadWait, LockWriteWait, TryLock, NotOwned, Leave, SpuriousWakeup,
         Interrupt, Block
<1>2. Types /\ (~stray => Exact)
  BY DEF IInv
<1>3. /\ mutex' \in Threads \cup {NoThread}
      /\ pc' \in [Threads -> PCs]
      /\ unwound' \in BOOLEAN
  <2>1. CASE TryLock(t) \/ NotOwned(t)
    <3>1. Inside(t, {})
      BY <2>1 DEF TryLock, NotOwned
    <3>2. unwound \in BOOLEAN
      BY <1>2 DEF Types
    <3> QED
      BY <1>2, <3>1, <3>2, PlacesInside
  <2>2. CASE LockReadWait(t) \/ LockWriteWait(t)
    BY <1>2, <2>2 DEF LockReadWait, LockWriteWait, Block, Types, PCs
  <2>3. CASE Leave(t) \/ SpuriousWakeup(t)
    BY <1>2, <2>3 DEF Leave, SpuriousWakeup, Types, PCs
  <2>4. CASE Interrupt(t)
    BY <1>2, <2>4 DEF Interrupt, Types, PCs
  <2> QED
    BY <2>1, <2>2, <2>3, <2>4 DEF Idle
<1>4. Counts'
  BY <1>1, <1>2 DEF Types, Counts, held
<1>5. Types'
  BY <1>1, <1>2, <1>3, <1>4 DEF Types, held
<1>6. (~stray => Exact)'
  BY <1>1, <1>2 DEF Exact, held
<1> QED
  BY <1>1, <1>5, <1>6

(* A writer that is signalled is awake to take the lock, and sleeps if     *)
(* nobody is.                                                              *)
LEMMA SignalLeavesAwake ==
  ASSUME Types, NEW t \in Threads, pc[t] = "running",
         NEW S \in Signalled, NEW W, S \subseteq W, Inside(t, W)
  PROVE  (At("writer_cv") = {} \/ At("write_again") # {})'
<1>1. CASE At("writer_cv") = {}
  BY <1>1 DEF Inside, At, Types
<1>2. CASE At("writer_cv") # {}
  <2>1. PICK u \in At("writer_cv") : S = {u}
    BY <1>2 DEF Signalled
  <2>2. u \in Threads /\ u # t /\ pc[u] = "writer_cv" /\ u \in W
    BY <2>1 DEF At
  <2>3. pc'[u] = "write_again"
    BY <2>2 DEF Inside
  <2> QED
    BY <2>2, <2>3 DEF At
<1> QED
  BY <1>1, <1>2

ReadersAwake == reader_count # -1 => At("reader_cv") = {}
WritersAwake == reader_count = 0 => At("writer_cv") = {} \/ At("write_again") # {}

LEMMA WakeupsStep ==
  ASSUME IInv, NEW t \in Threads, ~unwound', ~Interrupt(t),
         \/ LockRead(t) \/ LockWrite(t) \/ UnlockRead(t) \/ UnlockWrite(t)
         \/ Idle(t)
  PROVE  (ReadersAwake /\ WritersAwake)'
<1>0. Types
  BY DEF IInv
<1>1. ~unwound
  BY DEF LockRead, LockWrite, UnlockRead, UnlockWrite, Idle, LockReadWait, LockWriteWait,
         TryLock, NotOwned, Leave, SpuriousWakeup, Inside, Block
<1>2. ReadersAwake /\ WritersAwake
  BY <1>1 DEF IInv, NoLostWakeup, ReadersAwake, WritersAwake
<1>3. CASE LockRead(t)
  <2>1. /\ Inside(t, {})
        /\ reader_count # -1 /\ reader_count' = reader_count + 1
    BY <1>3 DEF LockRead, ReadRefused, GotRead
  <2>2. reader_count' > 0 /\ At("reader_cv") = {}
    BY <1>0, <1>2, <2>1 DEF Types, Counts, ReadersAwake
  <2> QED
    BY <1>0, <2>1, <2>2 DEF Inside, At, Types, ReadersAwake, WritersAwake
<1>4. CASE LockWrite(t)
  BY <1>4 DEF LockWrite, GotWrite, ReadersAwake, WritersAwake
<1>5. CASE UnlockRead(t)
  <2>1. /\ pc[t] = "running"
        /\ 0 < reader_count /\ reader_count' = reader_count - 1
    BY <1>0, <1>5 DEF UnlockRead, ReadNotOwned, Types, Counts
  <2>2. PICK W \in IF reader_count' = 0 THEN Signalled ELSE {{}} : Inside(t, W)
    BY <1>5 DEF UnlockRead
  <2>3. ReadersAwake'
    BY <1>0, <1>2, <2>1, <2>2 DEF Inside, At, Types, Counts, ReadersAwake
  <2>4. CASE reader_count' = 0
    BY <1>0, <2>1, <2>2, <2>3, <2>4, SignalLeavesAwake DEF WritersAwake
  <2> QED
    BY <2>3, <2>4 DEF WritersAwake
<1>6. CASE UnlockWrite(t)
  <2>1. pc[t] = "running"
    BY <1>6 DEF UnlockWrite
  <2>2. PICK S \in Signalled : Inside(t, S \cup At("reader_cv"))
    BY <1>6 DEF UnlockWrite
  <2>3. ReadersAwake'
    BY <1>0, <2>2 DEF Inside, At, Types, ReadersAwake
  <2>4. WritersAwake'
    BY <1>0, <2>1, <2>2, SignalLeavesAwake DEF WritersAwake
  <2> QED
    BY <2>3, <2>4
<1>7. CASE TryLock(t) \/ NotOwned(t)
  <2>1. pc[t] = "running" /\ Inside(t, {}) /\ reader_count' = reader_count
    BY <1>7 DEF TryLock, NotOwned
  <2> QED
    BY <1>0, <1>2, <2>1 DEF Inside, At, Types, ReadersAwake, WritersAwake
<1>8. CASE LockReadWait(t) \/ LockWriteWait(t)
  <2>1. CASE LockReadWait(t)
    BY <1>0, <1>2, <2>1
    DEF LockReadWait, ReadRefused, Block, At, Types, ReadersAwake, WritersAwake
  <2>2. CASE LockWriteWait(t)
    BY <1>0, <1>2, <2>2
    DEF LockWriteWait, WriteRefused, Block, At, Types, ReadersAwake, WritersAwake
  <2> QED
    BY <1>8, <2>1, <2>2
<1>9. CASE Leave(t) \/ SpuriousWakeup(t)
  <2>1. CASE Leave(t)
    BY <1>0, <1>2, <2>1 DEF Leave, At, Types, ReadersAwake, WritersAwake
  <2>2. CASE SpuriousWakeup(t)
    BY <1>0, <1>2, <2>2 DEF SpuriousWakeup, At, Types, ReadersAwake, WritersAwake
  <2> QED
    BY <1>9, <2>1, <2>2
<1> QED
  BY <1>3, <1>4, <1>5, <1>6, <1>7, <1>8, <1>9 DEF Idle

(* Every step of a thread is one of these.                                 *)
LEMMA StepsAre ==
  ASSUME Next
  PROVE  \E t \in Threads :
           \/ LockRead(t) \/ LockWrite(t) \/ UnlockRead(t) \/ UnlockWrite(t)
           \/ Idle(t)
BY DEF Next, Idle

LEMMA Inductive == IInv /\ [Next]_vars => IInv'
<1> SUFFICES ASSUME IInv, [Next]_vars
             PROVE  IInv'
  OBVIOUS
<1>1. CASE Next
  <2>1. PICK t \in Threads :
          \/ LockRead(t) \/ LockWrite(t) \/ UnlockRead(t) \/ UnlockWrite(t)
          \/ Idle(t)
    BY <1>1, StepsAre
  <2>2. Types' /\ (~stray => Exact)'
    BY <2>1, CountsStep, IdleSteps
  <2>3. NoLostWakeup'
    <3>1. Interrupt(t) => unwound'
      BY DEF Interrupt
    <3>2. ~unwound' => (ReadersAwake /\ WritersAwake)'
      BY <2>1, <3>1, WakeupsStep
    <3> QED
      BY <3>2 DEF NoLostWakeup, ReadersAwake, WritersAwake
  <2> QED
    BY <2>2, <2>3 DEF IInv
<1>2. CASE UNCHANGED vars
  BY <1>2 DEF vars, held, IInv, Types, Counts, Exact, NoLostWakeup, At
<1> QED
  BY <1>1, <1>2

-----------------------------------------------------------------------------
(* The variables keep their types: the count stays within what the read    *)
(* locks of all threads can make it.                                       *)
THEOREM TypeCorrect == Spec => []TypeOK
<1>1. IInv => TypeOK
  <2> SUFFICES ASSUME IInv
               PROVE  TypeOK
    OBVIOUS
  <2>1. Types /\ Cardinality(reading) \in 0 .. MaxReads * Cardinality(Threads)
    BY FiniteReads DEF IInv, Types
  <2>2. MaxReads * Cardinality(Threads) \in Nat
    BY FS_CardinalityType
  <2>3. reader_count \in -1 .. MaxReads * Cardinality(Threads)
    BY <2>1, <2>2 DEF Types, Counts
  <2> QED
    BY <2>1, <2>3 DEF Types, TypeOK
<1> QED
  BY Initial, Inductive, <1>1, PTL DEF Spec

(* unlock_read and unlock_write signal enough: nobody sleeps on at a lock  *)
(* that would let him in, with any number of threads.                      *)
THEOREM NoLostWakeupAlways == Spec => []NoLostWakeup
<1>1. IInv => NoLostWakeup
  BY DEF IInv
<1> QED
  BY Initial, Inductive, <1>1, PTL DEF Spec

LEMMA VisibleSteps == IInv /\ [Next]_vars => [Visible!Next]_(Visible!avars)
<1> SUFFICES ASSUME IInv, [Next]_vars
             PROVE  Visible!Next \/ UNCHANGED Visible!avars
  OBVIOUS
<1> USE DEF Visible!avars, Visible!lvars
<1>0. CASE stray'
  BY <1>0 DEF Visible!Next
<1> SUFFICES ASSUME ~stray'
             PROVE  Visible!Next \/ UNCHANGED Visible!avars
  BY <1>0
<1>1. CASE UNCHANGED vars
  BY <1>1 DEF vars, held
<1>2. CASE Next
  <2>1. PICK t \in Threads :
          \/ LockRead(t) \/ LockWrite(t) \/ UnlockRead(t) \/ UnlockWrite(t)
          \/ Idle(t)
    BY <1>2, StepsAre
  <2>2. ~stray
    <3>1. CASE Idle(t)
      BY <3>1, IdleSteps
    <3>2. CASE LockRead(t) \/ LockWrite(t)
      BY <3>2 DEF LockRead, LockWrite, GotRead, GotWrite
    <3>3. CASE UnlockRead(t)
      BY <3>3 DEF UnlockRead
    <3>4. CASE UnlockWrite(t)
      BY <3>4 DEF UnlockWrite
    <3> QED
      BY <2>1, <3>1, <3>2, <3>3, <3>4
  <2>3. Types /\ Exact
    BY <2>2 DEF IInv
  <2>4. IsFiniteSet(reading) /\ Cardinality(reading) \in Nat
    BY <2>3, FiniteReads, FS_CardinalityType DEF Types
  <2>5. CASE LockRead(t)
    <3>1. PICK n \in 1 .. MaxReads :
            <<t, n>> \notin reading /\ reading' = reading \cup {<<t, n>>}
      BY <2>5 DEF LockRead, GotRead
    <3>2. <<t, n>> \in ReadLocks
      BY <3>1 DEF ReadLocks
    <3>3. writing = NoThread /\ writing' = writing
      BY <2>3, <2>5 DEF LockRead, ReadRefused, GotRead, Exact
    <3> QED
      BY <2>2, <3>1, <3>2, <3>3 DEF Visible!Next, Visible!Promised, Visible!Read
  <2>6. CASE LockWrite(t)
    <3>1. reader_count = 0 /\ writing' = t /\ reading' = reading
      BY <2>6 DEF LockWrite, WriteRefused, GotWrite
    <3>2. Cardinality(reading) = 0 => reading = {}
      BY <2>4, FS_EmptySet
    <3>3. writing = NoThread /\ reading = {}
      BY <2>3, <3>1, <3>2 DEF Exact
    <3> QED
      BY <2>2, <3>1, <3>3 DEF Visible!Next, Visible!Promised, Visible!Write
  <2>7. CASE UnlockRead(t)
    <3>1. PICK l \in reading : reading' = reading \ {l} /\ writing' = writing
      BY <2>7 DEF UnlockRead
    <3>2. l \in ReadLocks
      BY <2>3 DEF Types
    <3> QED
      BY <2>2, <3>1, <3>2 DEF Visible!Next, Visible!Promised, Visible!EndRead
  <2>8. CASE UnlockWrite(t)
    BY <2>2, <2>8 DEF UnlockWrite, Visible!Next, Visible!Promised, Visible!EndWrite
  <2>9. CASE Idle(t)
    BY <2>9, IdleSteps DEF held
  <2> QED
    BY <2>1, <2>5, <2>6, <2>7, <2>8, <2>9
<1> QED
  BY <1>1, <1>2

(* The count and the two condition variables of threads.h make a lock that *)
(* admits readers or one writer, whoever is unwound, until a thread gives  *)
(* up what it has not got.                                                 *)
THEOREM FallbackImplementsRWLock == Spec => ImplementsReadersWriter
<1>1. Init => Visible!Init
  BY DEF Init, Visible!Init
<1>2. IInv /\ [Next]_vars => IInv' /\ [Visible!Next]_(Visible!avars)
  BY Inductive, VisibleSteps
<1> QED
  BY Initial, <1>1, <1>2, PTL DEF Spec, ImplementsReadersWriter, Visible!Spec
=============================================================================
