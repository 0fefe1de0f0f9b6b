-------------------------------- MODULE RWLock --------------------------------
(***************************************************************************)
(* mp:rwlock of ECL, src/c/threads/rwlock.d, where the system has no       *)
(* pthread_rwlock: the fallback in src/h/threads.h, one count of readers   *)
(* (-1 is a writer) under a mutex and a condition variable for each side.  *)
(*                                                                         *)
(* What happens between taking the mutex and returning it, or waiting, is  *)
(* one action, and returning it another.  The functions run with           *)
(* interrupts enabled throughout ("a) not interrupt safe").  A thread that *)
(* was woken does what one does that just called the function.             *)
(***************************************************************************)
EXTENDS Integers, FiniteSets

CONSTANTS
  Threads,        \* the threads that use the lock
  NoThread,       \* not a thread
  MaxReads,       \* bound: read locks one thread has at a time
  Interruptible,  \* threads that interrupts may unwind out of a call
  Strays          \* threads that may give up a lock they do not hold

ASSUME RWThreadsAssumption == IsFiniteSet(Threads) /\ NoThread \notin Threads
ASSUME RWOptionsAssumption ==
  MaxReads \in Nat \ {0} /\ Interruptible \subseteq Threads /\ Strays \subseteq Threads

ReadLocks == Threads \X (1 .. MaxReads)

VARIABLES
  reader_count,  \* of struct ecl_rwlock_t
  mutex,         \* the thread that has its mutex, for good if it was unwound
  pc,            \* where each thread is
  reading,       \* history: the read locks that were got and not given up
  writing,       \* history: who got the write lock and did not give it up
  stray,         \* history: a thread gave up a lock that it did not hold
  unwound        \* history: an interrupt has unwound a call

vars == <<reader_count, mutex, pc, reading, writing, stray, unwound>>
held == <<reading, writing>>

PCs == {"running",
        "reader_cv", "writer_cv",        \* waiting on that condition variable
        "read_again", "write_again",     \* woken, has to take the mutex
        "leaving"}                       \* about to return the mutex

Init ==
  /\ reader_count = 0
  /\ mutex = NoThread
  /\ pc = [t \in Threads |-> "running"]
  /\ reading = {}
  /\ writing = NoThread
  /\ stray = FALSE
  /\ unwound = FALSE

At(place) == {t \in Threads : pc[t] = place}

(* The calling thread is inside and then leaves; those of W are woken.     *)
Inside(t, W) ==
  /\ mutex = NoThread
  /\ mutex' = t
  /\ pc' = [u \in Threads |->
              CASE u = t -> "leaving"
                [] u \in W /\ pc[u] = "reader_cv" -> "read_again"
                [] u \in W /\ pc[u] = "writer_cv" -> "write_again"
                [] OTHER -> pc[u]]
  /\ UNCHANGED unwound

Block(t, place) ==
  /\ mutex = NoThread
  /\ pc' = [pc EXCEPT ![t] = place]
  /\ UNCHANGED <<reader_count, mutex, held, stray, unwound>>

(* pthread_cond_signal(&rwlock->writer_cv): one of those who wait.         *)
NoneSignalled == {{}}                          \* mutant of Signalled
Signalled == IF At("writer_cv") = {} THEN {{}} ELSE {{u} : u \in At("writer_cv")}

ReadRefused(t) == reader_count = -1
OnlyReadersRefuse(t) == reader_count > 0       \* mutant of WriteRefused
WriteRefused(t) == reader_count # 0
FreeNotOwned(t) == reader_count = 0            \* mutant of ReadNotOwned
ReadNotOwned(t) == reader_count <= 0
WriteNotOwned(t) == reader_count >= 0

GotRead(t) ==
  /\ reader_count' = reader_count + 1
  /\ \E n \in 1 .. MaxReads :
       <<t, n>> \notin reading /\ reading' = reading \cup {<<t, n>>}
  /\ UNCHANGED <<writing, stray>>

GotWrite(t) ==
  /\ reader_count' = -1
  /\ writing' = t
  /\ UNCHANGED <<reading, stray>>

-----------------------------------------------------------------------------
LockRead(t) ==
  /\ pc[t] \in {"running", "read_again"}
  /\ ~ReadRefused(t)
  /\ Inside(t, {})
  /\ GotRead(t)

LockReadWait(t) ==
  /\ pc[t] \in {"running", "read_again"}
  /\ ReadRefused(t)
  /\ Block(t, "reader_cv")

LockWrite(t) ==
  /\ pc[t] \in {"running", "write_again"}
  /\ ~WriteRefused(t)
  /\ Inside(t, {})
  /\ GotWrite(t)

LockWriteWait(t) ==
  /\ pc[t] \in {"running", "write_again"}
  /\ WriteRefused(t)
  /\ Block(t, "writer_cv")

(* ECL_MUTEX_LOCKED, or the lock as above.                                 *)
TryLock(t) ==
  /\ pc[t] = "running"
  /\ ReadRefused(t) \/ WriteRefused(t)
  /\ Inside(t, {})
  /\ UNCHANGED <<reader_count, held, stray>>

(* It is a stray release if the thread has no read lock; if the count says *)
(* that nobody has, it is an error.                                        *)
UnlockRead(t) ==
  LET mine == {l \in reading : l[1] = t} IN
  /\ pc[t] = "running"
  /\ ~ReadNotOwned(t)
  /\ mine # {} \/ t \in Strays
  /\ reader_count' = reader_count - 1
  /\ \E W \in IF reader_count' = 0 THEN Signalled ELSE {{}} : Inside(t, W)
  /\ IF mine = {} THEN UNCHANGED reading ELSE \E l \in mine : reading' = reading \ {l}
  /\ stray' = (stray \/ mine = {})
  /\ UNCHANGED writing

UnlockWrite(t) ==
  /\ pc[t] = "running"
  /\ ~WriteNotOwned(t)
  /\ writing = t \/ t \in Strays
  /\ reader_count' = 0
  /\ \E W \in Signalled : Inside(t, W \cup At("reader_cv"))
  /\ writing' = IF writing = t THEN NoThread ELSE writing
  /\ stray' = (stray \/ writing # t)
  /\ UNCHANGED reading

(* ECL_MUTEX_NOT_OWNED from one of the two, for a thread that has no lock  *)
(* or whose lock another gave up.                                          *)
NotOwned(t) ==
  /\ pc[t] = "running"
  /\ t \in Strays \/ stray
  /\ ReadNotOwned(t) \/ WriteNotOwned(t)
  /\ Inside(t, {})
  /\ UNCHANGED <<reader_count, held, stray>>

Leave(t) ==
  /\ pc[t] = "leaving"
  /\ mutex' = NoThread
  /\ pc' = [pc EXCEPT ![t] = "running"]
  /\ UNCHANGED <<reader_count, held, stray, unwound>>

SpuriousWakeup(t) ==
  /\ pc[t] \in {"reader_cv", "writer_cv"}
  /\ pc' = [pc EXCEPT ![t] = IF @ = "reader_cv" THEN "read_again" ELSE "write_again"]
  /\ UNCHANGED <<reader_count, mutex, held, stray, unwound>>

(* An interrupt that does not return.  The mutex stays locked if the       *)
(* thread had it; one that was about to get it may just have got it.       *)
Interrupt(t) ==
  /\ t \in Interruptible
  /\ mutex' \in {mutex, IF mutex = NoThread THEN t ELSE mutex}
  /\ pc[t] = "running" => mutex' # mutex
  /\ pc' = [pc EXCEPT ![t] = "running"]
  /\ unwound' = TRUE
  /\ UNCHANGED <<reader_count, held, stray>>

Next ==
  \E t \in Threads :
    \/ LockRead(t) \/ LockReadWait(t) \/ LockWrite(t) \/ LockWriteWait(t) \/ TryLock(t)
    \/ UnlockRead(t) \/ UnlockWrite(t) \/ NotOwned(t) \/ Leave(t)
    \/ SpuriousWakeup(t) \/ Interrupt(t)

Spec == Init /\ [][Next]_vars

-----------------------------------------------------------------------------
TypeOK ==
  /\ reader_count \in -1 .. MaxReads * Cardinality(Threads)
  /\ mutex \in Threads \cup {NoThread}
  /\ pc \in [Threads -> PCs]
  /\ reading \subseteq ReadLocks
  /\ writing \in Threads \cup {NoThread}
  /\ stray \in BOOLEAN /\ unwound \in BOOLEAN

(* Until an interrupt unwinds a call, nobody sleeps while the lock would   *)
(* let him in, unless another is awake to take it or to pass it on: no     *)
(* reader while there is no writer, and no writer while the lock is free,  *)
(* though one signal goes to the writers together with a broadcast to the  *)
(* readers, and newcomers may be faster than both.                         *)
NoLostWakeup ==
  ~unwound =>
    /\ reader_count # -1 => At("reader_cv") = {}
    /\ reader_count = 0 => At("writer_cv") = {} \/ At("write_again") # {}

(* The lock admits readers or one writer, also among threads that          *)
(* interrupts unwound: what they break is never the exclusion.  "Will not  *)
(* signal errors on unlocking a mutex which is owned by a different        *)
(* thread": then nothing is promised.                                      *)
Visible == INSTANCE AbstractRWLock WITH
  readers <- reading,
  writer  <- writing,
  void    <- stray
ImplementsReadersWriter == Visible!Spec
=============================================================================
