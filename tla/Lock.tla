--------------------------------- MODULE Lock ---------------------------------
(***************************************************************************)
(* mp:lock and mp:condition-variable of ECL, src/c/threads/mutex.d and     *)
(* condition_variable.d (the build with pthread mutexes and                *)
(* pthread_mutex_timedlock): one lock, and one condition variable that is  *)
(* waited on with it.                                                      *)
(*                                                                         *)
(* The functions keep a record of the mutex, owner and counter, that they  *)
(* write before and after the system's calls.  Each system call is a step, *)
(* and so is each stretch of code between two of them, except that the     *)
(* load and the store of ++counter and --counter are two steps: nothing    *)
(* but the mutex protects them, and mp:giveup-lock decrements before it    *)
(* knows whether the mutex is the caller's.                                *)
(***************************************************************************)
EXTENDS Naturals, FiniteSets

CONSTANTS
  Threads,        \* the threads that use the lock
  NoThread,       \* the owner of a free mutex; owner = ECL_NIL
  Kinds,          \* values of make-lock's :recursive
  MaxDepth,       \* bound: how often a recursive lock is taken
  MaxCounter,     \* bound: nobody takes the lock while counter is above
  Interruptible,  \* threads that interrupts may unwind out of a call
  Strays          \* threads that may give up a lock they do not hold

ASSUME ThreadsAssumption == IsFiniteSet(Threads) /\ NoThread \notin Threads
ASSUME OptionsAssumption ==
  /\ Kinds \subseteq BOOLEAN /\ MaxDepth \in Nat \ {0} /\ MaxCounter \in Nat
  /\ Interruptible \subseteq Threads /\ Strays \subseteq Threads

VARIABLES
  recursive, owner, counter,  \* struct ecl_lock
  mutex, depth,   \* the system's mutex: who has it, and how many times
  pc,     \* where each thread is
  loaded, \* the counter a thread's ++counter or --counter started from
  saved,  \* the counter a waiting thread restores
  stray,  \* history: a thread has given up a lock it did not hold
  unwound \* history: an interrupt has unwound a call

vars == <<recursive, owner, counter, mutex, depth, pc, loaded, saved, stray,
          unwound>>
record == <<owner, counter>>
system == <<mutex, depth>>

PCs == {"running",
        "locking",   \* in ecl_mutex_lock or ecl_mutex_timedlock
        "locked",    \* back from it, interrupts still enabled
        "marking",   \* interrupts disabled, to store counter and owner
        "giving",    \* in giveup-lock, to store counter and owner
        "unlocking", \* in giveup-lock, to call ecl_mutex_unlock
        "releasing", \* in condition-variable-wait, to wait
        "waiting",   \* in ecl_cond_var_wait
        "woken",     \* in ecl_cond_var_wait, has to take the mutex again
        "relocked"}  \* back from it, interrupts still enabled

CanAcquire(t) ==
  /\ counter <= MaxCounter
  /\ mutex = NoThread \/ (mutex = t /\ recursive /\ depth < MaxDepth)

(* The mutex refuses its owner a second time if it is not recursive.       *)
Refused(t) == mutex = t /\ ~recursive

Acquire(t) == mutex' = t /\ depth' = depth + 1

(* PTHREAD_MUTEX_RECURSIVE or _ERRORCHECK, which know their owner.         *)
MayUnlockNormal(t) == mutex # NoThread       \* mutant of MayUnlock
MayUnlock(t) == mutex = t

(* counter > 0 ? --counter : 0, and whether the result is 0.               *)
LessSigned(n) == n - 1                       \* mutant of Less
Less(n) == IF n > 0 THEN n - 1 ELSE counter
Last(n) == n <= 1

RestoredNone(t) == 0                         \* mutant of Restored
Restored(t) == saved[t]

Init ==
  /\ recursive \in Kinds
  /\ owner = NoThread
  /\ counter = 0
  /\ mutex = NoThread
  /\ depth = 0
  /\ pc = [t \in Threads |-> "running"]
  /\ loaded = [t \in Threads |-> 0]
  /\ saved = [t \in Threads |-> 0]
  /\ stray = FALSE
  /\ unwound = FALSE

-----------------------------------------------------------------------------
(* mp:get-lock *)

(* Without waiting: interrupts are disabled from before ecl_mutex_trylock, *)
(* which fails without a trace if the mutex is taken.                      *)
GetNowait(t) ==
  /\ pc[t] = "running"
  /\ CanAcquire(t)
  /\ Acquire(t)
  /\ pc' = [pc EXCEPT ![t] = "marking"]
  /\ loaded' = [loaded EXCEPT ![t] = counter]
  /\ UNCHANGED <<recursive, record, saved, stray, unwound>>

GetWait(t) ==
  /\ pc[t] = "running"
  /\ pc' = [pc EXCEPT ![t] = "locking"]
  /\ UNCHANGED <<recursive, record, system, loaded, saved, stray, unwound>>

Locked(t) ==
  /\ pc[t] = "locking"
  /\ CanAcquire(t)
  /\ Acquire(t)
  /\ pc' = [pc EXCEPT ![t] = "locked"]
  /\ UNCHANGED <<recursive, record, loaded, saved, stray, unwound>>

(* ECL_MUTEX_DEADLOCK signals an error; a timeout returns nil.  (A wait    *)
(* without a timeout is one that never times out.)                         *)
NotLocked(t) ==
  /\ pc[t] = "locking"
  /\ Refused(t) \/ mutex \notin {NoThread, t}
  /\ pc' = [pc EXCEPT ![t] = "running"]
  /\ UNCHANGED <<recursive, record, system, loaded, saved, stray, unwound>>

Load(t) ==
  /\ pc[t] = "locked"
  /\ loaded' = [loaded EXCEPT ![t] = counter]
  /\ pc' = [pc EXCEPT ![t] = "marking"]
  /\ UNCHANGED <<recursive, record, system, saved, stray, unwound>>

Mark(t) ==
  /\ pc[t] = "marking"
  /\ counter' = loaded[t] + 1
  /\ owner' = t
  /\ loaded' = [loaded EXCEPT ![t] = 0]
  /\ pc' = [pc EXCEPT ![t] = "running"]
  /\ UNCHANGED <<recursive, system, saved, stray, unwound>>

-----------------------------------------------------------------------------
(* mp:giveup-lock, with interrupts disabled *)

GiveUp(t) ==
  /\ pc[t] = "running"
  /\ mutex = t \/ t \in Strays
  /\ loaded' = [loaded EXCEPT ![t] = counter]
  /\ stray' = (stray \/ mutex # t)
  /\ pc' = [pc EXCEPT ![t] = "giving"]
  /\ UNCHANGED <<recursive, record, system, saved, unwound>>

Unmark(t) ==
  /\ pc[t] = "giving"
  /\ counter' = Less(loaded[t])
  /\ owner' = IF Last(loaded[t]) THEN NoThread ELSE owner
  /\ loaded' = [loaded EXCEPT ![t] = 0]
  /\ pc' = [pc EXCEPT ![t] = "unlocking"]
  /\ UNCHANGED <<recursive, system, saved, stray, unwound>>

(* ecl_mutex_unlock fails, and an error is signalled, if the mutex is not  *)
(* the caller's.                                                           *)
Unlock(t) ==
  /\ pc[t] = "unlocking"
  /\ IF MayUnlock(t)
     THEN /\ depth' = depth - 1
          /\ mutex' = IF depth = 1 THEN NoThread ELSE t
     ELSE UNCHANGED system
  /\ pc' = [pc EXCEPT ![t] = "running"]
  /\ UNCHANGED <<recursive, record, loaded, saved, stray, unwound>>

-----------------------------------------------------------------------------
(* mp:condition-variable-wait and -timedwait; the error of a caller that   *)
(* is not the owner, or whose lock is recursive, changes nothing.          *)

WaitBegin(t) ==
  /\ pc[t] = "running"
  /\ ~recursive
  /\ owner = t
  /\ saved' = [saved EXCEPT ![t] = counter]
  /\ counter' = 0
  /\ owner' = NoThread
  /\ pc' = [pc EXCEPT ![t] = "releasing"]
  /\ UNCHANGED <<recursive, system, loaded, stray, unwound>>

Wait(t) ==
  /\ pc[t] = "releasing"
  /\ mutex = t
  /\ mutex' = NoThread
  /\ depth' = 0
  /\ pc' = [pc EXCEPT ![t] = "waiting"]
  /\ UNCHANGED <<recursive, record, loaded, saved, stray, unwound>>

(* A timeout, or no reason at all.                                         *)
WakeUp(t) ==
  /\ pc[t] = "waiting"
  /\ pc' = [pc EXCEPT ![t] = "woken"]
  /\ UNCHANGED <<recursive, record, system, loaded, saved, stray, unwound>>

(* mp:condition-variable-signal, -broadcast, by a running thread           *)
Signal(t, W) ==
  /\ pc[t] = "running"
  /\ pc' = [u \in Threads |-> IF u \in W THEN "woken" ELSE pc[u]]
  /\ UNCHANGED <<recursive, record, system, loaded, saved, stray, unwound>>

Relock(t) ==
  /\ pc[t] = "woken"
  /\ mutex = NoThread
  /\ Acquire(t)
  /\ pc' = [pc EXCEPT ![t] = "relocked"]
  /\ UNCHANGED <<recursive, record, loaded, saved, stray, unwound>>

WaitEnd(t) ==
  /\ pc[t] = "relocked"
  /\ owner' = t
  /\ counter' = Restored(t)
  /\ saved' = [saved EXCEPT ![t] = 0]
  /\ pc' = [pc EXCEPT ![t] = "running"]
  /\ UNCHANGED <<recursive, system, loaded, stray, unwound>>

-----------------------------------------------------------------------------
(* An interrupt that does not return, in code that runs with interrupts    *)
(* enabled.  Out of a wait it leaves without the mutex; there is no        *)
(* cleanup form.                                                           *)
Interrupt(t) ==
  /\ t \in Interruptible
  /\ pc[t] \in {"locking", "locked", "releasing", "waiting", "woken", "relocked"}
  /\ pc' = [pc EXCEPT ![t] = "running"]
  /\ saved' = [saved EXCEPT ![t] = 0]
  /\ unwound' = TRUE
  /\ UNCHANGED <<recursive, record, system, loaded, stray>>

Waiting == {t \in Threads : pc[t] = "waiting"}

Next ==
  \E t \in Threads :
    \/ GetNowait(t) \/ GetWait(t) \/ Locked(t) \/ NotLocked(t) \/ Load(t) \/ Mark(t)
    \/ GiveUp(t) \/ Unmark(t) \/ Unlock(t)
    \/ WaitBegin(t) \/ Wait(t) \/ WakeUp(t) \/ Relock(t) \/ WaitEnd(t)
    \/ \E W \in {{u} : u \in Waiting} \cup {Waiting} : Signal(t, W)
    \/ Interrupt(t)

Spec == Init /\ [][Next]_vars

-----------------------------------------------------------------------------
TypeOK ==
  /\ recursive \in BOOLEAN
  /\ owner \in Threads \cup {NoThread}
  /\ counter \in Nat
  /\ mutex \in Threads \cup {NoThread}
  /\ depth \in 0 .. MaxDepth
  /\ pc \in [Threads -> PCs]
  /\ loaded \in [Threads -> Nat]
  /\ saved \in [Threads -> Nat]
  /\ stray \in BOOLEAN /\ unwound \in BOOLEAN

(* "INV: owner != nil only if the mutex is locked", and locked by the      *)
(* owner, whatever interrupts and strays do to a non-recursive lock.       *)
OwnerHolds ==
  ~recursive \/ ~stray => owner \in {NoThread, mutex}

(* A free lock looks free, also after interrupts unwound who held it.      *)
FreeIsClear ==
  ~stray /\ mutex = NoThread => owner = NoThread /\ counter = 0

(* Without either, a thread that holds the lock and is in none of these    *)
(* functions is its owner with the right count, so that it may wait on the *)
(* condition variable.                                                     *)
HolderKnown ==
  ~stray /\ ~unwound =>
    \A t \in Threads :
      mutex = t /\ pc[t] \in {"running", "locking"} => owner = t /\ counter = depth

(* What lock-owner and lock-count show is a lock: it passes from one       *)
(* thread to the next through being free, is counted up and down by ones   *)
(* by its owner alone, and comes back from a wait on the condition         *)
(* variable with the count it had.                                         *)
Visible == INSTANCE AbstractLock WITH
  holder  <- owner,
  count   <- counter,
  waiting <- saved,
  void    <- stray
ImplementsLock == Visible!Spec
=============================================================================
