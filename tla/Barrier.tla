------------------------------- MODULE Barrier -------------------------------
(***************************************************************************)
(* mp:barrier of ECL, src/c/threads/barrier.d.                             *)
(*                                                                         *)
(* The code between ecl_mutex_lock and ecl_mutex_unlock (or the release of *)
(* the mutex by ecl_cond_var_wait) is one action: every access to the      *)
(* fields is made under the mutex, except the decrement in the cleanup of  *)
(* a thread whose ecl_cond_var_wait was cut by an interrupt.  That one is  *)
(* two steps, a load (Interrupt) and a store (UnlockedDecrement).          *)
(*                                                                         *)
(* The retry loops (the do-while of mp_barrier_wait, AGAIN of              *)
(* barrier-unblock) leave the state as it was, so a retrying thread is one *)
(* that stays in "wait" or "unblock".                                      *)
(***************************************************************************)
EXTENDS Naturals, FiniteSets

CONSTANTS
  Threads,        \* the threads that use the barrier
  NoThread,       \* the owner of a free mutex
  Counts,         \* values of make-barrier's count and of :reset-count
  MaxIndex,       \* largest cl_index
  Interruptible,  \* threads that interrupts may unwind out of the wait
  TypeErrors      \* may :reset-count be something fixnnint refuses?

ASSUME ThreadsAssumption == IsFiniteSet(Threads) /\ NoThread \notin Threads
ASSUME CountsAssumption  == Counts # {} /\ Counts \subseteq Nat
ASSUME IndexAssumption   == MaxIndex \in Nat /\ Cardinality(Threads) < MaxIndex
ASSUME InterruptAssumption ==
  Interruptible \subseteq Threads /\ TypeErrors \in BOOLEAN

NORMAL == 1   \* ECL_BARRIER_WAKEUP_NORMAL
KILL   == 2   \* ECL_BARRIER_WAKEUP_KILL

VARIABLES
  count, disabled, wakeup, arrivers_count,  \* struct ecl_barrier
  mutex,   \* NoThread, or the thread that left the mutex locked behind it
  pc,      \* where each thread is
  loaded,  \* the value a thread's unlocked decrement started from
  result,  \* what the last call of each thread returned, if a wait
  unwound, \* history: an interrupt has unwound a wait
  clash    \* history: and its decrement met another write of the count

vars == <<count, disabled, wakeup, arrivers_count, mutex, pc, loaded, result,
          unwound, clash>>

PCs == {"running",     \* outside the barrier's functions
        "wait",        \* in mp_barrier_wait, not past its first loop
        "unblock",     \* in mp:barrier-unblock, not past AGAIN
        "blocked",     \* in ecl_cond_var_wait, not signalled
        "woken",       \* in ecl_cond_var_wait, has to take the mutex again
        "decrementing",\* unwinding, between load and store of the decrement
        "raced",       \* the same, after another thread wrote the field
        "exited"}      \* never calls again

Results == {"none", "T", "NIL", ":unblocked", "killed"}

(* Who counts as an arriver: between arrivers_count++ and the decrement.   *)
Waiters == {t \in Threads : pc[t] \in {"blocked", "woken"}}
Unwinding == {t \in Threads : pc[t] \in {"decrementing", "raced"}}
Registered == Waiters \cup Unwinding

(* cl_index is unsigned.                                                   *)
Inc(n) == IF n = MaxIndex THEN 0 ELSE n + 1
DecSigned(n) == n - 1                             \* mutant of Dec
Dec(n) == IF n = 0 THEN MaxIndex ELSE n - 1

(* The mutex is an error-checking one: its owner is refused a second lock, *)
(* but no caller looks at the answer, so it enters, and unlocks on leaving.*)
CanLock(t) == mutex \in {NoThread, t}

(* A thread of mp_barrier_wait past its first loop.                        *)
Enters(t) == pc[t] = "wait" /\ CanLock(t) /\ ~disabled /\ wakeup = 0

(* A thread of mp:barrier-unblock past AGAIN.                              *)
UnblocksInDrain(t) == pc[t] = "unblock" /\ CanLock(t)   \* mutant of Unblocks
Unblocks(t) == pc[t] = "unblock" /\ CanLock(t) /\ wakeup = 0

Saturated == Inc(arrivers_count) = count

CountOutAlive ==                                  \* mutant of CountOut
  arrivers_count' = IF wakeup = KILL THEN arrivers_count ELSE Dec(arrivers_count)
CountOut == arrivers_count' = Dec(arrivers_count)

AnyArriver == TRUE                                \* mutant of Arrivers
Arrivers == arrivers_count > 0

LastOutLate == arrivers_count = 0                 \* mutant of LastOut
LastOutEarly == Dec(arrivers_count) <= 1          \* another
LastOut == Dec(arrivers_count) = 0

(* Every thread blocked in ecl_cond_var_wait is signalled.                 *)
Broadcast(p) == [t \in Threads |-> IF p[t] = "blocked" THEN "woken" ELSE p[t]]

(* A write of arrivers_count in the middle of another thread's decrement.  *)
Race(p) == [t \in Threads |-> IF p[t] = "decrementing" THEN "raced" ELSE p[t]]

Init ==
  /\ count \in Counts
  /\ disabled = FALSE
  /\ wakeup = 0
  /\ arrivers_count = 0
  /\ mutex = NoThread
  /\ pc = [t \in Threads |-> "running"]
  /\ loaded = [t \in Threads |-> 0]
  /\ result = [t \in Threads |-> "none"]
  /\ unwound = FALSE
  /\ clash = FALSE

-----------------------------------------------------------------------------
(* mp_barrier_wait *)

CallWait(t) ==
  /\ pc[t] = "running"
  /\ pc' = [pc EXCEPT ![t] = "wait"]
  /\ result' = [result EXCEPT ![t] = "none"]
  /\ UNCHANGED <<count, disabled, wakeup, arrivers_count, mutex, loaded, unwound, clash>>

WaitDisabled(t) ==
  /\ pc[t] = "wait"
  /\ CanLock(t)
  /\ disabled
  /\ mutex' = NoThread
  /\ pc' = [pc EXCEPT ![t] = "running"]
  /\ result' = [result EXCEPT ![t] = "NIL"]
  /\ UNCHANGED <<count, disabled, wakeup, arrivers_count, loaded, unwound, clash>>

(* The thread that saturates the barrier does not wait.                    *)
WaitTrip(t) ==
  /\ Enters(t)
  /\ Saturated
  /\ IF Arrivers
     THEN /\ wakeup' = NORMAL
          /\ pc' = Broadcast([pc EXCEPT ![t] = "running"])
     ELSE /\ wakeup' = wakeup
          /\ pc' = [pc EXCEPT ![t] = "running"]
  /\ result' = [result EXCEPT ![t] = ":unblocked"]
  /\ mutex' = NoThread
  /\ UNCHANGED <<count, disabled, arrivers_count, loaded, unwound, clash>>

WaitBlock(t) ==
  /\ Enters(t)
  /\ ~Saturated
  /\ arrivers_count' = Inc(arrivers_count)
  /\ pc' = Race([pc EXCEPT ![t] = "blocked"])
  /\ mutex' = NoThread
  /\ UNCHANGED <<count, disabled, wakeup, loaded, result, unwound, clash>>

(* pthread_cond_wait may return without a signal.                          *)
SpuriousWakeup(t) ==
  /\ pc[t] = "blocked"
  /\ pc' = [pc EXCEPT ![t] = "woken"]
  /\ UNCHANGED <<count, disabled, wakeup, arrivers_count, mutex, loaded, result, unwound, clash>>

WaitAgain(t) ==
  /\ pc[t] = "woken"
  /\ mutex = NoThread
  /\ wakeup = 0
  /\ pc' = [pc EXCEPT ![t] = "blocked"]
  /\ UNCHANGED <<count, disabled, wakeup, arrivers_count, mutex, loaded, result, unwound, clash>>

(* Leaving the wait: the last thread out resets wakeup; after a KILL the   *)
(* thread goes on to mp_exit_process.                                      *)
Leave(t) ==
  /\ pc[t] = "woken"
  /\ mutex = NoThread
  /\ wakeup # 0
  /\ wakeup' = IF LastOut THEN 0 ELSE wakeup
  /\ CountOut
  /\ pc' = Race([pc EXCEPT ![t] = IF wakeup = KILL THEN "exited" ELSE "running"])
  /\ result' = [result EXCEPT ![t] = IF wakeup = KILL THEN "killed" ELSE "T"]
  /\ UNCHANGED <<count, disabled, mutex, loaded, unwound, clash>>

(* Interrupts are enabled around ecl_cond_var_wait.  One that does not     *)
(* return (mp:process-kill, a throw) lands in the cleanup form, which      *)
(* decrements the count without the mutex and leaves wakeup alone.         *)
Interrupt(t) ==
  /\ t \in Interruptible
  /\ pc[t] \in {"blocked", "woken"}
  /\ pc' = [pc EXCEPT ![t] = "decrementing"]
  /\ loaded' = [loaded EXCEPT ![t] = arrivers_count]
  /\ unwound' = TRUE
  /\ UNCHANGED <<count, disabled, wakeup, arrivers_count, mutex, result, clash>>

(* The store.  When others wrote the field since the load, either they are *)
(* overwritten or the store came between their own load and store and is   *)
(* lost.                                                                   *)
UnlockedDecrement(t) ==
  /\ \/ pc[t] \in {"decrementing", "raced"} /\ arrivers_count' = Dec(loaded[t])
     \/ pc[t] = "raced" /\ arrivers_count' = arrivers_count
  /\ clash' = (clash \/ pc[t] = "raced")
  /\ loaded' = [loaded EXCEPT ![t] = 0]
  /\ \E to \in {"running", "exited"} : pc' = Race([pc EXCEPT ![t] = to])
  /\ UNCHANGED <<count, disabled, wakeup, mutex, result, unwound>>

-----------------------------------------------------------------------------
(* mp:barrier-unblock.  Its arguments matter only once it is past AGAIN.   *)

CallUnblock(t) ==
  /\ pc[t] = "running"
  /\ pc' = [pc EXCEPT ![t] = "unblock"]
  /\ result' = [result EXCEPT ![t] = "none"]
  /\ UNCHANGED <<count, disabled, wakeup, arrivers_count, mutex, loaded, unwound, clash>>

Unblock(t, reset_count, disable, kill_waiting) ==
  /\ Unblocks(t)
  /\ count' = reset_count
  /\ disabled' = disable
  /\ IF Arrivers
     THEN /\ wakeup' = IF kill_waiting THEN KILL ELSE NORMAL
          /\ pc' = Broadcast([pc EXCEPT ![t] = "running"])
     ELSE /\ wakeup' = wakeup
          /\ pc' = [pc EXCEPT ![t] = "running"]
  /\ mutex' = NoThread
  /\ UNCHANGED <<arrivers_count, loaded, result, unwound, clash>>

(* fixnnint(reset_count) signals its error between lock and unlock.        *)
UnblockTypeError(t) ==
  /\ TypeErrors
  /\ Unblocks(t)
  /\ mutex' = t
  /\ \E to \in {"running", "exited"} : pc' = [pc EXCEPT ![t] = to]
  /\ UNCHANGED <<count, disabled, wakeup, arrivers_count, loaded, result, unwound, clash>>

UnblockAny(t) ==
  \E reset_count \in Counts \cup {count}, disable, kill_waiting \in BOOLEAN :
    Unblock(t, reset_count, disable, kill_waiting)

-----------------------------------------------------------------------------
(* What a thread does on its own once it is inside a function.             *)
Step(t) ==
  \/ WaitDisabled(t) \/ WaitTrip(t) \/ WaitBlock(t)
  \/ WaitAgain(t) \/ Leave(t) \/ UnlockedDecrement(t)
  \/ UnblockAny(t)

Next ==
  \E t \in Threads :
    \/ CallWait(t) \/ CallUnblock(t)
    \/ Step(t)
    \/ SpuriousWakeup(t) \/ Interrupt(t) \/ UnblockTypeError(t)

Spec == Init /\ [][Next]_vars

(* Running threads keep running, and a thread that asks for the mutex gets *)
(* it.  Calls, interrupts and spurious wakeups need not happen.            *)
FairSpec == Spec /\ \A t \in Threads : WF_vars(Step(t))

-----------------------------------------------------------------------------
TypeOK ==
  /\ count \in Nat
  /\ disabled \in BOOLEAN
  /\ wakeup \in {0, NORMAL, KILL}
  /\ arrivers_count \in 0 .. MaxIndex
  /\ mutex \in Threads \cup {NoThread}
  /\ pc \in [Threads -> PCs]
  /\ loaded \in [Threads -> 0 .. MaxIndex]
  /\ result \in [Threads -> Results]
  /\ unwound \in BOOLEAN
  /\ clash \in BOOLEAN

(* arrivers_count, "the number of threads waiting on barrier", is that     *)
(* number in every state, whatever mix of waits, trips, unblocks and waits *)
(* unwound by interrupts runs, until the unlocked decrement of an unwound  *)
(* wait and another write of the count fall together.                      *)
ArriversExact == ~clash => arrivers_count = Cardinality(Registered)

(* A wakeup is not over before the last thread it is for has left: whoever *)
(* is inside when the broadcast comes, signalled, woken for no reason or   *)
(* on its way back to sleep, leaves, or is unwound, before wakeup is reset *)
(* and others come in.  Unwound waits do no harm to it as long as their    *)
(* decrements meet no other write; after that a woken thread may find      *)
(* wakeup reset and sleep on.                                              *)
NobodyLeftBehind ==
  [][wakeup # 0 /\ wakeup' = 0 /\ ~clash => Registered' = {}]_vars

(* While wakeup is set there is a thread inside that will reset it.        *)
DrainHasThread == ~unwound /\ wakeup # 0 => Registered # {}

(* A barrier that is not waking threads up has fewer arrivers than its     *)
(* count, also after :reset-count lowered the count below the arrivers.    *)
BelowCount == ~unwound /\ wakeup = 0 /\ count > 0 => arrivers_count < count

(* Nobody is left waiting at a disabled barrier.                           *)
DisabledIsEmpty == ~unwound /\ disabled /\ wakeup = 0 => Registered = {}

(* "We are currently waking up blocked threads; loop until all threads     *)
(* have woken up": the waking up ends.                                     *)
DrainEnds == (wakeup # 0) ~> (wakeup = 0)

(* It does, and every thread that waits when it starts returns from its    *)
(* wait, in a behaviour in which no interrupt unwinds a wait.              *)
RoundsEnd ==
  []~unwound =>
    /\ DrainEnds
    /\ \A t \in Threads : (wakeup # 0 /\ t \in Waiters) ~> (t \notin Registered)

Rounds == INSTANCE AbstractBarrier WITH
  quorum  <- count,
  off     <- disabled,
  waiting <- IF wakeup = 0 THEN Registered ELSE {},
  leaving <- IF wakeup = 0 THEN {} ELSE Registered,
  killing <- wakeup = KILL,
  void    <- unwound

(* The counter, the flag and the condition variable implement rounds of    *)
(* threads: who is released is who waited, all of them, before anyone      *)
(* waits again; each gets the answer the manual promises.                  *)
ImplementsRounds == Rounds!Spec
=============================================================================
