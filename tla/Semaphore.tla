------------------------------ MODULE Semaphore ------------------------------
(***************************************************************************)
(* mp:semaphore of ECL, src/c/threads/semaphore.d.                         *)
(*                                                                         *)
(* As in Barrier, the code between lock and unlock (or the wait on the     *)
(* condition variable) is one action, and the decrement of wait_count by a *)
(* waiter that an interrupt unwinds, made without the mutex, is two.       *)
(* Time is left to TimedWait: here a wait with a timeout may expire at any *)
(* moment.                                                                 *)
(***************************************************************************)
EXTENDS Integers, FiniteSets

CONSTANTS
  Threads,        \* the threads that use the semaphore
  NoThread,       \* the owner of a free mutex
  InitialCounts,  \* values of make-semaphore's :count
  Requests,       \* counts waited for
  Signals,        \* counts signalled
  MaxGiven,       \* bound: units signalled in a behaviour
  MaxDrift,       \* bound: interrupts come while -MaxDrift <= wait_count <= MaxDrift
  Timeouts,       \* subset of {"none", "zero", "some"}: the timeouts given
  Interruptible,  \* threads that interrupts may unwind out of the wait
  TypeErrors      \* may :timeout be something ecl_plusp refuses?

ASSUME ThreadsAssumption == IsFiniteSet(Threads) /\ NoThread \notin Threads
ASSUME CountsAssumption ==
  /\ InitialCounts \subseteq Nat /\ Requests \subseteq Nat
  /\ Signals \subseteq Nat /\ MaxGiven \in Nat /\ MaxDrift \in Nat
ASSUME OptionsAssumption ==
  /\ Timeouts \subseteq {"none", "zero", "some"}
  /\ Interruptible \subseteq Threads
  /\ TypeErrors \in BOOLEAN

VARIABLES
  counter, wait_count,   \* struct ecl_semaphore
  mutex,    \* NoThread, or the thread that left the mutex locked behind it
  pc,       \* where each thread is
  need,     \* the count each thread waits for
  timed,    \* whether its wait has a timeout
  loaded,   \* the value a thread's unlocked decrement started from
  made, given, taken, \* history: initial count, units signalled, units got
  unwound,  \* history: an interrupt has unwound a wait
  mixed     \* history: a thread has waited for more than one unit

vars == <<counter, wait_count, mutex, pc, need, timed, loaded, made, given, taken,
          unwound, mixed>>

PCs == {"running",     \* outside the semaphore's functions
        "blocked",     \* in the wait on the condition variable
        "woken",       \* the same, signalled or woken for no reason
        "expired",     \* the same, its timeout over
        "decrementing",\* unwinding, between load and store of the decrement
        "raced",       \* the same, after another thread wrote the field
        "exited"}

At(S) == {t \in Threads : pc[t] \in S}
Blocked == At({"blocked"})
Registered == At({"blocked", "woken", "expired", "decrementing", "raced"})

(* The mutex is an error-checking one: its owner is refused a second lock, *)
(* but no caller looks at the answer, so it enters, and unlocks on leaving.*)
CanLock(t) == mutex \in {NoThread, t}

EnoughLate(n) == counter + 1 >= n           \* mutant of Enough
Enough(n) == counter >= n

(* ecl_cond_var_signal called n times wakes n blocked threads, or them all.*)
WokenFirst(n) ==                            \* mutant of WokenBy
  {W \in SUBSET Blocked : Cardinality(W) <= 1 /\ (W = {} => Blocked = {})}
WokenBy(n) ==
  {W \in SUBSET Blocked : \/ Cardinality(W) = n
                          \/ W = Blocked /\ Cardinality(W) < n}

Wake(p, W) == [t \in Threads |-> IF t \in W THEN "woken" ELSE p[t]]

(* A write of wait_count in the middle of another thread's decrement.      *)
Race(p) == [t \in Threads |-> IF p[t] = "decrementing" THEN "raced" ELSE p[t]]

Init ==
  /\ counter \in InitialCounts
  /\ wait_count = 0
  /\ mutex = NoThread
  /\ pc = [t \in Threads |-> "running"]
  /\ need = [t \in Threads |-> 0]
  /\ timed = [t \in Threads |-> FALSE]
  /\ loaded = [t \in Threads |-> 0]
  /\ made = counter
  /\ given = 0
  /\ taken = 0
  /\ unwound = FALSE
  /\ mixed = FALSE

Take(n) == counter' = counter - n /\ taken' = taken + n
CountOutServed(t) ==                                        \* mutant of CountOut
  wait_count' = IF Enough(need[t]) THEN wait_count - 1 ELSE wait_count
CountOut(t) == wait_count' = wait_count - 1

-----------------------------------------------------------------------------
(* mp:signal-semaphore *)

Signal(t, n) ==
  /\ pc[t] = "running"
  /\ CanLock(t)
  /\ given + n <= MaxGiven
  /\ counter' = counter + n
  /\ given' = given + n
  /\ \E W \in WokenBy(n) : pc' = Wake(pc, W)
  /\ mutex' = NoThread
  /\ UNCHANGED <<wait_count, need, timed, loaded, made, taken, unwound, mixed>>

-----------------------------------------------------------------------------
(* mp_semaphore_wait, and wait-on-semaphore and try-get-semaphore, which   *)
(* call it *)

WaitAtOnce(t, n) ==
  /\ pc[t] = "running"
  /\ CanLock(t)
  /\ Enough(n)
  /\ Take(n)
  /\ mutex' = NoThread
  /\ UNCHANGED <<wait_count, pc, need, timed, loaded, made, given, unwound,
                 mixed>>

(* A timeout of zero, try-get-semaphore's, that finds too few units.       *)
WaitRefused(t, n) ==
  /\ "zero" \in Timeouts
  /\ pc[t] = "running"
  /\ CanLock(t)
  /\ ~Enough(n)
  /\ mutex' = NoThread
  /\ UNCHANGED <<counter, wait_count, pc, need, timed, loaded, made, given,
                 taken, unwound, mixed>>

WaitBlock(t, n, timeout) ==
  /\ timeout # "zero"
  /\ pc[t] = "running"
  /\ CanLock(t)
  /\ ~Enough(n)
  /\ wait_count' = wait_count + 1
  /\ pc' = Race([pc EXCEPT ![t] = "blocked"])
  /\ need' = [need EXCEPT ![t] = n]
  /\ timed' = [timed EXCEPT ![t] = timeout = "some"]
  /\ mutex' = NoThread
  /\ mixed' = (mixed \/ n > 1)
  /\ UNCHANGED <<counter, loaded, made, given, taken, unwound>>

(* ecl_plusp(timeout) signals its error with the mutex locked.             *)
WaitTypeError(t, n) ==
  /\ TypeErrors
  /\ pc[t] = "running"
  /\ CanLock(t)
  /\ ~Enough(n)
  /\ mutex' = t
  /\ \E to \in {"running", "exited"} : pc' = [pc EXCEPT ![t] = to]
  /\ UNCHANGED <<counter, wait_count, need, timed, loaded, made, given, taken,
                 unwound, mixed>>

(* pthread_cond_wait may return without a signal.                          *)
SpuriousWakeup(t) ==
  /\ pc[t] = "blocked"
  /\ pc' = [pc EXCEPT ![t] = "woken"]
  /\ UNCHANGED <<counter, wait_count, mutex, need, timed, loaded, made, given,
                 taken, unwound, mixed>>

(* pthread_cond_timedwait that no signal reached returns ETIMEDOUT.        *)
Expire(t) ==
  /\ pc[t] = "blocked"
  /\ timed[t]
  /\ pc' = [pc EXCEPT ![t] = "expired"]
  /\ UNCHANGED <<counter, wait_count, mutex, need, timed, loaded, made, given,
                 taken, unwound, mixed>>

WaitAgain(t) ==
  /\ pc[t] = "woken"
  /\ mutex = NoThread
  /\ ~Enough(need[t])
  /\ pc' = [pc EXCEPT ![t] = "blocked"]
  /\ UNCHANGED <<counter, wait_count, mutex, need, timed, loaded, made, given,
                 taken, unwound, mixed>>

(* The wait is over: the units are there, or there is no time left (after  *)
(* ETIMEDOUT, or after a wakeup that came at the deadline).  The units are *)
(* looked at again, then the cleanup form runs under the mutex.            *)
WaitEnd(t) ==
  /\ pc[t] \in {"woken", "expired"}
  /\ mutex = NoThread
  /\ Enough(need[t]) \/ pc[t] = "expired" \/ timed[t]
  /\ IF Enough(need[t]) THEN Take(need[t]) ELSE UNCHANGED <<counter, taken>>
  /\ CountOut(t)
  /\ pc' = Race([pc EXCEPT ![t] = "running"])
  /\ need' = [need EXCEPT ![t] = 0]
  /\ timed' = [timed EXCEPT ![t] = FALSE]
  /\ UNCHANGED <<mutex, loaded, made, given, unwound, mixed>>

(* Interrupts are enabled around the wait.  One that does not return lands *)
(* in the cleanup form, which decrements wait_count without the mutex; the *)
(* signal the thread may have got is not passed on.                        *)
Interrupt(t) ==
  /\ t \in Interruptible
  /\ wait_count \in (-MaxDrift) .. MaxDrift
  /\ pc[t] \in {"blocked", "woken", "expired"}
  /\ pc' = [pc EXCEPT ![t] = "decrementing"]
  /\ loaded' = [loaded EXCEPT ![t] = wait_count]
  /\ need' = [need EXCEPT ![t] = 0]
  /\ timed' = [timed EXCEPT ![t] = FALSE]
  /\ unwound' = TRUE
  /\ UNCHANGED <<counter, wait_count, mutex, made, given, taken, mixed>>

(* The store, against the writes of others since the load (see Barrier).   *)
UnlockedDecrement(t) ==
  /\ \/ pc[t] \in {"decrementing", "raced"} /\ wait_count' = loaded[t] - 1
     \/ pc[t] = "raced" /\ wait_count' = wait_count
  /\ \E to \in {"running", "exited"} : pc' = Race([pc EXCEPT ![t] = to])
  /\ loaded' = [loaded EXCEPT ![t] = 0]
  /\ UNCHANGED <<counter, mutex, need, timed, made, given, taken, unwound,
                 mixed>>

-----------------------------------------------------------------------------
Call(t) ==
  \/ \E n \in Signals : Signal(t, n)
  \/ \E n \in Requests :
       \/ WaitAtOnce(t, n) \/ WaitRefused(t, n) \/ WaitTypeError(t, n)
       \/ \E timeout \in Timeouts : WaitBlock(t, n, timeout)

Next ==
  \E t \in Threads :
    \/ Call(t)
    \/ WaitAgain(t) \/ WaitEnd(t) \/ UnlockedDecrement(t)
    \/ SpuriousWakeup(t) \/ Expire(t) \/ Interrupt(t)

Spec == Init /\ [][Next]_vars

(* A woken thread gets the mutex and a timeout expires; calls, interrupts  *)
(* and spurious wakeups need not happen.                                   *)
FairSpec ==
  Spec /\ \A t \in Threads :
    WF_vars(WaitAgain(t) \/ WaitEnd(t) \/ UnlockedDecrement(t)) /\ WF_vars(Expire(t))

-----------------------------------------------------------------------------
TypeOK ==
  /\ counter \in Nat
  /\ wait_count \in Int
  /\ mutex \in Threads \cup {NoThread}
  /\ pc \in [Threads -> PCs]
  /\ need \in [Threads -> Requests \cup {0}]
  /\ timed \in [Threads -> BOOLEAN]
  /\ loaded \in [Threads -> Int]
  /\ made \in Nat /\ given \in 0 .. MaxGiven /\ taken \in Nat
  /\ unwound \in BOOLEAN /\ mixed \in BOOLEAN

(* No unit is lost or handed out twice, whoever takes it: a woken thread,  *)
(* one that barges in, or one whose timeout expired as the signal came.    *)
UnitsConserved == counter + taken = made + given

(* wait_count, "the number of threads waiting on semaphore", is exact      *)
(* until an interrupt unwinds a wait.                                      *)
WaitCountExact == ~unwound => wait_count = Cardinality(Registered)

(* As long as threads wait for one unit at a time no unit lies idle while  *)
(* one sleeps: if any is blocked, every unit there is has an awakened      *)
(* taker, whoever barges in and whosever timeout expires in between.       *)
EveryUnitHasTaker ==
  ~unwound /\ ~mixed /\ Blocked # {} => Cardinality(At({"woken"})) >= counter

(* A wait "blocks until the semaphore can be decremented": when no more    *)
(* calls come, no thread sleeps on although it can be.                     *)
WaitersServed ==
  <>[][\A t \in Threads : ~Call(t)]_vars =>
    \A t \in Threads : <>[](pc[t] = "blocked" => counter < need[t])

(* So it is if threads wait for one unit at a time, no interrupt unwinds a *)
(* wait and no error leaves the mutex locked.                              *)
SingleWaitersServed ==
  [](~unwound /\ ~mixed /\ mutex = NoThread) => WaitersServed
=============================================================================
