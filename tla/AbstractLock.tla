----------------------------- MODULE AbstractLock -----------------------------
(***************************************************************************)
(* What a lock shows of itself (src/doc/manual/extensions/mp_ref_mutex.txi *)
(* and mp_ref_cv.txi): its owner, how many times it took the lock, and the *)
(* count a thread waiting on a condition variable will have again.         *)
(* Nothing is promised once a thread gave up a lock that it did not hold.  *)
(***************************************************************************)
EXTENDS Naturals

CONSTANTS Threads, NoThread

VARIABLES holder, count, waiting, void

lvars == <<holder, count, waiting>>
avars == <<lvars, void>>

Init ==
  /\ holder = NoThread
  /\ count = 0
  /\ waiting = [t \in Threads |-> 0]
  /\ void = FALSE

Free == holder = NoThread /\ count = 0

Take(t) ==
  /\ Free \/ holder = t
  /\ holder' = t
  /\ count' = count + 1
  /\ UNCHANGED waiting

Release(t) ==
  /\ holder = t
  /\ count' = count - 1
  /\ holder' = IF count' = 0 THEN NoThread ELSE t
  /\ UNCHANGED waiting

Wait(t) ==
  /\ holder = t
  /\ waiting' = [waiting EXCEPT ![t] = count]
  /\ holder' = NoThread
  /\ count' = 0

Resume(t) ==
  /\ Free
  /\ waiting[t] # 0
  /\ holder' = t
  /\ count' = waiting[t]
  /\ waiting' = [waiting EXCEPT ![t] = 0]

(* An interrupt ends the wait.                                             *)
Abandon(t) ==
  /\ waiting' = [waiting EXCEPT ![t] = 0]
  /\ UNCHANGED <<holder, count>>

Promised ==
  \E t \in Threads : Take(t) \/ Release(t) \/ Wait(t) \/ Resume(t) \/ Abandon(t)

Next ==
  \/ ~void /\ ~void' /\ Promised
  \/ void'

Spec == Init /\ [][Next]_avars
=============================================================================
