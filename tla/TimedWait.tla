------------------------------ MODULE TimedWait ------------------------------
(***************************************************************************)
(* The loop around ecl_cond_var_timedwait in semaphore.d, with a clock.    *)
(* A thread waits with a timeout; it may be woken early and find nothing   *)
(* (a spurious wakeup, or another thread came first), and then computes    *)
(* how long to go on waiting.                                              *)
(*                                                                         *)
(* Time counts internal time units.  Only sleeping takes time, and a sleep *)
(* ends exactly when it should.                                            *)
(***************************************************************************)
EXTENDS Integers

CONSTANTS
  Timeouts,  \* timeouts given, in seconds
  Second,    \* internal time units per second (1000000 in time.d)
  MaxNow     \* bound: the clock stops there

VARIABLES
  timeout,  \* what the call was given, in seconds
  now,      \* cl_get_internal_real_time
  until,    \* when the current ecl_cond_var_timedwait expires
  pc        \* "sleeping", "awake", "satisfied" or "timedout"

vars == <<timeout, now, until, pc>>

(* ecl_cond_var_timedwait takes seconds.                                   *)
Sleep(seconds) ==
  /\ until' = now + seconds * Second
  /\ pc' = "sleeping"

(* The deadline of semaphore_wait_unprotected, computed at time 0.         *)
deadline == timeout * Second

Init ==
  /\ timeout \in Timeouts
  /\ now = 0
  /\ until = timeout * Second
  /\ pc = "sleeping"

Tick ==
  /\ now < MaxNow
  /\ pc = "sleeping"
  /\ now < until
  /\ now' = now + 1
  /\ UNCHANGED <<timeout, until, pc>>

Expire ==
  /\ pc = "sleeping"
  /\ now = until
  /\ pc' = "timedout"
  /\ UNCHANGED <<timeout, now, until>>

WokenAndServed ==
  /\ pc = "sleeping"
  /\ pc' = "satisfied"
  /\ UNCHANGED <<timeout, now, until>>

WokenForNothing ==
  /\ pc = "sleeping"
  /\ now < until
  /\ pc' = "awake"
  /\ UNCHANGED <<timeout, now, until>>

(* The rest of the time, in internal time units, is passed on as seconds.  *)
Retry ==
  /\ pc = "awake"
  /\ LET seconds == deadline - now
     IN  IF seconds >= 0
         THEN Sleep(seconds)
         ELSE pc' = "timedout" /\ UNCHANGED until
  /\ UNCHANGED <<timeout, now>>

Next ==
  Tick \/ Expire \/ WokenAndServed \/ WokenForNothing \/ Retry

Spec == Init /\ [][Next]_vars

-----------------------------------------------------------------------------
(* "timeout is the maximum number of seconds to wait": nobody sleeps       *)
(* beyond it.                                                              *)
NeverLate == pc = "sleeping" => now <= timeout * Second
=============================================================================
