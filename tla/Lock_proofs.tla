------------------------------ MODULE Lock_proofs ------------------------------
(***************************************************************************)
(* Proofs about Lock: its types, and that whatever interrupts and stray    *)
(* releases do, owner is nobody or the thread that has the mutex           *)
(* (OwnerHolds), and that a free lock looks free (FreeIsClear).            *)
(***************************************************************************)
EXTENDS Lock, TLAPS

(* Between taking the mutex and the end of the function that took it, and  *)
(* in condition-variable-wait before and after the wait, a thread has it.  *)
Held == {"locked", "marking", "releasing", "relocked"}
HoldersHold ==
  /\ \A t \in Threads : pc[t] \in Held => mutex = t
  /\ mutex = NoThread <=> depth = 0
  /\ \A t \in Threads :
       pc[t] \in {"releasing", "waiting", "woken", "relocked"} => ~recursive

(* A non-recursive lock is counted 0 or 1.  A stray release loses the      *)
(* count of the thread that has the lock, and never adds to it.            *)
Single ==
  /\ depth <= 1 /\ counter <= 1
  /\ owner \in {NoThread, mutex}
  /\ mutex = NoThread => owner = NoThread /\ counter = 0
  /\ \A t \in Threads :
       /\ loaded[t] <= 1 /\ saved[t] <= 1
       /\ pc[t] \in Held => owner = NoThread /\ counter = 0
       /\ pc[t] = "marking" => loaded[t] = 0
       /\ pc[t] = "giving" /\ mutex = t => counter <= loaded[t]
       /\ pc[t] = "unlocking" /\ mutex = t => owner = NoThread /\ counter = 0

(* Of a lock nobody strayed into, the counter is at most the depth of the  *)
(* mutex, and below it where the two are about to meet; it is 0 if nobody  *)
(* is the owner; and a thread that waits has a count to come back to.      *)
Counted ==
  /\ owner \in {NoThread, mutex}
  /\ counter = 0 <=> owner = NoThread
  /\ counter <= depth
  /\ \A t \in Threads :
       /\ pc[t] \in {"giving", "unlocking"} => mutex = t
       /\ pc[t] \in {"marking", "giving"} => loaded[t] = counter
       /\ pc[t] \in {"locked", "marking", "unlocking"} => counter < depth
       /\ pc[t] \in {"releasing", "waiting", "woken", "relocked"} => saved[t] # 0

(* If moreover no interrupt unwound a call, the counter is the depth but   *)
(* for the steps that the thread that has the mutex has yet to take.       *)
Exact ==
  \A t \in Threads :
    mutex = t =>
      counter = IF pc[t] \in {"releasing", "relocked"} THEN 0
                ELSE IF pc[t] \in {"locked", "marking", "unlocking"} THEN depth - 1
                ELSE depth

IInv ==
  /\ TypeOK
  /\ HoldersHold
  /\ ~recursive => Single
  /\ ~stray => Counted
  /\ ~stray /\ ~unwound => Exact

LEMMA Initial == Init => IInv
<1> SUFFICES ASSUME Init
             PROVE  IInv
  OBVIOUS
<1>1. recursive \in BOOLEAN /\ stray \in BOOLEAN /\ unwound \in BOOLEAN
  BY OptionsAssumption DEF OptionsAssumption, Init
<1>2. TypeOK
  BY <1>1, OptionsAssumption DEF OptionsAssumption, Init, TypeOK, PCs
<1>3. HoldersHold /\ Single /\ Counted /\ Exact
  BY <1>2, ThreadsAssumption
  DEF ThreadsAssumption, Init, HoldersHold, Held, Single, Counted, Exact
<1> QED
  BY <1>2, <1>3 DEF IInv

(* Every step of the functions, every interrupt and every stray release    *)
(* keeps the invariant.                                                    *)
LEMMA Inductive == IInv /\ [Next]_vars => IInv'
<1> SUFFICES ASSUME IInv, [Next]_vars
             PROVE  IInv'
  OBVIOUS
<1>1. ASSUME NEW t \in Threads, GetNowait(t)
      PROVE  IInv'
  <2>1. TypeOK'
    BY <1>1, OptionsAssumption
    DEF GetNowait, CanAcquire, Acquire, IInv, TypeOK, HoldersHold, PCs, record
  <2>2. HoldersHold'
    BY <1>1, ThreadsAssumption
    DEF GetNowait, CanAcquire, Acquire, IInv, TypeOK, HoldersHold
  <2>3. ~recursive' => Single'
    BY <1>1
    DEF GetNowait, CanAcquire, Acquire, IInv, TypeOK, HoldersHold, record, Single
  <2>4. ~stray' => Counted'
    BY <1>1, ThreadsAssumption
    DEF GetNowait, CanAcquire, Acquire, IInv, TypeOK, record, Counted
  <2>5. ~stray' /\ ~unwound' => Exact'
    BY <1>1
    DEF GetNowait, CanAcquire, Acquire, IInv, TypeOK, HoldersHold, record, Counted, Exact
  <2>6. QED
    BY <2>1, <2>2, <2>3, <2>4, <2>5 DEF IInv
<1>2. ASSUME NEW t \in Threads, GetWait(t)
      PROVE  IInv'
  <2>1. TypeOK'
    BY <1>2
    DEF GetWait, IInv, TypeOK, PCs, record, system
  <2>2. HoldersHold'
    BY <1>2
    DEF GetWait, IInv, HoldersHold, system, Held
  <2>3. ~recursive' => Single'
    BY <1>2
    DEF GetWait, IInv, record, system, Held, Single
  <2>4. ~stray' => Counted'
    BY <1>2
    DEF GetWait, IInv, record, system, Counted
  <2>5. ~stray' /\ ~unwound' => Exact'
    BY <1>2
    DEF GetWait, IInv, record, system, Exact
  <2>6. QED
    BY <2>1, <2>2, <2>3, <2>4, <2>5 DEF IInv
<1>3. ASSUME NEW t \in Threads, Locked(t)
      PROVE  IInv'
  <2>1. TypeOK'
    BY <1>3, OptionsAssumption
    DEF Locked, CanAcquire, Acquire, IInv, TypeOK, HoldersHold, PCs, record
  <2>2. HoldersHold'
    BY <1>3, ThreadsAssumption
    DEF Locked, CanAcquire, Acquire, IInv, TypeOK, HoldersHold
  <2>3. ~recursive' => Single'
    BY <1>3
    DEF Locked, CanAcquire, Acquire, IInv, HoldersHold, record, Single
  <2>4. ~stray' => Counted'
    BY <1>3, ThreadsAssumption
    DEF Locked, CanAcquire, Acquire, IInv, TypeOK, record, Counted
  <2>5. ~stray' /\ ~unwound' => Exact'
    BY <1>3
    DEF Locked, CanAcquire, Acquire, IInv, TypeOK, HoldersHold, record, Counted, Exact
  <2>6. QED
    BY <2>1, <2>2, <2>3, <2>4, <2>5 DEF IInv
<1>4. ASSUME NEW t \in Threads, NotLocked(t)
      PROVE  IInv'
  <2>1. TypeOK'
    BY <1>4
    DEF NotLocked, IInv, TypeOK, PCs, record, system
  <2>2. HoldersHold'
    BY <1>4
    DEF NotLocked, IInv, HoldersHold, system, Held
  <2>3. ~recursive' => Single'
    BY <1>4
    DEF NotLocked, IInv, record, system, Held, Single
  <2>4. ~stray' => Counted'
    BY <1>4
    DEF NotLocked, IInv, record, system, Counted
  <2>5. ~stray' /\ ~unwound' => Exact'
    BY <1>4
    DEF NotLocked, IInv, record, system, Exact
  <2>6. QED
    BY <2>1, <2>2, <2>3, <2>4, <2>5 DEF IInv
<1>5. ASSUME NEW t \in Threads, Load(t)
      PROVE  IInv'
  <2>1. TypeOK'
    BY <1>5
    DEF Load, IInv, TypeOK, PCs, record, system
  <2>2. HoldersHold'
    BY <1>5
    DEF Load, IInv, HoldersHold, system, Held
  <2>3. ~recursive' => Single'
    BY <1>5
    DEF Load, IInv, TypeOK, record, system, Held, Single
  <2>4. ~stray' => Counted'
    BY <1>5
    DEF Load, IInv, TypeOK, record, system, Counted
  <2>5. ~stray' /\ ~unwound' => Exact'
    BY <1>5
    DEF Load, IInv, record, system, Exact
  <2>6. QED
    BY <2>1, <2>2, <2>3, <2>4, <2>5 DEF IInv
<1>6. ASSUME NEW t \in Threads, Mark(t)
      PROVE  IInv'
  <2>1. TypeOK'
    BY <1>6
    DEF Mark, IInv, TypeOK, PCs, system
  <2>2. HoldersHold'
    BY <1>6
    DEF Mark, IInv, HoldersHold, system, Held
  <2>3. ~recursive' => Single'
    BY <1>6, ThreadsAssumption
    DEF Mark, IInv, TypeOK, HoldersHold, system, Held, Single
  <2>4. ~stray' => Counted'
    BY <1>6
    DEF Mark, IInv, TypeOK, HoldersHold, system, Held, Counted
  <2>5. ~stray' /\ ~unwound' => Exact'
    BY <1>6
    DEF Mark, IInv, TypeOK, HoldersHold, system, Held, Counted, Exact
  <2>6. QED
    BY <2>1, <2>2, <2>3, <2>4, <2>5 DEF IInv
<1>7. ASSUME NEW t \in Threads, GiveUp(t)
      PROVE  IInv'
  <2>1. TypeOK'
    BY <1>7
    DEF GiveUp, IInv, TypeOK, PCs, record, system
  <2>2. HoldersHold'
    BY <1>7
    DEF GiveUp, IInv, HoldersHold, system, Held
  <2>3. ~recursive' => Single'
    BY <1>7
    DEF GiveUp, IInv, TypeOK, record, system, Held, Single
  <2>4. (~stray' => ~stray /\ mutex = t) /\ unwound' = unwound
    BY <1>7, Zenon DEF GiveUp
  <2>5. UNCHANGED <<recursive, owner, counter, mutex, depth, saved>>
    BY <1>7 DEF GiveUp, record, system
  <2>6. \A u \in Threads :
          /\ pc'[u] = IF u = t THEN "giving" ELSE pc[u]
          /\ loaded'[u] = IF u = t THEN counter ELSE loaded[u]
    BY <1>7 DEF GiveUp, IInv, TypeOK
  <2>7. pc[t] = "running"
    BY <1>7 DEF GiveUp
  <2>8. ~stray' => Counted'
    BY <2>4, <2>5, <2>6 DEF IInv, Counted
  <2>9. ~stray' /\ ~unwound' => Exact'
    BY <2>4, <2>5, <2>6, <2>7 DEF IInv, Exact
  <2>10. QED
    BY <2>1, <2>2, <2>3, <2>8, <2>9 DEF IInv
<1>8. ASSUME NEW t \in Threads, Unmark(t)
      PROVE  IInv'
  <2>1. TypeOK'
    BY <1>8
    DEF Unmark, Less, IInv, TypeOK, PCs, system
  <2>2. HoldersHold'
    BY <1>8
    DEF Unmark, IInv, HoldersHold, system, Held
  <2>3. ~recursive' => Single'
    BY <1>8
    DEF Unmark, Less, Last, IInv, TypeOK, system, Held, Single
  <2>4. ~stray' => Counted'
    BY <1>8, ThreadsAssumption
    DEF Unmark, Less, Last, IInv, TypeOK, HoldersHold, system, Held, Counted
  <2>5. ~stray' /\ ~unwound' => Exact'
    BY <1>8, ThreadsAssumption
    DEF Unmark, Less, IInv, TypeOK, HoldersHold, system, Counted, Exact
  <2>6. QED
    BY <2>1, <2>2, <2>3, <2>4, <2>5 DEF IInv
<1>9. ASSUME NEW t \in Threads, Unlock(t)
      PROVE  IInv'
  <2>1. TypeOK'
    BY <1>9, ThreadsAssumption, OptionsAssumption
    DEF Unlock, MayUnlock, IInv, TypeOK, HoldersHold, PCs, record, system
  <2>2. HoldersHold'
    BY <1>9, ThreadsAssumption
    DEF Unlock, MayUnlock, IInv, TypeOK, HoldersHold, system, Held
  <2>3. ~recursive' => Single'
    BY <1>9
    DEF Unlock, MayUnlock, IInv, TypeOK, record, system, Held, Single
  <2>4. ~stray' => Counted'
    BY <1>9
    DEF Unlock, MayUnlock, IInv, TypeOK, HoldersHold, record, Held, Counted
  <2>5. ~stray' /\ ~unwound' => Exact'
    BY <1>9, ThreadsAssumption
    DEF Unlock, MayUnlock, IInv, TypeOK, record, system, Exact
  <2>6. QED
    BY <2>1, <2>2, <2>3, <2>4, <2>5 DEF IInv
<1>10. ASSUME NEW t \in Threads, WaitBegin(t)
      PROVE  IInv'
  <2>1. TypeOK'
    BY <1>10
    DEF WaitBegin, IInv, TypeOK, PCs, system
  <2>2. HoldersHold'
    BY <1>10, ThreadsAssumption
    DEF WaitBegin, IInv, HoldersHold, system, Single
  <2>3. ~recursive' => Single'
    BY <1>10, ThreadsAssumption
    DEF WaitBegin, IInv, system, Single
  <2>4. ~stray' => Counted'
    BY <1>10, ThreadsAssumption
    DEF WaitBegin, IInv, TypeOK, HoldersHold, system, Held, Counted
  <2>5. ~stray' /\ ~unwound' => Exact'
    BY <1>10, ThreadsAssumption
    DEF WaitBegin, IInv, TypeOK, system, Single, Exact
  <2>6. QED
    BY <2>1, <2>2, <2>3, <2>4, <2>5 DEF IInv
<1>11. ASSUME NEW t \in Threads, Wait(t)
      PROVE  IInv'
  <2>1. TypeOK'
    BY <1>11, OptionsAssumption
    DEF Wait, IInv, TypeOK, PCs, record
  <2>2. HoldersHold'
    BY <1>11
    DEF Wait, IInv, TypeOK, HoldersHold, Held
  <2>3. ~recursive' => Single'
    BY <1>11, ThreadsAssumption
    DEF Wait, IInv, record, Held, Single
  <2>4. ~stray' => Counted'
    BY <1>11
    DEF Wait, IInv, HoldersHold, record, Held, Single, Counted
  <2>5. ~stray' /\ ~unwound' => Exact'
    BY <1>11, ThreadsAssumption
    DEF Wait, Exact
  <2>6. QED
    BY <2>1, <2>2, <2>3, <2>4, <2>5 DEF IInv
<1>12. ASSUME NEW t \in Threads, WakeUp(t)
      PROVE  IInv'
  <2>1. TypeOK'
    BY <1>12
    DEF WakeUp, IInv, TypeOK, PCs, record, system
  <2>2. HoldersHold'
    BY <1>12
    DEF WakeUp, IInv, HoldersHold, system, Held
  <2>3. ~recursive' => Single'
    BY <1>12
    DEF WakeUp, IInv, record, system, Held, Single
  <2>4. ~stray' => Counted'
    BY <1>12
    DEF WakeUp, IInv, record, system, Counted
  <2>5. ~stray' /\ ~unwound' => Exact'
    BY <1>12
    DEF WakeUp, IInv, record, system, Exact
  <2>6. QED
    BY <2>1, <2>2, <2>3, <2>4, <2>5 DEF IInv
<1>13. ASSUME NEW t \in Threads, NEW W \in SUBSET Waiting, Signal(t, W)
      PROVE  IInv'
  <2>1. TypeOK'
    BY <1>13
    DEF Signal, IInv, TypeOK, PCs, record, system
  <2>2. HoldersHold'
    BY <1>13
    DEF Signal, Waiting, IInv, HoldersHold, system, Held
  <2>3. ~recursive' => Single'
    BY <1>13
    DEF Signal, IInv, record, system, Held, Single
  <2>4. ~stray' => Counted'
    BY <1>13
    DEF Signal, Waiting, IInv, record, system, Counted
  <2>5. ~stray' /\ ~unwound' => Exact'
    BY <1>13
    DEF Signal, Waiting, IInv, record, system, Exact
  <2>6. QED
    BY <2>1, <2>2, <2>3, <2>4, <2>5 DEF IInv
<1>14. ASSUME NEW t \in Threads, Relock(t)
      PROVE  IInv'
  <2>1. TypeOK'
    BY <1>14, OptionsAssumption
    DEF Relock, Acquire, IInv, TypeOK, HoldersHold, PCs, record
  <2>2. HoldersHold'
    BY <1>14, ThreadsAssumption
    DEF Relock, Acquire, IInv, HoldersHold
  <2>3. ~recursive' => Single'
    BY <1>14
    DEF Relock, Acquire, IInv, HoldersHold, record, Single
  <2>4. ~stray' => Counted'
    BY <1>14, ThreadsAssumption
    DEF Relock, Acquire, IInv, TypeOK, record, Counted
  <2>5. ~stray' /\ ~unwound' => Exact'
    BY <1>14
    DEF Relock, Acquire, IInv, TypeOK, HoldersHold, record, Single, Exact
  <2>6. QED
    BY <2>1, <2>2, <2>3, <2>4, <2>5 DEF IInv
<1>15. ASSUME NEW t \in Threads, WaitEnd(t)
      PROVE  IInv'
  <2>1. TypeOK'
    BY <1>15
    DEF WaitEnd, Restored, IInv, TypeOK, PCs, system
  <2>2. HoldersHold'
    BY <1>15
    DEF WaitEnd, IInv, HoldersHold, system, Held
  <2>3. ~recursive' => Single'
    BY <1>15, ThreadsAssumption
    DEF WaitEnd, Restored, IInv, TypeOK, HoldersHold, system, Held, Single
  <2>4. ~stray' => Counted'
    BY <1>15, ThreadsAssumption
    DEF WaitEnd, Restored, IInv, TypeOK, HoldersHold, system, Held, Single, Counted
  <2>5. ~stray' /\ ~unwound' => Exact'
    BY <1>15, ThreadsAssumption
    DEF WaitEnd, Restored, IInv, TypeOK, HoldersHold, system, Held, Single, Counted, Exact
  <2>6. QED
    BY <2>1, <2>2, <2>3, <2>4, <2>5 DEF IInv
<1>16. ASSUME NEW t \in Threads, Interrupt(t)
      PROVE  IInv'
  <2>1. TypeOK'
    BY <1>16
    DEF Interrupt, IInv, TypeOK, PCs, record, system
  <2>2. HoldersHold'
    BY <1>16
    DEF Interrupt, IInv, HoldersHold, system, Held
  <2>3. ~recursive' => Single'
    BY <1>16
    DEF Interrupt, IInv, record, system, Held, Single
  <2>4. ~stray' => Counted'
    BY <1>16
    DEF Interrupt, IInv, TypeOK, record, system, Counted
  <2>5. unwound' = TRUE
    BY <1>16 DEF Interrupt
  <2>6. QED
    BY <2>1, <2>2, <2>3, <2>4, <2>5 DEF IInv
<1>17. CASE UNCHANGED vars
  BY <1>17 DEF vars, IInv, TypeOK, HoldersHold, Held, Single, Counted, Exact
<1>18. ASSUME NEW t \in Threads, NEW W \in {{u} : u \in Waiting} \cup {Waiting}
      PROVE  W \in SUBSET Waiting
  OBVIOUS
<1> QED
  BY <1>1, <1>2, <1>3, <1>4, <1>5, <1>6, <1>7, <1>8, <1>9, <1>10, <1>11, <1>12, <1>13, <1>14, <1>15, <1>16, <1>17, <1>18
  DEF Next

THEOREM Invariant == Spec => []IInv
<1>1. IInv /\ [Next]_vars => IInv'
  BY Inductive
<1> QED
  BY Initial, <1>1, PTL DEF Spec

(* Every variable of a lock and of its users stays in its range; the mutex *)
(* is never taken deeper than MaxDepth.                                    *)
THEOREM LockTypes == Spec => []TypeOK
BY Invariant, PTL DEF IInv

(* "INV: owner != nil only if the mutex is locked" (mutex.d), and locked   *)
(* by owner: of a recursive lock until a thread gives it up that does not  *)
(* have it, of any other lock always.                                      *)
THEOREM OwnerHoldsAlways == Spec => []OwnerHolds
<1>1. IInv => OwnerHolds
  BY DEF IInv, Single, Counted, OwnerHolds, TypeOK
<1> QED
  BY Invariant, <1>1, PTL

(* A lock that is free says so: whoever gave it up, or was unwound out of  *)
(* get-lock or a wait on the condition variable and gave it up later, left *)
(* neither owner nor count behind.                                         *)
THEOREM FreeIsClearAlways == Spec => []FreeIsClear
<1>1. IInv => FreeIsClear
  BY DEF IInv, Counted, FreeIsClear, TypeOK, HoldersHold
<1> QED
  BY Invariant, <1>1, PTL

(* Without strays and unwound calls a thread that has the mutex is owner,  *)
(* counted as often as it took it: condition-variable-wait accepts it.     *)
THEOREM HolderKnownAlways == Spec => []HolderKnown
<1>1. IInv => HolderKnown
  BY ThreadsAssumption
  DEF ThreadsAssumption, IInv, Counted, Exact, HolderKnown, TypeOK, HoldersHold
<1> QED
  BY Invariant, <1>1, PTL

-----------------------------------------------------------------------------
(* What lock-owner and lock-count show *)

LEMMA VisibleSteps == IInv /\ [Next]_vars => [Visible!Next]_(Visible!avars)
<1> SUFFICES ASSUME IInv, [Next]_vars
             PROVE  Visible!Next \/ UNCHANGED Visible!avars
  OBVIOUS
<1> USE DEF Visible!avars, Visible!lvars
<1>0. CASE stray'
  BY <1>0 DEF Visible!Next
<1> SUFFICES ASSUME ~stray'
             PROVE  Visible!Next \/ UNCHANGED Visible!avars
  BY <1>0
<1>1. ASSUME NEW t \in Threads, Mark(t), ~stray
      PROVE  Visible!Take(t)
  BY <1>1
  DEF Mark, IInv, TypeOK, HoldersHold, Held, Counted, system, Visible!Take, Visible!Free
<1>2. ASSUME NEW t \in Threads, Unmark(t), ~stray
      PROVE  Visible!Release(t) \/ UNCHANGED Visible!lvars
  <2>1. mutex = t /\ loaded[t] = counter /\ counter \in Nat
    BY <1>2 DEF Unmark, IInv, TypeOK, Counted
  <2>2. CASE counter = 0
    BY <1>2, <2>1, <2>2 DEF Unmark, Less, Last, IInv, Counted
  <2>3. CASE counter # 0
    BY <1>2, <2>1, <2>3 DEF Unmark, Less, Last, IInv, Counted, Visible!Release
  <2> QED
    BY <2>2, <2>3
<1>3. ASSUME NEW t \in Threads, WaitBegin(t)
      PROVE  Visible!Wait(t)
  BY <1>3 DEF WaitBegin, Visible!Wait
<1>4. ASSUME NEW t \in Threads, WaitEnd(t), ~stray
      PROVE  Visible!Resume(t)
  BY <1>4
  DEF WaitEnd, Restored, IInv, TypeOK, HoldersHold, Held, Single, Counted,
      Visible!Resume, Visible!Free
<1>5. ASSUME NEW t \in Threads, Interrupt(t)
      PROVE  Visible!Abandon(t)
  BY <1>5 DEF Interrupt, record, Visible!Abandon
<1>6. ASSUME NEW t \in Threads,
             \/ GetNowait(t) \/ GetWait(t) \/ Locked(t) \/ NotLocked(t) \/ Load(t)
             \/ Unlock(t) \/ Wait(t) \/ WakeUp(t) \/ Relock(t)
             \/ \E W \in {{u} : u \in Waiting} \cup {Waiting} : Signal(t, W)
      PROVE  UNCHANGED Visible!avars
  BY <1>6
  DEF GetNowait, GetWait, Locked, NotLocked, Load, Unlock, MayUnlock, Wait, WakeUp, Relock,
      Signal, record
<1>7. ASSUME NEW t \in Threads, GiveUp(t)
      PROVE  UNCHANGED Visible!avars
  <2>1. ~stray
    BY <1>7, Zenon DEF GiveUp
  <2>2. stray \in BOOLEAN /\ stray' \in BOOLEAN
    BY Inductive DEF IInv, TypeOK
  <2> QED
    BY <1>7, <2>1, <2>2 DEF GiveUp, record
<1>8. ASSUME NEW t \in Threads,
             Mark(t) \/ Unmark(t) \/ WaitBegin(t) \/ WaitEnd(t) \/ Interrupt(t)
      PROVE  (Visible!Promised /\ ~stray) \/ UNCHANGED Visible!avars
  <2>1. stray' = stray
    BY <1>8 DEF Mark, Unmark, WaitBegin, WaitEnd, Interrupt
  <2>2. ~stray
    BY <2>1
  <2> QED
    BY <1>1, <1>2, <1>3, <1>4, <1>5, <1>8, <2>1, <2>2 DEF Visible!Promised
<1>9. CASE UNCHANGED vars
  BY <1>9 DEF vars, record
<1> QED
  BY <1>6, <1>7, <1>8, <1>9 DEF Next, Visible!Next

(* The record that mutex.d and condition_variable.d keep is that of a lock *)
(* as AbstractLock describes it.                                           *)
THEOREM LockImplementsLock == Spec => ImplementsLock
<1>1. Init => Visible!Init
  BY DEF Init, Visible!Init
<1>2. IInv /\ [Next]_vars => IInv' /\ [Visible!Next]_(Visible!avars)
  BY Inductive, VisibleSteps
<1> QED
  BY Initial, <1>1, <1>2, PTL DEF Spec, ImplementsLock, Visible!Spec
=============================================================================
