--------------------------- MODULE Barrier_proofs ---------------------------
(***************************************************************************)
(* What barrier.d guarantees for any number of threads and any counts.     *)
(* The types are correct come what may; the count is exact, and a wakeup   *)
(* takes everyone along, until the decrement of an unwound wait meets      *)
(* another write; the rest holds until an interrupt unwinds a wait.  A     *)
(* type error that leaves the mutex locked harms none of it.               *)
(***************************************************************************)
EXTENDS Barrier, FiniteSetTheorems, TLAPS

LEMMA InitType == Init => TypeOK
<1> USE ThreadsAssumption, CountsAssumption, IndexAssumption, InterruptAssumption
        DEF ThreadsAssumption, CountsAssumption, IndexAssumption, InterruptAssumption
<1> SUFFICES ASSUME Init PROVE TypeOK
  OBVIOUS
<1> USE DEF Init
<1>1. count \in Nat
  OBVIOUS
<1>2. arrivers_count \in 0 .. MaxIndex /\ loaded \in [Threads -> 0 .. MaxIndex]
  OBVIOUS
<1>3. pc \in [Threads -> PCs] /\ result \in [Threads -> Results]
  BY DEF PCs, Results
<1> QED
  BY <1>1, <1>2, <1>3 DEF TypeOK

LEMMA TypeStep == TypeOK /\ [Next]_vars => TypeOK'
<1> USE ThreadsAssumption, CountsAssumption, IndexAssumption, InterruptAssumption
        DEF ThreadsAssumption, CountsAssumption, IndexAssumption, InterruptAssumption
<1>a. ASSUME NEW n \in 0 .. MaxIndex
      PROVE  Inc(n) \in 0 .. MaxIndex /\ Dec(n) \in 0 .. MaxIndex
  BY DEF Inc, Dec
<1>b. ASSUME NEW p \in [Threads -> PCs]
      PROVE  Broadcast(p) \in [Threads -> PCs] /\ Race(p) \in [Threads -> PCs]
  BY DEF Broadcast, Race, PCs
<1> SUFFICES ASSUME TypeOK, [Next]_vars PROVE TypeOK'
  OBVIOUS
<1> USE DEF TypeOK
<1>1. CASE UNCHANGED vars
  BY <1>1 DEF vars
<1>2. ASSUME NEW t \in Threads, CallWait(t) \/ CallUnblock(t) PROVE TypeOK'
  BY <1>2 DEF CallWait, CallUnblock, PCs, Results
<1>3. ASSUME NEW t \in Threads, WaitDisabled(t) PROVE TypeOK'
  BY <1>3 DEF WaitDisabled, PCs, Results
<1>4. ASSUME NEW t \in Threads, WaitTrip(t) PROVE TypeOK'
  <2>1. [pc EXCEPT ![t] = "running"] \in [Threads -> PCs]
    BY DEF PCs
  <2>2. pc' \in [Threads -> PCs]
    BY <1>b, <1>4, <2>1 DEF WaitTrip
  <2> QED
    BY <1>4, <2>2 DEF WaitTrip, Results, NORMAL, KILL
<1>5. ASSUME NEW t \in Threads, WaitBlock(t) PROVE TypeOK'
  <2>1. [pc EXCEPT ![t] = "blocked"] \in [Threads -> PCs]
    BY DEF PCs
  <2> QED
    BY <1>a, <1>b, <1>5, <2>1 DEF WaitBlock
<1>6. ASSUME NEW t \in Threads, SpuriousWakeup(t) \/ WaitAgain(t) PROVE TypeOK'
  BY <1>6 DEF SpuriousWakeup, WaitAgain, PCs
<1>7. ASSUME NEW t \in Threads, Leave(t) PROVE TypeOK'
  <2>1. [pc EXCEPT ![t] = IF wakeup = KILL THEN "exited" ELSE "running"]
          \in [Threads -> PCs]
    BY DEF PCs
  <2> QED
    BY <1>a, <1>b, <1>7, <2>1 DEF Leave, CountOut, Results, NORMAL, KILL
<1>8. ASSUME NEW t \in Threads, Interrupt(t) PROVE TypeOK'
  BY <1>8 DEF Interrupt, PCs
<1>9. ASSUME NEW t \in Threads, UnlockedDecrement(t) PROVE TypeOK'
  <2>1. PICK to \in {"running", "exited"} : pc' = Race([pc EXCEPT ![t] = to])
    BY <1>9 DEF UnlockedDecrement
  <2>2. [pc EXCEPT ![t] = to] \in [Threads -> PCs]
    BY DEF PCs
  <2>3. pc' \in [Threads -> PCs]
    BY <1>b, <2>1, <2>2
  <2>4. arrivers_count' \in 0 .. MaxIndex
    BY <1>a, <1>9 DEF UnlockedDecrement
  <2>5. loaded' \in [Threads -> 0 .. MaxIndex]
    BY <1>9 DEF UnlockedDecrement
  <2> QED
    BY <1>9, <2>3, <2>4, <2>5 DEF UnlockedDecrement
<1>10. ASSUME NEW t \in Threads, UnblockAny(t) PROVE TypeOK'
  <2>1. PICK n \in Counts \cup {count}, d \in BOOLEAN, k \in BOOLEAN :
          Unblock(t, n, d, k)
    BY <1>10 DEF UnblockAny
  <2>2. [pc EXCEPT ![t] = "running"] \in [Threads -> PCs]
    BY DEF PCs
  <2>3. pc' \in [Threads -> PCs]
    BY <1>b, <2>1, <2>2 DEF Unblock
  <2> QED
    BY <2>1, <2>3 DEF Unblock, NORMAL, KILL
<1>11. ASSUME NEW t \in Threads, UnblockTypeError(t) PROVE TypeOK'
  BY <1>11 DEF UnblockTypeError, PCs
<1> QED
  BY <1>1, <1>2, <1>3, <1>4, <1>5, <1>6, <1>7, <1>8, <1>9, <1>10, <1>11
     DEF Next, Step

(* Every field, program counter and register has its type in every         *)
(* behaviour, those with interrupts and errors included.                   *)
THEOREM TypeCorrect == Spec => []TypeOK
  BY InitType, TypeStep, PTL DEF Spec

-----------------------------------------------------------------------------
(* Every arriver is a waiter.                                              *)
NoUnwinding == \A t \in Threads : pc[t] \notin {"decrementing", "raced"}

(* A decrement that nobody has disturbed yet starts from what is there.    *)
Fresh == \A t \in Threads : pc[t] = "decrementing" => loaded[t] = arrivers_count

(* What holds until a decrement clashes.                                   *)
CInv == TypeOK /\ (~clash => Fresh /\ ArriversExact)

(* The conjuncts need one another: the count is only good for deciding who *)
(* is the last one out because it is exact, it stays exact because nobody  *)
(* enters during a wakeup, and a wakeup ends because somebody is inside.   *)
Inv ==
  /\ CInv
  /\ clash => unwound
  /\ ~unwound => NoUnwinding
  /\ DrainHasThread
  /\ BelowCount
  /\ DisabledIsEmpty

(* The registered threads are a finite set whose size stays clear of the   *)
(* largest cl_index.                                                       *)
LEMMA RegisteredFacts ==
  /\ IsFiniteSet(Registered) /\ IsFiniteSet(Registered')
  /\ Cardinality(Registered) \in Nat
  /\ Cardinality(Registered) < MaxIndex
<1>1. Registered' \subseteq Threads
  BY DEF Registered, Waiters, Unwinding
<1>2. Registered \subseteq Threads
  BY DEF Registered, Waiters, Unwinding
<1>3. /\ IsFiniteSet(Registered')
      /\ /\ IsFiniteSet(Registered)
      /\ Cardinality(Registered) <= Cardinality(Threads)
  BY <1>1, <1>2, FS_Subset, ThreadsAssumption DEF ThreadsAssumption
<1>4. Cardinality(Registered) \in Nat /\ Cardinality(Threads) \in Nat
  BY <1>3, FS_CardinalityType, ThreadsAssumption DEF ThreadsAssumption
<1> QED
  BY <1>3, <1>4, IndexAssumption DEF IndexAssumption

(* A step changes the set of registered threads only by adding the thread  *)
(* that blocks or removing the one that leaves or has unwound; the other   *)
(* steps keep it.                                                          *)
LEMMA RegisteredSteps ==
  ASSUME TypeOK, NEW t \in Threads
  PROVE  /\ WaitBlock(t) => Registered' = Registered \cup {t} /\ t \notin Registered
         /\ Leave(t) \/ UnlockedDecrement(t) =>
              Registered' = Registered \ {t} /\ t \in Registered
         /\ (\/ CallWait(t) \/ CallUnblock(t) \/ WaitDisabled(t) \/ WaitTrip(t)
             \/ SpuriousWakeup(t) \/ WaitAgain(t) \/ UnblockAny(t)
             \/ UnblockTypeError(t) \/ Interrupt(t)) => Registered' = Registered
<1> USE DEF TypeOK, Registered, Waiters, Unwinding
<1>1. WaitBlock(t) => Registered' = Registered \cup {t} /\ t \notin Registered
  BY DEF WaitBlock, Enters, Race
<1>2. Leave(t) => Registered' = Registered \ {t} /\ t \in Registered
  BY DEF Leave, Race
<1>3. CallWait(t) \/ CallUnblock(t) \/ WaitDisabled(t) => Registered' = Registered
  BY DEF CallWait, CallUnblock, WaitDisabled
<1>4. WaitTrip(t) => Registered' = Registered
  BY DEF WaitTrip, Enters, Broadcast
<1>5. SpuriousWakeup(t) \/ WaitAgain(t) => Registered' = Registered
  BY DEF SpuriousWakeup, WaitAgain
<1>6. UnblockAny(t) => Registered' = Registered
  BY DEF UnblockAny, Unblock, Unblocks, Broadcast
<1>7. UnblockTypeError(t) => Registered' = Registered
  BY DEF UnblockTypeError, Unblocks
<1>8. UnlockedDecrement(t) => Registered' = Registered \ {t} /\ t \in Registered
  BY DEF UnlockedDecrement, Race
<1>9. Interrupt(t) => Registered' = Registered
  BY DEF Interrupt
<1> QED
  BY <1>1, <1>2, <1>3, <1>4, <1>5, <1>6, <1>7, <1>8, <1>9

(* A write of the count marks every decrement under way; what keeps the    *)
(* count keeps what the decrements have loaded.                            *)
LEMMA FreshStep == TypeOK /\ Fresh /\ [Next]_vars => Fresh'
<1> SUFFICES ASSUME TypeOK, Fresh, [Next]_vars PROVE Fresh'
  OBVIOUS
<1> USE DEF TypeOK, Fresh
<1>1. CASE UNCHANGED vars
  BY <1>1 DEF vars
<1>2. ASSUME NEW t \in Threads,
             \/ CallWait(t) \/ CallUnblock(t) \/ WaitDisabled(t)
             \/ SpuriousWakeup(t) \/ WaitAgain(t) \/ UnblockTypeError(t)
      PROVE  Fresh'
  BY <1>2 DEF CallWait, CallUnblock, WaitDisabled, SpuriousWakeup, WaitAgain,
     UnblockTypeError
<1>3. ASSUME NEW t \in Threads, WaitTrip(t) PROVE Fresh'
  BY <1>3 DEF WaitTrip, Broadcast
<1>4. ASSUME NEW t \in Threads, WaitBlock(t) \/ Leave(t) \/ UnlockedDecrement(t)
      PROVE  Fresh'
  BY <1>4 DEF WaitBlock, Leave, UnlockedDecrement, Race
<1>5. ASSUME NEW t \in Threads, Interrupt(t) PROVE Fresh'
  BY <1>5 DEF Interrupt
<1>6. ASSUME NEW t \in Threads, UnblockAny(t) PROVE Fresh'
  BY <1>6 DEF UnblockAny, Unblock, Broadcast
<1> QED
  BY <1>1, <1>2, <1>3, <1>4, <1>5, <1>6 DEF Next, Step

(* What a step that may count does to unwound, clash and the count.        *)
LEMMA ClashSteps ==
  ASSUME [Next]_vars
  PROVE  /\ clash => clash'
         /\ unwound => unwound'
         /\ ~unwound' => \A t \in Threads : ~Interrupt(t)
         /\ \A t \in Threads : UnlockedDecrement(t) /\ ~clash' =>
              pc[t] = "decrementing" /\ arrivers_count' = Dec(loaded[t])
<1>1. CASE UNCHANGED vars
  BY <1>1 DEF vars, Interrupt, UnlockedDecrement
<1>2. ASSUME NEW t \in Threads,
             \/ CallWait(t) \/ CallUnblock(t) \/ SpuriousWakeup(t) \/ UnblockTypeError(t)
             \/ WaitDisabled(t) \/ WaitTrip(t) \/ WaitBlock(t) \/ WaitAgain(t)
             \/ Leave(t) \/ UnblockAny(t) \/ Interrupt(t)
      PROVE  (clash => clash') /\ (unwound => unwound')
  BY <1>2 DEF CallWait, CallUnblock, SpuriousWakeup, UnblockTypeError, WaitDisabled,
     WaitTrip, WaitBlock, WaitAgain, Leave, UnblockAny, Unblock, Interrupt
<1>5. ASSUME NEW t \in Threads, UnlockedDecrement(t)
      PROVE  (clash => clash') /\ (unwound => unwound')
  BY <1>5, Zenon DEF UnlockedDecrement
<1>3. \A t \in Threads : Interrupt(t) => unwound'
  BY DEF Interrupt
<1>4. \A t \in Threads : UnlockedDecrement(t) /\ ~clash' =>
        pc[t] = "decrementing" /\ arrivers_count' = Dec(loaded[t])
  BY DEF UnlockedDecrement
<1> QED
  BY <1>1, <1>2, <1>3, <1>4, <1>5 DEF Next, Step

(* The steps that count a thread in or out do just that.                   *)
LEMMA CInvStep == CInv /\ [Next]_vars => CInv'
<1> SUFFICES ASSUME CInv, [Next]_vars, ~clash' PROVE CInv'
  BY TypeStep DEF CInv
<1>t. TypeOK /\ TypeOK' /\ Fresh /\ Fresh' /\ ArriversExact /\ ~clash
  BY TypeStep, FreshStep, ClashSteps DEF CInv
<1>r. /\ IsFiniteSet(Registered)
      /\ arrivers_count = Cardinality(Registered)
      /\ arrivers_count \in Nat
      /\ arrivers_count < MaxIndex
      /\ MaxIndex \in Nat
      /\ arrivers_count = 0 <=> Registered = {}
  BY <1>t, RegisteredFacts, FS_EmptySet, IndexAssumption
     DEF ArriversExact, TypeOK, IndexAssumption
<1> SUFFICES arrivers_count' = Cardinality(Registered')
  BY <1>t DEF CInv, ArriversExact
<1>1. CASE UNCHANGED vars
  BY <1>1, <1>r DEF vars, Registered, Waiters, Unwinding
<1>2. ASSUME NEW t \in Threads,
             \/ CallWait(t) \/ CallUnblock(t) \/ WaitDisabled(t) \/ WaitTrip(t)
             \/ SpuriousWakeup(t) \/ WaitAgain(t) \/ UnblockAny(t)
             \/ UnblockTypeError(t) \/ Interrupt(t)
      PROVE  arrivers_count' = Cardinality(Registered')
  <2>1. arrivers_count' = arrivers_count
    BY <1>2 DEF CallWait, CallUnblock, WaitDisabled, WaitTrip, SpuriousWakeup,
       WaitAgain, UnblockAny, Unblock, UnblockTypeError, Interrupt
  <2> QED
    BY <1>2, <1>t, <1>r, <2>1, RegisteredSteps
<1>3. ASSUME NEW t \in Threads, WaitBlock(t)
      PROVE  arrivers_count' = Cardinality(Registered')
  <2>1. Cardinality(Registered') = Cardinality(Registered) + 1
    BY <1>3, <1>t, <1>r, RegisteredSteps, FS_AddElement
  <2> QED
    BY <1>3, <1>r, <2>1 DEF WaitBlock, Inc
<1>4. ASSUME NEW t \in Threads, Leave(t) \/ UnlockedDecrement(t)
      PROVE  arrivers_count' = Cardinality(Registered')
  <2>1. Registered' = Registered \ {t} /\ t \in Registered
    BY <1>4, <1>t, RegisteredSteps
  <2>2. Cardinality(Registered') = Cardinality(Registered) - 1
    BY <2>1, <1>r, FS_RemoveElement
  <2>3. arrivers_count' = Dec(arrivers_count)
    BY <1>4, <1>t, ClashSteps DEF Leave, CountOut, Fresh
  <2> QED
    BY <1>r, <2>1, <2>2, <2>3 DEF Dec
<1> QED
  BY <1>1, <1>2, <1>3, <1>4 DEF Next, Step

LEMMA InvInit == Init => Inv
<1> SUFFICES ASSUME Init PROVE Inv
  OBVIOUS
<1>1. TypeOK /\ (~unwound => NoUnwinding) /\ Fresh
  BY InitType DEF Init, NoUnwinding, Fresh
<1>2. Registered = {}
  BY DEF Init, Registered, Waiters, Unwinding
<1>3. Cardinality(Registered) = 0
  BY <1>2, FS_EmptySet
<1> QED
  BY <1>1, <1>2, <1>3
     DEF Init, Inv, CInv, ArriversExact, DrainHasThread,
         BelowCount, DisabledIsEmpty

LEMMA NoUnwindingStep ==
  ASSUME TypeOK, NoUnwinding, [Next]_vars, ~unwound'
  PROVE  NoUnwinding' /\ \A t \in Threads : ~UnlockedDecrement(t) /\ ~Interrupt(t)
<1> USE DEF TypeOK, NoUnwinding
<1>0. \A t \in Threads : ~UnlockedDecrement(t) /\ ~Interrupt(t)
  BY ClashSteps DEF UnlockedDecrement
<1>1. CASE UNCHANGED vars
  BY <1>0, <1>1 DEF vars
<1>2. ASSUME NEW t \in Threads,
             \/ CallWait(t) \/ CallUnblock(t) \/ WaitDisabled(t)
             \/ SpuriousWakeup(t) \/ WaitAgain(t) \/ UnblockTypeError(t)
      PROVE  NoUnwinding'
  BY <1>2 DEF CallWait, CallUnblock, WaitDisabled, SpuriousWakeup, WaitAgain,
     UnblockTypeError
<1>3. ASSUME NEW t \in Threads, WaitTrip(t) \/ UnblockAny(t) PROVE NoUnwinding'
  BY <1>3 DEF WaitTrip, UnblockAny, Unblock, Broadcast
<1>4. ASSUME NEW t \in Threads, WaitBlock(t) \/ Leave(t) PROVE NoUnwinding'
  BY <1>4 DEF WaitBlock, Leave, Race
<1> QED
  BY <1>0, <1>1, <1>2, <1>3, <1>4 DEF Next, Step

LEMMA InvStep == Inv /\ [Next]_vars => Inv'
<1> SUFFICES ASSUME Inv, [Next]_vars PROVE Inv'
  OBVIOUS
<1>c. CInv' /\ (clash' => unwound')
  <2>1. CInv'
    BY CInvStep DEF Inv
  <2>2. ASSUME clash' PROVE unwound'
    <3>1. CASE UNCHANGED vars
      BY <2>2, <3>1 DEF vars, Inv
    <3>2. CASE clash
      BY <3>2, ClashSteps DEF Inv
    <3>3. ASSUME ~clash, NEW t \in Threads, UnlockedDecrement(t) PROVE unwound'
      BY <3>3, ClashSteps DEF Inv, NoUnwinding, UnlockedDecrement
    <3> QED
      BY <2>2, <3>1, <3>2, <3>3 DEF Next, Step, CallWait, CallUnblock, SpuriousWakeup,
         UnblockTypeError, WaitDisabled, WaitTrip, WaitBlock, WaitAgain, Leave,
         UnblockAny, Unblock, Interrupt
  <2> QED
    BY <2>1, <2>2
<1> SUFFICES ASSUME ~unwound' PROVE Inv'
  BY <1>c DEF Inv, DrainHasThread, BelowCount, DisabledIsEmpty
<1>t. TypeOK /\ TypeOK' /\ ~unwound /\ ~clash /\ NoUnwinding /\ ArriversExact
  BY TypeStep, ClashSteps DEF Inv, CInv
<1>u. NoUnwinding' /\ \A t \in Threads : ~UnlockedDecrement(t) /\ ~Interrupt(t)
  BY <1>t, NoUnwindingStep
<1>e. ~clash' /\ arrivers_count' = Cardinality(Registered') /\ IsFiniteSet(Registered')
  <2>1. ~clash' /\ ArriversExact'
    BY <1>c DEF CInv
  <2>2. arrivers_count' = Cardinality(Registered')
    BY <2>1 DEF ArriversExact
  <2>3. IsFiniteSet(Registered')
    BY RegisteredFacts
  <2> QED
    BY <2>1, <2>2, <2>3
<1>r. /\ IsFiniteSet(Registered)
      /\ arrivers_count = Cardinality(Registered)
      /\ arrivers_count \in Nat
      /\ arrivers_count < MaxIndex
      /\ MaxIndex \in Nat
      /\ count \in Nat
      /\ count' \in Nat
      /\ arrivers_count = 0 <=> Registered = {}
      /\ arrivers_count' = 0 <=> Registered' = {}
  BY <1>t, <1>e, RegisteredFacts, FS_EmptySet, IndexAssumption
     DEF ArriversExact, TypeOK, IndexAssumption
<1> SUFFICES DrainHasThread' /\ BelowCount' /\ DisabledIsEmpty'
  BY <1>c, <1>u DEF Inv
<1> USE DEF DrainHasThread, BelowCount, DisabledIsEmpty
<1>1. CASE UNCHANGED vars
  BY <1>1, <1>t DEF vars, Inv, Registered, Waiters, Unwinding
<1> DEFINE Same(t) == \/ CallWait(t) \/ CallUnblock(t) \/ WaitDisabled(t)
                      \/ SpuriousWakeup(t) \/ UnblockTypeError(t) \/ WaitAgain(t)
(* Steps that touch neither the fields nor the registered threads.         *)
<1>2. ASSUME NEW t \in Threads, Same(t)
      PROVE  DrainHasThread' /\ BelowCount' /\ DisabledIsEmpty'
  <2>1. Registered' = Registered
    BY <1>2, <1>t, RegisteredSteps
  <2>2. UNCHANGED <<count, disabled, wakeup, arrivers_count>>
    BY <1>2 DEF CallWait, CallUnblock, WaitDisabled, SpuriousWakeup, UnblockTypeError,
       WaitAgain
  <2> QED
    BY <1>t, <2>1, <2>2 DEF Inv
<1>3. ASSUME NEW t \in Threads, WaitTrip(t)
      PROVE  DrainHasThread' /\ BelowCount' /\ DisabledIsEmpty'
  <2>1. Registered' = Registered /\ UNCHANGED <<arrivers_count, disabled, count>>
    BY <1>3, <1>t, RegisteredSteps DEF WaitTrip
  <2> QED
    BY <1>3, <1>t, <1>r, <2>1 DEF WaitTrip, Enters, Arrivers, NORMAL, Inv
<1>4. ASSUME NEW t \in Threads, WaitBlock(t)
      PROVE  DrainHasThread' /\ BelowCount' /\ DisabledIsEmpty'
  <2>1. arrivers_count' = arrivers_count + 1 /\ arrivers_count + 1 # count
    BY <1>4, <1>r DEF WaitBlock, Inc, Saturated
  <2>2. wakeup' = 0 /\ ~disabled' /\ count' = count
    BY <1>4 DEF WaitBlock, Enters
  <2> QED
    BY <1>4, <1>t, <1>r, <2>1, <2>2 DEF Inv, WaitBlock, Enters
<1>5. ASSUME NEW t \in Threads, Leave(t)
      PROVE  DrainHasThread' /\ BelowCount' /\ DisabledIsEmpty'
  <2>1. /\ wakeup' = 0 => arrivers_count' = 0
        /\ wakeup' # 0 => arrivers_count' # 0
    BY <1>5 DEF Leave, LastOut, CountOut
  <2> QED
    BY <1>r, <2>1
<1>6. ASSUME NEW t \in Threads, UnblockAny(t)
      PROVE  DrainHasThread' /\ BelowCount' /\ DisabledIsEmpty'
  <2>1. PICK n \in Counts \cup {count}, d \in BOOLEAN, k \in BOOLEAN :
          Unblock(t, n, d, k)
    BY <1>6 DEF UnblockAny
  <2>2. /\ arrivers_count' = arrivers_count
        /\ wakeup' = 0 => arrivers_count = 0
        /\ wakeup' # 0 => arrivers_count # 0
    BY <2>1, <1>r DEF Unblock, Unblocks, Arrivers, NORMAL, KILL
  <2> QED
    BY <1>r, <2>2
<1> QED
  BY <1>1, <1>2, <1>3, <1>4, <1>5, <1>6, <1>u DEF Next, Step

(* arrivers_count is the number of threads inside, whatever mix of waits,  *)
(* trips, unblocks, count changes and unwound waits came before, until a   *)
(* decrement without the mutex clashes with another write.                 *)
THEOREM ArriversExactAlways == Spec => []ArriversExact
<1>1. Init => CInv
  BY InvInit DEF Inv
<1>2. CInv => ArriversExact
  BY DEF CInv, ArriversExact
<1> QED
  BY <1>1, <1>2, CInvStep, PTL DEF Spec

(* Who resets wakeup is the last of those it was for, also after waits     *)
(* were unwound, until then.                                               *)
THEOREM NobodyLeftBehindAlways == Spec => NobodyLeftBehind
<1> DEFINE Together == wakeup # 0 /\ wakeup' = 0 /\ ~clash => Registered' = {}
<1>1. Init => CInv
  BY InvInit DEF Inv
<1>2. CInv /\ [Next]_vars => CInv' /\ [Together]_vars
  <2> SUFFICES ASSUME CInv, [Next]_vars, wakeup # 0, wakeup' = 0, ~clash
               PROVE  CInv' /\ Registered' = {}
    BY CInvStep
  <2>1. CInv' /\ TypeOK
    BY CInvStep DEF CInv
  <2>2. PICK t \in Threads : Leave(t)
    BY DEF Next, Step, vars, CallWait, CallUnblock, WaitDisabled, WaitTrip, WaitBlock,
       SpuriousWakeup, WaitAgain, UnblockAny, Unblock, Unblocks, UnblockTypeError,
       Interrupt, UnlockedDecrement, Enters
  <2>3. arrivers_count' = 0 /\ ~clash'
    BY <2>2 DEF Leave, LastOut, CountOut
  <2>4. IsFiniteSet(Registered') /\ Cardinality(Registered') = 0
    BY <2>1, <2>3, RegisteredFacts DEF CInv, ArriversExact
  <2> QED
    BY <2>1, <2>4, FS_EmptySet
<1> QED
  BY <1>1, <1>2, PTL DEF Spec, NobodyLeftBehind

(* A barrier that wakes threads up has one that ends the waking up: it     *)
(* never refuses arrivals with nobody left to clear wakeup.                *)
THEOREM DrainHasThreadAlways == Spec => []DrainHasThread
<1>1. Inv => DrainHasThread
  BY DEF Inv
<1> QED
  BY <1>1, InvInit, InvStep, PTL DEF Spec

(* An idle barrier is below its count and a disabled one is empty: the     *)
(* thread that completes a round, and the call that disables the barrier,  *)
(* leave nobody asleep.                                                    *)
THEOREM IdleBarrierIsOpen == Spec => [](BelowCount /\ DisabledIsEmpty)
<1>1. Inv => BelowCount /\ DisabledIsEmpty
  BY DEF Inv
<1> QED
  BY <1>1, InvInit, InvStep, PTL DEF Spec

-----------------------------------------------------------------------------
(* How the fields show the two sets of the round.                          *)
Waiting == IF wakeup = 0 THEN Registered ELSE {}
Leaving == IF wakeup = 0 THEN {} ELSE Registered

(* The instance brings its own copy of FiniteSets.                         *)
LEMMA SameCardinality == ASSUME NEW S PROVE Rounds!Cardinality(S) = Cardinality(S)
  BY DEF Rounds!Cardinality, Cardinality

LEMMA RoundsStep ==
  ASSUME Inv, [Next]_vars
  PROVE  [Rounds!Next]_(Rounds!avars)
<1> SUFFICES ASSUME ~unwound' PROVE [Rounds!Next]_(Rounds!avars)
  BY DEF Rounds!Next
<1>t. TypeOK /\ TypeOK' /\ ~unwound /\ ~clash /\ NoUnwinding
  BY TypeStep, ClashSteps DEF Inv, CInv
<1>i. Inv' /\ ~clash'
  BY InvStep DEF Inv
<1>r. /\ IsFiniteSet(Registered)
      /\ arrivers_count = Cardinality(Registered)
      /\ arrivers_count \in Nat
      /\ arrivers_count < MaxIndex
      /\ arrivers_count = 0 <=> Registered = {}
      /\ count \in Nat
      /\ MaxIndex \in Nat
      /\ wakeup # 0 => Registered # {}
  BY <1>t, RegisteredFacts, FS_EmptySet, IndexAssumption
     DEF Inv, CInv, ArriversExact, TypeOK, IndexAssumption, DrainHasThread
<1>1. CASE UNCHANGED vars
  BY <1>1 DEF vars, Rounds!avars, Rounds!rvars, Registered, Waiters, Unwinding
<1>2. ASSUME NEW t \in Threads,
             SpuriousWakeup(t) \/ WaitAgain(t) \/ UnblockTypeError(t)
      PROVE  UNCHANGED Rounds!avars
  <2>1. Registered' = Registered
    BY <1>2, <1>t, RegisteredSteps
  <2> QED
    BY <1>2, <1>t, <2>1 DEF Rounds!avars, Rounds!rvars, SpuriousWakeup,
       WaitAgain, UnblockTypeError
<1>c. ASSUME NEW t \in Threads, CallWait(t) \/ CallUnblock(t) PROVE Rounds!Call(t)
  <2>1. Registered' = Registered /\ t \notin Registered
    BY <1>c, <1>t, RegisteredSteps
       DEF CallWait, CallUnblock, Registered, Waiters, Unwinding
  <2> QED
    BY <1>c, <2>1 DEF Rounds!Call, Rounds!Outside, CallWait, CallUnblock
<1>3. ASSUME NEW t \in Threads, WaitDisabled(t) PROVE Rounds!PassDisabled(t)
  <2>1. Registered' = Registered /\ t \notin Registered
    BY <1>3, <1>t, RegisteredSteps DEF WaitDisabled, Registered, Waiters, Unwinding
  <2> QED
    BY <1>3, <2>1 DEF Rounds!PassDisabled, Rounds!Outside, WaitDisabled
<1>4. ASSUME NEW t \in Threads, WaitTrip(t) PROVE Rounds!Trip(t)
  <2>1. Registered' = Registered /\ t \notin Registered
    BY <1>4, <1>t, RegisteredSteps
       DEF WaitTrip, Enters, Registered, Waiters, Unwinding
  <2>2. wakeup = 0 /\ ~disabled /\ Cardinality(Registered) + 1 = count
    BY <1>4, <1>r DEF WaitTrip, Enters, Saturated, Inc
  <2>3. /\ wakeup' # KILL
        /\ wakeup' = 0 => Registered = {}
    BY <1>4, <1>r, <2>2 DEF WaitTrip, Arrivers, NORMAL, KILL
  <2>4. /\ Waiting = Registered /\ Leaving = {}
        /\ Waiting' = {} /\ Leaving' = Registered
    BY <2>1, <2>2, <2>3 DEF Waiting, Leaving
  <2>5. /\ t \notin Waiting \cup Leaving
        /\ Rounds!Cardinality(Waiting) + 1 = count
        /\ Leaving = {} /\ Leaving' = Waiting /\ Waiting' = {}
    BY <2>1, <2>2, <2>4, SameCardinality
  <2>6. (wakeup' = KILL) = FALSE
    BY <2>3
  <2> QED
    BY <1>4, <2>2, <2>5, <2>6
       DEF Rounds!Trip, Rounds!Outside, WaitTrip, Waiting, Leaving
<1>5. ASSUME NEW t \in Threads, WaitBlock(t) PROVE Rounds!Join(t)
  <2>1. Registered' = Registered \cup {t} /\ t \notin Registered
    BY <1>5, <1>t, RegisteredSteps
  <2>2. wakeup = 0 /\ ~disabled /\ Cardinality(Registered) + 1 # count
    BY <1>5, <1>r DEF WaitBlock, Enters, Saturated, Inc
  <2>3. /\ Waiting = Registered /\ Leaving = {}
        /\ Waiting' = Registered' /\ Leaving' = {}
    BY <1>5, <2>2 DEF Waiting, Leaving, WaitBlock
  <2>4. /\ t \notin Waiting \cup Leaving
        /\ Rounds!Cardinality(Waiting) + 1 # count
        /\ Leaving = {} /\ Leaving' = Leaving /\ Waiting' = Waiting \cup {t}
    BY <2>1, <2>2, <2>3, SameCardinality
  <2> QED
    BY <1>5, <2>2, <2>4
       DEF Rounds!Join, Rounds!Outside, WaitBlock, Waiting, Leaving
<1>6. ASSUME NEW t \in Threads, Leave(t) PROVE Rounds!Leave(t)
  <2>1. Registered' = Registered \ {t} /\ t \in Registered
    BY <1>6, <1>t, RegisteredSteps
  <2>2. wakeup # 0 /\ wakeup' \in {0, wakeup}
    BY <1>6 DEF Leave
  <2>3. wakeup' = 0 <=> Registered' = {}
    <3>1. /\ arrivers_count' = 0 <=> Registered' = {}
          /\ arrivers_count' = Dec(arrivers_count)
      BY <1>6, <1>i, <1>r, <1>t, FS_EmptySet, RegisteredFacts, <2>1, FS_RemoveElement
         DEF Inv, CInv, ArriversExact, Leave, CountOut
    <3> QED
      BY <1>6, <2>2, <3>1 DEF Leave, LastOut
  <2> QED
    BY <1>6, <2>1, <2>2, <2>3 DEF Rounds!Leave, Leave, KILL
<1>7. ASSUME NEW t \in Threads, NEW n \in Counts \cup {count},
             NEW d \in BOOLEAN, NEW k \in BOOLEAN, Unblock(t, n, d, k)
      PROVE  Rounds!Unblock(n, d, k)
  <2>1. Registered' = Registered
    BY <1>7, <1>t, RegisteredSteps DEF UnblockAny
  <2>2. wakeup = 0
    BY <1>7 DEF Unblock, Unblocks
  <2>3. /\ wakeup' = 0 <=> Registered = {}
        /\ wakeup' = KILL <=> k /\ Registered # {}
    BY <1>7, <1>r, <2>2 DEF Unblock, Arrivers, NORMAL, KILL
  <2> QED
    BY <1>7, <2>1, <2>2, <2>3 DEF Rounds!Unblock, Unblock
<1>8. ASSUME NEW t \in Threads PROVE ~UnlockedDecrement(t) /\ ~Interrupt(t)
  BY <1>t, NoUnwindingStep
<1>9. ASSUME NEW t \in Threads, UnblockAny(t) PROVE Rounds!Promised
  <2>1. PICK n \in Counts \cup {count}, d \in BOOLEAN, k \in BOOLEAN :
          Unblock(t, n, d, k)
    BY <1>9 DEF UnblockAny
  <2>2. Rounds!Unblock(n, d, k)
    BY <1>7, <2>1
  <2> QED
    BY <2>2 DEF Rounds!Promised
<1> QED
  BY <1>1, <1>2, <1>c, <1>3, <1>4, <1>5, <1>6, <1>8, <1>9, <1>t
     DEF Next, Step, Rounds!Next, Rounds!Promised

(* The counter, the flag and the condition variable of barrier.d implement *)
(* the rounds of AbstractBarrier.                                          *)
THEOREM BarrierImplementsRounds == Spec => ImplementsRounds
<1>1. Init => Rounds!Init
  BY DEF Init, Rounds!Init, Registered, Waiters, Unwinding, KILL
<1>2. Init => Inv
  BY InvInit
<1>3. Inv /\ [Next]_vars => Inv' /\ [Rounds!Next]_(Rounds!avars)
  BY InvStep, RoundsStep
<1> QED
  BY <1>1, <1>2, <1>3, PTL DEF Spec, ImplementsRounds, Rounds!Spec
=============================================================================
