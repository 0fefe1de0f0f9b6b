--------------------------- MODULE Semaphore_proofs ---------------------------
(***************************************************************************)
(* Proofs about Semaphore: its types, that units are conserved, that       *)
(* wait_count is exact until an interrupt unwinds a wait, and that of      *)
(* waits for one unit none sleeps while a unit has no awakened taker.      *)
(***************************************************************************)
EXTENDS Semaphore, FiniteSetTheorems, TLAPS

(* Until a wait is unwound every write of wait_count is made with the      *)
(* mutex, and it is the number of those who wait.                          *)
Counted ==
  /\ \A t \in Threads : pc[t] \notin {"decrementing", "raced"}
  /\ wait_count = Cardinality(Registered)

(* Who waits, waits for the one unit that there was not.                   *)
Waiting == At({"blocked", "woken", "expired"})
Served ==
  /\ \A t \in Waiting : need[t] = 1
  /\ Blocked # {} => Cardinality(At({"woken"})) >= counter

(* The types of everything but the Boolean-valued, and of that.            *)
Numbers ==
  /\ counter \in Nat /\ wait_count \in Int
  /\ mutex \in Threads \cup {NoThread}
  /\ pc \in [Threads -> PCs]
  /\ need \in [Threads -> Requests \cup {0}]
  /\ loaded \in [Threads -> Int]
  /\ made \in Nat /\ given \in 0 .. MaxGiven /\ taken \in Nat
Flags ==
  /\ timed \in [Threads -> BOOLEAN]
  /\ unwound \in BOOLEAN /\ mixed \in BOOLEAN

IInv ==
  /\ TypeOK
  /\ UnitsConserved
  /\ ~unwound => Counted
  /\ ~unwound /\ ~mixed => Served

USE ThreadsAssumption, CountsAssumption, OptionsAssumption
DEF ThreadsAssumption, CountsAssumption, OptionsAssumption

(* Threads at some places can be counted, before and after a step.         *)
LEMMA FinitePlaces ==
  ASSUME NEW S
  PROVE  /\ IsFiniteSet(At(S)) /\ Cardinality(At(S)) \in Nat
         /\ IsFiniteSet(At(S)') /\ Cardinality(At(S)') \in Nat
<1>1. At(S) \subseteq Threads /\ At(S)' \subseteq Threads
  BY DEF At
<1> QED
  BY <1>1, FS_Subset, FS_CardinalityType

(* One thread more or less at some places.                                 *)
LEMMA OneMore ==
  ASSUME NEW S, NEW t \in Threads, t \notin At(S), At(S)' = At(S) \cup {t}
  PROVE  Cardinality(At(S)') = Cardinality(At(S)) + 1
BY FinitePlaces, FS_AddElement

LEMMA OneLess ==
  ASSUME NEW S, NEW t \in At(S), At(S)' = At(S) \ {t}
  PROVE  Cardinality(At(S)') = Cardinality(At(S)) - 1
BY FinitePlaces, FS_RemoveElement

LEMMA Types == TypeOK <=> Numbers /\ Flags
BY Zenon DEF TypeOK, Numbers, Flags

LEMMA Initial == Init => IInv
<1> SUFFICES ASSUME Init
             PROVE  IInv
  OBVIOUS
<1>1. Numbers
  BY DEF Init, Numbers, PCs
<1>2. Flags
  BY Zenon DEF Init, Flags
<1>3. UnitsConserved
  BY <1>1 DEF Init, UnitsConserved, Numbers
<1>4. Registered = {} /\ Waiting = {} /\ Blocked = {}
  BY DEF Init, Registered, Waiting, Blocked, At
<1>5. Cardinality(Registered) = 0
  BY <1>4, FS_EmptySet, Zenon
<1>6. Counted
  BY <1>5 DEF Init, Counted
<1>7. Served
  BY <1>4 DEF Served
<1> QED
  BY <1>1, <1>2, <1>3, <1>6, <1>7, Types DEF IInv

-----------------------------------------------------------------------------
(* A race changes no place but that of an unlocked decrement.              *)
LEMMA RaceType ==
  ASSUME NEW p \in [Threads -> PCs]
  PROVE  Race(p) \in [Threads -> PCs]
BY DEF Race, PCs

LEMMA TakeTypes ==
  ASSUME Numbers, UnitsConserved, NEW n \in Nat, Enough(n), Take(n),
         UNCHANGED <<made, given>>
  PROVE  counter' \in Nat /\ taken' \in Nat /\ UnitsConserved'
BY DEF Numbers, UnitsConserved, Enough, Take

LEMMA NeedsAreNumbers ==
  ASSUME Numbers, NEW t \in Threads
  PROVE  need[t] \in Nat
<1>1. need[t] \in Requests \cup {0}
  BY DEF Numbers
<1>2. \A n \in Requests : n \in Nat
  OBVIOUS
<1> QED
  BY ONLY <1>1, <1>2

LEMMA FlagsStep ==
  ASSUME Flags, [Next]_vars
  PROVE  Flags'
<1>1. ASSUME NEW t \in Threads, NEW n \in Requests, NEW timeout \in Timeouts,
             WaitBlock(t, n, timeout)
      PROVE  Flags'
  BY <1>1 DEF WaitBlock, Flags
<1>2. ASSUME NEW t \in Threads, WaitEnd(t) \/ Interrupt(t)
      PROVE  Flags'
  BY <1>2 DEF WaitEnd, Interrupt, Flags
<1>3. ASSUME UNCHANGED <<timed, unwound, mixed>>
      PROVE  Flags'
  BY <1>3 DEF Flags
<1> QED
  BY <1>1, <1>2, <1>3
  DEF Next, Call, vars, Signal, WaitAtOnce, WaitRefused, WaitTypeError, WaitAgain,
      UnlockedDecrement, SpuriousWakeup, Expire

(* Types and units, one operation after the other.                         *)
LEMMA NumbersStep ==
  ASSUME Numbers, UnitsConserved, [Next]_vars
  PROVE  Numbers' /\ UnitsConserved'
<1>1. ASSUME NEW t \in Threads, NEW n \in Signals, Signal(t, n)
      PROVE  Numbers' /\ UnitsConserved'
  <2>1. PICK W \in WokenBy(n) : pc' = Wake(pc, W)
    BY <1>1 DEF Signal
  <2>2. pc' \in [Threads -> PCs]
    BY <2>1 DEF Wake, Numbers, PCs
  <2>3. Numbers'
    BY <1>1, <2>2 DEF Signal, Numbers
  <2> QED
    BY <1>1, <2>3 DEF Signal, Numbers, UnitsConserved
<1>2. ASSUME NEW t \in Threads, NEW n \in Requests, WaitAtOnce(t, n)
      PROVE  Numbers' /\ UnitsConserved'
  <2>1. counter' \in Nat /\ taken' \in Nat /\ UnitsConserved'
    BY <1>2, TakeTypes DEF WaitAtOnce
  <2> QED
    BY <1>2, <2>1 DEF WaitAtOnce, Numbers
<1>3. ASSUME NEW t \in Threads, NEW n \in Requests, WaitRefused(t, n) \/ WaitTypeError(t, n)
      PROVE  Numbers' /\ UnitsConserved'
  BY <1>3 DEF WaitRefused, WaitTypeError, Numbers, UnitsConserved, PCs
<1>4. ASSUME NEW t \in Threads, NEW n \in Requests, NEW timeout \in Timeouts,
             WaitBlock(t, n, timeout)
      PROVE  Numbers' /\ UnitsConserved'
  <2>1. [pc EXCEPT ![t] = "blocked"] \in [Threads -> PCs]
    BY DEF Numbers, PCs
  <2>2. pc' \in [Threads -> PCs]
    BY <1>4, <2>1, RaceType DEF WaitBlock
  <2>3. need' \in [Threads -> Requests \cup {0}] /\ wait_count' \in Int
    BY <1>4 DEF WaitBlock, Numbers
  <2>4. /\ mutex' = NoThread
        /\ UNCHANGED <<counter, loaded, made, given, taken>>
    BY <1>4 DEF WaitBlock
  <2> QED
    BY <2>2, <2>3, <2>4 DEF Numbers, UnitsConserved
<1>5. ASSUME NEW t \in Threads, WaitAgain(t) \/ SpuriousWakeup(t) \/ Expire(t)
      PROVE  Numbers' /\ UnitsConserved'
  BY <1>5 DEF WaitAgain, SpuriousWakeup, Expire, Numbers, UnitsConserved, PCs
<1>6. ASSUME NEW t \in Threads, WaitEnd(t)
      PROVE  Numbers' /\ UnitsConserved'
  <2>1. counter' \in Nat /\ taken' \in Nat /\ UnitsConserved'
    <3>1. CASE Enough(need[t])
      BY <1>6, <3>1, TakeTypes, NeedsAreNumbers DEF WaitEnd
    <3>2. CASE ~Enough(need[t])
      BY <1>6, <3>2 DEF WaitEnd, Numbers, UnitsConserved
    <3> QED
      BY <3>1, <3>2
  <2>2. [pc EXCEPT ![t] = "running"] \in [Threads -> PCs]
    BY DEF Numbers, PCs
  <2>3. pc' \in [Threads -> PCs]
    BY <1>6, <2>2, RaceType DEF WaitEnd
  <2>4. need' \in [Threads -> Requests \cup {0}] /\ wait_count' \in Int
    BY <1>6 DEF WaitEnd, CountOut, Numbers
  <2>5. UNCHANGED <<mutex, loaded, made, given>>
    BY <1>6 DEF WaitEnd
  <2> QED
    BY <2>1, <2>3, <2>4, <2>5 DEF Numbers
<1>7. ASSUME NEW t \in Threads, Interrupt(t)
      PROVE  Numbers' /\ UnitsConserved'
  BY <1>7 DEF Interrupt, Numbers, UnitsConserved, PCs
<1>8. ASSUME NEW t \in Threads, UnlockedDecrement(t)
      PROVE  Numbers' /\ UnitsConserved'
  <2>1. PICK to \in {"running", "exited"} : pc' = Race([pc EXCEPT ![t] = to])
    BY <1>8 DEF UnlockedDecrement
  <2>2. [pc EXCEPT ![t] = to] \in [Threads -> PCs]
    BY DEF Numbers, PCs
  <2>3. pc' \in [Threads -> PCs]
    BY <2>1, <2>2, RaceType
  <2>4. wait_count' \in Int /\ loaded' \in [Threads -> Int]
    BY <1>8 DEF UnlockedDecrement, Numbers
  <2>5. UNCHANGED <<counter, mutex, need, made, given, taken>>
    BY <1>8 DEF UnlockedDecrement
  <2> QED
    BY <2>3, <2>4, <2>5 DEF Numbers, UnitsConserved
<1>9. CASE UNCHANGED vars
  BY <1>9 DEF vars, Numbers, UnitsConserved
<1> QED
  BY <1>1, <1>2, <1>3, <1>4, <1>5, <1>6, <1>7, <1>8, <1>9 DEF Next, Call

-----------------------------------------------------------------------------
(* While no wait is unwound, these are the steps that there are.  What one *)
(* thread does moves no other, but for those that a signal wakes.          *)
Quiet(t) ==
  \/ \E n \in Requests : WaitAtOnce(t, n) \/ WaitRefused(t, n) \/ WaitTypeError(t, n)
  \/ WaitAgain(t) \/ SpuriousWakeup(t) \/ Expire(t)

LEMMA StepsAre ==
  ASSUME Next, ~unwound', ~unwound => Counted
  PROVE  /\ ~unwound
         /\ \E t \in Threads :
              \/ \E n \in Signals : Signal(t, n)
              \/ \E n \in Requests, timeout \in Timeouts : WaitBlock(t, n, timeout)
              \/ WaitEnd(t) \/ Quiet(t)
<1>1. PICK t \in Threads :
        \/ Call(t)
        \/ WaitAgain(t) \/ WaitEnd(t) \/ UnlockedDecrement(t)
        \/ SpuriousWakeup(t) \/ Expire(t) \/ Interrupt(t)
  BY DEF Next
<1>2. ~Interrupt(t)
  BY DEF Interrupt
<1>3. ~unwound
  BY <1>1, <1>2
  DEF Call, Signal, WaitAtOnce, WaitRefused, WaitBlock, WaitTypeError, WaitAgain, WaitEnd,
      UnlockedDecrement, SpuriousWakeup, Expire
<1>4. ~UnlockedDecrement(t)
  BY <1>3 DEF UnlockedDecrement, Counted
<1> QED
  BY <1>1, <1>2, <1>3, <1>4 DEF Call, Quiet

LEMMA NoRace ==
  ASSUME Numbers, Counted, NEW t \in Threads, NEW to,
         to # "decrementing", pc' = Race([pc EXCEPT ![t] = to])
  PROVE  pc' = [pc EXCEPT ![t] = to]
BY DEF Race, Numbers, Counted

(* Who is woken, is no longer blocked and waits still.                     *)
LEMMA Woken ==
  ASSUME Numbers, NEW t \in Threads, NEW n \in Nat, pc[t] = "running",
         NEW W \in WokenBy(n), pc' = Wake(pc, W)
  PROVE  /\ W \subseteq Blocked
         /\ Registered' = Registered
         /\ Waiting' = Waiting
         /\ Blocked' = Blocked \ W
         /\ At({"woken"})' = At({"woken"}) \cup W
         /\ At({"woken"}) \cap W = {}
         /\ Blocked' # {} => Cardinality(W) = n
<1>1. W \subseteq Blocked /\ (Cardinality(W) = n \/ W = Blocked)
  BY DEF WokenBy
<1>2. \A u \in W : u \in Threads /\ pc[u] = "blocked"
  BY <1>1 DEF Blocked, At
<1>3. \A u \in Threads : pc'[u] = IF u \in W THEN "woken" ELSE pc[u]
  BY DEF Wake
<1> QED
  BY <1>1, <1>2, <1>3 DEF Registered, Waiting, Blocked, At

LEMMA QuietPlaces ==
  ASSUME Numbers, NEW t \in Threads, Quiet(t)
  PROVE  /\ Registered' = Registered
         /\ Waiting' = Waiting
         /\ wait_count' = wait_count
         /\ need' = need
         /\ \A u \in Threads : pc'[u] \in {"decrementing", "raced"} => pc'[u] = pc[u]
<1>1. CASE \E n \in Requests : WaitAtOnce(t, n) \/ WaitRefused(t, n)
  BY <1>1 DEF WaitAtOnce, WaitRefused, Registered, Waiting, At
<1>2. CASE \E n \in Requests : WaitTypeError(t, n)
  BY <1>2 DEF WaitTypeError, Registered, Waiting, At, Numbers
<1>3. CASE WaitAgain(t) \/ SpuriousWakeup(t) \/ Expire(t)
  BY <1>3 DEF WaitAgain, SpuriousWakeup, Expire, Registered, Waiting, At, Numbers
<1> QED
  BY <1>1, <1>2, <1>3 DEF Quiet

LEMMA CountedStep ==
  ASSUME IInv, Next, ~unwound'
  PROVE  Counted'
<1>0. Numbers /\ Counted /\ ~unwound
  BY StepsAre, Types DEF IInv
<1>1. PICK t \in Threads :
        \/ \E n \in Signals : Signal(t, n)
        \/ \E n \in Requests, timeout \in Timeouts : WaitBlock(t, n, timeout)
        \/ WaitEnd(t) \/ Quiet(t)
  BY <1>0, StepsAre
<1>2. ASSUME NEW n \in Signals, Signal(t, n)
      PROVE  Counted'
  <2>1. PICK W \in WokenBy(n) : pc' = Wake(pc, W)
    BY <1>2 DEF Signal
  <2>2. wait_count' = wait_count /\ Registered' = Registered
    BY <1>0, <1>2, <2>1, Woken DEF Signal
  <2> QED
    BY <1>0, <2>1, <2>2 DEF Counted, Wake
<1>3. ASSUME NEW n \in Requests, NEW timeout \in Timeouts, WaitBlock(t, n, timeout)
      PROVE  Counted'
  <2>1. pc[t] = "running" /\ wait_count' = wait_count + 1 /\ pc' = [pc EXCEPT ![t] = "blocked"]
    BY <1>0, <1>3, NoRace DEF WaitBlock
  <2>2. t \notin Registered /\ Registered' = Registered \cup {t}
    BY <1>0, <2>1 DEF Registered, At, Numbers
  <2>3. Cardinality(Registered') = Cardinality(Registered) + 1
    BY <2>2, OneMore DEF Registered
  <2> QED
    BY <1>0, <2>1, <2>3 DEF Counted, Numbers
<1>4. CASE WaitEnd(t)
  <2>1. /\ pc[t] \in {"woken", "expired"}
        /\ wait_count' = wait_count - 1 /\ pc' = [pc EXCEPT ![t] = "running"]
    BY <1>0, <1>4, NoRace DEF WaitEnd, CountOut
  <2>2. t \in Registered /\ Registered' = Registered \ {t}
    BY <1>0, <2>1 DEF Registered, At, Numbers
  <2>3. Cardinality(Registered') = Cardinality(Registered) - 1
    BY <2>2, OneLess DEF Registered
  <2> QED
    BY <1>0, <2>1, <2>3 DEF Counted, Numbers
<1>5. CASE Quiet(t)
  BY <1>0, <1>5, QuietPlaces DEF Counted
<1> QED
  BY <1>1, <1>2, <1>3, <1>4, <1>5

(* The units for which there is no awakened taker while others sleep.      *)
LEMMA ServedStep ==
  ASSUME IInv, Next, ~unwound', ~mixed'
  PROVE  Served'
<1>0. Numbers /\ Counted /\ ~unwound
  BY StepsAre, Types DEF IInv
<1>1. PICK t \in Threads :
        \/ \E n \in Signals : Signal(t, n)
        \/ \E n \in Requests, timeout \in Timeouts : WaitBlock(t, n, timeout)
        \/ WaitEnd(t) \/ Quiet(t)
  BY <1>0, StepsAre
<1>2. ~mixed
  BY <1>1
  DEF Quiet, Signal, WaitAtOnce, WaitRefused, WaitBlock, WaitTypeError, WaitAgain, WaitEnd,
      SpuriousWakeup, Expire
<1>3. Served
  BY <1>0, <1>2 DEF IInv
<1>4. counter \in Nat /\ Cardinality(At({"woken"})) \in Nat
  BY <1>0, FinitePlaces DEF Numbers
<1>5. ASSUME NEW n \in Signals, Signal(t, n)
      PROVE  Served'
  <2>1. PICK W \in WokenBy(n) : pc' = Wake(pc, W)
    BY <1>5 DEF Signal
  <2>2. n \in Nat /\ pc[t] = "running" /\ counter' = counter + n /\ need' = need
    BY <1>5 DEF Signal
  <2>3. /\ W \subseteq Blocked /\ Waiting' = Waiting /\ Blocked' = Blocked \ W
        /\ At({"woken"})' = At({"woken"}) \cup W /\ At({"woken"}) \cap W = {}
        /\ Blocked' # {} => Cardinality(W) = n
    BY <1>0, <2>1, <2>2, Woken
  <2>4. IsFiniteSet(W) /\ IsFiniteSet(At({"woken"}))
    BY <2>3, FinitePlaces, FS_Subset DEF Blocked
  <2>5. Cardinality(At({"woken"})') = Cardinality(At({"woken"})) + Cardinality(W)
    <3>1. Cardinality(At({"woken"}) \cup W)
            = Cardinality(At({"woken"})) + Cardinality(W) - Cardinality(At({"woken"}) \cap W)
      BY <2>4, FS_Union
    <3>2. Cardinality(At({"woken"}) \cap W) = 0
      BY <2>3, FS_EmptySet
    <3>3. Cardinality(W) \in Nat
      BY <2>4, FS_CardinalityType
    <3>4. Cardinality(At({"woken"})') = Cardinality(At({"woken"}) \cup W)
      BY <2>3
    <3> QED
      BY <1>4, <3>1, <3>2, <3>3, <3>4
  <2>6. Blocked' # {} => Cardinality(At({"woken"})') >= counter'
    BY <1>3, <1>4, <2>2, <2>3, <2>5 DEF Served
  <2> QED
    BY <1>3, <2>2, <2>3, <2>6 DEF Served
<1>6. ASSUME NEW n \in Requests, NEW timeout \in Timeouts, WaitBlock(t, n, timeout)
      PROVE  Served'
  <2>1. /\ pc' = [pc EXCEPT ![t] = "blocked"] /\ need' = [need EXCEPT ![t] = n]
        /\ counter' = counter /\ ~(counter >= n)
    BY <1>0, <1>6, NoRace DEF WaitBlock, Enough
  <2>2. n \in Nat /\ ~(n > 1)
    BY <1>6 DEF WaitBlock
  <2>3. n = 1 /\ counter' = 0
    BY <1>4, <2>1, <2>2
  <2>4. Waiting' \subseteq Waiting \cup {t}
    BY <1>0, <2>1 DEF Waiting, At, Numbers
  <2>5. \A u \in Waiting' : need'[u] = 1
    BY <1>0, <1>3, <2>1, <2>3, <2>4 DEF Served, Numbers, Waiting, At
  <2>6. Cardinality(At({"woken"})') >= counter'
    BY <2>3, FinitePlaces
  <2> QED
    BY <2>5, <2>6 DEF Served
<1>7. CASE WaitEnd(t)
  <2>1. /\ pc[t] \in {"woken", "expired"} /\ need' = [need EXCEPT ![t] = 0]
        /\ pc' = [pc EXCEPT ![t] = "running"]
    BY <1>0, <1>7, NoRace DEF WaitEnd
  <2>2. Waiting' = Waiting \ {t} /\ Blocked' = Blocked /\ need[t] = 1
    BY <1>0, <1>3, <2>1 DEF Waiting, Blocked, At, Numbers, Served
  <2>3. \A u \in Waiting' : need'[u] = 1
    BY <1>0, <1>3, <2>1, <2>2 DEF Served, Numbers, Waiting, At
  <2>4. counter' = IF counter >= 1 THEN counter - 1 ELSE counter
    BY <1>7, <2>2 DEF WaitEnd, Take, Enough
  <2>5. Cardinality(At({"woken"})') >= Cardinality(At({"woken"})) - 1
    <3>1. CASE pc[t] = "woken"
      <4>1. t \in At({"woken"}) /\ At({"woken"})' = At({"woken"}) \ {t}
        BY <1>0, <2>1, <3>1 DEF At, Numbers
      <4> QED
        BY <1>4, <4>1, OneLess
    <3>2. CASE pc[t] = "expired"
      <4>1. At({"woken"})' = At({"woken"})
        BY <1>0, <2>1, <3>2 DEF At, Numbers
      <4> QED
        BY <1>4, <4>1
    <3> QED
      BY <2>1, <3>1, <3>2
  <2>6. Cardinality(At({"woken"})') \in Nat
    BY FinitePlaces
  <2>7. Blocked' # {} => Cardinality(At({"woken"})') >= counter'
    BY <1>3, <1>4, <2>2, <2>4, <2>5, <2>6 DEF Served
  <2> QED
    BY <2>3, <2>7 DEF Served
<1>8. CASE Quiet(t)
  <2>1. \A u \in Waiting' : need'[u] = 1
    BY <1>0, <1>3, <1>8, QuietPlaces DEF Served
  <2>2. Blocked' # {} => Cardinality(At({"woken"})') >= counter'
    <3>1. ASSUME NEW n \in Requests,
                 WaitAtOnce(t, n) \/ WaitRefused(t, n) \/ WaitTypeError(t, n)
          PROVE  Blocked' # {} => Cardinality(At({"woken"})') >= counter'
      <4>1. counter' \in Int /\ counter' <= counter
        BY <1>4, <3>1 DEF WaitAtOnce, WaitRefused, WaitTypeError, Take
      <4>2. Blocked' = Blocked /\ At({"woken"})' = At({"woken"})
        BY <1>0, <3>1 DEF WaitAtOnce, WaitRefused, WaitTypeError, Blocked, At, Numbers
      <4> QED
        BY <1>3, <1>4, <4>1, <4>2 DEF Served
    <3>2. CASE WaitAgain(t)
      <4>1. t \in Waiting /\ counter' = counter /\ ~(counter >= need[t])
        BY <3>2 DEF WaitAgain, Waiting, At, Enough
      <4>2. counter' = 0
        BY <1>3, <1>4, <4>1 DEF Served
      <4> QED
        BY <4>2, FinitePlaces
    <3>3. CASE SpuriousWakeup(t)
      <4>1. /\ t \in Threads /\ t \notin At({"woken"})
            /\ At({"woken"})' = At({"woken"}) \cup {t}
            /\ Blocked # {} /\ counter' = counter
        BY <1>0, <3>3 DEF SpuriousWakeup, Blocked, At, Numbers
      <4>2. Cardinality(At({"woken"})') = Cardinality(At({"woken"})) + 1
        BY <4>1, OneMore
      <4> QED
        BY <1>3, <1>4, <4>1, <4>2 DEF Served
    <3>4. CASE Expire(t)
      <4>1. /\ At({"woken"})' = At({"woken"})
            /\ Blocked # {} /\ counter' = counter
        BY <1>0, <3>4 DEF Expire, Blocked, At, Numbers
      <4> QED
        BY <1>3, <1>4, <4>1 DEF Served
    <3> QED
      BY <1>8, <3>1, <3>2, <3>3, <3>4 DEF Quiet
  <2> QED
    BY <2>1, <2>2 DEF Served
<1> QED
  BY <1>1, <1>5, <1>6, <1>7, <1>8

LEMMA Inductive == IInv /\ [Next]_vars => IInv'
<1> SUFFICES ASSUME IInv, [Next]_vars
             PROVE  IInv'
  OBVIOUS
<1>1. TypeOK' /\ UnitsConserved'
  <2>1. Numbers' /\ Flags' /\ UnitsConserved'
    BY Types, NumbersStep, FlagsStep DEF IInv
  <2> QED
    BY <2>1, Types DEF TypeOK, Numbers, Flags
<1>2. CASE Next
  BY <1>1, <1>2, CountedStep, ServedStep DEF IInv
<1>3. CASE UNCHANGED vars
  BY <1>1, <1>3 DEF vars, IInv, Counted, Served, Registered, Waiting, Blocked, At
<1> QED
  BY <1>2, <1>3

-----------------------------------------------------------------------------
(* The fields of the semaphore and what each thread keeps have their       *)
(* types; in particular counter is never negative.                         *)
THEOREM TypeCorrect == Spec => []TypeOK
<1>1. IInv => TypeOK
  BY DEF IInv
<1> QED
  BY Initial, Inductive, <1>1, PTL DEF Spec

(* Whatever mixes of signals, waits, timeouts and interrupts there are, no *)
(* unit is lost or handed out twice.                                       *)
THEOREM UnitsConservedAlways == Spec => []UnitsConserved
<1>1. IInv => UnitsConserved
  BY DEF IInv
<1> QED
  BY Initial, Inductive, <1>1, PTL DEF Spec

(* semaphore-wait-count is the number of waiting threads until the cleanup *)
(* form of an unwound wait decrements it without the mutex.                *)
THEOREM WaitCountExactAlways == Spec => []WaitCountExact
<1>1. IInv => WaitCountExact
  BY DEF IInv, Counted, WaitCountExact
<1> QED
  BY Initial, Inductive, <1>1, PTL DEF Spec

(* Of waits for one unit each, none sleeps while there is a unit without   *)
(* an awakened taker: n signals for n units are enough.                    *)
THEOREM EveryUnitHasTakerAlways == Spec => []EveryUnitHasTaker
<1>1. IInv => EveryUnitHasTaker
  BY DEF IInv, Served, EveryUnitHasTaker
<1> QED
  BY Initial, Inductive, <1>1, PTL DEF Spec
=============================================================================
