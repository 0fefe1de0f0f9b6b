-------------------------- MODULE WinCondVar_proofs --------------------------
(***************************************************************************)
(* Proofs about WinCondVar: its types and, until line 557 overwrites the   *)
(* word, that the wait count is exact, that the operation which the word   *)
(* shows can be ended, and that it is a condition variable as              *)
(* AbstractCondVar promises.                                               *)
(***************************************************************************)
EXTENDS WinCondVar, FiniteSetTheorems, TLAPS

(* Who carries an operation on alone: between the word and the event, with *)
(* the signal, or after it was the last out of a broadcast.                *)
Agents == {"setting_signal", "by_signal", "setting_broadcast", "clearing", "cleared"}

Nobody(place) == \A t \in Threads : pc[t] # place

Counted ==
  /\ wait_count = Cardinality(Registered)
  /\ \A t \in Threads : pc[t] = "last" => loaded[t] = <<1, "BROADCAST">>

OneAgent ==
  \A t, u \in Threads : pc[t] \in Agents /\ pc[u] \in Agents => t = u

(* What a thread at its place knows of the word and the events.            *)
Knows(t) ==
  /\ pc[t] \in {"setting_signal", "by_signal"} =>
       status = "SIGNAL" /\ signal_event = FALSE
  /\ pc[t] = "setting_broadcast" => status = "BROADCAST" /\ broadcast_event = FALSE
  /\ pc[t] \in {"by_broadcast", "last"} =>
       status = "BROADCAST" /\ broadcast_event = TRUE
  /\ pc[t] \in {"clearing", "cleared"} =>
       status = "RESET" /\ \A u \in Threads : pc[u] \notin Counting
  /\ pc[t] = "cleared" => broadcast_event = FALSE
  /\ pc[t] = "blocked" => broadcast_event = FALSE /\ signal_event = FALSE

(* The operation of the word has an event or a thread to end it.           *)
Owned ==
  /\ broadcast_event = TRUE => status \in {"BROADCAST", "RESET"}
  /\ signal_event = TRUE => status = "SIGNAL"
  /\ status = "BROADCAST" /\ broadcast_event = FALSE => ~Nobody("setting_broadcast")
  /\ status = "SIGNAL" /\ signal_event = FALSE =>
       ~Nobody("setting_signal") \/ ~Nobody("by_signal")
  /\ status = "RESET" => ~Nobody("clearing") \/ ~Nobody("cleared")

Operation == OneAgent /\ (\A t \in Threads : Knows(t)) /\ Owned

Numbers ==
  /\ wait_count \in 0 .. Modulus - 1
  /\ status \in Statuses
  /\ mutex \in Threads \cup {NoThread}
  /\ pc \in [Threads -> PCs]
  /\ loaded \in [Threads -> (0 .. Modulus - 1) \X Statuses]
Flags ==
  /\ build \in Builds
  /\ broadcast_event \in BOOLEAN /\ signal_event \in BOOLEAN
  /\ wiped \in BOOLEAN

IInv ==
  /\ Numbers
  /\ Flags
  /\ ~wiped => Counted /\ Operation

USE WinThreadsAssumption, WinOptionsAssumption
DEF WinThreadsAssumption, WinOptionsAssumption

LEMMA FiniteRegistered ==
  /\ IsFiniteSet(Registered) /\ Cardinality(Registered) \in 0 .. Cardinality(Threads)
  /\ Cardinality(Threads) \in Nat
<1>1. Registered \subseteq Threads
  BY DEF Registered
<1>2. /\ IsFiniteSet(Registered) /\ Cardinality(Registered) \in Nat
      /\ Cardinality(Threads) \in Nat
      /\ Cardinality(Registered) <= Cardinality(Threads)
  BY <1>1, FS_Subset, FS_CardinalityType
<1> QED
  BY <1>2

(* The wait count does not wrap where a thread comes or goes that is       *)
(* counted exactly.                                                        *)
LEMMA Remainder ==
  ASSUME NEW M \in Nat, M > 1, NEW x \in 0 .. M - 1
  PROVE  x % M = x
OBVIOUS

LEMMA RemainderBelow ==
  ASSUME NEW M \in Nat, M > 1, NEW x \in 1 .. M - 1
  PROVE  (x + M - 1) % M = x - 1
OBVIOUS

LEMMA RemainderType ==
  ASSUME NEW M \in Nat, M > 1, NEW x \in Nat
  PROVE  x % M \in 0 .. M - 1
OBVIOUS

LEMMA ModulusType == Modulus \in Nat /\ Modulus > 1 /\ Modulus > Cardinality(Threads) + 1
BY FiniteRegistered

LEMMA Joins ==
  ASSUME NEW t \in Threads, Counted, t \notin Registered,
         Registered' = Registered \cup {t}, wait_count' = More
  PROVE  wait_count' = Cardinality(Registered')
<1>1. Cardinality(Registered') = wait_count + 1
  BY FiniteRegistered, FS_AddElement DEF Counted
<1>2. wait_count + 1 \in 0 .. Modulus - 1
  BY FiniteRegistered, ModulusType DEF Counted
<1> QED
  BY <1>1, <1>2, Remainder, ModulusType DEF More

LEMMA Leaves ==
  ASSUME NEW t \in Threads, Counted, t \in Registered,
         Registered' = Registered \ {t}, wait_count' = Fewer
  PROVE  wait_count' = Cardinality(Registered')
<1>1. Cardinality(Registered') = Cardinality(Registered) - 1
  BY FiniteRegistered, FS_RemoveElement
<1>2. Cardinality(Registered) # 0
  BY FiniteRegistered, FS_EmptySet
<1>3. wait_count \in 1 .. Modulus - 1
  BY <1>2, FiniteRegistered, ModulusType DEF Counted
<1> QED
  BY <1>1, <1>3, RemainderBelow, ModulusType DEF Fewer, Counted

LEMMA Types ==
  ASSUME IInv
  PROVE  TypeOK
<1>1. wiped = TRUE => wait_count \in 0 .. Modulus - 1
  BY DEF IInv, Numbers
<1>2. wiped = FALSE => wait_count \in 0 .. Cardinality(Threads)
  BY FiniteRegistered DEF IInv, Counted
<1>3. wait_count \in 0 .. (IF wiped THEN Modulus - 1 ELSE Cardinality(Threads))
  BY <1>1, <1>2, Zenon DEF IInv, Flags
<1> QED
  BY <1>3, Zenon DEF IInv, Numbers, Flags, TypeOK

LEMMA Initial == Init => IInv
<1> SUFFICES ASSUME Init
             PROVE  IInv
  OBVIOUS
<1>1. Numbers
  BY ModulusType DEF Init, Numbers, PCs, Statuses
<1>2. Flags
  BY Zenon DEF Init, Flags
<1>3. Registered = {}
  BY DEF Init, Registered, Counting
<1>4. Cardinality(Registered) = 0
  BY <1>3, FS_EmptySet, Zenon
<1>5. Counted
  BY <1>4 DEF Init, Counted
<1>6. Operation
  BY DEF Init, Operation, OneAgent, Agents, Knows, Owned
<1> QED
  BY <1>1, <1>2, <1>5, <1>6 DEF IInv

-----------------------------------------------------------------------------
LEMMA NumbersStep ==
  ASSUME Numbers, NEW t \in Threads,
         \/ Take(t) \/ Give(t)
         \/ Register(t) \/ ReleaseMutex(t) \/ Arrive(t)
         \/ TimeOut(t) \/ Interrupted(t) \/ Unregister(t) \/ InterruptEnds(t)
         \/ OutBySignal(t) \/ OutByBroadcast(t) \/ LastByBroadcast(t)
         \/ Reset(t) \/ ResetEvent(t) \/ ResetDone(t)
         \/ Call(t) \/ NothingToDo(t) \/ Post(t) \/ SetBroadcast(t) \/ SetSignal(t)
  PROVE  Numbers'
<1>1. More \in 0 .. Modulus - 1 /\ Fewer \in 0 .. Modulus - 1
  <2>1. wait_count + 1 \in Nat /\ wait_count + Modulus - 1 \in Nat
    BY ModulusType DEF Numbers
  <2> QED
    BY <2>1, RemainderType, ModulusType DEF More, Fewer
<1>2. 0 \in 0 .. Modulus - 1
  BY ModulusType
<1>3. CASE Take(t) \/ Give(t) \/ ReleaseMutex(t) \/ TimeOut(t) \/ Interrupted(t) \/ InterruptEnds(t)
  BY <1>3 DEF Take, Give, ReleaseMutex, TimeOut, Interrupted, InterruptEnds, Go, word,
              Numbers, PCs, Counting
<1>4. CASE Register(t) \/ Unregister(t) \/ OutBySignal(t) \/ OutByBroadcast(t)
  BY <1>1, <1>4 DEF Register, Unregister, OutBySignal, OutByBroadcast, Go,
                    Numbers, PCs, Counting, Statuses
<1>5. CASE Arrive(t)
  <2>1. pc' \in [Threads -> PCs]
    BY <1>5 DEF Arrive, Go, Numbers, PCs, Counting
  <2> QED
    BY <1>5, <2>1 DEF Arrive, word, Numbers
<1>6. CASE LastByBroadcast(t)
  BY <1>6 DEF LastByBroadcast, word, Go, Numbers, PCs, Counting
<1>7. CASE Reset(t)
  BY <1>2, <1>7 DEF Reset, Go, Numbers, PCs, Statuses
<1>8. CASE ResetEvent(t) \/ ResetDone(t)
  BY <1>2, <1>8 DEF ResetEvent, ResetDone, Go, word, Numbers, PCs, Statuses
<1>9. CASE Call(t) \/ NothingToDo(t) \/ Post(t)
  BY <1>9 DEF Call, NothingToDo, Post, Go, word, Numbers, PCs, Statuses
<1>10. CASE SetBroadcast(t)
  <2>1. pc' \in [Threads -> PCs]
    BY <1>10 DEF SetBroadcast, Numbers, PCs, Counting
  <2> QED
    BY <1>10, <2>1 DEF SetBroadcast, word, Numbers
<1>11. CASE SetSignal(t)
  <2>1. pc' \in [Threads -> PCs]
    BY <1>11 DEF SetSignal, Go, At, Numbers, PCs, Counting
  <2> QED
    BY <1>11, <2>1 DEF SetSignal, word, Numbers
<1> QED
  BY <1>3, <1>4, <1>5, <1>6, <1>7, <1>8, <1>9, <1>10, <1>11

(* What a thread does that arrives, by the events that are set.            *)
Arrives(t, place, signal) ==
  /\ pc[t] = "arriving" /\ pc' = [pc EXCEPT ![t] = place]
  /\ broadcast_event' = broadcast_event /\ signal_event' = signal
  /\ UNCHANGED <<build, wait_count, status, mutex, loaded, wiped>>

LEMMA ArriveCases ==
  ASSUME Flags, NEW t \in Threads, Arrive(t)
  PROVE  \/ broadcast_event = TRUE /\ Arrives(t, "by_broadcast", signal_event)
         \/ /\ broadcast_event = FALSE /\ signal_event = TRUE
            /\ Arrives(t, "by_signal", FALSE)
         \/ /\ broadcast_event = FALSE /\ signal_event = FALSE
            /\ Arrives(t, "blocked", signal_event)
<1>1. /\ pc[t] = "arriving" /\ broadcast_event' = broadcast_event
      /\ UNCHANGED <<build, wait_count, status, mutex, loaded, wiped>>
  BY DEF Arrive, word
<1>2. CASE broadcast_event = TRUE
  <2>1. pc' = [pc EXCEPT ![t] = "by_broadcast"] /\ signal_event' = signal_event
    BY <1>2, Zenon DEF Arrive, Go
  <2> QED
    BY <1>1, <1>2, <2>1, Zenon DEF Arrives
<1>3. CASE broadcast_event = FALSE /\ signal_event = TRUE
  <2>1. pc' = [pc EXCEPT ![t] = "by_signal"] /\ signal_event' = FALSE
    BY <1>3, Zenon DEF Arrive, Go
  <2> QED
    BY <1>1, <1>3, <2>1, Zenon DEF Arrives
<1>4. CASE broadcast_event = FALSE /\ signal_event = FALSE
  <2>1. pc' = [pc EXCEPT ![t] = "blocked"] /\ signal_event' = signal_event
    BY <1>4, Zenon DEF Arrive, Go
  <2> QED
    BY <1>1, <1>4, <2>1, Zenon DEF Arrives
<1> QED
  BY <1>2, <1>3, <1>4, Zenon DEF Flags

LEMMA FlagsStep ==
  ASSUME Flags, [Next]_vars
  PROVE  Flags'
<1>1. ASSUME NEW t \in Threads, Arrive(t)
      PROVE  Flags'
  BY <1>1, ArriveCases, Zenon DEF Arrives, Flags
<1>2. ASSUME NEW t \in Threads, Reset(t)
      PROVE  Flags'
  <2>1. wiped' \in BOOLEAN
    BY <1>2, Zenon DEF Reset
  <2> QED
    BY <1>2, <2>1, Zenon DEF Reset, events, Flags
<1>3. ASSUME NEW t \in Threads, ResetEvent(t) \/ SetBroadcast(t) \/ SetSignal(t)
      PROVE  Flags'
  <2>1. broadcast_event' \in BOOLEAN
    BY <1>3, Zenon DEF ResetEvent, SetBroadcast, SetSignal, BroadcastStaysSet, Flags
  <2>2. signal_event' \in BOOLEAN
    BY <1>3, Zenon DEF ResetEvent, SetBroadcast, SetSignal, Flags
  <2>3. UNCHANGED <<build, wiped>>
    BY <1>3 DEF ResetEvent, SetBroadcast, SetSignal
  <2> QED
    BY <2>1, <2>2, <2>3, Zenon DEF Flags
<1>4. ASSUME UNCHANGED <<build, events, wiped>>
      PROVE  Flags'
  BY <1>4, Zenon DEF events, Flags
<1>5. ASSUME NEW t \in Threads,
             \/ Take(t) \/ Give(t) \/ Register(t) \/ ReleaseMutex(t)
             \/ TimeOut(t) \/ Interrupted(t) \/ Unregister(t) \/ InterruptEnds(t)
             \/ OutBySignal(t) \/ OutByBroadcast(t) \/ LastByBroadcast(t)
             \/ ResetDone(t) \/ Call(t) \/ NothingToDo(t) \/ Post(t)
      PROVE  UNCHANGED <<build, events, wiped>>
  BY <1>5 DEF Take, Give, Register, ReleaseMutex, TimeOut, Interrupted, Unregister,
              InterruptEnds, OutBySignal, OutByBroadcast, LastByBroadcast, ResetDone,
              Call, NothingToDo, Post
<1>6. CASE Next
  BY <1>1, <1>2, <1>3, <1>4, <1>5, <1>6, Zenon DEF Next
<1>7. CASE UNCHANGED vars
  BY <1>4, <1>7 DEF vars, events
<1> QED
  BY <1>6, <1>7

-----------------------------------------------------------------------------
(* A step that overwrites nothing keeps the count exact.                   *)
LEMMA CountedStep ==
  ASSUME Numbers, Flags, Counted, Operation, Next, ~wiped'
  PROVE  Counted'
<1> PICK t \in Threads :
      \/ Take(t) \/ Give(t)
      \/ Register(t) \/ ReleaseMutex(t) \/ Arrive(t)
      \/ TimeOut(t) \/ Interrupted(t) \/ Unregister(t) \/ InterruptEnds(t)
      \/ OutBySignal(t) \/ OutByBroadcast(t) \/ LastByBroadcast(t)
      \/ Reset(t) \/ ResetEvent(t) \/ ResetDone(t)
      \/ Call(t) \/ NothingToDo(t) \/ Post(t) \/ SetBroadcast(t) \/ SetSignal(t)
  BY DEF Next
<1>0. pc \in [Threads -> PCs] /\ loaded \in [Threads -> (0 .. Modulus - 1) \X Statuses]
  BY DEF Numbers
<1>1. ASSUME wait_count' = wait_count, Registered' = Registered,
             \A u \in Threads : pc'[u] = "last" => pc[u] = "last" /\ loaded'[u] = loaded[u]
      PROVE  Counted'
  BY <1>1 DEF Counted
<1>2. CASE Take(t) \/ Give(t) \/ ReleaseMutex(t) \/ TimeOut(t) \/ Interrupted(t)
           \/ InterruptEnds(t) \/ ResetEvent(t) \/ Call(t) \/ NothingToDo(t) \/ Post(t)
  <2>1. wait_count' = wait_count /\ loaded' = loaded
    BY <1>2 DEF Take, Give, ReleaseMutex, TimeOut, Interrupted, InterruptEnds,
                ResetEvent, Call, NothingToDo, Post, word
  <2>2. Registered' = Registered
    BY <1>0, <1>2 DEF Take, Give, ReleaseMutex, TimeOut, Interrupted, InterruptEnds,
                ResetEvent, Call, NothingToDo, Post, Go, Registered, Counting
  <2>3. \A u \in Threads : pc'[u] = "last" => pc[u] = "last"
    BY <1>0, <1>2 DEF Take, Give, ReleaseMutex, TimeOut, Interrupted, InterruptEnds,
                ResetEvent, Call, NothingToDo, Post, Go
  <2> QED
    BY <1>1, <2>1, <2>2, <2>3
<1>3. CASE Arrive(t)
  <2>1. /\ pc[t] = "arriving" /\ UNCHANGED <<wait_count, loaded>>
        /\ \E place \in {"by_broadcast", "by_signal", "blocked"} :
             pc' = [pc EXCEPT ![t] = place]
    BY <1>3, ArriveCases DEF Arrives
  <2>2. Registered' = Registered
    BY <1>0, <2>1 DEF Registered, Counting
  <2> QED
    BY <1>0, <1>1, <2>1, <2>2
<1>4. CASE SetBroadcast(t) \/ SetSignal(t)
  <2>1. wait_count' = wait_count /\ loaded' = loaded
    BY <1>4 DEF SetBroadcast, SetSignal, word
  <2>2. Registered' = Registered
    BY <1>0, <1>4 DEF SetBroadcast, SetSignal, Go, At, Registered, Counting
  <2>3. \A u \in Threads : pc'[u] = "last" => pc[u] = "last"
    BY <1>0, <1>4 DEF SetBroadcast, SetSignal, Go, At
  <2> QED
    BY <1>1, <2>1, <2>2, <2>3
<1>5. CASE Register(t)
  <2>1. /\ t \notin Registered /\ wait_count' = More /\ loaded' = loaded
        /\ \E place \in {"registered", "arriving"} : pc' = [pc EXCEPT ![t] = place]
    BY <1>5 DEF Register, Go, Registered, Counting
  <2>2. Registered' = Registered \cup {t}
    BY <1>0, <2>1 DEF Registered, Counting
  <2>3. wait_count' = Cardinality(Registered')
    BY <2>1, <2>2, Joins
  <2> QED
    BY <1>0, <2>1, <2>3 DEF Counted
<1>6. CASE Unregister(t) \/ OutBySignal(t) \/ OutByBroadcast(t)
  <2>1. /\ t \in Registered /\ wait_count' = Fewer /\ loaded' = loaded
        /\ \E place \in {"locking", "in_interrupt"} : pc' = [pc EXCEPT ![t] = place]
    BY <1>6 DEF Unregister, OutBySignal, OutByBroadcast, Go, Registered, Counting
  <2>2. Registered' = Registered \ {t}
    BY <1>0, <2>1 DEF Registered, Counting
  <2>3. wait_count' = Cardinality(Registered')
    BY <2>1, <2>2, Leaves
  <2> QED
    BY <1>0, <2>1, <2>3 DEF Counted
<1>7. CASE LastByBroadcast(t)
  <2>1. /\ pc[t] = "by_broadcast" /\ pc' = [pc EXCEPT ![t] = "last"]
        /\ wait_count' = wait_count /\ wait_count = 1
        /\ loaded' = [loaded EXCEPT ![t] = <<wait_count, status>>]
    BY <1>7 DEF LastByBroadcast, Go, word, IsLast
  <2>2. status = "BROADCAST"
    BY <2>1 DEF Operation, Knows
  <2>3. Registered' = Registered
    BY <1>0, <2>1 DEF Registered, Counting
  <2>4. \A u \in Threads : pc'[u] = "last" => loaded'[u] = <<1, "BROADCAST">>
    BY <1>0, <2>1, <2>2 DEF Counted
  <2> QED
    BY <2>1, <2>3, <2>4 DEF Counted
<1>8. CASE Reset(t)
  <2>1. /\ pc[t] = "last" /\ pc' = [pc EXCEPT ![t] = "clearing"] /\ wait_count' = 0
        /\ loaded' = [loaded EXCEPT ![t] = <<0, "none">>]
        /\ word = loaded[t]
    BY <1>8 DEF Reset, Go
  <2>2. wait_count = 1
    BY <2>1 DEF Counted, word
  <2>3. t \in Registered /\ Registered' = Registered \ {t}
    BY <1>0, <2>1 DEF Registered, Counting
  <2>4. Cardinality(Registered) = 1
    BY <2>2 DEF Counted
  <2>5. Cardinality(Registered') = Cardinality(Registered) - 1
    BY <2>3, FiniteRegistered, FS_RemoveElement
  <2> QED
    BY <1>0, <2>1, <2>4, <2>5 DEF Counted
<1>9. CASE ResetDone(t)
  <2>1. /\ pc[t] = "cleared" /\ pc' = [pc EXCEPT ![t] = "locking"]
        /\ wait_count' = 0 /\ loaded' = loaded
    BY <1>9 DEF ResetDone, Go
  <2>2. \A u \in Threads : pc[u] \notin Counting
    BY <2>1 DEF Operation, Knows
  <2>3. Registered' = {}
    BY <1>0, <2>1, <2>2 DEF Registered, Counting
  <2>4. Cardinality(Registered') = 0
    BY <2>3, FS_EmptySet
  <2> QED
    BY <1>0, <2>1, <2>4 DEF Counted
<1> QED
  BY <1>2, <1>3, <1>4, <1>5, <1>6, <1>7, <1>8, <1>9

-----------------------------------------------------------------------------
(* A step that overwrites nothing leaves the operation under way to the    *)
(* one thread or event that ends it.                                       *)
LEMMA OperationStep ==
  ASSUME Numbers, Flags, Counted, Operation, Next, ~wiped'
  PROVE  Operation'
<1> PICK t \in Threads :
      \/ Take(t) \/ Give(t)
      \/ Register(t) \/ ReleaseMutex(t) \/ Arrive(t)
      \/ TimeOut(t) \/ Interrupted(t) \/ Unregister(t) \/ InterruptEnds(t)
      \/ OutBySignal(t) \/ OutByBroadcast(t) \/ LastByBroadcast(t)
      \/ Reset(t) \/ ResetEvent(t) \/ ResetDone(t)
      \/ Call(t) \/ NothingToDo(t) \/ Post(t) \/ SetBroadcast(t) \/ SetSignal(t)
  BY DEF Next
<1>0. pc \in [Threads -> PCs]
  BY DEF Numbers
<1>1. OneAgent /\ (\A u \in Threads : Knows(u)) /\ Owned
  BY DEF Operation
<1>2. CASE Take(t) \/ Give(t) \/ ReleaseMutex(t) \/ TimeOut(t) \/ Interrupted(t)
           \/ InterruptEnds(t) \/ Call(t) \/ NothingToDo(t)
  <2>1. UNCHANGED <<status, broadcast_event, signal_event>>
    BY <1>2 DEF Take, Give, ReleaseMutex, TimeOut, Interrupted, InterruptEnds,
                Call, NothingToDo, word, events
  <2>2. \A u \in Threads :
          \/ pc'[u] = pc[u]
          \/ /\ u = t
             /\ pc[u] \in Counting \/ pc'[u] \notin Counting
             /\ pc[u] \notin Agents /\ pc'[u] \notin Agents
             /\ pc'[u] \notin {"by_broadcast", "last", "blocked"}
    BY <1>0, <1>2 DEF Take, Give, ReleaseMutex, TimeOut, Interrupted, InterruptEnds,
                Call, NothingToDo, Go, Counting, Agents
  <2> QED
    BY <1>0, <1>1, <2>1, <2>2 DEF Operation, OneAgent, Knows, Owned, Nobody, Agents
<1>3. CASE Register(t) \/ Unregister(t)
  <2>1. UNCHANGED <<status, broadcast_event, signal_event>>
    BY <1>3 DEF Register, Unregister, events
  <2>2. /\ pc'[t] \in Counting => status # "RESET"
        /\ \A u \in Threads : u # t => pc'[u] = pc[u]
        /\ pc[t] \notin Agents /\ pc'[t] \notin Agents
        /\ pc'[t] \notin {"by_broadcast", "last", "blocked"}
    BY <1>0, <1>3 DEF Register, Unregister, Go, Spins, Counting, Agents
  <2> QED
    BY <1>0, <1>1, <2>1, <2>2 DEF Operation, OneAgent, Knows, Owned, Nobody, Agents
<1>4. CASE Arrive(t)
  <2>1. status' = status /\ broadcast_event' = broadcast_event
    BY <1>4, ArriveCases DEF Arrives
  <2>2. status # "RESET"
    BY <1>1, <1>4 DEF Arrive, Knows, Owned, Nobody, Counting
  <2>3. CASE broadcast_event = TRUE /\ Arrives(t, "by_broadcast", signal_event)
    BY <1>0, <1>1, <2>1, <2>2, <2>3
       DEF Arrives, Operation, OneAgent, Knows, Owned, Nobody, Agents
  <2>4. CASE broadcast_event = FALSE /\ signal_event = TRUE /\ Arrives(t, "by_signal", FALSE)
    BY <1>0, <1>1, <2>1, <2>2, <2>4
       DEF Arrives, Operation, OneAgent, Knows, Owned, Nobody, Agents
  <2>5. CASE broadcast_event = FALSE /\ signal_event = FALSE /\ Arrives(t, "blocked", signal_event)
    BY <1>0, <1>1, <2>1, <2>2, <2>5
       DEF Arrives, Operation, OneAgent, Knows, Owned, Nobody, Agents
  <2> QED
    BY <1>4, <2>3, <2>4, <2>5, ArriveCases
<1>5. CASE OutBySignal(t)
  <2>1. /\ pc[t] = "by_signal" /\ pc' = [pc EXCEPT ![t] = "locking"] /\ status' = "none"
        /\ UNCHANGED <<broadcast_event, signal_event>>
    BY <1>5 DEF OutBySignal, Go, events
  <2>2. status = "SIGNAL" /\ signal_event = FALSE /\ broadcast_event # TRUE
    BY <1>1, <2>1 DEF Knows, Owned
  <2> QED
    BY <1>0, <1>1, <2>1, <2>2 DEF Operation, OneAgent, Knows, Owned, Nobody, Agents
<1>6. CASE OutByBroadcast(t) \/ LastByBroadcast(t)
  <2>1. /\ pc[t] = "by_broadcast" /\ status = "BROADCAST" /\ status' = "BROADCAST"
        /\ \E place \in {"locking", "last"} : pc' = [pc EXCEPT ![t] = place]
        /\ UNCHANGED <<broadcast_event, signal_event>>
    BY <1>1, <1>6 DEF OutByBroadcast, LastByBroadcast, Knows, Go, events, word
  <2> QED
    BY <1>0, <1>1, <2>1 DEF Operation, OneAgent, Knows, Owned, Nobody, Agents
<1>7. CASE Reset(t)
  <2>1. /\ pc[t] = "last" /\ pc' = [pc EXCEPT ![t] = "clearing"] /\ status' = "RESET"
        /\ word = loaded[t] /\ UNCHANGED <<broadcast_event, signal_event>>
    BY <1>7 DEF Reset, Go, events
  <2>2. status = "BROADCAST" /\ broadcast_event = TRUE
    BY <1>1, <2>1 DEF Knows
  <2>3. Cardinality(Registered) = 1 /\ t \in Registered
    BY <2>1 DEF Counted, word, Registered, Counting
  <2>4. \A u \in Threads : u # t => pc[u] \notin Counting
    BY <2>3, FiniteRegistered, FS_Singleton DEF Registered
  <2>5. \A u \in Threads : pc[u] \notin Agents
    BY <1>1, <2>1, <2>2, <2>4 DEF Knows, Agents, Counting
  <2> QED
    BY <1>0, <1>1, <2>1, <2>2, <2>4, <2>5
       DEF Operation, OneAgent, Knows, Owned, Nobody, Agents, Counting
<1>8. CASE ResetEvent(t)
  <2>1. /\ pc[t] = "clearing" /\ pc' = [pc EXCEPT ![t] = "cleared"]
        /\ broadcast_event' = FALSE /\ UNCHANGED <<status, signal_event>>
    BY <1>8 DEF ResetEvent, Go, word
  <2>2. status = "RESET" /\ \A u \in Threads : pc[u] \notin Counting
    BY <1>1, <2>1 DEF Knows
  <2> QED
    BY <1>0, <1>1, <2>1, <2>2
       DEF Operation, OneAgent, Knows, Owned, Nobody, Agents, Counting
<1>9. CASE ResetDone(t)
  <2>1. /\ pc[t] = "cleared" /\ pc' = [pc EXCEPT ![t] = "locking"] /\ status' = "none"
        /\ UNCHANGED <<broadcast_event, signal_event>>
    BY <1>9 DEF ResetDone, Go, events
  <2>2. status = "RESET" /\ broadcast_event = FALSE /\ signal_event # TRUE
    BY <1>1, <2>1 DEF Knows, Owned
  <2> QED
    BY <1>0, <1>1, <2>1, <2>2
       DEF Operation, OneAgent, Knows, Owned, Nobody, Agents, Counting
<1>10. CASE Post(t)
  <2>1. /\ status = "none" /\ UNCHANGED <<broadcast_event, signal_event>>
        /\ \/ status' = "SIGNAL" /\ pc' = [pc EXCEPT ![t] = "setting_signal"]
           \/ status' = "BROADCAST" /\ pc' = [pc EXCEPT ![t] = "setting_broadcast"]
    BY <1>10 DEF Post, Go, events
  <2>2. /\ broadcast_event # TRUE /\ signal_event # TRUE
        /\ \A u \in Threads : pc[u] \notin Agents \cup {"by_broadcast", "last"}
    BY <1>1, <2>1 DEF Knows, Owned, Agents
  <2>3. broadcast_event = FALSE /\ signal_event = FALSE
    BY <2>2, Zenon DEF Flags
  <2> QED
    BY <1>0, <1>1, <2>1, <2>2, <2>3
       DEF Operation, OneAgent, Knows, Owned, Nobody, Agents
<1>11. CASE SetBroadcast(t)
  <2>1. /\ pc[t] = "setting_broadcast" /\ broadcast_event' = TRUE
        /\ pc' = [u \in Threads |-> IF u = t THEN "running"
                                    ELSE IF pc[u] = "blocked" THEN "by_broadcast" ELSE pc[u]]
        /\ UNCHANGED <<status, signal_event>>
    BY <1>11 DEF SetBroadcast, BroadcastStaysSet, word
  <2>2. status = "BROADCAST" /\ \A u \in Threads : pc[u] \notin Agents \ {"setting_broadcast"}
    BY <1>1, <2>1 DEF Knows, Agents
  <2> QED
    BY <1>0, <1>1, <2>1, <2>2
       DEF Operation, OneAgent, Knows, Owned, Nobody, Agents
<1>12. CASE SetSignal(t)
  <2>1. /\ pc[t] = "setting_signal" /\ UNCHANGED <<status, broadcast_event>>
    BY <1>12 DEF SetSignal, word
  <2>2. status = "SIGNAL" /\ broadcast_event # TRUE /\ signal_event = FALSE
    BY <1>1, <2>1 DEF Knows, Owned
  <2>3. CASE At("blocked") = {}
    <3>1. signal_event' = TRUE /\ pc' = [pc EXCEPT ![t] = "running"]
      BY <1>12, <2>3 DEF SetSignal, Go
    <3> QED
      BY <1>0, <1>1, <2>1, <2>2, <2>3, <3>1
         DEF Operation, OneAgent, Knows, Owned, Nobody, Agents, At
  <2>4. CASE At("blocked") # {}
    <3>1. /\ signal_event' = signal_event
          /\ \E u \in Threads : /\ pc[u] = "blocked"
                                /\ pc' = [pc EXCEPT ![t] = "running", ![u] = "by_signal"]
      BY <1>12, <2>4 DEF SetSignal, At
    <3> QED
      BY <1>0, <1>1, <2>1, <2>2, <3>1
         DEF Operation, OneAgent, Knows, Owned, Nobody, Agents
  <2> QED
    BY <2>3, <2>4
<1> QED
  BY <1>2, <1>3, <1>4, <1>5, <1>6, <1>7, <1>8, <1>9, <1>10, <1>11, <1>12

LEMMA Inductive == IInv /\ [Next]_vars => IInv'
<1> SUFFICES ASSUME IInv, [Next]_vars
             PROVE  IInv'
  OBVIOUS
<1>1. Numbers /\ Flags /\ Flags'
  BY FlagsStep DEF IInv
<1>2. CASE Next
  <2>1. Numbers'
    BY <1>1, <1>2, NumbersStep DEF Next
  <2>2. ASSUME ~wiped'
        PROVE  Counted' /\ Operation'
    <3>1. ~wiped
      <4>1. ASSUME NEW t \in Threads, Reset(t)
            PROVE  ~wiped
        BY <2>2, <4>1, Zenon DEF Reset
      <4>2. ASSUME NEW t \in Threads,
                   \/ Take(t) \/ Give(t)
                   \/ Register(t) \/ ReleaseMutex(t) \/ Arrive(t)
                   \/ TimeOut(t) \/ Interrupted(t) \/ Unregister(t) \/ InterruptEnds(t)
                   \/ OutBySignal(t) \/ OutByBroadcast(t) \/ LastByBroadcast(t)
                   \/ ResetEvent(t) \/ ResetDone(t)
                   \/ Call(t) \/ NothingToDo(t) \/ Post(t) \/ SetBroadcast(t) \/ SetSignal(t)
            PROVE  wiped' = wiped
        BY <4>2 DEF Take, Give, Register, ReleaseMutex, Arrive, TimeOut, Interrupted,
                    Unregister, InterruptEnds, OutBySignal, OutByBroadcast, LastByBroadcast,
                    ResetEvent, ResetDone, Call, NothingToDo, Post, SetBroadcast, SetSignal
      <4> QED
        BY <1>2, <2>2, <4>1, <4>2 DEF Next
    <3> QED
      BY <1>1, <1>2, <2>2, <3>1, CountedStep, OperationStep DEF IInv
  <2> QED
    BY <1>1, <2>1, <2>2 DEF IInv
<1>3. CASE UNCHANGED vars
  <2>1. /\ UNCHANGED <<wait_count, status, mutex, pc, loaded, wiped>>
        /\ UNCHANGED <<broadcast_event, signal_event>>
    BY <1>3 DEF vars, word, events
  <2>2. Numbers'
    BY <1>1, <2>1 DEF Numbers
  <2>3. Counted => Counted'
    BY <2>1 DEF Counted, Registered
  <2>4. Operation => Operation'
    BY <2>1 DEF Operation, OneAgent, Knows, Owned, Nobody
  <2> QED
    BY <1>1, <2>1, <2>2, <2>3, <2>4 DEF IInv
<1> QED
  BY <1>2, <1>3

-----------------------------------------------------------------------------
(* The word, the events and what each thread keeps have their types; in    *)
(* particular no more threads are counted than there are, until line 557   *)
(* overwrites the word.                                                    *)
THEOREM TypeCorrect == Spec => []TypeOK
BY Initial, Inductive, Types, PTL DEF Spec

(* Until line 557 overwrites the word, the wait count is the number of     *)
(* threads inside a wait, whatever timeouts, interrupts and broadcasts     *)
(* there are.                                                              *)
THEOREM CountExactAlways == Spec => []CountExact
<1>1. IInv => CountExact
  BY DEF IInv, Counted, CountExact
<1> QED
  BY Initial, Inductive, <1>1, PTL DEF Spec

(* Until then an operation that the word shows has its event, or a thread  *)
(* on its way to set or to end it, and a set event has left nobody behind. *)
THEOREM StatusHasAgentAlways == Spec => []StatusHasAgent
<1>1. IInv => StatusHasAgent
  <2> SUFFICES ASSUME IInv, ~wiped
               PROVE  /\ status = "BROADCAST" => broadcast_event \/ At("setting_broadcast") # {}
                      /\ status = "SIGNAL" =>
                           signal_event \/ At("setting_signal") \cup At("by_signal") # {}
                      /\ status = "RESET" => At("clearing") \cup At("cleared") # {}
                      /\ broadcast_event =>
                           status \in {"BROADCAST", "RESET"} /\ At("blocked") = {}
                      /\ signal_event => status = "SIGNAL" /\ At("blocked") = {}
    BY DEF StatusHasAgent
  <2>1. Owned /\ (\A t \in Threads : Knows(t)) /\ Flags
    BY DEF IInv, Operation
  <2>2. \A place : Nobody(place) <=> At(place) = {}
    BY DEF Nobody, At
  <2>3. \/ broadcast_event = TRUE
        \/ broadcast_event = FALSE
    BY <2>1, Zenon DEF Flags
  <2>4. \/ signal_event = TRUE
        \/ signal_event = FALSE
    BY <2>1, Zenon DEF Flags
  <2>5. At("blocked") # {} => broadcast_event = FALSE /\ signal_event = FALSE
    BY <2>1 DEF Knows, At
  <2> QED
    BY <2>1, <2>2, <2>3, <2>4, <2>5 DEF Owned
<1> QED
  BY Initial, Inductive, <1>1, PTL DEF Spec

-----------------------------------------------------------------------------
(* The abstract condition variable.  Where its threads are, and what it is *)
(* doing, in the terms of the word, the events and the places.             *)
Coming == At("registered") \cup At("arriving")
Asleep == At("blocked")
Released == At("by_broadcast") \cup At("by_signal") \cup At("last")
Quitting == At("timed_out") \cup At("interrupted")

Shown(st, broadcast, signal) ==
  IF signal THEN "offered"
  ELSE CASE st = "SIGNAL" -> "signal"
         [] st = "BROADCAST" -> IF broadcast THEN "open" ELSE "broadcast"
         [] st = "RESET" -> "over"
         [] st = "none" -> "none"

LEMMA ShownCases ==
  ASSUME NEW st, NEW broadcast, NEW signal
  PROVE  /\ signal = TRUE => Shown(st, broadcast, signal) = "offered"
         /\ signal = FALSE =>
              /\ st = "SIGNAL" => Shown(st, broadcast, signal) = "signal"
              /\ st = "BROADCAST" /\ broadcast = TRUE => Shown(st, broadcast, signal) = "open"
              /\ st = "BROADCAST" /\ broadcast = FALSE =>
                   Shown(st, broadcast, signal) = "broadcast"
              /\ st = "RESET" => Shown(st, broadcast, signal) = "over"
              /\ st = "none" => Shown(st, broadcast, signal) = "none"
<1>1. signal = TRUE => Shown(st, broadcast, signal) = "offered"
  BY Zenon DEF Shown
<1>2. ASSUME signal = FALSE, st = "SIGNAL"
      PROVE  Shown(st, broadcast, signal) = "signal"
  BY <1>2 DEF Shown
<1>3. ASSUME signal = FALSE, st = "BROADCAST", broadcast = TRUE
      PROVE  Shown(st, broadcast, signal) = "open"
  BY <1>3 DEF Shown
<1>4. ASSUME signal = FALSE, st = "BROADCAST", broadcast = FALSE
      PROVE  Shown(st, broadcast, signal) = "broadcast"
  BY <1>4 DEF Shown
<1>5. ASSUME signal = FALSE, st = "RESET"
      PROVE  Shown(st, broadcast, signal) = "over"
  BY <1>5 DEF Shown
<1>6. ASSUME signal = FALSE, st = "none"
      PROVE  Shown(st, broadcast, signal) = "none"
  BY <1>6 DEF Shown
<1> QED
  BY <1>1, <1>2, <1>3, <1>4, <1>5, <1>6

LEMMA OperatingShown ==
  /\ Operating = Shown(status, broadcast_event, signal_event)
  /\ Operating' = Shown(status', broadcast_event', signal_event')
BY Zenon DEF Operating, Shown

(* A thread that goes elsewhere leaves the others where they are.          *)
LEMMA Gone ==
  ASSUME pc \in [Threads -> PCs], NEW t \in Threads, NEW place, NEW there,
         pc' = [pc EXCEPT ![t] = place]
  PROVE  At(there)' = IF there = place THEN At(there) \cup {t} ELSE At(there) \ {t}
BY DEF At

LEMMA JoinStep ==
  ASSUME IInv, ~wiped, NEW t \in Threads, Register(t)
  PROVE  Promise!Join(t)
<1>0. pc \in [Threads -> PCs] /\ Flags
  BY DEF IInv, Numbers
<1>1. /\ pc[t] \in {"running", "rejoining"}
      /\ \E place \in {"registered", "arriving"} : pc' = [pc EXCEPT ![t] = place]
      /\ status # "RESET"
      /\ UNCHANGED <<status, broadcast_event, signal_event>>
  BY DEF Register, Go, Spins, events
<1>2. Coming' = Coming \cup {t}
  BY <1>0, <1>1 DEF Coming, At
<1>3. Asleep' = Asleep /\ Released' = Released /\ Quitting' = Quitting
  BY <1>0, <1>1 DEF Asleep, Released, Quitting, At
<1>4. t \notin Coming \cup Asleep \cup Released \cup Quitting
  BY <1>1 DEF Coming, Asleep, Released, Quitting, At
<1>5. Operating' = Operating
  BY <1>1, OperatingShown
<1>6. Operating # "over"
  BY <1>0, <1>1, OperatingShown, ShownCases DEF Flags, IInv, Numbers, Statuses
<1> QED
  BY <1>2, <1>3, <1>4, <1>5, <1>6
     DEF Promise!Join, Promise!Inside, Coming, Asleep, Released, Quitting

LEMMA ArriveStep ==
  ASSUME IInv, ~wiped, NEW t \in Threads, Arrive(t)
  PROVE  Promise!Sleep(t) \/ Promise!Pass(t)
<1>0. pc \in [Threads -> PCs] /\ Flags /\ status \in Statuses /\ Knows(t) /\ Owned
      /\ \A u \in Threads : Knows(u)
  BY DEF IInv, Numbers, Operation
<1>1. pc[t] = "arriving" /\ t \in Coming
  BY DEF Arrive, Coming, At
<1>2. status # "RESET"
  BY <1>0, <1>1 DEF Knows, Owned, Nobody, Counting
<1>3. ASSUME NEW place, pc' = [pc EXCEPT ![t] = place],
             place \in {"by_broadcast", "by_signal", "blocked"}
      PROVE  Coming' = Coming \ {t} /\ Quitting' = Quitting
  BY <1>0, <1>1, <1>3 DEF Coming, Quitting, At
<1>4. ASSUME NEW place, pc' = [pc EXCEPT ![t] = place],
             place \in {"by_broadcast", "by_signal"}
      PROVE  Released' = Released \cup {t} /\ Asleep' = Asleep
  BY <1>0, <1>1, <1>4 DEF Released, Asleep, At
<1>5. CASE broadcast_event = TRUE /\ Arrives(t, "by_broadcast", signal_event)
  <2>1. /\ pc' = [pc EXCEPT ![t] = "by_broadcast"] /\ Operating' = Operating
    BY <1>5, OperatingShown DEF Arrives
  <2>2. status = "BROADCAST" /\ signal_event = FALSE
    <3>1. status = "BROADCAST" /\ signal_event # TRUE
      BY <1>0, <1>2, <1>5 DEF Owned
    <3> QED
      BY <1>0, <3>1, Zenon DEF Flags
  <2>3. Operating = "open"
    BY <1>5, <2>2, OperatingShown, ShownCases
  <2> QED
    BY <1>1, <1>3, <1>4, <2>1, <2>3
       DEF Promise!Pass, Coming, Asleep, Released, Quitting
<1>6. CASE /\ broadcast_event = FALSE /\ signal_event = TRUE
           /\ Arrives(t, "by_signal", FALSE)
  <2>1. /\ pc' = [pc EXCEPT ![t] = "by_signal"]
        /\ status' = status /\ broadcast_event' = broadcast_event /\ signal_event' = FALSE
    BY <1>6 DEF Arrives
  <2>2. status = "SIGNAL"
    BY <1>0, <1>6 DEF Owned
  <2>3. Operating = "offered" /\ Operating' = "signal"
    BY <1>6, <2>1, <2>2, OperatingShown, ShownCases
  <2>4. Released = {}
    BY <1>0, <1>6, <2>2 DEF Knows, Released, At
  <2> QED
    BY <1>1, <1>3, <1>4, <2>1, <2>3, <2>4
       DEF Promise!Pass, Coming, Asleep, Released, Quitting
<1>7. CASE /\ broadcast_event = FALSE /\ signal_event = FALSE
           /\ Arrives(t, "blocked", signal_event)
  <2>1. /\ pc' = [pc EXCEPT ![t] = "blocked"] /\ Operating' = Operating
    BY <1>7, OperatingShown DEF Arrives
  <2>2. Operating \in {"none", "signal", "broadcast"}
    BY <1>0, <1>2, <1>7, OperatingShown, ShownCases DEF Statuses
  <2>3. Asleep' = Asleep \cup {t} /\ Released' = Released
    BY <1>0, <1>1, <2>1 DEF Released, Asleep, At
  <2> QED
    BY <1>1, <1>3, <2>1, <2>2, <2>3
       DEF Promise!Sleep, Coming, Asleep, Released, Quitting
<1> QED
  BY <1>0, <1>5, <1>6, <1>7, ArriveCases

LEMMA GiveUpStep ==
  ASSUME IInv, ~wiped, NEW t \in Threads, TimeOut(t) \/ Interrupted(t)
  PROVE  Promise!GiveUp(t)
<1>0. pc \in [Threads -> PCs]
  BY DEF IInv, Numbers
<1>1. /\ pc[t] \in {"arriving", "blocked"}
      /\ \E place \in {"timed_out", "interrupted"} : pc' = [pc EXCEPT ![t] = place]
      /\ UNCHANGED <<status, broadcast_event, signal_event>>
  BY DEF TimeOut, Interrupted, Go, word, events
<1>2. t \in Coming \cup Asleep
  BY <1>1 DEF Coming, Asleep, At
<1>3. Coming' = Coming \ {t} /\ Asleep' = Asleep \ {t}
  BY <1>0, <1>1 DEF Coming, Asleep, At
<1>4. Quitting' = Quitting \cup {t} /\ Released' = Released
  BY <1>0, <1>1 DEF Quitting, Released, At
<1>5. Operating' = Operating
  BY <1>1, OperatingShown
<1> QED
  BY <1>2, <1>3, <1>4, <1>5 DEF Promise!GiveUp, Coming, Asleep, Released, Quitting

LEMMA QuitStep ==
  ASSUME IInv, ~wiped, NEW t \in Threads, Unregister(t)
  PROVE  Promise!Quit(t)
<1>0. pc \in [Threads -> PCs]
  BY DEF IInv, Numbers
<1>1. /\ pc[t] \in {"timed_out", "interrupted"}
      /\ \E place \in {"locking", "in_interrupt"} : pc' = [pc EXCEPT ![t] = place]
      /\ UNCHANGED <<status, broadcast_event, signal_event>>
  BY DEF Unregister, Go, events
<1>2. t \in Quitting /\ Quitting' = Quitting \ {t}
  BY <1>0, <1>1 DEF Quitting, At
<1>3. Coming' = Coming /\ Asleep' = Asleep /\ Released' = Released
  BY <1>0, <1>1 DEF Coming, Asleep, Released, At
<1>4. Operating' = Operating
  BY <1>1, OperatingShown
<1> QED
  BY <1>2, <1>3, <1>4 DEF Promise!Quit, Coming, Asleep, Released, Quitting

(* Whoever the abstract condition variable has inside is counted.          *)
LEMMA InsideIsRegistered ==
  Promise!Inside = Registered
<1>1. Promise!Inside = Coming \cup Asleep \cup Released \cup Quitting
  BY DEF Promise!Inside, Coming, Asleep, Released, Quitting
<1> QED
  BY <1>1 DEF Coming, Asleep, Released, Quitting, At, Registered, Counting

(* A count of 1 is that of the only one inside.                            *)
LEMMA OnlyOne ==
  ASSUME Counted, NEW t \in Registered
  PROVE  wait_count = 1 <=> Registered = {t}
<1>1. ASSUME wait_count = 1
      PROVE  Registered = {t}
  <2>1. PICK u : Registered = {u}
    BY <1>1, FiniteRegistered, FS_Singleton DEF Counted
  <2> QED
    BY <2>1
<1>2. Registered = {t} => wait_count = 1
  BY FiniteRegistered, FS_Singleton DEF Counted
<1> QED
  BY <1>1, <1>2

LEMMA OutBySignalStep ==
  ASSUME IInv, ~wiped, NEW t \in Threads, OutBySignal(t)
  PROVE  Promise!Leave(t)
<1>0. pc \in [Threads -> PCs] /\ Flags /\ Knows(t) /\ Owned
  BY DEF IInv, Numbers, Operation
<1>1. /\ pc[t] = "by_signal" /\ pc' = [pc EXCEPT ![t] = "locking"] /\ status' = "none"
      /\ UNCHANGED <<broadcast_event, signal_event>>
  BY DEF OutBySignal, Go, events
<1>2. Operating = "signal" /\ Operating' = "none"
  BY <1>0, <1>1, OperatingShown, ShownCases DEF Knows
<1>3. t \in Released /\ Released' = Released \ {t}
  BY <1>0, <1>1 DEF Released, At
<1>4. Coming' = Coming /\ Asleep' = Asleep /\ Quitting' = Quitting
  BY <1>0, <1>1 DEF Coming, Asleep, Quitting, At
<1> QED
  BY <1>2, <1>3, <1>4 DEF Promise!Leave, Coming, Asleep, Released, Quitting

LEMMA OutByBroadcastStep ==
  ASSUME IInv, ~wiped, NEW t \in Threads, OutByBroadcast(t)
  PROVE  Promise!Leave(t)
<1>0. pc \in [Threads -> PCs] /\ Flags /\ Knows(t) /\ Owned /\ Counted
  BY DEF IInv, Numbers, Operation
<1>1. /\ pc[t] = "by_broadcast" /\ pc' = [pc EXCEPT ![t] = "locking"]
      /\ status' = "BROADCAST" /\ wait_count # 1
      /\ UNCHANGED <<broadcast_event, signal_event>>
  BY DEF OutByBroadcast, IsLast, Go, events
<1>2. signal_event = FALSE
  <2>1. signal_event # TRUE
    BY <1>0, <1>1 DEF Knows, Owned
  <2> QED
    BY <1>0, <2>1, Zenon DEF Flags
<1>3. Operating = "open" /\ Operating' = "open"
  BY <1>0, <1>1, <1>2, OperatingShown, ShownCases DEF Knows
<1>4. t \in Released /\ Released' = Released \ {t}
  BY <1>0, <1>1 DEF Released, At
<1>5. Coming' = Coming /\ Asleep' = Asleep /\ Quitting' = Quitting
  BY <1>0, <1>1 DEF Coming, Asleep, Quitting, At
<1>6. Promise!Inside # {t}
  <2>1. t \in Registered
    BY <1>1 DEF Registered, Counting
  <2> QED
    BY <1>0, <1>1, <2>1, OnlyOne, InsideIsRegistered
<1> QED
  BY <1>3, <1>4, <1>5, <1>6 DEF Promise!Leave, Coming, Asleep, Released, Quitting

LEMMA ResetStep ==
  ASSUME IInv, ~wiped, NEW t \in Threads, Reset(t), ~wiped'
  PROVE  Promise!Leave(t)
<1>0. pc \in [Threads -> PCs] /\ Flags /\ Knows(t) /\ Owned /\ Counted
  BY DEF IInv, Numbers, Operation
<1>1. /\ pc[t] = "last" /\ pc' = [pc EXCEPT ![t] = "clearing"] /\ status' = "RESET"
      /\ word = loaded[t] /\ UNCHANGED <<broadcast_event, signal_event>>
  BY DEF Reset, Go, events
<1>2. signal_event = FALSE
  <2>1. signal_event # TRUE
    BY <1>0, <1>1 DEF Knows, Owned
  <2> QED
    BY <1>0, <2>1, Zenon DEF Flags
<1>3. Operating = "open" /\ Operating' = "over"
  BY <1>0, <1>1, <1>2, OperatingShown, ShownCases DEF Knows
<1>4. t \in Released /\ Released' = Released \ {t}
  BY <1>0, <1>1 DEF Released, At
<1>5. Coming' = Coming /\ Asleep' = Asleep /\ Quitting' = Quitting
  BY <1>0, <1>1 DEF Coming, Asleep, Quitting, At
<1>6. Promise!Inside = {t}
  <2>1. t \in Registered
    BY <1>1 DEF Registered, Counting
  <2>2. wait_count = 1
    BY <1>0, <1>1 DEF Counted, word
  <2> QED
    BY <1>0, <2>1, <2>2, OnlyOne, InsideIsRegistered
<1> QED
  BY <1>3, <1>4, <1>5, <1>6 DEF Promise!Leave, Coming, Asleep, Released, Quitting

LEMMA BeginStep ==
  ASSUME IInv, ~wiped, NEW t \in Threads, Post(t)
  PROVE  Promise!Begin
<1>0. pc \in [Threads -> PCs] /\ Flags /\ Owned /\ Counted
  BY DEF IInv, Numbers, Operation
<1>1. /\ pc[t] \in {"signalling", "broadcasting"} /\ wait_count # 0
      /\ \E place \in {"setting_signal", "setting_broadcast"} : pc' = [pc EXCEPT ![t] = place]
      /\ status = "none" /\ status' \in {"SIGNAL", "BROADCAST"}
      /\ UNCHANGED <<broadcast_event, signal_event>>
  BY DEF Post, Go, events
<1>2. broadcast_event = FALSE /\ signal_event = FALSE
  <2>1. broadcast_event # TRUE /\ signal_event # TRUE
    BY <1>0, <1>1 DEF Owned
  <2> QED
    BY <1>0, <2>1, Zenon DEF Flags
<1>3. Operating = "none" /\ Operating' \in {"signal", "broadcast"}
  BY <1>1, <1>2, OperatingShown, ShownCases
<1>4. /\ Coming' = Coming /\ Asleep' = Asleep
      /\ Released' = Released /\ Quitting' = Quitting
  BY <1>0, <1>1 DEF Coming, Asleep, Released, Quitting, At
<1>5. Promise!Inside # {}
  <2>1. Registered # {}
    BY <1>0, <1>1, FS_EmptySet DEF Counted
  <2> QED
    BY <2>1, InsideIsRegistered
<1> QED
  BY <1>3, <1>4, <1>5 DEF Promise!Begin, Coming, Asleep, Released, Quitting

LEMMA WakeAllStep ==
  ASSUME IInv, ~wiped, NEW t \in Threads, SetBroadcast(t)
  PROVE  Promise!WakeAll
<1>0. pc \in [Threads -> PCs] /\ Flags /\ Owned /\ OneAgent /\ \A u \in Threads : Knows(u)
  BY DEF IInv, Numbers, Operation
<1>1. /\ pc[t] = "setting_broadcast" /\ broadcast_event' = TRUE
      /\ pc' = [u \in Threads |-> IF u = t THEN "running"
                                  ELSE IF pc[u] = "blocked" THEN "by_broadcast" ELSE pc[u]]
      /\ UNCHANGED <<status, signal_event>>
  BY DEF SetBroadcast, BroadcastStaysSet, word
<1>2. status = "BROADCAST" /\ broadcast_event = FALSE /\ signal_event = FALSE
  <2>1. status = "BROADCAST" /\ broadcast_event = FALSE /\ signal_event # TRUE
    BY <1>0, <1>1 DEF Knows, Owned
  <2> QED
    BY <1>0, <2>1, Zenon DEF Flags
<1>3. Operating = "broadcast" /\ Operating' = "open"
  BY <1>1, <1>2, OperatingShown, ShownCases
<1>4. Released = {}
  BY <1>0, <1>2 DEF Knows, Released, At
<1>5. \A u \in Threads : pc[u] \notin {"by_broadcast", "by_signal", "last"}
  BY <1>4 DEF Released, At
<1>6. Released' = Asleep /\ Asleep' = {}
  BY <1>0, <1>1, <1>5 DEF Released, Asleep, At
<1>7. Coming' = Coming /\ Quitting' = Quitting
  BY <1>0, <1>1 DEF Coming, Quitting, At
<1> QED
  BY <1>3, <1>4, <1>6, <1>7 DEF Promise!WakeAll, Coming, Asleep, Released, Quitting

LEMMA WakeOneStep ==
  ASSUME IInv, ~wiped, NEW t \in Threads, SetSignal(t)
  PROVE  Promise!WakeOne \/ Promise!Offer
<1>0. pc \in [Threads -> PCs] /\ Flags /\ Owned /\ OneAgent /\ \A u \in Threads : Knows(u)
  BY DEF IInv, Numbers, Operation
<1>1. pc[t] = "setting_signal" /\ status' = status
  BY DEF SetSignal, word
<1>2. status = "SIGNAL" /\ signal_event = FALSE
  BY <1>0, <1>1 DEF Knows
<1>3. Released = {}
  BY <1>0, <1>1, <1>2 DEF Knows, OneAgent, Agents, Released, At
<1>4. Operating = "signal"
  BY <1>1, <1>2, OperatingShown, ShownCases
<1>5. CASE At("blocked") = {}
  <2>1. signal_event' = TRUE /\ pc' = [pc EXCEPT ![t] = "running"]
    BY <1>5 DEF SetSignal, Go
  <2>2. Operating' = "offered"
    BY <2>1, OperatingShown, ShownCases
  <2>3. /\ Coming' = Coming /\ Asleep' = Asleep
        /\ Released' = Released /\ Quitting' = Quitting
    BY <1>0, <1>1, <2>1 DEF Coming, Asleep, Released, Quitting, At
  <2>4. Asleep = {}
    BY <1>5 DEF Asleep
  <2> QED
    BY <1>3, <1>4, <2>2, <2>3, <2>4 DEF Promise!Offer, Coming, Asleep, Released, Quitting
<1>6. CASE At("blocked") # {}
  <2>1. signal_event' = signal_event
    BY <1>6 DEF SetSignal
  <2>2. PICK u \in Threads : /\ pc[u] = "blocked"
                             /\ pc' = [pc EXCEPT ![t] = "running", ![u] = "by_signal"]
    BY <1>6 DEF SetSignal, At
  <2>3. Operating' = "signal"
    BY <1>1, <1>2, <2>1, OperatingShown, ShownCases
  <2>4. u \in Asleep /\ Asleep' = Asleep \ {u}
    BY <1>0, <1>1, <2>2 DEF Asleep, At
  <2>5. Coming' = Coming /\ Quitting' = Quitting
    BY <1>0, <1>1, <2>2 DEF Coming, Quitting, At
  <2>6. Released' = {u}
    <3>1. \A v \in Threads : pc[v] \notin {"by_broadcast", "by_signal", "last"}
      BY <1>3 DEF Released, At
    <3> QED
      BY <1>0, <1>1, <2>2, <3>1 DEF Released, At
  <2> QED
    BY <1>3, <1>4, <2>3, <2>4, <2>5, <2>6
       DEF Promise!WakeOne, Coming, Asleep, Released, Quitting
<1> QED
  BY <1>5, <1>6

LEMMA EndStep ==
  ASSUME IInv, ~wiped, NEW t \in Threads, ResetDone(t)
  PROVE  Promise!End
<1>0. pc \in [Threads -> PCs] /\ Flags /\ Owned /\ Knows(t)
  BY DEF IInv, Numbers, Operation
<1>1. /\ pc[t] = "cleared" /\ pc' = [pc EXCEPT ![t] = "locking"] /\ status' = "none"
      /\ UNCHANGED <<broadcast_event, signal_event>>
  BY DEF ResetDone, Go, events
<1>2. status = "RESET" /\ signal_event = FALSE
  <2>1. status = "RESET" /\ signal_event # TRUE
    BY <1>0, <1>1 DEF Knows, Owned
  <2> QED
    BY <1>0, <2>1, Zenon DEF Flags
<1>3. Operating = "over" /\ Operating' = "none"
  BY <1>1, <1>2, OperatingShown, ShownCases
<1>4. /\ Coming' = Coming /\ Asleep' = Asleep
      /\ Released' = Released /\ Quitting' = Quitting
  BY <1>0, <1>1 DEF Coming, Asleep, Released, Quitting, At
<1> QED
  BY <1>3, <1>4 DEF Promise!End, Coming, Asleep, Released, Quitting

(* The other steps change nothing that the promise is about.               *)
LEMMA OtherSteps ==
  ASSUME IInv, ~wiped, NEW t \in Threads,
         \/ Take(t) \/ Give(t) \/ ReleaseMutex(t) \/ InterruptEnds(t)
         \/ LastByBroadcast(t) \/ ResetEvent(t) \/ Call(t) \/ NothingToDo(t)
  PROVE  UNCHANGED Promise!wvars
<1>0. pc \in [Threads -> PCs] /\ Flags /\ Owned /\ Knows(t)
  BY DEF IInv, Numbers, Operation
<1>1. /\ Coming' = Coming /\ Asleep' = Asleep
      /\ Released' = Released /\ Quitting' = Quitting
  BY <1>0 DEF Take, Give, ReleaseMutex, InterruptEnds, LastByBroadcast, ResetEvent,
              Call, NothingToDo, Go, Coming, Asleep, Released, Quitting, At
<1>2. CASE ResetEvent(t)
  <2>1. pc[t] = "clearing" /\ UNCHANGED <<status, signal_event>>
    BY <1>2 DEF ResetEvent, word
  <2>2. status = "RESET" /\ signal_event = FALSE
    <3>1. status = "RESET" /\ signal_event # TRUE
      BY <1>0, <2>1 DEF Knows, Owned
    <3> QED
      BY <1>0, <3>1, Zenon DEF Flags
  <2>3. Operating = "over" /\ Operating' = "over"
    BY <2>1, <2>2, OperatingShown, ShownCases
  <2> QED
    BY <1>1, <2>3 DEF Promise!wvars, Coming, Asleep, Released, Quitting
<1>3. ASSUME UNCHANGED <<word, events>>
      PROVE  UNCHANGED Promise!wvars
  <2>1. Operating' = Operating
    BY <1>3, OperatingShown DEF word, events
  <2> QED
    BY <1>1, <2>1 DEF Promise!wvars, Coming, Asleep, Released, Quitting
<1>4. CASE \/ Take(t) \/ Give(t) \/ ReleaseMutex(t) \/ InterruptEnds(t)
           \/ LastByBroadcast(t) \/ Call(t) \/ NothingToDo(t)
  BY <1>3, <1>4 DEF Take, Give, ReleaseMutex, InterruptEnds, LastByBroadcast,
                    Call, NothingToDo
<1> QED
  BY <1>2, <1>4

LEMMA PromisedStep ==
  ASSUME IInv, [Next]_vars
  PROVE  [Promise!Next]_(Promise!avars)
<1>1. CASE UNCHANGED vars
  <2>1. UNCHANGED <<Coming, Asleep, Released, Quitting>>
    BY <1>1 DEF vars, Coming, Asleep, Released, Quitting, At
  <2>2. Operating' = Operating /\ wiped' = wiped
    BY <1>1, OperatingShown DEF vars, word, events
  <2> QED
    BY <2>1, <2>2 DEF Promise!avars, Promise!wvars, Coming, Asleep, Released, Quitting
<1>2. CASE wiped' = TRUE
  BY <1>2, Zenon DEF Promise!Next
<1>3. CASE Next /\ wiped' = FALSE
  <2> PICK t \in Threads :
        \/ Take(t) \/ Give(t)
        \/ Register(t) \/ ReleaseMutex(t) \/ Arrive(t)
        \/ TimeOut(t) \/ Interrupted(t) \/ Unregister(t) \/ InterruptEnds(t)
        \/ OutBySignal(t) \/ OutByBroadcast(t) \/ LastByBroadcast(t)
        \/ Reset(t) \/ ResetEvent(t) \/ ResetDone(t)
        \/ Call(t) \/ NothingToDo(t) \/ Post(t) \/ SetBroadcast(t) \/ SetSignal(t)
    BY <1>3 DEF Next
  <2>1. wiped = FALSE
    <3>1. wiped \in BOOLEAN
      BY DEF IInv, Flags
    <3>2. CASE Reset(t)
      <4>1. ~wiped
        BY <1>3, <3>2, Zenon DEF Reset
      <4> QED
        BY <3>1, <4>1, Zenon
    <3>3. CASE \/ Take(t) \/ Give(t)
               \/ Register(t) \/ ReleaseMutex(t) \/ Arrive(t)
               \/ TimeOut(t) \/ Interrupted(t) \/ Unregister(t) \/ InterruptEnds(t)
               \/ OutBySignal(t) \/ OutByBroadcast(t) \/ LastByBroadcast(t)
               \/ ResetEvent(t) \/ ResetDone(t)
               \/ Call(t) \/ NothingToDo(t) \/ Post(t) \/ SetBroadcast(t) \/ SetSignal(t)
      <4>1. wiped' = wiped
        BY <3>3 DEF Take, Give, Register, ReleaseMutex, Arrive, TimeOut, Interrupted,
                    Unregister, InterruptEnds, OutBySignal, OutByBroadcast, LastByBroadcast,
                    ResetEvent, ResetDone, Call, NothingToDo, Post, SetBroadcast, SetSignal
      <4> QED
        BY <1>3, <4>1
    <3> QED
      BY <3>2, <3>3
  <2>2. ~wiped /\ ~wiped'
    BY <1>3, <2>1
  <2>3. Promise!Promised => Promise!Next
    BY <2>2, Zenon DEF Promise!Next
  <2>4. \/ Promise!Join(t) \/ Promise!Sleep(t) \/ Promise!Pass(t)
        \/ Promise!GiveUp(t) \/ Promise!Quit(t) \/ Promise!Leave(t)
        \/ Promise!Begin \/ Promise!WakeOne \/ Promise!Offer
        \/ Promise!WakeAll \/ Promise!End
        \/ UNCHANGED Promise!wvars
    BY <2>2, JoinStep, ArriveStep, GiveUpStep, QuitStep, OutBySignalStep,
       OutByBroadcastStep, ResetStep, BeginStep, WakeOneStep, WakeAllStep, EndStep,
       OtherSteps
  <2>5. CASE UNCHANGED Promise!wvars
    BY <1>3, <2>1, <2>5 DEF Promise!avars
  <2>6. CASE \/ Promise!Join(t) \/ Promise!Sleep(t) \/ Promise!Pass(t)
             \/ Promise!GiveUp(t) \/ Promise!Quit(t) \/ Promise!Leave(t)
             \/ Promise!Begin \/ Promise!WakeOne \/ Promise!Offer
             \/ Promise!WakeAll \/ Promise!End
    BY <2>3, <2>6 DEF Promise!Promised
  <2> QED
    BY <2>4, <2>5, <2>6
<1>4. wiped' = TRUE \/ wiped' = FALSE
  <2>1. Flags'
    BY FlagsStep DEF IInv
  <2> QED
    BY <2>1, Zenon DEF Flags
<1> QED
  BY <1>1, <1>2, <1>3, <1>4

(* Until line 557 overwrites the word, the count, the status and the two   *)
(* events make a condition variable: one operation at a time, a signal     *)
(* wakes one thread or is kept, a broadcast wakes all and is over only     *)
(* when nobody is left, whoever comes, times out or is interrupted.        *)
THEOREM WordImplementsCondVar == Spec => ImplementsCondVar
<1>1. Init => Promise!Init
  <2> SUFFICES ASSUME Init
               PROVE  Promise!Init
    OBVIOUS
  <2>1. Coming = {} /\ Asleep = {} /\ Released = {} /\ Quitting = {}
    BY DEF Init, Coming, Asleep, Released, Quitting, At
  <2>2. Operating = "none"
    BY OperatingShown, ShownCases DEF Init
  <2> QED
    BY <2>1, <2>2 DEF Init, Promise!Init, Coming, Asleep, Released, Quitting
<1>2. IInv /\ [Next]_vars => [Promise!Next]_(Promise!avars)
  BY PromisedStep
<1>3. Spec => []IInv
  BY Initial, Inductive, PTL DEF Spec
<1> QED
  BY <1>1, <1>2, <1>3, PTL DEF Spec, ImplementsCondVar, Promise!Spec
=============================================================================
