---------------------------- MODULE Mailbox_proofs ----------------------------
(***************************************************************************)
(* Proofs about Mailbox: its types, that pointers and count agree, that no *)
(* wakeup is lost, and that the ring buffer is the bounded queue of        *)
(* BoundedFIFO.                                                            *)
(***************************************************************************)
EXTENDS Mailbox, FiniteSetTheorems, SequenceTheorems, TLAPS

Senders == {"sending", "sender"}

(* The slot i places after slot r.                                         *)
After(r, i) == IF r + i < Capacity THEN r + i ELSE r + i - Capacity

(* What lies between the pointers are messages.                            *)
Ring ==
  /\ message_count \in 0 .. Capacity
  /\ read_pointer \in Slots \cup {0}
  /\ write_pointer \in Slots \cup {0}
  /\ data \in [Slots -> Messages \cup {NoMessage}]
  /\ Capacity > 0 => write_pointer = IF message_count = Capacity
                                     THEN read_pointer
                                     ELSE After(read_pointer, message_count)
  /\ \A i \in 0 .. message_count - 1 : data[After(read_pointer, i)] \in Messages

(* A thread that waits to send holds a message.                            *)
Places ==
  /\ pc \in [Threads -> PCs]
  /\ msg \in [Threads -> Messages \cup {NoMessage}]
  /\ \A t \in Threads : pc[t] \in Senders => msg[t] \in Messages

Answered == last \in {<<>>} \cup (Threads \X Answers)

IInv ==
  /\ Ring
  /\ Places
  /\ Answered
  /\ NoLostWakeup

USE ThreadsAssumption, MessagesAssumption, CapacityAssumption
DEF ThreadsAssumption, MessagesAssumption, CapacityAssumption

-----------------------------------------------------------------------------
(* The ring                                                                *)

(* As many slots as the ring has are all different.                        *)
LEMMA SlotsDiffer ==
  ASSUME NEW r \in 0 .. Capacity - 1, NEW i \in 0 .. Capacity - 1
  PROVE  /\ After(r, i) \in 0 .. Capacity - 1
         /\ \A j \in 0 .. Capacity - 1 : i # j => After(r, i) # After(r, j)
BY DEF After

LEMMA NextIsAfter ==
  ASSUME NEW r \in 0 .. Capacity - 1
  PROVE  /\ NextSlot(r) \in 0 .. Capacity - 1
         /\ \A i \in 0 .. Capacity - 1 : After(NextSlot(r), i) = After(r, i + 1)
         /\ \A i \in 0 .. Capacity - 1 : NextSlot(After(r, i)) = After(NextSlot(r), i)
         /\ After(r, 0) = r /\ After(r, Capacity) = r
BY DEF After, NextSlot

(* Taking the oldest message out.                                          *)
LEMMA TakeStep ==
  ASSUME Ring, ~Empty,
         read_pointer' = NextSlot(read_pointer), message_count' = message_count - 1,
         UNCHANGED <<data, write_pointer>>
  PROVE  /\ Ring'
         /\ message_count \in Nat \ {0}
         /\ data[read_pointer] \in Messages
         /\ After(read_pointer, 0) = read_pointer
         /\ \A i \in 0 .. message_count - 2 :
              After(read_pointer', i) = After(read_pointer, i + 1)
<1>1. message_count \in 1 .. Capacity /\ read_pointer \in 0 .. Capacity - 1
  BY DEF Ring, Empty, Slots
<1>2. /\ read_pointer' \in 0 .. Capacity - 1
      /\ \A i \in 0 .. Capacity - 1 : After(read_pointer', i) = After(read_pointer, i + 1)
      /\ After(read_pointer, 0) = read_pointer
      /\ After(read_pointer, Capacity) = read_pointer
  BY <1>1, NextIsAfter
<1>3. write_pointer' = After(read_pointer', message_count')
  <2>1. write_pointer = After(read_pointer, message_count)
    BY <1>1, <1>2 DEF Ring
  <2>2. After(read_pointer', message_count - 1) = After(read_pointer, message_count - 1 + 1)
    BY <1>1, <1>2
  <2> QED
    BY <1>1, <2>1, <2>2
<1>4. \A i \in 0 .. message_count' - 1 : data'[After(read_pointer', i)] \in Messages
  <2> SUFFICES ASSUME NEW i \in 0 .. message_count - 2
               PROVE  data[After(read_pointer', i)] \in Messages
    BY <1>1
  <2>1. i + 1 \in 0 .. message_count - 1 /\ i \in 0 .. Capacity - 1
    BY <1>1
  <2> QED
    BY <1>2, <2>1 DEF Ring
<1>5. data[read_pointer] \in Messages
  BY <1>1, <1>2 DEF Ring
<1>6. Ring'
  BY <1>1, <1>2, <1>3, <1>4 DEF Ring, Slots
<1> QED
  BY <1>1, <1>2, <1>5, <1>6

(* Putting a message behind the youngest.                                  *)
LEMMA StoreStep ==
  ASSUME Ring, ~Full, NEW m \in Messages,
         write_pointer' = NextSlot(write_pointer), message_count' = message_count + 1,
         data' = [data EXCEPT ![write_pointer] = m], UNCHANGED read_pointer
  PROVE  /\ Ring'
         /\ message_count \in Nat /\ message_count < Capacity
         /\ data'[After(read_pointer, message_count)] = m
         /\ \A i \in 0 .. message_count - 1 :
              data'[After(read_pointer, i)] = data[After(read_pointer, i)]
<1>1. /\ message_count \in 0 .. Capacity - 1
      /\ read_pointer \in 0 .. Capacity - 1
      /\ write_pointer = After(read_pointer, message_count)
  BY DEF Ring, Full, Slots
<1>2. write_pointer \in Slots
  BY <1>1, SlotsDiffer DEF Slots
<1>3. data'[After(read_pointer, message_count)] = m
  BY <1>1, <1>2 DEF Ring
<1>4. \A i \in 0 .. message_count - 1 :
        data'[After(read_pointer, i)] = data[After(read_pointer, i)]
  BY <1>1, SlotsDiffer DEF Ring, Slots
<1>5. write_pointer' = After(read_pointer, message_count + 1)
  BY <1>1, NextIsAfter
<1>6. After(read_pointer, Capacity) = read_pointer
  BY <1>1, NextIsAfter
<1>7. write_pointer' \in Slots
  BY <1>2, NextIsAfter DEF Slots
<1>8. \A i \in 0 .. message_count' - 1 : data'[After(read_pointer', i)] \in Messages
  <2> SUFFICES ASSUME NEW i \in 0 .. message_count
               PROVE  data'[After(read_pointer, i)] \in Messages
    BY <1>1
  <2>1. CASE i = message_count
    BY <1>3, <2>1
  <2>2. CASE i # message_count
    BY <1>1, <1>4, <2>2 DEF Ring
  <2> QED
    BY <2>1, <2>2
<1>9. data' \in [Slots -> Messages \cup {NoMessage}]
  BY DEF Ring
<1>10. Ring'
  BY <1>1, <1>5, <1>6, <1>7, <1>8, <1>9 DEF Ring
<1> QED
  BY <1>1, <1>3, <1>4, <1>10

-----------------------------------------------------------------------------
(* The threads                                                             *)

LEMMA FinitePlaces ==
  ASSUME NEW S
  PROVE  /\ IsFiniteSet(At(S)) /\ Cardinality(At(S)) \in Nat
         /\ IsFiniteSet(At(S)') /\ Cardinality(At(S)') \in Nat
<1>1. At(S) \subseteq Threads /\ At(S)' \subseteq Threads
  BY DEF At
<1> QED
  BY <1>1, FS_Subset, FS_CardinalityType

LEMMA OneMore ==
  ASSUME NEW S, NEW t \in Threads, t \notin At(S), At(S)' = At(S) \cup {t}
  PROVE  Cardinality(At(S)') = Cardinality(At(S)) + 1
BY FinitePlaces, FS_AddElement

LEMMA AtMostOneLess ==
  ASSUME NEW S, NEW t, At(S)' = At(S) \ {t}
  PROVE  /\ Cardinality(At(S)') >= Cardinality(At(S)) - 1
         /\ t \notin At(S) => Cardinality(At(S)') = Cardinality(At(S))
<1>1. Cardinality(At(S)') = IF t \in At(S) THEN Cardinality(At(S)) - 1 ELSE Cardinality(At(S))
  BY FinitePlaces, FS_RemoveElement
<1> QED
  BY <1>1, FinitePlaces

(* A thread that is through, reading or sending, leaves its place and      *)
(* signals the other side.                                                 *)
Handed(t, asleep, mine, from, to) ==
  /\ pc' \in [Threads -> PCs]
  /\ \A u \in Threads : pc'[u] \in Senders => pc[u] \in Senders /\ u # t
  /\ At({asleep})' = At({asleep})
  /\ Cardinality(At({mine})') >= Cardinality(At({mine})) - 1
  /\ pc[t] = "running" => Cardinality(At({mine})') = Cardinality(At({mine}))
  /\ At({from})' # {} => /\ At({from}) # {}
                         /\ Cardinality(At({to})') = Cardinality(At({to})) + 1

LEMMA Handover ==
  ASSUME Places, NEW t \in Threads, NEW asleep, NEW mine, NEW from, NEW to,
         \/ asleep = "reading" /\ mine = "reader" /\ from = "sending" /\ to = "sender"
         \/ asleep = "sending" /\ mine = "sender" /\ from = "reading" /\ to = "reader",
         pc[t] \in {"running", mine},
         pc' \in Signal([pc EXCEPT ![t] = "running"], from, to)
  PROVE  Handed(t, asleep, mine, from, to)
<1> DEFINE p == [pc EXCEPT ![t] = "running"]
<1>1. /\ p \in [Threads -> PCs] /\ p[t] = "running"
      /\ \A u \in Threads : u # t => p[u] = pc[u]
  BY DEF Places, PCs
<1>2. /\ At({asleep}) \subseteq Threads \ {t} /\ At({from}) \subseteq Threads \ {t}
      /\ At({to}) \subseteq Threads \ {t}
  BY DEF At
<1>3. CASE \A u \in Threads : p[u] # from
  <2>1. pc' = p
    BY <1>3 DEF Signal
  <2>2. At({from})' = {}
    BY <1>3, <2>1 DEF At
  <2>3. At({asleep})' = At({asleep}) /\ At({mine})' = At({mine}) \ {t}
    BY <1>1, <1>2, <2>1 DEF At
  <2>4. \A u \in Threads : pc'[u] \in Senders => pc[u] \in Senders /\ u # t
    BY <1>1, <2>1 DEF Senders
  <2>5. pc[t] = "running" => t \notin At({mine})
    BY DEF At
  <2> QED
    BY <1>1, <2>1, <2>2, <2>3, <2>4, <2>5, AtMostOneLess DEF Handed
<1>4. CASE \E u \in Threads : p[u] = from
  <2>1. PICK u \in Threads : p[u] = from /\ pc' = [p EXCEPT ![u] = to]
    BY <1>4 DEF Signal, OneWoken
  <2>2. u # t /\ pc[u] = from
    BY <1>1, <2>1
  <2>3. /\ pc'[u] = to /\ pc'[t] = "running"
        /\ \A v \in Threads \ {u, t} : pc'[v] = pc[v]
    BY <1>1, <2>1, <2>2
  <2>4. pc' \in [Threads -> PCs]
    BY <1>1, <2>1 DEF PCs
  <2>5. At({asleep})' = At({asleep}) /\ At({mine})' = At({mine}) \ {t}
    BY <1>2, <2>2, <2>3 DEF At
  <2>6. u \notin At({to}) /\ At({to})' = At({to}) \cup {u} /\ At({from}) # {}
    BY <1>2, <2>2, <2>3 DEF At
  <2>7. \A v \in Threads : pc'[v] \in Senders => pc[v] \in Senders /\ v # t
    BY <2>2, <2>3 DEF Senders
  <2>8. pc[t] = "running" => t \notin At({mine})
    BY DEF At
  <2> QED
    BY <2>4, <2>5, <2>6, <2>7, <2>8, OneMore, AtMostOneLess DEF Handed
<1> QED
  BY <1>3, <1>4

-----------------------------------------------------------------------------
(* The steps                                                               *)

LEMMA ReadStep ==
  ASSUME IInv, NEW t \in Threads, pc[t] \in {"running", "reader"}, ~Empty, read_message(t)
  PROVE  IInv'
<1>0. Ring /\ Places /\ NoLostWakeup
  BY DEF IInv
<1>1. Ring' /\ message_count \in Nat \ {0} /\ data[read_pointer] \in Messages
  BY <1>0, TakeStep DEF read_message
<1>2. /\ pc' \in [Threads -> PCs]
      /\ \A u \in Threads : pc'[u] \in Senders => pc[u] \in Senders
      /\ At({"reading"})' = At({"reading"})
      /\ Cardinality(At({"reader"})') >= Cardinality(At({"reader"})) - 1
      /\ At({"sending"})' # {} => /\ At({"sending"}) # {}
                                  /\ Cardinality(At({"sender"})') = Cardinality(At({"sender"})) + 1
  <2>1. pc' \in Signal([pc EXCEPT ![t] = "running"], "sending", "sender")
    BY DEF read_message
  <2>2. Handed(t, "reading", "reader", "sending", "sender")
    BY <1>0, <2>1, Handover
  <2> QED
    BY <2>2 DEF Handed
<1>3. message_count' = message_count - 1 /\ msg' = msg /\ last' = <<t, data[read_pointer]>>
  BY DEF read_message
<1>4. Places'
  BY <1>0, <1>2, <1>3 DEF Places
<1>5. Answered'
  BY <1>1, <1>3 DEF Answered, Answers
<1>6. /\ Cardinality(At({"reader"})) \in Nat /\ Cardinality(At({"reader"})') \in Nat
      /\ Cardinality(At({"sender"})) \in Nat
  BY FinitePlaces
<1>7. NoLostWakeup'
  BY <1>0, <1>1, <1>2, <1>3, <1>6 DEF NoLostWakeup
<1> QED
  BY <1>1, <1>4, <1>5, <1>7 DEF IInv

LEMMA SendStep ==
  ASSUME IInv, NEW t \in Threads, pc[t] \in {"running", "sender"}, ~Full,
         NEW m \in Messages, store_message(t, m)
  PROVE  IInv'
<1>0. Ring /\ Places /\ NoLostWakeup
  BY DEF IInv
<1>1. Ring' /\ message_count \in Nat /\ message_count < Capacity
  BY <1>0, StoreStep DEF store_message
<1>2. /\ pc' \in [Threads -> PCs]
      /\ \A u \in Threads : pc'[u] \in Senders => pc[u] \in Senders /\ u # t
      /\ At({"sending"})' = At({"sending"})
      /\ Cardinality(At({"sender"})') >= Cardinality(At({"sender"})) - 1
      /\ At({"reading"})' # {} => /\ At({"reading"}) # {}
                                  /\ Cardinality(At({"reader"})') = Cardinality(At({"reader"})) + 1
  <2>1. pc' \in Signal([pc EXCEPT ![t] = "running"], "reading", "reader")
    BY DEF store_message
  <2>2. Handed(t, "sending", "sender", "reading", "reader")
    BY <1>0, <2>1, Handover
  <2> QED
    BY <2>2 DEF Handed
<1>3. message_count' = message_count + 1 /\ msg' = [msg EXCEPT ![t] = NoMessage] /\ last' = <<t, T>>
  BY DEF store_message
<1>4. Places'
  BY <1>0, <1>2, <1>3 DEF Places
<1>5. Answered'
  BY <1>3 DEF Answered, Answers
<1>6. /\ Cardinality(At({"sender"})) \in Nat /\ Cardinality(At({"sender"})') \in Nat
      /\ Cardinality(At({"reader"})) \in Nat
  BY FinitePlaces
<1>7. NoLostWakeup'
  BY <1>0, <1>1, <1>2, <1>3, <1>6 DEF NoLostWakeup
<1> QED
  BY <1>1, <1>4, <1>5, <1>7 DEF IInv

(* What leaves the ring alone.                                             *)
Fails(t) == TryReadFails(t) \/ TrySendFails(t) \/ GiveUp(t)
Sleeps(t) ==
  \/ ReadWaits(t) \/ ReadWaitsAgain(t) \/ SendWaitsAgain(t)
  \/ \E m \in Messages : SendWaits(t, m)
Stirs(t) ==
  SpuriousWakeup(t) \/ Expire(t) \/ ReadTypeError(t) \/ SendTypeError(t)

LEMMA RingStays ==
  ASSUME Ring, UNCHANGED fields
  PROVE  Ring'
BY DEF Ring, fields

LEMMA FailStep ==
  ASSUME IInv, NEW t \in Threads, Fails(t)
  PROVE  IInv' /\ UNCHANGED fields /\ last' = <<t, NIL>>
<1>0. Ring /\ Places /\ NoLostWakeup
  BY DEF IInv
<1>1. UNCHANGED fields /\ last' = <<t, NIL>>
  BY DEF Fails, TryReadFails, TrySendFails, GiveUp
<1>2. Places'
  BY <1>0 DEF Fails, TryReadFails, TrySendFails, GiveUp, Places, PCs, Senders
<1>3. \A c \in {"reading", "reader", "sending", "sender"} : At({c})' = At({c})
  BY <1>0 DEF Fails, TryReadFails, TrySendFails, GiveUp, Places, At
<1>4. NoLostWakeup'
  BY <1>0, <1>1, <1>3 DEF NoLostWakeup, fields
<1>5. Answered'
  BY <1>1 DEF Answered, Answers
<1> QED
  BY <1>0, <1>1, <1>2, <1>4, <1>5, RingStays DEF IInv

LEMMA SleepStep ==
  ASSUME IInv, NEW t \in Threads, Sleeps(t)
  PROVE  IInv' /\ UNCHANGED <<fields, last>>
<1>0. Ring /\ Places /\ NoLostWakeup
  BY DEF IInv
<1>1. UNCHANGED <<fields, last>>
  BY DEF Sleeps, ReadWaits, ReadWaitsAgain, SendWaitsAgain, SendWaits
<1>2. Places'
  BY <1>0
  DEF Sleeps, ReadWaits, ReadWaitsAgain, SendWaitsAgain, SendWaits, Places, PCs, Senders
<1>3. NoLostWakeup'
  <2>1. CASE ReadWaits(t) \/ ReadWaitsAgain(t)
    <3>1. message_count' = 0 /\ At({"sending"})' = At({"sending"}) /\ message_count' = message_count
          /\ At({"sender"})' = At({"sender"})
      BY <1>0, <2>1 DEF ReadWaits, ReadWaitsAgain, Empty, fields, Places, At
    <3>2. Cardinality(At({"reader"})') \in Nat
      BY FinitePlaces
    <3> QED
      BY <1>0, <3>1, <3>2 DEF NoLostWakeup
  <2>2. CASE SendWaitsAgain(t) \/ \E m \in Messages : SendWaits(t, m)
    <3>1. message_count' = Capacity /\ At({"reading"})' = At({"reading"}) /\ message_count' = message_count
          /\ At({"reader"})' = At({"reader"})
      BY <1>0, <2>2 DEF SendWaits, SendWaitsAgain, Full, fields, Places, At
    <3>2. Cardinality(At({"sender"})') \in Nat
      BY FinitePlaces
    <3> QED
      BY <1>0, <3>1, <3>2 DEF NoLostWakeup
  <2> QED
    BY <2>1, <2>2 DEF Sleeps
<1> QED
  BY <1>0, <1>1, <1>2, <1>3, RingStays DEF IInv, Answered

LEMMA StirStep ==
  ASSUME IInv, NEW t \in Threads, Stirs(t)
  PROVE  IInv' /\ UNCHANGED <<fields, last>>
<1>0. Ring /\ Places /\ NoLostWakeup
  BY DEF IInv
<1>1. UNCHANGED <<fields, last, msg>>
  BY DEF Stirs, SpuriousWakeup, Expire, ReadTypeError, SendTypeError
<1>2. Places'
  BY <1>0 DEF Stirs, SpuriousWakeup, Expire, ReadTypeError, SendTypeError, Places,
     PCs, Senders
<1>3. \A c \in {"reader", "sender"} :
        /\ Cardinality(At({c})') >= Cardinality(At({c}))
        /\ Cardinality(At({c})') \in Nat /\ Cardinality(At({c})) \in Nat
  <2> SUFFICES ASSUME NEW c \in {"reader", "sender"}
               PROVE  Cardinality(At({c})') >= Cardinality(At({c}))
    BY FinitePlaces
  <2>1. \/ At({c})' = At({c})
        \/ t \notin At({c}) /\ At({c})' = At({c}) \cup {t}
    BY <1>0 DEF Stirs, SpuriousWakeup, Expire, ReadTypeError, SendTypeError, Places,
       At
  <2> QED
    BY <2>1, OneMore, FinitePlaces
<1>4. At({"reading"})' \subseteq At({"reading"}) /\ At({"sending"})' \subseteq At({"sending"})
  BY <1>0 DEF Stirs, SpuriousWakeup, Expire, ReadTypeError, SendTypeError, Places,
     At
<1>5. NoLostWakeup'
  <2>1. message_count' = message_count /\ message_count \in Nat
    BY <1>0, <1>1 DEF fields, Ring
  <2> QED
    BY <1>0, <1>3, <1>4, <2>1 DEF NoLostWakeup
<1> QED
  BY <1>0, <1>1, <1>2, <1>5, RingStays DEF IInv, Answered

LEMMA Initial == Init => IInv
<1> SUFFICES ASSUME Init
             PROVE  IInv
  OBVIOUS
<1>1. Ring
  BY DEF Init, Ring, After, Slots
<1>2. Places
  BY DEF Init, Places, PCs, Senders
<1>3. Answered
  BY DEF Init, Answered
<1>4. NoLostWakeup
  BY DEF Init, NoLostWakeup, At
<1> QED
  BY <1>1, <1>2, <1>3, <1>4 DEF IInv

(* Every step is one of these.                                             *)
LEMMA StepsAre ==
  ASSUME IInv, Next
  PROVE  \E t \in Threads :
           \/ pc[t] \in {"running", "reader"} /\ ~Empty /\ read_message(t)
           \/ /\ pc[t] \in {"running", "sender"} /\ ~Full
              /\ \E m \in Messages : store_message(t, m)
           \/ Fails(t) \/ Sleeps(t) \/ Stirs(t)
<1>1. PICK t \in Threads :
        Reads(t) \/ Sends(t) \/ AfterWait(t) \/ SpuriousWakeup(t) \/ Expire(t)
  BY DEF Next
<1>2. SendAfterWait(t) => \E m \in Messages : store_message(t, m)
  BY DEF SendAfterWait, IInv, Places, Senders
<1>3. CASE Reads(t)
  BY <1>3 DEF Reads, Read, Fails, Sleeps, Stirs
<1>4. CASE Sends(t)
  BY <1>4 DEF Sends, Send, Fails, Sleeps, Stirs
<1>5. CASE AfterWait(t)
  BY <1>2, <1>5 DEF AfterWait, ReadAfterWait, SendAfterWait, Fails, Sleeps
<1> QED
  BY <1>1, <1>3, <1>4, <1>5 DEF Stirs

LEMMA Inductive == IInv /\ [Next]_vars => IInv'
<1> SUFFICES ASSUME IInv, [Next]_vars
             PROVE  IInv'
  OBVIOUS
<1>1. CASE Next
  BY <1>1, StepsAre, ReadStep, SendStep, FailStep, SleepStep, StirStep
<1>2. CASE UNCHANGED vars
  <2>1. Ring'
    BY <1>2, RingStays DEF vars, fields, IInv
  <2>2. Places' /\ Answered'
    BY <1>2 DEF vars, IInv, Places, Answered
  <2>3. NoLostWakeup'
    BY <1>2 DEF vars, IInv, NoLostWakeup, At
  <2> QED
    BY <2>1, <2>2, <2>3 DEF IInv
<1> QED
  BY <1>1, <1>2

-----------------------------------------------------------------------------
(* Whoever leaves the mutex locked is a thread.                            *)
Owned == mutex \in Threads \cup {NoThread}

LEMMA OwnedStep == Owned /\ [Next]_vars => Owned'
<1> SUFFICES ASSUME Owned, [Next]_vars
             PROVE  Owned'
  OBVIOUS
<1> USE DEF Owned
<1>1. CASE UNCHANGED vars
  BY <1>1 DEF vars
<1>2. ASSUME NEW t \in Threads, Reads(t)
      PROVE  Owned'
  BY <1>2 DEF Reads, Read, TryReadFails, ReadWaits, ReadTypeError, read_message
<1>3. ASSUME NEW t \in Threads, Sends(t)
      PROVE  Owned'
  BY <1>3 DEF Sends, Send, TrySendFails, SendWaits, SendTypeError, store_message
<1>4. ASSUME NEW t \in Threads, AfterWait(t) \/ SpuriousWakeup(t) \/ Expire(t)
      PROVE  Owned'
  BY <1>4 DEF AfterWait, ReadWaitsAgain, ReadAfterWait, SendWaitsAgain, SendAfterWait,
     GiveUp, read_message, store_message, SpuriousWakeup, Expire
<1> QED
  BY <1>1, <1>2, <1>3, <1>4 DEF Next

(* The fields, what each thread keeps and every answer have their types.   *)
THEOREM TypeCorrect == Spec => []TypeOK
<1>1. IInv /\ Owned => TypeOK
  BY DEF IInv, Owned, Ring, Places, Answered, TypeOK
<1>2. Init => Owned
  BY DEF Init, Owned
<1> QED
  BY Initial, Inductive, OwnedStep, <1>1, <1>2, PTL DEF Spec

(* The pointers and the count agree, for every capacity, zero too.         *)
THEOREM PointersAgreeAlways == Spec => []PointersAgree
<1>1. IInv => PointersAgree
  BY DEF IInv, Ring, PointersAgree, SlotAt, After
<1> QED
  BY Initial, Inductive, <1>1, PTL DEF Spec

(* One signal for each message and for each slot is enough for any number  *)
(* of readers and senders.                                                 *)
THEOREM NoLostWakeupAlways == Spec => []NoLostWakeup
<1>1. IInv => NoLostWakeup
  BY DEF IInv
<1> QED
  BY Initial, Inductive, <1>1, PTL DEF Spec

-----------------------------------------------------------------------------
(* The queue                                                               *)

(* The n messages from slot r of a vector d on.                            *)
Content(d, r, n) == [i \in 1 .. n |-> d[After(r, i - 1)]]

LEMMA ContentIs ==
  ASSUME NEW d, NEW r, NEW n \in Nat, \A i \in 0 .. n - 1 : d[After(r, i)] \in Messages
  PROVE  /\ Content(d, r, n) \in Seq(Messages) /\ Len(Content(d, r, n)) = n
         /\ \A i \in 1 .. n : Content(d, r, n)[i] = d[After(r, i - 1)]
<1>1. \A i \in 1 .. n : d[After(r, i - 1)] \in Messages
  OBVIOUS
<1> QED
  BY <1>1 DEF Content

LEMMA QueueIs ==
  /\ Queue = Content(data, read_pointer, message_count)
  /\ Queue' = Content(data', read_pointer', message_count')
BY DEF Queue, Content, SlotAt, After

LEMMA QueueTaken ==
  ASSUME Ring, NEW t \in Threads, ~Empty, read_message(t)
  PROVE  FIFO!Read(t)
<1>1. /\ Ring' /\ message_count \in Nat \ {0}
      /\ message_count' = message_count - 1
      /\ data' = data
      /\ After(read_pointer, 0) = read_pointer
      /\ \A i \in 0 .. message_count - 2 :
           After(read_pointer', i) = After(read_pointer, i + 1)
  BY TakeStep DEF read_message
<1> DEFINE q == Queue
           r == Queue'
<1>2. /\ q \in Seq(Messages) /\ Len(q) = message_count
      /\ \A i \in 1 .. message_count : q[i] = data[After(read_pointer, i - 1)]
  BY <1>1, QueueIs, ContentIs DEF Ring
<1>3. /\ r \in Seq(Messages) /\ Len(r) = message_count - 1
      /\ \A i \in 1 .. message_count - 1 : r[i] = data[After(read_pointer', i - 1)]
  BY <1>1, QueueIs, ContentIs DEF Ring
<1> HIDE DEF q, r
<1>4. \A i \in 1 .. message_count - 1 : r[i] = q[i + 1]
  <2> SUFFICES ASSUME NEW i \in 1 .. message_count - 1
               PROVE  r[i] = q[i + 1]
    OBVIOUS
  <2>1. i - 1 \in 0 .. message_count - 2 /\ i + 1 \in 1 .. message_count
    BY <1>1
  <2>2. After(read_pointer', i - 1) = After(read_pointer, i - 1 + 1) /\ i - 1 + 1 = i + 1 - 1
    BY <1>1, <2>1
  <2> QED
    BY <1>2, <1>3, <2>1, <2>2
<1>5. q # <<>> /\ Head(q) = data[read_pointer]
  BY <1>1, <1>2
<1>6. r = Tail(q)
  <2>1. Tail(q) \in Seq(Messages) /\ Len(Tail(q)) = message_count - 1
    BY <1>1, <1>2, <1>5
  <2>2. \A i \in 1 .. message_count - 1 : Tail(q)[i] = q[i + 1]
    BY <1>1, <1>2, <1>5
  <2> QED
    BY <1>3, <1>4, <2>1, <2>2, SeqEqual
<1>7. last' = <<t, Head(q)>>
  BY <1>5 DEF read_message
<1> QED
  BY <1>5, <1>6, <1>7 DEF q, r, FIFO!Read

LEMMA QueueStored ==
  ASSUME Ring, NEW t \in Threads, ~Full, NEW m \in Messages, store_message(t, m)
  PROVE  FIFO!Send(t, m)
<1>1. /\ Ring' /\ message_count \in Nat /\ message_count < Capacity
      /\ message_count' = message_count + 1
      /\ read_pointer' = read_pointer
      /\ data'[After(read_pointer, message_count)] = m
      /\ \A i \in 0 .. message_count - 1 :
           data'[After(read_pointer, i)] = data[After(read_pointer, i)]
  BY StoreStep DEF store_message
<1> DEFINE q == Queue
           r == Queue'
<1>2. /\ q \in Seq(Messages) /\ Len(q) = message_count
      /\ \A i \in 1 .. message_count : q[i] = data[After(read_pointer, i - 1)]
  BY <1>1, QueueIs, ContentIs DEF Ring
<1>3. /\ r \in Seq(Messages) /\ Len(r) = message_count + 1
      /\ \A i \in 1 .. message_count + 1 : r[i] = data'[After(read_pointer, i - 1)]
  BY <1>1, QueueIs, ContentIs DEF Ring
<1> HIDE DEF q, r
<1>4. \A i \in 1 .. message_count : r[i] = q[i]
  BY <1>1, <1>2, <1>3
<1>5. r[message_count + 1] = m
  BY <1>1, <1>3
<1>6. r = Append(q, m)
  BY <1>1, <1>2, <1>3, <1>4, <1>5, AppendProperties, SeqEqual
<1>7. last' = <<t, T>>
  BY DEF store_message
<1> QED
  BY <1>1, <1>2, <1>6, <1>7 DEF q, r, FIFO!Send

LEMMA QueueSteps == IInv /\ [Next]_vars => [FIFO!Next]_(FIFO!avars)
<1> SUFFICES ASSUME IInv, [Next]_vars
             PROVE  FIFO!Next \/ UNCHANGED FIFO!avars
  OBVIOUS
<1>1. CASE UNCHANGED vars
  BY <1>1, QueueIs DEF vars, FIFO!avars
<1>2. CASE Next
  <2>1. PICK t \in Threads :
          \/ ~Empty /\ read_message(t)
          \/ ~Full /\ \E m \in Messages : store_message(t, m)
          \/ Fails(t) \/ Sleeps(t) \/ Stirs(t)
    BY <1>2, StepsAre
  <2>2. CASE ~Empty /\ read_message(t)
    BY <2>2, QueueTaken DEF IInv, FIFO!Next
  <2>3. CASE ~Full /\ \E m \in Messages : store_message(t, m)
    BY <2>3, QueueStored DEF IInv, FIFO!Next
  <2>4. CASE Fails(t)
    BY <2>4, FailStep, QueueIs DEF fields, FIFO!Next, FIFO!Fail
  <2>5. CASE Sleeps(t) \/ Stirs(t)
    BY <2>5, SleepStep, StirStep, QueueIs DEF fields, FIFO!avars
  <2> QED
    BY <2>1, <2>2, <2>3, <2>4, <2>5
<1> QED
  BY <1>1, <1>2

(* Every behaviour of the ring buffer is one of a bounded queue: oldest    *)
(* message first, each once, for any number of threads, any messages and   *)
(* any capacity.                                                           *)
THEOREM MailboxIsFIFO == Spec => ImplementsFIFO
<1>1. Init => FIFO!Init
  <2>1. Init => Queue = <<>>
    BY DEF Init, Queue
  <2> QED
    BY <2>1 DEF Init, FIFO!Init
<1>2. IInv /\ [Next]_vars => IInv' /\ [FIFO!Next]_(FIFO!avars)
  BY Inductive, QueueSteps
<1> QED
  BY Initial, <1>1, <1>2, PTL DEF Spec, ImplementsFIFO, FIFO!Spec
=============================================================================
