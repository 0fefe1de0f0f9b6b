------------------------------- MODULE Mailbox -------------------------------
(***************************************************************************)
(* mp:mailbox of ECL, src/c/threads/mailbox.d: a ring buffer under a mutex *)
(* with a condition variable for readers and one for writers.              *)
(*                                                                         *)
(* The code between lock and unlock (or a wait on a condition variable) is *)
(* one action.  A timeout may expire at any moment; TimedWait has the      *)
(* clock.  Interrupts that unwind a call are not modelled: the functions   *)
(* "are not interrupt safe", as mailbox.d says.                            *)
(***************************************************************************)
EXTENDS Naturals, FiniteSets, Sequences

CONSTANTS
  Threads,     \* the threads that use the mailbox
  NoThread,    \* the owner of a free mutex
  Messages,    \* the messages sent
  NoMessage,   \* what an empty slot holds
  T, NIL,      \* answers of send; NIL also of a read that got no message
  Capacity,    \* make-mailbox's :count, the dimension of the vector
  TypeErrors   \* may :timeout be something ecl_to_double refuses?

ASSUME ThreadsAssumption  == IsFiniteSet(Threads) /\ NoThread \notin Threads
ASSUME MessagesAssumption == {NoMessage, T, NIL} \cap Messages = {}
ASSUME CapacityAssumption == Capacity \in Nat
ASSUME ErrorsAssumption   == TypeErrors \in BOOLEAN

VARIABLES
  data, message_count, read_pointer, write_pointer,  \* struct ecl_mailbox
  mutex,  \* NoThread, or the thread that left the mutex locked behind it
  pc,     \* where each thread is
  msg,    \* the message a waiting sender holds
  last    \* the last call that returned: its thread and its answer

vars == <<data, message_count, read_pointer, write_pointer, mutex, pc, msg, last>>
fields == <<data, message_count, read_pointer, write_pointer>>

Slots == 0 .. Capacity - 1

PCs == {"running",
        "reading",   \* waits on reader_cv
        "reader",    \* the same, signalled or woken for no reason
        "sending",   \* waits on writer_cv
        "sender",    \* the same, signalled or woken for no reason
        "expired",   \* its wait timed out, has to take the mutex again
        "exited"}    \* never calls again

At(S) == {t \in Threads : pc[t] \in S}

(* The mutex is an error-checking one: its owner is refused a second lock, *)
(* but no caller looks at the answer, so it enters, and unlocks on leaving *)
(* or waiting.  A thread that comes back from a wait needs it free.        *)
CanLock(t) == mutex \in {NoThread, t}

Empty == message_count = 0
FullLate == message_count > Capacity      \* mutant of Full
Full == message_count = Capacity

(* A pointer is incremented and, at the end of the vector, set to 0.       *)
NextSlotLate(i) == IF i + 1 > Capacity THEN 0 ELSE i + 1  \* mutant of NextSlot
NextSlot(i) == IF i + 1 >= Capacity THEN 0 ELSE i + 1

(* ecl_cond_var_signal: one of the threads at "from", if any, is woken.    *)
OneWoken(p, from, to) ==
  {[p EXCEPT ![u] = to] : u \in {v \in Threads : p[v] = from}}
SignalOnEdge(p, from, to) ==                              \* mutant of Signal
  IF message_count \in {0, Capacity} /\ \E u \in Threads : p[u] = from
  THEN OneWoken(p, from, to) ELSE {p}
Signal(p, from, to) ==
  IF \E u \in Threads : p[u] = from THEN OneWoken(p, from, to) ELSE {p}

Init ==
  /\ data = [i \in Slots |-> NoMessage]
  /\ message_count = 0
  /\ read_pointer = 0
  /\ write_pointer = 0
  /\ mutex = NoThread
  /\ pc = [t \in Threads |-> "running"]
  /\ msg = [t \in Threads |-> NoMessage]
  /\ last = <<>>

-----------------------------------------------------------------------------
(* Reading: ecl_mailbox_read, mp_mailbox_try_read *)

(* read_message, and the return of the message                             *)
read_message(t) ==
  /\ read_pointer' = NextSlot(read_pointer)
  /\ message_count' = message_count - 1
  /\ pc' \in Signal([pc EXCEPT ![t] = "running"], "sending", "sender")
  /\ last' = <<t, data[read_pointer]>>
  /\ mutex' = NoThread
  /\ UNCHANGED <<data, write_pointer, msg>>

Read(t) ==
  /\ pc[t] = "running"
  /\ CanLock(t)
  /\ ~Empty
  /\ read_message(t)

TryReadFails(t) ==
  /\ pc[t] = "running"
  /\ CanLock(t)
  /\ Empty
  /\ last' = <<t, NIL>>
  /\ mutex' = NoThread
  /\ UNCHANGED <<fields, pc, msg>>

ReadWaits(t) ==
  /\ pc[t] = "running"
  /\ CanLock(t)
  /\ Empty
  /\ pc' = [pc EXCEPT ![t] = "reading"]
  /\ mutex' = NoThread
  /\ UNCHANGED <<fields, msg, last>>

(* ecl_to_double(timeout) signals its error with the mutex locked.         *)
ReadTypeError(t) ==
  /\ TypeErrors
  /\ pc[t] = "running"
  /\ CanLock(t)
  /\ Empty
  /\ mutex' = t
  /\ \E to \in {"running", "exited"} : pc' = [pc EXCEPT ![t] = to]
  /\ UNCHANGED <<fields, msg, last>>

ReadWaitsAgain(t) ==
  /\ pc[t] = "reader"
  /\ mutex = NoThread
  /\ Empty
  /\ pc' = [pc EXCEPT ![t] = "reading"]
  /\ UNCHANGED <<fields, mutex, msg, last>>

ReadAfterWait(t) ==
  /\ pc[t] = "reader"
  /\ mutex = NoThread
  /\ ~Empty
  /\ read_message(t)

-----------------------------------------------------------------------------
(* Sending: ecl_mailbox_send, mp_mailbox_try_send *)

(* store_message, and the return of t                                      *)
store_message(t, m) ==
  /\ write_pointer' = NextSlot(write_pointer)
  /\ data' = [data EXCEPT ![write_pointer] = m]
  /\ message_count' = message_count + 1
  /\ pc' \in Signal([pc EXCEPT ![t] = "running"], "reading", "reader")
  /\ msg' = [msg EXCEPT ![t] = NoMessage]
  /\ last' = <<t, T>>
  /\ mutex' = NoThread
  /\ UNCHANGED read_pointer

Send(t, m) ==
  /\ pc[t] = "running"
  /\ CanLock(t)
  /\ ~Full
  /\ store_message(t, m)

TrySendFails(t) ==
  /\ pc[t] = "running"
  /\ CanLock(t)
  /\ Full
  /\ last' = <<t, NIL>>
  /\ mutex' = NoThread
  /\ UNCHANGED <<fields, pc, msg>>

SendWaits(t, m) ==
  /\ pc[t] = "running"
  /\ CanLock(t)
  /\ Full
  /\ pc' = [pc EXCEPT ![t] = "sending"]
  /\ msg' = [msg EXCEPT ![t] = m]
  /\ mutex' = NoThread
  /\ UNCHANGED <<fields, last>>

SendTypeError(t) ==
  /\ TypeErrors
  /\ pc[t] = "running"
  /\ CanLock(t)
  /\ Full
  /\ mutex' = t
  /\ \E to \in {"running", "exited"} : pc' = [pc EXCEPT ![t] = to]
  /\ UNCHANGED <<fields, msg, last>>

SendWaitsAgain(t) ==
  /\ pc[t] = "sender"
  /\ mutex = NoThread
  /\ Full
  /\ pc' = [pc EXCEPT ![t] = "sending"]
  /\ UNCHANGED <<fields, mutex, msg, last>>

SendAfterWait(t) ==
  /\ pc[t] = "sender"
  /\ mutex = NoThread
  /\ ~Full
  /\ store_message(t, msg[t])

-----------------------------------------------------------------------------
(* pthread_cond_wait may return without a signal.                          *)
SpuriousWakeup(t) ==
  /\ \/ pc[t] = "reading" /\ pc' = [pc EXCEPT ![t] = "reader"]
     \/ pc[t] = "sending" /\ pc' = [pc EXCEPT ![t] = "sender"]
  /\ UNCHANGED <<fields, mutex, msg, last>>

(* pthread_cond_timedwait that no signal reached returns ETIMEDOUT.  (A    *)
(* wait without a timeout is one that never expires.)                      *)
Expire(t) ==
  /\ pc[t] \in {"reading", "sending"}
  /\ pc' = [pc EXCEPT ![t] = "expired"]
  /\ UNCHANGED <<fields, mutex, msg, last>>

(* After ETIMEDOUT the call goes to CLEANUP and does not look at the       *)
(* mailbox again.                                                          *)
GiveUp(t) ==
  /\ pc[t] = "expired"
  /\ mutex = NoThread
  /\ pc' = [pc EXCEPT ![t] = "running"]
  /\ msg' = [msg EXCEPT ![t] = NoMessage]
  /\ last' = <<t, NIL>>
  /\ UNCHANGED <<fields, mutex>>

-----------------------------------------------------------------------------
Reads(t) == Read(t) \/ TryReadFails(t) \/ ReadWaits(t) \/ ReadTypeError(t)

Sends(t) ==
  \/ TrySendFails(t) \/ SendTypeError(t)
  \/ \E m \in Messages : Send(t, m) \/ SendWaits(t, m)

AfterWait(t) ==
  \/ ReadWaitsAgain(t) \/ ReadAfterWait(t)
  \/ SendWaitsAgain(t) \/ SendAfterWait(t) \/ GiveUp(t)

Next ==
  \E t \in Threads :
    Reads(t) \/ Sends(t) \/ AfterWait(t) \/ SpuriousWakeup(t) \/ Expire(t)

Spec == Init /\ [][Next]_vars

(* A woken thread gets the mutex, if it is free, and goes on.  Calls,      *)
(* timeouts and spurious wakeups need not happen.                          *)
FairSpec == Spec /\ \A t \in Threads : WF_vars(AfterWait(t))

-----------------------------------------------------------------------------
Answers == Messages \cup {T, NIL}

TypeOK ==
  /\ data \in [Slots -> Messages \cup {NoMessage}]
  /\ message_count \in 0 .. Capacity
  /\ read_pointer \in Slots \cup {0}
  /\ write_pointer \in Slots \cup {0}
  /\ mutex \in Threads \cup {NoThread}
  /\ pc \in [Threads -> PCs]
  /\ msg \in [Threads -> Messages \cup {NoMessage}]
  /\ last \in {<<>>} \cup (Threads \X Answers)

(* The slot i places after the read pointer.                               *)
SlotAt(i) == IF read_pointer + i < Capacity THEN read_pointer + i
                                            ELSE read_pointer + i - Capacity

(* The two pointers and the count agree, also when the ring is full and    *)
(* the pointers are equal again, and what lies between them was stored.    *)
PointersAgree ==
  /\ Capacity > 0 => write_pointer = IF message_count = Capacity
                                     THEN read_pointer ELSE SlotAt(message_count)
  /\ \A i \in 0 .. message_count - 1 : data[SlotAt(i)] # NoMessage

(* No reader sleeps on a message nobody is awake to read, and no sender on *)
(* a free slot: one signal per message and per slot is enough, even if     *)
(* others barge in, and timeouts expire, in between.                       *)
NoLostWakeup ==
  /\ At({"reading"}) # {} => Cardinality(At({"reader"})) >= message_count
  /\ At({"sending"}) # {} => Cardinality(At({"sender"})) >= Capacity - message_count

Queue == [i \in 1 .. message_count |-> data[SlotAt(i - 1)]]

FIFO == INSTANCE BoundedFIFO WITH queue <- Queue

(* The ring buffer is a bounded FIFO queue.                                *)
ImplementsFIFO == FIFO!Spec

(* When no more calls come, no reader is left asleep with a message queued *)
(* and no sender with a slot free, unless an error leaves the mutex locked *)
(* for good.                                                               *)
SleepersServed ==
  /\ <>[](mutex = NoThread)
  /\ <>[][\A t \in Threads : ~Reads(t) /\ ~Sends(t)]_vars
  => \A t \in Threads :
       <>[](/\ pc[t] = "reading" => Empty
            /\ pc[t] = "sending" => Full)
=============================================================================
