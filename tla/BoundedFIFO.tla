----------------------------- MODULE BoundedFIFO -----------------------------
(***************************************************************************)
(* What a mailbox promises (src/doc/manual/extensions/mp_ref_mailbox.txi): *)
(* a queue of at most Capacity messages, appended at the end, the oldest   *)
(* read first, each once; and what each call answers.                      *)
(***************************************************************************)
EXTENDS Naturals, Sequences

CONSTANTS Threads, Messages, Capacity, T, NIL

VARIABLES queue, last

avars == <<queue, last>>

Init ==
  /\ queue = <<>>
  /\ last = <<>>

Send(t, m) ==
  /\ Len(queue) < Capacity
  /\ queue' = Append(queue, m)
  /\ last' = <<t, T>>

Read(t) ==
  /\ queue # <<>>
  /\ queue' = Tail(queue)
  /\ last' = <<t, Head(queue)>>

(* A call whose timeout expired, or a try- call that would have to wait.   *)
Fail(t) ==
  /\ last' = <<t, NIL>>
  /\ UNCHANGED queue

Next ==
  \E t \in Threads : (\E m \in Messages : Send(t, m)) \/ Read(t) \/ Fail(t)

Spec == Init /\ [][Next]_avars
=============================================================================
