---------------------------- MODULE AbstractRWLock ----------------------------
(***************************************************************************)
(* What a read-write lock promises                                         *)
(* (src/doc/manual/extensions/mp_ref_rwlock.txi): any number of read locks *)
(* or one write lock at a time.  Of several read locks of one thread, each *)
(* is a lock of its own.  Nothing is promised once a thread gave up a lock *)
(* that it did not hold.                                                   *)
(***************************************************************************)
CONSTANTS Threads, NoThread, ReadLocks

VARIABLES readers, writer, void

lvars == <<readers, writer>>
avars == <<lvars, void>>

Init ==
  /\ readers = {}
  /\ writer = NoThread
  /\ void = FALSE

Read(l) ==
  /\ writer = NoThread
  /\ l \notin readers
  /\ readers' = readers \cup {l}
  /\ UNCHANGED writer

Write(t) ==
  /\ writer = NoThread
  /\ readers = {}
  /\ writer' = t
  /\ UNCHANGED readers

EndRead(l) ==
  /\ l \in readers
  /\ readers' = readers \ {l}
  /\ UNCHANGED writer

EndWrite(t) ==
  /\ writer = t
  /\ writer' = NoThread
  /\ UNCHANGED readers

Promised ==
  \/ \E l \in ReadLocks : Read(l) \/ EndRead(l)
  \/ \E t \in Threads : Write(t) \/ EndWrite(t)

Next ==
  \/ ~void /\ ~void' /\ Promised
  \/ void'

Spec == Init /\ [][Next]_avars
=============================================================================
