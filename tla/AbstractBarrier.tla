--------------------------- MODULE AbstractBarrier ---------------------------
(***************************************************************************)
(* What a barrier promises (src/doc/manual/extensions/mp_ref_barrier.txi), *)
(* with sets of threads in place of the counter, the flag and the          *)
(* condition variable of barrier.d.  Threads come in rounds: those waiting *)
(* when a round ends all leave before anyone waits for the next one.       *)
(* Nothing is promised once an interrupt has unwound a wait.               *)
(***************************************************************************)
EXTENDS Naturals, FiniteSets

CONSTANTS Threads, Counts

VARIABLES
  quorum,   \* threads that make a round
  off,      \* the barrier is disabled
  waiting,  \* threads waiting for the round to end
  leaving,  \* threads of the round that ended, still inside
  killing,  \* the threads leaving are to exit
  result,   \* what the last call of each thread returned, if a wait
  void      \* an interrupt has unwound a wait

rvars == <<quorum, off, waiting, leaving, killing, result>>
avars == <<rvars, void>>

Init ==
  /\ quorum \in Counts
  /\ off = FALSE
  /\ waiting = {}
  /\ leaving = {}
  /\ killing = FALSE
  /\ result = [t \in Threads |-> "none"]
  /\ void = FALSE

Outside(t) == t \notin waiting \cup leaving

Call(t) ==
  /\ Outside(t)
  /\ result' = [result EXCEPT ![t] = "none"]
  /\ UNCHANGED <<quorum, off, waiting, leaving, killing>>

PassDisabled(t) ==
  /\ Outside(t)
  /\ off
  /\ result' = [result EXCEPT ![t] = "NIL"]
  /\ UNCHANGED <<quorum, off, waiting, leaving, killing>>

Join(t) ==
  /\ Outside(t)
  /\ ~off
  /\ leaving = {}
  /\ Cardinality(waiting) + 1 # quorum
  /\ waiting' = waiting \cup {t}
  /\ UNCHANGED <<quorum, off, leaving, killing, result>>

Trip(t) ==
  /\ Outside(t)
  /\ ~off
  /\ leaving = {}
  /\ Cardinality(waiting) + 1 = quorum
  /\ leaving' = waiting
  /\ waiting' = {}
  /\ killing' = FALSE
  /\ result' = [result EXCEPT ![t] = ":unblocked"]
  /\ UNCHANGED <<quorum, off>>

Unblock(n, disable, kill) ==
  /\ leaving = {}
  /\ quorum' = n
  /\ off' = disable
  /\ leaving' = waiting
  /\ waiting' = {}
  /\ killing' = (kill /\ waiting # {})
  /\ UNCHANGED result

Leave(t) ==
  /\ t \in leaving
  /\ leaving' = leaving \ {t}
  /\ killing' = (killing /\ leaving' # {})
  /\ result' = [result EXCEPT ![t] = IF killing THEN "killed" ELSE "T"]
  /\ UNCHANGED <<quorum, off, waiting>>

Promised ==
  \/ \E t \in Threads : Call(t) \/ PassDisabled(t) \/ Join(t) \/ Trip(t) \/ Leave(t)
  \/ \E n \in Counts \cup {quorum}, disable, kill \in BOOLEAN :
       Unblock(n, disable, kill)

Next ==
  \/ ~void /\ ~void' /\ Promised
  \/ void'

Spec == Init /\ [][Next]_avars
=============================================================================
