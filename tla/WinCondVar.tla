------------------------------ MODULE WinCondVar ------------------------------
(***************************************************************************)
(* The condition variables of ECL on Windows (src/h/threads.h,             *)
(* ECL_WINDOWS_THREADS): one word that holds a wait count and a status,    *)
(* changed by compare-and-swap, and two events of the system.              *)
(*                                                                         *)
(* Each access to the word, the mutex or an event is a step.  A loop that  *)
(* loads the word again before each attempt is the one step in which its   *)
(* compare-and-swap succeeds.  The exception is the loop at line 557: it   *)
(* does not load the word again.  With the compiler's atomics a failed     *)
(* attempt stores the word it met in old_state, so that the next attempt   *)
(* replaces whatever is there; libatomic_ops leaves old_state alone.       *)
(***************************************************************************)
EXTENDS Naturals, FiniteSets

CONSTANTS
  Threads,        \* the threads that use the condition variable
  NoThread,       \* holds a free mutex
  Modulus,        \* the wait count wraps there (2^62)
  Builds,         \* subset of {"std", "ao"}: whose compare-and-swap it is
  Interruptible   \* threads that interrupts are sent to

ASSUME WinThreadsAssumption == IsFiniteSet(Threads) /\ NoThread \notin Threads
ASSUME WinOptionsAssumption ==
  /\ Modulus \in Nat /\ Modulus > Cardinality(Threads) + 1
  /\ Builds \subseteq {"std", "ao"} /\ Interruptible \subseteq Threads

VARIABLES
  build,            \* which of Builds this is
  wait_count, status,               \* the word
  broadcast_event, signal_event,    \* whether the event is set
  mutex,            \* who has the mutex that is waited with
  pc,               \* where each thread is
  loaded,           \* the word that the last thread out found
  wiped             \* history: line 557 replaced a word that was not old_state

vars == <<build, wait_count, status, broadcast_event, signal_event, mutex, pc,
          loaded, wiped>>
word == <<wait_count, status>>
events == <<broadcast_event, signal_event>>

Statuses == {"none", "BROADCAST", "SIGNAL", "RESET"}

(* The places at which the wait count counts a thread ...                  *)
Counting == {"registered",    \* still has the mutex
             "arriving",      \* enters WaitForMultipleObjectsEx
             "blocked",       \* in it
             "by_broadcast", "by_signal", "timed_out", "interrupted",  \* out of it
             "last"}          \* found itself the last of a broadcast
(* ... and the others.                                                     *)
PCs == Counting \cup
       {"running",
        "clearing", "cleared",       \* before and after ResetEvent
        "in_interrupt", "rejoining", \* running one; back from it
        "locking",                   \* in the final ecl_mutex_lock
        "signalling", "broadcasting",
        "setting_signal", "setting_broadcast"}   \* before SetEvent

At(place) == {t \in Threads : pc[t] = place}
Registered == {t \in Threads : pc[t] \in Counting}

Go(t, place) == pc' = [pc EXCEPT ![t] = place]

More == (wait_count + 1) % Modulus
KeptCount == wait_count                        \* mutant of Fewer
Fewer == (wait_count + Modulus - 1) % Modulus

NeverSpins == FALSE                            \* mutant of Spins
Spins == status = "RESET"

EarlierLast == wait_count = 2                  \* mutant of IsLast
IsLast == wait_count = 1

(* A manual-reset event stays set when it has released who waits for it.   *)
Pulsed == FALSE                                \* mutant of BroadcastStaysSet
BroadcastStaysSet == TRUE

Init ==
  /\ build \in Builds
  /\ wait_count = 0
  /\ status = "none"
  /\ broadcast_event = FALSE
  /\ signal_event = FALSE
  /\ mutex = NoThread
  /\ pc = [t \in Threads |-> "running"]
  /\ loaded = [t \in Threads |-> <<0, "none">>]
  /\ wiped = FALSE

-----------------------------------------------------------------------------
(* The caller's mutex                                                      *)

Take(t) ==
  /\ pc[t] \in {"running", "locking"}
  /\ mutex = NoThread
  /\ mutex' = t
  /\ Go(t, "running")
  /\ UNCHANGED <<build, word, events, loaded, wiped>>

Give(t) ==
  /\ pc[t] = "running"
  /\ mutex = t
  /\ mutex' = NoThread
  /\ UNCHANGED <<build, word, events, pc, loaded, wiped>>

-----------------------------------------------------------------------------
(* ecl_cond_var_wait, ecl_cond_var_timedwait                               *)

Register(t) ==
  /\ \/ pc[t] = "running" /\ mutex = t /\ Go(t, "registered")
     \/ pc[t] = "rejoining" /\ Go(t, "arriving")
  /\ ~Spins
  /\ wait_count' = More
  /\ UNCHANGED <<build, status, events, mutex, loaded, wiped>>

ReleaseMutex(t) ==
  /\ pc[t] = "registered"
  /\ mutex' = NoThread
  /\ Go(t, "arriving")
  /\ UNCHANGED <<build, word, events, loaded, wiped>>

(* Of two events that are set the first in the array counts.  The signal   *)
(* event resets itself.                                                    *)
Arrive(t) ==
  /\ pc[t] = "arriving"
  /\ CASE broadcast_event -> Go(t, "by_broadcast") /\ UNCHANGED signal_event
       [] ~broadcast_event /\ signal_event -> Go(t, "by_signal") /\ signal_event' = FALSE
       [] OTHER -> Go(t, "blocked") /\ UNCHANGED signal_event
  /\ UNCHANGED <<build, word, broadcast_event, mutex, loaded, wiped>>

(* WAIT_TIMEOUT or WAIT_IO_COMPLETION.                                     *)
TimeOut(t) ==
  /\ pc[t] = "blocked"
  /\ Go(t, "timed_out")
  /\ UNCHANGED <<build, word, events, mutex, loaded, wiped>>

Interrupted(t) ==
  /\ t \in Interruptible
  /\ pc[t] \in {"arriving", "blocked"}
  /\ Go(t, "interrupted")
  /\ UNCHANGED <<build, word, events, mutex, loaded, wiped>>

Unregister(t) ==
  /\ \/ pc[t] = "timed_out" /\ Go(t, "locking")
     \/ pc[t] = "interrupted" /\ Go(t, "in_interrupt")
  /\ wait_count' = Fewer
  /\ UNCHANGED <<build, status, events, mutex, loaded, wiped>>

(* The interrupt returns, or unwinds the wait, without the mutex.          *)
InterruptEnds(t) ==
  /\ pc[t] = "in_interrupt"
  /\ Go(t, "rejoining") \/ Go(t, "running")
  /\ UNCHANGED <<build, word, events, mutex, loaded, wiped>>

-----------------------------------------------------------------------------
(* ecl_cond_var_handle_event                                               *)

OutBySignal(t) ==
  /\ pc[t] = "by_signal"
  /\ wait_count' = Fewer
  /\ status' = "none"
  /\ Go(t, "locking")
  /\ UNCHANGED <<build, events, mutex, loaded, wiped>>

OutByBroadcast(t) ==
  /\ pc[t] = "by_broadcast"
  /\ ~IsLast
  /\ wait_count' = Fewer
  /\ status' = "BROADCAST"
  /\ Go(t, "locking")
  /\ UNCHANGED <<build, events, mutex, loaded, wiped>>

LastByBroadcast(t) ==
  /\ pc[t] = "by_broadcast"
  /\ IsLast
  /\ loaded' = [loaded EXCEPT ![t] = word]
  /\ Go(t, "last")
  /\ UNCHANGED <<build, word, events, mutex, wiped>>

(* while (!ecl_atomic_compare_and_swap_full(&cv->state, old_state, ...))   *)
Reset(t) ==
  /\ pc[t] = "last"
  /\ word = loaded[t] \/ build = "std"
  /\ wait_count' = 0
  /\ status' = "RESET"
  /\ wiped' = (wiped \/ word # loaded[t])
  /\ loaded' = [loaded EXCEPT ![t] = <<0, "none">>]
  /\ Go(t, "clearing")
  /\ UNCHANGED <<build, events, mutex>>

ResetEvent(t) ==
  /\ pc[t] = "clearing"
  /\ broadcast_event' = FALSE
  /\ Go(t, "cleared")
  /\ UNCHANGED <<build, word, signal_event, mutex, loaded, wiped>>

ResetDone(t) ==
  /\ pc[t] = "cleared"
  /\ wait_count' = 0
  /\ status' = "none"
  /\ Go(t, "locking")
  /\ UNCHANGED <<build, events, mutex, loaded, wiped>>

-----------------------------------------------------------------------------
(* ecl_cond_var_signal, ecl_cond_var_broadcast, with or without the mutex  *)

Call(t) ==
  /\ pc[t] = "running"
  /\ Go(t, "signalling") \/ Go(t, "broadcasting")
  /\ UNCHANGED <<build, word, events, mutex, loaded, wiped>>

NothingToDo(t) ==
  /\ pc[t] \in {"signalling", "broadcasting"}
  /\ wait_count = 0 \/ status = "BROADCAST"
  /\ Go(t, "running")
  /\ UNCHANGED <<build, word, events, mutex, loaded, wiped>>

(* Until the status is none, it tries again.                               *)
Post(t) ==
  /\ wait_count # 0
  /\ status = "none"
  /\ \/ pc[t] = "signalling" /\ status' = "SIGNAL" /\ Go(t, "setting_signal")
     \/ pc[t] = "broadcasting" /\ status' = "BROADCAST" /\ Go(t, "setting_broadcast")
  /\ UNCHANGED <<build, wait_count, events, mutex, loaded, wiped>>

SetBroadcast(t) ==
  /\ pc[t] = "setting_broadcast"
  /\ broadcast_event' = BroadcastStaysSet
  /\ pc' = [u \in Threads |->
              IF u = t THEN "running" ELSE IF pc[u] = "blocked" THEN "by_broadcast" ELSE pc[u]]
  /\ UNCHANGED <<build, word, signal_event, mutex, loaded, wiped>>

SetSignal(t) ==
  /\ pc[t] = "setting_signal"
  /\ IF At("blocked") = {}
     THEN signal_event' = TRUE /\ Go(t, "running")
     ELSE /\ UNCHANGED signal_event
          /\ \E u \in At("blocked") : pc' = [pc EXCEPT ![t] = "running", ![u] = "by_signal"]
  /\ UNCHANGED <<build, word, broadcast_event, mutex, loaded, wiped>>

-----------------------------------------------------------------------------
Next ==
  \E t \in Threads :
    \/ Take(t) \/ Give(t)
    \/ Register(t) \/ ReleaseMutex(t) \/ Arrive(t)
    \/ TimeOut(t) \/ Interrupted(t) \/ Unregister(t) \/ InterruptEnds(t)
    \/ OutBySignal(t) \/ OutByBroadcast(t) \/ LastByBroadcast(t)
    \/ Reset(t) \/ ResetEvent(t) \/ ResetDone(t)
    \/ Call(t) \/ NothingToDo(t) \/ Post(t) \/ SetBroadcast(t) \/ SetSignal(t)

Spec == Init /\ [][Next]_vars

(* A thread in one of these functions goes on, except while it waits.      *)
FairSpec ==
  /\ Spec
  /\ \A t \in Threads :
       WF_vars(ReleaseMutex(t) \/ Arrive(t) \/ Unregister(t)
                 \/ OutBySignal(t) \/ OutByBroadcast(t) \/ LastByBroadcast(t)
                 \/ Reset(t) \/ ResetEvent(t) \/ ResetDone(t)
                 \/ SetBroadcast(t) \/ SetSignal(t))

-----------------------------------------------------------------------------
TypeOK ==
  /\ build \in Builds
  /\ wait_count \in 0 .. (IF wiped THEN Modulus - 1 ELSE Cardinality(Threads))
  /\ status \in Statuses
  /\ broadcast_event \in BOOLEAN /\ signal_event \in BOOLEAN
  /\ mutex \in Threads \cup {NoThread}
  /\ pc \in [Threads -> PCs]
  /\ loaded \in [Threads -> (0 .. Modulus - 1) \X Statuses]
  /\ wiped \in BOOLEAN

(* Timeouts, interrupts and the resetting of a broadcast never lose count  *)
(* of the threads that wait, unless the word was overwritten.              *)
CountExact == ~wiped => wait_count = Cardinality(Registered)

(* "Only one operation at a time": while the word shows one, it can still  *)
(* be ended, for its event is set, about to be set or just taken, and a    *)
(* set event belongs to that operation and has left nobody behind.         *)
StatusHasAgent ==
  ~wiped =>
    /\ status = "BROADCAST" => broadcast_event \/ At("setting_broadcast") # {}
    /\ status = "SIGNAL" =>
         signal_event \/ At("setting_signal") \cup At("by_signal") # {}
    /\ status = "RESET" => At("clearing") \cup At("cleared") # {}
    /\ broadcast_event => status \in {"BROADCAST", "RESET"} /\ At("blocked") = {}
    /\ signal_event => status = "SIGNAL" /\ At("blocked") = {}

(* The wakeup event is not lost: whoever is counted while a broadcast is   *)
(* under way gets out of the wait, the last of them unless others come for *)
(* ever: it retries until it finds itself alone.                           *)
NewcomersEnd == <>[](At("registered") \cup At("rejoining") = {})
BroadcastReachesAll ==
  \A t \in Threads :
    /\ (status = "BROADCAST" /\ t \in Registered)
         ~> (t \notin Registered \/ pc[t] = "last" \/ wiped)
    /\ NewcomersEnd => (pc[t] = "last" ~> pc[t] # "last")

(* The operation that the word and the events show.                        *)
Operating ==
  IF signal_event THEN "offered"
  ELSE CASE status = "SIGNAL" -> "signal"
         [] status = "BROADCAST" -> IF broadcast_event THEN "open" ELSE "broadcast"
         [] status = "RESET" -> "over"
         [] status = "none" -> "none"

Promise == INSTANCE AbstractCondVar WITH
  coming <- At("registered") \cup At("arriving"),
  asleep <- At("blocked"),
  released <- At("by_broadcast") \cup At("by_signal") \cup At("last"),
  quitting <- At("timed_out") \cup At("interrupted"),
  operation <- Operating,
  void <- wiped

(* Until line 557 overwrites the word, the count, the status and the two   *)
(* events make a condition variable: one operation at a time, a signal     *)
(* wakes one thread or is kept, a broadcast wakes all and is over only     *)
(* when nobody is left, whoever comes, times out or is interrupted.        *)
ImplementsCondVar == Promise!Spec

(* "INV: ecl_cond_var_status(old_state) == ECL_COND_VAR_BROADCAST" and     *)
(* "... == ECL_COND_VAR_SIGNAL", where a thread handles its event.         *)
StatusAsCommented ==
  /\ At("by_broadcast") # {} => status = "BROADCAST"
  /\ At("by_signal") # {} => status = "SIGNAL"
=============================================================================
