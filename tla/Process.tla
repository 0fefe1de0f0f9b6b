-------------------------------- MODULE Process --------------------------------
(***************************************************************************)
(* mp:process of ECL, src/c/threads/thread.d: process objects, the threads *)
(* of the system that run them, and the threads ("actors") that enable,    *)
(* join and kill them.  A foreign thread that imports itself is an actor   *)
(* and the process it makes for itself; it does so once.                   *)
(*                                                                         *)
(* phase is what the functions go by.  start_stop_lock protects it, and is *)
(* held throughout enabling and throughout the end of a process; where a   *)
(* function takes the lock and returns it with nothing in between that     *)
(* another thread could see, it is one step here.  So is each use of the   *)
(* vector of processes, which has a lock of its own.                       *)
(***************************************************************************)
EXTENDS Naturals, FiniteSets, SequencesExt

CONSTANTS
  Objects,   \* processes made by make-process, with a function preset
  Foreign,   \* threads that import themselves
  Enablers,  \* Lisp threads that enable and kill processes
  Joiners,   \* Lisp threads that join processes
  Main,      \* the process si::top-level
  None,      \* no process; NIL in the vector
  Junk,      \* whatever lies behind the end of the vector
  Size,      \* dimension of the vector at start; 256
  MaxSize,   \* bound: the vector is extended up to this dimension
  MaxRuns    \* bound: how often a process is enabled

Processes == Objects \cup Foreign
Clients == Enablers \cup Joiners
Actors == Clients \cup Foreign

ASSUME ProcessesAssumption ==
  /\ IsFiniteSet(Processes) /\ IsFiniteSet(Clients)
  /\ Objects \cap Foreign = {} /\ Processes \cap Clients = {}
  /\ Cardinality({Main, None, Junk}) = 3
  /\ {Main, None, Junk} \cap (Processes \cup Clients) = {}
ASSUME BoundsAssumption ==
  Size \in Nat \ {0} /\ MaxSize \in Nat /\ MaxRuns \in Nat

VARIABLES
  phase, exit_values, \* of each process; exit_values is the run they are of
  start_stop_lock,    \* of each process: the actor or process that has it
  exits,     \* of each process: the run a pending exit-process was sent to
  signals,   \* of each process: the run it was sent a signal in to look at it
  thread,    \* of each process: where the system's thread that runs it is
  runs,      \* of each process: how often it was started
  slots,     \* ecl_core.processes->vector.self.t
  fillp,     \* and its fill pointer
  pc, on,    \* of each actor: where it is, and the process it deals with
  size,      \* of each actor: new_size in extend_process_vector
  since      \* history, of each actor: runs when it began to join

process == <<phase, exit_values, start_stop_lock, exits, signals, thread, runs>>
vector == <<slots, fillp>>
actor == <<pc, on, size, since>>
vars == <<process, vector, actor>>

Phases == {"INACTIVE", "BOOTING", "ACTIVE", "EXITING"}
Places == {"none",
           "created",   \* in thread_entry_point, waiting for the lock
           "running",   \* in the function, or about to return from it
           "returned",  \* out of it, interrupts enabled, in the frame that
                        \* exit-process unwinds to
           "cleaning",  \* in thread_cleanup, with the lock
           "unlisted"}
PCs == {"idle",
        "listing",   \* in ecl_list_process
        "full",      \* in extend_process_vector, before it takes the lock
        "extending",
        "creating",  \* to call pthread_create; an import, to get ACTIVE
        "created",   \* to return the lock
        "undoing", "undone", \* in the cleanup form of process-enable
        "joining",   \* to take the lock, first or again
        "waiting",   \* on exit_barrier
        "polling"}   \* in process-run-function-wait

Init ==
  /\ phase = [p \in Processes |-> "INACTIVE"]
  /\ exit_values = [p \in Processes |-> 0]
  /\ start_stop_lock = [p \in Processes |-> None]
  /\ exits = [p \in Processes |-> 0]
  /\ signals = [p \in Processes |-> 0]
  /\ thread = [p \in Processes |-> "none"]
  /\ runs = [p \in Processes |-> 0]
  /\ slots = [i \in 1 .. Size |-> IF i = 1 THEN Main ELSE None]
  /\ fillp = 1
  /\ pc = [a \in Actors |-> "idle"]
  /\ on = [a \in Actors |-> None]
  /\ size = [a \in Actors |-> 0]
  /\ since = [a \in Actors |-> 0]

Free(p) == start_stop_lock[p] = None
Goto(a, place) == pc' = [pc EXCEPT ![a] = place]
Leave(a) ==      \* a returns from the function it is in
  /\ on' = [on EXCEPT ![a] = None]
  /\ size' = [size EXCEPT ![a] = 0]
  /\ since' = [since EXCEPT ![a] = 0]

(* ecl_cond_var_broadcast(&process->process.exit_barrier), by b            *)
AlertedNone(p, b, place) ==                  \* mutant of Alerted
  [a \in Actors |-> IF a = b THEN place ELSE pc[a]]
Alerted(p, b, place) ==
  [a \in Actors |-> IF a = b THEN place
                    ELSE IF pc[a] = "waiting" /\ on[a] = p THEN "joining"
                    ELSE pc[a]]

-----------------------------------------------------------------------------
(* The vector of processes *)

dim == Len(slots)
Listed == {slots[i] : i \in 1 .. fillp}      \* what all-processes returns

RoomUpToDim == fillp <= dim                  \* mutant of Room
Room == fillp < dim

(* ecl_list_process: store it at the fill pointer, or extend and retry.    *)
List(a) ==
  /\ pc[a] = "listing"
  /\ IF Room
     THEN /\ slots' = [slots EXCEPT ![fillp + 1] = on[a]]
          /\ fillp' = fillp + 1
          /\ Goto(a, "creating")
     ELSE Goto(a, "full") /\ UNCHANGED vector
  /\ UNCHANGED <<process, on, size, since>>

(* extend_process_vector computes the new size before it takes the lock;   *)
(* the new vector is made full, and gets all slots of the old one.         *)
Measure(a) ==
  /\ pc[a] = "full"
  /\ size' = [size EXCEPT ![a] = dim + dim \div 2]
  /\ Goto(a, "extending")
  /\ UNCHANGED <<process, vector, on, since>>

CopiedButLast(i) == i < dim                  \* mutant of Copied
Copied(i) == i <= dim
Extend(a) ==
  /\ pc[a] = "extending"
  /\ IF size[a] > dim /\ size[a] <= MaxSize
     THEN /\ slots' = [i \in 1 .. size[a] |-> IF Copied(i) THEN slots[i] ELSE None]
          /\ fillp' = size[a]
     ELSE UNCHANGED vector
  /\ Goto(a, "listing")
  /\ size' = [size EXCEPT ![a] = 0]
  /\ UNCHANGED <<process, on, since>>

(* ecl_unlist_process removes the first p and moves those after it; if p   *)
(* is the last it moves what is behind it, and that may be anything.       *)
MovedDown(i, j) == j > i /\ j < fillp - 1    \* mutant of Moved
Moved(i, j) == j >= i /\ (j < fillp \/ j = i)
Unlist(p) ==
  LET i == SelectInSubSeq(slots, 1, fillp, LAMBDA q : q = p)
  IN IF i = 0 THEN UNCHANGED vector
     ELSE /\ slots' = [j \in 1 .. dim |-> IF ~Moved(i, j) THEN slots[j]
                                          ELSE IF j = dim THEN Junk
                                          ELSE slots[j + 1]]
          /\ fillp' = fillp - 1

-----------------------------------------------------------------------------
(* Enabling a process, and importing one *)

StartableEarly(p) == phase[p] \in {"INACTIVE", "BOOTING"} \* mutant of Startable
Startable(p) == phase[p] = "INACTIVE"

(* mp_process_enable takes start_stop_lock (or signals an error, and       *)
(* returns it), marks the process and gives it a new environment.          *)
Enable(c, p) ==
  /\ pc[c] = "idle"
  /\ Free(p)
  /\ Startable(p)
  /\ runs[p] < MaxRuns
  /\ phase' = [phase EXCEPT ![p] = "BOOTING"]
  /\ runs' = [runs EXCEPT ![p] = @ + 1]
  /\ start_stop_lock' = [start_stop_lock EXCEPT ![p] = c]
  /\ on' = [on EXCEPT ![c] = p]
  /\ Goto(c, "listing")
  /\ UNCHANGED <<exit_values, exits, signals, thread, vector, size, since>>

(* pthread_create, with interrupts disabled                                *)
Create(c) ==
  /\ pc[c] = "creating" /\ c \in Clients
  /\ \/ thread' = [thread EXCEPT ![on[c]] = "created"] /\ Goto(c, "created")
     \/ Goto(c, "undoing") /\ UNCHANGED thread
  /\ UNCHANGED <<phase, exit_values, start_stop_lock, exits, signals, runs, vector, on, size, since>>

(* process-run-function-wait then waits for the process to start.          *)
Unlock(c) ==
  /\ pc[c] = "created"
  /\ start_stop_lock' = [start_stop_lock EXCEPT ![on[c]] = None]
  /\ \/ Goto(c, "idle") /\ Leave(c)
     \/ Goto(c, "polling") /\ UNCHANGED <<on, size, since>>
  /\ UNCHANGED <<phase, exit_values, exits, signals, thread, runs, vector>>

Poll(c) ==
  /\ pc[c] = "polling"
  /\ phase[on[c]] \in {"ACTIVE", "EXITING"}
  /\ Goto(c, "idle")
  /\ Leave(c)
  /\ UNCHANGED <<process, vector>>

(* The cleanup form, if there is no thread                                 *)
Undo(c) ==
  /\ pc[c] = "undoing"
  /\ Unlist(on[c])
  /\ Goto(c, "undone")
  /\ UNCHANGED <<process, on, size, since>>

Undone(c) ==
  /\ pc[c] = "undone"
  /\ phase' = [phase EXCEPT ![on[c]] = "INACTIVE"]
  /\ start_stop_lock' = [start_stop_lock EXCEPT ![on[c]] = None]
  /\ pc' = Alerted(on[c], c, "idle")
  /\ Leave(c)
  /\ UNCHANGED <<exit_values, exits, signals, thread, runs, vector>>

(* ecl_import_current_thread makes a process that nobody else knows yet,   *)
(* and uses it without the lock.                                           *)
Import(f) ==
  /\ pc[f] = "idle" /\ f \in Foreign
  /\ runs[f] = 0
  /\ phase' = [phase EXCEPT ![f] = "BOOTING"]
  /\ runs' = [runs EXCEPT ![f] = 1]
  /\ on' = [on EXCEPT ![f] = f]
  /\ Goto(f, "listing")
  /\ UNCHANGED <<exit_values, start_stop_lock, exits, signals, thread, vector, size, since>>

Imported(f) ==
  /\ pc[f] = "creating" /\ f \in Foreign
  /\ phase' = [phase EXCEPT ![f] = "ACTIVE"]
  /\ thread' = [thread EXCEPT ![f] = "running"]
  /\ Goto(f, "idle")
  /\ Leave(f)
  /\ UNCHANGED <<exit_values, start_stop_lock, exits, signals, runs, vector>>

-----------------------------------------------------------------------------
(* The thread of a process *)

At(p, place) == thread' = [thread EXCEPT ![p] = place]

Start(p) ==
  /\ thread[p] = "created"
  /\ Free(p)
  /\ phase' = [phase EXCEPT ![p] = "ACTIVE"]
  /\ At(p, "running")
  /\ UNCHANGED <<exit_values, start_stop_lock, exits, signals, runs, vector, actor>>

(* The function, or the restart abort, returns values; or exit-process     *)
(* unwinds to the frame of thread_entry_point and leaves the old ones.     *)
Return(p) ==
  /\ thread[p] = "running" /\ p \in Objects
  /\ exit_values' = [exit_values EXCEPT ![p] = runs[p]]
  /\ At(p, "returned")
  /\ UNCHANGED <<phase, start_stop_lock, exits, signals, runs, vector, actor>>

Exit(p) ==
  /\ thread[p] = "running" /\ p \in Objects
  /\ At(p, "returned")
  /\ UNCHANGED <<phase, exit_values, start_stop_lock, exits, signals, runs, vector, actor>>

Interruptible(p) == thread[p] \in {"running", "returned"}

Forget(p) ==
  /\ exits' = [exits EXCEPT ![p] = 0]
  /\ signals' = [signals EXCEPT ![p] = 0]

(* An exit-process that process-kill sent is called, where interrupts are  *)
(* enabled: not while the thread boots and not in thread_cleanup.  It      *)
(* unwinds a foreign thread to the first frame that its own code has set,  *)
(* and that goes on from there.                                            *)
Die(p) ==
  /\ exits[p] # 0
  /\ Interruptible(p)
  /\ Forget(p)
  /\ At(p, IF p \in Objects THEN "returned" ELSE "running")
  /\ UNCHANGED <<phase, exit_values, start_stop_lock, runs, vector, actor>>

(* thread_cleanup, of a process or, in ecl_release_current_thread, of an   *)
(* imported thread; the environment goes, with the interrupts it has.      *)
CleanupBegin(p) ==
  /\ thread[p] = IF p \in Foreign THEN "running" ELSE "returned"
  /\ Free(p)
  /\ start_stop_lock' = [start_stop_lock EXCEPT ![p] = p]
  /\ phase' = [phase EXCEPT ![p] = "EXITING"]
  /\ Forget(p)
  /\ At(p, "cleaning")
  /\ UNCHANGED <<exit_values, runs, vector, actor>>

CleanupUnlist(p) ==
  /\ thread[p] = "cleaning"
  /\ Unlist(p)
  /\ At(p, "unlisted")
  /\ UNCHANGED <<phase, exit_values, start_stop_lock, exits, signals, runs, actor>>

CleanupEnd(p) ==
  /\ thread[p] = "unlisted"
  /\ phase' = [phase EXCEPT ![p] = "INACTIVE"]
  /\ start_stop_lock' = [start_stop_lock EXCEPT ![p] = None]
  /\ pc' = Alerted(p, None, "idle")
  /\ At(p, "none")
  /\ UNCHANGED <<exit_values, exits, signals, runs, vector, on, size, since>>

-----------------------------------------------------------------------------
(* Joining and killing a process *)

Join(c, p) ==
  /\ pc[c] = "idle"
  /\ on' = [on EXCEPT ![c] = p]
  /\ since' = [since EXCEPT ![c] = runs[p]]
  /\ Goto(c, "joining")
  /\ UNCHANGED <<process, vector, size>>

EndedOrBooting(p) == phase[p] \in {"INACTIVE", "BOOTING"} \* mutant of Ended
Ended(p) == phase[p] = "INACTIVE"

(* With the lock: return exit_values, or wait on exit_barrier.             *)
JoinLook(c) ==
  /\ pc[c] = "joining"
  /\ Free(on[c])
  /\ IF Ended(on[c])
     THEN Goto(c, "idle") /\ Leave(c)
     ELSE Goto(c, "waiting") /\ UNCHANGED <<on, size, since>>
  /\ UNCHANGED <<process, vector>>

SpuriousWakeup(c) ==
  /\ pc[c] = "waiting"
  /\ Goto(c, "joining")
  /\ UNCHANGED <<process, vector, on, size, since>>

ReachableBusy(p) == phase[p] # "INACTIVE"    \* mutant of Reachable
Reachable(p) == Free(p) /\ phase[p] # "INACTIVE"

(* A process that is imported is known when it is in the vector.           *)
Known(p) == p \in Foreign => pc[p] \notin {"listing", "full", "extending"}

(* mp_interrupt_process, with exit-process; the lock is held for as long   *)
(* as it takes to look at the phase and to queue the interrupt.  A process *)
(* that boots gets no signal for it.                                       *)
Kill(c, p) ==
  /\ pc[c] = "idle"
  /\ Reachable(p) /\ Known(p)
  /\ exits' = [exits EXCEPT ![p] = runs[p]]
  /\ signals' = IF phase[p] = "ACTIVE" THEN [signals EXCEPT ![p] = runs[p]]
                ELSE signals
  /\ UNCHANGED <<phase, exit_values, start_stop_lock, thread, runs, vector, actor>>

(* An interrupt that does not return, in a client.                         *)
Unwind(c) ==
  /\ \/ /\ pc[c] \in {"listing", "full", "extending", "creating"}
        /\ Goto(c, "undoing")
        /\ UNCHANGED <<on, size, since>>
     \/ /\ pc[c] \in {"joining", "waiting", "polling"}
        /\ Goto(c, "idle")
        /\ Leave(c)
  /\ UNCHANGED <<process, vector>>

ActorStep(a) ==
  List(a) \/ Measure(a) \/ Extend(a) \/ Create(a) \/ Unlock(a) \/ Poll(a)
  \/ Undo(a) \/ Undone(a) \/ Imported(a) \/ JoinLook(a)
Next ==
  \/ \E a \in Actors : ActorStep(a)
  \/ \E p \in Processes :
       Start(p) \/ Return(p) \/ Exit(p) \/ Die(p)
       \/ CleanupBegin(p) \/ CleanupUnlist(p) \/ CleanupEnd(p)
  \/ \E f \in Foreign : Import(f)
  \/ \E c \in Clients :
       \/ Unwind(c) \/ SpuriousWakeup(c)
       \/ c \in Joiners /\ \E p \in Processes : Join(c, p)
       \/ c \in Enablers /\ \E p \in Objects : Enable(c, p)
       \/ c \in Enablers /\ \E p \in Processes : Kill(c, p)

(* Threads keep running: clients go on in the functions above, the thread  *)
(* of a process boots, runs the interrupts it gets a signal for, and ends; *)
(* an interrupt that is only queued may run when something else makes the  *)
(* thread look, or never.  The function of a process may never return, and *)
(* what foreign threads do is up to them.                                  *)
ThreadStep(p) ==
  Start(p) \/ (signals[p] # 0 /\ Die(p)) \/ CleanupUnlist(p) \/ CleanupEnd(p)
Fairness ==
  /\ \A c \in Clients : WF_vars(ActorStep(c))
  /\ \A p \in Objects : WF_vars(ThreadStep(p)) /\ WF_vars(CleanupBegin(p))
Spec == Init /\ [][Next]_vars /\ Fairness

-----------------------------------------------------------------------------
TypeOK ==
  /\ phase \in [Processes -> Phases]
  /\ exit_values \in [Processes -> 0 .. MaxRuns + 1]
  /\ start_stop_lock \in [Processes -> Processes \cup Clients \cup {None}]
  /\ exits \in [Processes -> 0 .. MaxRuns + 1]
  /\ signals \in [Processes -> 0 .. MaxRuns + 1]
  /\ thread \in [Processes -> Places]
  /\ runs \in [Processes -> 0 .. MaxRuns + 1]
  /\ slots \in Seq(Processes \cup {Main, None, Junk})
  /\ fillp \in 1 .. dim
  /\ pc \in [Actors -> PCs]
  /\ on \in [Actors -> Processes \cup {None}]
  /\ size \in [Actors -> Nat]
  /\ since \in [Actors -> 0 .. MaxRuns + 1]

(* The collector marks the environments of listed processes: a process is  *)
(* listed for as long as it has a thread with an environment.              *)
ListedWhileUsed ==
  \A p \in Processes :
    thread[p] \in {"created", "running", "returned", "cleaning"} => p \in Listed

(* Until the vector is extended, the list has every process once and none  *)
(* that has ended.                                                         *)
ListIsExact ==
  dim = Size =>
    /\ \A i, j \in 1 .. fillp : i # j => slots[i] # slots[j]
    /\ Junk \notin Listed /\ None \notin Listed
    /\ \A p \in Listed \ {Main} : ~Ended(p)

(* A process that is started has no thread left from its last run.         *)
OneThread ==
  [][\A p \in Processes : runs'[p] # runs[p] => thread[p] = "none" /\ Free(p)]_vars

(* A pending exit-process is for the run it was sent to: the environment   *)
(* it is queued in has not been given up since, and a signal sent with it  *)
(* finds it there.                                                         *)
ExitsLand ==
  \A p \in Processes :
    /\ exits[p] # 0 => exits[p] = runs[p] /\ phase[p] \in {"BOOTING", "ACTIVE"}
    /\ signals[p] # 0 => signals[p] = exits[p] /\ phase[p] = "ACTIVE"

(* A join returns when the run it found is over and its thread is through. *)
JoinsTheEnd ==
  [][\A c \in Clients :
       JoinLook(c) /\ pc'[c] = "idle" =>
         LET p == on[c]
         IN runs[p] > since[c] \/ (phase[p] = "INACTIVE" /\ thread[p] = "none")]_vars

(* A client that waits on exit_barrier waits for a run that is not over:   *)
(* its end is still to come, and the broadcast with it.                    *)
NoneWaitsForEnded ==
  \A a \in Actors : pc[a] = "waiting" => on[a] \in Processes /\ ~Ended(on[a])

Life == INSTANCE AbstractProcess WITH
  Threads <- Actors,
  run     <- runs,
  alive   <- [p \in Processes |-> thread[p] # "none"],
  doomed  <- [p \in Processes |-> exits[p] # 0],
  awaited <- [a \in Actors |-> IF pc[a] = "waiting" THEN on[a] ELSE None]

(* Lock, phase, thread, queued interrupts and exit_barrier together are a  *)
(* life cycle: one thread for each run, an exit-process only for the run   *)
(* it was sent to, nobody left on exit_barrier when a run ends.            *)
ImplementsLifeCycle == Life!Spec

(* Nobody waits forever for a process that has ended.                      *)
JoinersLeave ==
  \A c \in Joiners :
    []<>~(pc[c] \in {"joining", "waiting"} /\ phase[on[c]] = "INACTIVE")

=============================================================================
