------------------------------ MODULE Interrupts ------------------------------
(***************************************************************************)
(* Interrupts of one Lisp thread, src/c/unixint.d and the macros that keep *)
(* them off and on again (POSIX threads, ECL_USE_MPROTECT).                *)
(*                                                                         *)
(* mp:interrupt-process appends a function to the thread's queue and sends *)
(* it a signal; other signals queue themselves.  The thread keeps          *)
(* interrupts off in two ways.  C code sets disable_interrupts; a signal   *)
(* that comes then makes the environment read-only, so that the store that *)
(* enables them faults, and the fault handler drains the queue.  Lisp code *)
(* binds *interrupts-enabled* and looks at the queue when it is done.      *)
(*                                                                         *)
(* A signal may come between any two steps.  What runs is a stack of       *)
(* frames: the program, its scopes without interrupts, loops that drain    *)
(* the queue, and the interrupts they run.                                 *)
(***************************************************************************)
EXTENDS Naturals, Sequences, FiniteSets

CONSTANTS
  Functions,   \* calls of mp:interrupt-process
  Signals,     \* other asynchronous signals to this thread
  None,        \* a frame that is none of them
  Spares,      \* bound: conses preallocated for signals, an option
  MaxFrames,   \* bound: the program opens no scope above so many frames
  MaxUnwound   \* bound: the same, once frames have been unwound

ASSUME InterruptsAssumption ==
  /\ IsFiniteSet(Functions \cup Signals) /\ Functions \cap Signals = {}
  /\ None \notin Functions \cup Signals
  /\ Spares \in Nat /\ MaxFrames \in Nat /\ MaxUnwound \in Nat

Ids == Functions \cup Signals

VARIABLES
  pending,     \* interrupt_struct->pending_interrupt
  spare,       \* how many conses interrupt_struct->signal_queue has
  locked,      \* signal_queue_lock, taken by the thread itself
  disabled,    \* disable_interrupts
  guard,       \* the environment is read-only
  active,      \* phase = ECL_PROCESS_ACTIVE
  signalled,   \* the interrupt signal is on its way to the thread
  stack,       \* the frames, the running one last
  caller,      \* where each call of mp:interrupt-process is
  started,     \* history: how often each was run
  dropped,     \* history: signals that found no spare cons
  missed,      \* history: queued and not signalled, for the thread booted
  reentered,   \* history: a signal was queued inside pop_signal
  unwound      \* history: frames have been unwound

vars == <<pending, spare, locked, disabled, guard, active, signalled, stack,
          caller, started, dropped, missed, reentered, unwound>>
queue == <<pending, spare, locked>>
flags == <<disabled, guard>>
outside == <<active, signalled, caller>>
history == <<started, dropped, missed, reentered, unwound>>

(* Scopes of mp.lsp that let interrupts in: with-interrupts and what       *)
(* without-interrupts offers its body.                                     *)
Relaxed == {"with", "restored", "allow", "local"}
Kinds == {"program", "interrupt", "without", "section", "drain"} \cup Relaxed
Ats == {"boot", "open", "waiting",
        "critical", "nested", "exposed", "entering",      \* sections of C code
        "test", "locking", "loaded", "linked", "stored", "ready",  \* a loop
        "dead", "torn"}

(* ena and allow are *interrupts-enabled* and *allow-with-interrupts* as   *)
(* the frame sees them; last, in pop_signal, whether the record that was   *)
(* loaded ends the queue.                                                  *)
Frame(kind, at, ena, allow, what) ==
  [kind |-> kind, at |-> at, ena |-> ena, allow |-> allow, what |-> what,
   last |-> FALSE]
Over(f, kind, at, what) == Frame(kind, at, f.ena, f.allow, what)
Drain(f) == Over(f, "drain", "test", None)
Interrupt(f, i) == Over(f, "interrupt", "open", i)

Depth == Len(stack)
Top == stack[Depth]
With(f) == [stack EXCEPT ![Depth] = f]
Below == SubSeq(stack, 1, Depth - 1)
Stop(at) == stack' = With([Top EXCEPT !.at = at])
Dead == Top.at \in {"dead", "torn"}
Runs == Top.kind # "drain" /\ Top.at = "open"

Init ==
  /\ pending = <<>>
  /\ spare \in 1 .. Spares
  /\ locked = FALSE
  /\ disabled = TRUE
  /\ guard = FALSE
  /\ active = FALSE
  /\ signalled = FALSE
  /\ stack = <<Frame("program", "boot", TRUE, TRUE, None)>>
  /\ caller = [i \in Functions |-> "new"]
  /\ started = [i \in Ids |-> 0]
  /\ dropped = {}
  /\ missed = {}
  /\ reentered = FALSE
  /\ unwound = FALSE

-----------------------------------------------------------------------------
(* ecl_interrupt_process                                                   *)

(* The lock is with a caller, who allocates a cons with it.  That enables  *)
(* interrupts, so a caller may run one for as long as it likes, or be      *)
(* unwound by it and never return the lock.                                *)
Held == \E i \in Functions : caller[i] = "locked"
InPop == Top.at \in {"loaded", "linked"}

(* Whoever gets the lock while the thread is inside pop_signal, which a    *)
(* signal handler has unlocked, works on the same lists: the model ends.   *)
Lock(i) ==
  /\ ~Dead
  /\ caller[i] = "new"
  /\ ~locked /\ ~Held
  /\ caller' = [caller EXCEPT ![i] = "locked"]
  /\ IF InPop THEN Stop("torn") ELSE UNCHANGED stack
  /\ UNCHANGED <<queue, flags, active, signalled, history>>

Queue(i) ==
  /\ ~Dead
  /\ caller[i] = "locked"
  /\ pending' = Append(pending, i)
  /\ caller' = [caller EXCEPT ![i] = "queued"]
  /\ UNCHANGED <<spare, locked, flags, active, signalled, stack, history>>

Kill(i) ==
  /\ ~Dead
  /\ caller[i] = "queued"
  /\ caller' = [caller EXCEPT ![i] = "done"]
  /\ IF active
     THEN signalled' = TRUE /\ UNCHANGED missed
     ELSE missed' = missed \cup {i} /\ UNCHANGED signalled
  /\ UNCHANGED <<queue, flags, active, stack, started, dropped, reentered, unwound>>

-----------------------------------------------------------------------------
(* Signal handlers, atomic until they run Lisp code                        *)

NotByLisp == Top.ena                     \* mutant of NotByC
NotByC == ~disabled

(* process_interrupt_handler                                               *)
Deliver ==
  /\ ~Dead
  /\ signalled
  /\ signalled' = FALSE
  /\ guard' = (guard \/ (pending # <<>> /\ ~NotByC))
  /\ stack' = IF pending # <<>> /\ NotByC /\ Top.ena
              THEN Append(stack, Drain(Top)) ELSE stack
  /\ UNCHANGED <<queue, disabled, active, caller, history>>

(* queue_signal of a signal handler, which waits for a caller.  If it      *)
(* interrupted pop_signal the lock is the thread's own: locking it fails,  *)
(* which nobody notices, and unlocking it succeeds.                        *)
QueueOwn(a) ==
  /\ ~Held
  /\ IF spare = 0
     THEN dropped' = dropped \cup {a} /\ UNCHANGED <<pending, spare>>
     ELSE /\ pending' = Append(pending, a)
          /\ spare' = spare - 1
          /\ UNCHANGED dropped
  /\ locked' = FALSE
  /\ reentered' = (reentered \/ Top.at = "loaded")

New(a) ==
  /\ started[a] = 0
  /\ a \notin dropped
  /\ \A k \in 1 .. Len(pending) : pending[k] # a
  /\ \A k \in 1 .. Depth : stack[k].what # a

(* non_evil_signal_handler and handle_or_queue                             *)
Async(a) ==
  /\ Top.at # "boot" /\ ~Dead
  /\ New(a)
  /\ ~(Top.at = "linked" /\ spare > 0)
  /\ ~(guard /\ Top.ena)
  /\ IF Top.ena /\ ~disabled
     THEN /\ stack' = Append(stack, Interrupt(Top, a))
          /\ started' = [started EXCEPT ![a] = @ + 1]
          /\ UNCHANGED <<queue, guard, dropped, reentered>>
     ELSE /\ QueueOwn(a)
          /\ guard' = (guard \/ Top.ena)
          /\ UNCHANGED <<stack, started>>
  /\ UNCHANGED <<disabled, outside, missed, unwound>>

(* Where C disabled interrupts, handle_or_queue begins with a store to the *)
(* environment, which may be read-only since an earlier signal.  It is in  *)
(* a handler, with every signal blocked: the system kills the process.     *)
AsyncKills(a) ==
  /\ ~Dead
  /\ New(a)
  /\ guard /\ Top.ena
  /\ Stop("dead")
  /\ UNCHANGED <<queue, flags, outside, history>>

(* A handler that interrupts pop_signal while it puts a cons back takes    *)
(* the one that is then behind it: pending and spare at once, and the rest *)
(* of the spare ones lost.  The model ends here.                           *)
AsyncTears(a) ==
  /\ Top.at = "linked"
  /\ New(a)
  /\ spare > 0
  /\ ~(guard /\ Top.ena)
  /\ Stop("torn")
  /\ UNCHANGED <<queue, flags, outside, history>>

(* A store to disable_interrupts.  If it faults, the handler lifts the     *)
(* protection, enables interrupts and drains the queue, whatever           *)
(* *interrupts-enabled* is, before the store is made again.                *)
Enable(at) ==
  /\ disabled' = FALSE
  /\ guard' = FALSE
  /\ LET there == With([Top EXCEPT !.at = at])
     IN  stack' = IF guard THEN Append(there, Drain(Top)) ELSE there

-----------------------------------------------------------------------------
(* handle_all_queued and pop_signal                                        *)

DrainEnd ==
  /\ Top.at = "test"
  /\ pending = <<>>
  /\ stack' = Below
  /\ UNCHANGED <<queue, flags, outside, history>>

PopDisable ==
  /\ Top.at = "test"
  /\ pending # <<>>
  /\ disabled' = TRUE
  /\ Stop("locking")
  /\ UNCHANGED <<queue, guard, outside, history>>

(* The thread waits for the lock, with interrupts disabled.                *)
PopLoad ==
  /\ Top.at = "locking"
  /\ ~Held /\ pending # <<>>
  /\ locked' = TRUE
  /\ stack' = With([Top EXCEPT !.at = "loaded", !.what = Head(pending),
                               !.last = Len(pending) = 1])
  /\ UNCHANGED <<pending, spare, flags, outside, history>>

(* What was queued behind the last record since it was loaded is lost.     *)
KeepRest == pending                      \* mutant of Rest
Rest == IF Top.last THEN <<>> ELSE Tail(pending)

RecycleAny == TRUE                       \* mutant of Recycle
Recycle == Top.what \in Signals

PopStore ==
  /\ Top.at = "loaded"
  /\ pending' = Rest
  /\ locked' = (locked /\ Recycle)
  /\ stack' = With([Top EXCEPT !.at = IF Recycle THEN "linked" ELSE "stored",
                               !.last = FALSE])
  /\ UNCHANGED <<spare, flags, outside, history>>

PopRecycle ==
  /\ Top.at = "linked"
  /\ spare' = spare + 1
  /\ locked' = FALSE
  /\ Stop("stored")
  /\ UNCHANGED <<pending, flags, outside, history>>

PopEnable ==
  /\ Top.at = "stored"
  /\ Enable("ready")
  /\ UNCHANGED <<queue, outside, history>>

(* handle_signal_now                                                       *)
Run ==
  /\ Top.at = "ready"
  /\ started' = [started EXCEPT ![Top.what] = @ + 1]
  /\ stack' = Append(With(Drain(Top)), Interrupt(Top, Top.what))
  /\ UNCHANGED <<queue, flags, outside, dropped, missed, reentered, unwound>>

Return ==
  /\ Runs
  /\ Top.kind = "interrupt"
  /\ stack' = Below
  /\ UNCHANGED <<queue, flags, outside, history>>

-----------------------------------------------------------------------------
(* The program                                                             *)

(* thread_entry_point: the phase is set, and then interrupts enabled, as   *)
(* at the end of any critical section; nobody looks at the queue.          *)
Activate ==
  /\ Top.at = "boot"
  /\ active' = TRUE
  /\ Stop("critical")
  /\ UNCHANGED <<queue, flags, signalled, caller, history>>

(* ecl_disable_interrupts_env, ecl_enable_interrupts_env.  Within one      *)
(* section of C code there may be another, of a function it calls.  The    *)
(* flag is no counter: the end of the inner one enables interrupts, and    *)
(* the outer one goes on exposed to them; its beginning is a store, which  *)
(* may fault in the outer one as its end may.                              *)
EnterCritical ==
  /\ Runs
  /\ disabled' = TRUE
  /\ Stop("critical")
  /\ UNCHANGED <<queue, guard, outside, history>>

EnterNested ==
  /\ Top.at \in {"critical", "nested", "exposed", "entering"}
  /\ IF guard THEN Enable("entering")
     ELSE disabled' = TRUE /\ guard' = guard /\ Stop("nested")
  /\ UNCHANGED <<queue, outside, history>>

LeaveNested ==
  /\ Top.at = "nested"
  /\ Enable("exposed")
  /\ UNCHANGED <<queue, outside, history>>

LeaveCritical ==
  /\ Top.at \in {"critical", "exposed"}
  /\ Enable("open")
  /\ UNCHANGED <<queue, outside, history>>

Room == Depth < IF unwound THEN MaxUnwound ELSE MaxFrames

(* mp:without-interrupts, and ECL_WITHOUT_INTERRUPTS_BEGIN and the like.   *)
Enter(kind) ==
  /\ Runs
  /\ Room
  /\ stack' = Append(stack, Frame(kind, "open", FALSE, kind = "section" /\ Top.allow, None))
  /\ UNCHANGED <<queue, flags, outside, history>>

(* mp:with-interrupts, and the macros of without-interrupts used in its    *)
(* body; o is the frame around that.  The queue is looked at if this is    *)
(* what enables interrupts, or where with-local-interrupts may.            *)
Admit(kind) ==
  /\ Runs
  /\ Room
  /\ kind # "with" => Top.kind = "without"
  /\ LET o == IF kind = "with" THEN Top ELSE stack[Depth - 1]
         new == CASE kind = "with" -> <<Top.ena \/ Top.allow, Top.allow>>
                  [] kind = "restored" -> <<o.ena, Top.allow>>
                  [] kind = "allow" -> <<Top.ena, o.allow>>
                  [] kind = "local" -> <<o.allow, o.allow>>
         scope == Append(stack, Frame(kind, "open", new[1], new[2], None))
         looks == \/ kind = "with" /\ Top.allow /\ ~Top.ena
                  \/ kind = "local" /\ o.allow
     IN  stack' = IF looks THEN Append(scope, Drain(scope[Depth + 1])) ELSE scope
  /\ UNCHANGED <<queue, flags, outside, history>>

NeverLooks == FALSE                      \* mutant of Looks
(* The macro looks at the queue if interrupts are enabled again, the C     *)
(* code does in any case.                                                  *)
Looks == Top.kind = "section" \/ (Top.kind = "without" /\ stack[Depth - 1].ena)

Leave ==
  /\ Runs
  /\ Top.kind \in {"without", "section"} \cup Relaxed
  /\ stack' = IF Looks THEN Append(Below, Drain(stack[Depth - 1])) ELSE Below
  /\ UNCHANGED <<queue, flags, outside, history>>

(* A C section that waits for others sets *interrupts-enabled* meanwhile.  *)
StartWait ==
  /\ Runs
  /\ Top.kind = "section"
  /\ stack' = With([Top EXCEPT !.at = "waiting", !.ena = TRUE])
  /\ UNCHANGED <<queue, flags, outside, history>>

EndWait ==
  /\ Top.at = "waiting"
  /\ stack' = With([Top EXCEPT !.at = "open", !.ena = FALSE])
  /\ UNCHANGED <<queue, flags, outside, history>>

(* A non-local exit to frame k.  A section is left through its cleanup,    *)
(* which disables interrupts and looks at the queue; a scope without       *)
(* interrupts is left without looking, and an exposed section of C code    *)
(* with whatever it has locked.                                            *)
Unwind(k) ==
  /\ Runs
  /\ k < Depth
  /\ stack[k].kind \notin {"interrupt", "drain"}
  /\ stack' = SubSeq(stack, 1, k - 1)
                \o <<[stack[k] EXCEPT !.at = "open", !.ena = @ /\ stack[k].kind # "section"]>>
  /\ unwound' = TRUE
  /\ UNCHANGED <<queue, flags, outside, started, dropped, missed, reentered>>

-----------------------------------------------------------------------------
Going ==
  \/ LeaveNested \/ LeaveCritical \/ (Top.at = "entering" /\ EnterNested)
  \/ DrainEnd \/ PopDisable \/ PopLoad \/ PopStore \/ PopRecycle \/ PopEnable \/ Run
Closing == Leave \/ Return

Next ==
  \/ \E i \in Functions : Lock(i) \/ Queue(i) \/ Kill(i)
  \/ \E a \in Signals : Async(a) \/ AsyncKills(a) \/ AsyncTears(a)
  \/ Deliver
  \/ Activate \/ Going \/ Closing
  \/ EnterCritical \/ EnterNested \/ (\E kind \in {"without", "section"} : Enter(kind))
  \/ \E kind \in Relaxed : Admit(kind)
  \/ StartWait \/ EndWait \/ (\E k \in 1 .. Depth : Unwind(k))

Spec == Init /\ [][Next]_vars

(* Signals arrive, callers that have queued theirs send them, and the      *)
(* thread goes on until it is out of a critical section or a loop.         *)
FairSpec ==
  /\ Spec
  /\ WF_vars(Deliver) /\ WF_vars(Activate) /\ WF_vars(Going)
  /\ \A i \in Functions : WF_vars(Kill(i))

-----------------------------------------------------------------------------
TypeOK ==
  /\ pending \in Seq(Ids)
  /\ spare \in 0 .. Spares
  /\ locked \in BOOLEAN /\ disabled \in BOOLEAN /\ guard \in BOOLEAN
  /\ active \in BOOLEAN /\ signalled \in BOOLEAN
  /\ \A k \in 1 .. Depth :
       stack[k] \in [kind : Kinds, at : Ats, ena : BOOLEAN, allow : BOOLEAN,
                     what : Ids \cup {None}, last : BOOLEAN]
  /\ caller \in [Functions -> {"new", "locked", "queued", "done"}]
  /\ started \in [Ids -> Nat]
  /\ dropped \subseteq Signals /\ missed \subseteq Functions
  /\ reentered \in BOOLEAN /\ unwound \in BOOLEAN

(* No interrupt runs on top of C code for as long as it has them disabled, *)
(* in whatever way interrupts, loops and sections nest: the flag is not a  *)
(* counter, handlers and loops set and clear it too.  Only a section       *)
(* within that code can expose it, at its beginning or its end.  And no    *)
(* protection outlives the code it is for.                                 *)
Unsafe == {"boot", "critical", "nested", "locking", "loaded", "linked", "stored",
           "dead", "torn"}
CriticalUninterrupted ==
  /\ \A k \in 1 .. Depth - 1 : stack[k].at \notin Unsafe
  /\ disabled <=> Top.at \in Unsafe
  /\ guard => disabled

Copies(i) ==
  started[i]
    + Cardinality({k \in 1 .. Len(pending) : pending[k] = i})
    + Cardinality({k \in 1 .. Depth : /\ stack[k].at \in {"linked", "stored", "ready"}
                                     /\ stack[k].what = i})

(* An interrupt is run once, and until then is in the queue once or in the *)
(* hands of one loop; unless frames were unwound, a loop's with it, or a   *)
(* signal was queued in the middle of taking one out.                      *)
ExactlyOnce ==
  ~unwound /\ ~reentered /\ ~Dead =>
    /\ \A i \in Functions :
         Copies(i) = IF caller[i] \in {"new", "locked"} THEN 0 ELSE 1
    /\ \A a \in Signals : Copies(a) <= 1

(* A frame that looks at the queue when it ends, whatever is on top of it. *)
Watches(j) ==
  \/ stack[j].kind \in {"drain", "section"}
  \/ stack[j].kind = "without" /\ stack[j - 1].ena

(* Nothing is forgotten in the queue: the caller is about to signal, the   *)
(* signal is on its way, the environment is read-only for it, or a frame   *)
(* that looks at the queue is on the stack, however deep.  A waiting C     *)
(* section is one, though it may look late.                                *)
QueueIsWatched ==
  ~unwound /\ ~Dead =>
    \A k \in 1 .. Len(pending) :
      \/ signalled \/ guard \/ \E j \in 1 .. Depth : Watches(j)
      \/ pending[k] \in missed
      \/ pending[k] \in Functions /\ caller[pending[k]] = "queued"

(* What is queued is run some time, though its signal comes while nobody   *)
(* may run it and there is no other: if the thread comes back to its       *)
(* program time and again, which one that waits for a lock its caller      *)
(* keeps does not, or until it waits for others.                           *)
HandledInTheEnd ==
  []<>(Depth = 1) =>
    \A i \in Ids :
      (\E k \in 1 .. Len(pending) : pending[k] = i)
        ~> (started[i] > 0 \/ Top.at = "waiting" \/ i \in missed
              \/ unwound \/ reentered \/ Dead)

(* "Interrupts can happen anywhere, except in code regions explicitely     *)
(* protected with mp:without-interrupts", or where such a region has a     *)
(* scope that lets them in.                                                *)
NoneInside ==
  \A k \in 2 .. Depth, j \in 1 .. Depth :
    stack[k].kind = "interrupt" /\ j < k /\ stack[j].kind = "without" =>
      \E l \in j + 1 .. k - 1 : stack[l].kind \in Relaxed /\ stack[l].ena
=============================================================================
