---------------------------- MODULE AbstractProcess ----------------------------
(***************************************************************************)
(* What processes promise (src/doc/manual/extensions/mp_ref_process.txi):  *)
(* enabling a process begins a run, which has one thread and ends, or ends *)
(* without having had one.  A process that is killed is told so in the run *)
(* that was to be killed.  Who waits for a process waits for a run, and    *)
(* the end of the run wakes everyone.                                      *)
(***************************************************************************)
EXTENDS Naturals

CONSTANTS Processes, Threads, None

VARIABLES
  phase,    \* INACTIVE, BOOTING, ACTIVE or EXITING
  run,      \* number of the process's run
  alive,    \* the process has a thread
  doomed,   \* an exit-process is on its way to that thread
  awaited   \* of each thread, the process for whose end it waits, or None

avars == <<phase, run, alive, doomed, awaited>>

Init ==
  /\ phase = [p \in Processes |-> "INACTIVE"]
  /\ run = [p \in Processes |-> 0]
  /\ alive = [p \in Processes |-> FALSE]
  /\ doomed = [p \in Processes |-> FALSE]
  /\ awaited = [t \in Threads |-> None]

Becomes(p, ph) == phase' = [phase EXCEPT ![p] = ph]
Lives(p, is) == alive' = [alive EXCEPT ![p] = is]
EverybodyWakes(p) ==
  awaited' = [t \in Threads |-> IF awaited[t] = p THEN None ELSE awaited[t]]

Begin(p) ==
  /\ phase[p] = "INACTIVE"
  /\ Becomes(p, "BOOTING")
  /\ run' = [run EXCEPT ![p] = @ + 1]
  /\ UNCHANGED <<alive, doomed, awaited>>

Spawn(p) ==
  /\ phase[p] = "BOOTING" /\ ~alive[p]
  /\ Lives(p, TRUE)
  /\ UNCHANGED <<phase, run, doomed, awaited>>

(* There is no thread to be had, and nobody could tell it anything.        *)
Fail(p) ==
  /\ phase[p] = "BOOTING" /\ ~alive[p] /\ ~doomed[p]
  /\ Becomes(p, "INACTIVE")
  /\ EverybodyWakes(p)
  /\ UNCHANGED <<run, alive, doomed>>

Work(p) ==
  /\ phase[p] = "BOOTING" /\ alive[p]
  /\ Becomes(p, "ACTIVE")
  /\ UNCHANGED <<run, alive, doomed, awaited>>

(* A foreign thread takes up the process it has made.                      *)
Adopt(p) ==
  /\ phase[p] = "BOOTING" /\ ~alive[p]
  /\ Becomes(p, "ACTIVE")
  /\ Lives(p, TRUE)
  /\ UNCHANGED <<run, doomed, awaited>>

Doom(p) ==
  /\ phase[p] \in {"BOOTING", "ACTIVE"}
  /\ doomed' = [doomed EXCEPT ![p] = TRUE]
  /\ UNCHANGED <<phase, run, alive, awaited>>

(* The thread is told; it may be told again before it has ended.           *)
Tell(p) ==
  /\ phase[p] = "ACTIVE" /\ doomed[p]
  /\ doomed' = [doomed EXCEPT ![p] = FALSE]
  /\ UNCHANGED <<phase, run, alive, awaited>>

End(p) ==
  /\ phase[p] = "ACTIVE"
  /\ Becomes(p, "EXITING")
  /\ doomed' = [doomed EXCEPT ![p] = FALSE]
  /\ UNCHANGED <<run, alive, awaited>>

Finish(p) ==
  /\ phase[p] = "EXITING"
  /\ Becomes(p, "INACTIVE")
  /\ Lives(p, FALSE)
  /\ EverybodyWakes(p)
  /\ UNCHANGED <<run, doomed>>

Await(t, p) ==
  /\ awaited[t] = None /\ phase[p] # "INACTIVE"
  /\ awaited' = [awaited EXCEPT ![t] = p]
  /\ UNCHANGED <<phase, run, alive, doomed>>

GiveUp(t) ==
  /\ awaited' = [awaited EXCEPT ![t] = None]
  /\ UNCHANGED <<phase, run, alive, doomed>>

Next ==
  \/ \E p \in Processes :
       \/ Begin(p) \/ Spawn(p) \/ Fail(p) \/ Work(p) \/ Adopt(p)
       \/ Doom(p) \/ Tell(p) \/ End(p) \/ Finish(p)
       \/ \E t \in Threads : Await(t, p)
  \/ \E t \in Threads : GiveUp(t)

Spec == Init /\ [][Next]_avars
=============================================================================
