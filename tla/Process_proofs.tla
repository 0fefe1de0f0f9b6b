---------------------------- MODULE Process_proofs ----------------------------
(***************************************************************************)
(* Proofs about Process: its types, who has the lock of a process in which *)
(* phase, that a run has one thread and an exit-process reaches the run it *)
(* was sent to, that a join returns when the thread is through, what the   *)
(* vector of processes lists, and that processes live as AbstractProcess   *)
(* promises.                                                               *)
(***************************************************************************)
EXTENDS Process, FiniteSetTheorems, SequenceTheorems, TLAPS

Registering == {"listing", "full", "extending", "creating"}
Enabling == Registering \cup {"created", "undoing", "undone"}
Used == {"created", "running", "returned", "cleaning"}

(* A client in process-enable has the lock and the process is booting.     *)
Enabler(c) ==
  pc[c] \in Enabling =>
    /\ on[c] \in Objects
    /\ start_stop_lock[on[c]] = c
    /\ phase[on[c]] = "BOOTING"
    /\ thread[on[c]] = IF pc[c] = "created" THEN "created" ELSE "none"

Importer(f) ==
  /\ pc[f] \in Registering \cup {"idle"}
  /\ pc[f] # "idle" => on[f] = f /\ phase[f] = "BOOTING" /\ thread[f] = "none"

(* What lock, phase and thread of a process say about each other.          *)
Consistent(p) ==
  /\ start_stop_lock[p] \in Clients =>
       /\ pc[start_stop_lock[p]] \in Enabling /\ on[start_stop_lock[p]] = p
       /\ exits[p] = 0
  /\ start_stop_lock[p] \in Processes =>
       start_stop_lock[p] = p /\ thread[p] \in {"cleaning", "unlisted"}
  /\ thread[p] \in {"cleaning", "unlisted"} =>
       start_stop_lock[p] = p /\ phase[p] = "EXITING" /\ exits[p] = 0
  /\ thread[p] \in {"running", "returned"} =>
       start_stop_lock[p] = None /\ phase[p] = "ACTIVE"
  /\ thread[p] = "created" => phase[p] = "BOOTING"
  /\ phase[p] = "INACTIVE" =>
       start_stop_lock[p] = None /\ thread[p] = "none" /\ exits[p] = 0
  /\ phase[p] = "EXITING" => thread[p] \in {"cleaning", "unlisted"}
  /\ phase[p] = "ACTIVE" => thread[p] \in {"running", "returned"}
  /\ phase[p] = "BOOTING" =>
       p \in Foreign \/ start_stop_lock[p] \in Clients \/ thread[p] = "created"
  /\ runs[p] = 0 => phase[p] = "INACTIVE"
  /\ exits[p] # 0 => exits[p] = runs[p]
  /\ signals[p] # 0 => signals[p] = exits[p] /\ phase[p] = "ACTIVE"

Fields ==
  /\ phase \in [Processes -> Phases]
  /\ exit_values \in [Processes -> 0 .. MaxRuns + 1]
  /\ start_stop_lock \in [Processes -> Processes \cup Clients \cup {None}]
  /\ exits \in [Processes -> 0 .. MaxRuns + 1]
  /\ signals \in [Processes -> 0 .. MaxRuns + 1]
  /\ thread \in [Processes -> Places]
  /\ runs \in [Processes -> 0 .. MaxRuns + 1]
  /\ pc \in [Actors -> PCs]
  /\ on \in [Actors -> Processes \cup {None}]
  /\ size \in [Actors -> Nat]
  /\ since \in [Actors -> 0 .. MaxRuns + 1]
  /\ \A a \in Actors : pc[a] # "idle" => on[a] \in Processes

Control ==
  /\ Fields
  /\ \A c \in Clients : Enabler(c)
  /\ \A f \in Foreign : Importer(f)
  /\ \A p \in Processes : Consistent(p)

(* The vector.                                                             *)
Vector ==
  /\ slots \in Seq(Processes \cup {Main, None, Junk})
  /\ dim >= Size /\ fillp \in 1 .. dim /\ slots[1] = Main
Kept ==
  /\ \A p \in Processes : thread[p] \in Used => p \in Listed
  /\ \A a \in Actors : pc[a] = "creating" => on[a] \in Listed
Single == \A i, j \in 1 .. fillp : i # j => slots[i] # slots[j]
Outside == {"listing", "full", "extending", "undone"}
Exact ==
  /\ Single
  /\ Junk \notin Listed /\ None \notin Listed
  /\ \A p \in Processes : p \in Listed => phase[p] # "INACTIVE" /\ thread[p] # "unlisted"
  /\ \A a \in Actors :
       pc[a] \in Outside => on[a] \notin Listed

Lists == Vector /\ Kept /\ (dim = Size => Exact)
IInv == Control /\ Lists

-----------------------------------------------------------------------------
(* The members of the vector that are not processes differ.                *)
LEMMA Distinct == Main # None /\ Main # Junk /\ None # Junk
<1>1. \A x, y : Cardinality({x, y}) <= 2
  <2> TAKE x, y
  <2>1. IsFiniteSet({x}) /\ Cardinality({x}) = 1
    BY FS_Singleton
  <2>2. {x, y} = {x} \cup {y}
    OBVIOUS
  <2>3. Cardinality({x} \cup {y}) = IF y \in {x} THEN Cardinality({x}) ELSE Cardinality({x}) + 1
    BY <2>1, FS_AddElement
  <2> QED
    BY <2>1, <2>2, <2>3
<1>2. Cardinality({Main, None, Junk}) = 3
  BY ProcessesAssumption DEF ProcessesAssumption
<1>3. ASSUME NEW x, NEW y, {Main, None, Junk} = {x, y}
      PROVE FALSE
  <2>1. Cardinality({x, y}) = 3
    BY <1>2, <1>3
  <2>2. Cardinality({x, y}) <= 2
    BY <1>1
  <2> QED
    BY <2>1, <2>2
<1> QED
  <2>1. Main # None
    <3> SUFFICES ASSUME Main = None PROVE FALSE
      OBVIOUS
    <3> {Main, None, Junk} = {Main, Junk}
      OBVIOUS
    <3> QED
      BY <1>3
  <2>2. Main # Junk
    <3> SUFFICES ASSUME Main = Junk PROVE FALSE
      OBVIOUS
    <3> {Main, None, Junk} = {Main, None}
      OBVIOUS
    <3> QED
      BY <1>3
  <2>3. None # Junk
    <3> SUFFICES ASSUME None = Junk PROVE FALSE
      OBVIOUS
    <3> {Main, None, Junk} = {Main, None}
      OBVIOUS
    <3> QED
      BY <1>3
  <2> QED
    BY <2>1, <2>2, <2>3

(* Processes, actors and the three members of the vector are apart.        *)
LEMMA Apart ==
  /\ Clients \cap Processes = {} /\ Objects \cap Foreign = {}
  /\ Foreign \subseteq Processes /\ Objects \subseteq Processes
  /\ Clients \subseteq Actors /\ Foreign \subseteq Actors
  /\ None \notin Processes /\ None \notin Clients /\ None \notin Actors
  /\ Main \notin Processes /\ Junk \notin Processes
  /\ \A a \in Actors : a \in Clients \/ a \in Foreign
  BY ProcessesAssumption DEF ProcessesAssumption, Processes, Actors

-----------------------------------------------------------------------------
(* Lock, phase and threads.  One lemma for each action.                    *)

USE DEF Free, At, Forget, Enabling, Registering

LEMMA EnableControl ==
  ASSUME Control, NEW c \in Clients, NEW p \in Objects, Enable(c, p)
  PROVE  Control'
<1> USE Apart
<1>1. Fields'
  BY BoundsAssumption DEF BoundsAssumption, Control, Fields, Enable, Startable, Goto, Phases, PCs
<1>2. ASSUME NEW d \in Clients PROVE Enabler(d)'
  BY DEF Control, Fields, Enabler, Consistent, Enable, Startable, Goto
<1>3. ASSUME NEW f \in Foreign PROVE Importer(f)'
  BY DEF Control, Fields, Importer, Enable, Startable, Goto
<1>4. ASSUME NEW q \in Processes PROVE Consistent(q)'
  BY DEF Control, Fields, Enabler, Consistent, Enable, Startable, Goto
<1> QED
  BY <1>1, <1>2, <1>3, <1>4 DEF Control

LEMMA CreateControl ==
  ASSUME Control, NEW c \in Actors, Create(c)
  PROVE  Control'
<1> USE Apart
<1>1. Fields'
  BY DEF Control, Fields, Enabler, Create, Goto, PCs, Places
<1>2. ASSUME NEW d \in Clients PROVE Enabler(d)'
  BY DEF Control, Fields, Enabler, Create, Goto
<1>3. ASSUME NEW f \in Foreign PROVE Importer(f)'
  BY DEF Control, Fields, Enabler, Importer, Create, Goto
<1>4. ASSUME NEW q \in Processes PROVE Consistent(q)'
  BY DEF Control, Fields, Enabler, Consistent, Create, Goto
<1> QED
  BY <1>1, <1>2, <1>3, <1>4 DEF Control

LEMMA UnlockControl ==
  ASSUME Control, NEW c \in Actors, Unlock(c)
  PROVE  Control'
<1> USE Apart
<1>1. Fields'
  BY BoundsAssumption DEF BoundsAssumption, Control, Fields, Unlock, Goto, Leave, PCs
<1>2. ASSUME NEW d \in Clients PROVE Enabler(d)'
  BY DEF Control, Fields, Enabler, Importer, Unlock, Goto, Leave
<1>3. ASSUME NEW f \in Foreign PROVE Importer(f)'
  BY DEF Control, Fields, Enabler, Importer, Unlock, Goto, Leave
<1>4. ASSUME NEW q \in Processes PROVE Consistent(q)'
  BY DEF Control, Fields, Enabler, Importer, Consistent, Unlock, Goto, Leave
<1> QED
  BY <1>1, <1>2, <1>3, <1>4 DEF Control

LEMMA UndoneControl ==
  ASSUME Control, NEW c \in Actors, Undone(c)
  PROVE  Control'
<1> USE Apart DEF Alerted
<1>1. Fields'
  BY BoundsAssumption DEF BoundsAssumption, Control, Fields, Undone, Goto, Leave, PCs, Phases
<1>2. ASSUME NEW d \in Clients PROVE Enabler(d)'
  BY DEF Control, Fields, Enabler, Importer, Undone, Goto, Leave
<1>3. ASSUME NEW f \in Foreign PROVE Importer(f)'
  BY DEF Control, Fields, Enabler, Importer, Undone, Goto, Leave
<1>4. ASSUME NEW q \in Processes PROVE Consistent(q)'
  BY DEF Control, Fields, Enabler, Importer, Consistent, Undone, Goto, Leave
<1> QED
  BY <1>1, <1>2, <1>3, <1>4 DEF Control

LEMMA ImportControl ==
  ASSUME Control, NEW f \in Foreign, Import(f)
  PROVE  Control'
<1> USE Apart
<1>1. Fields'
  BY BoundsAssumption DEF BoundsAssumption, Control, Fields, Import, Goto, PCs, Places, Phases
<1>2. ASSUME NEW d \in Clients PROVE Enabler(d)'
  BY DEF Control, Fields, Enabler, Importer, Consistent, Import, Goto
<1>3. ASSUME NEW g \in Foreign PROVE Importer(g)'
  BY DEF Control, Fields, Importer, Consistent, Import, Goto
<1>4. ASSUME NEW q \in Processes PROVE Consistent(q)'
  BY DEF Control, Fields, Enabler, Importer, Consistent, Import, Goto
<1> QED
  BY <1>1, <1>2, <1>3, <1>4 DEF Control

LEMMA ImportedControl ==
  ASSUME Control, NEW f \in Actors, Imported(f)
  PROVE  Control'
<1> USE Apart
<1>1. Fields'
  BY BoundsAssumption DEF BoundsAssumption, Control, Fields, Imported, Goto, Leave, PCs, Places, Phases
<1>2. ASSUME NEW d \in Clients PROVE Enabler(d)'
  BY DEF Control, Fields, Enabler, Importer, Consistent, Imported, Goto, Leave
<1>3. ASSUME NEW g \in Foreign PROVE Importer(g)'
  BY DEF Control, Fields, Importer, Consistent, Imported, Goto, Leave
<1>4. ASSUME NEW q \in Processes PROVE Consistent(q)'
  BY DEF Control, Fields, Enabler, Importer, Consistent, Imported, Goto, Leave
<1> QED
  BY <1>1, <1>2, <1>3, <1>4 DEF Control

LEMMA StartControl ==
  ASSUME Control, NEW p \in Processes, Start(p)
  PROVE  Control'
<1> USE Apart
<1>1. Fields'
  BY DEF Control, Fields, Start, actor, PCs, Places, Phases
<1>2. ASSUME NEW d \in Clients PROVE Enabler(d)'
  BY DEF Control, Fields, Enabler, Importer, Consistent, Start, actor
<1>3. ASSUME NEW g \in Foreign PROVE Importer(g)'
  BY DEF Control, Fields, Importer, Consistent, Start, actor
<1>4. ASSUME NEW q \in Processes PROVE Consistent(q)'
  BY DEF Control, Fields, Enabler, Importer, Consistent, Start, actor
<1> QED
  BY <1>1, <1>2, <1>3, <1>4 DEF Control

LEMMA ReturnControl ==
  ASSUME Control, NEW p \in Processes, Return(p)
  PROVE  Control'
<1> USE Apart
<1>1. Fields'
  BY BoundsAssumption DEF BoundsAssumption, Control, Fields, Return, actor, PCs, Places, Phases
<1>2. ASSUME NEW d \in Clients PROVE Enabler(d)'
  BY DEF Control, Fields, Enabler, Importer, Consistent, Return, actor
<1>3. ASSUME NEW g \in Foreign PROVE Importer(g)'
  BY DEF Control, Fields, Importer, Consistent, Return, actor
<1>4. ASSUME NEW q \in Processes PROVE Consistent(q)'
  BY DEF Control, Fields, Enabler, Importer, Consistent, Return, actor
<1> QED
  BY <1>1, <1>2, <1>3, <1>4 DEF Control

LEMMA ExitControl ==
  ASSUME Control, NEW p \in Processes, Exit(p)
  PROVE  Control'
<1> USE Apart
<1>1. Fields'
  BY DEF Control, Fields, Exit, actor, PCs, Places, Phases
<1>2. ASSUME NEW d \in Clients PROVE Enabler(d)'
  BY DEF Control, Fields, Enabler, Importer, Consistent, Exit, actor
<1>3. ASSUME NEW g \in Foreign PROVE Importer(g)'
  BY DEF Control, Fields, Importer, Consistent, Exit, actor
<1>4. ASSUME NEW q \in Processes PROVE Consistent(q)'
  BY DEF Control, Fields, Enabler, Importer, Consistent, Exit, actor
<1> QED
  BY <1>1, <1>2, <1>3, <1>4 DEF Control

LEMMA DieControl ==
  ASSUME Control, NEW p \in Processes, Die(p)
  PROVE  Control'
<1> USE Apart
<1>1. Fields'
  BY BoundsAssumption DEF BoundsAssumption, Control, Fields, Die, Interruptible, actor, PCs, Places, Phases
<1>2. ASSUME NEW d \in Clients PROVE Enabler(d)'
  BY DEF Control, Fields, Enabler, Importer, Consistent, Die, Interruptible, actor
<1>3. ASSUME NEW g \in Foreign PROVE Importer(g)'
  BY DEF Control, Fields, Importer, Consistent, Die, Interruptible, actor
<1>4. ASSUME NEW q \in Processes PROVE Consistent(q)'
  BY DEF Control, Fields, Enabler, Importer, Consistent, Die, Interruptible, actor
<1> QED
  BY <1>1, <1>2, <1>3, <1>4 DEF Control

LEMMA CleanupBeginControl ==
  ASSUME Control, NEW p \in Processes, CleanupBegin(p)
  PROVE  Control'
<1> USE Apart
<1>1. Fields'
  BY BoundsAssumption DEF BoundsAssumption, Control, Fields, CleanupBegin, actor, PCs, Places, Phases
<1>2. ASSUME NEW d \in Clients PROVE Enabler(d)'
  BY DEF Control, Fields, Enabler, Importer, Consistent, CleanupBegin, actor
<1>3. ASSUME NEW g \in Foreign PROVE Importer(g)'
  BY DEF Control, Fields, Importer, Consistent, CleanupBegin, actor
<1>4. ASSUME NEW q \in Processes PROVE Consistent(q)'
  BY DEF Control, Fields, Enabler, Importer, Consistent, CleanupBegin, actor
<1> QED
  BY <1>1, <1>2, <1>3, <1>4 DEF Control

LEMMA CleanupUnlistControl ==
  ASSUME Control, NEW p \in Processes, CleanupUnlist(p)
  PROVE  Control'
<1> USE Apart
<1>1. Fields'
  BY DEF Control, Fields, CleanupUnlist, actor, PCs, Places, Phases
<1>2. ASSUME NEW d \in Clients PROVE Enabler(d)'
  BY DEF Control, Fields, Enabler, Importer, Consistent, CleanupUnlist, actor
<1>3. ASSUME NEW g \in Foreign PROVE Importer(g)'
  BY DEF Control, Fields, Importer, Consistent, CleanupUnlist, actor
<1>4. ASSUME NEW q \in Processes PROVE Consistent(q)'
  BY DEF Control, Fields, Enabler, Importer, Consistent, CleanupUnlist, actor
<1> QED
  BY <1>1, <1>2, <1>3, <1>4 DEF Control

LEMMA CleanupEndControl ==
  ASSUME Control, NEW p \in Processes, CleanupEnd(p)
  PROVE  Control'
<1> USE Apart
<1>1. Fields'
  BY DEF Control, Fields, CleanupEnd, Alerted, PCs, Places, Phases
<1>2. ASSUME NEW d \in Clients PROVE Enabler(d)'
  BY DEF Control, Fields, Enabler, Importer, Consistent, CleanupEnd, Alerted
<1>3. ASSUME NEW g \in Foreign PROVE Importer(g)'
  BY DEF Control, Fields, Importer, Consistent, CleanupEnd, Alerted
<1>4. ASSUME NEW q \in Processes PROVE Consistent(q)'
  BY DEF Control, Fields, Enabler, Importer, Consistent, CleanupEnd, Alerted
<1> QED
  BY <1>1, <1>2, <1>3, <1>4 DEF Control

LEMMA KillControl ==
  ASSUME Control, NEW c \in Clients, NEW p \in Processes, Kill(c, p)
  PROVE  Control'
<1> USE Apart
<1>1. Fields'
  BY DEF Control, Fields, Kill, Reachable, actor, PCs, Places, Phases
<1>2. ASSUME NEW d \in Clients PROVE Enabler(d)'
  BY DEF Control, Fields, Enabler, Importer, Consistent, Kill, Reachable, actor
<1>3. ASSUME NEW g \in Foreign PROVE Importer(g)'
  BY DEF Control, Fields, Importer, Consistent, Kill, Reachable, actor
<1>4. ASSUME NEW q \in Processes PROVE Consistent(q)'
  BY DEF Control, Fields, Enabler, Importer, Consistent, Kill, Reachable, actor
<1> QED
  BY <1>1, <1>2, <1>3, <1>4 DEF Control

(* The actions that only move an actor, within process-enable, into its    *)
(* cleanup form, or outside of it.                                         *)
LEMMA WalkControl ==
  ASSUME Control, NEW a \in Actors, NEW place,
         UNCHANGED process, Goto(a, place), Fields',
         \/ on' = on /\ pc[a] \in Registering /\ place \in Registering
         \/ /\ on' = on /\ a \in Clients
            /\ pc[a] \in Enabling \ {"created"} /\ place \in {"undoing", "undone"}
         \/ /\ a \in Clients /\ pc[a] \notin Enabling /\ place \notin Enabling
            /\ \A b \in Actors : b # a => on'[b] = on[b]
  PROVE  Control'
<1> USE Apart
<1>2. ASSUME NEW d \in Clients PROVE Enabler(d)'
  BY DEF Control, Fields, Enabler, Consistent, Goto, process
<1>3. ASSUME NEW f \in Foreign PROVE Importer(f)'
  BY DEF Control, Fields, Importer, Goto, process
<1>4. ASSUME NEW q \in Processes PROVE Consistent(q)'
  BY DEF Control, Fields, Enabler, Consistent, Goto, process
<1> QED
  BY <1>2, <1>3, <1>4 DEF Control

LEMMA ListControl ==
  ASSUME Control, NEW a \in Actors,
         List(a) \/ Undo(a) \/ (a \in Clients /\ SpuriousWakeup(a))
  PROVE  Control'
<1> USE Apart
<1>1. Fields'
  BY DEF Control, Fields, List, Undo, SpuriousWakeup, Goto, process, PCs
<1>2. PICK place \in {"creating", "full", "undone", "joining"} :
        /\ Goto(a, place) /\ UNCHANGED process /\ on' = on
        /\ \/ pc[a] \in Registering /\ place \in Registering
           \/ pc[a] = "undoing" /\ place = "undone"
           \/ a \in Clients /\ pc[a] = "waiting" /\ place = "joining"
  BY DEF List, Undo, SpuriousWakeup
<1>3. a \in Clients \/ pc[a] # "undoing"
  BY DEF Control, Importer
<1> QED
  BY <1>1, <1>2, <1>3, WalkControl

LEMMA ExtendControl ==
  ASSUME Control, NEW a \in Actors, dim \in Nat, Measure(a) \/ Extend(a)
  PROVE  Control'
<1> DEFINE half == dim \div 2
<1>0. dim + half \in Nat
  BY SMT
<1> HIDE DEF half
<1>1. Fields'
  <2>1. size' \in [Actors -> Nat]
    <3>1. CASE Measure(a)
      <4>1. size' = [size EXCEPT ![a] = dim + half]
        BY <3>1 DEF Measure, half
      <4> QED
        BY <4>1, <1>0 DEF Control, Fields
    <3>2. CASE Extend(a)
      BY <3>2 DEF Extend, Control, Fields
    <3> QED
      BY <3>1, <3>2
  <2> QED
    BY <2>1 DEF Control, Fields, Measure, Extend, Goto, process, PCs
<1>2. PICK place \in {"extending", "listing"} :
        /\ Goto(a, place) /\ UNCHANGED process /\ on' = on
        /\ pc[a] \in Registering
  BY DEF Measure, Extend
<1> QED
  BY <1>1, <1>2, WalkControl

LEMMA LookControl ==
  ASSUME Control, NEW a \in Actors, Poll(a) \/ JoinLook(a)
  PROVE  Control'
<1>1. Fields'
  BY BoundsAssumption
  DEF BoundsAssumption, Control, Fields, Poll, JoinLook, Goto, Leave, process, PCs
<1>2. PICK place \in {"idle", "waiting"} :
        /\ Goto(a, place) /\ UNCHANGED process
        /\ pc[a] \in {"polling", "joining"}
        /\ \A b \in Actors : b # a => on'[b] = on[b]
  BY DEF Poll, JoinLook, Leave, Control, Fields
<1>3. a \in Clients
  BY <1>2, Apart DEF Control, Importer
<1> QED
  BY <1>1, <1>2, <1>3, WalkControl

LEMMA UnwindControl ==
  ASSUME Control, NEW c \in Clients, Unwind(c)
  PROVE  Control'
<1> USE Apart
<1>1. Fields'
  BY BoundsAssumption DEF BoundsAssumption, Control, Fields, Unwind, Goto, Leave, process, PCs
<1>2. PICK place \in {"idle", "undoing"} :
        /\ Goto(c, place) /\ UNCHANGED process
        /\ \/ on' = on /\ pc[c] \in Registering /\ place = "undoing"
           \/ /\ pc[c] \in {"joining", "waiting", "polling"} /\ place = "idle"
              /\ \A b \in Actors : b # c => on'[b] = on[b]
  BY DEF Unwind, Leave, Control, Fields
<1> QED
  BY <1>1, <1>2, WalkControl

LEMMA JoinControl ==
  ASSUME Control, NEW c \in Clients, NEW p \in Processes, Join(c, p)
  PROVE  Control'
<1> USE Apart
<1>1. Fields'
  BY BoundsAssumption DEF BoundsAssumption, Control, Fields, Join, Goto, process, PCs
<1>2. /\ Goto(c, "joining") /\ UNCHANGED process /\ pc[c] = "idle"
      /\ \A b \in Actors : b # c => on'[b] = on[b]
  BY DEF Join, Control, Fields
<1> QED
  BY <1>1, <1>2, WalkControl

LEMMA ControlStep ==
  ASSUME Control, dim \in Nat, [Next]_vars
  PROVE  Control'
<1>1. ASSUME NEW a \in Actors, ActorStep(a) PROVE Control'
  <2>1. CASE List(a) \/ Measure(a) \/ Extend(a) \/ Undo(a) \/ Poll(a) \/ JoinLook(a)
    BY <2>1, ListControl, ExtendControl, LookControl
  <2>2. CASE Create(a) \/ Unlock(a) \/ Undone(a) \/ Imported(a)
    BY <2>2, CreateControl, UnlockControl, UndoneControl, ImportedControl
  <2> QED
    BY <1>1, <2>1, <2>2 DEF ActorStep
<1>2. ASSUME NEW p \in Processes,
             \/ Start(p) \/ Return(p) \/ Exit(p) \/ Die(p)
             \/ CleanupBegin(p) \/ CleanupUnlist(p) \/ CleanupEnd(p)
      PROVE  Control'
  BY <1>2, StartControl, ReturnControl, ExitControl, DieControl, CleanupBeginControl,
     CleanupUnlistControl, CleanupEndControl
<1>3. ASSUME NEW f \in Foreign, Import(f) PROVE Control'
  BY <1>3, ImportControl
<1>4. ASSUME NEW c \in Clients,
             \/ Unwind(c) \/ SpuriousWakeup(c)
             \/ c \in Joiners /\ \E p \in Processes : Join(c, p)
             \/ c \in Enablers /\ \E p \in Objects : Enable(c, p)
             \/ c \in Enablers /\ \E p \in Processes : Kill(c, p)
      PROVE  Control'
  <2>1. c \in Actors
    BY Apart
  <2> QED
    BY <1>4, <2>1, UnwindControl, ListControl, JoinControl, EnableControl, KillControl
<1>5. ASSUME UNCHANGED vars PROVE Control'
  BY <1>5 DEF Control, Fields, Enabler, Importer, Consistent, vars, process, actor
<1> QED
  BY <1>1, <1>2, <1>3, <1>4, <1>5 DEF Next

-----------------------------------------------------------------------------
(* The vector of processes.                                                *)

Members == Processes \cup {Main, None, Junk}

LEMMA LeastMember ==
  ASSUME NEW I, I \subseteq Nat, I # {}
  PROVE  Min(I) \in I /\ \A j \in I : Min(I) <= j
<1> DEFINE R == OpToRel(<, Nat)
<1>1. IsWellFoundedOn(R, Nat)
  BY NatLessThanWellFounded
<1>2. ASSUME NEW x \in Nat, NEW y \in Nat, y < x PROVE <<y, x>> \in R
  BY <1>2 DEF OpToRel
<1> HIDE DEF R
<1>3. PICK x \in I : \A y \in I : <<y, x>> \notin R
  BY <1>1, WFMin
<1>4. ASSUME NEW y \in I PROVE x <= y
  <2>1. x \in Nat /\ y \in Nat
    OBVIOUS
  <2>2. ~(y < x)
    BY <1>2, <1>3, <2>1
  <2> QED
    BY <2>1, <2>2
<1> QED
  BY <1>4 DEF Min

(* The dimension and the entries of the vector after a step.               *)
LEMMA VectorIs ==
  ASSUME NEW n \in Nat, NEW s, s \in [1 .. n -> Members]
  PROVE  s \in Seq(Members) /\ Len(s) = n
  BY LenProperties

(* What ecl_unlist_process leaves in the list: all others, and, if every   *)
(* entry was there once, not p.                                            *)
LEMMA UnlistEffect ==
  ASSUME Vector, NEW p \in Processes, Unlist(p)
  PROVE  /\ Vector' /\ dim' = dim
         /\ Listed' \subseteq Listed
         /\ \A q \in Listed : q # p => q \in Listed'
         /\ Single => Single' /\ p \notin Listed'
<1> DEFINE I == {j \in 1 .. fillp : slots[j] = p}
           i == IF I # {} THEN Min(I) ELSE 0
<1>1. /\ slots \in [1 .. dim -> Members] /\ dim \in Nat /\ Size \in Nat \ {0}
      /\ dim >= Size /\ fillp \in 1 .. dim /\ slots[1] = Main /\ p # Main
  <2>1. slots \in Seq(Members)
    BY DEF Vector, Members
  <2>2. slots \in [1 .. dim -> Members] /\ dim \in Nat
    BY <2>1, LenProperties DEF dim
  <2> QED
    BY <2>2, Apart, BoundsAssumption DEF Vector, BoundsAssumption
<1>2. IF i = 0 THEN UNCHANGED vector
      ELSE /\ slots' = [j \in 1 .. dim |-> IF ~Moved(i, j) THEN slots[j]
                                           ELSE IF j = dim THEN Junk
                                           ELSE slots[j + 1]]
           /\ fillp' = fillp - 1
  BY DEF Unlist, SelectInSubSeq
<1>3. CASE I = {}
  <2>1. UNCHANGED vector
    BY <1>2, <1>3
  <2>2. p \notin Listed
    BY <1>3 DEF Listed
  <2>3. Vector' /\ dim' = dim /\ Listed' = Listed /\ (Single => Single')
    BY <2>1 DEF Vector, dim, Listed, Single, vector
  <2> QED
    BY <2>2, <2>3
<1>4. CASE I # {}
  <2>1. i \in 2 .. fillp /\ slots[i] = p
    <3>1. I \subseteq Nat /\ i = Min(I)
      BY <1>1, <1>4
    <3>2. i \in I
      BY <1>4, <3>1, LeastMember
    <3> QED
      BY <1>1, <3>2
  <2> HIDE DEF i, I
  <2>2. /\ slots' = [j \in 1 .. dim |-> IF ~Moved(i, j) THEN slots[j]
                                        ELSE IF j = dim THEN Junk
                                        ELSE slots[j + 1]]
        /\ fillp' = fillp - 1
    BY <1>2, <2>1
  <2>3. slots' \in [1 .. dim -> Members]
    <3>1. \A j \in 1 .. dim : j # dim => j + 1 \in 1 .. dim
      BY <1>1
    <3> QED
      BY <1>1, <2>2, <3>1 DEF Members
  <2>4. slots' \in Seq(Members) /\ dim' = dim
    BY <1>1, <2>3, VectorIs DEF dim
  <2>5. Vector'
    <3>1. slots'[1] = Main
      BY <1>1, <2>1, <2>2 DEF Moved
    <3>2. fillp' \in 1 .. dim
      BY <1>1, <2>1, <2>2
    <3> QED
      BY <1>1, <2>4, <3>1, <3>2 DEF Vector, Members
  <2>6. /\ \A j \in 1 .. fillp' : j < i => slots'[j] = slots[j]
        /\ \A j \in 1 .. fillp' : j >= i => slots'[j] = slots[j + 1]
    BY <1>1, <2>1, <2>2 DEF Moved
  <2>7. Listed' \subseteq Listed
    <3>1. ASSUME NEW j \in 1 .. fillp' PROVE slots'[j] \in Listed
      <4>1. j \in 1 .. fillp /\ j + 1 \in 1 .. fillp
        BY <1>1, <2>1, <2>2
      <4> QED
        BY <2>6, <4>1, <1>1, <2>1 DEF Listed
    <3> QED
      BY <3>1 DEF Listed
  <2>8. ASSUME NEW q \in Listed, q # p PROVE q \in Listed'
    <3>1. PICK j \in 1 .. fillp : q = slots[j]
      BY DEF Listed
    <3>2. CASE j < i
      <4>1. j \in 1 .. fillp'
        BY <1>1, <2>1, <2>2, <3>2
      <4>2. slots'[j] = q
        BY <2>6, <3>1, <3>2, <4>1
      <4> QED
        BY <4>1, <4>2 DEF Listed
    <3>3. CASE j > i
      <4>1. j - 1 \in 1 .. fillp' /\ j - 1 >= i /\ (j - 1) + 1 = j
        BY <1>1, <2>1, <2>2, <3>3
      <4>2. slots'[j - 1] = q
        BY <2>6, <3>1, <4>1
      <4> QED
        BY <4>1, <4>2 DEF Listed
    <3> QED
      BY <1>1, <2>1, <2>8, <3>1, <3>2, <3>3
  <2>9. ASSUME Single PROVE Single' /\ p \notin Listed'
    <3> DEFINE old(j) == IF j < i THEN j ELSE j + 1
    <3>1. ASSUME NEW j \in 1 .. fillp'
          PROVE  old(j) \in 1 .. fillp /\ old(j) # i /\ slots'[j] = slots[old(j)]
      <4>1. old(j) \in 1 .. fillp /\ old(j) # i
        BY <1>1, <2>1, <2>2
      <4>2. i \in Nat /\ j \in Nat
        BY <1>1, <2>1, <2>2
      <4> QED
        BY <2>6, <4>1, <4>2
    <3>2. \A j, k \in 1 .. fillp' : j # k => old(j) # old(k)
      BY <1>1, <2>1, <2>2
    <3> HIDE DEF old
    <3> QED
      BY <1>1, <2>1, <2>9, <3>1, <3>2 DEF Single, Listed
  <2> QED
    BY <2>4, <2>5, <2>7, <2>8, <2>9
<1> QED
  BY <1>3, <1>4

-----------------------------------------------------------------------------
(* A step that leaves the vector alone keeps what is said of it, if no     *)
(* process but a listed one gets a thread, and no process is over or to be *)
(* listed but one that is not in the list.                                 *)
Unmoved ==
  /\ UNCHANGED vector
  /\ \A p \in Processes :
       thread'[p] \in Used =>
         thread[p] \in Used \/ \E a \in Actors : pc[a] = "creating" /\ on[a] = p
  /\ \A a \in Actors : pc'[a] = "creating" => pc[a] = "creating" /\ on'[a] = on[a]
  /\ \A p \in Processes :
       phase'[p] = "INACTIVE" \/ thread'[p] = "unlisted" =>
         \/ phase[p] = "INACTIVE" \/ thread[p] = "unlisted"
         \/ \E a \in Actors : pc[a] = "undone" /\ on[a] = p
  /\ \A a \in Actors :
       pc'[a] \in Outside =>
         \/ pc[a] \in Outside /\ on'[a] = on[a]
         \/ on'[a] \in Processes /\ phase[on'[a]] = "INACTIVE"

LEMMA UnmovedLists ==
  ASSUME Lists, Unmoved
  PROVE  Lists'
<1>1. Vector' /\ Listed' = Listed /\ dim' = dim /\ (Single => Single')
  BY DEF Lists, Unmoved, Vector, Listed, dim, Single, vector
<1>2. Kept'
  BY <1>1 DEF Lists, Kept, Unmoved
<1>3. ASSUME Exact PROVE Exact'
  <2>1. ASSUME NEW p \in Processes, p \in Listed
        PROVE  phase'[p] # "INACTIVE" /\ thread'[p] # "unlisted"
    BY <1>3, <2>1 DEF Exact, Unmoved, Outside
  <2>2. ASSUME NEW a \in Actors, pc'[a] \in Outside PROVE on'[a] \notin Listed
    BY <1>3, <2>2 DEF Exact, Unmoved
  <2> QED
    BY <1>1, <1>3, <2>1, <2>2 DEF Exact
<1> QED
  BY <1>1, <1>2, <1>3 DEF Lists

(* A process that is listed by a.                                          *)
LEMMA ListLists ==
  ASSUME Control, Lists, NEW a \in Actors, List(a)
  PROVE  Lists'
<1> USE Apart
<1>1. CASE ~Room
  <2>1. Unmoved
    BY <1>1 DEF Unmoved, List, Goto, Control, Fields, process, vector, Outside
  <2> QED
    BY <2>1, UnmovedLists
<1>2. CASE Room
  <2>1. /\ slots \in Seq(Members) /\ dim \in Nat /\ dim >= Size /\ Size \in Nat \ {0}
        /\ slots \in [1 .. dim -> Members]
        /\ fillp \in 1 .. dim /\ slots[1] = Main
    <3>1. slots \in Seq(Members)
      BY DEF Lists, Vector, Members
    <3>2. slots \in [1 .. dim -> Members] /\ dim \in Nat
      BY <3>1, LenProperties DEF dim
    <3> QED
      BY <3>1, <3>2, BoundsAssumption DEF Lists, Vector, BoundsAssumption
  <2>2. /\ pc[a] = "listing" /\ on[a] \in Processes
        /\ slots' = [slots EXCEPT ![fillp + 1] = on[a]] /\ fillp' = fillp + 1
        /\ pc' = [pc EXCEPT ![a] = "creating"] /\ UNCHANGED <<process, on>>
        /\ fillp + 1 \in 1 .. dim
    BY <1>2, <2>1 DEF List, Goto, Control, Fields, Room
  <2>3. slots' \in [1 .. dim -> Members]
    BY <2>1, <2>2 DEF Members
  <2>4. slots' \in Seq(Members) /\ dim' = dim
    BY <2>1, <2>3, VectorIs DEF dim
  <2>5. /\ \A j \in 1 .. fillp : slots'[j] = slots[j]
        /\ slots'[fillp'] = on[a] /\ fillp' \in 1 .. dim
        /\ 1 .. fillp' = 1 .. fillp \cup {fillp'} /\ 1 \in 1 .. fillp
    BY <2>1, <2>2
  <2>6. Vector'
    BY <2>1, <2>4, <2>5 DEF Vector, Members
  <2>7. Listed' = Listed \cup {on[a]}
    BY <2>5 DEF Listed
  <2>8. Kept'
    BY <2>2, <2>7 DEF Lists, Kept, process, Control, Fields
  <2>9. ASSUME Exact PROVE Exact'
    <3>1. on[a] \notin Listed
      BY <2>2, <2>9 DEF Exact, Outside
    <3>2. Single'
      BY <2>5, <2>9, <3>1 DEF Exact, Single, Listed
    <3>3. phase[on[a]] = "BOOTING" /\ thread[on[a]] # "unlisted"
      BY <2>2 DEF Control, Enabler, Importer
    <3>4. ASSUME NEW b \in Actors, pc'[b] \in Outside PROVE on[b] \notin Listed'
      <4>1. b # a /\ pc[b] \in Outside
        BY <2>2, <3>4 DEF Control, Fields, Outside
      <4>2. on[b] # on[a]
        BY <2>2, <4>1 DEF Control, Enabler, Importer, Outside
      <4> QED
        BY <2>7, <2>9, <4>1, <4>2 DEF Exact
    <3> QED
      BY <2>2, <2>7, <2>9, <3>2, <3>3, <3>4 DEF Exact, process
  <2> QED
    BY <2>4, <2>6, <2>8, <2>9 DEF Lists
<1> QED
  BY <1>1, <1>2

(* A longer vector; nothing is promised of it but what Kept says.          *)
LEMMA ExtendLists ==
  ASSUME Control, Lists, NEW a \in Actors, Extend(a)
  PROVE  Lists'
<1>1. /\ slots \in [1 .. dim -> Members] /\ dim \in Nat /\ dim >= Size
      /\ Size \in Nat \ {0} /\ fillp \in 1 .. dim /\ slots[1] = Main
  <2>1. slots \in Seq(Members)
    BY DEF Lists, Vector, Members
  <2>2. slots \in [1 .. dim -> Members] /\ dim \in Nat
    BY <2>1, LenProperties DEF dim
  <2> QED
    BY <2>2, BoundsAssumption DEF Lists, Vector, BoundsAssumption
<1>2. /\ pc[a] = "extending" /\ pc' = [pc EXCEPT ![a] = "listing"]
      /\ UNCHANGED <<process, on>> /\ size[a] \in Nat
  BY DEF Extend, Goto, Control, Fields
<1>3. CASE ~(size[a] > dim /\ size[a] <= MaxSize)
  <2>1. Unmoved
    BY <1>2, <1>3 DEF Unmoved, Extend, process, Outside, Control, Fields
  <2> QED
    BY <2>1, UnmovedLists
<1>4. CASE size[a] > dim /\ size[a] <= MaxSize
  <2> DEFINE n == size[a]
  <2>1. /\ slots' = [i \in 1 .. n |-> IF Copied(i) THEN slots[i] ELSE None]
        /\ fillp' = n /\ n \in Nat /\ n > dim
    BY <1>2, <1>4 DEF Extend
  <2> HIDE DEF n
  <2>2. slots' \in [1 .. n -> Members]
    BY <1>1, <2>1 DEF Copied, Members
  <2>3. slots' \in Seq(Members) /\ dim' = n
    BY <2>1, <2>2, VectorIs DEF dim
  <2>4. /\ \A i \in 1 .. fillp : i \in 1 .. fillp' /\ slots'[i] = slots[i]
        /\ 1 \in 1 .. fillp
    BY <1>1, <2>1 DEF Copied
  <2>5. Listed \subseteq Listed'
    BY <2>4 DEF Listed
  <2>6. Vector'
    BY <1>1, <2>1, <2>3, <2>4 DEF Vector, Members
  <2>7. Kept'
    BY <1>2, <2>5 DEF Lists, Kept, process, Control, Fields
  <2>8. dim' # Size
    BY <1>1, <2>1, <2>3
  <2> QED
    BY <2>6, <2>7, <2>8 DEF Lists
<1> QED
  BY <1>3, <1>4

(* A process that is removed, which has no thread in use any more.         *)
LEMMA UnlistLists ==
  ASSUME Control, Lists, NEW p \in Processes, Unlist(p),
         thread'[p] \notin Used, phase[p] # "INACTIVE", UNCHANGED <<phase, on>>,
         \A q \in Processes : q # p => thread'[q] = thread[q],
         \A a \in Actors : pc[a] = "creating" => on[a] # p,
         \A a \in Actors : pc'[a] = pc[a] \/ (pc'[a] = "undone" /\ on[a] = p)
  PROVE  Lists'
<1>1. /\ Vector' /\ dim' = dim
      /\ Listed' \subseteq Listed
      /\ \A q \in Listed : q # p => q \in Listed'
      /\ Single => Single' /\ p \notin Listed'
  BY UnlistEffect DEF Lists
<1>2. Kept'
  <2>1. ASSUME NEW q \in Processes, thread'[q] \in Used PROVE q \in Listed'
    BY <1>1, <2>1 DEF Lists, Kept
  <2>2. ASSUME NEW a \in Actors, pc'[a] = "creating" PROVE on[a] \in Listed'
    BY <1>1, <2>2 DEF Lists, Kept
  <2> QED
    BY <2>1, <2>2 DEF Kept
<1>3. ASSUME Exact PROVE Exact'
  <2>1. ASSUME NEW q \in Processes, q \in Listed'
        PROVE  phase[q] # "INACTIVE" /\ thread'[q] # "unlisted"
    BY <1>1, <1>3, <2>1 DEF Exact
  <2>2. ASSUME NEW a \in Actors, pc'[a] \in Outside PROVE on[a] \notin Listed'
    BY <1>1, <1>3, <2>2 DEF Exact
  <2> QED
    BY <1>1, <1>3, <2>1, <2>2 DEF Exact
<1> QED
  BY <1>1, <1>2, <1>3 DEF Lists

LEMMA UndoLists ==
  ASSUME Control, Lists, NEW c \in Actors, Undo(c)
  PROVE  Lists'
<1> USE Apart
<1>1. /\ c \in Clients /\ on[c] \in Objects /\ start_stop_lock[on[c]] = c
      /\ phase[on[c]] = "BOOTING" /\ thread[on[c]] = "none"
      /\ Unlist(on[c]) /\ UNCHANGED <<process, on>>
  BY DEF Undo, Control, Enabler, Importer
<1>2. ASSUME NEW a \in Actors, pc[a] = "creating" PROVE on[a] # on[c]
  BY <1>1, <1>2 DEF Undo, Control, Enabler, Importer
<1>3. \A a \in Actors : pc'[a] = pc[a] \/ (pc'[a] = "undone" /\ on[a] = on[c])
  BY DEF Undo, Goto, Control, Fields
<1> QED
  BY <1>1, <1>2, <1>3, UnlistLists DEF Used, process

LEMMA CleanupUnlistLists ==
  ASSUME Control, Lists, NEW p \in Processes, CleanupUnlist(p)
  PROVE  Lists'
<1> USE Apart
<1>1. /\ start_stop_lock[p] = p /\ phase[p] = "EXITING" /\ thread[p] = "cleaning"
      /\ thread' = [thread EXCEPT ![p] = "unlisted"]
      /\ Unlist(p) /\ UNCHANGED <<phase, pc, on>>
  BY DEF CleanupUnlist, Control, Consistent, actor
<1>2. ASSUME NEW a \in Actors, pc[a] = "creating" PROVE on[a] # p
  BY <1>1, <1>2 DEF Control, Enabler, Importer
<1>3. thread'[p] = "unlisted" /\ \A q \in Processes : q # p => thread'[q] = thread[q]
  BY <1>1 DEF Control, Fields
<1> QED
  BY <1>1, <1>2, <1>3, UnlistLists DEF Used

-----------------------------------------------------------------------------
(* The other actions leave the vector alone.                               *)
LEMMA ActorUnmoved ==
  ASSUME Control, NEW a \in Actors,
         \/ Measure(a) \/ Create(a) \/ Unlock(a) \/ Poll(a)
         \/ Undone(a) \/ Imported(a) \/ JoinLook(a)
  PROVE  Unmoved
<1> USE Apart DEF Unmoved, Control, Fields, Goto, Leave, process, vector, actor, Outside, Used
<1>1. CASE Measure(a) \/ Poll(a) \/ JoinLook(a)
  BY <1>1 DEF Measure, Poll, JoinLook
<1>2. CASE Create(a) \/ Unlock(a)
  BY <1>2 DEF Create, Unlock, Enabler
<1>3. CASE Undone(a)
  BY <1>3 DEF Undone, Alerted, Enabler
<1>4. CASE Imported(a)
  BY <1>4 DEF Imported, Importer
<1> QED
  BY <1>1, <1>2, <1>3, <1>4

LEMMA ClientUnmoved ==
  ASSUME Control, NEW c \in Clients,
         \/ Unwind(c) \/ SpuriousWakeup(c)
         \/ \E p \in Processes : Join(c, p) \/ Kill(c, p)
         \/ \E p \in Objects : Enable(c, p)
  PROVE  Unmoved
<1> USE Apart DEF Unmoved, Control, Fields, Goto, Leave, process, vector, actor, Outside, Used
<1>1. CASE Unwind(c) \/ SpuriousWakeup(c)
  BY <1>1 DEF Unwind, SpuriousWakeup
<1>2. ASSUME NEW p \in Processes, Join(c, p) \/ Kill(c, p) PROVE Unmoved
  BY <1>2 DEF Join, Kill
<1>3. ASSUME NEW p \in Objects, Enable(c, p) PROVE Unmoved
  BY <1>3 DEF Enable, Startable
<1> QED
  BY <1>1, <1>2, <1>3

LEMMA ForeignUnmoved ==
  ASSUME Control, NEW f \in Foreign, Import(f)
  PROVE  Unmoved
<1> USE Apart DEF Unmoved, Control, Fields, Goto, vector, Outside, Used
<1> QED
  BY DEF Import, Consistent

LEMMA ThreadUnmoved ==
  ASSUME Control, NEW p \in Processes,
         \/ Start(p) \/ Return(p) \/ Exit(p) \/ Die(p)
         \/ CleanupBegin(p) \/ CleanupEnd(p)
  PROVE  Unmoved
<1> USE Apart DEF Unmoved, Control, Fields, process, vector, actor, Outside, Used
<1>1. CASE Start(p) \/ Return(p) \/ Exit(p) \/ Die(p) \/ CleanupBegin(p)
  BY <1>1 DEF Start, Return, Exit, Die, Interruptible, CleanupBegin
<1>2. CASE CleanupEnd(p)
  BY <1>2 DEF CleanupEnd, Alerted
<1> QED
  BY <1>1, <1>2

LEMMA ListsStep ==
  ASSUME Control, Lists, [Next]_vars
  PROVE  Lists'
<1>1. ASSUME NEW a \in Actors, ActorStep(a) PROVE Lists'
  <2>1. CASE List(a) \/ Extend(a) \/ Undo(a)
    BY <2>1, ListLists, ExtendLists, UndoLists
  <2>2. CASE \/ Measure(a) \/ Create(a) \/ Unlock(a) \/ Poll(a)
             \/ Undone(a) \/ Imported(a) \/ JoinLook(a)
    BY <2>2, ActorUnmoved, UnmovedLists
  <2> QED
    BY <1>1, <2>1, <2>2 DEF ActorStep
<1>2. ASSUME NEW p \in Processes,
             \/ Start(p) \/ Return(p) \/ Exit(p) \/ Die(p)
             \/ CleanupBegin(p) \/ CleanupUnlist(p) \/ CleanupEnd(p)
      PROVE  Lists'
  BY <1>2, ThreadUnmoved, UnmovedLists, CleanupUnlistLists
<1>3. ASSUME NEW f \in Foreign, Import(f) PROVE Lists'
  BY <1>3, ForeignUnmoved, UnmovedLists
<1>4. ASSUME NEW c \in Clients,
             \/ Unwind(c) \/ SpuriousWakeup(c)
             \/ c \in Joiners /\ \E p \in Processes : Join(c, p)
             \/ c \in Enablers /\ \E p \in Objects : Enable(c, p)
             \/ c \in Enablers /\ \E p \in Processes : Kill(c, p)
      PROVE  Lists'
  <2>1. Unmoved
    BY <1>4, ClientUnmoved
  <2> QED
    BY <2>1, UnmovedLists
<1>5. ASSUME UNCHANGED vars PROVE Lists'
  <2>1. Unmoved
    BY <1>5 DEF Unmoved, vars, process, actor
  <2> QED
    BY <2>1, UnmovedLists
<1> QED
  BY <1>1, <1>2, <1>3, <1>4, <1>5 DEF Next

-----------------------------------------------------------------------------
(* The inductive invariant.                                                *)
LEMMA Initial == Init => IInv
<1> SUFFICES ASSUME Init PROVE IInv
  OBVIOUS
<1> USE Apart, BoundsAssumption DEF Init, BoundsAssumption
<1>1. Control
  <2>1. Fields
    BY DEF Fields, Phases, Places, PCs
  <2>2. ASSUME NEW c \in Clients PROVE Enabler(c)
    BY DEF Enabler
  <2>3. ASSUME NEW f \in Foreign PROVE Importer(f)
    BY DEF Importer
  <2>4. ASSUME NEW p \in Processes PROVE Consistent(p)
    BY DEF Consistent
  <2> QED
    BY <2>1, <2>2, <2>3, <2>4 DEF Control
<1>2. slots \in Seq(Members) /\ dim = Size
  <2>1. slots \in [1 .. Size -> Members]
    BY DEF Members
  <2> QED
    BY <2>1, VectorIs DEF dim
<1>3. slots[1] = Main /\ Listed = {Main}
  BY DEF Listed
<1>4. Vector
  BY <1>2, <1>3 DEF Vector, Members
<1>5. Kept
  BY DEF Kept, Used
<1>6. Exact
  BY <1>3, Distinct DEF Exact, Single, Outside
<1> QED
  BY <1>1, <1>4, <1>5, <1>6 DEF IInv, Lists

LEMMA Inductive == IInv /\ [Next]_vars => IInv'
<1> SUFFICES ASSUME IInv, [Next]_vars PROVE IInv'
  OBVIOUS
<1>1. dim \in Nat
  BY LenProperties DEF IInv, Lists, Vector, dim
<1> QED
  BY <1>1, ControlStep, ListsStep DEF IInv

LEMMA Invariance == Spec => []IInv
  BY Initial, Inductive, PTL DEF Spec

(* Every variable keeps its type; the fill pointer stays in the vector.    *)
THEOREM TypeCorrect == Spec => []TypeOK
<1>1. IInv => TypeOK
  BY DEF IInv, Control, Fields, Lists, Vector, TypeOK
<1> QED
  BY <1>1, Invariance, PTL

(* A process is listed, and its environment marked by the collector, for   *)
(* as long as it has a thread that uses the environment.                   *)
THEOREM ListedWhileUsedAlways == Spec => []ListedWhileUsed
<1>1. IInv => ListedWhileUsed
  BY DEF IInv, Lists, Kept, Used, ListedWhileUsed
<1> QED
  BY <1>1, Invariance, PTL

(* Until the vector is extended, ecl_list_process and ecl_unlist_process   *)
(* keep each process that has not ended in it once, and nothing else.      *)
THEOREM ListIsExactAlways == Spec => []ListIsExact
<1>1. IInv => ListIsExact
  <2> SUFFICES ASSUME IInv, dim = Size
               PROVE  /\ \A i, j \in 1 .. fillp : i # j => slots[i] # slots[j]
                      /\ Junk \notin Listed /\ None \notin Listed
                      /\ \A p \in Listed \ {Main} : ~Ended(p)
    BY DEF ListIsExact
  <2>1. Exact /\ Vector
    BY DEF IInv, Lists
  <2>2. Listed \subseteq Members
    <3>1. \A i \in 1 .. fillp : i \in 1 .. Len(slots)
      BY <2>1, LenProperties DEF Vector, dim
    <3> QED
      BY <2>1, <3>1, ElementOfSeq DEF Vector, Members, Listed
  <2> QED
    BY <2>1, <2>2 DEF Exact, Single, Ended, Members
<1> QED
  BY <1>1, Invariance, PTL

(* An exit-process that mp_interrupt_process queued is for the run the     *)
(* environment is of, which has not begun to end.                          *)
THEOREM ExitsLandAlways == Spec => []ExitsLand
<1>1. IInv => ExitsLand
  BY DEF IInv, Control, Fields, Consistent, Phases, ExitsLand
<1> QED
  BY <1>1, Invariance, PTL

(* mp_process_enable and ecl_import_current_thread begin a run when the    *)
(* thread of the last one is through.                                      *)
THEOREM OneThreadAlways == Spec => OneThread
<1> DEFINE A == \A p \in Processes : runs'[p] # runs[p] => thread[p] = "none" /\ Free(p)
<1>1. IInv /\ [Next]_vars => [A]_vars
  <2> SUFFICES ASSUME IInv, Next, NEW p \in Processes, runs'[p] # runs[p]
               PROVE  thread[p] = "none" /\ start_stop_lock[p] = None
    BY DEF vars
  <2> USE Apart
  <2>1. phase[p] = "INACTIVE"
    <3>1. \/ \E c \in Clients, q \in Objects : Enable(c, q)
          \/ \E f \in Foreign : Import(f)
      BY DEF Next, ActorStep, List, Measure, Extend, Create, Unlock, Poll, Undo, Undone,
             Imported, JoinLook, Start, Return, Exit, Die, CleanupBegin, CleanupUnlist,
             CleanupEnd, Unwind, SpuriousWakeup, Join, Kill, process
    <3> QED
      BY <3>1 DEF Enable, Startable, Import, IInv, Control, Consistent, Fields
  <2> QED
    BY <2>1 DEF IInv, Control, Consistent
<1> QED
  BY <1>1, Invariance, PTL DEF OneThread, Spec

(* mp_process_join returns when the run it found is over: phase says so    *)
(* only after thread_cleanup.                                              *)
THEOREM JoinsTheEndAlways == Spec => JoinsTheEnd
<1> DEFINE A == \A c \in Clients :
                  JoinLook(c) /\ pc'[c] = "idle" =>
                    LET p == on[c]
                    IN runs[p] > since[c] \/ (phase[p] = "INACTIVE" /\ thread[p] = "none")
<1>1. IInv /\ [Next]_vars => [A]_vars
  <2> SUFFICES ASSUME IInv, NEW c \in Clients, JoinLook(c), pc'[c] = "idle"
               PROVE  phase[on[c]] = "INACTIVE" /\ thread[on[c]] = "none"
    OBVIOUS
  <2> USE Apart
  <2>1. on[c] \in Processes /\ Ended(on[c])
    BY DEF IInv, Control, Fields, JoinLook, Goto
  <2> QED
    BY <2>1 DEF Ended, IInv, Control, Consistent
<1> QED
  BY <1>1, Invariance, PTL DEF JoinsTheEnd, Spec

-----------------------------------------------------------------------------
(* The life cycle                                                          *)

Alive == [p \in Processes |-> thread[p] # "none"]
Doomed == [p \in Processes |-> exits[p] # 0]
Awaited == [a \in Actors |-> IF pc[a] = "waiting" THEN on[a] ELSE None]

(* The thread of one process comes, moves or goes.                         *)
LEMMA ThreadComes ==
  ASSUME NEW p \in Processes, NEW place \in Places \ {"none"}, Fields,
         thread' = [thread EXCEPT ![p] = place]
  PROVE  Alive' = [Alive EXCEPT ![p] = TRUE]
BY DEF Alive, Fields

LEMMA ThreadMoves ==
  ASSUME NEW p \in Processes, NEW place \in Places \ {"none"}, Fields,
         thread[p] # "none", thread' = [thread EXCEPT ![p] = place]
  PROVE  Alive' = Alive
BY DEF Alive, Fields

LEMMA ThreadGoes ==
  ASSUME NEW p \in Processes, Fields, thread' = [thread EXCEPT ![p] = "none"]
  PROVE  Alive' = [Alive EXCEPT ![p] = FALSE]
BY DEF Alive, Fields

LEMMA DoomedChanges ==
  ASSUME NEW p \in Processes, NEW n, Fields,
         exits' = [exits EXCEPT ![p] = n]
  PROVE  /\ n # 0 => Doomed' = [Doomed EXCEPT ![p] = TRUE]
         /\ n = 0 => Doomed' = [Doomed EXCEPT ![p] = FALSE]
BY DEF Doomed, Fields

(* An actor moves that neither waits nor begins to wait.                   *)
LEMMA AwaitedStays ==
  ASSUME Fields, NEW a \in Actors, pc[a] # "waiting", pc'[a] # "waiting",
         \A b \in Actors : b # a => pc'[b] = pc[b] /\ on'[b] = on[b]
  PROVE  Awaited' = Awaited
BY DEF Awaited, Fields

LEMMA AlertedWakes ==
  ASSUME Fields, NEW p \in Processes, NEW b, b \in Actors => pc[b] # "waiting",
         NEW place, place # "waiting", pc' = Alerted(p, b, place),
         \A a \in Actors : a # b => on'[a] = on[a]
  PROVE  Awaited' = [a \in Actors |-> IF Awaited[a] = p THEN None ELSE Awaited[a]]
BY Apart DEF Awaited, Alerted, Fields

USE DEF Life!Becomes, Life!Lives, Life!EverybodyWakes

(* Steps of the functions that change what a process is.                   *)
LEMMA EnableLife ==
  ASSUME Control, NEW c \in Clients, NEW p \in Objects, Enable(c, p)
  PROVE  Life!Begin(p)
<1>1. p \in Processes /\ c \in Actors
  BY Apart
<1>2. Awaited' = Awaited
  BY <1>1, AwaitedStays DEF Enable, Goto, Control, Fields
<1> QED
  BY <1>1, <1>2 DEF Life!Begin, Enable, Startable, Awaited

LEMMA ImportLife ==
  ASSUME Control, NEW f \in Foreign, Import(f)
  PROVE  Life!Begin(f)
<1>1. f \in Processes /\ f \in Actors
  BY Apart
<1>2. Awaited' = Awaited
  BY <1>1, AwaitedStays DEF Import, Goto, Control, Fields
<1>3. phase[f] = "INACTIVE"
  BY <1>1 DEF Import, Control, Importer, Consistent, Fields
<1>4. runs' = [runs EXCEPT ![f] = @ + 1]
  BY <1>1 DEF Import, Control, Fields
<1> QED
  BY <1>1, <1>2, <1>3, <1>4 DEF Life!Begin, Import, Awaited

LEMMA CreateLife ==
  ASSUME Control, NEW c \in Actors, NEW p \in Processes, on[c] = p, Create(c)
  PROVE  Life!Spawn(p) \/ UNCHANGED Life!avars
<1>1. c \in Clients /\ on[c] \in Processes /\ phase[on[c]] = "BOOTING" /\ thread[on[c]] = "none"
  BY Apart DEF Create, Control, Enabler
<1>2. Awaited' = Awaited
  BY AwaitedStays DEF Create, Goto, Control, Fields
<1>3. CASE thread' = [thread EXCEPT ![on[c]] = "created"]
  <2>1. Alive' = [Alive EXCEPT ![on[c]] = TRUE]
    BY <1>1, <1>3, ThreadComes DEF Control, Places
  <2> QED
    BY <1>1, <1>2, <2>1 DEF Life!Spawn, Create, Awaited, Alive
<1>4. CASE thread' = thread
  BY <1>2, <1>4 DEF Life!avars, Create, Awaited
<1> QED
  BY <1>3, <1>4 DEF Create

LEMMA UndoneLife ==
  ASSUME Control, NEW c \in Actors, NEW p \in Processes, on[c] = p, Undone(c)
  PROVE  Life!Fail(p)
<1>1. c \in Clients /\ on[c] \in Processes /\ phase[on[c]] = "BOOTING" /\ thread[on[c]] = "none"
  BY Apart DEF Undone, Control, Enabler, Importer
<1>2. Awaited' = [a \in Actors |-> IF Awaited[a] = on[c] THEN None ELSE Awaited[a]]
  <2>1. \A a \in Actors : a # c => on'[a] = on[a]
    BY DEF Undone, Leave, Control, Fields
  <2> QED
    BY <1>1, <2>1, AlertedWakes DEF Undone, Control
<1>3. exits[on[c]] = 0
  <2>1. start_stop_lock[on[c]] \in Clients /\ Consistent(on[c])
    BY <1>1 DEF Undone, Control, Enabler
  <2> QED
    BY <1>1, <2>1 DEF Consistent
<1> QED
  BY <1>1, <1>2, <1>3 DEF Life!Fail, Undone, Awaited, Doomed

LEMMA ImportedLife ==
  ASSUME Control, NEW f \in Actors, Imported(f)
  PROVE  Life!Adopt(f)
<1>1. f \in Processes /\ phase[f] = "BOOTING" /\ thread[f] = "none"
  BY Apart DEF Imported, Control, Importer
<1>2. Awaited' = Awaited
  BY AwaitedStays DEF Imported, Goto, Leave, Control, Fields
<1>3. Alive' = [Alive EXCEPT ![f] = TRUE]
  BY <1>1, ThreadComes DEF Imported, Control, Places
<1> QED
  BY <1>1, <1>2, <1>3 DEF Life!Adopt, Imported, Awaited, Alive

LEMMA StartLife ==
  ASSUME Control, NEW p \in Processes, Start(p)
  PROVE  Life!Work(p)
<1>1. Alive' = Alive
  BY ThreadMoves DEF Start, Control, Places
<1> QED
  BY <1>1 DEF Life!Work, Start, Control, Consistent, actor, Alive

LEMMA ReturnLife ==
  ASSUME Control, NEW p \in Processes, Return(p) \/ Exit(p)
  PROVE  UNCHANGED Life!avars
<1>1. Alive' = Alive
  BY ThreadMoves DEF Return, Exit, Control, Places
<1> QED
  BY <1>1 DEF Life!avars, Return, Exit, actor, Alive

LEMMA DieLife ==
  ASSUME Control, NEW p \in Processes, Die(p)
  PROVE  Life!Tell(p)
<1>1. Alive' = Alive
  BY ThreadMoves DEF Die, Interruptible, Control, Places
<1>2. Doomed' = [Doomed EXCEPT ![p] = FALSE]
  BY DoomedChanges DEF Die, Control
<1>3. phase[p] = "ACTIVE"
  BY DEF Die, Interruptible, Control, Consistent
<1> QED
  BY <1>1, <1>2, <1>3 DEF Life!Tell, Die, actor, Alive, Doomed

LEMMA CleanupBeginLife ==
  ASSUME Control, NEW p \in Processes, CleanupBegin(p)
  PROVE  Life!End(p)
<1>1. Alive' = Alive
  BY ThreadMoves DEF CleanupBegin, Control, Places
<1>2. Doomed' = [Doomed EXCEPT ![p] = FALSE]
  BY DoomedChanges DEF CleanupBegin, Control
<1>3. phase[p] = "ACTIVE"
  BY DEF CleanupBegin, Control, Consistent
<1> QED
  BY <1>1, <1>2, <1>3 DEF Life!End, CleanupBegin, actor, Alive, Doomed

LEMMA CleanupUnlistLife ==
  ASSUME Control, NEW p \in Processes, CleanupUnlist(p)
  PROVE  UNCHANGED Life!avars
<1>1. Alive' = Alive
  BY ThreadMoves DEF CleanupUnlist, Control, Places
<1> QED
  BY <1>1 DEF Life!avars, CleanupUnlist, actor, Alive

LEMMA CleanupEndLife ==
  ASSUME Control, NEW p \in Processes, CleanupEnd(p)
  PROVE  Life!Finish(p)
<1>1. Alive' = [Alive EXCEPT ![p] = FALSE]
  BY ThreadGoes DEF CleanupEnd, Control
<1>2. Awaited' = [a \in Actors |-> IF Awaited[a] = p THEN None ELSE Awaited[a]]
  BY AlertedWakes, Apart DEF CleanupEnd, Control
<1> QED
  BY <1>1, <1>2 DEF Life!Finish, CleanupEnd, Control, Consistent, Alive, Awaited

LEMMA KillLife ==
  ASSUME Control, NEW c \in Clients, NEW p \in Processes, Kill(c, p)
  PROVE  Life!Doom(p)
<1>1. runs[p] # 0 /\ phase[p] \in {"BOOTING", "ACTIVE"}
  <2>1. start_stop_lock[p] = None /\ phase[p] # "INACTIVE" /\ Consistent(p) /\ phase[p] \in Phases
    BY DEF Kill, Reachable, Control, Fields
  <2> QED
    BY <2>1, Apart DEF Consistent, Phases
<1>2. Doomed' = [Doomed EXCEPT ![p] = TRUE]
  BY <1>1, DoomedChanges DEF Kill, Control
<1> QED
  BY <1>1, <1>2 DEF Life!Doom, Kill, actor, Doomed

(* The steps of an actor that leave all processes as they are.             *)
LEMMA WalkLife ==
  ASSUME Control, NEW a \in Actors,
         \/ List(a) \/ Measure(a) \/ Extend(a) \/ Undo(a) \/ Unlock(a) \/ Poll(a)
         \/ a \in Clients /\ \E p \in Processes : Join(a, p)
  PROVE  UNCHANGED Life!avars
<1>1. /\ pc[a] # "waiting" /\ pc'[a] # "waiting"
      /\ \A b \in Actors : b # a => pc'[b] = pc[b] /\ on'[b] = on[b]
  BY DEF List, Measure, Extend, Undo, Unlock, Poll, Join, Goto, Leave, Control, Fields
<1>2. Awaited' = Awaited
  BY <1>1, AwaitedStays DEF Control
<1>3. UNCHANGED <<phase, runs, thread, exits, signals>>
  BY DEF List, Measure, Extend, Undo, Unlock, Poll, Join, process
<1> QED
  BY <1>2, <1>3 DEF Life!avars, Awaited

LEMMA JoinLookLife ==
  ASSUME Control, NEW c \in Actors, NEW p \in Processes, on[c] = p, JoinLook(c)
  PROVE  Life!Await(c, p) \/ UNCHANGED Life!avars
<1>1. /\ pc[c] = "joining" /\ UNCHANGED <<phase, runs, thread, exits, signals>>
      /\ on[c] \in Processes
  BY DEF JoinLook, process, Control, Fields
<1>2. CASE Ended(on[c])
  <2>1. Awaited' = Awaited
    BY <1>2, AwaitedStays DEF JoinLook, Goto, Leave, Control, Fields
  <2> QED
    BY <1>1, <2>1 DEF Life!avars, Awaited
<1>3. CASE ~Ended(on[c])
  <2>1. pc' = [pc EXCEPT ![c] = "waiting"] /\ on' = on
    BY <1>3 DEF JoinLook, Goto
  <2>2. Awaited[c] = None /\ Awaited' = [Awaited EXCEPT ![c] = on[c]]
    BY <1>1, <2>1 DEF Awaited, Control, Fields
  <2> QED
    BY <1>1, <1>3, <2>2 DEF Life!Await, Awaited, Ended
<1> QED
  BY <1>2, <1>3

LEMMA GiveUpLife ==
  ASSUME Control, NEW c \in Clients, Unwind(c) \/ SpuriousWakeup(c)
  PROVE  Life!GiveUp(c)
<1>1. c \in Actors /\ UNCHANGED <<phase, runs, thread, exits, signals>>
  BY Apart DEF Unwind, SpuriousWakeup, process
<1>2. /\ pc'[c] # "waiting"
      /\ \A b \in Actors : b # c => pc'[b] = pc[b] /\ on'[b] = on[b]
  BY <1>1 DEF Unwind, SpuriousWakeup, Goto, Leave, Control, Fields
<1>3. Awaited' = [Awaited EXCEPT ![c] = None]
  BY <1>1, <1>2 DEF Awaited
<1> QED
  BY <1>1, <1>3 DEF Life!GiveUp, Awaited

LEMMA LifeStep ==
  ASSUME Control, [Next]_vars
  PROVE  [Life!Next]_(Life!avars)
<1>1. ASSUME NEW a \in Actors, ActorStep(a)
      PROVE  Life!Next \/ UNCHANGED Life!avars
  <2>1. CASE List(a) \/ Measure(a) \/ Extend(a) \/ Undo(a) \/ Unlock(a) \/ Poll(a)
    BY <2>1, WalkLife
  <2>2. CASE Create(a)
    <3>1. PICK p \in Processes : on[a] = p
      BY <2>2 DEF Create, Control, Fields
    <3>2. Life!Spawn(p) \/ UNCHANGED Life!avars
      BY <2>2, <3>1, CreateLife
    <3> QED
      BY <3>2 DEF Life!Next
  <2>3. CASE Undone(a)
    <3>1. PICK p \in Processes : on[a] = p
      BY <2>3 DEF Undone, Control, Fields
    <3>2. Life!Fail(p)
      BY <2>3, <3>1, UndoneLife
    <3> QED
      BY <3>2 DEF Life!Next
  <2>4. CASE Imported(a)
    BY <2>4, ImportedLife, Apart DEF Imported, Life!Next
  <2>5. CASE JoinLook(a)
    <3>1. PICK p \in Processes : on[a] = p
      BY <2>5 DEF JoinLook, Control, Fields
    <3>2. Life!Await(a, p) \/ UNCHANGED Life!avars
      BY <2>5, <3>1, JoinLookLife
    <3> QED
      BY <3>2 DEF Life!Next
  <2> QED
    BY <1>1, <2>1, <2>2, <2>3, <2>4, <2>5 DEF ActorStep
<1>2. ASSUME NEW p \in Processes,
             \/ Start(p) \/ Return(p) \/ Exit(p) \/ Die(p)
             \/ CleanupBegin(p) \/ CleanupUnlist(p) \/ CleanupEnd(p)
      PROVE  Life!Next \/ UNCHANGED Life!avars
  BY <1>2, StartLife, ReturnLife, DieLife, CleanupBeginLife, CleanupUnlistLife,
     CleanupEndLife DEF Life!Next
<1>3. ASSUME NEW f \in Foreign, Import(f)
      PROVE  Life!Next
  BY <1>3, ImportLife, Apart DEF Life!Next
<1>4. ASSUME NEW c \in Clients, Unwind(c) \/ SpuriousWakeup(c)
      PROVE  Life!Next
  BY <1>4, GiveUpLife, Apart DEF Life!Next
<1>5. ASSUME NEW c \in Clients, NEW p \in Processes, Join(c, p)
      PROVE  UNCHANGED Life!avars
  BY <1>5, WalkLife, Apart
<1>6. ASSUME NEW c \in Clients, NEW p \in Objects, Enable(c, p)
      PROVE  Life!Next
  BY <1>6, EnableLife, Apart DEF Life!Next
<1>8. ASSUME NEW c \in Clients, NEW p \in Processes, Kill(c, p)
      PROVE  Life!Next
  BY <1>8, KillLife, Apart DEF Life!Next
<1>7. CASE UNCHANGED vars
  BY <1>7 DEF vars, process, actor, Life!avars
<1> QED
  BY <1>1, <1>2, <1>3, <1>4, <1>5, <1>6, <1>7, <1>8 DEF Next

(* thread.d implements the life cycle of AbstractProcess: lock, phase,     *)
(* thread, environment and exit_barrier of a process never part ways.      *)
THEOREM ProcessImplementsLifeCycle == Spec => ImplementsLifeCycle
<1>1. Init => Life!Init
  BY DEF Init, Life!Init
<1>2. IInv /\ [Next]_vars => [Life!Next]_(Life!avars)
  BY LifeStep DEF IInv
<1> QED
  BY <1>1, <1>2, Invariance, PTL DEF Spec, ImplementsLifeCycle, Life!Spec

(* A client on exit_barrier always has a broadcast ahead of it: the run it *)
(* waits for is not over, failed starts and runs begun anew included.      *)
LEMMA OwedStep ==
  ASSUME Control, NoneWaitsForEnded, [Next]_vars
  PROVE  NoneWaitsForEnded'
<1> SUFFICES ASSUME NEW a \in Actors, pc'[a] = "waiting"
             PROVE  on'[a] \in Processes /\ phase'[on'[a]] # "INACTIVE"
  BY DEF NoneWaitsForEnded, Ended
<1>1. CASE JoinLook(a)
  BY <1>1 DEF JoinLook, Goto, Ended, process, Control, Fields
<1>2. CASE ~JoinLook(a)
  <2>1. pc[a] = "waiting" /\ on'[a] = on[a]
    BY <1>2 DEF Next, ActorStep, List, Measure, Extend, Create, Unlock, Poll, Undo, Undone,
           Imported, JoinLook, Start, Return, Exit, Die, CleanupBegin, CleanupUnlist,
           CleanupEnd, Unwind, SpuriousWakeup, Join, Kill, Enable, Import, Alerted,
           Goto, Leave, vars, actor, Control, Fields
  <2>2. phase[on[a]] # "INACTIVE" /\ on[a] \in Processes
    BY <2>1 DEF NoneWaitsForEnded, Ended
  <2>3. phase'[on[a]] # "INACTIVE"
    <3>1. ASSUME NEW b \in Actors, Undone(b)
          PROVE  phase'[on[a]] # "INACTIVE"
      BY <2>1, <2>2, <3>1 DEF Undone, Alerted, Control, Fields
    <3>2. ASSUME NEW p \in Processes, CleanupEnd(p)
          PROVE  phase'[on[a]] # "INACTIVE"
      BY <2>1, <2>2, <3>2 DEF CleanupEnd, Alerted, Control, Fields
    <3>3. CASE /\ \A b \in Actors : ~Undone(b)
               /\ \A p \in Processes : ~CleanupEnd(p)
      BY <2>2, <3>3 DEF Next, ActorStep, List, Measure, Extend, Create, Unlock, Poll, Undo,
             Imported, JoinLook, Start, Return, Exit, Die, CleanupBegin, CleanupUnlist,
             Unwind, SpuriousWakeup, Join, Kill, Enable, Import,
             vars, process, Control, Fields
    <3> QED
      BY <3>1, <3>2, <3>3
  <2> QED
    BY <2>1, <2>2, <2>3
<1> QED
  BY <1>1, <1>2

THEOREM NoneWaitsForEndedAlways == Spec => []NoneWaitsForEnded
<1>1. Init => NoneWaitsForEnded
  BY DEF Init, NoneWaitsForEnded
<1>2. IInv /\ NoneWaitsForEnded /\ [Next]_vars => NoneWaitsForEnded'
  BY OwedStep DEF IInv
<1> QED
  BY <1>1, <1>2, Invariance, PTL DEF Spec
=============================================================================
