-------------------------- MODULE Interrupts_proofs --------------------------
(***************************************************************************)
(* Proofs about Interrupts: its types, that no interrupt runs on top of    *)
(* code that disabled them in C, that each is run once, and that a frame   *)
(* or a signal is there for what the queue holds.                          *)
(***************************************************************************)
EXTENDS Interrupts, FiniteSetTheorems, SequenceTheorems, TLAPS

Frames == [kind : Kinds, at : Ats, ena : BOOLEAN, allow : BOOLEAN,
           what : Ids \cup {None}, last : BOOLEAN]

(* The places inside handle_all_queued and pop_signal.                     *)
Draining == {"test", "locking", "loaded", "linked", "stored", "ready"}
(* Those where the loop has an interrupt that is not in the queue.         *)
Handing == {"linked", "stored", "ready"}
Proper(f) ==
  /\ f \in Frames
  /\ f.at \in Draining => f.kind = "drain"
  /\ f.at \in Draining \ {"test", "locking"} => f.what \in Ids
  /\ f.at = "waiting" => f.kind = "section"

(* A stack: the program is at the bottom, and whatever has something on    *)
(* top of it left interrupts enabled.                                      *)
WellFormed(s) ==
  /\ s \in Seq(Frames) /\ Len(s) > 0
  /\ s[1].kind = "program"
  /\ \A k \in 1 .. Len(s) : Proper(s[k])
  /\ \A k \in 1 .. Len(s) - 1 : s[k].at \notin Unsafe

Last(s) == s[Len(s)]
Replaced(s, f) == [s EXCEPT ![Len(s)] = f]
Popped(s) == SubSeq(s, 1, Len(s) - 1)

LEMMA StackPush ==
  ASSUME NEW s, WellFormed(s), Last(s).at \notin Unsafe, NEW f, Proper(f)
  PROVE  /\ WellFormed(Append(s, f))
         /\ Len(Append(s, f)) = Len(s) + 1 /\ Last(Append(s, f)) = f
         /\ \A k \in 1 .. Len(s) : Append(s, f)[k] = s[k]
BY DEF WellFormed, Last, Proper

LEMMA StackReplace ==
  ASSUME NEW s, WellFormed(s), NEW f, Proper(f), f.kind = Last(s).kind \/ Len(s) > 1
  PROVE  /\ WellFormed(Replaced(s, f))
         /\ Len(Replaced(s, f)) = Len(s) /\ Last(Replaced(s, f)) = f
         /\ \A k \in 1 .. Len(s) - 1 : Replaced(s, f)[k] = s[k]
BY DEF WellFormed, Last, Replaced, Proper

LEMMA StackPop ==
  ASSUME NEW s, WellFormed(s), Len(s) > 1
  PROVE  /\ WellFormed(Popped(s))
         /\ Len(Popped(s)) = Len(s) - 1 /\ Last(Popped(s)) = s[Len(s) - 1]
         /\ Last(Popped(s)).at \notin Unsafe
         /\ \A k \in 1 .. Len(s) - 1 : Popped(s)[k] = s[k]
BY DEF WellFormed, Last, Popped, Proper

(* A non-local exit to frame k, which is open again.                       *)
LEMMA StackCut ==
  ASSUME NEW s, WellFormed(s), NEW k \in 1 .. Len(s), NEW f, Proper(f),
         f.kind = s[k].kind
  PROVE  LET r == SubSeq(s, 1, k - 1) \o <<f>>
         IN  /\ WellFormed(r)
             /\ Len(r) = k /\ Last(r) = f
             /\ \A j \in 1 .. k - 1 : r[j] = s[j]
<1> DEFINE r == SubSeq(s, 1, k - 1) \o <<f>>
<1>1. s \in Seq(Frames) /\ f \in Frames
  BY DEF WellFormed, Proper
<1>2. r \in Seq(Frames) /\ Len(r) = k /\ r[k] = f
  BY <1>1
<1>3. \A j \in 1 .. k - 1 : r[j] = s[j]
  BY <1>1
<1>4. WellFormed(r)
  BY <1>2, <1>3 DEF WellFormed
<1> QED
  BY <1>2, <1>3, <1>4 DEF Last

USE InterruptsAssumption DEF InterruptsAssumption

(* New frames have the types of frames.                                    *)
LEMMA DrainType ==
  ASSUME NEW f \in Frames
  PROVE  Proper(Drain(f)) /\ Drain(f).at = "test" /\ Drain(f).kind = "drain"
BY DEF Drain, Over, Frame, Frames, Proper, Kinds, Ats

LEMMA InterruptType ==
  ASSUME NEW f \in Frames, NEW i \in Ids
  PROVE  /\ Proper(Interrupt(f, i)) /\ Interrupt(f, i).at = "open"
         /\ Interrupt(f, i).what = i /\ Interrupt(f, i).kind = "interrupt"
BY DEF Interrupt, Over, Frame, Frames, Proper, Kinds, Ats, Draining

LEMMA FrameType ==
  ASSUME NEW kind \in Kinds, NEW ena \in BOOLEAN, NEW allow \in BOOLEAN
  PROVE  /\ Proper(Frame(kind, "open", ena, allow, None))
         /\ Frame(kind, "open", ena, allow, None).at = "open"
BY DEF Frame, Frames, Ats, Proper, Draining

(* A frame that moves to another place.                                    *)
LEMMA MovedType ==
  ASSUME NEW f \in Frames, NEW at \in Ats
  PROVE  /\ [f EXCEPT !.at = at] \in Frames
         /\ [f EXCEPT !.at = at].at = at
         /\ [f EXCEPT !.at = at].kind = f.kind
         /\ [f EXCEPT !.at = at].what = f.what
         /\ [f EXCEPT !.at = at].last = f.last
BY DEF Frames

-----------------------------------------------------------------------------
(* Counting in the queue and on the stack                                  *)

Occurring(q, S) == {k \in 1 .. Len(q) : q[k] \in S}
Holds(f, i) == f.at \in Handing /\ f.what = i
Holding(s, i) == {k \in 1 .. Len(s) : Holds(s[k], i)}

LEMMA OccurringFinite ==
  ASSUME NEW q \in Seq(Ids), NEW S
  PROVE  IsFiniteSet(Occurring(q, S)) /\ Cardinality(Occurring(q, S)) \in Nat
<1>1. Occurring(q, S) \subseteq 1 .. Len(q) /\ IsFiniteSet(1 .. Len(q))
  BY FS_Interval DEF Occurring
<1> QED
  BY <1>1, FS_Subset, FS_CardinalityType

LEMMA OccurringAppend ==
  ASSUME NEW q \in Seq(Ids), NEW S, NEW i \in Ids
  PROVE  Cardinality(Occurring(Append(q, i), S))
           = Cardinality(Occurring(q, S)) + IF i \in S THEN 1 ELSE 0
<1>1. Len(q) + 1 \notin Occurring(q, S)
  BY DEF Occurring
<1>2. CASE i \in S
  <2>1. Occurring(Append(q, i), S) = Occurring(q, S) \cup {Len(q) + 1}
    BY <1>2 DEF Occurring
  <2> QED
    BY <1>1, <1>2, <2>1, OccurringFinite, FS_AddElement
<1>3. CASE i \notin S
  <2>1. Occurring(Append(q, i), S) = Occurring(q, S)
    BY <1>3 DEF Occurring
  <2> QED
    BY <1>3, <2>1, OccurringFinite
<1> QED
  BY <1>2, <1>3

(* Without its head the rest of a queue moves up by one.                   *)
LEMMA OccurringTail ==
  ASSUME NEW q \in Seq(Ids), q # <<>>, NEW S
  PROVE  Cardinality(Occurring(Tail(q), S))
           = Cardinality(Occurring(q, S)) - IF Head(q) \in S THEN 1 ELSE 0
<1> DEFINE old == Occurring(q, S) \ {1}
           new == Occurring(Tail(q), S)
           f == [k \in new |-> k + 1]
<1>1. /\ new = {k \in 1 .. Len(q) - 1 : q[k + 1] \in S}
      /\ old = {k \in 2 .. Len(q) : q[k] \in S}
  BY DEF Occurring
<1>2. Cardinality(new) = Cardinality(old)
  <2>1. f \in [new -> old]
    BY <1>1
  <2>2. \A j, k \in new : f[j] = f[k] => j = k
    BY <1>1
  <2>3. \A k \in old : \E j \in new : f[j] = k
    <3> SUFFICES ASSUME NEW k \in old
                 PROVE  \E j \in new : f[j] = k
      OBVIOUS
    <3>1. /\ k \in 2 .. Len(q) /\ q[k] \in S /\ Len(q) \in Nat
          /\ k - 1 \in 1 .. Len(q) - 1 /\ (k - 1) + 1 = k
      BY <1>1
    <3>2. k - 1 \in new /\ f[k - 1] = k
      BY <1>1, <3>1
    <3> QED
      BY <3>2
  <2> HIDE DEF f, new, old
  <2>4. ExistsBijection(new, old)
    BY <2>1, <2>2, <2>3 DEF ExistsBijection, Bijection, Injection, Surjection, IsInjective
  <2>5. IsFiniteSet(new)
    <3>1. Tail(q) \in Seq(Ids)
      OBVIOUS
    <3> QED
      BY <3>1, OccurringFinite DEF new
  <2> QED
    BY <2>4, <2>5, FS_Bijection
<1> HIDE DEF f, new
<1>3. CASE Head(q) \in S
  <2>1. 1 \in Occurring(q, S)
    BY <1>3 DEF Occurring
  <2>2. Cardinality(old) = Cardinality(Occurring(q, S)) - 1
    BY <2>1, OccurringFinite, FS_RemoveElement
  <2> QED
    BY <1>2, <1>3, <2>2 DEF new
<1>4. CASE Head(q) \notin S
  <2>1. old = Occurring(q, S)
    BY <1>4 DEF Occurring
  <2>2. Cardinality(Occurring(Tail(q), S)) = Cardinality(Occurring(q, S))
    BY <1>2, <2>1, Zenon DEF new
  <2> QED
    BY <1>4, <2>2, OccurringFinite
<1> QED
  BY <1>3, <1>4

LEMMA HoldingFinite ==
  ASSUME NEW s, WellFormed(s), NEW i
  PROVE  IsFiniteSet(Holding(s, i)) /\ Cardinality(Holding(s, i)) \in Nat
<1>1. Holding(s, i) \subseteq 1 .. Len(s) /\ Len(s) \in Nat
  BY DEF Holding, WellFormed
<1>2. IsFiniteSet(1 .. Len(s))
  BY <1>1, FS_Interval
<1> QED
  BY <1>1, <1>2, FS_Subset, FS_CardinalityType

(* Frames that hold nothing come and go without a change.                  *)
LEMMA HoldingPush ==
  ASSUME NEW s, WellFormed(s), NEW f, f \in Frames, f.at \notin Handing, NEW i
  PROVE  Holding(Append(s, f), i) = Holding(s, i)
<1>1. Append(s, f)[Len(s) + 1] = f /\ Len(Append(s, f)) = Len(s) + 1
      /\ \A k \in 1 .. Len(s) : Append(s, f)[k] = s[k]
  BY DEF WellFormed
<1>2. Len(s) \in Nat /\ ~Holds(f, i)
  BY DEF WellFormed, Holds
<1> QED
  BY <1>1, <1>2 DEF Holding

LEMMA HoldingPop ==
  ASSUME NEW s, WellFormed(s), Len(s) > 1, Last(s).at \notin Handing, NEW i
  PROVE  Holding(Popped(s), i) = Holding(s, i)
<1>1. Len(Popped(s)) = Len(s) - 1 /\ \A k \in 1 .. Len(s) - 1 : Popped(s)[k] = s[k]
  BY StackPop
<1>2. Len(s) \in Nat /\ ~Holds(s[Len(s)], i)
  BY DEF WellFormed, Holds, Last
<1> QED
  BY <1>1, <1>2 DEF Holding

LEMMA HoldingReplace ==
  ASSUME NEW s, WellFormed(s), NEW f, f \in Frames, NEW i
  PROVE  Cardinality(Holding(Replaced(s, f), i))
           = Cardinality(Holding(s, i)) - (IF Holds(Last(s), i) THEN 1 ELSE 0)
                                        + (IF Holds(f, i) THEN 1 ELSE 0)
<1> DEFINE n == Len(s)
           rest == {k \in 1 .. n - 1 : Holds(s[k], i)}
<1>1. n \in Nat /\ n > 0 /\ Last(s) = s[n]
  BY DEF WellFormed, Last
<1>2. /\ Len(Replaced(s, f)) = n /\ Replaced(s, f)[n] = f
      /\ \A k \in 1 .. n - 1 : Replaced(s, f)[k] = s[k]
  BY <1>1 DEF WellFormed, Replaced
<1>3. Holding(s, i) = IF Holds(Last(s), i) THEN rest \cup {n} ELSE rest
  BY <1>1 DEF Holding
<1>4. Holding(Replaced(s, f), i) = IF Holds(f, i) THEN rest \cup {n} ELSE rest
  BY <1>1, <1>2 DEF Holding
<1>5. IsFiniteSet(rest) /\ Cardinality(rest) \in Nat /\ n \notin rest
  <2>1. rest \subseteq 1 .. n /\ n \notin rest
    BY <1>1
  <2>2. IsFiniteSet(1 .. n)
    BY <1>1, FS_Interval
  <2> QED
    BY <2>1, <2>2, FS_Subset, FS_CardinalityType
<1> HIDE DEF rest, n
<1>6. Cardinality(rest \cup {n}) = Cardinality(rest) + 1
  BY <1>5, FS_AddElement
<1> QED
  BY <1>3, <1>4, <1>5, <1>6

-----------------------------------------------------------------------------
(* How the stack and the flags go together                                 *)

Flow ==
  /\ WellFormed(stack)
  /\ disabled <=> Last(stack).at \in Unsafe
  /\ guard => disabled

(* As many frames as before hold an interrupt that is not in the queue.    *)
SameHeld ==
  \A i : Cardinality(Holding(stack', i)) = Cardinality(Holding(stack, i))

LEMMA TopFacts ==
  ASSUME WellFormed(stack)
  PROVE  /\ Last(stack) = Top /\ Depth \in Nat /\ Depth > 0 /\ Top \in Frames /\ Proper(Top)
         /\ Depth > 1 => stack[Depth - 1] \in Frames /\ stack[Depth - 1].at \notin Unsafe
         /\ Top.at \in Draining \/ Top.kind # "program" => Depth > 1
         /\ \A f : With(f) = Replaced(stack, f)
         /\ Below = Popped(stack)
BY DEF WellFormed, Last, Top, Depth, Proper, With, Replaced, Below, Popped

(* The ways in which a step changes the stack, with disabled as it is.     *)
Empty(f) == Proper(f) /\ f.at \notin Unsafe \cup Handing

LEMMA PushFlow ==
  ASSUME Flow, ~disabled, NEW f, Empty(f),
         stack' = Append(stack, f), disabled' = disabled, ~guard'
  PROVE  Flow' /\ SameHeld
<1>1. Flow'
  BY StackPush DEF Flow, Empty
<1>2. SameHeld
  BY HoldingPush DEF SameHeld, Flow, Empty, Proper
<1> QED
  BY <1>1, <1>2

LEMMA ReplaceFlow ==
  ASSUME Flow, NEW f, Proper(f), f.kind = Top.kind, f.at \in Unsafe <=> disabled',
         stack' = With(f), guard' = guard, guard' => disabled'
  PROVE  /\ Flow' /\ Top' = f
         /\ (\A i : Holds(Top, i) <=> Holds(f, i)) => SameHeld
<1>1. Flow'
  BY TopFacts, StackReplace DEF Flow
<1>2. stack' = Replaced(stack, f) /\ Last(stack) = Top
  BY TopFacts DEF Flow
<1>3. Top' = f
  BY <1>2, StackReplace, TopFacts DEF Flow, Top, Depth, Last
<1>4. ASSUME NEW i, Holds(Top, i) <=> Holds(f, i)
      PROVE  Cardinality(Holding(stack', i)) = Cardinality(Holding(stack, i))
  <2>1. Cardinality(Holding(stack, i)) \in Nat
    BY HoldingFinite DEF Flow
  <2> QED
    BY <1>2, <1>4, <2>1, HoldingReplace DEF Flow, Proper
<1> QED
  BY <1>1, <1>3, <1>4 DEF SameHeld

LEMMA PopFlow ==
  ASSUME Flow, ~disabled, Depth > 1, Empty(Top),
         stack' = Below, UNCHANGED <<disabled, guard>>
  PROVE  Flow' /\ SameHeld
<1>1. Flow'
  BY TopFacts, StackPop DEF Flow, Depth
<1>2. SameHeld
  BY TopFacts, HoldingPop DEF SameHeld, Flow, Depth, Empty
<1> QED
  BY <1>1, <1>2

(* A scope is left, and the frame below looks at the queue.                *)
LEMMA PopPushFlow ==
  ASSUME Flow, ~disabled, Depth > 1, Empty(Top), NEW f, Empty(f),
         stack' = Append(Below, f), UNCHANGED <<disabled, guard>>
  PROVE  Flow' /\ SameHeld
<1>1. WellFormed(Below) /\ Last(Below).at \notin Unsafe
  BY TopFacts, StackPop DEF Flow, Depth
<1>2. WellFormed(stack') /\ Last(stack') = f
  BY <1>1, StackPush DEF Empty
<1>3. \A i : Holding(Below, i) = Holding(stack, i)
  BY TopFacts, HoldingPop DEF Flow, Depth, Empty
<1>4. \A i : Holding(stack', i) = Holding(Below, i)
  BY <1>1, HoldingPush DEF Empty, Proper
<1> QED
  BY <1>2, <1>3, <1>4 DEF Flow, Empty, SameHeld

(* Two frames come at once.                                                *)
LEMMA PushTwoFlow ==
  ASSUME Flow, ~disabled, NEW f, Empty(f), NEW g, Empty(g),
         stack' = Append(Append(stack, f), g), UNCHANGED <<disabled, guard>>
  PROVE  Flow' /\ SameHeld
<1>1. WellFormed(Append(stack, f)) /\ Last(Append(stack, f)).at \notin Unsafe
  BY StackPush DEF Flow, Empty
<1>2. WellFormed(stack') /\ Last(stack') = g
  BY <1>1, StackPush DEF Empty
<1>3. \A i : Holding(Append(stack, f), i) = Holding(stack, i)
  BY HoldingPush DEF Flow, Empty, Proper
<1>4. \A i : Holding(stack', i) = Holding(Append(stack, f), i)
  BY <1>1, HoldingPush DEF Empty, Proper
<1> QED
  BY <1>2, <1>3, <1>4 DEF Flow, Empty, SameHeld

(* The top moves to a place and another frame comes on top of it.          *)
LEMMA ReplacePushFlow ==
  ASSUME Flow, NEW f, Proper(f), f.kind = Top.kind, f.at \notin Unsafe,
         NEW g, Empty(g), stack' = Append(With(f), g), ~disabled', ~guard'
  PROVE  /\ Flow'
         /\ \A i : Cardinality(Holding(stack', i)) =
                     Cardinality(Holding(stack, i)) - (IF Holds(Top, i) THEN 1 ELSE 0)
                                                    + (IF Holds(f, i) THEN 1 ELSE 0)
<1>1. WellFormed(With(f)) /\ Last(With(f)) = f
  BY TopFacts, StackReplace DEF Flow
<1>2. WellFormed(stack') /\ Last(stack') = g
  BY <1>1, StackPush DEF Empty
<1>3. \A i : Holding(stack', i) = Holding(With(f), i)
  BY <1>1, HoldingPush DEF Empty, Proper
<1>4. With(f) = Replaced(stack, f) /\ Last(stack) = Top
  BY TopFacts DEF Flow
<1> QED
  BY <1>2, <1>3, <1>4, HoldingReplace DEF Flow, Empty, Proper

(* The store that enables interrupts leaves them enabled.                  *)
LEMMA EnableFlow ==
  ASSUME Flow, NEW at \in Ats, at \notin Unsafe \cup {"waiting"}, Enable(at),
         at \in Draining => Top.kind = "drain" /\ Top.what \in Ids,
         at \in Handing <=> Top.at \in Handing
  PROVE  Flow' /\ SameHeld
<1> DEFINE f == [Top EXCEPT !.at = at]
<1>1. Proper(f) /\ f.at = at /\ f.kind = Top.kind /\ f.what = Top.what
  BY TopFacts, MovedType DEF Flow, Proper
<1>2. stack' = (IF guard THEN Append(With(f), Drain(Top)) ELSE With(f))
      /\ disabled' = FALSE /\ guard' = FALSE
  BY DEF Enable
<1>3. Empty(Drain(Top))
  BY TopFacts, DrainType DEF Flow, Empty, Unsafe, Handing
<1>4. \A i : Holds(Top, i) <=> Holds(f, i)
  BY <1>1 DEF Holds
<1>5. \A i : Cardinality(Holding(stack, i)) \in Nat
  BY HoldingFinite DEF Flow
<1> HIDE DEF f
<1>6. CASE guard
  BY <1>1, <1>2, <1>3, <1>4, <1>5, <1>6, ReplacePushFlow DEF SameHeld
<1>7. CASE ~guard
  <2>1. WellFormed(stack') /\ Last(stack') = f
    BY <1>1, <1>2, <1>7, TopFacts, StackReplace DEF Flow
  <2>2. \A i : Cardinality(Holding(stack', i)) = Cardinality(Holding(stack, i))
    BY <1>1, <1>2, <1>4, <1>5, <1>7, TopFacts, HoldingReplace DEF Flow, Proper
  <2> QED
    BY <1>1, <1>2, <2>1, <2>2 DEF Flow, SameHeld
<1> QED
  BY <1>6, <1>7

(* Lisp code and loops run with interrupts enabled in C, and above the     *)
(* program there is something to return to.                                *)
LEMMA RunsFacts ==
  ASSUME Flow, Runs
  PROVE  /\ ~disabled /\ Empty(Top) /\ Proper(Top) /\ Top \in Frames
         /\ Top.kind # "program" => Depth > 1
BY TopFacts DEF Flow, Runs, Unsafe, Empty, Handing

(* If the stack stays, what the frames hold stays.                         *)
LEMMA StackStays ==
  ASSUME stack' = stack
  PROVE  SameHeld /\ Top' = Top
BY DEF SameHeld, Top, Depth

LEMMA DeliverFlow ==
  ASSUME Flow, Deliver
  PROVE  /\ Flow' /\ SameHeld
         /\ disabled => stack' = stack
         /\ disabled' = disabled
<1>1. disabled' = disabled /\ guard' = (guard \/ (pending # <<>> /\ disabled))
  BY DEF Deliver, NotByC
<1>2. CASE disabled
  <2>1. stack' = stack
    BY <1>2 DEF Deliver, NotByC
  <2> QED
    BY <1>1, <1>2, <2>1, StackStays DEF Flow
<1>3. CASE ~disabled
  <2>1. ~guard'
    BY <1>1, <1>3 DEF Flow
  <2>2. \/ stack' = stack
        \/ stack' = Append(stack, Drain(Top))
    BY <1>3 DEF Deliver, NotByC
  <2>3. Empty(Drain(Top))
    BY TopFacts, DrainType DEF Flow, Unsafe, Empty, Handing
  <2> QED
    BY <1>1, <1>3, <2>1, <2>2, <2>3, PushFlow, StackStays DEF Flow
<1> QED
  BY <1>1, <1>2, <1>3

LEMMA AsyncFlow ==
  ASSUME Flow, NEW a \in Signals, Async(a)
  PROVE  Flow' /\ SameHeld
<1>1. CASE Top.ena /\ ~disabled
  <2>1. stack' = Append(stack, Interrupt(Top, a)) /\ UNCHANGED <<disabled, guard>>
    BY <1>1 DEF Async
  <2>2. Empty(Interrupt(Top, a))
    BY TopFacts, InterruptType DEF Flow, Unsafe, Ids, Empty, Handing
  <2> QED
    BY <1>1, <2>1, <2>2, PushFlow DEF Flow
<1>2. CASE ~(Top.ena /\ ~disabled)
  <2>1. stack' = stack /\ guard' = (guard \/ Top.ena) /\ disabled' = disabled
    BY <1>2 DEF Async
  <2> QED
    BY <1>2, <2>1, StackStays DEF Flow
<1> QED
  BY <1>1, <1>2

(* The end of the model, where interrupts are disabled.                    *)
LEMMA StopFlow ==
  ASSUME Flow, NEW at \in {"dead", "torn"}, Stop(at), disabled,
         UNCHANGED <<disabled, guard>>
  PROVE  Flow' /\ Dead' /\ Top'.at = at
<1> DEFINE f == [Top EXCEPT !.at = at]
<1>1. Proper(f) /\ f.at = at /\ f.kind = Top.kind
  <2>1. at \in Ats /\ at \notin Draining /\ Top \in Frames
    BY TopFacts DEF Ats, Draining, Flow
  <2>2. f \in Frames /\ f.at = at /\ f.kind = Top.kind
    BY <2>1, MovedType
  <2> QED
    BY <2>1, <2>2 DEF Proper
<1>2. stack' = With(f) /\ at \in Unsafe
  BY DEF Stop, Unsafe
<1> HIDE DEF f
<1>3. Flow' /\ Top' = f
  BY <1>1, <1>2, ReplaceFlow DEF Flow
<1> QED
  BY <1>1, <1>3 DEF Dead

LEMMA AsyncStopsFlow ==
  ASSUME Flow, NEW a \in Signals, AsyncKills(a) \/ AsyncTears(a)
  PROVE  Flow' /\ Dead' /\ Top'.at \in {"dead", "torn"}
<1>1. UNCHANGED <<disabled, guard>> /\ (Stop("dead") \/ Stop("torn"))
  BY DEF AsyncKills, AsyncTears, flags
<1>2. disabled
  BY TopFacts DEF AsyncKills, AsyncTears, Flow, Unsafe
<1> QED
  BY <1>1, <1>2, StopFlow

LEMMA LockFlow ==
  ASSUME Flow, NEW i \in Functions, Lock(i)
  PROVE  Flow' /\ ((stack' = stack /\ ~InPop) \/ (Dead' /\ Top'.at = "torn"))
<1>1. UNCHANGED <<disabled, guard>> /\ (IF InPop THEN Stop("torn") ELSE stack' = stack)
  BY DEF Lock, flags
<1>2. InPop => disabled
  BY TopFacts DEF InPop, Flow, Unsafe
<1>3. CASE InPop
  BY <1>1, <1>2, <1>3, StopFlow
<1>4. CASE ~InPop
  BY <1>1, <1>4 DEF Flow
<1> QED
  BY <1>3, <1>4

(* The stores that disable interrupts.                                     *)
LEMMA DisableFlow ==
  ASSUME Flow, NEW at \in {"critical", "nested", "locking"}, Stop(at), disabled', guard' = guard,
         Top.at \notin Handing, at = "locking" => Top.kind = "drain"
  PROVE  Flow' /\ SameHeld /\ Top'.at = at
<1> DEFINE f == [Top EXCEPT !.at = at]
<1>1. Proper(f) /\ f.at = at /\ f.kind = Top.kind
  <2>1. at \in Ats /\ at \notin Draining \ {"locking"} /\ Top \in Frames
    BY TopFacts DEF Ats, Draining, Flow
  <2>2. f \in Frames /\ f.at = at /\ f.kind = Top.kind
    BY <2>1, MovedType
  <2> QED
    BY <2>1, <2>2 DEF Proper
<1>2. stack' = With(f) /\ at \in Unsafe /\ at \notin Handing
  BY DEF Stop, Unsafe, Handing
<1>3. \A i : Holds(Top, i) <=> Holds(f, i)
  BY <1>1, <1>2, Zenon DEF Holds
<1> HIDE DEF f
<1> QED
  BY <1>1, <1>2, <1>3, ReplaceFlow

LEMMA PopLoadFlow ==
  ASSUME Flow, pending \in Seq(Ids), PopLoad
  PROVE  /\ Flow' /\ SameHeld
         /\ Top'.at = "loaded" /\ Top'.what = Head(pending)
         /\ (Top'.last = TRUE => Len(pending) = 1)
<1> DEFINE f == [Top EXCEPT !.at = "loaded", !.what = Head(pending),
                            !.last = Len(pending) = 1]
<1>1. /\ stack' = With(f) /\ UNCHANGED <<disabled, guard>> /\ disabled
      /\ Top.at = "locking" /\ pending # <<>>
  BY TopFacts DEF PopLoad, flags, Flow, Unsafe
<1>2. Head(pending) \in Ids
  BY <1>1
<1>3. (Len(pending) = 1) \in BOOLEAN
  OBVIOUS
<1>4. Proper(f) /\ f.at = "loaded" /\ f.kind = Top.kind
  <2>1. f \in Frames /\ f.at = "loaded" /\ f.kind = Top.kind /\ f.what = Head(pending)
    BY <1>2, <1>3, TopFacts DEF Flow, Frames, Ats
  <2>2. Top.kind = "drain"
    BY <1>1, TopFacts DEF Flow, Proper, Draining
  <2> QED
    BY <1>2, <2>1, <2>2 DEF Proper
<1>5. f.what = Head(pending) /\ (f.last = TRUE => Len(pending) = 1)
  BY TopFacts DEF Flow, Frames
<1>6. \A i : Holds(Top, i) <=> Holds(f, i)
  BY <1>1, <1>4, Zenon DEF Holds, Handing
<1> HIDE DEF f
<1> QED
  BY <1>1, <1>4, <1>5, <1>6, ReplaceFlow DEF Flow, Unsafe

LEMMA PopStoreFlow ==
  ASSUME Flow, PopStore
  PROVE  /\ Flow' /\ Top'.at = IF Recycle THEN "linked" ELSE "stored"
         /\ \A i : Cardinality(Holding(stack', i)) =
                     Cardinality(Holding(stack, i)) + (IF i = Top.what THEN 1 ELSE 0)
<1> DEFINE at == IF Recycle THEN "linked" ELSE "stored"
           f == [Top EXCEPT !.at = at, !.last = FALSE]
<1>1. stack' = With(f) /\ UNCHANGED <<disabled, guard>> /\ Top.at = "loaded"
  BY DEF PopStore, flags
<1>0. at \in Handing /\ at \in Unsafe /\ at \in Ats
  BY DEF Handing, Unsafe, Ats
<1> HIDE DEF at
<1>2. Proper(f) /\ f.at = at /\ f.kind = Top.kind
  <2>1. f \in Frames /\ f.at = at /\ f.kind = Top.kind /\ f.what = Top.what
    BY <1>0, TopFacts DEF Flow, Frames
  <2>2. Top.kind = "drain" /\ Top.what \in Ids
    BY <1>1, TopFacts DEF Flow, Proper, Draining
  <2>3. at # "waiting"
    BY <1>0 DEF Handing
  <2> QED
    BY <2>1, <2>2, <2>3 DEF Proper
<1>3. disabled
  BY <1>1, TopFacts DEF Flow, Unsafe
<1>4. f.what = Top.what
  BY TopFacts DEF Flow, Frames
<1>5. \A i : ~Holds(Top, i) /\ (Holds(f, i) <=> i = Top.what)
  <2>1. "loaded" \notin Handing
    BY DEF Handing
  <2> QED
    BY <1>0, <1>1, <1>2, <1>4, <2>1, Zenon DEF Holds
<1>6. Flow' /\ Top' = f
  <2> HIDE DEF f
  <2> QED
    BY <1>0, <1>1, <1>2, <1>3, ReplaceFlow DEF Flow
<1>7. stack' = Replaced(stack, f) /\ Last(stack) = Top
  BY <1>1, TopFacts DEF Flow
<1> HIDE DEF f
<1>8. \A i : Cardinality(Holding(stack, i)) \in Nat
  BY HoldingFinite DEF Flow
<1> QED
  BY <1>2, <1>5, <1>6, <1>7, <1>8, HoldingReplace DEF Flow, Proper, at

LEMMA PopRecycleFlow ==
  ASSUME Flow, PopRecycle
  PROVE  Flow' /\ SameHeld /\ Top'.at = "stored"
<1> DEFINE f == [Top EXCEPT !.at = "stored"]
<1>1. stack' = With(f) /\ UNCHANGED <<disabled, guard>> /\ Top.at = "linked" /\ disabled
  BY TopFacts DEF PopRecycle, Stop, flags, Flow, Unsafe
<1>2. Proper(f) /\ f.at = "stored" /\ f.kind = Top.kind /\ f.what = Top.what
  <2>1. f \in Frames /\ f.at = "stored" /\ f.kind = Top.kind /\ f.what = Top.what
    BY TopFacts, MovedType DEF Flow, Ats
  <2>2. Top.kind = "drain" /\ Top.what \in Ids
    BY <1>1, TopFacts DEF Flow, Proper, Draining
  <2> QED
    BY <2>1, <2>2 DEF Proper
<1>3. \A i : Holds(Top, i) <=> Holds(f, i)
  BY <1>1, <1>2 DEF Holds, Handing
<1> HIDE DEF f
<1> QED
  BY <1>1, <1>2, <1>3, ReplaceFlow DEF Flow, Unsafe

LEMMA RunFlow ==
  ASSUME Flow, Run
  PROVE  /\ Flow' /\ ~disabled'
         /\ \A i : Cardinality(Holding(stack', i)) =
                     Cardinality(Holding(stack, i)) - (IF i = Top.what THEN 1 ELSE 0)
<1>1. /\ stack' = Append(With(Drain(Top)), Interrupt(Top, Top.what))
      /\ UNCHANGED <<disabled, guard>> /\ Top.at = "ready"
  BY DEF Run, flags
<1>2. Top.kind = "drain" /\ Top.what \in Ids /\ Top \in Frames /\ ~disabled
  BY <1>1, TopFacts DEF Flow, Proper, Draining, Unsafe
<1>3. /\ Proper(Drain(Top)) /\ Drain(Top).kind = Top.kind
      /\ Drain(Top).at = "test" /\ Drain(Top).at \notin Unsafe
  BY <1>2, DrainType DEF Unsafe
<1>4. Empty(Interrupt(Top, Top.what))
  BY <1>2, InterruptType DEF Unsafe, Empty, Handing
<1>5. ~guard' /\ ~disabled'
  BY <1>1, <1>2 DEF Flow
<1>6. \A i : ~Holds(Drain(Top), i) /\ (Holds(Top, i) <=> i = Top.what)
  BY <1>1, <1>3 DEF Holds, Handing
<1>7. \A i : Cardinality(Holding(stack, i)) \in Nat
  BY HoldingFinite DEF Flow
<1> QED
  BY <1>1, <1>2, <1>3, <1>4, <1>5, <1>6, <1>7, ReplacePushFlow

LEMMA LeaveFlow ==
  ASSUME Flow, Leave
  PROVE  Flow' /\ SameHeld
<1>1. /\ ~disabled /\ Depth > 1 /\ Empty(Top) /\ stack[Depth - 1] \in Frames
      /\ UNCHANGED <<disabled, guard>>
  BY RunsFacts, TopFacts DEF Leave, flags, Relaxed, Flow
<1>2. \/ stack' = Append(Below, Drain(stack[Depth - 1]))
      \/ stack' = Below
  BY DEF Leave
<1>3. Empty(Drain(stack[Depth - 1]))
  BY <1>1, DrainType DEF Unsafe, Empty, Handing
<1> QED
  BY <1>1, <1>2, <1>3, PopFlow, PopPushFlow

LEMMA EnterFlow ==
  ASSUME Flow, NEW kind \in {"without", "section"}, Enter(kind)
  PROVE  Flow' /\ SameHeld
<1> DEFINE allow == kind = "section" /\ Top.allow
           f == Frame(kind, "open", FALSE, allow, None)
<1>1. ~disabled /\ stack' = Append(stack, f) /\ UNCHANGED <<disabled, guard>>
  BY RunsFacts DEF Enter, flags
<1>2. kind \in Kinds /\ allow \in BOOLEAN
  BY DEF Kinds
<1>3. Empty(f)
  BY <1>2, FrameType DEF Unsafe, Empty, Handing
<1> HIDE DEF f
<1> QED
  BY <1>1, <1>3, PushFlow DEF Flow

LEMMA OneOfFour ==
  ASSUME NEW kind \in Relaxed, NEW a, NEW b, NEW c, NEW d
  PROVE  (CASE kind = "with" -> a [] kind = "restored" -> b
            [] kind = "allow" -> c [] kind = "local" -> d) \in {a, b, c, d}
BY DEF Relaxed

LEMMA AdmitFlow ==
  ASSUME Flow, NEW kind \in Relaxed, Admit(kind)
  PROVE  Flow' /\ SameHeld
<1> DEFINE o == IF kind = "with" THEN Top ELSE stack[Depth - 1]
           new == CASE kind = "with" -> <<Top.ena \/ Top.allow, Top.allow>>
                    [] kind = "restored" -> <<o.ena, Top.allow>>
                    [] kind = "allow" -> <<Top.ena, o.allow>>
                    [] kind = "local" -> <<o.allow, o.allow>>
           f == Frame(kind, "open", new[1], new[2], None)
           scope == Append(stack, f)
<1>1. /\ ~disabled /\ Top \in Frames /\ o \in Frames
      /\ UNCHANGED <<disabled, guard>>
  BY RunsFacts, TopFacts DEF Admit, flags, Flow
<1>2. new[1] \in BOOLEAN /\ new[2] \in BOOLEAN
  <2>1. /\ (Top.ena \/ Top.allow) \in BOOLEAN
        /\ Top.ena \in BOOLEAN /\ Top.allow \in BOOLEAN
        /\ o.ena \in BOOLEAN /\ o.allow \in BOOLEAN
    BY <1>1 DEF Frames
  <2>2. new \in {<<Top.ena \/ Top.allow, Top.allow>>, <<o.ena, Top.allow>>,
                 <<Top.ena, o.allow>>, <<o.allow, o.allow>>}
    BY OneOfFour, Zenon DEF Relaxed
  <2> HIDE DEF new, o
  <2> QED
    BY <2>1, <2>2
<1>3. Empty(f)
  <2>1. kind \in Kinds
    BY DEF Kinds
  <2> HIDE DEF new
  <2> QED
    BY <1>2, <2>1, FrameType DEF Unsafe, Empty, Handing
<1>4. stack' = scope \/ stack' = Append(scope, Drain(scope[Depth + 1]))
  BY Zenon DEF Admit
<1> HIDE DEF f
<1>5. scope[Depth + 1] = f
  BY <1>3 DEF Flow, WellFormed, Empty, Proper, Depth
<1>6. Empty(Drain(f))
  BY <1>3, DrainType DEF Empty, Proper, Unsafe, Handing
<1> QED
  BY <1>1, <1>3, <1>4, <1>5, <1>6, PushFlow, PushTwoFlow DEF Flow

(* Steps that move the top without a change of the flags.                  *)
LEMMA WaitFlow ==
  ASSUME Flow, StartWait \/ EndWait
  PROVE  Flow' /\ SameHeld /\ ~disabled'
<1>1. PICK at \in {"waiting", "open"}, ena \in BOOLEAN :
        /\ stack' = With([Top EXCEPT !.at = at, !.ena = ena])
        /\ at = "waiting" => Top.kind = "section"
  BY DEF StartWait, EndWait
<1>2. UNCHANGED <<disabled, guard>> /\ Top.at \in {"waiting", "open"}
  BY DEF StartWait, EndWait, flags, Runs
<1> DEFINE f == [Top EXCEPT !.at = at, !.ena = ena]
<1>3. Proper(f) /\ f.kind = Top.kind /\ f.at = at
  <2>1. Top \in Frames /\ at \in Ats /\ at \notin Draining
    BY TopFacts DEF Flow, Ats, Draining
  <2>2. f \in Frames /\ f.kind = Top.kind /\ f.at = at
    BY <2>1 DEF Frames
  <2> QED
    BY <1>1, <2>1, <2>2 DEF Proper
<1>4. ~disabled
  BY <1>2, TopFacts DEF Flow, Unsafe
<1>5. stack' = With(f)
  BY <1>1 DEF f
<1>6. \A i : Holds(Top, i) <=> Holds(f, i)
  BY <1>2, <1>3, Zenon DEF Holds, Handing
<1> HIDE DEF f
<1> QED
  BY <1>2, <1>3, <1>4, <1>5, <1>6, ReplaceFlow DEF Flow, Unsafe

LEMMA CriticalFlow ==
  ASSUME Flow, Activate \/ EnterCritical \/ PopDisable
  PROVE  Flow' /\ SameHeld /\ Top'.at \in {"critical", "locking"}
<1>1. /\ Stop("critical") \/ (Stop("locking") /\ Top.kind = "drain")
      /\ guard' = guard /\ disabled' /\ Top.at \in {"boot", "open", "test"}
  BY TopFacts DEF Activate, EnterCritical, PopDisable, flags, Flow, Unsafe, Runs, Proper, Draining
<1> QED
  BY <1>1, DisableFlow DEF Handing

(* The beginning of an inner section may be what a pending signal waits    *)
(* for: then interrupts are enabled.                                       *)
LEMMA NestedFlow ==
  ASSUME Flow, EnterNested
  PROVE  Flow' /\ SameHeld /\ (~disabled' \/ Top'.at = "nested")
<1>1. Top.at \notin Handing
  BY DEF EnterNested, Handing
<1>2. CASE guard
  <2>1. Enable("entering")
    BY <1>2 DEF EnterNested
  <2>2. Flow' /\ SameHeld
    BY <1>1, <2>1, EnableFlow DEF Ats, Unsafe, Draining, Handing
  <2> QED
    BY <2>1, <2>2 DEF Enable
<1>3. CASE ~guard
  BY <1>1, <1>3, DisableFlow DEF EnterNested
<1> QED
  BY <1>2, <1>3

LEMMA EnablingFlow ==
  ASSUME Flow, LeaveNested \/ LeaveCritical \/ PopEnable
  PROVE  Flow' /\ SameHeld /\ ~disabled'
<1>1. CASE LeaveNested \/ LeaveCritical
  <2>1. Flow' /\ SameHeld
    BY <1>1, EnableFlow DEF LeaveNested, LeaveCritical, Ats, Unsafe, Draining, Handing
  <2> QED
    BY <1>1, <2>1 DEF LeaveNested, LeaveCritical, Enable
<1>2. CASE PopEnable
  <2>1. Top.kind = "drain" /\ Top.what \in Ids
    BY <1>2, TopFacts DEF PopEnable, Flow, Proper, Draining
  <2>2. Flow' /\ SameHeld
    BY <1>2, <2>1, EnableFlow DEF PopEnable, Ats, Unsafe, Draining, Handing
  <2> QED
    BY <1>2, <2>2 DEF PopEnable, Enable
<1> QED
  BY <1>1, <1>2

LEMMA EndFlow ==
  ASSUME Flow, DrainEnd \/ Return
  PROVE  Flow' /\ SameHeld /\ ~disabled'
<1>1. stack' = Below /\ UNCHANGED <<disabled, guard>>
  BY DEF DrainEnd, Return, flags
<1>2. ~disabled /\ Depth > 1 /\ Empty(Top)
  BY TopFacts, RunsFacts DEF DrainEnd, Return, Flow, Draining, Unsafe, Empty, Handing
<1> QED
  BY <1>1, <1>2, PopFlow

LEMMA UnwindFlow ==
  ASSUME Flow, NEW k \in 1 .. Depth, Unwind(k)
  PROVE  Flow'
<1> DEFINE f == [stack[k] EXCEPT !.at = "open", !.ena = @ /\ stack[k].kind # "section"]
<1>1. /\ ~disabled /\ UNCHANGED <<disabled, guard>>
      /\ stack' = SubSeq(stack, 1, k - 1) \o <<f>>
  BY RunsFacts DEF Unwind, flags
<1>2. Proper(f) /\ f.at = "open" /\ f.kind = stack[k].kind
  <2>1. stack[k] \in Frames /\ "open" \in Ats /\ "open" \notin Draining
    BY DEF Flow, WellFormed, Depth, Ats, Draining
  <2>2. (stack[k].ena /\ stack[k].kind # "section") \in BOOLEAN
    OBVIOUS
  <2>3. f \in Frames /\ f.at = "open" /\ f.kind = stack[k].kind
    BY <2>1, <2>2 DEF Frames
  <2> QED
    BY <2>1, <2>3 DEF Proper
<1> HIDE DEF f
<1>3. WellFormed(stack') /\ Last(stack') = f
  BY <1>1, <1>2, StackCut DEF Flow, Depth
<1> QED
  BY <1>1, <1>2, <1>3 DEF Flow, Unsafe

LEMMA FlowStep ==
  ASSUME Flow, pending \in Seq(Ids), Next
  PROVE  Flow'
<1>1. ASSUME NEW i \in Functions, Queue(i) \/ Kill(i)
      PROVE  Flow'
  <2>1. UNCHANGED <<stack, disabled, guard>>
    BY <1>1 DEF Queue, Kill, flags
  <2> QED
    BY <2>1 DEF Flow
<1>2. CASE Going
  BY <1>2, EnablingFlow, EndFlow, NestedFlow, CriticalFlow, PopLoadFlow, PopStoreFlow,
     PopRecycleFlow, RunFlow DEF Going
<1>3. CASE Closing
  BY <1>3, LeaveFlow, EndFlow DEF Closing
<1> QED
  BY <1>1, <1>2, <1>3, LockFlow, DeliverFlow, AsyncFlow, AsyncStopsFlow, CriticalFlow,
     NestedFlow, EnterFlow, AdmitFlow, WaitFlow, UnwindFlow DEF Next

-----------------------------------------------------------------------------
(* The types of what is left                                               *)

Flags ==
  /\ locked \in BOOLEAN /\ disabled \in BOOLEAN /\ guard \in BOOLEAN
  /\ active \in BOOLEAN /\ signalled \in BOOLEAN
  /\ reentered \in BOOLEAN /\ unwound \in BOOLEAN

Others ==
  /\ caller \in [Functions -> {"new", "locked", "queued", "done"}]
  /\ started \in [Ids -> Nat]
  /\ dropped \subseteq Signals /\ missed \subseteq Functions

LEMMA FlagsStep ==
  ASSUME Flags, Next
  PROVE  Flags'
<1>1. ASSUME NEW i \in Functions, Lock(i) \/ Queue(i) \/ Kill(i)
      PROVE  Flags'
  BY <1>1, Zenon DEF Lock, Queue, Kill, flags, queue, history, Flags
<1>2. CASE Deliver
  BY <1>2, Zenon DEF Deliver, queue, history, Flags
<1>3. ASSUME NEW a \in Signals, Async(a)
      PROVE  Flags'
  BY <1>3, Zenon DEF Async, QueueOwn, queue, outside, Flags
<1>4. ASSUME NEW a \in Signals, AsyncKills(a) \/ AsyncTears(a)
      PROVE  Flags'
  BY <1>4, Zenon DEF AsyncKills, AsyncTears, queue, flags, outside, history, Flags
<1>5. CASE LeaveNested \/ LeaveCritical \/ PopEnable \/ EnterNested
  BY <1>5, Zenon DEF LeaveNested, LeaveCritical, PopEnable, EnterNested, Enable, queue, outside,
                     history, Flags
<1>6. CASE DrainEnd \/ PopDisable \/ PopLoad \/ PopStore \/ PopRecycle \/ Run
  BY <1>6, Zenon DEF DrainEnd, PopDisable, PopLoad, PopStore, PopRecycle, Run,
                     queue, flags, outside, history, Flags
<1>7. CASE Closing \/ Activate \/ EnterCritical \/ StartWait \/ EndWait
  BY <1>7, Zenon DEF Closing, Leave, Return, Activate, EnterCritical, StartWait, EndWait,
                     queue, flags, outside, history, Flags
<1>8. ASSUME NEW kind, Enter(kind) \/ Admit(kind)
      PROVE  Flags'
  BY <1>8, Zenon DEF Enter, Admit, queue, flags, outside, history, Flags
<1>9. ASSUME NEW k, Unwind(k)
      PROVE  Flags'
  BY <1>9, Zenon DEF Unwind, queue, flags, outside, Flags
<1>10. CASE Going
  BY <1>5, <1>6, <1>10 DEF Going
<1> QED
  BY <1>1, <1>2, <1>3, <1>4, <1>5, <1>7, <1>8, <1>9, <1>10 DEF Next

LEMMA OthersStep ==
  ASSUME Flow, Others, Next
  PROVE  Others'
<1>1. ASSUME NEW i \in Functions, Lock(i) \/ Queue(i) \/ Kill(i)
      PROVE  Others'
  BY <1>1 DEF Lock, Queue, Kill, history, Others
<1>2. ASSUME NEW a \in Signals, Async(a)
      PROVE  Others'
  <2>1. caller' = caller /\ missed' = missed
    BY <1>2 DEF Async, outside
  <2>2. CASE Top.ena /\ ~disabled
    BY <1>2, <2>1, <2>2 DEF Async, Others, Ids
  <2>3. CASE ~(Top.ena /\ ~disabled)
    BY <1>2, <2>1, <2>3 DEF Async, QueueOwn, Others
  <2> QED
    BY <2>2, <2>3
<1>3. CASE Run
  <2>1. Top.what \in Ids
    BY <1>3, TopFacts DEF Run, Flow, Proper, Draining
  <2> QED
    BY <1>3, <2>1 DEF Run, outside, Others
<1>4. ASSUME UNCHANGED <<caller, started, dropped, missed>>
      PROVE  Others'
  BY <1>4 DEF Others
<1>5. ASSUME NEW a \in Signals, AsyncKills(a) \/ AsyncTears(a)
      PROVE  UNCHANGED <<caller, started, dropped, missed>>
  BY <1>5 DEF AsyncKills, AsyncTears, outside, history
<1>6. ASSUME \/ Deliver \/ LeaveNested \/ LeaveCritical \/ EnterNested \/ PopEnable \/ DrainEnd
             \/ PopDisable \/ PopLoad \/ PopStore \/ PopRecycle
             \/ Closing \/ Activate \/ EnterCritical \/ StartWait \/ EndWait
      PROVE  UNCHANGED <<caller, started, dropped, missed>>
  BY <1>6 DEF Deliver, LeaveNested, LeaveCritical, EnterNested, PopEnable, DrainEnd, PopDisable,
              PopLoad, PopStore, PopRecycle, Closing, Leave, Return, Activate, EnterCritical,
              StartWait, EndWait, outside, history
<1>7. ASSUME NEW kind, Enter(kind) \/ Admit(kind) \/ Unwind(kind)
      PROVE  UNCHANGED <<caller, started, dropped, missed>>
  BY <1>7 DEF Enter, Admit, Unwind, outside, history
<1> QED
  BY <1>1, <1>2, <1>3, <1>4, <1>5, <1>6, <1>7 DEF Next, Going

-----------------------------------------------------------------------------
(* The invariant                                                           *)

(* The conses of queued signals are not spare, nor is one that pop_signal  *)
(* is about to put back.                                                   *)
Linked == IF Top.at = "linked" THEN 1 ELSE 0
Reserve ==
  spare \in Nat /\ spare + Cardinality(Occurring(pending, Signals)) + Linked <= Spares

(* No caller has the lock while the thread is inside pop_signal.           *)
Alone == InPop => ~Held

(* The record that pop_signal has loaded is the first of the queue ...     *)
Loaded == Top.at = "loaded" => pending # <<>> /\ Head(pending) = Top.what

(* ... and if it was the last one it still is, until a signal breaks the   *)
(* lock.                                                                   *)
Guarded == Top.at = "loaded" => locked = TRUE /\ (Top.last = TRUE => Len(pending) = 1)

Number(i) ==
  started[i] + Cardinality(Occurring(pending, {i})) + Cardinality(Holding(stack, i))
Once ==
  /\ \A i \in Functions : Number(i) = IF caller[i] \in {"new", "locked"} THEN 0 ELSE 1
  /\ \A a \in Signals : Number(a) <= 1

IInv ==
  /\ Flow /\ pending \in Seq(Ids) /\ Flags /\ Others
  /\ Reserve /\ Loaded /\ Alone
  /\ ~unwound /\ ~reentered /\ ~Dead => Guarded /\ Once

LEMMA Initial == Init => IInv
<1> SUFFICES ASSUME Init
             PROVE  IInv
  OBVIOUS
<1> DEFINE f == Frame("program", "boot", TRUE, TRUE, None)
<1>1. f \in Frames /\ f.kind = "program" /\ f.at = "boot"
  BY DEF Frame, Frames, Kinds, Ats
<1>2. stack = <<f>>
  BY DEF Init
<1> HIDE DEF f
<1>3. WellFormed(stack) /\ Last(stack) = f /\ Top = f
  BY <1>1, <1>2 DEF WellFormed, Last, Proper, Draining, Top, Depth
<1>4. Flow
  BY <1>1, <1>3 DEF Init, Flow, Unsafe
<1>5. pending = <<>> /\ pending \in Seq(Ids)
  BY DEF Init
<1>6. Flags
  BY Zenon DEF Init, Flags
<1>7. Others
  BY DEF Init, Others
<1>8. \A S : Cardinality(Occurring(pending, S)) = 0
  <2>1. \A S : Occurring(pending, S) = {}
    BY <1>5 DEF Occurring
  <2> QED
    BY <2>1, FS_EmptySet, Zenon
<1>9. \A i : Cardinality(Holding(stack, i)) = 0
  <2>1. \A i : Holding(stack, i) = {}
    BY <1>1, <1>2 DEF Holding, Holds, Handing
  <2> QED
    BY <2>1, FS_EmptySet, Zenon
<1>10. Reserve
  BY <1>1, <1>3, <1>8 DEF Init, Reserve, Linked
<1>11. Loaded /\ Guarded /\ Alone
  BY <1>1, <1>3 DEF Loaded, Guarded, Alone, InPop
<1>12. Once
  <2>0. \A i \in Ids : started[i] = 0
    BY DEF Init
  <2>1. \A i \in Ids : Number(i) = 0
    BY <1>8, <1>9, <2>0 DEF Number
  <2> QED
    BY <2>1 DEF Init, Once, Ids
<1> QED
  BY <1>4, <1>5, <1>6, <1>7, <1>10, <1>11, <1>12 DEF IInv

-----------------------------------------------------------------------------
(* Most steps neither take an interrupt nor hand one on.                   *)
Calm ==
  \/ Deliver \/ LeaveNested \/ LeaveCritical \/ PopEnable \/ DrainEnd \/ Closing
  \/ Activate \/ EnterCritical \/ EnterNested \/ PopDisable \/ StartWait \/ EndWait
  \/ \E kind \in {"without", "section"} : Enter(kind)
  \/ \E kind \in Relaxed : Admit(kind)

LEMMA NotInPop ==
  ASSUME Flow', ~disabled'
  PROVE  Top'.at \notin Unsafe /\ ~InPop'
BY DEF Flow, Last, Top, Depth, Unsafe, InPop

LEMMA CalmStep ==
  ASSUME Flow, Calm
  PROVE  /\ SameHeld
         /\ UNCHANGED <<pending, spare, locked, started, caller, reentered, unwound>>
         /\ Top' = Top \/ ~InPop'
         /\ ~Dead
<1>1. CASE Deliver
  <2>1. /\ UNCHANGED <<pending, spare, locked, started, caller, reentered, unwound>>
        /\ ~Dead
    BY <1>1 DEF Deliver, queue, history
  <2>2. disabled => Top' = Top
    BY <1>1, DeliverFlow, StackStays
  <2>3. ~disabled => ~InPop'
    BY <1>1, DeliverFlow, NotInPop
  <2> QED
    BY <1>1, <2>1, <2>2, <2>3, DeliverFlow
<1>2. CASE LeaveNested \/ LeaveCritical \/ PopEnable
  <2>1. /\ UNCHANGED <<pending, spare, locked, started, caller, reentered, unwound>>
        /\ ~Dead
    BY <1>2 DEF LeaveNested, LeaveCritical, PopEnable, queue, outside, history, Dead
  <2> QED
    BY <1>2, <2>1, EnablingFlow, NotInPop
<1>3. CASE DrainEnd \/ Return
  <2>1. /\ UNCHANGED <<pending, spare, locked, started, caller, reentered, unwound>>
        /\ ~Dead
    BY <1>3 DEF DrainEnd, Return, queue, outside, history, Dead, Runs
  <2> QED
    BY <1>3, <2>1, EndFlow, NotInPop
<1>4. CASE Leave
  <2>1. /\ UNCHANGED <<pending, spare, locked, started, caller, reentered, unwound>>
        /\ ~Dead /\ Runs /\ disabled' = disabled
    BY <1>4 DEF Leave, queue, flags, outside, history, Dead, Runs
  <2> QED
    BY <1>4, <2>1, LeaveFlow, RunsFacts, NotInPop
<1>5. CASE Activate \/ EnterCritical \/ PopDisable
  <2>1. /\ UNCHANGED <<pending, spare, locked, started, caller, reentered, unwound>>
        /\ ~Dead
    BY <1>5 DEF Activate, EnterCritical, PopDisable, queue, outside, history, Dead, Runs
  <2> QED
    BY <1>5, <2>1, CriticalFlow DEF InPop
<1>6. CASE StartWait \/ EndWait
  <2>1. /\ UNCHANGED <<pending, spare, locked, started, caller, reentered, unwound>>
        /\ ~Dead
    BY <1>6 DEF StartWait, EndWait, queue, outside, history, Dead, Runs
  <2> QED
    BY <1>6, <2>1, WaitFlow, NotInPop
<1>7. ASSUME NEW kind \in {"without", "section"}, Enter(kind)
      PROVE  /\ SameHeld /\ ~InPop' /\ ~Dead
             /\ UNCHANGED <<pending, spare, locked, started, caller, reentered, unwound>>
  <2>1. /\ UNCHANGED <<pending, spare, locked, started, caller, reentered, unwound>>
        /\ ~Dead /\ Runs /\ disabled' = disabled
    BY <1>7 DEF Enter, queue, flags, outside, history, Dead, Runs
  <2> QED
    BY <1>7, <2>1, EnterFlow, RunsFacts, NotInPop
<1>8. ASSUME NEW kind \in Relaxed, Admit(kind)
      PROVE  /\ SameHeld /\ ~InPop' /\ ~Dead
             /\ UNCHANGED <<pending, spare, locked, started, caller, reentered, unwound>>
  <2>1. /\ UNCHANGED <<pending, spare, locked, started, caller, reentered, unwound>>
        /\ ~Dead /\ Runs /\ disabled' = disabled
    BY <1>8 DEF Admit, queue, flags, outside, history, Dead, Runs
  <2> QED
    BY <1>8, <2>1, AdmitFlow, RunsFacts, NotInPop
<1>9. CASE EnterNested
  <2>1. /\ UNCHANGED <<pending, spare, locked, started, caller, reentered, unwound>>
        /\ ~Dead
    BY <1>9 DEF EnterNested, queue, outside, history, Dead
  <2> QED
    BY <1>9, <2>1, NestedFlow, NotInPop DEF InPop
<1> QED
  BY <1>1, <1>2, <1>3, <1>4, <1>5, <1>6, <1>7, <1>8, <1>9 DEF Calm, Closing

LEMMA StepKinds ==
  ASSUME Next
  PROVE  \/ \E i \in Functions : Lock(i) \/ Queue(i) \/ Kill(i)
         \/ \E a \in Signals : Async(a) \/ AsyncKills(a) \/ AsyncTears(a)
         \/ Calm \/ PopLoad \/ PopStore \/ PopRecycle \/ Run
         \/ \E k \in 1 .. Depth : Unwind(k)
BY DEF Next, Going, Calm

(* The queue, the reserve and what pop_signal has loaded                   *)
LEMMA QueueStep ==
  ASSUME IInv, Next
  PROVE  pending' \in Seq(Ids) /\ Reserve' /\ Loaded' /\ Alone'
<1>0. Flow /\ pending \in Seq(Ids) /\ Reserve /\ Loaded /\ Alone /\ Others
  BY DEF IInv
<1>1. \A S : Cardinality(Occurring(pending, S)) \in Nat
  BY <1>0, OccurringFinite
<1>2. Linked \in {0, 1} /\ Linked' \in {0, 1} /\ (Top' = Top => Linked' = Linked)
      /\ (~InPop' => Linked' = 0 /\ Loaded' /\ Alone')
  BY DEF Linked, InPop, Loaded, Alone
<1>3. ASSUME UNCHANGED <<pending, spare>>, (Top' = Top /\ (Held' => Held)) \/ ~InPop'
      PROVE  pending' \in Seq(Ids) /\ Reserve' /\ Loaded' /\ Alone'
  <2>1. Reserve'
    BY <1>0, <1>1, <1>2, <1>3 DEF Reserve
  <2> QED
    BY <1>0, <1>2, <1>3, <2>1 DEF Loaded, Alone, InPop
<1>4. ASSUME NEW i \in Functions, Lock(i)
      PROVE  pending' \in Seq(Ids) /\ Reserve' /\ Loaded' /\ Alone'
  <2>1. UNCHANGED <<pending, spare>>
    BY <1>4 DEF Lock, queue
  <2>2. ~InPop'
    BY <1>0, <1>4, LockFlow, StackStays DEF InPop
  <2> QED
    BY <1>3, <2>1, <2>2
<1>5. ASSUME NEW i \in Functions, Queue(i)
      PROVE  pending' \in Seq(Ids) /\ Reserve' /\ Loaded' /\ Alone'
  <2>1. /\ i \in Ids /\ i \notin Signals /\ pending' = Append(pending, i)
        /\ spare' = spare /\ stack' = stack /\ Held
    BY <1>5 DEF Queue, Ids, Held
  <2>2. Top' = Top /\ ~InPop /\ ~InPop'
    BY <1>0, <2>1, StackStays DEF Alone, InPop
  <2>3. Reserve'
    BY <1>0, <1>1, <1>2, <2>1, <2>2, OccurringAppend DEF Reserve
  <2> QED
    BY <1>0, <1>2, <2>1, <2>2, <2>3
<1>6. ASSUME NEW i \in Functions, Kill(i)
      PROVE  pending' \in Seq(Ids) /\ Reserve' /\ Loaded' /\ Alone'
  <2>1. UNCHANGED <<pending, spare, stack>> /\ caller' = [caller EXCEPT ![i] = "done"]
    BY <1>6 DEF Kill, queue
  <2>2. Held' => Held
    BY <1>0, <2>1 DEF Held, Others
  <2> QED
    BY <1>3, <2>1, <2>2, StackStays
<1>7. ASSUME NEW a \in Signals, Async(a)
      PROVE  pending' \in Seq(Ids) /\ Reserve' /\ Loaded' /\ Alone'
  <2>0. Held' <=> Held
    BY <1>7 DEF Async, outside, Held
  <2>1. CASE Top.ena /\ ~disabled
    <3>1. UNCHANGED <<pending, spare>> /\ ~disabled'
      BY <1>7, <2>1 DEF Async, queue
    <3> QED
      BY <1>0, <1>3, <1>7, <3>1, AsyncFlow, NotInPop
  <2>2. CASE ~(Top.ena /\ ~disabled) /\ spare = 0
    <3>1. UNCHANGED <<pending, spare>> /\ stack' = stack
      BY <1>7, <2>2 DEF Async, QueueOwn
    <3> QED
      BY <1>3, <2>0, <3>1, StackStays
  <2>3. CASE ~(Top.ena /\ ~disabled) /\ spare # 0
    <3>1. /\ a \in Ids /\ pending' = Append(pending, a) /\ spare' = spare - 1
          /\ stack' = stack
      BY <1>7, <2>3 DEF Async, QueueOwn, Ids
    <3>2. Top' = Top /\ Linked' = Linked
      BY <1>2, <3>1, StackStays
    <3>3. Reserve'
      BY <1>0, <1>1, <1>2, <2>3, <3>1, <3>2, OccurringAppend DEF Reserve
    <3>4. Loaded' /\ Alone'
      BY <1>0, <2>0, <3>1, <3>2 DEF Loaded, Alone, InPop
    <3> QED
      BY <1>0, <3>1, <3>3, <3>4
  <2> QED
    BY <2>1, <2>2, <2>3
<1>8. ASSUME NEW a \in Signals, AsyncKills(a) \/ AsyncTears(a)
      PROVE  pending' \in Seq(Ids) /\ Reserve' /\ Loaded' /\ Alone'
  <2>1. UNCHANGED <<pending, spare>>
    BY <1>8 DEF AsyncKills, AsyncTears, queue
  <2>2. ~InPop'
    BY <1>0, <1>8, AsyncStopsFlow DEF InPop
  <2> QED
    BY <1>3, <2>1, <2>2
<1>9. CASE Calm
  <2>1. Held' <=> Held
    BY <1>0, <1>9, CalmStep DEF Held
  <2> QED
    BY <1>0, <1>3, <1>9, <2>1, CalmStep
<1>10. CASE PopLoad
  <2>1. /\ Top'.what = Head(pending) /\ Top'.at = "loaded"
        /\ pending # <<>> /\ UNCHANGED <<pending, spare, caller>> /\ ~Held
    BY <1>0, <1>10, PopLoadFlow DEF PopLoad, outside
  <2>2. Linked' = 0
    BY <2>1 DEF Linked
  <2>3. Reserve'
    BY <1>0, <1>1, <1>2, <2>1, <2>2 DEF Reserve
  <2> QED
    BY <1>0, <2>1, <2>3 DEF Loaded, Alone, Held
<1>11. CASE PopStore
  <2>1. /\ Top.at = "loaded" /\ pending # <<>> /\ Head(pending) = Top.what
        /\ pending' = <<>> \/ pending' = Tail(pending)
        /\ spare' = spare /\ caller' = caller
        /\ Top'.at = IF Top.what \in Signals THEN "linked" ELSE "stored"
    BY <1>0, <1>11, PopStoreFlow DEF PopStore, Rest, Recycle, Loaded, outside
  <2>2. Tail(pending) \in Seq(Ids) /\ <<>> \in Seq(Ids)
    <3>1. pending \in Seq(Ids) /\ pending # <<>>
      BY <1>0, <2>1
    <3> QED
      BY ONLY <3>1
  <2>3. Cardinality(Occurring(Tail(pending), Signals)) \in Nat
    BY <2>2, OccurringFinite
  <2>4. Cardinality(Occurring(Tail(pending), Signals))
          = Cardinality(Occurring(pending, Signals)) - IF Top.what \in Signals THEN 1 ELSE 0
    BY <1>0, <2>1, OccurringTail
  <2>5. Cardinality(Occurring(<<>>, Signals)) = 0
    <3>1. Occurring(<<>>, Signals) = {}
      BY DEF Occurring
    <3> QED
      BY <3>1, FS_EmptySet
  <2>6. Linked = 0 /\ Linked' = IF Top.what \in Signals THEN 1 ELSE 0
    BY <2>1 DEF Linked
  <2>7. spare' + Cardinality(Occurring(Tail(pending), Signals)) + Linked' <= Spares
    BY <1>0, <1>1, <2>1, <2>3, <2>4, <2>6 DEF Reserve
  <2>8. Reserve'
    <3>0. spare' \in Nat
      BY <1>0, <2>1 DEF Reserve
    <3>1. CASE pending' = Tail(pending)
      BY <2>7, <3>0, <3>1 DEF Reserve
    <3>2. CASE pending' = <<>>
      BY <1>2, <2>3, <2>5, <2>7, <3>0, <3>2 DEF Reserve
    <3> QED
      BY <2>1, <3>1, <3>2
  <2>9. Loaded' /\ Alone'
    BY <1>0, <2>1 DEF Loaded, Alone, InPop, Held
  <2> QED
    BY <2>1, <2>2, <2>8, <2>9
<1>12. CASE PopRecycle
  <2>1. pending' = pending /\ spare' = spare + 1 /\ Top.at = "linked" /\ Top'.at = "stored"
    BY <1>0, <1>12, PopRecycleFlow DEF PopRecycle
  <2>2. Linked = 1 /\ Linked' = 0 /\ ~InPop'
    BY <2>1 DEF Linked, InPop
  <2>3. Reserve'
    BY <1>0, <1>1, <2>1, <2>2 DEF Reserve
  <2> QED
    BY <1>0, <1>2, <2>1, <2>2, <2>3
<1>13. CASE Run
  BY <1>0, <1>3, <1>13, RunFlow, NotInPop DEF Run, queue
<1>14. ASSUME NEW k \in 1 .. Depth, Unwind(k)
       PROVE  pending' \in Seq(Ids) /\ Reserve' /\ Loaded' /\ Alone'
  <2>1. UNCHANGED <<pending, spare>> /\ disabled' = disabled /\ Runs
    BY <1>14 DEF Unwind, queue, flags
  <2> QED
    BY <1>0, <1>3, <1>14, <2>1, UnwindFlow, RunsFacts, NotInPop
<1> QED
  BY <1>4, <1>5, <1>6, <1>7, <1>8, <1>9, <1>10, <1>11, <1>12, <1>13, <1>14, StepKinds

-----------------------------------------------------------------------------
(* Each interrupt once                                                     *)

LEMMA NewIsNone ==
  ASSUME NEW a \in Signals, New(a)
  PROVE  Number(a) = 0
<1>1. Occurring(pending, {a}) = {} /\ Holding(stack, a) = {}
  BY DEF New, Occurring, Holding, Holds, Depth
<1>2. Cardinality(Occurring(pending, {a})) = 0 /\ Cardinality(Holding(stack, a)) = 0
  BY <1>1, FS_EmptySet, Zenon
<1>3. started[a] = 0
  BY DEF New
<1> QED
  BY <1>2, <1>3 DEF Number

LEMMA OnceStays ==
  ASSUME Once, caller' = caller, \A i \in Ids : Number(i)' = Number(i)
  PROVE  Once'
BY DEF Once, Ids

LEMMA ExactStep ==
  ASSUME IInv, Next, ~unwound', ~reentered', ~Dead'
  PROVE  Guarded' /\ Once'
<1>0. Flow /\ pending \in Seq(Ids) /\ Flags /\ Others /\ Loaded /\ Alone
  BY DEF IInv
<1>1. ASSUME ~unwound, ~reentered, ~Dead
      PROVE  Guarded /\ Once
  BY <1>1 DEF IInv
<1>2. ASSUME NEW i \in Ids
      PROVE  /\ started[i] \in Nat /\ Cardinality(Occurring(pending, {i})) \in Nat
             /\ Cardinality(Holding(stack, i)) \in Nat /\ Number(i) \in Nat
  <2>1. /\ started[i] \in Nat /\ Cardinality(Occurring(pending, {i})) \in Nat
        /\ Cardinality(Holding(stack, i)) \in Nat
    BY <1>0, OccurringFinite, HoldingFinite DEF Others, Flow
  <2> QED
    BY <2>1 DEF Number
<1>12. ASSUME NEW i \in Functions, Lock(i)
       PROVE  Guarded' /\ Once'
  <2>1. /\ UNCHANGED <<pending, started, unwound, reentered>> /\ ~Dead
        /\ caller[i] = "new" /\ caller' = [caller EXCEPT ![i] = "locked"]
    BY <1>12 DEF Lock, queue, history
  <2>2. Guarded /\ Once
    BY <1>1, <1>12, <2>1 DEF Lock, history
  <2>3. stack' = stack /\ ~InPop
    BY <1>0, <1>12, LockFlow
  <2>4. \A j \in Ids : Number(j)' = Number(j)
    BY <2>1, <2>3 DEF Number
  <2>5. Once'
    BY <1>0, <2>1, <2>2, <2>4 DEF Once, Others, Ids
  <2> QED
    BY <2>3, <2>5, StackStays DEF Guarded, InPop
<1>3. ASSUME NEW i \in Functions, Queue(i)
      PROVE  Guarded' /\ Once'
  <2>1. /\ i \in Ids /\ pending' = Append(pending, i) /\ stack' = stack /\ started' = started
        /\ caller[i] = "locked" /\ caller' = [caller EXCEPT ![i] = "queued"]
        /\ ~Dead
    BY <1>3 DEF Queue, history, Ids
  <2>2. Guarded /\ Once
    BY <1>1, <1>3, <2>1 DEF Queue, history
  <2>3. Guarded'
    BY <1>0, <2>1, StackStays DEF Guarded, Alone, Held, InPop
  <2>4. ASSUME NEW j \in Ids
        PROVE  Number(j)' = Number(j) + IF j = i THEN 1 ELSE 0
    BY <1>0, <1>2, <2>1, OccurringAppend DEF Number
  <2>5. ASSUME NEW j \in Functions
        PROVE  Number(j)' = IF caller'[j] \in {"new", "locked"} THEN 0 ELSE 1
    <3>1. j \in Ids /\ caller'[j] = IF j = i THEN "queued" ELSE caller[j]
      BY <1>0, <2>1 DEF Others, Ids
    <3>2. Number(j) = IF caller[j] \in {"new", "locked"} THEN 0 ELSE 1
      BY <2>2 DEF Once
    <3> QED
      BY <2>1, <2>4, <3>1, <3>2
  <2>6. ASSUME NEW j \in Signals
        PROVE  Number(j)' <= 1
    <3>1. j \in Ids /\ j # i /\ Number(j) <= 1
      BY <2>2 DEF Once, Ids
    <3>2. Number(j) \in Nat
      BY <1>2, <3>1
    <3>3. Number(j)' = Number(j) + 0
      BY <2>4, <3>1
    <3> QED
      BY <3>1, <3>2, <3>3
  <2> QED
    BY <2>3, <2>5, <2>6 DEF Once
<1>4. ASSUME NEW i \in Functions, Kill(i)
      PROVE  Guarded' /\ Once'
  <2>1. /\ UNCHANGED <<pending, locked, stack, started>> /\ ~Dead
        /\ caller[i] = "queued" /\ caller' = [caller EXCEPT ![i] = "done"]
    BY <1>4 DEF Kill, queue
  <2>2. Guarded /\ Once
    BY <1>1, <1>4, <2>1 DEF Kill
  <2>3. \A j \in Ids : Number(j)' = Number(j)
    BY <2>1 DEF Number
  <2>4. Once'
    BY <1>0, <2>1, <2>2, <2>3 DEF Once, Others, Ids
  <2> QED
    BY <2>1, <2>2, <2>4, StackStays DEF Guarded
<1>5. ASSUME NEW a \in Signals, Async(a)
      PROVE  Guarded' /\ Once'
  <2>1. a \in Ids /\ caller' = caller /\ New(a) /\ ~Dead /\ ~unwound
    BY <1>5 DEF Async, outside, Dead, Ids
  <2>2. CASE Top.ena /\ ~disabled
    <3>1. /\ started' = [started EXCEPT ![a] = @ + 1] /\ pending' = pending
          /\ ~disabled' /\ ~reentered
      BY <1>5, <2>2 DEF Async, queue
    <3>2. Guarded /\ Once
      BY <1>1, <2>1, <3>1
    <3>3. Flow' /\ SameHeld
      BY <1>0, <1>5, AsyncFlow
    <3>4. ASSUME NEW j \in Ids
          PROVE  Number(j)' = Number(j) + IF j = a THEN 1 ELSE 0
      BY <1>0, <1>2, <2>1, <3>1, <3>3 DEF Number, SameHeld, Others
    <3>5. Once'
      <4>1. Number(a)' <= 1
        BY <2>1, <3>4, NewIsNone
      <4>2. ASSUME NEW j \in Ids \ {a}
            PROVE  Number(j)' = Number(j)
        <5>1. Number(j) \in Nat
          BY <1>2
        <5>2. Number(j)' = Number(j) + 0
          BY <3>4
        <5> QED
          BY <5>1, <5>2
      <4> QED
        BY <2>1, <3>2, <4>1, <4>2 DEF Once, Ids
    <3> QED
      BY <3>1, <3>3, <3>5, NotInPop DEF Guarded, InPop
  <2>3. CASE ~(Top.ena /\ ~disabled)
    <3>1. /\ started' = started /\ stack' = stack
          /\ pending' = pending \/ pending' = Append(pending, a)
          /\ ~reentered /\ Top.at # "loaded"
      BY <1>5, <2>3 DEF Async, QueueOwn
    <3>2. Guarded /\ Once
      BY <1>1, <2>1, <3>1
    <3>3. ASSUME NEW j \in Ids
          PROVE  Number(j)' \in {Number(j), Number(j) + IF j = a THEN 1 ELSE 0}
      <4>1. CASE pending' = pending
        BY <3>1, <4>1 DEF Number
      <4>2. CASE pending' = Append(pending, a)
        BY <1>0, <1>2, <2>1, <3>1, <4>2, OccurringAppend DEF Number
      <4> QED
        BY <3>1, <4>1, <4>2
    <3>4. Once'
      <4>1. Number(a)' <= 1
        BY <2>1, <3>3, NewIsNone
      <4>2. ASSUME NEW j \in Ids \ {a}
            PROVE  Number(j)' = Number(j)
        <5>1. Number(j) \in Nat
          BY <1>2
        <5>2. Number(j)' \in {Number(j), Number(j) + 0}
          BY <3>3
        <5> QED
          BY <5>1, <5>2
      <4> QED
        BY <2>1, <3>2, <4>1, <4>2 DEF Once, Ids
    <3> QED
      BY <3>1, <3>4, StackStays DEF Guarded
  <2> QED
    BY <2>2, <2>3
<1>6. ASSUME NEW a \in Signals, AsyncKills(a) \/ AsyncTears(a)
      PROVE  FALSE
  BY <1>0, <1>6, AsyncStopsFlow
<1>7. CASE Calm
  <2>1. Guarded /\ Once
    BY <1>0, <1>1, <1>7, CalmStep
  <2>2. \A i \in Ids : Number(i)' = Number(i)
    BY <1>0, <1>7, CalmStep DEF Number, SameHeld
  <2>3. Once'
    BY <1>0, <1>7, <2>1, <2>2, CalmStep, OnceStays
  <2> QED
    BY <1>0, <1>7, <2>1, <2>3, CalmStep DEF Guarded, InPop
<1>8. CASE PopLoad
  <2>1. /\ UNCHANGED <<pending, started, caller, unwound, reentered>> /\ ~Dead
        /\ locked' = TRUE
    BY <1>8 DEF PopLoad, outside, history, Dead
  <2>2. Guarded /\ Once
    BY <1>1, <2>1
  <2>3. SameHeld /\ (Top'.last = TRUE => Len(pending) = 1)
    BY <1>0, <1>8, PopLoadFlow
  <2>4. \A i \in Ids : Number(i)' = Number(i)
    BY <2>1, <2>3 DEF Number, SameHeld
  <2> QED
    BY <2>1, <2>2, <2>3, <2>4, OnceStays DEF Guarded
<1>9. CASE PopStore
  <2>1. /\ UNCHANGED <<started, caller, unwound, reentered>> /\ ~Dead
        /\ Top.at = "loaded" /\ pending' = Rest
    BY <1>9 DEF PopStore, outside, history, Dead
  <2>2. Guarded /\ Once
    BY <1>1, <2>1
  <2>3. pending # <<>> /\ Head(pending) = Top.what
    BY <1>0, <2>1 DEF Loaded
  <2>4. pending' = Tail(pending)
    <3>1. CASE Top.last = TRUE
      <4>1. Len(pending) = 1
        BY <2>1, <2>2, <3>1 DEF Guarded
      <4>2. Tail(pending) = <<>>
        <5>1. Tail(pending) \in Seq(Ids) /\ Len(Tail(pending)) = 0
          BY <1>0, <2>3, <4>1, HeadTailProperties
        <5> QED
          BY <5>1, EmptySeq
      <4> QED
        BY <2>1, <3>1, <4>2 DEF Rest
    <3>2. CASE Top.last = FALSE
      BY <2>1, <3>2 DEF Rest
    <3>3. Top.last \in BOOLEAN
      BY <1>0, TopFacts DEF Flow, Frames
    <3> QED
      BY <3>1, <3>2, <3>3, Zenon
  <2>5. Top'.at # "loaded" /\ \A i \in Ids : Number(i)' = Number(i)
    <3>1. /\ Top'.at # "loaded"
          /\ \A i : Cardinality(Holding(stack', i)) =
                      Cardinality(Holding(stack, i)) + (IF i = Top.what THEN 1 ELSE 0)
      BY <1>0, <1>9, PopStoreFlow
    <3>2. ASSUME NEW i \in Ids
          PROVE  Number(i)' = Number(i)
      <4>1. Cardinality(Occurring(pending', {i}))
              = Cardinality(Occurring(pending, {i})) - IF Top.what = i THEN 1 ELSE 0
        BY <1>0, <2>3, <2>4, OccurringTail
      <4> QED
        BY <1>2, <2>1, <3>1, <4>1 DEF Number
    <3> QED
      BY <3>1, <3>2
  <2> QED
    BY <2>1, <2>2, <2>5, OnceStays DEF Guarded
<1>13. CASE PopRecycle
  <2>1. /\ UNCHANGED <<pending, started, caller, unwound, reentered>> /\ ~Dead
    BY <1>13 DEF PopRecycle, outside, history, Dead
  <2>2. Guarded /\ Once
    BY <1>1, <2>1
  <2>3. SameHeld /\ Top'.at = "stored"
    BY <1>0, <1>13, PopRecycleFlow
  <2>4. \A i \in Ids : Number(i)' = Number(i)
    BY <2>1, <2>3 DEF Number, SameHeld
  <2> QED
    BY <2>1, <2>2, <2>3, <2>4, OnceStays DEF Guarded
<1>10. CASE Run
  <2>1. /\ UNCHANGED <<pending, caller, unwound, reentered>> /\ ~Dead
        /\ started' = [started EXCEPT ![Top.what] = @ + 1]
    BY <1>10 DEF Run, queue, outside, Dead
  <2>2. Guarded /\ Once
    BY <1>1, <2>1
  <2>3. /\ Flow' /\ ~disabled'
        /\ \A i : Cardinality(Holding(stack', i)) =
                    Cardinality(Holding(stack, i)) - (IF i = Top.what THEN 1 ELSE 0)
    BY <1>0, <1>10, RunFlow
  <2>4. ASSUME NEW i \in Ids
        PROVE  Number(i)' = Number(i)
    <3>1. started'[i] = started[i] + IF i = Top.what THEN 1 ELSE 0
      BY <1>0, <1>2, <2>1 DEF Others
    <3> QED
      BY <1>2, <2>1, <2>3, <3>1 DEF Number
  <2> QED
    BY <2>1, <2>2, <2>3, <2>4, OnceStays, NotInPop DEF Guarded, InPop
<1>11. ASSUME NEW k \in 1 .. Depth, Unwind(k)
       PROVE  FALSE
  BY <1>11 DEF Unwind
<1> QED
  BY <1>3, <1>4, <1>5, <1>6, <1>7, <1>8, <1>9, <1>10, <1>11, <1>12, <1>13, StepKinds

LEMMA Inductive == IInv /\ [Next]_vars => IInv'
<1> SUFFICES ASSUME IInv, [Next]_vars
             PROVE  IInv'
  OBVIOUS
<1>1. CASE Next
  <2>1. Flow' /\ Flags' /\ Others'
    BY <1>1, FlowStep, FlagsStep, OthersStep DEF IInv
  <2> QED
    BY <1>1, <2>1, QueueStep, ExactStep DEF IInv
<1>2. CASE UNCHANGED vars
  <2>1. /\ UNCHANGED <<pending, spare, locked, disabled, guard, active, signalled>>
        /\ UNCHANGED <<stack, caller, started, dropped, missed, reentered, unwound>>
    BY <1>2 DEF vars
  <2>2. Top' = Top /\ (Dead' <=> Dead)
    BY <2>1 DEF Top, Depth, Dead
  <2>3. Flow => Flow'
    BY <2>1 DEF Flow
  <2>4. Flags => Flags'
    BY <2>1, Zenon DEF Flags
  <2>5. Others => Others'
    BY <2>1 DEF Others
  <2>6. (Reserve => Reserve') /\ (Loaded => Loaded') /\ (Guarded => Guarded')
        /\ (Alone => Alone')
    BY <2>1, <2>2 DEF Reserve, Linked, Loaded, Guarded, Alone, InPop, Held
  <2>7. Once => Once'
    BY <2>1 DEF Once, Number
  <2> QED
    BY <2>1, <2>2, <2>3, <2>4, <2>5, <2>6, <2>7 DEF IInv
<1> QED
  BY <1>1, <1>2

-----------------------------------------------------------------------------
(* The queue, the flags, every frame and the calls have their types; in    *)
(* particular the spare conses, those of queued signals and the one on its *)
(* way back are at most Spares, until a signal or a caller comes between   *)
(* the two stores of pop_signal that put one back (torn).                  *)
THEOREM TypeCorrect == Spec => []TypeOK
<1>1. IInv => TypeOK
  <2> SUFFICES ASSUME IInv
               PROVE  TypeOK
    OBVIOUS
  <2>1. spare \in 0 .. Spares
    <3>1. Cardinality(Occurring(pending, Signals)) \in Nat
      BY OccurringFinite DEF IInv
    <3> QED
      BY <3>1 DEF IInv, Reserve, Linked
  <2>2. \A k \in 1 .. Depth : stack[k] \in Frames
    BY DEF IInv, Flow, WellFormed, Proper, Depth
  <2> QED
    BY <2>1, <2>2, Zenon DEF IInv, Flags, Others, TypeOK, Frames
<1> QED
  BY Initial, Inductive, <1>1, PTL DEF Spec

(* However deep interrupts, loops, sections and scopes nest, nothing runs  *)
(* on top of C code while it has interrupts disabled; where an inner       *)
(* section exposes an outer one, the flag says so, and the environment is  *)
(* writable.                                                               *)
THEOREM CriticalUninterruptedAlways == Spec => []CriticalUninterrupted
<1>1. IInv => CriticalUninterrupted
  BY DEF IInv, Flow, WellFormed, Last, CriticalUninterrupted, Top, Depth
<1> QED
  BY Initial, Inductive, <1>1, PTL DEF Spec

(* Of any number of calls and signals each is run at most once, and until  *)
(* then a call is in the queue once or in the hands of one loop.           *)
THEOREM ExactlyOnceAlways == Spec => []ExactlyOnce
<1>1. \A i : Copies(i) = Number(i)
  <2> TAKE i
  <2>1. /\ {k \in 1 .. Len(pending) : pending[k] = i} = Occurring(pending, {i})
        /\ {k \in 1 .. Depth : /\ stack[k].at \in {"linked", "stored", "ready"}
                               /\ stack[k].what = i}
              = Holding(stack, i)
    BY DEF Occurring, Holding, Holds, Handing, Depth
  <2> QED
    BY <2>1, Zenon DEF Copies, Number
<1>2. IInv => ExactlyOnce
  BY <1>1 DEF IInv, Once, ExactlyOnce
<1> QED
  BY Initial, Inductive, <1>2, PTL DEF Spec

-----------------------------------------------------------------------------
(* Who looks at the queue                                                  *)

Looking(s, j) ==
  \/ s[j].kind \in {"drain", "section"}
  \/ s[j].kind = "without" /\ s[j - 1].ena
LookedAt(s) == \E j \in 1 .. Len(s) : Looking(s, j)

(* Who runs without interrupts has a frame at or below it that looks at    *)
(* the queue: the one that took them away.                                 *)
Covered(s) ==
  \A k \in 1 .. Len(s) : s[k].ena \/ \E j \in 1 .. k : Looking(s, j)

LEMMA LookPush ==
  ASSUME NEW s, WellFormed(s), NEW f \in Frames
  PROVE  LET r == Append(s, f)
         IN  /\ LookedAt(s) => LookedAt(r)
             /\ f.kind \in {"drain", "section"} => LookedAt(r)
             /\ f.kind = "without" /\ Last(s).ena => LookedAt(r)
             /\ Covered(s) /\ (f.ena \/ LookedAt(r)) => Covered(r)
<1> DEFINE r == Append(s, f)
           n == Len(s)
<1>1. /\ n \in Nat /\ n > 0 /\ Len(r) = n + 1 /\ r[n + 1] = f
      /\ \A k \in 1 .. n : r[k] = s[k]
  BY DEF WellFormed
<1>2. s[1].kind = "program" /\ Last(s) = s[n]
  BY DEF WellFormed, Last
<1> HIDE DEF r, n
<1>3. \A j \in 1 .. n : Looking(s, j) <=> Looking(r, j)
  <2> TAKE j \in 1 .. n
  <2>1. CASE j = 1
    BY <1>1, <1>2, <2>1 DEF Looking
  <2>2. CASE j > 1
    <3>1. j - 1 \in 1 .. n
      BY <1>1, <2>2
    <3> QED
      BY <1>1, <3>1 DEF Looking
  <2> QED
    BY <1>1, <2>1, <2>2
<1>4. LookedAt(s) => LookedAt(r)
  BY <1>1, <1>3 DEF LookedAt, n
<1>5. f.kind \in {"drain", "section"} => LookedAt(r)
  BY <1>1 DEF LookedAt, Looking
<1>6. f.kind = "without" /\ Last(s).ena => LookedAt(r)
  <2>1. (n + 1) - 1 = n /\ r[n] = s[n] /\ n + 1 \in 1 .. Len(r)
    BY <1>1
  <2> QED
    BY <1>1, <1>2, <2>1 DEF LookedAt, Looking
<1>7. ASSUME Covered(s), f.ena \/ LookedAt(r)
      PROVE  Covered(r)
  <2> SUFFICES ASSUME NEW k \in 1 .. n + 1
               PROVE  r[k].ena \/ \E j \in 1 .. k : Looking(r, j)
    BY <1>1 DEF Covered
  <2>1. CASE k \in 1 .. n
    BY <1>1, <1>3, <1>7, <2>1 DEF Covered, n
  <2>2. CASE k = n + 1
    BY <1>1, <1>7, <2>2 DEF LookedAt
  <2> QED
    BY <1>1, <2>1, <2>2
<1> QED
  BY <1>4, <1>5, <1>6, <1>7 DEF r

LEMMA LookReplace ==
  ASSUME NEW s, WellFormed(s), NEW f, f.kind = Last(s).kind,
         f.ena = Last(s).ena \/ f.kind \in {"drain", "section"}
  PROVE  LET r == Replaced(s, f)
         IN  /\ LookedAt(s) <=> LookedAt(r)
             /\ Covered(s) => Covered(r)
<1> DEFINE r == Replaced(s, f)
           n == Len(s)
<1>1. /\ n \in Nat /\ n > 0 /\ Len(r) = n /\ r[n] = f
      /\ \A k \in 1 .. n - 1 : r[k] = s[k]
  BY DEF WellFormed, Replaced
<1>2. s[1].kind = "program" /\ Last(s) = s[n]
  BY DEF WellFormed, Last
<1> HIDE DEF r, n
<1>3. \A j \in 1 .. n : r[j].kind = s[j].kind
  BY <1>1, <1>2
<1>4. \A j \in 1 .. n : Looking(s, j) <=> Looking(r, j)
  <2> TAKE j \in 1 .. n
  <2>1. CASE j = 1
    BY <1>1, <1>2, <1>3, <2>1 DEF Looking
  <2>2. CASE j > 1
    <3>1. j - 1 \in 1 .. n - 1
      BY <1>1, <2>2
    <3> QED
      BY <1>1, <1>3, <3>1 DEF Looking
  <2> QED
    BY <1>1, <2>1, <2>2
<1>5. LookedAt(s) <=> LookedAt(r)
  BY <1>1, <1>4 DEF LookedAt, n
<1>6. ASSUME Covered(s)
      PROVE  Covered(r)
  <2> SUFFICES ASSUME NEW k \in 1 .. n
               PROVE  r[k].ena \/ \E j \in 1 .. k : Looking(r, j)
    BY <1>1 DEF Covered
  <2>1. s[k].ena \/ \E j \in 1 .. k : Looking(r, j)
    BY <1>1, <1>4, <1>6 DEF Covered, n
  <2>2. CASE k = n
    <3>1. f.kind \in {"drain", "section"} => Looking(r, n)
      BY <1>1 DEF Looking
    <3> QED
      BY <1>1, <1>2, <2>1, <2>2, <3>1
  <2>3. CASE k # n
    BY <1>1, <2>1, <2>3
  <2> QED
    BY <2>2, <2>3
<1> QED
  BY <1>5, <1>6 DEF r

LEMMA LookPop ==
  ASSUME NEW s, WellFormed(s), Len(s) > 1
  PROVE  LET r == Popped(s)
         IN  /\ LookedAt(s) => LookedAt(r) \/ Looking(s, Len(s))
             /\ Covered(s) => Covered(r)
<1> DEFINE r == Popped(s)
           n == Len(s)
<1>1. /\ n \in Nat /\ n > 1 /\ Len(r) = n - 1
      /\ \A k \in 1 .. n - 1 : r[k] = s[k]
  BY StackPop DEF WellFormed
<1>2. s[1].kind = "program"
  BY DEF WellFormed
<1> HIDE DEF r, n
<1>3. \A j \in 1 .. n - 1 : Looking(s, j) <=> Looking(r, j)
  <2> TAKE j \in 1 .. n - 1
  <2>1. CASE j = 1
    BY <1>1, <1>2, <2>1 DEF Looking
  <2>2. CASE j > 1
    <3>1. j - 1 \in 1 .. n - 1
      BY <1>1, <2>2
    <3> QED
      BY <1>1, <3>1 DEF Looking
  <2> QED
    BY <1>1, <2>1, <2>2
<1>4. LookedAt(s) => LookedAt(r) \/ Looking(s, n)
  BY <1>1, <1>3 DEF LookedAt, n
<1>5. Covered(s) => Covered(r)
  BY <1>1, <1>3 DEF Covered, n
<1> QED
  BY <1>4, <1>5 DEF r, n

(* Nobody looks at the queue only if interrupts are enabled everywhere.    *)
LEMMA LookTop ==
  ASSUME NEW s, WellFormed(s), Covered(s)
  PROVE  /\ Last(s).ena \/ LookedAt(s)
         /\ Len(s) > 1 => s[Len(s) - 1].ena \/ LookedAt(s)
<1>1. Len(s) \in Nat /\ Len(s) > 0
  BY DEF WellFormed
<1>2. ASSUME NEW k \in 1 .. Len(s)
      PROVE  s[k].ena \/ LookedAt(s)
  BY <1>1 DEF Covered, LookedAt
<1> QED
  BY <1>1, <1>2 DEF Last

(* What a step does to the frames that look at the queue.                  *)
Looked == Covered(stack') /\ (LookedAt(stack) => LookedAt(stack'))

(* A frame that is not there to look at the queue ends.                    *)
LEMMA PopLooked ==
  ASSUME Flow, Covered(stack), Depth > 1, ~Looking(stack, Depth), stack' = Below
  PROVE  Looked
BY TopFacts, LookPop DEF Flow, Looked, Depth

(* A draining frame comes on top of the others.                            *)
LEMMA DrainLooked ==
  ASSUME NEW s, WellFormed(s), Covered(s), NEW f \in Frames,
         stack' = Append(s, Drain(f))
  PROVE  Looked /\ LookedAt(stack')
<1>1. Drain(f) \in Frames /\ Drain(f).kind = "drain"
  BY DrainType DEF Proper
<1> QED
  BY <1>1, LookPush DEF Looked

(* The top moves, and loses no interrupts by it unless it looks.           *)
LEMMA MoveLooked ==
  ASSUME Flow, Covered(stack), NEW f, f.kind = Top.kind,
         f.ena = Top.ena \/ f.kind \in {"drain", "section"}, stack' = With(f)
  PROVE  Looked
BY TopFacts, LookReplace DEF Flow, Looked

LEMMA DeliverLooked ==
  ASSUME Flow, Covered(stack), Deliver
  PROVE  Looked /\ (pending # <<>> => guard' \/ LookedAt(stack'))
<1>1. guard' = (guard \/ (pending # <<>> /\ disabled))
  BY DEF Deliver, NotByC
<1>2. WellFormed(stack) /\ Top \in Frames /\ (Top.ena \/ LookedAt(stack))
  BY TopFacts, LookTop DEF Flow
<1>3. CASE pending # <<>> /\ ~disabled /\ Top.ena
  <2>1. stack' = Append(stack, Drain(Top))
    BY <1>3 DEF Deliver, NotByC
  <2> QED
    BY <1>2, <2>1, DrainLooked
<1>4. CASE ~(pending # <<>> /\ ~disabled /\ Top.ena)
  <2>1. stack' = stack
    BY <1>4 DEF Deliver, NotByC
  <2> QED
    BY <1>1, <1>2, <1>4, <2>1 DEF Looked
<1> QED
  BY <1>3, <1>4

LEMMA AsyncLooked ==
  ASSUME Flow, Covered(stack), NEW a \in Signals, Async(a)
  PROVE  /\ Looked
         /\ signalled' = signalled /\ caller' = caller /\ missed' = missed
         /\ guard => guard'
         /\ pending' = pending \/ guard' \/ LookedAt(stack')
<1>1. WellFormed(stack) /\ Top \in Frames /\ (Top.ena \/ LookedAt(stack))
  BY TopFacts, LookTop DEF Flow
<1>2. signalled' = signalled /\ caller' = caller /\ missed' = missed
  BY DEF Async, outside
<1>3. CASE Top.ena /\ ~disabled
  <2>1. stack' = Append(stack, Interrupt(Top, a)) /\ pending' = pending /\ guard' = guard
    BY <1>3 DEF Async, queue
  <2>2. Interrupt(Top, a) \in Frames /\ Interrupt(Top, a).ena = Top.ena
    BY <1>1, InterruptType DEF Proper, Ids, Interrupt, Over, Frame
  <2> QED
    BY <1>1, <1>2, <1>3, <2>1, <2>2, LookPush DEF Looked
<1>4. CASE ~(Top.ena /\ ~disabled)
  <2>1. stack' = stack /\ guard' = (guard \/ Top.ena)
    BY <1>4 DEF Async
  <2> QED
    BY <1>1, <1>2, <2>1 DEF Looked
<1> QED
  BY <1>3, <1>4

LEMMA EnableLooked ==
  ASSUME Flow, Covered(stack), NEW at \in Ats, at \notin Unsafe \cup {"waiting"},
         at \in Draining => Top.kind = "drain" /\ Top.what \in Ids, Enable(at)
  PROVE  Looked /\ (guard => LookedAt(stack'))
<1> DEFINE f == [Top EXCEPT !.at = at]
<1>1. f.kind = Top.kind /\ f.ena = Top.ena /\ Proper(f) /\ Top \in Frames
  BY TopFacts, MovedType DEF Flow, Proper, Frames
<1>2. stack' = IF guard THEN Append(With(f), Drain(Top)) ELSE With(f)
  BY DEF Enable
<1> HIDE DEF f
<1>3. WellFormed(With(f)) /\ Covered(With(f)) /\ (LookedAt(stack) => LookedAt(With(f)))
  BY <1>1, TopFacts, StackReplace, LookReplace DEF Flow
<1>4. CASE guard
  BY <1>1, <1>2, <1>3, <1>4, DrainLooked
<1>5. CASE ~guard
  BY <1>2, <1>3, <1>5 DEF Looked
<1> QED
  BY <1>4, <1>5

LEMMA EnablingLooked ==
  ASSUME Flow, Covered(stack),
         LeaveNested \/ LeaveCritical \/ PopEnable \/ (EnterNested /\ guard)
  PROVE  Looked /\ (guard => LookedAt(stack'))
<1>1. CASE LeaveNested \/ LeaveCritical \/ (EnterNested /\ guard)
  BY <1>1, EnableLooked DEF LeaveNested, LeaveCritical, EnterNested, Ats, Unsafe, Draining
<1>2. CASE PopEnable
  <2>1. Top.kind = "drain" /\ Top.what \in Ids
    BY <1>2, TopFacts DEF PopEnable, Flow, Proper, Draining
  <2> QED
    BY <1>2, <2>1, EnableLooked DEF PopEnable, Ats, Unsafe, Draining
<1> QED
  BY <1>1, <1>2

LEMMA PopQueueLooked ==
  ASSUME Flow, Covered(stack), PopLoad \/ PopStore \/ PopRecycle
  PROVE  Looked /\ LookedAt(stack')
<1>1. Top.kind = "drain" /\ Top \in Frames
  BY TopFacts DEF PopLoad, PopStore, PopRecycle, Flow, Proper, Draining
<1>2. PICK f : stack' = With(f) /\ f.kind = Top.kind
  <2> DEFINE load == [Top EXCEPT !.at = "loaded", !.what = Head(pending),
                                 !.last = Len(pending) = 1]
             store == [Top EXCEPT !.at = IF Recycle THEN "linked" ELSE "stored", !.last = FALSE]
             recycle == [Top EXCEPT !.at = "stored"]
  <2>1. load.kind = Top.kind /\ store.kind = Top.kind /\ recycle.kind = Top.kind
    BY <1>1 DEF Frames
  <2>2. stack' = With(load) \/ stack' = With(store) \/ stack' = With(recycle)
    BY DEF PopLoad, PopStore, PopRecycle, Stop
  <2> HIDE DEF load, store, recycle
  <2> QED
    BY <2>1, <2>2
<1>3. LookedAt(stack)
  BY <1>1, TopFacts DEF Flow, LookedAt, Looking, Top, Depth
<1> QED
  BY <1>1, <1>2, <1>3, MoveLooked DEF Looked

LEMMA RunLooked ==
  ASSUME Flow, Covered(stack), Run
  PROVE  Looked /\ LookedAt(stack')
<1>1. /\ Top.kind = "drain" /\ Top.what \in Ids /\ Top \in Frames
      /\ stack' = Append(With(Drain(Top)), Interrupt(Top, Top.what))
  BY TopFacts DEF Run, Flow, Proper, Draining
<1>2. /\ Proper(Drain(Top)) /\ Drain(Top).kind = Top.kind
  BY <1>1, DrainType
<1>3. LookedAt(stack)
  BY <1>1, TopFacts DEF Flow, LookedAt, Looking, Top, Depth
<1>4. WellFormed(With(Drain(Top))) /\ Covered(With(Drain(Top))) /\ LookedAt(With(Drain(Top)))
  BY <1>1, <1>2, <1>3, TopFacts, StackReplace, LookReplace DEF Flow
<1>5. Interrupt(Top, Top.what) \in Frames
  BY <1>1, InterruptType DEF Proper
<1> QED
  BY <1>1, <1>4, <1>5, LookPush DEF Looked

LEMMA EndLooked ==
  ASSUME Flow, Covered(stack), DrainEnd \/ Return
  PROVE  Covered(stack') /\ (Return => Looked)
<1>1. stack' = Below /\ Depth > 1
  BY TopFacts, RunsFacts DEF DrainEnd, Return, Flow, Draining
<1>2. Covered(stack')
  BY <1>1, TopFacts, LookPop DEF Flow, Depth
<1>3. Return => ~Looking(stack, Depth)
  BY DEF Return, Looking, Top
<1> QED
  BY <1>1, <1>2, <1>3, PopLooked

LEMMA LeaveLooked ==
  ASSUME Flow, Covered(stack), Leave
  PROVE  Looked
<1>1. Depth > 1 /\ stack[Depth - 1] \in Frames /\ WellFormed(Below)
  BY RunsFacts, TopFacts, StackPop DEF Leave, Relaxed, Flow, Depth
<1>2. Looks <=> Looking(stack, Depth)
  BY DEF Looks, Looking, Top, Leave, Relaxed
<1>3. CASE Looks
  <2>1. Covered(Below) /\ stack' = Append(Below, Drain(stack[Depth - 1]))
    BY <1>1, <1>3, TopFacts, LookPop DEF Flow, Depth, Leave
  <2> QED
    BY <1>1, <2>1, DrainLooked DEF Looked
<1>4. CASE ~Looks
  BY <1>1, <1>2, <1>4, PopLooked DEF Leave
<1> QED
  BY <1>3, <1>4

LEMMA EnterLooked ==
  ASSUME Flow, Covered(stack), NEW kind \in {"without", "section"}, Enter(kind)
  PROVE  Looked
<1> DEFINE f == Frame(kind, "open", FALSE, kind = "section" /\ Top.allow, None)
<1>1. stack' = Append(stack, f)
  BY DEF Enter
<1>2. f \in Frames /\ f.kind = kind
  <2>1. kind \in Kinds /\ (kind = "section" /\ Top.allow) \in BOOLEAN
    BY DEF Kinds
  <2> QED
    BY <2>1, FrameType DEF Proper, Frame
<1>3. WellFormed(stack) /\ (Last(stack).ena \/ LookedAt(stack))
  BY LookTop DEF Flow
<1> HIDE DEF f
<1> QED
  BY <1>1, <1>2, <1>3, LookPush DEF Looked

(* A scope that lets interrupts in has them unless a frame below keeps     *)
(* them off; the body of a scope without interrupts has one that looks.    *)
LEMMA AdmitLooked ==
  ASSUME Flow, Covered(stack), NEW kind \in Relaxed, Admit(kind)
  PROVE  Looked
<1> DEFINE o == IF kind = "with" THEN Top ELSE stack[Depth - 1]
           new == CASE kind = "with" -> <<Top.ena \/ Top.allow, Top.allow>>
                    [] kind = "restored" -> <<o.ena, Top.allow>>
                    [] kind = "allow" -> <<Top.ena, o.allow>>
                    [] kind = "local" -> <<o.allow, o.allow>>
           f == Frame(kind, "open", new[1], new[2], None)
           scope == Append(stack, f)
<1>1. Runs /\ Top \in Frames /\ o \in Frames /\ WellFormed(stack)
  BY RunsFacts, TopFacts DEF Admit, Flow
<1>2. new \in {<<Top.ena \/ Top.allow, Top.allow>>, <<o.ena, Top.allow>>,
               <<Top.ena, o.allow>>, <<o.allow, o.allow>>}
  BY OneOfFour, Zenon DEF Relaxed
<1>3. new[1] \in BOOLEAN /\ new[2] \in BOOLEAN
  <2>1. /\ (Top.ena \/ Top.allow) \in BOOLEAN
        /\ Top.ena \in BOOLEAN /\ Top.allow \in BOOLEAN
        /\ o.ena \in BOOLEAN /\ o.allow \in BOOLEAN
    BY <1>1 DEF Frames
  <2> HIDE DEF new, o
  <2> QED
    BY <1>2, <2>1
<1>4. Proper(f) /\ f \in Frames /\ f.at = "open"
  <2>1. kind \in Kinds
    BY DEF Kinds
  <2> HIDE DEF new
  <2> QED
    BY <1>3, <2>1, FrameType DEF Proper
<1>5. f.ena \/ LookedAt(stack)
  <2>1. Top.ena \/ LookedAt(stack)
    BY <1>1, TopFacts, LookTop DEF Flow
  <2>2. CASE kind = "with"
    <3>1. new = <<Top.ena \/ Top.allow, Top.allow>>
      BY <2>2
    <3> HIDE DEF new
    <3>2. f.ena = (Top.ena \/ Top.allow)
      BY <3>1 DEF Frame
    <3> QED
      BY <2>1, <3>2
  <2>3. CASE kind # "with"
    <3>1. Top.kind = "without" /\ Depth > 1 /\ o = stack[Depth - 1]
      BY <1>1, <2>3, RunsFacts DEF Admit
    <3>2. o.ena \/ LookedAt(stack)
      BY <3>1, LookTop DEF Flow, Depth
    <3>3. o.ena => LookedAt(stack)
      BY <1>1, <3>1, TopFacts DEF Flow, LookedAt, Looking, Top, Depth
    <3> QED
      BY <3>2, <3>3
  <2> QED
    BY <2>2, <2>3
<1>6. Last(stack).at \notin Unsafe
  BY <1>1, TopFacts DEF Runs, Unsafe, Flow
<1>7. stack' = scope \/ stack' = Append(scope, Drain(scope[Depth + 1]))
  BY Zenon DEF Admit
<1> HIDE DEF f, new, o
<1>8. /\ WellFormed(scope) /\ Covered(scope) /\ (LookedAt(stack) => LookedAt(scope))
      /\ scope[Depth + 1] = f
  <2>1. WellFormed(scope) /\ scope[Depth + 1] = f
    BY <1>1, <1>4, <1>6, StackPush DEF Last, Depth
  <2>2. (LookedAt(stack) => LookedAt(scope)) /\ Covered(scope)
    BY <1>1, <1>4, <1>5, LookPush
  <2> QED
    BY <2>1, <2>2
<1> HIDE DEF scope
<1> QED
  BY <1>4, <1>7, <1>8, DrainLooked DEF Looked

LEMMA MovingLooked ==
  ASSUME Flow, Covered(stack),
         \/ Activate \/ EnterCritical \/ (EnterNested /\ ~guard) \/ PopDisable
         \/ StartWait \/ EndWait
         \/ \E a \in Signals : AsyncKills(a) \/ AsyncTears(a)
  PROVE  Looked
<1>0. Top \in Frames
  BY TopFacts DEF Flow
<1>1. ASSUME NEW at \in Ats, Stop(at)
      PROVE  Looked
  <2>1. [Top EXCEPT !.at = at].kind = Top.kind /\ [Top EXCEPT !.at = at].ena = Top.ena
    BY <1>0 DEF Frames
  <2> QED
    BY <1>1, <2>1, MoveLooked DEF Stop
<1>2. CASE Activate \/ EnterCritical \/ (EnterNested /\ ~guard) \/ PopDisable
  BY <1>1, <1>2 DEF Activate, EnterCritical, EnterNested, PopDisable, Ats
<1>3. CASE \E a \in Signals : AsyncKills(a) \/ AsyncTears(a)
  BY <1>1, <1>3 DEF AsyncKills, AsyncTears, Ats
<1>4. CASE StartWait
  <2> DEFINE f == [Top EXCEPT !.at = "waiting", !.ena = TRUE]
  <2>1. stack' = With(f) /\ f.kind = Top.kind /\ Top.kind = "section"
    BY <1>0, <1>4 DEF StartWait, Frames
  <2> HIDE DEF f
  <2> QED
    BY <2>1, MoveLooked
<1>5. CASE EndWait
  <2> DEFINE f == [Top EXCEPT !.at = "open", !.ena = FALSE]
  <2>1. stack' = With(f) /\ f.kind = Top.kind
    BY <1>0, <1>5 DEF EndWait, Frames
  <2>2. Top.kind = "section"
    BY <1>5, TopFacts DEF EndWait, Flow, Proper
  <2> HIDE DEF f
  <2> QED
    BY <2>1, <2>2, MoveLooked
<1> QED
  BY <1>2, <1>3, <1>4, <1>5

-----------------------------------------------------------------------------
(* Something in the queue whose caller is past its signal                  *)
Announced(i) == i \notin missed /\ ~(i \in Functions /\ caller[i] = "queued")
Waits == \E k \in 1 .. Len(pending) : Announced(pending[k])
Watched == Waits => signalled \/ guard \/ LookedAt(stack)

WInv == ~unwound => Covered(stack) /\ Watched

LEMMA LockLooked ==
  ASSUME IInv, Covered(stack), Watched, NEW i \in Functions, Lock(i)
  PROVE  Covered(stack') /\ Watched'
<1>1. /\ UNCHANGED <<pending, guard, signalled, missed>>
      /\ caller[i] = "new" /\ caller' = [caller EXCEPT ![i] = "locked"]
      /\ (IF InPop THEN Stop("torn") ELSE stack' = stack)
  BY DEF Lock, queue, flags, history
<1>2. pending \in Seq(Ids) /\ caller \in [Functions -> {"new", "locked", "queued", "done"}]
      /\ Flow
  BY DEF IInv, Others
<1>3. Looked
  <2>1. CASE InPop
    <3> DEFINE f == [Top EXCEPT !.at = "torn"]
    <3>1. f.kind = Top.kind /\ f.ena = Top.ena
      BY <1>2, TopFacts DEF Frames
    <3>2. stack' = With(f)
      BY <1>1, <2>1 DEF Stop
    <3> HIDE DEF f
    <3> QED
      BY <1>2, <3>1, <3>2, MoveLooked
  <2>2. CASE ~InPop
    BY <1>1, <2>2 DEF Looked
  <2> QED
    BY <2>1, <2>2
<1>4. \A j \in Ids : Announced(j)' => Announced(j)
  BY <1>1, <1>2 DEF Announced
<1>5. Waits' => Waits
  BY <1>1, <1>2, <1>4 DEF Waits
<1> QED
  BY <1>1, <1>3, <1>5 DEF Watched, Looked

LEMMA CallLooked ==
  ASSUME IInv, Covered(stack), Watched, NEW i \in Functions, Queue(i) \/ Kill(i)
  PROVE  Covered(stack') /\ Watched'
<1>1. stack' = stack /\ guard' = guard
  BY DEF Queue, Kill, flags
<1>2. pending \in Seq(Ids) /\ caller \in [Functions -> {"new", "locked", "queued", "done"}]
  BY DEF IInv, Others
<1>3. CASE Queue(i)
  <2>1. /\ pending' = Append(pending, i) /\ caller' = [caller EXCEPT ![i] = "queued"]
        /\ missed' = missed /\ signalled' = signalled
    BY <1>3 DEF Queue, history
  <2>2. \A j \in Ids : Announced(j)' => Announced(j) /\ j # i
    BY <1>2, <2>1 DEF Announced
  <2>3. Waits' => Waits
    BY <1>2, <2>1, <2>2 DEF Waits, Ids
  <2> QED
    BY <1>1, <2>1, <2>3 DEF Watched
<1>4. CASE Kill(i)
  <2>1. /\ pending' = pending /\ caller' = [caller EXCEPT ![i] = "done"]
        /\ \/ signalled' = TRUE
           \/ missed' = missed \cup {i} /\ signalled' = signalled
    BY <1>4 DEF Kill, queue
  <2>2. CASE signalled' = TRUE
    BY <1>1, <2>2 DEF Watched
  <2>3. CASE missed' = missed \cup {i} /\ signalled' = signalled
    <3>1. \A j \in Ids : Announced(j)' => Announced(j)
      BY <1>2, <2>1, <2>3 DEF Announced
    <3>2. Waits' => Waits
      BY <1>2, <2>1, <3>1 DEF Waits
    <3> QED
      BY <1>1, <2>3, <3>2 DEF Watched
  <2> QED
    BY <2>1, <2>2, <2>3
<1> QED
  BY <1>1, <1>3, <1>4

LEMMA WatchStep ==
  ASSUME IInv, WInv, Next, ~unwound'
  PROVE  Covered(stack') /\ Watched'
<1>0. Flow /\ pending \in Seq(Ids)
  BY DEF IInv
<1>1. ~unwound
  <2>1. CASE \E i \in Functions : Lock(i) \/ Queue(i) \/ Kill(i)
    BY <2>1 DEF Lock, Queue, Kill, history
  <2>2. CASE \E a \in Signals : Async(a) \/ AsyncKills(a) \/ AsyncTears(a)
    BY <2>2 DEF Async, AsyncKills, AsyncTears, history
  <2>3. CASE Calm
    BY <1>0, <2>3, CalmStep
  <2>4. CASE PopLoad \/ PopStore \/ PopRecycle \/ Run
    BY <2>4 DEF PopLoad, PopStore, PopRecycle, Run, history
  <2>5. CASE \E k \in 1 .. Depth : Unwind(k)
    BY <2>5 DEF Unwind
  <2> QED
    BY <2>1, <2>2, <2>3, <2>4, <2>5, StepKinds
<1>2. Covered(stack) /\ Watched
  BY <1>1 DEF WInv
<1>3. ASSUME NEW i \in Functions, Lock(i) \/ Queue(i) \/ Kill(i)
      PROVE  Covered(stack') /\ Watched'
  BY <1>2, <1>3, LockLooked, CallLooked
<1>4. ASSUME UNCHANGED <<pending, caller, missed>>
      PROVE  Waits' => Waits
  BY <1>4 DEF Waits, Announced
<1>5. Waits => pending # <<>>
  BY DEF Waits
<1>6. CASE Deliver
  <2>1. UNCHANGED <<pending, caller, missed>>
    BY <1>6 DEF Deliver, queue, history
  <2> QED
    BY <1>0, <1>2, <1>4, <1>5, <1>6, <2>1, DeliverLooked DEF Looked, Watched
<1>7. ASSUME NEW a \in Signals, Async(a)
      PROVE  Covered(stack') /\ Watched'
  <2>1. /\ Looked /\ signalled' = signalled /\ caller' = caller /\ missed' = missed
        /\ guard => guard'
        /\ pending' = pending \/ guard' \/ LookedAt(stack')
    BY <1>0, <1>2, <1>7, AsyncLooked
  <2> QED
    BY <1>2, <1>4, <2>1 DEF Looked, Watched
<1>8. ASSUME UNCHANGED <<pending, caller, missed, signalled>>, Looked,
             guard' = guard \/ (guard => LookedAt(stack'))
      PROVE  Covered(stack') /\ Watched'
  BY <1>2, <1>4, <1>8 DEF Looked, Watched
<1>9. ASSUME NEW a \in Signals, AsyncKills(a) \/ AsyncTears(a)
      PROVE  Covered(stack') /\ Watched'
  <2>1. UNCHANGED <<pending, caller, missed, signalled, guard>>
    BY <1>9 DEF AsyncKills, AsyncTears, queue, flags, outside, history
  <2> QED
    BY <1>0, <1>2, <1>8, <1>9, <2>1, MovingLooked
<1>10. CASE LeaveNested \/ LeaveCritical \/ PopEnable \/ (EnterNested /\ guard)
  <2>1. UNCHANGED <<pending, caller, missed, signalled>>
    BY <1>10 DEF LeaveNested, LeaveCritical, PopEnable, EnterNested, queue, outside, history
  <2> QED
    BY <1>0, <1>2, <1>8, <1>10, <2>1, EnablingLooked
<1>11. CASE DrainEnd
  <2>1. Covered(stack')
    BY <1>0, <1>2, <1>11, EndLooked
  <2>2. ~Waits'
    BY <1>11 DEF DrainEnd, queue, Waits
  <2> QED
    BY <2>1, <2>2 DEF Watched
<1>12. CASE PopLoad \/ PopStore \/ PopRecycle
  BY <1>0, <1>2, <1>12, PopQueueLooked DEF Looked, Watched
<1>13. CASE Run
  BY <1>0, <1>2, <1>13, RunLooked DEF Looked, Watched
<1>14. CASE Closing
  <2>1. UNCHANGED <<pending, caller, missed, signalled, guard>>
    BY <1>14 DEF Closing, Leave, Return, queue, flags, outside, history
  <2>2. Looked
    BY <1>0, <1>2, <1>14, EndLooked, LeaveLooked DEF Closing
  <2> QED
    BY <1>8, <2>1, <2>2
<1>15. CASE \/ Activate \/ EnterCritical \/ (EnterNested /\ ~guard) \/ PopDisable
             \/ StartWait \/ EndWait
  <2>1. UNCHANGED <<pending, caller, missed, signalled, guard>>
    BY <1>15 DEF Activate, EnterCritical, EnterNested, PopDisable, StartWait, EndWait,
                 queue, flags, outside, history
  <2> QED
    BY <1>0, <1>2, <1>8, <1>15, <2>1, MovingLooked
<1>16. ASSUME NEW kind \in {"without", "section"}, Enter(kind)
       PROVE  Covered(stack') /\ Watched'
  <2>1. UNCHANGED <<pending, caller, missed, signalled, guard>>
    BY <1>16 DEF Enter, queue, flags, outside, history
  <2> QED
    BY <1>0, <1>2, <1>8, <1>16, <2>1, EnterLooked
<1>17. ASSUME NEW kind \in Relaxed, Admit(kind)
       PROVE  Covered(stack') /\ Watched'
  <2>1. UNCHANGED <<pending, caller, missed, signalled, guard>>
    BY <1>17 DEF Admit, queue, flags, outside, history
  <2> QED
    BY <1>0, <1>2, <1>8, <1>17, <2>1, AdmitLooked
<1>18. ASSUME NEW k \in 1 .. Depth, Unwind(k)
       PROVE  FALSE
  BY <1>18 DEF Unwind
<1>19. Calm => \/ Deliver \/ LeaveNested \/ LeaveCritical \/ PopEnable \/ DrainEnd \/ Closing
               \/ Activate \/ EnterCritical \/ EnterNested \/ PopDisable \/ StartWait \/ EndWait
               \/ \E kind \in {"without", "section"} : Enter(kind)
               \/ \E kind \in Relaxed : Admit(kind)
  BY DEF Calm
<1>20. CASE Calm
  BY <1>6, <1>10, <1>11, <1>14, <1>15, <1>16, <1>17, <1>19, <1>20
<1> QED
  BY <1>3, <1>7, <1>9, <1>12, <1>13, <1>18, <1>20, StepKinds

(* Whatever is in the queue and announced has a signal on its way to the   *)
(* thread, a read-only environment that stops it, or a frame that looks at *)
(* the queue: however scopes, sections, signals and loops nest, none is    *)
(* left behind, until frames are unwound.                                  *)
THEOREM QueueIsWatchedAlways == Spec => []QueueIsWatched
<1>1. Init => WInv
  <2> SUFFICES ASSUME Init
               PROVE  Covered(stack) /\ Watched
    BY DEF WInv
  <2>1. Len(stack) = 1 /\ stack[1].ena = TRUE /\ pending = <<>>
    BY DEF Init, Frame
  <2> QED
    BY <2>1 DEF Covered, Watched, Waits
<1>2. IInv /\ WInv /\ [Next]_vars => WInv'
  <2> SUFFICES ASSUME IInv, WInv, [Next]_vars
               PROVE  WInv'
    OBVIOUS
  <2>1. CASE Next
    BY <2>1, WatchStep DEF WInv
  <2>2. CASE UNCHANGED vars
    BY <2>2 DEF vars, WInv, Watched, Waits, Announced
  <2> QED
    BY <2>1, <2>2
<1>3. IInv /\ WInv => QueueIsWatched
  <2>1. \A j : Looking(stack, j) <=> Watches(j)
    BY DEF Looking, Watches
  <2> QED
    BY <2>1 DEF WInv, Watched, Waits, Announced, LookedAt, Depth, QueueIsWatched
<1> QED
  BY Initial, Inductive, <1>1, <1>2, <1>3, PTL DEF Spec
=============================================================================
