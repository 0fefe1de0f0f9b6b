--------------------------- MODULE AbstractCondVar ---------------------------
(***************************************************************************)
(* What a condition variable promises                                      *)
(* (src/doc/manual/extensions/mp_ref_cv.txi), one operation at a time: a   *)
(* signal wakes one of those who sleep or is kept for the first to come, a *)
(* broadcast wakes all and lets pass who comes until nobody is left, and   *)
(* nobody wakes otherwise but to give up.  Nothing is promised once the    *)
(* condition variable is void.                                             *)
(***************************************************************************)
CONSTANT Threads

VARIABLES
  coming, asleep, released, quitting,   \* the threads inside a wait
  operation,
  void

wvars == <<coming, asleep, released, quitting, operation>>
avars == <<wvars, void>>

Inside == coming \cup asleep \cup released \cup quitting

Init ==
  /\ coming = {} /\ asleep = {} /\ released = {} /\ quitting = {}
  /\ operation = "none"
  /\ void = FALSE

-----------------------------------------------------------------------------
Join(t) ==
  /\ t \notin Inside /\ operation # "over"
  /\ coming' = coming \cup {t}
  /\ UNCHANGED <<asleep, released, quitting, operation>>

Sleep(t) ==
  /\ t \in coming /\ operation \notin {"offered", "open", "over"}
  /\ coming' = coming \ {t}
  /\ asleep' = asleep \cup {t}
  /\ UNCHANGED <<released, quitting, operation>>

(* Who comes finds a signal kept or a broadcast still open.                *)
Pass(t) ==
  /\ t \in coming
  /\ \/ operation = "offered" /\ released = {} /\ operation' = "signal"
     \/ operation = "open" /\ operation' = "open"
  /\ coming' = coming \ {t}
  /\ released' = released \cup {t}
  /\ UNCHANGED <<asleep, quitting>>

GiveUp(t) ==
  /\ t \in coming \cup asleep
  /\ coming' = coming \ {t}
  /\ asleep' = asleep \ {t}
  /\ quitting' = quitting \cup {t}
  /\ UNCHANGED <<released, operation>>

Quit(t) ==
  /\ t \in quitting
  /\ quitting' = quitting \ {t}
  /\ UNCHANGED <<coming, asleep, released, operation>>

-----------------------------------------------------------------------------
Begin ==
  /\ operation = "none" /\ Inside # {}
  /\ operation' \in {"signal", "broadcast"}
  /\ UNCHANGED <<coming, asleep, released, quitting>>

WakeOne ==
  /\ operation = "signal" /\ released = {}
  /\ \E t \in asleep : asleep' = asleep \ {t} /\ released' = {t}
  /\ UNCHANGED <<coming, quitting, operation>>

Offer ==
  /\ operation = "signal" /\ released = {} /\ asleep = {}
  /\ operation' = "offered"
  /\ UNCHANGED <<coming, asleep, released, quitting>>

WakeAll ==
  /\ operation = "broadcast" /\ released = {}
  /\ operation' = "open"
  /\ asleep' = {} /\ released' = asleep
  /\ UNCHANGED <<coming, quitting>>

Leave(t) ==
  /\ t \in released
  /\ \/ operation = "signal" /\ operation' = "none"
     \/ operation = "open" /\ Inside # {t} /\ operation' = "open"
     \/ operation = "open" /\ Inside = {t} /\ operation' = "over"
  /\ released' = released \ {t}
  /\ UNCHANGED <<coming, asleep, quitting>>

End ==
  /\ operation = "over"
  /\ operation' = "none"
  /\ UNCHANGED <<coming, asleep, released, quitting>>

Promised ==
  \/ \E t \in Threads :
       Join(t) \/ Sleep(t) \/ Pass(t) \/ GiveUp(t) \/ Quit(t) \/ Leave(t)
  \/ Begin \/ WakeOne \/ Offer \/ WakeAll \/ End

Next ==
  \/ ~void /\ ~void' /\ Promised
  \/ void'

Spec == Init /\ [][Next]_avars
=============================================================================
