SPECIFICATION FairSpec
CONSTANTS
  Threads = {t1, t2, t3}
  Messages = {m1, m2}
  NoThread = NoThread
  TypeErrors = TRUE
  NoMessage = NoMessage
  T = T
  NIL = NIL
  Capacity = 2
INVARIANTS TypeOK PointersAgree NoLostWakeup
PROPERTIES ImplementsFIFO SleepersServed
CHECK_DEADLOCK FALSE
