SPECIFICATION Spec
CONSTANTS
  NoThread = NoThread
  Threads = {t1, t2, t3}
  Kinds = {TRUE, FALSE}
  MaxDepth = 3
  MaxCounter = 3
  Interruptible = {t1, t2, t3}
  Strays = {t1, t3}
INVARIANTS TypeOK OwnerHolds HolderKnown
PROPERTY ImplementsLock
CHECK_DEADLOCK FALSE
