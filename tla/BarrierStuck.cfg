SPECIFICATION FairSpec
CONSTANTS
  NoThread = NoThread
  Threads = {t1, t2}
  Counts = {2}
  MaxIndex = 4
  Interruptible = {t1}
  TypeErrors = FALSE
PROPERTY DrainEnds
CHECK_DEADLOCK FALSE
