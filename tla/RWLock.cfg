SPECIFICATION Spec
CONSTANTS
  NoThread = NoThread
  Threads = {t1, t2, t3}
  MaxReads = 2
  Interruptible = {t1}
  Strays = {t2}
INVARIANTS
  TypeOK NoLostWakeup
PROPERTIES
  ImplementsReadersWriter
CHECK_DEADLOCK FALSE
