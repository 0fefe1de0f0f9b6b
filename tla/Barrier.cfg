SPECIFICATION FairSpec
CONSTANTS
  NoThread = NoThread
  Threads = {t1, t2, t3}
  Counts = {0, 2, 3}
  MaxIndex = 5
  Interruptible = {t1}
  TypeErrors = TRUE
INVARIANTS
  TypeOK ArriversExact DrainHasThread
PROPERTIES
  NobodyLeftBehind RoundsEnd ImplementsRounds
CHECK_DEADLOCK FALSE
