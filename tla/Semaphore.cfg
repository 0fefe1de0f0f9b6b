SPECIFICATION FairSpec
CONSTANTS
  NoThread = NoThread
  Threads = {t1, t2, t3}
  InitialCounts = {0, 1}
  Requests = {0, 1, 2}
  Signals = {1, 2}
  MaxGiven = 2
  MaxDrift = 3
  Timeouts = {"none", "zero", "some"}
  Interruptible = {t1}
  TypeErrors = TRUE
INVARIANTS TypeOK WaitCountExact EveryUnitHasTaker
PROPERTY SingleWaitersServed
CHECK_DEADLOCK FALSE
