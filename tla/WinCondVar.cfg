SPECIFICATION FairSpec
CONSTANTS
  NoThread = NoThread
  Threads = {t1, t2, t3}
  Modulus = 6
  Builds = {"std", "ao"}
  Interruptible = {t1}
INVARIANTS
  TypeOK CountExact StatusHasAgent
PROPERTIES
  ImplementsCondVar BroadcastReachesAll
CHECK_DEADLOCK FALSE
