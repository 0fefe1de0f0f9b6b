SPECIFICATION Spec
CONSTANTS
  NoThread = NoThread
  Threads = {t1, t2}
  Modulus = 5
  Builds = {"std"}
  Interruptible = {}
INVARIANT StatusAsCommented
CHECK_DEADLOCK FALSE
