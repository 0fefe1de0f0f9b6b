SPECIFICATION FairSpec
CONSTANTS
  None = None
  Functions = {f1}
  Signals = {s1, s2}
  Spares = 2
  MaxFrames = 3
  MaxUnwound = 2
INVARIANTS
  TypeOK CriticalUninterrupted ExactlyOnce QueueIsWatched
PROPERTIES
  HandledInTheEnd
CHECK_DEADLOCK FALSE
