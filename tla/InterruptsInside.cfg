SPECIFICATION Spec
CONSTANTS
  None = None
  Functions = {f1}
  Signals = {}
  Spares = 1
  MaxFrames = 3
  MaxUnwound = 3
INVARIANT NoneInside
CHECK_DEADLOCK FALSE
