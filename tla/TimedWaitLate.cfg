SPECIFICATION Spec
CONSTANTS
  Timeouts = {1, 2, 3}
  Second = 5
  MaxNow = 30
INVARIANT NeverLate
CHECK_DEADLOCK FALSE
