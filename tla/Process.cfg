SPECIFICATION Spec
CONSTANTS
  Main = Main
  None = None
  Junk = Junk
  Objects = {p1}
  Foreign = {f, g}
  Enablers = {c1}
  Joiners = {c2}
  Size = 3
  MaxSize = 4
  MaxRuns = 2
INVARIANTS TypeOK ListedWhileUsed ListIsExact ExitsLand
PROPERTIES ImplementsLifeCycle JoinsTheEnd JoinersLeave 
CHECK_DEADLOCK FALSE
