SPECIFICATION FairScreenSpec
CONSTANTS
  s1 = s1
  s2 = s2
  c1 = c1
  Null = Null
  Server = {s1, s2}
  Client = {c1}
  MaxOps = 3
CHECK_DEADLOCK FALSE
INVARIANT NoCrash
INVARIANT CountIsTrue
PROPERTY OperationsReturn
PROPERTY ExitEnds
