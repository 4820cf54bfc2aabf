SPECIFICATION LiveSpec
CONSTANTS
  c1 = c1
  c2 = c2
  f1 = f1
  f2 = f2
  Conn = {c1, c2}
  Fd = {f1, f2}
  x1 = x1
  x2 = x2
  Failed = {x1, x2}
  Invalid = Invalid
  Acceptor = Acceptor
  None = None
  Capacity = 2
  MaxMedia = 2
  Unsigned = TRUE
CHECK_DEADLOCK FALSE
INVARIANT ChannelsAreLive
INVARIANT RemovesItsOwn
PROPERTY StopReturns
PROPERTY LeaverIsRemoved
