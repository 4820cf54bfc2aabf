SPECIFICATION LiveSpec
CONSTANTS
  s = s
  a = a
  b = b
  e1 = e1
  e2 = e2
  e3 = e3
  Thread = {s, a, b}
  Scheduler = s
  Event = {e1, e2, e3}
  Capacity = 2
  NoEvent = NoEvent
  NoThread = NoThread
CHECK_DEADLOCK FALSE
INVARIANT NoLostWakeup
INVARIANT LostOnlyWhenCrowded
PROPERTY ImplementsQueue
PROPERTY PushedIsRun
