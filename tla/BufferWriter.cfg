SPECIFICATION LiveSpec
CONSTANTS
  p1 = p1
  p2 = p2
  p3 = p3
  p4 = p4
  Packet = {p1, p2, p3, p4}
  Reply = {p1, p2}
  Size <- MCSize
  MaxLength = 2
CHECK_DEADLOCK FALSE
INVARIANT NothingLostOrRepeated
INVARIANT WaitingIsWatched
PROPERTY AcceptedIsSent
