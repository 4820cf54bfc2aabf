SPECIFICATION LiveSpec
CONSTANTS
  c1 = c1
  c2 = c2
  f1 = f1
  f2 = f2
  f3 = f3
  f4 = f4
  f5 = f5
  s1 = s1
  s2 = s2
  video = video
  audio = audio
  Conn = {c1}
  Fd = {f1, f2, f3, f4, f5}
  Channel = {video}
  Session = {s1, s2}
  None = None
  MaxMedia = 1
CHECK_DEADLOCK FALSE
INVARIANT RegisteredIsLive
PROPERTY ClosedIsDestroyed
