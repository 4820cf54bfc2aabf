SPECIFICATION LiveSpec
CONSTANTS
  r1 = r1
  r3 = r3
  Req = {r1, r3}
  PortOf <- MCPortOf
  AddrOf <- MCAddrOf
  ServerAddr = "server"
  MaxId = 1
  MaxDup = 1
  Lossy = TRUE
  Absent = Absent
  NullReply = NullReply
CHECK_DEADLOCK FALSE
INVARIANT OwnAnswer
INVARIANT RefusalHasCause
INVARIANT AdmittedByHost
PROPERTY AllowedIsAnswered
