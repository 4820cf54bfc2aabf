SPECIFICATION Spec
CONSTANTS
  h1 = h1
  h2 = h2
  h3 = h3
  g1 = g1
  None = None
  Host = {h1, h2, h3}
  Guest = {g1}
  Id <- MCId
  Port = {1, 2}
CHECK_DEADLOCK FALSE
INVARIANT PortsDiffer
INVARIANT ToldIsListed
INVARIANT RequestReachesItsHost
INVARIANT HostBecomesAdmin
