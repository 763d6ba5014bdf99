CONSTANTS
  None = None
  c = c
  p1 = p1
  p2 = p2
  t1 = t1
  t2 = t2
  A = A
  eu = eu
  Nodes = {c, p1, p2}
  Askers = {c}
  Regions = {eu}
  Roots = {A}
  Seqnos = {1, 2}
  Links <- MCLinks
  RegionsOf <- MCRegionsOf
  Holds <- MCHolds
  PPB <- MCPPB
  Client = c
  Txs = {t1}
  Root <- MCRoot
  Caller <- MCLoad
  Path <- MCPath
  Strategy <- MCFirst
  MaxFaults = 0
  MaxOpen = 1
SPECIFICATION FairSpec
PROPERTY PushBackReturns
CHECK_DEADLOCK FALSE
