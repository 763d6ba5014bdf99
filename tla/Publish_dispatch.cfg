CONSTANTS
  None = None
  c1 = c1
  c2 = c2
  put = put
  commit = commit
  to = to
  local = local
  post = post
  again = again
  get = get
  status = status
  Peers = {c1, c2}
  Stocked = {c1}
  Home <- MCHome
  RegionsOf <- MCRegionsOf
  MaxFaults = 4
  Calls = {put, commit, to, local, post, again, get, status}
  Kind <- MCKind
  InitPeers <- MCInitPeers
  RF <- MCRF
  Attempts <- MCAttempts
  Scenarios <- MCScenarios
SPECIFICATION FairSpec
INVARIANTS RefsHaveBlocks EnoughPeers
PROPERTIES  QueueDrains
CHECK_DEADLOCK FALSE
