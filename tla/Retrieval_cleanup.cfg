SPECIFICATION FairSpec
CONSTANTS
  Blocks <- MCOne
  Proposals <- MCSmall
  Ask <- MCAsk
  Balances <- MCBalances
  Faults = 1
  OtherSpend = 0
  TopUps = 0
  None = None
PROPERTY CleanupEnds
CHECK_DEADLOCK FALSE
