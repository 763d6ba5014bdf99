SPECIFICATION FairSpec
CONSTANTS
  Blocks <- MCBlocks
  Proposals <- MCProposals
  Ask <- MCAsk
  Balances <- MCBalances
  Faults = 1
  OtherSpend = 2
  TopUps = 1
  None = None
INVARIANTS TypeOK PaysForReceived ReceivedIsAccepted   NoUnderflow 
PROPERTY Settles
CHECK_DEADLOCK FALSE
