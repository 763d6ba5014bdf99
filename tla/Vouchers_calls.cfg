SPECIFICATION FairSpec
CONSTANTS
  MaxLane = 1
  MaxNonce = 2
  Amounts <- MCAmounts
  MaxBalance = 2
  MaxCalls = 2
  Faults = {"push", "wait", "read"}
  None = None
INVARIANTS LaneOrder VoucherInv Solvent CreditIsRedeemable
PROPERTIES UpdatesAccepted SubmitReturns
CHECK_DEADLOCK FALSE
