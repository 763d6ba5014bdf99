SPECIFICATION Spec
CONSTANTS
  MaxLane = 1
  MaxNonce = 2
  Amounts <- MCAmounts
  MaxBalance = 2
  MaxCalls = 2
  Faults = {}
  None = None
PROPERTY CollectsWhenDue
CHECK_DEADLOCK FALSE
