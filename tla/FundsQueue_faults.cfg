CONSTANTS
  r1 = r1
  r2 = r2
  None = None
  Req = {r1, r2}
  Amt <- MCAmt2
  MaxMsgs = 2
  MaxCrashes = 1
  Faults = {"api", "exec", "wait", "expire", "settle"}
SPECIFICATION Spec
CHECK_DEADLOCK FALSE
INVARIANTS
  FundsInv
  PendingIsOwn
  PaidOnce
  ListensInTime
  ReadyIsOnChain
  BooksCoverBalance
 
