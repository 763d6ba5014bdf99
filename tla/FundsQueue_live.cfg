CONSTANTS
  r1 = r1
  r2 = r2
  None = None
  Req = {r1, r2}
  Amt <- MCAmt2
  MaxMsgs = 2
  MaxCrashes = 0
  Faults = {"api", "exec", "expire"}
SPECIFICATION FairSpec
CHECK_DEADLOCK FALSE
INVARIANT NoStrandedRequest
PROPERTY CallsReturn
