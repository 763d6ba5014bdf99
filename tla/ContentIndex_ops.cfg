SPECIFICATION Spec
CONSTANTS
  Contents = {a, b, c}
  Dag <- MCDag
  Size <- MCSize
  Names = {}
  Ub = 5
  Lb = 2
  Word = 16
  MaxBucket = 2
  MaxSize = 8
  None = None
INVARIANTS TypeOK ListMatchesRefs SizeAccounts 
PROPERTY EvictsLeastUsed
SYMMETRY MCSymmetry
CHECK_DEADLOCK FALSE
