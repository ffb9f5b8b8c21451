SPECIFICATION FairSpec
CONSTANTS
  Loads = {l1, l2, l3}
  Ids = {a, b}
  Existing = {a}
  BatchGetLimit = 2
  MaxVersion = 1
  DatabaseFails = TRUE
  Absent = Absent
  Foreign = Foreign
  None = None
  Failed = Failed
INVARIANTS TypeOK OneBatchEach LoadIsCurrent
PROPERTY LoadReturns
