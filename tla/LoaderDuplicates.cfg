SPECIFICATION Spec
CONSTANTS
  Loads = {l1, l2}
  Ids = {a, b}
  Existing = {a}
  BatchGetLimit = 2
  MaxVersion = 0
  DatabaseFails = FALSE
  Absent = Absent
  Foreign = Foreign
  None = None
  Failed = Failed
INVARIANT LoadFailsOnlyByDatabase
SYMMETRY LoadSymmetry
