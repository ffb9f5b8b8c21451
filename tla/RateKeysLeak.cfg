SPECIFICATION Spec
CONSTANTS
  Callers = {c1, c2}
  Absent = Absent
  Limit = 1
  Cycle = 4
  MaxStall = 1
  MaxRetries = 1
  MaxLost = 1
  Faults = {"cancel"}
INVARIANT KeysAutoExpire
SYMMETRY CallerSymmetry
