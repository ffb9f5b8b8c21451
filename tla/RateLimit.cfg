SPECIFICATION Spec
CONSTANTS
  Callers = {c1, c2, c3}
  Absent = Absent
  Limit = 1
  Cycle = 4
  MaxStall = 1
  MaxRetries = 1
  MaxLost = 1
  Faults = {"redis", "crash"}
INVARIANTS TypeOK WindowLimit NoSpuriousDenial
SYMMETRY CallerSymmetry
