SPECIFICATION Spec
CONSTANTS
  Calls = {c1, c2, c3}
  Keys = {k}
  TTLs = {0, 1}
  NoTTL = NoTTL
  None = None
  MaxTime = 2
INVARIANT NoExpiryStays
SYMMETRY CallSymmetry
