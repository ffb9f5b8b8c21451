SPECIFICATION Spec
CONSTANTS
  Calls = {c1, c2, c3, c4}
  Keys = {k}
  TTLs = {0, 1}
  NoTTL = NoTTL
  None = None
  MaxTime = 2
INVARIANTS TypeOK HitIsCurrent UntimedKeysKeep
SYMMETRY CallSymmetry
