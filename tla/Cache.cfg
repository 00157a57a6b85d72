SPECIFICATION Spec
CONSTANTS
  k1 = k1
  k2 = k2
  k3 = k3
  v1 = v1
  v2 = v2
  Keys <- MCKeys
  Values <- MCValues
  Miss = Miss
  Capacity = 2
  TTL = 2
  MaxClock = 4
SYMMETRY MCSymmetry
INVARIANT TypeOK
INVARIANT SizeBounded
PROPERTY HitIsLastPut
PROPERTY LostOnlyWhenFull
