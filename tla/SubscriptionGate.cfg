SPECIFICATION GateSpec
CONSTANTS
  Key = {k1, k2}
  Rate = 1
  Burst = 2
  Idle = 2
  MaxKeys = 1
  MaxTime = 3
  Rotator = {o1, o2}
  MaxRotations = 3
INVARIANTS
  NewestRotationWins
PROPERTIES
  FillsLikeABucket
CHECK_DEADLOCK FALSE
SYMMETRY MCSymmetry
