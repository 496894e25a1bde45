SPECIFICATION Spec
CONSTANTS
  p1 = p1
  h1 = h1
  User = {u1}
  Plan = {p1}
  Host = {h1}
  NoPlan = NoPlan
  HostsOf <- HostsOfPlan
  Operator = {o1, o2}
  Client = {c1}
  MaxTokens = 4
  MaxEdits = 3
INVARIANTS
  DeliveryWasDue
  MissWasDue
  EditsStay
PROPERTIES
  RevokedForGood
CHECK_DEADLOCK FALSE
SYMMETRY MCSymmetry
