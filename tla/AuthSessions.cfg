SPECIFICATION MCSpec
CONSTANTS
  t1 = t1
  b1 = b1
  Tab = {t1, t2}
  Browser = {b1, b2}
  MaxRequests = 4
  MaxCalls = 2
  MaxMishaps = 1
INVARIANTS
  OneSuccessor
  RevocationComplete
  SignOutExplained
  LogoutEndsSession
PROPERTIES
  SessionsEndForGood
  QueuedCallsSettle
CHECK_DEADLOCK FALSE
