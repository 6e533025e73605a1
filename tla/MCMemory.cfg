SPECIFICATION FairSpec
CONSTANTS
  m1 = m1
  m2 = m2
  a1 = a1
  p1 = p1
  Msg = {m1}
  Content = {1, 2}
  Archive = {a1}
  Profile = {p1}
  Slot = {1}
  Mem = {1, 2, 3, 4}
  MaxLife = 1
  MaxRetries = 1
  MaxCalls = 1
  MaxFaults = 1
INVARIANTS
  NoResurrection
PROPERTIES
  ForgottenStays
  RunsEnd
CHECK_DEADLOCK FALSE
