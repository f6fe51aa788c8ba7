\* Two approvals of one action, two executors, calls that fail and processes
\* that die; approvals live for one tick of two.
SPECIFICATION Spec
CONSTANTS
  Ids = {x1, x2}
  Plans = {p1, p2}
  Executors = {e1, e2}
  Lifetimes = {1}
  MaxTime = 1
  Faults = TRUE
  None = None
INVARIANTS
  SingleUse
  GrantCoversPlan
  TrailIsBacked
PROPERTIES
  ExpiryIsFinal
  ConsumedIsAccountedFor
  ImplementsGrant
CHECK_DEADLOCK FALSE
