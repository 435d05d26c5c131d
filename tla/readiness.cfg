SPECIFICATION Spec
CONSTANTS
  Dependency = {database, cache}
  Required = {database}
  Check = {c1, c2}
INVARIANTS
  OneChecker
  HonestReport
PROPERTIES
  CheckReturns
  BusyEnds
\* Every Check returns.
CHECK_DEADLOCK FALSE
