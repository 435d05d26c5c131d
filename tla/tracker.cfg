SPECIFICATION TrackerSpec
CONSTANTS
  Request = {r1, r2, r3}
  Waiter = {stop}
INVARIANTS
  DrainedMeansIdle
  NoLostWakeup
PROPERTIES
  ImplementsGate
  DrainNoticed
\* RPCs finish and Stop returns.
CHECK_DEADLOCK FALSE
