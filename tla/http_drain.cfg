SPECIFICATION Spec
CONSTANTS
  Request = {r1}
  Answer = {"success"}
  Starter = {start1}
  Stopper = {stop1}
INVARIANTS
  ShutdownWaits
\* Every Start and Stop returns and every request ends.
CHECK_DEADLOCK FALSE
