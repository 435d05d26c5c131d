SPECIFICATION Spec
CONSTANTS
  Request = {r1}
  Waiter = {stop}
  Starter = {start}
  Nobody = Nobody
PROPERTIES
  StopHonoursDeadline
\* Every Start and Stop returns and every RPC ends.
CHECK_DEADLOCK FALSE
