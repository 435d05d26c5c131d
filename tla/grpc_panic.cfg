SPECIFICATION Spec
CONSTANTS
  Request = {r1}
  Waiter = {stop}
  Starter = {start}
  Nobody = Nobody
INVARIANTS
  PanicLeaksNothing
\* Every Start and Stop returns and every RPC ends.
CHECK_DEADLOCK FALSE
