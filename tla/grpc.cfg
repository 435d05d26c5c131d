SPECIFICATION FairTransportSpec
CONSTANTS
  Request = {r1}
  Waiter = {stop1, stop2}
  Starter = {start1, start2}
  Nobody = Nobody
INVARIANTS
  ServerTypeOK
  StoppedServesNothing
  ListenerReleased
  ServesOnce
PROPERTIES
  StopHonoursDeadline
  StartFollowsStop
\* Every Start and Stop returns and every RPC ends.
CHECK_DEADLOCK FALSE
