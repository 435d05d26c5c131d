SPECIFICATION Spec
CONSTANTS
  Request = {r1}
  Answer = {"success", "failure"}
  Starter = {start1, start2}
  Stopper = {stop1}
INVARIANTS
  ServerTypeOK
  StoppedServesNothing
  NeverMixed
  MetricsMatchAnswer
PROPERTIES
  LateWritesRefused
  RequestsEnd
  StopHonoursDeadline
  StartFollowsStop
\* Every Start and Stop returns and every request ends.
CHECK_DEADLOCK FALSE
