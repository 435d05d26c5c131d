SPECIFICATION Spec
CONSTANTS
  http = http
  grpc = grpc
  tracing = tracing
  twin = twin
  nameless = nameless
  None = None
  Blank = ""
  Component = {http, grpc, twin, nameless}
  Notifier = {http}
  NameOf <- MCNameOf
  Caller = {r1, r2}
INVARIANTS
  TypeOK
  ReadyImpliesStarted
  NotReadyWhileDraining
  ReverseStopOrder
  CleanReturnIsQuiescent
PROPERTIES
  ImplementsLifecycle
  RunReturns
  StartupAbortReturns
  StopsAll
\* Run returns and the program ends.
CHECK_DEADLOCK FALSE
