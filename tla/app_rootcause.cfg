SPECIFICATION HistorySpec
CONSTANTS
  http = http
  grpc = grpc
  tracing = tracing
  twin = twin
  nameless = nameless
  None = None
  Blank = ""
  Component = {http, tracing}
  Notifier = {http}
  NameOf <- MCNameOf
  Caller = {r1}
INVARIANTS
  RootCauseReturned
\* Run returns and the program ends.
CHECK_DEADLOCK FALSE
