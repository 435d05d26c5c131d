SPECIFICATION OpsSpec
CONSTANTS
  Process = process
  Connection = {inventory}
  Dependency = {process, inventory}
  Required = {process, inventory}
  Check = {c1}
  Stopper = {"app", "other"}
INVARIANTS
  OpsTypeOK
  NeverReadyLate
  StoppedIsQuiet
PROPERTIES
  ShutdownEnds
\* Every component stops.
CHECK_DEADLOCK FALSE
