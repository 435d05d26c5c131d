SPECIFICATION Spec
CONSTANTS
  Path <- ProjectPath
  Torn = Torn
  Absent = Absent
  Headless = Headless
  MaxFaults = 0
  MaxCommands = 5
  MaxEdits = 1
  Kind = {"grpc"}
  Service = {}
  Versioned = {}
  Method = {}
  Handler = {}
  Client = {}
  Operation = {}
  ProtoFile = {f1, f2}
INVARIANTS NothingLeftBehind
CHECK_DEADLOCK FALSE
