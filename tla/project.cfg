SPECIFICATION Spec
CONSTANTS
  Path <- ProjectPath
  Torn = Torn
  Absent = Absent
  Headless = Headless
  MaxFaults = 1
  MaxCommands = 3
  MaxEdits = 1
  Kind = {"mixed", "proto"}
  Service = {s1, s2}
  Versioned = {s1}
  Method = {m1}
  Handler = {h1}
  Client = {c1}
  Operation = {o1}
  ProtoFile = {f1}
INVARIANTS TypeOK AllOrNothing UserCodeKept
PROPERTIES BindingsAgree GenerateReconciles
CHECK_DEADLOCK FALSE
