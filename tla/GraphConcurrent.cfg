\* A node and its gate, two requests at a time.
SPECIFICATION GraphSpec
CONSTANTS
  plan = plan
  build = build
  gate = gate
  Node = {build, gate}
  DependsOn <- GateDependsOn
  Human = {gate}
  Ask = {i1, i2}
  Caller = {c1, c2}
  Actor = {executor, reviewer}
  Executor = executor
  Nobody = Nobody
  UpdateTo = {"running", "completed"}
  AskAbout = {gate}
  RunTo = {}
  MaxClock = 2
SYMMETRY Symmetry
\* A finished run accepts no request: the system stops there.
CHECK_DEADLOCK FALSE
INVARIANTS
  GraphTypeOK
  GateNeedsAnswer
PROPERTIES
  ImplementsGates
