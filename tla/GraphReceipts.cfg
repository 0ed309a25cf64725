\* A finished node is finished again, in a later version.
SPECIFICATION PatientGraphSpec
CONSTANTS
  plan = plan
  build = build
  gate = gate
  Node = {plan, build, gate}
  DependsOn <- ChainDependsOn
  Human = {gate}
  Ask = {i1, i2}
  Caller = {c1}
  Actor = {executor, reviewer}
  Executor = executor
  Nobody = Nobody
  UpdateTo = {"pending", "ready", "running", "waiting", "completed", "failed", "skipped"}
  AskAbout = {plan, build, gate}
  RunTo = {"running", "completed", "failed"}
  MaxClock = 3
SYMMETRY Symmetry
\* A finished run accepts no request: the system stops there.
CHECK_DEADLOCK FALSE
INVARIANTS
  ReceiptsAreCurrent
