\* Claims race with dependencies and with edits that name the state they expect.
SPECIFICATION Spec
CONSTANTS
  p1 = p1
  t1 = t1
  a = a
  b = b
  Nil = Nil
  NoAgent = NoAgent
  Project = {p1}
  ProjectOf <- OneProject
  Worker = {w1, w2}
  WorkStage = {"start"}
  Task = {t1, t2}
  Adder = {h1}
  Agent = {a}
  Priority = {0, 1}
  LeaseLength = {1}
  DefaultLease = 1
  Edits <- ConditionalEdits
  MaxClock = 1
SYMMETRY Symmetry
PROPERTIES
  ClaimsOnlyRunnable
  StateMovesOnlyAsAsked
