\* Two agents compete for one task by claim, heartbeat, release and edit.
SPECIFICATION Spec
CONSTANTS
  p1 = p1
  t1 = t1
  a = a
  b = b
  Nil = Nil
  NoAgent = NoAgent
  Project = {p1}
  ProjectOf <- OneProject
  Worker = {w1, w2}
  WorkStage = {"start"}
  Task = {t1}
  Adder = {}
  Agent = {a, b}
  Priority = {0, 1}
  LeaseLength = {1}
  DefaultLease = 2
  Edits <- OwnersAndOthers
  MaxClock = 3
SYMMETRY Symmetry
INVARIANTS
  TypeOK
  CompletedIffDone
PROPERTIES
  HandoverOnlyAfterExpiry
  EditsRespectOwner
  LeasesMoveForTheirOwner
  ImplementsLease
