\* Two dependency requests in flight at once, deletions under them.
SPECIFICATION FairDepsSpec
CONSTANTS
  Task = {t1, t2, t4}
  t4 = t4
  p1 = p1
  p2 = p2
  Project = {p1, p2}
  ProjectOf <- OneApart
  Adder = {h1, h2}
INVARIANTS
  EdgesJoinLiveTasks
PROPERTIES
  AcyclicUnlessRaced
  WalksNeverTurnBack
  AddsEnd
