\* Two processes that migrate one database, and two requests at a time on a document
\* and an image.
SPECIFICATION ServerSpec
CONSTANTS
  p1 = p1
  None = None
  Process = {p1, p2}
  Latest = 4
  Repeatable = {1, 3}
  Task = {t1}
  Doc = {d1}
  Image = {i1}
  Caller = {c1, c2}
  Home <- OneServes
  MaxRevision = 3
CONSTRAINT StartingOrServing
SYMMETRY Symmetry
INVARIANTS
  ServerTypeOK
  EachMigrationOnce
  RowsHaveFiles
  TempsAreCleaned
  ContentMatchesRow
CHECK_DEADLOCK FALSE
