\* Two requests at a time that recall and report for one task, and a third that edits
\* a capsule.
SPECIFICATION ImpactsSpec
CONSTANTS
  k1 = k1
  k2 = k2
  None = None
  Capsule = {k1, k2}
  Note = {}
  Link = {}
  Caller = {c1}
  Relate = {}
  EditAbout = {k2}
  EditTo = {None, "active"}
  MaxVersion = 1
  Task = {t1}
  Reporter = {r1, r2}
  ReportAbout = {k2}
  ReportTo = {"applied", "helpful", "stale"}
  MaxStamp = 2
CONSTRAINT OneSubject
SYMMETRY Symmetry
INVARIANTS
  ImpactsTypeOK
  ContextIsFrozen
  EveryContextIsCounted
  FinalsAreMirrored
  StaleIsRetired
PROPERTIES
  AgentsKeepFinals
CHECK_DEADLOCK FALSE
