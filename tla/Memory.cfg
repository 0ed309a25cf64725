\* Two requests at a time on three capsules that could supersede each other in a
\* circle, or on a note.
SPECIFICATION MemorySpec
CONSTANTS
  k1 = k1
  k2 = k2
  k3 = k3
  None = None
  Capsule = {k1, k2, k3}
  Note = {n1}
  Link = {l1, l2, l3}
  Caller = {c1, c2}
  Relate <- CircleAndRivals
  EditAbout = {k2}
  EditTo = {None, "active", "archived"}
  MaxVersion = 1
CONSTRAINT OneSubject
SYMMETRY Symmetry
INVARIANTS
  MemoryTypeOK
  OneCapsulePerNote
  SupersedesAcyclic
  ConflictsOneWay
  SupersededIsRetired
  HistoryTellsTheOutcome
PROPERTIES
  ResolvedNotesStand
CHECK_DEADLOCK FALSE
