\* A checkpoint in flight while its run is finished.
SPECIFICATION RunSpec
CONSTANTS
  Task = {t1}
  Agent = {a, b}
  NoAgent = NoAgent
  Run = {r1, r2}
  Caller = {c1, c2}
  SingleLoop = SingleLoop
  AnyTemplate = AnyTemplate
  Template = {SingleLoop, engineering_flow}
SYMMETRY Symmetry
PROPERTIES
  FinishedStaysFinished
