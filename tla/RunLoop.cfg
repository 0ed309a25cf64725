\* Two agents, two runs, two requests at a time.
SPECIFICATION RunSpec
CONSTANTS
  Task = {t1}
  Agent = {a, b}
  NoAgent = NoAgent
  Run = {r1, r2}
  Caller = {c1, c2}
  SingleLoop = SingleLoop
  AnyTemplate = AnyTemplate
  Template = {SingleLoop, engineering_flow}
SYMMETRY Symmetry
INVARIANTS
  RunTypeOK
  OneActiveRun
  FinishedIffTerminal
  RunsGoWithTheirTask
