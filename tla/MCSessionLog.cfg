SPECIFICATION Spec
CONSTANTS
  f = f
  r1 = r1
  r2 = r2
  p1 = p1
  p2 = p2
  p3 = p3
  NoRun = NoRun
  Runs = {f, r1, r2}
  Procs = {p1, p2, p3}
  Deployments <- MCDeployments
  Fresh = f
  MaxLen = 6
  Overlap = FALSE
  Faults = TRUE
INVARIANTS
  SeqInOrder
PROPERTIES
  TornIsFinal
