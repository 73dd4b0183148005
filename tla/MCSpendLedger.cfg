SPECIFICATION Spec
CONSTANTS
  c1 = c1
  c2 = c2
  c3 = c3
  p1 = p1
  p2 = p2
  NoProc = NoProc
  Calls = {c1, c2, c3}
  Procs = {p1, p2}
  Plans <- MCPlans
  Cap = 4
  Reserve = 2
  Bills <- MCBills
  MaxLive = 2
  MaxWaiting = 2
INVARIANTS
  TypeOK
  WithinCap
  OneSpender
PROPERTIES
  LossStopsSpending
  OperationsReturn
