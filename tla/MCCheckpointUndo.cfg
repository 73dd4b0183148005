SPECIFICATION Spec
CONSTANTS
  A = A
  B = B
  a1 = a1
  a2 = a2
  b1 = b1
  ua = ua
  fa = fa
  fb = fb
  old = old
  Absent = Absent
  NoTree = NoTree
  NoProc = NoProc
  User = User
  Sessions = {A, B}
  Runs = {a1, a2, b1}
  Undos = {ua}
  Paths = {fa, fb}
  SessionOf <- MCSessionOf
  RunNo <- MCRunNo
  Start <- MCStart
  Casts <- MCCasts
  MaxTurns = 2
  Retained = 1
INVARIANTS
  NothingDestroyed
  LeaseExcludes
  SealIsCertain
PROPERTIES
  TakesOnlyOwn
