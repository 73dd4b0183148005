SPECIFICATION Spec
CONSTANTS
  d1 = d1
  d2 = d2
  w1 = w1
  e1 = e1
  k1 = k1
  o1 = o1
  o2 = o2
  NoProc = NoProc
  Wiki = Wiki
  Op = Op
  Nowhere = Nowhere
  First = First
  Skeleton = Skeleton
  Dreams = {d1, d2}
  Writers = {w1}
  Editors = {e1}
  Inits = {k1}
  Outs = {o1, o2}
  LockRoots = {Wiki, o1, o2}
  Casts <- MCCasts
  At <- MCAt
  MaxCrashes = 1
INVARIANTS
  NothingLost
  WritesInstalled
  StampsKept
PROPERTIES
  OutputsGuarded
