SPECIFICATION Spec
CONSTANTS
  s1 = s1
  s2 = s2
  t1 = t1
  t2 = t2
  i1 = i1
  i2 = i2
  i3 = i3
  a1 = a1
  Wiki = Wiki
  Nothing = Nothing
  NoProc = NoProc
  Sessions = {s1, s2}
  Topics = {t1, t2}
  Ingests = {i1, i2, i3}
  Agents = {a1}
  LockRoots = {Wiki, s1, s2}
  SessionOf <- MCSessionOf
  TopicOf <- MCTopicOf
  PageOf <- MCPageOf
  MaxLog = 2
  Casts <- MCCasts
INVARIANTS
  CompleteIsWritten
  CaptureNeverBack
PROPERTIES
  FactsKept
