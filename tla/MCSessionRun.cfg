SPECIFICATION Spec
CONSTANTS
  s1 = s1
  None = None
  Steers = {s1}
  MaxTurns <- MCMaxTurns
  MaxRuns = 2
  MaxRecoveries = 1
  MaxContinued = 1
  KeepLast = 1
  Scenarios <- MCScenarios
INVARIANTS
  EndIsLast
  TurnsBracketed
  SteersConserved
  ConversationPaired
  ReplayMatches
  EndsAfterOrphans
  ContinuationsAnswered
PROPERTIES
  AbortReturns
