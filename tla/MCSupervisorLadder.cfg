SPECIFICATION Spec
CONSTANTS
  l1 = l1
  l2 = l2
  prose = prose
  Incidents = {l1, l2, prose}
  TypeOf <- MCTypeOf
  Advisory = {"injection"}
  Sightings <- MCSightings
  Ladders <- MCLadders
  Cooldown = 1
  MaxInterventions = 4
  Restores = TRUE
  MaxEvents = 4
INVARIANTS
  ClimbsInOrder
  OutcomesKnown
PROPERTIES
  ExpiredNotAsked
  SilentOnceClosed
  ObserverReturns
