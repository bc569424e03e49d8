\* One alert of every kind through every stage, under both configurations of the gate.
CONSTANTS
  RawAlerts <- MCRawAlerts
  Trees <- MCTrees
  Targets <- MCTargets
  Siblings <- MCSiblings
  Outcomes <- MCOutcomes
  Neighbours <- MCNeighbours
  Answers <- MCAnswers
  AgreementAsked = {TRUE, FALSE}
  MaxAttempts = 2
  MaxInvocations = 2
  Unknown = Unknown
  NoGraph = NoGraph
  Stdlib = Stdlib
  Null = Null
  NoFacts = NoFacts
  NoBundle = NoBundle
  NoVerdict = NoVerdict
SPECIFICATION Spec
INVARIANTS
  TypeOK
  ClearedShipsOnlyOutOfSight
  KevCriticalIsEscalated
  OsvAlertNeverFixed
  DismissedIsProved
PROPERTIES
  EverySettles
