\* The run is killed anywhere and resumed, on a priced model and on an unpriced one.
CONSTANTS
  a1 = a1
  a2 = a2
  repo1 = repo1
  repo2 = repo2
  Alerts = {a1, a2}
  Repos = {repo1, repo2}
  RepoOf <- AlertPerRepo
  MaxToolCalls = 1
  Attempts = 2
  MinCost = 1
  MaxCost = 1
  MaxBatch = 2
  UsdCap <- DollarCaps
  TokenCap <- TokenCaps
  BreachActions = {"queue_next_run", "fail"}
  MayStop = TRUE
  MaxPasses = 2
  NoAlert = NoAlert
  NoRepo = NoRepo
  NoCap = NoCap
SPECIFICATION FairSpec
INVARIANTS
  TypeOK
  CapsHold
  OneCallLostPerPass
PROPERTIES
  DeferredUntilNextRun
  EveryQuestionEnds
