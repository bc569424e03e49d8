\* Two harvested cases, labelled, scored with one policy, perhaps edited, scored with another.
CONSTANTS
  Slots = {1, 2}
  Candidates <- MCCandidates
  RuleSets <- MCRuleSets
  HttpLike <- MCHttpLike
  MaxDepth = 8
  Unknown = Unknown
  NoGraph = NoGraph
  Stdlib = Stdlib
  Null = Null
  NoCase = NoCase
  NoReport = NoReport
SPECIFICATION Spec
INVARIANTS
  TypeOK
  SearchesAgree
  RuleMissesAreUnindexed
  DismissalIsMeasured
  GoldenClearsLikePipeline
  AcceptedPaysInAbstentions
