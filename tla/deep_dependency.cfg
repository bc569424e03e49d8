\* Cases of a lockfile whose chain of dependents is longer than the labeller follows.
CONSTANTS
  Slots = {1}
  Candidates <- MCDeepCandidates
  RuleSets <- MCRuleSets
  HttpLike <- MCHttpLike
  MaxDepth = 8
  Unknown = Unknown
  NoGraph = NoGraph
  Stdlib = Stdlib
  Null = Null
  NoCase = NoCase
  NoReport = NoReport
SPECIFICATION Spec
INVARIANT
  NoDependentIsDecisive
