\* One run id, killed or aborted anywhere and invoked again, in any mode.
CONSTANTS
  a1 = a1
  a2 = a2
  Alerts = {a1, a2}
  Runs = {r1}
  Trees = {t1}
  Bundles = {"silent", "found", "proven"}
  Modes = {"fleet", "scan", "free"}
  Supported = {a1, a2}
  UpgradePath <- DistinctPaths
  RequireAgreement = TRUE
  MayResume = TRUE
  MayStop = TRUE
  MaxPasses = 3
  NoRun = NoRun
  NoVerdict = NoVerdict
  NoTree = NoTree
SPECIFICATION FairSpec
INVARIANTS
  TypeOK
  StageChain
  FunnelIsTotal
  SuppressedInherits
  InheritedNeverConfirmed
PROPERTIES
  ProofBlocksDismissal
  Implements
  EveryPassEnds
