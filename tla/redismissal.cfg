\* A run resumed twice.
CONSTANTS
  a1 = a1
  a2 = a2
  Alerts = {a1}
  Runs = {r1}
  Trees = {t1}
  Bundles = {"found"}
  Modes = {"fleet"}
  Supported = {a1}
  UpgradePath <- DistinctPaths
  RequireAgreement = TRUE
  MayResume = TRUE
  MayStop = FALSE
  MaxPasses = 3
  NoRun = NoRun
  NoVerdict = NoVerdict
  NoTree = NoTree
SPECIFICATION Spec
INVARIANT
  AtMostOneDismissal
