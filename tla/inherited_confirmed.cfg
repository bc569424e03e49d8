\* A second run that clusters the alerts differently.
CONSTANTS
  a1 = a1
  a2 = a2
  Alerts = {a1, a2}
  Runs = {r1, r2}
  Trees = {t1}
  Bundles = {"found"}
  Modes = {"fleet"}
  Supported = {a1, a2}
  UpgradePath <- DistinctPaths
  RequireAgreement = TRUE
  MayResume = FALSE
  MayStop = FALSE
  MaxPasses = 2
  NoRun = NoRun
  NoVerdict = NoVerdict
  NoTree = NoTree
SPECIFICATION Spec
INVARIANT
  InheritedNeverConfirmed
