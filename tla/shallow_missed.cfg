\* A pass killed between its measurements and the shallow check.
CONSTANTS
  a1 = a1
  a2 = a2
  Alerts = {a1}
  Runs = {r1}
  Trees = {t1}
  Bundles = {"silent", "found"}
  Modes = {"fleet"}
  Supported = {a1}
  UpgradePath <- DistinctPaths
  RequireAgreement = TRUE
  MayResume = TRUE
  MayStop = TRUE
  MaxPasses = 2
  NoRun = NoRun
  NoVerdict = NoVerdict
  NoTree = NoTree
SPECIFICATION Spec
INVARIANT
  ShallowIsFlagged
