\* One run id whose head moves between a killed pass and its resumption.
CONSTANTS
  a1 = a1
  a2 = a2
  Alerts = {a1}
  Runs = {r1}
  Trees = {t1, t2}
  Bundles = {"found"}
  Modes = {"fleet"}
  Supported = {a1}
  UpgradePath <- DistinctPaths
  RequireAgreement = TRUE
  MayResume = TRUE
  MayStop = TRUE
  MaxPasses = 2
  NoRun = NoRun
  NoVerdict = NoVerdict
  NoTree = NoTree
SPECIFICATION Spec
INVARIANT
  StampIsMeasuredTree
