\* Two runs on one database, one after the other, never killed: replays and
\* stale rows.
CONSTANTS
  a1 = a1
  a2 = a2
  Alerts = {a1, a2}
  Runs = {r1, r2}
  Trees = {t1, t2}
  Bundles = {"broken", "blind", "silent", "found", "proven"}
  Modes = {"fleet"}
  Supported = {a1}
  UpgradePath <- SharedPath
  RequireAgreement = TRUE
  MayResume = FALSE
  MayStop = FALSE
  MaxPasses = 2
  NoRun = NoRun
  NoVerdict = NoVerdict
  NoTree = NoTree
SPECIFICATION Spec
INVARIANTS
  AgreementIsReviewed
  AtMostOneDismissal
  ShallowIsFlagged
PROPERTY
  DismissalReviewed
