\* Clusters made, recorded and inherited through, over passes killed anywhere.
CONSTANTS
  a1 = a1
  a2 = a2
  a3 = a3
  a4 = a4
  b1 = b1
  c1 = c1
  Alerts = {a1, a2, a3, a4, b1, c1}
  UpgradePath <- MCUpgradePath
  Facts <- MCFacts
  Place <- MCPlace
  MaxShortlist = 2
  MaxPasses = 2
  NoAlert = NoAlert
SPECIFICATION Spec
INVARIANTS
  TypeOK
  NamesItsReasoner
  InheritsFromKin
PROPERTY
  RecordsAGrouping
