\* Two scanners share the checkouts, the cache and the database while the branch moves.
CONSTANTS
  p1 = p1
  p2 = p2
  c1 = c1
  c2 = c2
  d1 = d1
  main = main
  Scanners = {p1, p2}
  Commits = {c1, c2}
  Names = {main}
  Pinned <- Pins
  Affected = {d1}
  Refs = {main}
  CacheTtl = 0
  MaxTime = 1
  MaxPushes = 1
  MaxScans = 2
  NoCommit = NoCommit
SPECIFICATION Spec
INVARIANTS
  TypeOK
  TreeIsWhole
  CoverageIsHonest
PROPERTIES
  EveryTreeStays
  EveryScanEnds
