\* Two publishes race for one version; a crash; scans, reviews, catalog, downloads.
CONSTANTS
  p1 = p1  p2 = p2  s1 = s1  r1 = r1  c1 = c1  g1 = g1
  good = good  bad = bad
  Versions <- OneVersion
  Archives = {good, bad}
  Hostile = {bad}
  LateHostile = {good}
  Publishers = {p1, p2}
  Scanners = {s1}
  Reviewers = {r1}
  Readers = {c1}
  Downloads = {g1}
  MaxBumps = 2
  MaxFaults = 1
SPECIFICATION Spec
SYMMETRY PublisherSymmetry
INVARIANTS
  ArchiveBacked
  ServedIsVetted
  CatalogFresh
PROPERTY VersionImmutable
