SPECIFICATION Spec
CONSTANTS
  s1 = s1  s2 = s2  c1 = c1  i1 = i1  i2 = i2
  cc = cc  stack = stack  bogus = bogus
  Scans = {s1, s2}
  Certs = {c1}
  Purgeable = {}
  Instances = {i1}
  Corpora = {cc, stack}
  Serial = {cc}
  Gated = {stack}
  UnknownCorpus = bogus
  DefaultCorpora <- MCDefault
  Requests <- ValidAndNot
  HitCounts = {1}
  CorpusTimeout = 1
  DbLatency = 0
  MaxAge = 0
  TTL = 0
  MaxTime = 1
  MaxFaults = 1
  MaxCrashes = 1
CHECK_DEADLOCK FALSE
SYMMETRY Symmetric
INVARIANTS
  ResultsMatchJob
  NoOldOrphans
  LifeInv
  HitCountIsSum
PROPERTIES
  JobView
