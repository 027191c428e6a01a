SPECIFICATION FairSpec
CONSTANTS
  s1 = s1  s2 = s2  c1 = c1  i1 = i1  i2 = i2
  cc = cc  stack = stack  bogus = bogus
  Scans = {s1}
  Certs = {c1}
  Purgeable = {}
  Instances = {i1}
  Corpora = {cc, stack}
  Serial = {cc}
  Gated = {stack}
  UnknownCorpus = bogus
  DefaultCorpora <- MCDefault
  Requests <- TwoCorpora
  HitCounts = {1}
  CorpusTimeout = 1
  DbLatency = 0
  MaxAge = 1
  TTL = 1
  MaxTime = 3
  MaxFaults = 0
  MaxCrashes = 1
CHECK_DEADLOCK FALSE
PROPERTIES
  JobsTerminate
