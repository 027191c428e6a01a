SPECIFICATION FairSpec
CONSTANTS
  r1 = r1  r2 = r2  t1 = t1  t2 = t2  t3 = t3  blank = blank  zero = zero
  Requests = {r1, r2}
  Texts = {t1, t2, t3, blank}
  Posts <- PairAndOne
  Deployments <- AllButBoth
  Zero = zero
  Canonical <- MCCanonical
  NoBytes = ""
  SearchLimit = 2
  Unit = 10
  Missing = missing
  Distance <- MCDistance
  Similarity <- MCSimilarity
  MaxFaults = 1
  MaxCrashes = 1
CHECK_DEADLOCK FALSE
INVARIANTS TypeOK KeysAreBacked RepliesAreDurable HealthFollowsStorage OwnTextVerifies ManifestVerifies SearchFinds
PROPERTY RequestsEnd
