SPECIFICATION FairSpec
CONSTANTS
  r1 = r1  r2 = r2  k1 = k1  k2 = k2
  frontend = frontend  foreign = foreign  none = none  unparsable = unparsable  absent = absent
  Bastion = "bastion"
  Frontend = "inkprint-frontend"
  FrontendRole = "frontend"
  Service = "inkprint"
  Absent = absent
  Leeway = 1
  MaxLifetime = 5
  Requests = {r1, r2}
  BastionKeys = {k1, k2}
  FrontendKey = frontend
  ForeignKey = foreign
  Tokens <- MCTokens
  Deployments <- MCDeployments
  Unparsable = unparsable
  None = none
  KeyTTL = 2
  RetryAfter = 1
  FetchTime = 1
  MaxTime = 4
CHECK_DEADLOCK FALSE
INVARIANTS
  TypeOK
  ProceedsJustified
  RotationTakesHold
  WaitsOneFetch
PROPERTIES
  FetchesSpaced
  RequestsAnswered
