SPECIFICATION FairSpec
CONSTANTS
  a1 = a1  a2 = a2  d1 = d1  e1 = e1  e2 = e2  x = x  y = y
  Clients = {a1, a2}
  Dossiers = {d1}
  Certs = {e1, e2}
  Bundles <- Rivals
  MaxTime = 1
  MaxFaults = 2
CHECK_DEADLOCK FALSE
INVARIANTS
  TypeOK
  EnvelopesAreSound
  HandlersJustified
  AnswersAgree
PROPERTIES
  OneSignature
  RetrySettles
