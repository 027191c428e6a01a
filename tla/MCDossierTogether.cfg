SPECIFICATION Spec
CONSTANTS
  a1 = a1  a2 = a2  d1 = d1  e1 = e1  e2 = e2  x = x  y = y
  Clients = {a1, a2}
  Dossiers = {d1}
  Certs = {e1, e2}
  Bundles <- OneBundle
  MaxTime = 0
  MaxFaults = 0
CHECK_DEADLOCK FALSE
INVARIANTS
  IdenticalInputsReturned
