\* Two rounds of one combination, two requests in flight.
SPECIFICATION Spec
CONSTANTS
  Round = {r1, r2}
  Combo = {c1}
  ComboOf <- OneCombo
  Request = {p1, p2}
  Backends = {"sqlite", "dynamo"}
  Attempts = 3
  Ttl = 1
  Retention = 2
  Patience = 1
  MaxTime = 4
  None = None
SYMMETRY Alike
INVARIANTS
  TypeOK
  NothingIsKeptForever
PROPERTIES
  KeepsLedger
CHECK_DEADLOCK FALSE
