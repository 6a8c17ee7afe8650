SPECIFICATION Spec
CONSTANTS
  w1 = w1
  w2 = w2
  w3 = w3
  Writers = {w1, w2, w3}
  Forcers = {w1, w2}
  Nobody = Nobody
  Careful = TRUE
  StaleAfter = 1
  MaxTime = 2
  MaxEvents = 2
INVARIANT ActiveLeaseRefused
CHECK_DEADLOCK FALSE
