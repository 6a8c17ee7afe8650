SPECIFICATION Spec
CONSTANTS
  w1 = w1
  w2 = w2
  w3 = w3
  Writers = {w1, w2, w3}
  Forcers = {w1}
  Nobody = Nobody
  Careful = TRUE
  StaleAfter = 2
  MaxTime = 5
  MaxEvents = 6
INVARIANT TypeOK
INVARIANT SoleHolder
INVARIANT SeqIsPlace
INVARIANT ActiveLeaseRefused
SYMMETRY Symmetry
CHECK_DEADLOCK FALSE
