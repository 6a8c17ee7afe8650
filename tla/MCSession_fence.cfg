SPECIFICATION Spec
CONSTANTS
  Calls = {c1, c2}
  NoCall = NoCall
  NoTurn = NoTurn
  MaxIncarnations = 1
  MaxGenerations = 2
  MaxSpan = 3
  MaxRetries = 0
  MaxFaults = 0
SYMMETRY Symmetry
INVARIANTS
  InterruptFencesTurn
