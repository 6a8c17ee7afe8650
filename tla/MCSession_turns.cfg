SPECIFICATION FairSpec
CONSTANTS
  Calls = {c1, c2}
  NoCall = NoCall
  NoTurn = NoTurn
  MaxIncarnations = 2
  MaxGenerations = 2
  MaxSpan = 3
  MaxRetries = 1
  MaxFaults = 1
INVARIANTS
  TypeOK
  EvidenceKept
  HeldByRunningTurn
  SeqContiguous
PROPERTIES
  ImplementsLedger
  TurnStartsClean
  InterruptClosesLog
  TurnSettles
