SPECIFICATION FairSpec
CONSTANTS
  Agents = {a1, a2}
  Writers = {a1}
  Watched = {a1}
  MaxThreads = 1
  MaxRetries = 1
  MaxInputs = 0
  MaxStartFailures = 0
  MaxRestarts = 0
  MaxMailbox = 2
INVARIANTS
  TypeOK
  ActiveWithinLimit
  WaiterIsAnswered
PROPERTIES
  SupersededAttemptIsMute
  QueuedMovesOn
CHECK_DEADLOCK FALSE
