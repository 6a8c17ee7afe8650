SPECIFICATION Spec
CONSTANTS
  Agents = {a1}
  Writers = {a1}
  Watched = {}
  MaxThreads = 1
  MaxRetries = 0
  MaxInputs = 1
  MaxStartFailures = 0
  MaxRestarts = 0
  MaxMailbox = 2
INVARIANTS
  NoOrphanTurn
CHECK_DEADLOCK FALSE
