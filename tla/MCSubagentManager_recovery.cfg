SPECIFICATION Spec
CONSTANTS
  Agents = {a1, a2}
  Writers = {a1}
  Watched = {}
  MaxThreads = 1
  MaxRetries = 1
  MaxInputs = 1
  MaxStartFailures = 1
  MaxRestarts = 1
  MaxMailbox = 1
INVARIANTS
  RunningHasDeadline
  QueueNeverStallsBeforeRestart
  NoOrphanBeforePrompt
PROPERTIES
  QueueStartsWithinLimit
CHECK_DEADLOCK FALSE
