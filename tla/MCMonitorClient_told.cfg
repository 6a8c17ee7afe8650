SPECIFICATION Spec
CONSTANTS
  Modes = {"single"}
  Workspaces = {w1, w2}
  Runs = {r1, r2}
  w1 = w1
  w2 = w2
  r1 = r1
  r2 = r2
  ChildRuns = {r2}
  Unlisted = {0}
  Visits <- MCVisits
  Faults = {"lost", "other", "nounit", "hostile", "defect", "failed", "capped", "limit"}
  None = None
  MaxChanges = 3
  MaxActs = 2
  MaxFaults = 1
  MaxBreaks = 1
  MaxTrouble <- MCTrouble
CHECK_DEADLOCK FALSE
INVARIANT ToldListIsShown
