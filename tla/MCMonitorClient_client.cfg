SPECIFICATION Spec
CONSTANTS
  Modes = {"single","set"}
  Workspaces = {w1, w2}
  Runs = {r1, r2}
  w1 = w1
  w2 = w2
  r1 = r1
  r2 = r2
  ChildRuns = {r2}
  Unlisted = {1}
  Visits <- MCVisits
  Faults = {"lost", "other", "nounit", "hostile", "defect", "failed", "capped", "limit"}
  None = None
  MaxChanges = 3
  MaxActs = 2
  MaxFaults = 2
  MaxBreaks = 1
  MaxTrouble <- MCTrouble
CHECK_DEADLOCK FALSE
INVARIANTS
  TypeOK SettledViewIsRouted ToldIsShown SingleFlight FreshAnswerIsRouted
  SupersededIsReplayed LastPaintDescribesScreen LossIsStructured
PROPERTIES
  ManualIsOverlay WorkRunsOut VersionsNeverRegress
