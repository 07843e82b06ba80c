SPECIFICATION Spec
CONSTANTS
  c1 = c1
  c2 = c2
  bad = bad
  NoCommit = NoCommit
  Commits <- MCCommits
  ValidCommits <- MCValidCommits
  Interval = 3
  MinBackoff = 2
  MaxBackoff = 5
  MaxPushes = 3
  MaxRestarts = 1
  MaxFails = 3
INVARIANTS TypeOK NoLostUpdate CurrentIsPublishedOrError BackoffSchedule
CHECK_DEADLOCK FALSE
