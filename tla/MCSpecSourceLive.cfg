SPECIFICATION FairSpec
CONSTANTS
  c1 = c1
  c2 = c2
  bad = bad
  NoCommit = NoCommit
  Commits <- MCCommits
  ValidCommits <- MCValidCommits
  Interval = 3
  MinBackoff = 2
  MaxBackoff = 2
  MaxPushes = 1
  MaxRestarts = 1
  MaxFails = 1
PROPERTIES FollowsTip ShutdownCompletes
CHECK_DEADLOCK FALSE
