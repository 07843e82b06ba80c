SPECIFICATION Spec
CONSTANTS
  Names = {"n1", "n2"}
  Keys = {"k1", "k2"}
  Endpoints = {"adv"}
  Calls = {g1, g2}
  Commits <- MCCommits
  DocAt <- MCDocs
  NoCommit = "none"
  MaxRegs = 2
  MaxTime = 1
SYMMETRY CallSymmetry
INVARIANTS TypeOK RowsAreWhole HubKeepsEndpoint ReplyMatchesCommit
PROPERTIES HeartbeatTouchesOwnRow SupersededTokenStaysDead
