SPECIFICATION Spec
CONSTANTS
  Names = {"n1", "n2"}
  Keys = {"k1"}
  Endpoints = {"adv"}
  Calls = {g1}
  Commits <- MCCommits
  DocAt <- MCDocs
  NoCommit = "none"
  MaxRegs = 2
  MaxTime = 1
INVARIANTS HubsInReplyHaveEndpoint
