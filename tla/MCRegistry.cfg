SPECIFICATION Spec
CONSTANTS
  Names = {"n2"}
  Keys = {"k1"}
  Endpoints = {"adv"}
  Calls = {g1, g2}
  Commits <- MCCommits
  DocAt <- MCDocs
  NoCommit = "none"
  MaxRegs = 2
  MaxTime = 2
SYMMETRY CallSymmetry
INVARIANTS SeenSinceRegistered
PROPERTIES ImplementsRegistry
