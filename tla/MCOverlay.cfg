SPECIFICATION Spec
CONSTANTS
  Nodes = {"p", "q", "a", "b"}
  Edits <- MCEdits
  MaxFaults <- MCMaxFaults
  Address = {1, 2, 3, 4, 5}
  NoAddr = NoAddr
  BadAddr = BadAddr
  BadKey = "bad"
INVARIANTS TypeOK EndsAreKnown PolicyByName SettledAsDeclared
