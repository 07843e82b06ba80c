SPECIFICATION FairSpec
CONSTANTS
  Hosts = {x, y}
  NameOf <- MCNameOf
  DeclaredAt <- MCDeclaredAt
  MaxFaults = 2
INVARIANTS TypeOK TokenSpeaksForKey
PROPERTIES SelfHeals NamesakesTakeTurns
CHECK_DEADLOCK FALSE
