SPECIFICATION FairSpec
CONSTANTS
  Hosts = {x}
  NameOf <- MCNameOf
  DeclaredAt <- MCDeclaredAt
  MaxFaults = 1
PROPERTY LostKeypairRecovers
CHECK_DEADLOCK FALSE
