SPECIFICATION FairSpec
CONSTANTS
  Address = {1, 2, 3, 4, 5, 6}
  Docs <- MCDocs
  NoDoc = NoDoc
INVARIANTS TypeOK EnforcedUntilRewritten NeverOverblocks OneJump
PROPERTY PolicyKeepsReturning
