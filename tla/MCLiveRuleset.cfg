SPECIFICATION Spec
CONSTANTS
  Address = {1, 2, 3, 4, 5, 6}
  Docs <- MCDocs
  NoDoc = NoDoc
INVARIANTS LiveRulesetMatchesSpec
