SPECIFICATION FairSpec
CONSTANTS
  Modes <- MCModes
  Docs <- MCDocs
  Replies <- FewReplies
  Endpoints = {"e"}
  Addrs = {u}
  NoAddr = NoAddr
  BadAddr = BadAddr
  BadKey = "bad"
  NoDoc = NoDoc
PROPERTY RoutesConverge
