SPECIFICATION Spec
CONSTANTS
  Modes <- MCModes
  Docs <- MCDocs
  Replies <- MCReplies
  Endpoints = {"e"}
  Addrs = {u}
  NoAddr = NoAddr
  BadAddr = BadAddr
  BadKey = "bad"
  NoDoc = NoDoc
INVARIANTS TypeOK DeviceAsDeclared
PROPERTY RoutesMoveDirectly
