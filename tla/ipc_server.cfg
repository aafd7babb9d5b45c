SPECIFICATION FairSpec
CONSTANTS
  Clients = {c1, c2}
  NoClient = NoClient
  MAX_FRAME_SIZE = 3
  Timeout = 2
  AcceptFails = TRUE
INVARIANTS
  HoldIsBounded
  ExitCodeTells
PROPERTIES
  FramedIsRead
  StaleSocketReplaced
  EveryoneServed
  ShutdownStops
