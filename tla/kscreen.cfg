SPECIFICATION Spec
CONSTANTS
  o1 = o1
  o2 = o2
  bad = bad
  s1 = s1
  s2 = s2
  card0 = card0
  card1 = card1
  alice = alice
  bob = bob
  Root = root
  Nobody = Nobody
  NoDevice = NoDevice
  NoSlot = NoSlot
  Cards <- TwoCards
  Connectors <- AllConnectors
  CardOf <- CardOfConnector
  KindOf <- KindOfConnector
  Users <- TwoUsers
  Sockets <- TwoSocketsEach
  Ports <- ThreePorts
  BadNames <- OneBad
  DefaultDevice = NoDevice
  DisableOutputs <- OneDisabled
  Coordinates <- TwoCoordinates
  ScreenMode <- FullHD
  Requested <- Asked
  ExtraAllowed <- Extra
SYMMETRY
  UserSymmetry
INVARIANTS
  VerifiedIsDriven
  CanConnectAgain
  OnlyOwnerEnds
PROPERTIES
  LayoutRestored
  NoOverlap
  PermittedModeVerifies
