SPECIFICATION FairDaemonSpec
CONSTANTS
  main = main
  handler = handler
  o1 = o1
  s1 = s1
  NoState = NoState
  NoThread = NoThread
  Main = main
  Threads <- DaemonThreads
  Sleeper = handler
  Outputs <- OneOutput
  Slots <- OneSlot
  DisableOutputs = {}
  NameContains = {}
  Faults = {"sysfs"}
  DaemonFaults = {}
  MaxGen = 1
  MaxSunshine = 0
  MaxSignals = 1
INVARIANT
  ConnectedIsDriven
PROPERTIES
  InhibitorReleased
  LockReleased
  DisconnectSettles
