SPECIFICATION FairDaemonSpec
CONSTANTS
  main = main
  handler = handler
  o1 = o1
  s1 = s1
  NoState = NoState
  NoThread = NoThread
  Main = main
  Threads <- DaemonThreads
  Sleeper = handler
  Outputs <- OneOutput
  Slots <- OneSlot
  DisableOutputs = {}
  NameContains = {}
  Faults = {}
  DaemonFaults = {}
  MaxGen = 2
  MaxSunshine = 1
  MaxSignals = 0
PROPERTY
  SunshineExitDisconnects
