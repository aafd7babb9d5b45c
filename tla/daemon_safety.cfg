SPECIFICATION DaemonSpec
CONSTANTS
  main = main
  handler = handler
  o1 = o1
  s1 = s1
  NoState = NoState
  NoThread = NoThread
  Main = main
  Threads <- DaemonThreads
  Sleeper = handler
  Outputs <- OneOutput
  Slots <- OneSlot
  DisableOutputs = {}
  NameContains = {}
  Faults = {}
  DaemonFaults <- AllDaemonFaults
  MaxGen = 2
  MaxSunshine = 1
  MaxSignals = 1
INVARIANTS
  DaemonTypeOK
  CleanExit
  CoveredSleep
