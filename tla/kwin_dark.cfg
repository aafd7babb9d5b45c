SPECIFICATION Spec
CONSTANTS
  main = main
  helper = helper
  o1 = o1
  o2 = o2
  s1 = s1
  s2 = s2
  NoState = NoState
  NoThread = NoThread
  Main = main
  Threads <- TwoThreads
  Outputs <- OneOutput
  Slots <- OneSlot
  DisableOutputs <- DisableFirst
  NameContains <- NoClash
  Faults = {"kscreen"}
PROPERTY
  RestoredBeforeOff
