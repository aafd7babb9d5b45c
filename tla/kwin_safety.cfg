SPECIFICATION Spec
CONSTANTS
  main = main
  helper = helper
  o1 = o1
  o2 = o2
  s1 = s1
  s2 = s2
  NoState = NoState
  NoThread = NoThread
  Main = main
  Threads <- TwoThreads
  Outputs <- TwoOutputs
  Slots <- TwoSlots
  DisableOutputs = {}
  NameContains <- NameClash
  Faults <- StrategyFaults
SYMMETRY DisplaySymmetry
INVARIANTS
  TypeOK
  Recoverable
  NothingLeftBehind
  SessionMatchesJournal
  NeverStuckConnecting
PROPERTY
  ImplementsLifecycle
