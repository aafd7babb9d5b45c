SPECIFICATION Spec
CONSTANTS
  Records = {r1, r2, r3}
  NoFile = NoFile
  Torn = Torn
INVARIANTS
  SavedIsDurable
  NeverCorrupt
PROPERTY
  ImplementsAtomicJournal
