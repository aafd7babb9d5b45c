-------------------------- MODULE JournalFileProofs --------------------------
(***************************************************************************)
(* The system calls of state.rs make an atomic, durable journal, for any   *)
(* records and wherever the process dies or the power goes.                *)
(***************************************************************************)
EXTENDS JournalFile, TLAPS

USE DEF files, vars

\* How far a save has come, and that it works on the record it was given.
SaveInv ==
    /\ pc \in {"open", "write", "sync", "rename", "sync_dir"} => arg \in Records \cap kept
    /\ pc \in {"sync", "rename"} => tmp = arg
    /\ pc = "rename" => synced
    /\ pc = "sync_dir" => file = arg

IndInv ==
    /\ JournalTypeOK /\ SaveInv
    /\ SavedIsDurable /\ NeverCorrupt

LEMMA InitInd == Init => IndInv
BY ContentsAssumption
   DEF Init, IndInv, JournalTypeOK, SaveInv, SavedIsDurable, NeverCorrupt, Contents, Results

LEMMA NextInd == IndInv /\ [Next]_vars => IndInv'
<1> SUFFICES ASSUME IndInv, [Next]_vars PROVE IndInv'
  OBVIOUS
<1> USE ContentsAssumption
    DEF IndInv, JournalTypeOK, SaveInv, SavedIsDurable, NeverCorrupt, Contents, Results, Goto, Fail
<1>1. ASSUME NEW r \in Records, Save(r) PROVE IndInv'
  BY <1>1 DEF Save
<1>2. CASE OpenTmp
  BY <1>2 DEF OpenTmp
<1>3. CASE WriteTmp
  BY <1>3 DEF WriteTmp
<1>4. CASE SyncTmp
  BY <1>4 DEF SyncTmp
<1>5. CASE Rename
  <2>1. CASE Fail("rename")
    BY <2>1
  <2>2. CASE ~Fail("rename")
    \* What was renamed had been synced.
    <3>1. pc = "rename" /\ disk' \in {disk, arg} /\ file' = arg
      BY <1>5, <2>2 DEF Rename
    <3>2. QED
      BY <1>5, <2>2, <3>1 DEF Rename
  <2>3. QED
    BY <2>1, <2>2
<1>6. CASE SyncDir
  BY <1>6 DEF SyncDir
<1>7. CASE Stat
  BY <1>7 DEF Stat
<1>8. CASE Read
  \* What the file holds was saved or removed: it parses.
  <2>1. file # Torn /\ file \in Records \cup {NoFile}
    OBVIOUS
  <2>2. loaded' \in {file, "error"}
    BY <1>8, <2>1 DEF Read, Parsed
  <2>3. QED
    BY <1>8, <2>1, <2>2 DEF Read
<1>9. CASE Delete
  BY <1>9 DEF Delete
<1>10. CASE ProcessDies
  BY <1>10 DEF ProcessDies
<1>11. CASE PowerLoss
  BY <1>11 DEF PowerLoss
<1>12. CASE UNCHANGED vars
  BY <1>12
<1>13. QED
  BY <1>1, <1>2, <1>3, <1>4, <1>5, <1>6, <1>7, <1>8, <1>9, <1>10, <1>11, <1>12 DEF Next

LEMMA Inductive == Spec => []IndInv
BY InitInd, NextInd, PTL DEF Spec

\* A save that returned Ok is found by every later load, whatever stopped the
\* machine in between, unless something was saved or removed after it.
THEOREM SaveLasts == Spec => []SavedIsDurable
<1>1. IndInv => SavedIsDurable
  BY DEF IndInv
<1>2. QED
  BY <1>1, Inductive, PTL

\* A restart never finds half a journal.
THEOREM NeverHalfAJournal == Spec => []NeverCorrupt
<1>1. IndInv => NeverCorrupt
  BY DEF IndInv
<1>2. QED
  BY <1>1, Inductive, PTL

\* The file is an atomic cell: whole records replace one another, and a loss of
\* power takes it back to one of those not yet known to be on disk.
THEOREM FileIsAtomic == Spec => ImplementsAtomicJournal
<1>1. Init => Atomic!Init
  BY DEF Init, Atomic!Init
<1>2. IndInv /\ [Next]_vars => [Atomic!Next]_Atomic!vars
  <2> SUFFICES ASSUME IndInv, [Next]_vars PROVE [Atomic!Next]_Atomic!vars
    OBVIOUS
  <2> USE DEF Atomic!vars
  <2>1. CASE Rename
    <3>1. CASE Fail("rename")
      BY <3>1 DEF Fail
    <3>2. CASE ~Fail("rename")
      BY <2>1, <3>2 DEF Rename, Goto, Fail, IndInv, SaveInv, Atomic!Next, Atomic!Put
    <3>3. QED
      BY <3>1, <3>2
  <2>2. CASE SyncDir
    BY <2>2 DEF SyncDir, Goto, Fail, Atomic!Next, Atomic!Flush
  <2>3. CASE Delete
    BY <2>3 DEF Delete, Atomic!Next, Atomic!Put
  <2>4. CASE PowerLoss
    BY <2>4 DEF PowerLoss, Atomic!Next, Atomic!PowerLoss
  <2>5. CASE ~(Rename \/ SyncDir \/ Delete \/ PowerLoss)
    BY <2>5 DEF Next, Save, OpenTmp, WriteTmp, SyncTmp, Stat, Read, ProcessDies, Fail
  <2>6. QED
    BY <2>1, <2>2, <2>3, <2>4, <2>5
<1>3. QED
  BY <1>1, <1>2, Inductive, PTL DEF Spec, ImplementsAtomicJournal, Atomic!Spec
=============================================================================
