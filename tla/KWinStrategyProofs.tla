------------------------- MODULE KWinStrategyProofs -------------------------
(***************************************************************************)
(* Proofs about KWinStrategy, for any threads, outputs, slots and faults.  *)
(***************************************************************************)
EXTENDS KWinStrategy, TLAPS

-----------------------------------------------------------------------------
\* Type correctness needs one more fact: a running operation has a record.
TypeInv == TypeOK /\ \A t \in Threads : pc[t] \in Inside => st[t] \in States

USE DEF locals, control, stored, memory, sysfs, kwin, vars,
        Journal!Init, Journal!Put, Journal!Write, Journal!Flush, Journal!PowerLoss

LEMMA WithPhaseType ==
    ASSUME NEW s \in States, NEW p \in Phases
    PROVE  /\ WithPhase(s, p) \in States /\ WithPhase(s, p).phase = p
           /\ WithPhase(s, p).slot = s.slot /\ WithPhase(s, p).layout = s.layout
BY DEF WithPhase, States

\* Each step of a thread keeps every variable in its type.
LEMMA ConnectStepType ==
    ASSUME TypeInv, NEW t \in Threads, ConnectStep(t)
    PROVE  TypeInv'
<1> USE ThreadsAssumption, DisplaysAssumption, NoStateAssumption
        DEF TypeInv, TypeOK, Step, Goto, Abort
<1>1. CASE ConnectRefused(t)
  BY <1>1 DEF ConnectRefused, Acquire, Return, Inside, ConnectPcs, CleanupPcs
<1>2. CASE ConnectBegin(t)
  BY <1>2 DEF ConnectBegin, Acquire, Inside, ConnectPcs, CleanupPcs, States, Phases, Displays, Ops
<1>3. CASE ConnectSave(t)
  <2>1. st[t] \in States
    BY <1>3 DEF ConnectSave, Inside, ConnectPcs
  <2>2. UNCHANGED <<cache, sysfs, kwin, userLayout>>
    BY <1>3 DEF ConnectSave
  <2>3. CASE Step(t, "save", "publish") /\ Journal!Write(st[t])
    BY <2>1, <2>2, <2>3 DEF Inside, ConnectPcs, CleanupPcs
  <2>4. CASE TornSave(st[t]) /\ Return(t, "err")
    BY <2>1, <2>2, <2>4 DEF TornSave, Return, Inside, ConnectPcs, CleanupPcs
  <2>5. QED
    BY <1>3, <2>3, <2>4 DEF ConnectSave
<1>4. CASE ConnectPublish(t)
  BY <1>4 DEF ConnectPublish, Inside, ConnectPcs, CleanupPcs
<1>5. CASE WriteEdid(t)
  BY <1>5 DEF WriteEdid, Inside, ConnectPcs, CleanupPcs, States
<1>6. CASE ClearKwinConfig(t)
  BY <1>6 DEF ClearKwinConfig, Inside, ConnectPcs, CleanupPcs
<1>7. CASE DisableOutput(t)
  BY <1>7 DEF DisableOutput, Inside, ConnectPcs, CleanupPcs
<1>8. CASE SlotOn(t)
  BY <1>8 DEF SlotOn, Inside, ConnectPcs, CleanupPcs, States
<1>9. CASE WaitForOutput(t)
  BY <1>9 DEF WaitForOutput, Inside, ConnectPcs, CleanupPcs
<1>10. CASE EnableOutput(t)
  BY <1>10 DEF EnableOutput, Inside, ConnectPcs, CleanupPcs, States, Displays
<1>11. CASE VerifyMode(t)
  BY <1>11 DEF VerifyMode, Inside, ConnectPcs, CleanupPcs
<1>12. CASE ConnectCommit(t)
  <2>1. WithPhase(st[t], "Connected") \in States
    BY <1>12, WithPhaseType DEF ConnectCommit, Inside, ConnectPcs, Phases
  <2>2. QED
    BY <1>12, <2>1 DEF ConnectCommit, TornSave, Inside, ConnectPcs, CleanupPcs
<1>13. CASE ConnectReturn(t)
  BY <1>13 DEF ConnectReturn, Return, Inside, ConnectPcs, CleanupPcs
<1>14. CASE RewriteKwinConfig(t)
  BY <1>14 DEF RewriteKwinConfig, Inside, ConnectPcs, CleanupPcs
<1>15. QED
  BY <1>1, <1>2, <1>3, <1>4, <1>5, <1>6, <1>7, <1>8, <1>9, <1>10, <1>11, <1>12, <1>13, <1>14
     DEF ConnectStep

LEMMA DisconnectStepType ==
    ASSUME TypeInv, NEW t \in Threads, DisconnectStep(t)
    PROVE  TypeInv'
<1> USE ThreadsAssumption, DisplaysAssumption, NoStateAssumption
        DEF TypeInv, TypeOK, Step, Goto
<1>1. CASE DisconnectRefused(t)
  BY <1>1 DEF DisconnectRefused, Acquire, Return, Inside, ConnectPcs, CleanupPcs
<1>2. CASE DisconnectBegin(t)
  <2>1. WithPhase(cache, "Disconnecting") \in States
    BY <1>2, WithPhaseType DEF DisconnectBegin, Phases
  <2>2. QED
    BY <1>2, <2>1 DEF DisconnectBegin, Acquire, Inside, ConnectPcs, CleanupPcs
<1>3. CASE DisconnectSave(t)
  <2>1. st[t] \in States
    BY <1>3 DEF DisconnectSave, Inside
  <2>2. UNCHANGED <<cache, sysfs, kwin, userLayout>>
    BY <1>3 DEF DisconnectSave
  <2>3. CASE Step(t, "d_save", "d_publish") /\ Journal!Write(st[t])
    BY <2>1, <2>2, <2>3 DEF Inside, ConnectPcs, CleanupPcs
  <2>4. CASE TornSave(st[t]) /\ Return(t, "err")
    BY <2>1, <2>2, <2>4 DEF TornSave, Return, Inside, ConnectPcs, CleanupPcs
  <2>5. QED
    BY <1>3, <2>3, <2>4 DEF DisconnectSave
<1>4. CASE DisconnectPublish(t)
  BY <1>4 DEF DisconnectPublish, Inside, ConnectPcs, CleanupPcs
<1>5. QED
  BY <1>1, <1>2, <1>3, <1>4 DEF DisconnectStep

LEMMA RestoreStepType ==
    ASSUME TypeInv, NEW t \in Threads, RestoreStep(t)
    PROVE  TypeInv'
<1> USE ThreadsAssumption, DisplaysAssumption, NoStateAssumption
        DEF TypeInv, TypeOK, Step, Goto
<1>1. CASE RestoreNothing(t)
  <2>1. UNCHANGED <<memory, sysfs, kwin, userLayout>>
    BY <1>1 DEF RestoreNothing
  <2>2. CASE Return(t, "ok")
    BY <2>1, <2>2 DEF Return, Inside, ConnectPcs, CleanupPcs
  <2>3. CASE Return(t, "err")
    BY <2>1, <2>3 DEF Return, Inside, ConnectPcs, CleanupPcs
  <2>4. QED
    BY <1>1, <2>2, <2>3 DEF RestoreNothing
<1>2. CASE RestoreBegin(t)
  BY <1>2 DEF RestoreBegin, Acquire, Inside, ConnectPcs, CleanupPcs
<1>3. CASE RestoreAdopt(t)
  BY <1>3 DEF RestoreAdopt, Return, Inside, ConnectPcs, CleanupPcs
<1>4. CASE RestoreCleanup(t)
  BY <1>4 DEF RestoreCleanup, Inside, ConnectPcs, CleanupPcs
<1>5. QED
  BY <1>1, <1>2, <1>3, <1>4 DEF RestoreStep

LEMMA CleanupStepType ==
    ASSUME TypeInv, NEW t \in Threads, CleanupStep(t)
    PROVE  TypeInv'
<1> USE ThreadsAssumption, DisplaysAssumption, NoStateAssumption
        DEF TypeInv, TypeOK, Step, Goto
<1>1. CASE CleanupLayout(t)
  <2>1. st[t] \in States
    BY <1>1 DEF CleanupLayout, Inside, CleanupPcs
  <2>2. Restored(st[t]) \subseteq Displays
    BY <2>1 DEF Restored, Present, Displays, States
  <2>3. QED
    BY <1>1, <2>2 DEF CleanupLayout, Inside, ConnectPcs, CleanupPcs
<1>2. CASE CleanupSlotOff(t)
  BY <1>2 DEF CleanupSlotOff, Inside, ConnectPcs, CleanupPcs
<1>3. CASE CleanupEdid(t)
  BY <1>3 DEF CleanupEdid, Inside, ConnectPcs, CleanupPcs
<1>4. CASE RecoverSave(t)
  <2> DEFINE s == WithPhase(st[t], "RecoveryRequired")
  <2>1. st[t] \in States /\ s \in States
    BY <1>4, WithPhaseType DEF RecoverSave, Inside, Phases
  <2>2. {journal', disk'} \subseteq States \cup {NoState} /\ UNCHANGED <<cache, sysfs, kwin, userLayout>>
    BY <1>4, <2>1 DEF RecoverSave, TornSave
  <2>3. CASE Step(t, "recover_save", "recover_publish")
    BY <2>1, <2>2, <2>3 DEF Inside, ConnectPcs, CleanupPcs
  <2>4. CASE Return(t, "err")
    BY <2>1, <2>2, <2>4 DEF Return, Inside, ConnectPcs, CleanupPcs
  <2>5. QED
    BY <1>4, <2>3, <2>4 DEF RecoverSave
<1>5. CASE RecoverPublish(t)
  <2>1. WithPhase(st[t], "RecoveryRequired") \in States
    BY <1>5, WithPhaseType DEF RecoverPublish, Inside, Phases
  <2>2. QED
    BY <1>5, <2>1 DEF RecoverPublish, Return, Inside, ConnectPcs, CleanupPcs
<1>6. CASE DeleteJournal(t)
  <2>1. {journal', disk'} \subseteq States \cup {NoState} /\ UNCHANGED <<cache, sysfs, kwin, userLayout>>
    BY <1>6 DEF DeleteJournal
  <2>2. CASE Step(t, "delete", "clear")
    BY <2>1, <2>2 DEF Inside, ConnectPcs, CleanupPcs
  <2>3. CASE Return(t, "err")
    BY <2>1, <2>3 DEF Return, Inside, ConnectPcs, CleanupPcs
  <2>4. QED
    BY <1>6, <2>2, <2>3 DEF DeleteJournal
<1>7. CASE ClearCache(t)
  BY <1>7 DEF ClearCache, Return, Inside, ConnectPcs, CleanupPcs
<1>8. QED
  BY <1>1, <1>2, <1>3, <1>4, <1>5, <1>6, <1>7 DEF CleanupStep

LEMMA EnvironmentType ==
    ASSUME TypeInv, Environment
    PROVE  TypeInv'
<1> USE ThreadsAssumption, DisplaysAssumption DEF TypeInv, TypeOK
<1>1. CASE Start
  BY <1>1 DEF Start, Inside, ConnectPcs, CleanupPcs, Ops
<1>2. CASE ProcessEnds
  BY <1>2 DEF ProcessEnds, Inside, ConnectPcs, CleanupPcs
<1>3. CASE Reboot
  BY <1>3 DEF Reboot, Displays
<1>4. CASE UserRearranges
  BY <1>4 DEF UserRearranges, Displays
<1>5. ASSUME NEW s \in Slots, KWinHotplug(s) \/ KWinUnplug(s)
      PROVE  TypeInv'
  BY <1>5 DEF KWinHotplug, KWinUnplug, Displays
<1>6. CASE KWinSaves
  BY <1>6 DEF KWinSaves
<1>7. QED
  BY <1>1, <1>2, <1>3, <1>4, <1>5, <1>6 DEF Environment

LEMMA CallType ==
    ASSUME TypeInv, NEW t \in Threads, NEW o \in Ops, Call(t, o)
    PROVE  TypeInv'
BY DEF TypeInv, TypeOK, Call, Goto, Inside, ConnectPcs, CleanupPcs

LEMMA InitType == Init => TypeInv
BY DEF Init, TypeInv, TypeOK, Inside, ConnectPcs, CleanupPcs, Displays

LEMMA TypeStep == TypeInv /\ [Next]_vars => TypeInv'
<1> SUFFICES ASSUME TypeInv, [Next]_vars PROVE TypeInv'
  OBVIOUS
<1>1. ASSUME NEW t \in Threads, ThreadStep(t) PROVE TypeInv'
  BY <1>1, ConnectStepType, DisconnectStepType, RestoreStepType, CleanupStepType
     DEF ThreadStep
<1>2. CASE UNCHANGED vars
  BY <1>2 DEF TypeInv, TypeOK
<1>3. QED
  BY <1>1, <1>2, CallType, EnvironmentType DEF Next

\* Every variable keeps its type, whatever fails.
THEOREM TypeCorrect == Spec => []TypeOK
<1>1. TypeInv => TypeOK
  BY DEF TypeInv
<1>2. QED
  BY <1>1, InitType, TypeStep, PTL DEF Spec

-----------------------------------------------------------------------------
\* The inductive invariant.

\* A thread inside an operation holds the mutex and a session record.
LockInv ==
    \A t \in Threads :
        /\ pc[t] \in Inside <=> lock = t
        /\ pc[t] \in Inside => op[t] \in Ops
        /\ pc[t] \in ConnectPcs => op[t] = "connect"
        /\ pc[t] \in {"d_save", "d_publish"} => op[t] = "disconnect"
        /\ pc[t] = "probe" => op[t] = "restore"
        /\ pc[t] = "idle" <=> op[t] = "none"

\* Nothing runs while the process is down, and only restore in main while it
\* starts; until then there is no session in memory.
UpInv ==
    /\ up # "up" => cache = NoState
    /\ \A t \in Threads : pc[t] # "idle" =>
          up = "up" \/ (up = "starting" /\ t = Main /\ op[t] = "restore")

\* Whatever a running operation has to undo, its own record covers, and the
\* journal aims at the same connector and layout.  Before a connect changes
\* anything, so does what a loss of power would leave of the journal.
RecordInv ==
    \A t \in Threads :
        /\ pc[t] \in Inside /\ Altered => Covers(st[t]) /\ SameTarget(st[t], journal)
        /\ pc[t] \in ConnectPcs \ {"save"} =>
              Covers(st[t]) /\ SameTarget(st[t], journal) /\ SameTarget(st[t], disk)
        /\ pc[t] = "save" => userLayout \subseteq st[t].layout
        /\ pc[t] \in Inside /\ op[t] = "disconnect" /\ Altered => SameTarget(cache, journal)

\* How far a cleanup without a first_error has come.
CleanupInv ==
    \A t \in Threads :
        /\ pc[t] \in {"k_slot_off", "k_edid"} /\ ~err[t] => userLayout \subseteq enabled /\ config
        /\ pc[t] = "k_edid" /\ ~err[t] => slotOn = {}
        /\ pc[t] \in {"save", "publish", "delete", "clear"} => ~Altered

ControlInv == LockInv /\ UpInv
DataInv == RecordInv /\ CleanupInv /\ Recoverable /\ SessionMatchesJournal
IndInv == TypeInv /\ ControlInv /\ DataInv

LEMMA ConnectStepControl ==
    ASSUME TypeInv, ControlInv, NEW t \in Threads, ConnectStep(t)
    PROVE  ControlInv'
<1> USE ThreadsAssumption DEF TypeInv, TypeOK, ControlInv, LockInv, UpInv, Step, Goto, Return,
        Acquire, Abort, Inside, ConnectPcs, CleanupPcs, Ops
<1>1. CASE ConnectRefused(t)
  BY <1>1 DEF ConnectRefused
<1>2. CASE ConnectBegin(t)
  BY <1>2 DEF ConnectBegin
<1>3. CASE ConnectSave(t)
  BY <1>3 DEF ConnectSave
<1>4. CASE ConnectPublish(t)
  BY <1>4 DEF ConnectPublish
<1>5. CASE WriteEdid(t)
  BY <1>5 DEF WriteEdid
<1>6. CASE ClearKwinConfig(t)
  BY <1>6 DEF ClearKwinConfig
<1>7. CASE DisableOutput(t)
  BY <1>7 DEF DisableOutput
<1>8. CASE SlotOn(t)
  BY <1>8 DEF SlotOn
<1>9. CASE WaitForOutput(t)
  BY <1>9 DEF WaitForOutput
<1>10. CASE EnableOutput(t)
  BY <1>10 DEF EnableOutput
<1>11. CASE VerifyMode(t)
  BY <1>11 DEF VerifyMode
<1>12. CASE ConnectCommit(t)
  BY <1>12 DEF ConnectCommit
<1>13. CASE ConnectReturn(t)
  BY <1>13 DEF ConnectReturn
<1>14. CASE RewriteKwinConfig(t)
  BY <1>14 DEF RewriteKwinConfig
<1>15. QED
  BY <1>1, <1>2, <1>3, <1>4, <1>5, <1>6, <1>7, <1>8, <1>9, <1>10, <1>11, <1>12, <1>13, <1>14 DEF ConnectStep

LEMMA DisconnectStepControl ==
    ASSUME TypeInv, ControlInv, NEW t \in Threads, DisconnectStep(t)
    PROVE  ControlInv'
<1> USE ThreadsAssumption DEF TypeInv, TypeOK, ControlInv, LockInv, UpInv, Step, Goto, Return,
        Acquire, Abort, Inside, ConnectPcs, CleanupPcs, Ops
<1>1. CASE DisconnectRefused(t)
  BY <1>1 DEF DisconnectRefused
<1>2. CASE DisconnectBegin(t)
  BY <1>2 DEF DisconnectBegin
<1>3. CASE DisconnectSave(t)
  BY <1>3 DEF DisconnectSave
<1>4. CASE DisconnectPublish(t)
  BY <1>4 DEF DisconnectPublish
<1>5. QED
  BY <1>1, <1>2, <1>3, <1>4 DEF DisconnectStep

LEMMA RestoreStepControl ==
    ASSUME TypeInv, ControlInv, NEW t \in Threads, RestoreStep(t)
    PROVE  ControlInv'
<1> USE ThreadsAssumption DEF TypeInv, TypeOK, ControlInv, LockInv, UpInv, Step, Goto, Return,
        Acquire, Abort, Inside, ConnectPcs, CleanupPcs, Ops
<1>1. CASE RestoreNothing(t)
  BY <1>1 DEF RestoreNothing
<1>2. CASE RestoreBegin(t)
  BY <1>2 DEF RestoreBegin
<1>3. CASE RestoreAdopt(t)
  BY <1>3 DEF RestoreAdopt
<1>4. CASE RestoreCleanup(t)
  BY <1>4 DEF RestoreCleanup
<1>5. QED
  BY <1>1, <1>2, <1>3, <1>4 DEF RestoreStep

LEMMA CleanupStepControl ==
    ASSUME TypeInv, ControlInv, NEW t \in Threads, CleanupStep(t)
    PROVE  ControlInv'
<1> USE ThreadsAssumption DEF TypeInv, TypeOK, ControlInv, LockInv, UpInv, Step, Goto, Return,
        Acquire, Abort, Inside, ConnectPcs, CleanupPcs, Ops
<1>1. CASE CleanupLayout(t)
  BY <1>1 DEF CleanupLayout
<1>2. CASE CleanupSlotOff(t)
  BY <1>2 DEF CleanupSlotOff
<1>3. CASE CleanupEdid(t)
  BY <1>3 DEF CleanupEdid
<1>4. CASE RecoverSave(t)
  BY <1>4 DEF RecoverSave
<1>5. CASE RecoverPublish(t)
  BY <1>5 DEF RecoverPublish
<1>6. CASE DeleteJournal(t)
  BY <1>6 DEF DeleteJournal
<1>7. CASE ClearCache(t)
  BY <1>7 DEF ClearCache
<1>8. QED
  BY <1>1, <1>2, <1>3, <1>4, <1>5, <1>6, <1>7 DEF CleanupStep
\* Restore can read the journal and rewrite it after an incomplete cleanup.
RecoveryReads == Faults \cap {"load", "recovery_save"} = {}

LEMMA ConnectStepData ==
    ASSUME RecoveryReads, IndInv, NEW t \in Threads, ConnectStep(t)
    PROVE  DataInv'
<1> USE ThreadsAssumption, DisplaysAssumption, NoStateAssumption
        DEF IndInv, TypeInv, TypeOK, ControlInv, LockInv, UpInv, DataInv, RecordInv, CleanupInv,
        Recoverable, SessionMatchesJournal, Altered, Covers, SameTarget,
        Step, Goto, Return, Acquire, Abort, Inside, ConnectPcs, CleanupPcs
<1>1. CASE ConnectRefused(t)
  BY <1>1 DEF ConnectRefused, States, TornSave
<1>2. CASE ConnectBegin(t)
  BY <1>2 DEF ConnectBegin, States, TornSave
<1>3. CASE ConnectSave(t)
  BY <1>3 DEF ConnectSave, States, TornSave
<1>4. CASE ConnectPublish(t)
  BY <1>4 DEF ConnectPublish, States, TornSave
<1>5. CASE WriteEdid(t)
  BY <1>5 DEF WriteEdid, States, TornSave
<1>6. CASE ClearKwinConfig(t)
  BY <1>6 DEF ClearKwinConfig, States, TornSave
<1>7. CASE DisableOutput(t)
  BY <1>7 DEF DisableOutput, States, TornSave
<1>8. CASE SlotOn(t)
  BY <1>8 DEF SlotOn, States, TornSave
<1>9. CASE WaitForOutput(t)
  BY <1>9 DEF WaitForOutput, States, TornSave
<1>10. CASE EnableOutput(t)
  BY <1>10 DEF EnableOutput, States, TornSave
<1>11. CASE VerifyMode(t)
  BY <1>11 DEF VerifyMode, States, TornSave
<1>12. CASE ConnectCommit(t)
  <2> DEFINE s == WithPhase(st[t], "Connected")
  <2>1. s \in States /\ s.slot = st[t].slot /\ s.layout = st[t].layout
    BY <1>12, WithPhaseType DEF ConnectCommit, Phases
  <2>2. HIDE DEF s
  <2>3. st' = [st EXCEPT ![t] = s] /\ journal' \in {journal, s} /\ disk' \in {disk, s}
    BY <1>12 DEF ConnectCommit, TornSave, s
  <2>4. pc[t] = "commit" /\ pc' \in {[pc EXCEPT ![t] = "publish_connected"],
                                    [pc EXCEPT ![t] = "k_layout"]}
    BY <1>12 DEF ConnectCommit
  <2>5. UNCHANGED <<up, lock, res, op, todo, err, cache, sysfs, kwin, userLayout>>
    BY <1>12 DEF ConnectCommit
  <2>6. QED
    BY <2>1, <2>3, <2>4, <2>5
<1>13. CASE ConnectReturn(t)
  BY <1>13 DEF ConnectReturn, States, TornSave
<1>14. CASE RewriteKwinConfig(t)
  BY <1>14 DEF RewriteKwinConfig, States, TornSave
<1>15. QED
  BY <1>1, <1>2, <1>3, <1>4, <1>5, <1>6, <1>7, <1>8, <1>9, <1>10, <1>11, <1>12, <1>13, <1>14 DEF ConnectStep

LEMMA DisconnectStepData ==
    ASSUME RecoveryReads, IndInv, NEW t \in Threads, DisconnectStep(t)
    PROVE  DataInv'
<1> USE ThreadsAssumption, DisplaysAssumption, NoStateAssumption
        DEF IndInv, TypeInv, TypeOK, ControlInv, LockInv, UpInv, DataInv, RecordInv, CleanupInv,
        Recoverable, SessionMatchesJournal, Altered, Covers, SameTarget,
        Step, Goto, Return, Acquire, Abort, Inside, ConnectPcs, CleanupPcs
<1>1. CASE DisconnectRefused(t)
  BY <1>1 DEF DisconnectRefused, States, TornSave
<1>2. CASE DisconnectBegin(t)
  <2> DEFINE s == WithPhase(cache, "Disconnecting")
  <2>1. s \in States /\ s.slot = cache.slot /\ s.layout = cache.layout
    BY <1>2, WithPhaseType DEF DisconnectBegin, Phases
  <2>2. HIDE DEF s
  <2>3. st' = [st EXCEPT ![t] = s]
    BY <1>2 DEF DisconnectBegin, s
  <2>4. QED
    BY <1>2, <2>1, <2>3 DEF DisconnectBegin
<1>3. CASE DisconnectSave(t)
  BY <1>3 DEF DisconnectSave, States, TornSave
<1>4. CASE DisconnectPublish(t)
  BY <1>4 DEF DisconnectPublish, States, TornSave
<1>5. QED
  BY <1>1, <1>2, <1>3, <1>4 DEF DisconnectStep

LEMMA RestoreStepData ==
    ASSUME RecoveryReads, IndInv, NEW t \in Threads, RestoreStep(t)
    PROVE  DataInv'
<1> USE ThreadsAssumption, DisplaysAssumption, NoStateAssumption
        DEF IndInv, TypeInv, TypeOK, ControlInv, LockInv, UpInv, DataInv, RecordInv, CleanupInv,
        Recoverable, SessionMatchesJournal, Altered, Covers, SameTarget,
        Step, Goto, Return, Acquire, Abort, Inside, ConnectPcs, CleanupPcs
<1>1. CASE RestoreNothing(t)
  <2>1. journal = NoState /\ Return(t, "ok")
    BY <1>1, FaultsAssumption DEF RestoreNothing, RecoveryReads
  <2>2. QED
    BY <1>1, <2>1 DEF RestoreNothing
<1>2. CASE RestoreBegin(t)
  BY <1>2 DEF RestoreBegin, States, TornSave
<1>3. CASE RestoreAdopt(t)
  BY <1>3 DEF RestoreAdopt, States, TornSave
<1>4. CASE RestoreCleanup(t)
  BY <1>4 DEF RestoreCleanup, States, TornSave
<1>5. QED
  BY <1>1, <1>2, <1>3, <1>4 DEF RestoreStep

LEMMA CleanupStepData ==
    ASSUME RecoveryReads, IndInv, NEW t \in Threads, CleanupStep(t)
    PROVE  DataInv'
<1> USE ThreadsAssumption, DisplaysAssumption, NoStateAssumption
        DEF IndInv, TypeInv, TypeOK, ControlInv, LockInv, UpInv, DataInv, RecordInv, CleanupInv,
        Recoverable, SessionMatchesJournal, Altered, Covers, SameTarget,
        Step, Goto, Return, Acquire, Abort, Inside, ConnectPcs, CleanupPcs
<1>1. CASE CleanupLayout(t)
  <2>1. st[t] \in States
    BY <1>1 DEF CleanupLayout
  <2>2. /\ userLayout \subseteq enabled => userLayout \subseteq Restored(st[t])
        /\ Covers(st[t]) => userLayout \subseteq Restored(st[t])
    BY <2>1 DEF Restored, Present, States
  <2>3. \/ enabled' = Restored(st[t]) /\ config' = TRUE /\ UNCHANGED err
        \/ /\ err' = [err EXCEPT ![t] = TRUE] /\ enabled' \in {enabled, Restored(st[t])}
           /\ UNCHANGED config
    BY <1>1 DEF CleanupLayout
  <2>4. QED
    BY <1>1, <2>1, <2>2, <2>3 DEF CleanupLayout
<1>2. CASE CleanupSlotOff(t)
  BY <1>2 DEF CleanupSlotOff, States, TornSave
<1>3. CASE CleanupEdid(t)
  BY <1>3 DEF CleanupEdid, States, TornSave
<1>4. CASE RecoverSave(t)
  <2> DEFINE s == WithPhase(st[t], "RecoveryRequired")
  <2>1. s \in States /\ s.slot = st[t].slot /\ s.layout = st[t].layout
    BY <1>4, WithPhaseType DEF RecoverSave, Phases
  <2>2. HIDE DEF s
  <2>3. journal' \in {journal, s} /\ disk' \in {disk, s} /\ UNCHANGED <<cache, sysfs, kwin, userLayout>>
    BY <1>4 DEF RecoverSave, TornSave, s
  <2>4. CASE Step(t, "recover_save", "recover_publish")
    BY <2>1, <2>3, <2>4
  <2>5. CASE pc[t] = "recover_save" /\ op[t] = "disconnect" /\ Return(t, "err")
    BY <2>1, <2>3, <2>5, SMTT(30)
  <2>6. QED
    BY <1>4, <2>4, <2>5 DEF RecoverSave, RecoverFault, RecoveryReads, Ops
<1>5. CASE RecoverPublish(t)
  <2> DEFINE s == WithPhase(st[t], "RecoveryRequired")
  <2>1. s \in States /\ s.slot = st[t].slot /\ s.layout = st[t].layout
    BY <1>5, WithPhaseType DEF RecoverPublish, Phases
  <2>2. HIDE DEF s
  <2>3. cache' = s
    BY <1>5 DEF RecoverPublish, s
  <2>4. QED
    BY <1>5, <2>1, <2>3 DEF RecoverPublish
<1>6. CASE DeleteJournal(t)
  BY <1>6 DEF DeleteJournal, States, TornSave
<1>7. CASE ClearCache(t)
  BY <1>7 DEF ClearCache, States, TornSave
<1>8. QED
  BY <1>1, <1>2, <1>3, <1>4, <1>5, <1>6, <1>7 DEF CleanupStep
LEMMA EnvironmentControl ==
    ASSUME TypeInv, ControlInv, Environment
    PROVE  ControlInv'
<1> USE ThreadsAssumption
        DEF TypeInv, TypeOK, ControlInv, LockInv, UpInv, Inside, ConnectPcs, CleanupPcs, Ops
<1>1. CASE Start
  BY <1>1 DEF Start
<1>2. CASE ProcessEnds
  BY <1>2 DEF ProcessEnds
<1>3. CASE Reboot
  BY <1>3 DEF Reboot
<1>4. CASE UserRearranges
  BY <1>4 DEF UserRearranges
<1>5. ASSUME NEW s \in Slots, KWinHotplug(s) \/ KWinUnplug(s)
      PROVE  ControlInv'
  BY <1>5 DEF KWinHotplug, KWinUnplug
<1>6. CASE KWinSaves
  BY <1>6 DEF KWinSaves
<1>7. QED
  BY <1>1, <1>2, <1>3, <1>4, <1>5, <1>6 DEF Environment

LEMMA EnvironmentData ==
    ASSUME IndInv, Environment
    PROVE  DataInv'
<1> USE ThreadsAssumption, DisplaysAssumption, NoStateAssumption
        DEF IndInv, TypeInv, TypeOK, ControlInv, LockInv, UpInv, DataInv, RecordInv, CleanupInv,
        Recoverable, SessionMatchesJournal, Altered, Covers, SameTarget,
        Inside, ConnectPcs, CleanupPcs
<1>1. CASE Start
  BY <1>1 DEF Start
<1>2. CASE ProcessEnds
  BY <1>2 DEF ProcessEnds
<1>3. CASE Reboot
  BY <1>3 DEF Reboot
<1>4. CASE UserRearranges
  BY <1>4 DEF UserRearranges
<1>5. ASSUME NEW s \in Slots, KWinHotplug(s) \/ KWinUnplug(s)
      PROVE  DataInv'
  BY <1>5 DEF KWinHotplug, KWinUnplug
<1>6. CASE KWinSaves
  BY <1>6 DEF KWinSaves
<1>7. QED
  BY <1>1, <1>2, <1>3, <1>4, <1>5, <1>6 DEF Environment

LEMMA CallControl ==
    ASSUME TypeInv, ControlInv, NEW t \in Threads, NEW o \in Ops, Call(t, o)
    PROVE  ControlInv'
BY ThreadsAssumption
   DEF TypeInv, TypeOK, ControlInv, LockInv, UpInv, Inside, ConnectPcs, CleanupPcs,
       Call, Goto, Ops

LEMMA CallData ==
    ASSUME IndInv, NEW t \in Threads, NEW o \in Ops, Call(t, o)
    PROVE  DataInv'
BY ThreadsAssumption
   DEF IndInv, TypeInv, TypeOK, ControlInv, LockInv, DataInv, RecordInv, CleanupInv,
       Recoverable, SessionMatchesJournal, Altered, Covers, SameTarget,
       Inside, ConnectPcs, CleanupPcs, Call, Goto

\* The invariant is inductive.
THEOREM Inductive ==
    ASSUME RecoveryReads
    PROVE  Spec => []IndInv
<1>1. Init => IndInv
  BY ThreadsAssumption
     DEF Init, IndInv, TypeInv, TypeOK, ControlInv, LockInv, UpInv, DataInv, RecordInv, CleanupInv,
         Recoverable, SessionMatchesJournal, Altered, SameTarget,
         Inside, ConnectPcs, CleanupPcs, Displays
<1>2. IndInv /\ [Next]_vars => IndInv'
  <2> SUFFICES ASSUME IndInv, [Next]_vars PROVE IndInv'
    OBVIOUS
  <2>1. TypeInv'
    BY TypeStep DEF IndInv
  <2>2. ASSUME NEW t \in Threads, ThreadStep(t) PROVE ControlInv'
    BY <2>2, ConnectStepControl, DisconnectStepControl, RestoreStepControl, CleanupStepControl
       DEF ThreadStep, IndInv
  <2>3. ASSUME NEW t \in Threads, ThreadStep(t) PROVE DataInv'
    BY <2>3, RecoveryReads, ConnectStepData, DisconnectStepData, RestoreStepData, CleanupStepData
       DEF ThreadStep
  <2>4. CASE UNCHANGED vars
    BY <2>1, <2>4
       DEF IndInv, ControlInv, LockInv, UpInv, DataInv, RecordInv, CleanupInv,
           Recoverable, SessionMatchesJournal, Altered, Covers, SameTarget
  <2>5. QED
    BY <2>1, <2>2, <2>3, <2>4, CallControl, CallData, EnvironmentControl, EnvironmentData
       DEF Next, IndInv
<1>3. QED
  BY <1>1, <1>2, PTL DEF Spec

\* As long as restore can read and rewrite the journal, a changed display can
\* be put back from the journal at every moment.
THEOREM JournalRecovers ==
    ASSUME Faults \cap {"load", "recovery_save"} = {}
    PROVE  Spec => []Recoverable
<1>1. RecoveryReads
  BY DEF RecoveryReads
<1>2. IndInv => Recoverable
  BY DEF IndInv, DataInv
<1>3. QED
  BY <1>1, <1>2, Inductive, PTL

\* Under the same condition an idle daemon without a session has left nothing
\* behind.
THEOREM IdleIsClean ==
    ASSUME Faults \cap {"load", "recovery_save"} = {}
    PROVE  Spec => []NothingLeftBehind
<1>1. RecoveryReads
  BY DEF RecoveryReads
<1>2. IndInv => NothingLeftBehind
  BY DEF IndInv, DataInv, NothingLeftBehind, SessionMatchesJournal, SameTarget
<1>3. QED
  BY <1>1, <1>2, Inductive, PTL

\* And a session at rest agrees with its journal.
THEOREM SessionAgrees ==
    ASSUME Faults \cap {"load", "recovery_save"} = {}
    PROVE  Spec => []SessionMatchesJournal
<1>1. RecoveryReads
  BY DEF RecoveryReads
<1>2. IndInv => SessionMatchesJournal
  BY DEF IndInv, DataInv
<1>3. QED
  BY <1>1, <1>2, Inductive, PTL

LEMMA ControlInductive == Spec => []ControlInv
<1>1. Init => ControlInv
  BY ThreadsAssumption
     DEF Init, ControlInv, LockInv, UpInv, Inside, ConnectPcs, CleanupPcs
<1>2. TypeInv /\ ControlInv /\ [Next]_vars => ControlInv'
  <2> SUFFICES ASSUME TypeInv, ControlInv, [Next]_vars PROVE ControlInv'
    OBVIOUS
  <2>1. ASSUME NEW t \in Threads, ThreadStep(t) PROVE ControlInv'
    BY <2>1, ConnectStepControl, DisconnectStepControl, RestoreStepControl, CleanupStepControl
       DEF ThreadStep
  <2>2. ASSUME NEW t \in Threads, NEW o \in Ops, Call(t, o) PROVE ControlInv'
    BY <2>2, CallControl
  <2>3. CASE Environment
    BY <2>3, EnvironmentControl
  <2>4. CASE UNCHANGED vars
    BY <2>4 DEF ControlInv, LockInv, UpInv
  <2>5. QED
    BY <2>1, <2>2, <2>3, <2>4 DEF Next
<1>3. Init => TypeInv
  BY InitType
<1>4. QED
  BY <1>1, <1>2, <1>3, TypeStep, PTL DEF Spec

\* Two threads are never inside an operation at the same time, whatever fails.
THEOREM MutualExclusion ==
    Spec => [](\A t, u \in Threads : pc[t] \in Inside /\ pc[u] \in Inside => t = u)
<1>1. ControlInv => \A t, u \in Threads : pc[t] \in Inside /\ pc[u] \in Inside => t = u
  BY DEF ControlInv, LockInv
<1>2. QED
  BY <1>1, ControlInductive, PTL

\* All the strategy asks of its journal is what AtomicJournal offers, which
\* JournalFile shows the system calls of state.rs to provide.
THEOREM JournalIsAtomic == Spec => Journal!Spec
<1>1. Init => Journal!Init
  BY DEF Init
<1>2. TypeInv /\ [Next]_vars => [Journal!Next]_Journal!vars
  <2> SUFFICES ASSUME TypeInv, [Next]_vars PROVE Journal!Next \/ UNCHANGED stored
    BY DEF Journal!vars
  <2> USE DEF TypeInv, Inside, ConnectPcs, CleanupPcs, Step, Goto, Journal!Next
  <2>1. ASSUME NEW r \in States, Journal!Write(r) \/ TornSave(r)
        PROVE  Journal!Next \/ UNCHANGED stored
    BY <2>1 DEF TornSave
  <2>2. ASSUME NEW t \in Threads, ConnectSave(t) \/ DisconnectSave(t)
        PROVE  Journal!Next \/ UNCHANGED stored
    <3>1. st[t] \in States /\ (Journal!Write(st[t]) \/ TornSave(st[t]))
      BY <2>2 DEF ConnectSave, DisconnectSave
    <3>2. QED
      BY <2>1, <3>1
  <2>3. ASSUME NEW t \in Threads, ConnectCommit(t) \/ RecoverSave(t)
        PROVE  Journal!Next \/ UNCHANGED stored
    <3>1. PICK p \in Phases : Journal!Write(WithPhase(st[t], p)) \/ TornSave(WithPhase(st[t], p))
      BY <2>3 DEF ConnectCommit, RecoverSave, Phases
    <3>2. WithPhase(st[t], p) \in States
      BY <2>3, WithPhaseType DEF ConnectCommit, RecoverSave
    <3>3. QED
      BY <2>1, <3>1, <3>2
  <2>4. ASSUME NEW t \in Threads, DeleteJournal(t)
        PROVE  Journal!Next \/ UNCHANGED stored
    BY <2>4 DEF DeleteJournal
  <2>5. CASE Reboot
    BY <2>5 DEF Reboot
  <2>6. ASSUME NEW t \in Threads, ThreadStep(t),
               ~ConnectSave(t), ~DisconnectSave(t), ~ConnectCommit(t), ~RecoverSave(t),
               ~DeleteJournal(t)
        PROVE  UNCHANGED stored
    BY <2>6 DEF ThreadStep, ConnectStep, DisconnectStep, RestoreStep, CleanupStep,
       ConnectRefused, ConnectBegin, ConnectPublish, WriteEdid, ClearKwinConfig, DisableOutput,
       RewriteKwinConfig, SlotOn, WaitForOutput, EnableOutput, VerifyMode, ConnectReturn,
       DisconnectRefused, DisconnectBegin, DisconnectPublish,
       RestoreNothing, RestoreBegin, RestoreAdopt, RestoreCleanup,
       CleanupLayout, CleanupSlotOff, CleanupEdid, RecoverPublish, ClearCache
  <2>7. ASSUME Environment, ~Reboot
        PROVE  UNCHANGED stored
    BY <2>7 DEF Environment, Start, ProcessEnds, UserRearranges, KWinSaves, KWinHotplug, KWinUnplug
  <2>8. QED
    BY <2>2, <2>3, <2>4, <2>5, <2>6, <2>7 DEF Next, Call
<1>3. QED
  BY <1>1, <1>2, InitType, TypeStep, PTL DEF Spec, Journal!Spec

-----------------------------------------------------------------------------
\* The phase that status() reports.

\* "Connecting" is said only while a connect is under way; a connect starts
\* without a session, and what the last step of an operation will publish.
PhaseInv ==
    /\ Phase = "Connecting" => \E t \in Threads : pc[t] \in Inside /\ op[t] = "connect"
    /\ \A t \in Threads :
        /\ pc[t] = "save" => cache = NoState
        /\ pc[t] = "publish_connected" => st[t].phase = "Connected"
        /\ pc[t] \in {"d_save", "d_publish"} => st[t].phase = "Disconnecting"

\* A step inside a connect that leaves the session in memory alone.
LEMMA ConnectGoesOn ==
    ASSUME TypeInv, ControlInv, PhaseInv, NEW t \in Threads, op[t] = "connect", lock = t,
           UNCHANGED <<cache, op, st>>, NEW to \in Inside \ {"save", "publish_connected", "d_save", "d_publish"},
           pc' = [pc EXCEPT ![t] = to]
    PROVE  PhaseInv'
BY DEF TypeInv, TypeOK, ControlInv, LockInv, PhaseInv, Phase

LEMMA ConnectStepPhase ==
    ASSUME TypeInv, ControlInv, PhaseInv, NEW t \in Threads, ConnectStep(t)
    PROVE  PhaseInv'
<1> USE NoStateAssumption, ThreadsAssumption
    DEF TypeInv, TypeOK, ControlInv, LockInv, Step, Goto, Return, Acquire, Abort
<1>1. CASE ConnectRefused(t)
  BY <1>1 DEF ConnectRefused, PhaseInv, Phase, Inside, ConnectPcs, CleanupPcs
<1>2. CASE ConnectBegin(t)
  BY <1>2 DEF ConnectBegin, PhaseInv, Phase, Inside, ConnectPcs, CleanupPcs
<1>3. CASE ConnectSave(t)
  <2>1. pc[t] = "save" /\ cache = NoState /\ UNCHANGED cache
    BY <1>3 DEF ConnectSave, PhaseInv
  <2>2. QED
    BY <1>3, <2>1 DEF ConnectSave, PhaseInv, Phase, Inside, ConnectPcs, CleanupPcs
<1>4. CASE ConnectPublish(t)
  <2>1. pc[t] = "publish" /\ pc' = [pc EXCEPT ![t] = "write_edid"] /\ UNCHANGED <<op, st>>
    BY <1>4 DEF ConnectPublish
  <2>2. op[t] = "connect" /\ \A u \in Threads \ {t} : pc[u] \notin Inside
    BY <2>1 DEF Inside, ConnectPcs
  <2>3. QED
    BY <2>1, <2>2 DEF PhaseInv, Inside, ConnectPcs, CleanupPcs
<1>5. CASE ConnectCommit(t)
  <2>1. /\ UNCHANGED <<cache, op>> /\ pc[t] = "commit" /\ op[t] = "connect"
        /\ st' = [st EXCEPT ![t] = WithPhase(st[t], "Connected")]
        /\ \E to \in {"publish_connected", "k_layout"} : pc' = [pc EXCEPT ![t] = to]
    BY <1>5 DEF ConnectCommit, ConnectPcs
  <2>2. st'[t].phase = "Connected"
    BY <2>1, WithPhaseType DEF Inside, ConnectPcs, Phases
  <2>3. \A u \in Threads \ {t} : pc[u] \notin Inside /\ pc'[u] = pc[u] /\ op'[u] = op[u]
    BY <2>1 DEF Inside, ConnectPcs
  <2>4. pc'[t] \in {"publish_connected", "k_layout"} /\ op'[t] = "connect"
    BY <2>1
  <2>5. QED
    BY <2>2, <2>3, <2>4 DEF PhaseInv, Inside, ConnectPcs, CleanupPcs
<1>6. CASE ConnectReturn(t)
  <2>1. pc[t] = "publish_connected" /\ cache' = st[t] /\ st[t].phase = "Connected" /\ st[t] \in States
    BY <1>6 DEF ConnectReturn, PhaseInv, Inside, ConnectPcs
  <2>2. \A u \in Threads \ {t} : pc[u] \notin Inside
    BY <2>1 DEF Inside, ConnectPcs
  <2>3. QED
    BY <1>6, <2>1, <2>2 DEF ConnectReturn, PhaseInv, Phase, Inside, ConnectPcs, CleanupPcs
<1>7. ASSUME UNCHANGED <<cache, op, st>>, pc[t] \in ConnectPcs,
             NEW to \in Inside \ {"save", "publish_connected", "d_save", "d_publish"},
             pc' = [pc EXCEPT ![t] = to]
      PROVE  PhaseInv'
  BY <1>7, ConnectGoesOn DEF Inside
<1>8. CASE WriteEdid(t) \/ ClearKwinConfig(t) \/ RewriteKwinConfig(t) \/ SlotOn(t)
             \/ WaitForOutput(t) \/ EnableOutput(t) \/ VerifyMode(t)
  BY <1>7, <1>8 DEF WriteEdid, ClearKwinConfig, RewriteKwinConfig, SlotOn, WaitForOutput,
     EnableOutput, VerifyMode, Inside, ConnectPcs, CleanupPcs
<1>9. CASE DisableOutput(t)
  <2>1. pc[t] = "disable" /\ UNCHANGED <<cache, op, st>>
    BY <1>9 DEF DisableOutput
  <2>2. CASE UNCHANGED pc
    BY <2>1, <2>2 DEF PhaseInv, Phase
  <2>3. CASE Abort(t, "disable")
    BY <1>7, <2>1, <2>3 DEF Inside, ConnectPcs, CleanupPcs
  <2>4. QED
    BY <1>9, <2>2, <2>3 DEF DisableOutput
<1>10. QED
  BY <1>1, <1>2, <1>3, <1>4, <1>5, <1>6, <1>8, <1>9 DEF ConnectStep

LEMMA DisconnectStepPhase ==
    ASSUME TypeInv, ControlInv, PhaseInv, NEW t \in Threads, DisconnectStep(t)
    PROVE  PhaseInv'
<1> USE NoStateAssumption, ThreadsAssumption
    DEF TypeInv, TypeOK, ControlInv, LockInv, Step, Goto, Return, Acquire, PhaseInv, Phase
<1>1. CASE DisconnectRefused(t)
  BY <1>1 DEF DisconnectRefused, Inside, ConnectPcs, CleanupPcs
<1>2. CASE DisconnectBegin(t)
  <2>1. cache \in States /\ UNCHANGED <<cache, op>> /\ \A u \in Threads : pc[u] \notin Inside
    BY <1>2 DEF DisconnectBegin
  <2>2. cache.phase # "Connecting"
    BY <2>1
  <2>3. st'[t].phase = "Disconnecting" /\ pc' = [pc EXCEPT ![t] = "d_save"]
    BY <1>2, <2>1, WithPhaseType DEF DisconnectBegin, Phases
  <2>4. QED
    BY <2>1, <2>2, <2>3 DEF Inside, ConnectPcs, CleanupPcs
<1>3. CASE DisconnectSave(t)
  <2>1. pc[t] = "d_save" /\ op[t] = "disconnect" /\ UNCHANGED cache
    BY <1>3 DEF DisconnectSave
  <2>2. \A u \in Threads \ {t} : pc[u] \notin Inside
    BY <2>1 DEF Inside
  <2>3. Phase # "Connecting"
    BY <2>1, <2>2
  <2>4. QED
    BY <1>3, <2>1, <2>2, <2>3 DEF DisconnectSave, Inside, ConnectPcs, CleanupPcs
<1>4. CASE DisconnectPublish(t)
  <2>1. pc[t] = "d_publish" /\ cache' = st[t] /\ st[t].phase = "Disconnecting" /\ st[t] \in States
    BY <1>4 DEF DisconnectPublish, Inside
  <2>2. \A u \in Threads \ {t} : pc[u] \notin Inside
    BY <2>1 DEF Inside
  <2>3. QED
    BY <1>4, <2>1, <2>2 DEF DisconnectPublish, Inside, ConnectPcs, CleanupPcs
<1>5. QED
  BY <1>1, <1>2, <1>3, <1>4 DEF DisconnectStep

LEMMA RestoreStepPhase ==
    ASSUME TypeInv, ControlInv, PhaseInv, NEW t \in Threads, RestoreStep(t)
    PROVE  PhaseInv'
<1> USE NoStateAssumption, ThreadsAssumption
    DEF TypeInv, TypeOK, ControlInv, LockInv, Step, Goto, Return, Acquire, PhaseInv, Phase
<1>1. CASE RestoreNothing(t)
  BY <1>1 DEF RestoreNothing, Inside, ConnectPcs, CleanupPcs
<1>2. CASE RestoreBegin(t)
  BY <1>2 DEF RestoreBegin, Inside, ConnectPcs, CleanupPcs
<1>3. CASE RestoreAdopt(t)
  <2>1. pc[t] = "probe" /\ cache' = st[t] /\ st[t].phase = "Connected" /\ st[t] \in States
    BY <1>3 DEF RestoreAdopt, Inside
  <2>2. \A u \in Threads \ {t} : pc[u] \notin Inside
    BY <2>1 DEF Inside
  <2>3. QED
    BY <1>3, <2>1, <2>2 DEF RestoreAdopt, Inside, ConnectPcs, CleanupPcs
<1>4. CASE RestoreCleanup(t)
  BY <1>4 DEF RestoreCleanup, Inside, ConnectPcs, CleanupPcs
<1>5. QED
  BY <1>1, <1>2, <1>3, <1>4 DEF RestoreStep

LEMMA CleanupStepPhase ==
    ASSUME TypeInv, ControlInv, PhaseInv, NEW t \in Threads, CleanupStep(t)
    PROVE  PhaseInv'
<1> USE NoStateAssumption, ThreadsAssumption
    DEF TypeInv, TypeOK, ControlInv, LockInv, Step, Goto, Return, PhaseInv, Phase
<1>1. CASE CleanupLayout(t)
  BY <1>1 DEF CleanupLayout, Inside, ConnectPcs, CleanupPcs
<1>2. CASE CleanupSlotOff(t)
  BY <1>2 DEF CleanupSlotOff, Inside, ConnectPcs, CleanupPcs
<1>3. CASE CleanupEdid(t)
  BY <1>3 DEF CleanupEdid, Inside, ConnectPcs, CleanupPcs
<1>4. CASE RecoverSave(t)
  <2>1. pc[t] = "recover_save" /\ UNCHANGED cache
    BY <1>4 DEF RecoverSave
  <2>2. \A u \in Threads \ {t} : pc[u] \notin Inside
    BY <2>1 DEF Inside
  <2>3. CASE Step(t, "recover_save", "recover_publish")
    BY <2>1, <2>2, <2>3 DEF Inside, ConnectPcs, CleanupPcs
  <2>4. CASE op[t] # "connect" /\ Return(t, "err")
    BY <2>1, <2>2, <2>4 DEF Inside, ConnectPcs, CleanupPcs
  <2>5. QED
    BY <1>4, <2>3, <2>4 DEF RecoverSave
<1>5. CASE RecoverPublish(t)
  <2>1. pc[t] = "recover_publish" /\ st[t] \in States
    BY <1>5 DEF RecoverPublish, Inside
  <2>2. cache' \in States /\ cache'.phase = "RecoveryRequired"
    BY <1>5, <2>1, WithPhaseType DEF RecoverPublish, Phases
  <2>3. \A u \in Threads \ {t} : pc[u] \notin Inside
    BY <2>1 DEF Inside
  <2>4. QED
    BY <1>5, <2>1, <2>2, <2>3 DEF RecoverPublish, Inside, ConnectPcs, CleanupPcs
<1>6. CASE DeleteJournal(t)
  <2>1. pc[t] = "delete" /\ UNCHANGED cache
    BY <1>6 DEF DeleteJournal
  <2>2. \A u \in Threads \ {t} : pc[u] \notin Inside
    BY <2>1 DEF Inside
  <2>3. CASE Step(t, "delete", "clear")
    BY <2>1, <2>2, <2>3 DEF Inside, ConnectPcs, CleanupPcs
  <2>4. CASE op[t] # "connect" /\ Return(t, "err")
    BY <2>1, <2>2, <2>4 DEF Inside, ConnectPcs, CleanupPcs
  <2>5. QED
    BY <1>6, <2>3, <2>4 DEF DeleteJournal
<1>7. CASE ClearCache(t)
  BY <1>7 DEF ClearCache, Inside, ConnectPcs, CleanupPcs
<1>8. QED
  BY <1>1, <1>2, <1>3, <1>4, <1>5, <1>6, <1>7 DEF CleanupStep

LEMMA PhaseStep ==
    ASSUME TypeInv, ControlInv, PhaseInv, [Next]_vars
    PROVE  PhaseInv'
<1>1. ASSUME NEW t \in Threads, ThreadStep(t) PROVE PhaseInv'
  BY <1>1, ConnectStepPhase, DisconnectStepPhase, RestoreStepPhase, CleanupStepPhase
     DEF ThreadStep
<1>2. ASSUME NEW t \in Threads, NEW o \in Ops, Call(t, o) PROVE PhaseInv'
  BY <1>2 DEF Call, Goto, TypeInv, TypeOK, PhaseInv, Phase, Inside, ConnectPcs, CleanupPcs
<1>3. CASE Environment
  <2> USE DEF TypeInv, TypeOK, PhaseInv, Phase, Inside, ConnectPcs, CleanupPcs
  <2>1. CASE Start
    BY <2>1, ThreadsAssumption DEF Start, ControlInv, LockInv, UpInv
  <2>2. CASE ProcessEnds
    BY <2>2 DEF ProcessEnds
  <2>3. CASE Reboot \/ UserRearranges \/ KWinSaves
               \/ \E s \in Slots : KWinHotplug(s) \/ KWinUnplug(s)
    <3>1. UNCHANGED <<cache, pc, op, st>>
      BY <2>3 DEF Reboot, UserRearranges, KWinSaves, KWinHotplug, KWinUnplug
    <3>2. QED
      BY <3>1
  <2>4. QED
    BY <1>3, <2>1, <2>2, <2>3 DEF Environment
<1>4. CASE UNCHANGED vars
  BY <1>4 DEF PhaseInv, Phase
<1>5. QED
  BY <1>1, <1>2, <1>3, <1>4 DEF Next

LEMMA InitPhase == Init => TypeInv /\ ControlInv /\ PhaseInv
BY InitType, ThreadsAssumption
   DEF Init, ControlInv, LockInv, UpInv, PhaseInv, Phase, Inside, ConnectPcs, CleanupPcs

LEMMA PhaseInductive == Spec => []PhaseInv
<1>1. Spec => []ControlInv
  BY ControlInductive
<1>2. TypeInv /\ ControlInv /\ PhaseInv /\ [Next]_vars => PhaseInv'
  BY PhaseStep
<1>3. QED
  BY <1>1, <1>2, InitPhase, TypeStep, PTL DEF Spec

\* Once the mutex is free status() no longer says Connecting, whatever failed.
THEOREM ConnectSettles == Spec => []NeverStuckConnecting
<1>1. PhaseInv /\ ControlInv => NeverStuckConnecting
  BY ThreadsAssumption DEF PhaseInv, ControlInv, LockInv, NeverStuckConnecting
<1>2. QED
  BY <1>1, ControlInductive, PhaseInductive, PTL
=============================================================================
