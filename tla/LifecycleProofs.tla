--------------------------- MODULE LifecycleProofs ---------------------------
(***************************************************************************)
(* KWinStrategy implements DisplayLifecycle, for any threads, outputs,     *)
(* slots and faults that leave restore its journal.                        *)
(***************************************************************************)
EXTENDS KWinStrategyProofs

USE DEF locals, control, stored, memory, sysfs, kwin, vars,
        Journal!Put, Journal!Write, Journal!Flush, Journal!PowerLoss

\* What an operation finds in memory and in the journal at each of its steps.
\* The last part is why restore never adopts a session that is being ended.
LifeInv ==
    /\ \A t \in Threads :
        /\ pc[t] \in {"save", "publish"} => cache = NoState /\ st[t].phase = "Connecting"
        /\ pc[t] \in ConnectPcs \ {"save", "publish"} => Phase = "Connecting"
        /\ pc[t] \in {"d_save", "d_publish"} => cache # NoState
        /\ pc[t] = "d_publish" => journal # NoState /\ journal.phase = "Disconnecting"
        /\ pc[t] = "probe" => st[t] = journal
        /\ pc[t] \in Inside \ {"save", "d_save", "clear"} => journal # NoState
    /\ Phase = "Disconnecting" => journal = NoState \/ journal.phase # "Connected"

\* A step of an operation that leaves memory and journal alone.
LEMMA GoesOn ==
    ASSUME TypeInv, ControlInv, LifeInv, NEW t \in Threads, lock = t,
           UNCHANGED <<memory, st>>,
           NEW to \in Inside \ {"save", "publish", "d_save", "d_publish", "probe"},
           pc[t] \in Inside \ {"save", "d_save", "clear"},
           to \in ConnectPcs => pc[t] \in ConnectPcs \ {"publish"},
           pc' = [pc EXCEPT ![t] = to]
    PROVE  LifeInv'
BY DEF TypeInv, TypeOK, ControlInv, LockInv, LifeInv, Phase

LEMMA ConnectStepLife ==
    ASSUME TypeInv, ControlInv, PhaseInv, LifeInv, NEW t \in Threads, ConnectStep(t)
    PROVE  LifeInv'
<1> USE NoStateAssumption, ThreadsAssumption
    DEF TypeInv, TypeOK, ControlInv, LockInv, Step, Goto, Return, Acquire, Abort
<1>1. CASE ConnectRefused(t)
  BY <1>1 DEF ConnectRefused, LifeInv, Phase, Inside, ConnectPcs, CleanupPcs
<1>2. CASE ConnectBegin(t)
  <2>1. /\ cache = NoState /\ UNCHANGED memory /\ pc' = [pc EXCEPT ![t] = "save"]
        /\ \A u \in Threads : pc[u] \notin Inside
    BY <1>2 DEF ConnectBegin
  <2>2. st'[t].phase = "Connecting"
    BY <1>2 DEF ConnectBegin
  <2>3. QED
    BY <2>1, <2>2 DEF LifeInv, Phase, Inside, ConnectPcs, CleanupPcs
<1>3. CASE ConnectSave(t)
  <2>1. /\ pc[t] = "save" /\ cache = NoState /\ UNCHANGED cache /\ st[t] \in States
        /\ st[t].phase = "Connecting" /\ \A u \in Threads \ {t} : pc[u] \notin Inside
    BY <1>3 DEF ConnectSave, LifeInv, Inside, ConnectPcs
  <2>2. CASE Step(t, "save", "publish") /\ Journal!Write(st[t])
    BY <2>1, <2>2 DEF LifeInv, Phase, Inside, ConnectPcs, CleanupPcs
  <2>3. CASE TornSave(st[t]) /\ Return(t, "err")
    BY <2>1, <2>3 DEF TornSave, LifeInv, Phase, Inside, ConnectPcs, CleanupPcs
  <2>4. QED
    BY <1>3, <2>2, <2>3 DEF ConnectSave
<1>4. CASE ConnectPublish(t)
  <2>1. /\ pc[t] = "publish" /\ st[t] \in States /\ st[t].phase = "Connecting"
        /\ cache' = st[t] /\ UNCHANGED <<stored, st>> /\ journal # NoState
        /\ pc' = [pc EXCEPT ![t] = "write_edid"]
        /\ \A u \in Threads \ {t} : pc[u] \notin Inside
    BY <1>4 DEF ConnectPublish, LifeInv, Inside, ConnectPcs
  <2>2. QED
    BY <2>1 DEF LifeInv, Phase, Inside, ConnectPcs, CleanupPcs
<1>5. CASE ConnectCommit(t)
  <2>1. /\ pc[t] = "commit" /\ UNCHANGED cache /\ st[t] \in States /\ Phase = "Connecting"
        /\ \A u \in Threads \ {t} : pc[u] \notin Inside
    BY <1>5 DEF ConnectCommit, LifeInv, Inside, ConnectPcs
  <2>2. WithPhase(st[t], "Connected") \in States /\ journal # NoState
    BY <2>1, WithPhaseType DEF LifeInv, Inside, ConnectPcs, Phases
  <2>3. journal' # NoState
    BY <1>5, <2>2 DEF ConnectCommit, TornSave
  <2>4. \E to \in {"publish_connected", "k_layout"} : pc' = [pc EXCEPT ![t] = to]
    BY <1>5 DEF ConnectCommit
  <2>5. QED
    BY <2>1, <2>3, <2>4 DEF LifeInv, Phase, Inside, ConnectPcs, CleanupPcs
<1>6. CASE ConnectReturn(t)
  <2>1. /\ pc[t] = "publish_connected" /\ cache' = st[t] /\ st[t] \in States
        /\ st[t].phase = "Connected"
    BY <1>6 DEF ConnectReturn, PhaseInv, Inside, ConnectPcs
  <2>2. \A u \in Threads \ {t} : pc[u] \notin Inside
    BY <2>1 DEF Inside, ConnectPcs
  <2>3. QED
    BY <1>6, <2>1, <2>2 DEF ConnectReturn, LifeInv, Phase, Inside, ConnectPcs, CleanupPcs
<1>7. ASSUME UNCHANGED <<memory, st>>, pc[t] \in ConnectPcs \ {"save", "publish"},
             NEW to \in (ConnectPcs \cup {"k_layout"}) \ {"save", "publish"},
             pc' = [pc EXCEPT ![t] = to]
      PROVE  LifeInv'
  BY <1>7, GoesOn DEF Inside, ConnectPcs, CleanupPcs
<1>8. CASE WriteEdid(t) \/ ClearKwinConfig(t) \/ RewriteKwinConfig(t) \/ SlotOn(t)
             \/ WaitForOutput(t) \/ EnableOutput(t) \/ VerifyMode(t)
  BY <1>7, <1>8 DEF WriteEdid, ClearKwinConfig, RewriteKwinConfig, SlotOn, WaitForOutput,
     EnableOutput, VerifyMode, ConnectPcs
<1>9. CASE DisableOutput(t)
  <2>1. pc[t] = "disable" /\ UNCHANGED <<memory, st>>
    BY <1>9 DEF DisableOutput
  <2>2. CASE UNCHANGED pc
    BY <2>1, <2>2 DEF LifeInv, Phase
  <2>3. CASE Abort(t, "disable")
    BY <1>7, <2>1, <2>3 DEF ConnectPcs
  <2>4. QED
    BY <1>9, <2>2, <2>3 DEF DisableOutput
<1>10. QED
  BY <1>1, <1>2, <1>3, <1>4, <1>5, <1>6, <1>8, <1>9 DEF ConnectStep

LEMMA DisconnectStepLife ==
    ASSUME TypeInv, ControlInv, PhaseInv, LifeInv, NEW t \in Threads, DisconnectStep(t)
    PROVE  LifeInv'
<1> USE NoStateAssumption, ThreadsAssumption
    DEF TypeInv, TypeOK, ControlInv, LockInv, Step, Goto, Return, Acquire, LifeInv, Phase
<1>1. CASE DisconnectRefused(t)
  BY <1>1 DEF DisconnectRefused, Inside, ConnectPcs, CleanupPcs
<1>2. CASE DisconnectBegin(t)
  BY <1>2 DEF DisconnectBegin, Inside, ConnectPcs, CleanupPcs
<1>3. CASE DisconnectSave(t)
  <2>1. /\ pc[t] = "d_save" /\ UNCHANGED cache /\ st[t] \in States
        /\ st[t].phase = "Disconnecting" /\ \A u \in Threads \ {t} : pc[u] \notin Inside
    BY <1>3 DEF DisconnectSave, PhaseInv, Inside
  <2>2. CASE Step(t, "d_save", "d_publish") /\ Journal!Write(st[t])
    BY <2>1, <2>2 DEF Inside, ConnectPcs, CleanupPcs
  <2>3. CASE TornSave(st[t]) /\ Return(t, "err")
    BY <2>1, <2>3 DEF TornSave, Inside, ConnectPcs, CleanupPcs
  <2>4. QED
    BY <1>3, <2>2, <2>3 DEF DisconnectSave
<1>4. CASE DisconnectPublish(t)
  <2>1. /\ pc[t] = "d_publish" /\ cache' = st[t] /\ st[t] \in States /\ UNCHANGED <<stored, st>>
        /\ pc' = [pc EXCEPT ![t] = "k_layout"]
        /\ journal # NoState /\ journal.phase = "Disconnecting"
        /\ \A u \in Threads \ {t} : pc[u] \notin Inside
    BY <1>4 DEF DisconnectPublish, Inside
  <2>2. QED
    BY <2>1 DEF Inside, ConnectPcs, CleanupPcs
<1>5. QED
  BY <1>1, <1>2, <1>3, <1>4 DEF DisconnectStep

LEMMA RestoreStepLife ==
    ASSUME TypeInv, ControlInv, LifeInv, NEW t \in Threads, RestoreStep(t)
    PROVE  LifeInv'
<1> USE NoStateAssumption, ThreadsAssumption
    DEF TypeInv, TypeOK, ControlInv, LockInv, Step, Goto, Return, Acquire, LifeInv, Phase
<1>1. CASE RestoreNothing(t)
  BY <1>1 DEF RestoreNothing, Inside, ConnectPcs, CleanupPcs
<1>2. CASE RestoreBegin(t)
  BY <1>2 DEF RestoreBegin, Inside, ConnectPcs, CleanupPcs
<1>3. CASE RestoreAdopt(t)
  <2>1. pc[t] = "probe" /\ cache' = st[t] /\ st[t].phase = "Connected" /\ st[t] \in States
    BY <1>3 DEF RestoreAdopt, Inside
  <2>2. \A u \in Threads \ {t} : pc[u] \notin Inside
    BY <2>1 DEF Inside
  <2>3. QED
    BY <1>3, <2>1, <2>2 DEF RestoreAdopt, Inside, ConnectPcs, CleanupPcs
<1>4. CASE RestoreCleanup(t)
  BY <1>4 DEF RestoreCleanup, Inside, ConnectPcs, CleanupPcs
<1>5. QED
  BY <1>1, <1>2, <1>3, <1>4 DEF RestoreStep

LEMMA CleanupStepLife ==
    ASSUME TypeInv, ControlInv, LifeInv, NEW t \in Threads, CleanupStep(t)
    PROVE  LifeInv'
<1> USE NoStateAssumption, ThreadsAssumption
    DEF TypeInv, TypeOK, ControlInv, LockInv, Step, Goto, Return
<1>1. CASE CleanupLayout(t) \/ CleanupSlotOff(t)
  BY <1>1, GoesOn DEF CleanupLayout, CleanupSlotOff, Inside, ConnectPcs, CleanupPcs
<1>2. CASE CleanupEdid(t)
  BY <1>2, GoesOn DEF CleanupEdid, Inside, ConnectPcs, CleanupPcs
<1>3. CASE RecoverSave(t)
  <2> DEFINE s == WithPhase(st[t], "RecoveryRequired")
  <2>1. /\ pc[t] = "recover_save" /\ UNCHANGED cache /\ st[t] \in States
        /\ journal # NoState /\ \A u \in Threads \ {t} : pc[u] \notin Inside
    BY <1>3 DEF RecoverSave, LifeInv, Inside, ConnectPcs
  <2>2. s \in States /\ s.phase = "RecoveryRequired"
    BY <2>1, WithPhaseType DEF Phases
  <2>3. journal' = s \/ UNCHANGED journal
    BY <1>3 DEF RecoverSave, TornSave
  <2>4. journal' # NoState /\ (journal'.phase = "Connected" => UNCHANGED journal)
    BY <2>1, <2>2, <2>3
  <2>5. Step(t, "recover_save", "recover_publish") \/ Return(t, "err")
    BY <1>3 DEF RecoverSave
  <2>6. QED
    BY <2>1, <2>4, <2>5 DEF LifeInv, Phase, Inside, ConnectPcs, CleanupPcs
<1>4. CASE RecoverPublish(t)
  <2>1. pc[t] = "recover_publish" /\ st[t] \in States
    BY <1>4 DEF RecoverPublish, Inside
  <2>2. cache' \in States /\ cache'.phase = "RecoveryRequired"
    BY <1>4, <2>1, WithPhaseType DEF RecoverPublish, Phases
  <2>3. \A u \in Threads \ {t} : pc[u] \notin Inside
    BY <2>1 DEF Inside
  <2>4. QED
    BY <1>4, <2>1, <2>2, <2>3 DEF RecoverPublish, LifeInv, Phase, Inside, ConnectPcs, CleanupPcs
<1>5. CASE DeleteJournal(t)
  <2>1. pc[t] = "delete" /\ UNCHANGED cache
    BY <1>5 DEF DeleteJournal
  <2>2. \A u \in Threads \ {t} : pc[u] \notin Inside
    BY <2>1 DEF Inside
  <2>3. journal' = NoState \/ UNCHANGED journal
    BY <1>5 DEF DeleteJournal
  <2>4. Step(t, "delete", "clear") \/ Return(t, "err")
    BY <1>5 DEF DeleteJournal
  <2>5. QED
    BY <2>1, <2>2, <2>3, <2>4 DEF LifeInv, Phase, Inside, ConnectPcs, CleanupPcs
<1>6. CASE ClearCache(t)
  BY <1>6 DEF ClearCache, LifeInv, Phase, Inside, ConnectPcs, CleanupPcs
<1>7. QED
  BY <1>1, <1>2, <1>3, <1>4, <1>5, <1>6 DEF CleanupStep

LEMMA LifeInductive ==
    ASSUME TypeInv, ControlInv, PhaseInv, LifeInv, [Next]_vars
    PROVE  LifeInv'
<1>1. ASSUME NEW t \in Threads, ThreadStep(t) PROVE LifeInv'
  BY <1>1, ConnectStepLife, DisconnectStepLife, RestoreStepLife, CleanupStepLife DEF ThreadStep
<1>2. ASSUME NEW t \in Threads, NEW o \in Ops, Call(t, o) PROVE LifeInv'
  BY <1>2 DEF Call, Goto, TypeInv, TypeOK, LifeInv, Phase, Inside, ConnectPcs, CleanupPcs
<1>3. CASE Environment
  <2> USE DEF TypeInv, TypeOK, LifeInv, Phase, Inside, ConnectPcs, CleanupPcs
  <2>1. CASE Start
    BY <2>1, ThreadsAssumption DEF Start
  <2>2. CASE ProcessEnds
    BY <2>2 DEF ProcessEnds
  <2>3. CASE Reboot
    <3>1. cache = NoState /\ UNCHANGED cache /\ \A t \in Threads : pc'[t] = "idle"
      BY <2>3 DEF Reboot, ControlInv, UpInv
    <3>2. QED
      BY <3>1
  <2>4. CASE UserRearranges \/ KWinSaves \/ \E s \in Slots : KWinHotplug(s) \/ KWinUnplug(s)
    <3>1. UNCHANGED <<memory, pc, st>>
      BY <2>4 DEF UserRearranges, KWinSaves, KWinHotplug, KWinUnplug
    <3>2. QED
      BY <3>1
  <2>5. QED
    BY <1>3, <2>1, <2>2, <2>3, <2>4 DEF Environment
<1>4. CASE UNCHANGED vars
  BY <1>4 DEF LifeInv, Phase
<1>5. QED
  BY <1>1, <1>2, <1>3, <1>4 DEF Next

-----------------------------------------------------------------------------
\* Every step is a step of DisplayLifecycle, or none.

\* The abstract phase.
LifePhase == IF up = "up" THEN Phase ELSE "Down"

Facts == IndInv /\ PhaseInv /\ LifeInv

\* What is altered is on record, and neither phase nor record change.
LEMMA HardwareStep ==
    ASSUME LifePhase' = LifePhase, UNCHANGED journal, Altered' => Altered \/ journal # NoState
    PROVE  [Lifecycle!Next]_Lifecycle!vars
<1>1. Altered \in BOOLEAN /\ Altered' \in BOOLEAN
  BY DEF Altered
<1>2. QED
  BY <1>1 DEF Lifecycle!Next, Lifecycle!vars, Lifecycle!Alter, Lifecycle!Undo, LifePhase

LEMMA RecordStep ==
    ASSUME LifePhase' = LifePhase, Altered' = Altered, journal' # NoState \/ UNCHANGED journal
    PROVE  [Lifecycle!Next]_Lifecycle!vars
BY DEF Lifecycle!Next, Lifecycle!vars, Lifecycle!Record, LifePhase

LEMMA SameAltered == UNCHANGED <<sysfs, kwin, userLayout>> => Altered' = Altered
BY DEF Altered

LEMMA PhaseType ==
    ASSUME TypeInv
    PROVE  LifePhase \in Lifecycle!Phases /\ Phase \in Lifecycle!Phases \ {"Down"}
BY NoStateAssumption DEF TypeInv, TypeOK, LifePhase, Phase, States, Phases, Lifecycle!Phases

\* Where the operations other than the startup restore find the daemon.
LEMMA IsUp ==
    ASSUME Facts, NEW t \in Threads, pc[t] # "idle", op[t] # "restore"
    PROVE  up = "up"
BY DEF Facts, IndInv, ControlInv, UpInv

LEMMA ConnectStepMaps ==
    ASSUME Facts, NEW t \in Threads, ConnectStep(t)
    PROVE  [Lifecycle!Next]_Lifecycle!vars
<1> USE NoStateAssumption, ThreadsAssumption DEF Step, Goto, Return, Acquire, Abort
<1>1. /\ op[t] = "connect" /\ up = "up" /\ pc \in [Threads -> {"idle", "waiting"} \cup Inside]
      /\ pc[t] \in Inside => st[t] \in States
      /\ pc[t] \in Inside \ {"save", "d_save", "clear"} => journal # NoState
  <2>1. op[t] = "connect" /\ pc[t] # "idle"
    BY DEF ConnectStep, ConnectRefused, ConnectBegin, ConnectSave, ConnectPublish, WriteEdid,
       ClearKwinConfig, RewriteKwinConfig, DisableOutput, SlotOn, WaitForOutput, EnableOutput,
       VerifyMode, ConnectCommit, ConnectReturn, Facts, IndInv, ControlInv, LockInv, ConnectPcs
  <2>2. QED
    BY <2>1, IsUp DEF Facts, IndInv, TypeInv, TypeOK, LifeInv
<1>2. CASE ConnectRefused(t) \/ ConnectBegin(t) \/ WaitForOutput(t) \/ VerifyMode(t)
  <2>1. up' = up /\ UNCHANGED <<memory, sysfs, kwin, userLayout>>
    BY <1>1, <1>2 DEF ConnectRefused, ConnectBegin, WaitForOutput, VerifyMode
  <2>2. QED
    BY <2>1, SameAltered, RecordStep DEF LifePhase, Phase
<1>3. CASE ConnectSave(t) \/ ConnectCommit(t)
  <2>1. up' = up /\ UNCHANGED <<cache, sysfs, kwin, userLayout>>
    BY <1>1, <1>3 DEF ConnectSave, ConnectCommit
  <2>2. st[t] \in States /\ WithPhase(st[t], "Connected") \in States
    BY <1>1, <1>3, WithPhaseType DEF ConnectSave, ConnectCommit, Inside, ConnectPcs, Phases
  <2>3. journal' # NoState \/ UNCHANGED journal
    BY <1>3, <2>2 DEF ConnectSave, ConnectCommit, TornSave
  <2>4. QED
    BY <2>1, <2>3, SameAltered, RecordStep DEF LifePhase, Phase
<1>4. CASE ConnectPublish(t)
  <2>1. /\ cache = NoState /\ cache' = st[t] /\ st[t] \in States /\ st[t].phase = "Connecting"
        /\ journal # NoState /\ ~Altered /\ up' = up
        /\ UNCHANGED <<stored, sysfs, kwin, userLayout>>
    BY <1>1, <1>4 DEF ConnectPublish, Facts, IndInv, DataInv, CleanupInv, LifeInv, Inside, ConnectPcs
  <2>2. Altered' = Altered
    BY <2>1, SameAltered
  <2>3. QED
    BY <1>1, <2>1, <2>2
       DEF Phase, Lifecycle!Next, Lifecycle!BeginConnect, Lifecycle!Move
<1>5. CASE ConnectReturn(t)
  <2>1. /\ cache' = st[t] /\ st[t] \in States /\ st[t].phase = "Connected"
        /\ Phase = "Connecting" /\ journal # NoState /\ up' = "up"
        /\ UNCHANGED <<stored, sysfs, kwin, userLayout>>
    BY <1>1, <1>5 DEF ConnectReturn, Facts, PhaseInv, LifeInv, Inside, ConnectPcs
  <2>2. Altered' = Altered
    BY <2>1, SameAltered
  <2>3. Phase' = "Connected"
    BY <2>1 DEF Phase
  <2>4. QED
    BY <1>1, <2>1, <2>2, <2>3
       DEF Lifecycle!Next, Lifecycle!Establish, Lifecycle!Move
<1>6. CASE WriteEdid(t) \/ ClearKwinConfig(t) \/ RewriteKwinConfig(t) \/ DisableOutput(t)
             \/ SlotOn(t) \/ EnableOutput(t)
  <2>1. up' = up /\ UNCHANGED memory /\ journal # NoState
    BY <1>1, <1>6 DEF WriteEdid, ClearKwinConfig, RewriteKwinConfig, DisableOutput, SlotOn,
       EnableOutput, Inside, ConnectPcs
  <2>2. QED
    BY <2>1, HardwareStep DEF LifePhase, Phase
<1>7. QED
  BY <1>2, <1>3, <1>4, <1>5, <1>6 DEF ConnectStep

LEMMA DisconnectStepMaps ==
    ASSUME Facts, NEW t \in Threads, DisconnectStep(t)
    PROVE  [Lifecycle!Next]_Lifecycle!vars
<1> USE NoStateAssumption, ThreadsAssumption DEF Step, Goto, Return, Acquire
<1>1. op[t] = "disconnect" /\ up = "up" /\ (pc[t] \in Inside => st[t] \in States)
  <2>1. op[t] = "disconnect" /\ pc[t] # "idle"
    BY DEF DisconnectStep, DisconnectRefused, DisconnectBegin, DisconnectSave, DisconnectPublish,
       Facts, IndInv, ControlInv, LockInv
  <2>2. QED
    BY <2>1, IsUp DEF Facts, IndInv, TypeInv
<1>2. CASE DisconnectRefused(t) \/ DisconnectBegin(t)
  <2>1. up' = up /\ UNCHANGED <<memory, sysfs, kwin, userLayout>>
    BY <1>1, <1>2 DEF DisconnectRefused, DisconnectBegin
  <2>2. QED
    BY <2>1, SameAltered, RecordStep DEF LifePhase, Phase
<1>3. CASE DisconnectSave(t)
  <2>1. up' = up /\ UNCHANGED <<cache, sysfs, kwin, userLayout>> /\ st[t] \in States
    BY <1>1, <1>3 DEF DisconnectSave, Inside
  <2>2. journal' # NoState \/ UNCHANGED journal
    BY <1>3, <2>1 DEF DisconnectSave, TornSave
  <2>3. QED
    BY <2>1, <2>2, SameAltered, RecordStep DEF LifePhase, Phase
<1>4. CASE DisconnectPublish(t)
  <2>1. /\ cache # NoState /\ cache' = st[t] /\ st[t] \in States
        /\ st[t].phase = "Disconnecting" /\ up' = up
        /\ UNCHANGED <<stored, sysfs, kwin, userLayout>>
    BY <1>1, <1>4 DEF DisconnectPublish, Facts, PhaseInv, LifeInv, Inside
  <2>2. Altered' = Altered
    BY <2>1, SameAltered
  <2>3. Phase # "Connecting"
    BY <1>1, <1>4 DEF DisconnectPublish, Facts, IndInv, ControlInv, LockInv, PhaseInv, Inside
  <2>4. Phase \in {"Connected", "Disconnecting", "RecoveryRequired"}
    BY <2>1, <2>3 DEF Facts, IndInv, TypeInv, TypeOK, States, Phases, Phase
  <2>5. Phase' = "Disconnecting"
    BY <2>1 DEF Phase
  <2>6. QED
    BY <1>1, <2>1, <2>2, <2>4, <2>5
       DEF Lifecycle!Next, Lifecycle!BeginDisconnect, Lifecycle!Move
<1>5. QED
  BY <1>2, <1>3, <1>4 DEF DisconnectStep

\* The startup restore settles the phase.
LEMMA BootStep ==
    ASSUME Facts, up = "starting", up' = "up", Altered' = Altered, UNCHANGED journal,
           \/ Phase' = "Disconnected" /\ ~Altered
           \/ Phase' \in {"Connected", "RecoveryRequired"} /\ journal # NoState
    PROVE  Lifecycle!Next
<1>1. PICK to \in {"Disconnected", "Connected", "RecoveryRequired"} :
        Phase' = to /\ IF to = "Disconnected" THEN ~Altered ELSE journal # NoState
  OBVIOUS
<1>2. Lifecycle!Boot
  BY <1>1 DEF Lifecycle!Boot, Lifecycle!Move
<1>3. QED
  BY <1>2 DEF Lifecycle!Next

LEMMA UpType == ASSUME Facts, up # "up", up # "down" PROVE up = "starting" /\ cache = NoState
BY DEF Facts, IndInv, TypeInv, TypeOK, ControlInv, UpInv

\* While nothing runs in a process that is down.
LEMMA NotDown == ASSUME Facts, NEW t \in Threads, pc[t] # "idle" PROVE up # "down"
BY DEF Facts, IndInv, ControlInv, UpInv

LEMMA RestoreStepMaps ==
    ASSUME RecoveryReads, Facts, NEW t \in Threads, RestoreStep(t)
    PROVE  [Lifecycle!Next]_Lifecycle!vars
<1> USE NoStateAssumption, ThreadsAssumption DEF Step, Goto, Return, Acquire
<1>1. pc[t] # "idle" /\ up # "down" /\ (pc[t] \in Inside => st[t] \in States)
  <2>1. pc[t] # "idle"
    BY DEF RestoreStep, RestoreNothing, RestoreBegin, RestoreAdopt, RestoreCleanup
  <2>2. QED
    BY <2>1, NotDown DEF Facts, IndInv, TypeInv
<1>2. CASE RestoreBegin(t) \/ RestoreCleanup(t)
  <2>1. up' = up /\ UNCHANGED <<memory, sysfs, kwin, userLayout>>
    BY <1>2 DEF RestoreBegin, RestoreCleanup
  <2>2. QED
    BY <2>1, SameAltered, RecordStep DEF LifePhase, Phase
<1>3. CASE RestoreNothing(t)
  <2>1. journal = NoState /\ up' = "up" /\ UNCHANGED <<memory, sysfs, kwin, userLayout>>
    BY <1>3 DEF RestoreNothing, RecoveryReads
  <2>2. Altered' = Altered /\ ~Altered
    BY <2>1, SameAltered DEF Facts, IndInv, DataInv, Recoverable, Covers
  <2>3. CASE up = "up"
    BY <2>1, <2>2, <2>3, RecordStep DEF LifePhase, Phase
  <2>4. CASE up # "up"
    <3>1. up = "starting" /\ cache = NoState
      BY <1>1, <2>4, UpType
    <3>2. Phase' = "Disconnected"
      BY <2>1, <3>1 DEF Phase
    <3>3. QED
      BY <2>1, <2>2, <3>1, <3>2, BootStep
  <2>5. QED
    BY <2>3, <2>4
<1>4. CASE RestoreAdopt(t)
  <2>1. /\ pc[t] = "probe" /\ st[t] \in States /\ st[t].phase = "Connected" /\ cache' = st[t]
        /\ up' = "up" /\ journal = st[t]
        /\ UNCHANGED <<stored, sysfs, kwin, userLayout>>
    BY <1>1, <1>4 DEF RestoreAdopt, Facts, LifeInv, Inside
  <2>2. Phase' = "Connected" /\ Altered' = Altered /\ journal # NoState
    BY <2>1, SameAltered DEF Phase
  <2>3. CASE up = "up"
    <3>1. Phase # "Disconnecting"
      BY <2>1, <2>2 DEF Facts, LifeInv
    <3>2. Phase \in {"Disconnected", "Connected", "RecoveryRequired", "Connecting"}
      BY <3>1, PhaseType DEF Facts, IndInv, Lifecycle!Phases
    <3>4. QED
      BY <2>1, <2>2, <2>3, <3>2
         DEF Lifecycle!Next, Lifecycle!Adopt, Lifecycle!Establish, Lifecycle!Move
  <2>4. CASE up # "up"
    BY <1>1, <2>1, <2>2, <2>4, UpType, BootStep
  <2>5. QED
    BY <2>3, <2>4
<1>5. QED
  BY <1>2, <1>3, <1>4 DEF RestoreStep

LEMMA CleanupStepMaps ==
    ASSUME RecoveryReads, Facts, NEW t \in Threads, CleanupStep(t)
    PROVE  [Lifecycle!Next]_Lifecycle!vars
<1> USE NoStateAssumption, ThreadsAssumption DEF Step, Goto, Return
<1>1. /\ pc[t] \in Inside /\ up # "down" /\ st[t] \in States /\ op[t] \in Ops
      /\ pc[t] \in Inside \ {"save", "d_save", "clear"} => journal # NoState
  <2>1. pc[t] \in Inside /\ pc[t] # "idle"
    BY DEF CleanupStep, CleanupLayout, CleanupSlotOff, CleanupEdid, RecoverSave, RecoverPublish,
       DeleteJournal, ClearCache, Inside, ConnectPcs, CleanupPcs
  <2>2. QED
    BY <2>1, NotDown DEF Facts, IndInv, TypeInv, ControlInv, LockInv, LifeInv
<1>2. CASE CleanupLayout(t) \/ CleanupSlotOff(t) \/ CleanupEdid(t)
  <2>1. up' = up /\ UNCHANGED memory /\ journal # NoState
    BY <1>1, <1>2 DEF CleanupLayout, CleanupSlotOff, CleanupEdid
  <2>2. QED
    BY <2>1, HardwareStep DEF LifePhase, Phase
<1>3. CASE RecoverSave(t)
  <2>1. /\ UNCHANGED <<cache, sysfs, kwin, userLayout>>
        /\ \/ up' = up
           \/ up' = "up" /\ op[t] # "restore"
    BY <1>1, <1>3 DEF RecoverSave, RecoverFault, RecoveryReads
  <2>2. up' = up
    BY <1>3, <2>1, IsUp DEF RecoverSave
  <2>3. WithPhase(st[t], "RecoveryRequired") \in States
    BY <1>1, WithPhaseType DEF Phases
  <2>4. journal' # NoState \/ UNCHANGED journal
    BY <1>3, <2>3 DEF RecoverSave, TornSave
  <2>5. QED
    BY <2>1, <2>2, <2>4, SameAltered, RecordStep DEF LifePhase, Phase
<1>4. CASE RecoverPublish(t)
  <2>1. /\ cache' = WithPhase(st[t], "RecoveryRequired") /\ up' = "up" /\ journal # NoState
        /\ UNCHANGED <<stored, sysfs, kwin, userLayout>>
    BY <1>1, <1>4 DEF RecoverPublish
  <2>2. Phase' = "RecoveryRequired" /\ Altered' = Altered
    BY <1>1, <2>1, SameAltered, WithPhaseType DEF Phase, Phases
  <2>3. CASE up = "up"
    BY <2>1, <2>2, <2>3, PhaseType
       DEF Facts, IndInv, Lifecycle!Next, Lifecycle!NeedRecovery, Lifecycle!Move
  <2>4. CASE up # "up"
    BY <1>1, <2>1, <2>2, <2>4, UpType, BootStep
  <2>5. QED
    BY <2>3, <2>4
<1>5. CASE DeleteJournal(t)
  <2>1. ~Altered /\ UNCHANGED <<cache, sysfs, kwin, userLayout>>
    BY <1>5 DEF DeleteJournal, Facts, IndInv, DataInv, CleanupInv
  <2>2. Altered' = Altered
    BY <2>1, SameAltered
  <2>3. CASE up' = up /\ journal' = NoState
    BY <2>1, <2>2, <2>3
       DEF Phase, Lifecycle!Next, Lifecycle!Forget
  <2>4. CASE up' = up /\ UNCHANGED journal
    BY <2>1, <2>2, <2>4, RecordStep DEF LifePhase, Phase
  <2>5. CASE up' = "up" /\ UNCHANGED journal
    <3>1. CASE up = "up"
      BY <2>4, <2>5, <3>1
    <3>2. CASE up # "up"
      <4>1. up = "starting" /\ cache = NoState
        BY <1>1, <3>2, UpType
      <4>2. Phase' = "Disconnected"
        BY <2>1, <4>1 DEF Phase
      <4>3. QED
        BY <2>1, <2>2, <2>5, <4>1, <4>2, BootStep
    <3>3. QED
      BY <3>1, <3>2
  <2>6. QED
    BY <1>5, <2>3, <2>4, <2>5 DEF DeleteJournal
<1>6. CASE ClearCache(t)
  <2>1. /\ ~Altered /\ cache' = NoState /\ up' = "up"
        /\ UNCHANGED <<stored, sysfs, kwin, userLayout>>
    BY <1>6 DEF ClearCache, Facts, IndInv, DataInv, CleanupInv
  <2>2. Phase' = "Disconnected" /\ Altered' = Altered
    BY <2>1, SameAltered DEF Phase
  <2>3. CASE up = "up"
    BY <2>1, <2>2, <2>3, PhaseType
       DEF Facts, IndInv, Lifecycle!Next, Lifecycle!Finish, Lifecycle!Move
  <2>4. CASE up # "up"
    BY <1>1, <2>1, <2>2, <2>4, UpType, BootStep
  <2>5. QED
    BY <2>3, <2>4
<1>7. QED
  BY <1>2, <1>3, <1>4, <1>5, <1>6 DEF CleanupStep

LEMMA CallMaps ==
    ASSUME NEW t \in Threads, NEW o \in Ops, Call(t, o)
    PROVE  [Lifecycle!Next]_Lifecycle!vars
<1>1. up' = up /\ UNCHANGED <<memory, sysfs, kwin, userLayout>>
  BY DEF Call
<1>2. QED
  BY <1>1, SameAltered, RecordStep DEF LifePhase, Phase

\* What is altered is on record twice, so a loss of power leaves one.
LEMMA RebootMaps ==
    ASSUME Facts, Reboot
    PROVE  Lifecycle!Next
<1>1. LifePhase = "Down" /\ LifePhase' = "Down"
  BY DEF Reboot, LifePhase
<1>2. Altered' \in {Altered, FALSE}
  <2>1. userLayout \subseteq Outputs /\ config \in BOOLEAN
    BY DEF Facts, IndInv, TypeInv, TypeOK
  <2>2. ~Altered => ~Altered'
    BY <2>1 DEF Reboot, Altered
  <2>3. Altered \in BOOLEAN /\ Altered' \in BOOLEAN
    BY DEF Altered
  <2>4. QED
    BY <2>2, <2>3
<1>3. Altered => journal # NoState /\ disk # NoState
  BY DEF Facts, IndInv, DataInv, Recoverable, Covers
<1>4. journal' = journal \/ journal' = disk
  BY DEF Reboot
<1>5. Lifecycle!PowerLoss
  BY <1>1, <1>2, <1>3, <1>4 DEF Lifecycle!PowerLoss, LifePhase
<1>6. QED
  BY <1>5 DEF Lifecycle!Next

LEMMA EnvironmentMaps ==
    ASSUME Facts, Environment
    PROVE  [Lifecycle!Next]_Lifecycle!vars
<1> USE DisplaysAssumption
<1>1. CASE Start
  <2>1. up = "down" /\ up' = "starting" /\ UNCHANGED <<memory, sysfs, kwin, userLayout>>
    BY <1>1 DEF Start
  <2>2. LifePhase' = LifePhase
    BY <2>1 DEF LifePhase
  <2>3. QED
    BY <2>1, <2>2, SameAltered, RecordStep
<1>2. CASE ProcessEnds
  <2>1. up' = "down" /\ UNCHANGED <<stored, sysfs, kwin, userLayout>>
    BY <1>2 DEF ProcessEnds
  <2>2. Altered' = Altered
    BY <2>1, SameAltered
  <2>3. LifePhase' = "Down" /\ LifePhase \in Lifecycle!Phases
    BY <2>1, PhaseType DEF Facts, IndInv, LifePhase
  <2>4. QED
    BY <2>1, <2>2, <2>3 DEF LifePhase, Lifecycle!Next, Lifecycle!Crash, Lifecycle!Move
<1>3. CASE Reboot
  BY <1>3, RebootMaps
<1>4. CASE UserRearranges
  <2>1. up' = up /\ UNCHANGED <<memory, sysfs, config>> /\ ~Altered /\ userLayout' \subseteq enabled'
    BY <1>4 DEF UserRearranges
  <2>2. ~Altered'
    BY <2>1 DEF Altered
  <2>3. QED
    BY <2>1, <2>2, HardwareStep DEF LifePhase, Phase
<1>5. CASE KWinSaves
  <2>1. up' = up /\ UNCHANGED <<memory, sysfs, enabled, userLayout>> /\ ~config
    BY <1>5 DEF KWinSaves
  <2>2. Altered
    BY <2>1 DEF Altered
  <2>3. QED
    BY <2>1, <2>2, HardwareStep DEF LifePhase, Phase
<1>6. ASSUME NEW s \in Slots, KWinHotplug(s) \/ KWinUnplug(s)
      PROVE  [Lifecycle!Next]_Lifecycle!vars
  <2>1. up' = up /\ UNCHANGED <<memory, sysfs, config, userLayout>> /\ enabled \ {s} \subseteq enabled'
    BY <1>6 DEF KWinHotplug, KWinUnplug
  <2>2. userLayout \subseteq Outputs
    BY DEF Facts, IndInv, TypeInv, TypeOK
  <2>3. userLayout \subseteq enabled => userLayout' \subseteq enabled'
    BY <2>1, <2>2
  <2>4. Altered' => Altered
    BY <2>1, <2>3 DEF Altered
  <2>5. QED
    BY <2>1, <2>4, HardwareStep DEF LifePhase, Phase
<1>7. QED
  BY <1>1, <1>2, <1>3, <1>4, <1>5, <1>6 DEF Environment

\* The strategy implements DisplayLifecycle: what it alters it has recorded
\* before, it drops the record only when the hardware is back, it says
\* Disconnected only then, and it moves from phase to phase as the readme says,
\* through crashes and losses of power, as long as restore can read the journal
\* and save the state of an incomplete cleanup.
THEOREM ImplementsPromise ==
    ASSUME Faults \cap {"load", "recovery_save"} = {}
    PROVE  Spec => ImplementsLifecycle
<1> USE DEF LifePhase
<1>1. RecoveryReads
  BY DEF RecoveryReads
<1>2. Init => LifeInv /\ Lifecycle!Init
  BY DEF Init, Journal!Init, LifeInv, Lifecycle!Init, Phase, Altered, Inside, ConnectPcs, CleanupPcs
<1>3. IndInv /\ PhaseInv /\ LifeInv /\ [Next]_vars => LifeInv'
  BY LifeInductive DEF IndInv
<1>4. IndInv /\ PhaseInv /\ LifeInv /\ [Next]_vars => [Lifecycle!Next]_Lifecycle!vars
  <2> SUFFICES ASSUME Facts, [Next]_vars PROVE [Lifecycle!Next]_Lifecycle!vars
    BY DEF Facts
  <2>1. ASSUME NEW t \in Threads, ThreadStep(t) PROVE [Lifecycle!Next]_Lifecycle!vars
    BY <1>1, <2>1, ConnectStepMaps, DisconnectStepMaps, RestoreStepMaps, CleanupStepMaps
       DEF ThreadStep
  <2>2. CASE UNCHANGED vars
    BY <2>2, SameAltered, RecordStep DEF Phase
  <2>3. QED
    BY <2>1, <2>2, CallMaps, EnvironmentMaps DEF Next
<1>5. Spec => []IndInv
  BY <1>1, Inductive
<1>6. QED
  BY <1>2, <1>3, <1>4, <1>5, PhaseInductive, PTL DEF Spec, ImplementsLifecycle, Lifecycle!Spec
=============================================================================
