---------------------------- MODULE SessionProofs ----------------------------
(***************************************************************************)
(* What KWinStrategy's status() can be trusted for, as long as the calls   *)
(* it depends on do not fail: the session in memory is the one on disk.    *)
(***************************************************************************)
EXTENDS LifecycleProofs

USE DEF locals, control, stored, memory, sysfs, kwin, vars,
        Journal!Put, Journal!Write, Journal!Flush, Journal!PowerLoss

\* A step of thread t moves t alone; it never enters another operation.
LEMMA OneThreadMoves ==
    ASSUME TypeInv, ControlInv, NEW t \in Threads, ThreadStep(t)
    PROVE  /\ pc[t] # "idle" /\ op[t] # "none" /\ up' \in {up, "up"} /\ up # "down"
           /\ \A u \in Threads \ {t} : pc'[u] = pc[u] /\ op'[u] = op[u] /\ st'[u] = st[u]
           /\ op'[t] \in {op[t], "none"}
<1> USE DEF Step, Goto, Return, Acquire, Abort
<1> SUFFICES
        /\ pc[t] # "idle" /\ up' \in {up, "up"}
        /\ \A u \in Threads \ {t} : pc'[u] = pc[u] /\ op'[u] = op[u] /\ st'[u] = st[u]
        /\ op'[t] \in {op[t], "none"}
  BY DEF ControlInv, LockInv, UpInv
<1>1. /\ pc \in [Threads -> Inside \cup {"idle", "waiting"}]
      /\ op \in [Threads -> Ops \cup {"none"}] /\ st \in [Threads -> States \cup {NoState}]
  BY DEF TypeInv, TypeOK
<1>2. CASE ConnectStep(t)
  <2>1. CASE ConnectRefused(t) \/ ConnectBegin(t) \/ ConnectSave(t) \/ ConnectPublish(t)
    BY <1>1, <2>1 DEF ConnectRefused, ConnectBegin, ConnectSave, ConnectPublish
  <2>2. CASE WriteEdid(t) \/ ClearKwinConfig(t) \/ RewriteKwinConfig(t) \/ DisableOutput(t)
    BY <1>1, <2>2 DEF WriteEdid, ClearKwinConfig, RewriteKwinConfig, DisableOutput
  <2>3. CASE SlotOn(t) \/ WaitForOutput(t) \/ EnableOutput(t) \/ VerifyMode(t)
    BY <1>1, <2>3 DEF SlotOn, WaitForOutput, EnableOutput, VerifyMode
  <2>4. CASE ConnectCommit(t) \/ ConnectReturn(t)
    BY <1>1, <2>4 DEF ConnectCommit, ConnectReturn
  <2>5. QED
    BY <1>2, <2>1, <2>2, <2>3, <2>4 DEF ConnectStep
<1>3. CASE DisconnectStep(t)
  BY <1>1, <1>3 DEF DisconnectStep, DisconnectRefused, DisconnectBegin, DisconnectSave,
     DisconnectPublish
<1>4. CASE RestoreStep(t)
  BY <1>1, <1>4 DEF RestoreStep, RestoreNothing, RestoreBegin, RestoreAdopt, RestoreCleanup
<1>5. CASE CleanupStep(t)
  <2>1. CASE CleanupLayout(t) \/ CleanupSlotOff(t) \/ CleanupEdid(t) \/ RecoverSave(t)
    BY <1>1, <2>1 DEF CleanupLayout, CleanupSlotOff, CleanupEdid, RecoverSave
  <2>2. CASE RecoverPublish(t) \/ DeleteJournal(t) \/ ClearCache(t)
    BY <1>1, <2>2 DEF RecoverPublish, DeleteJournal, ClearCache
  <2>3. QED
    BY <1>5, <2>1, <2>2 DEF CleanupStep
<1>6. QED
  BY <1>2, <1>3, <1>4, <1>5 DEF ThreadStep

-----------------------------------------------------------------------------
\* When no call of the strategy fails but the removal of the journal.

\* Nothing but a connect alters hardware that is as the user left it.
LEMMA StaysUnaltered ==
    ASSUME TypeInv, ControlInv, NEW t \in Threads, ThreadStep(t), op[t] # "connect", ~Altered
    PROVE  ~Altered'
<1> USE DEF Step, Goto, Return, Acquire, Abort
<1>1. ~ConnectStep(t)
  BY DEF ConnectStep, ConnectRefused, ConnectBegin, ConnectSave, ConnectPublish, WriteEdid,
     ClearKwinConfig, RewriteKwinConfig, DisableOutput, SlotOn, WaitForOutput, EnableOutput,
     VerifyMode, ConnectCommit, ConnectReturn, ControlInv, LockInv, ConnectPcs
<1>2. CASE DisconnectStep(t) \/ RestoreStep(t)
  BY <1>2, SameAltered DEF DisconnectStep, DisconnectRefused, DisconnectBegin, DisconnectSave,
     DisconnectPublish, RestoreStep, RestoreNothing, RestoreBegin, RestoreAdopt, RestoreCleanup
<1>3. CASE CleanupLayout(t)
  <2>1. userLayout \subseteq Outputs /\ st[t] \in States
    BY <1>3 DEF CleanupLayout, TypeInv, TypeOK, Inside, CleanupPcs
  <2>2. userLayout \subseteq enabled => userLayout \subseteq Restored(st[t])
    BY <2>1, DisplaysAssumption DEF Restored, States
  <2>3. /\ enabled' \in {enabled, Restored(st[t])} /\ UNCHANGED <<sysfs, userLayout>>
        /\ config' = TRUE \/ UNCHANGED config
    BY <1>3 DEF CleanupLayout
  <2>4. QED
    BY <2>2, <2>3 DEF Altered
<1>4. CASE CleanupSlotOff(t) \/ CleanupEdid(t)
  BY <1>4 DEF CleanupSlotOff, CleanupEdid, Altered
<1>5. CASE RecoverSave(t) \/ RecoverPublish(t) \/ DeleteJournal(t) \/ ClearCache(t)
  BY <1>5, SameAltered DEF RecoverSave, RecoverPublish, DeleteJournal, ClearCache
<1>6. QED
  BY <1>1, <1>2, <1>3, <1>4, <1>5 DEF ThreadStep, CleanupStep

LEMMA WorldLeavesUnaltered ==
    ASSUME TypeInv, Environment \/ UNCHANGED vars, ~Altered
    PROVE  ~Altered'
<1> USE DisplaysAssumption
<1>1. userLayout \subseteq Outputs /\ config \in BOOLEAN
  BY DEF TypeInv, TypeOK
<1>2. CASE Start \/ ProcessEnds \/ UNCHANGED vars
  BY <1>2, SameAltered DEF Start, ProcessEnds
<1>3. CASE Reboot
  BY <1>1, <1>3 DEF Reboot, Altered
<1>4. CASE UserRearranges \/ KWinSaves
  BY <1>4 DEF UserRearranges, KWinSaves, Altered
<1>5. ASSUME NEW s \in Slots, KWinHotplug(s) \/ KWinUnplug(s)
      PROVE  ~Altered'
  BY <1>1, <1>5 DEF KWinHotplug, KWinUnplug, Altered
<1>6. QED
  BY <1>2, <1>3, <1>4, <1>5 DEF Environment

\* No cleanup is incomplete.
NoErrorInv == \A t \in Threads : ~err[t] /\ pc[t] \notin {"recover_save", "recover_publish"}

LEMMA NoErrorStep ==
    ASSUME Faults \subseteq {"delete"}, TypeInv, NoErrorInv, NEW t \in Threads, ThreadStep(t)
    PROVE  NoErrorInv'
<1> USE DEF Step, Goto, Return, Acquire, Abort
<1>1. /\ pc \in [Threads -> Inside \cup {"idle", "waiting"}] /\ err \in [Threads -> BOOLEAN]
  BY DEF TypeInv, TypeOK
<1> SUFFICES /\ err' \in {err, [err EXCEPT ![t] = FALSE]}
             /\ \/ UNCHANGED pc
                \/ \E to : /\ to \notin {"recover_save", "recover_publish"}
                           /\ pc' = [pc EXCEPT ![t] = to]
  BY <1>1 DEF NoErrorInv
<1>2. CASE ConnectStep(t)
  <2>1. CASE ConnectRefused(t) \/ ConnectBegin(t) \/ ConnectSave(t) \/ ConnectPublish(t)
    BY <2>1 DEF ConnectRefused, ConnectBegin, ConnectSave, ConnectPublish
  <2>2. CASE WriteEdid(t) \/ ClearKwinConfig(t) \/ RewriteKwinConfig(t) \/ DisableOutput(t)
    BY <2>2 DEF WriteEdid, ClearKwinConfig, RewriteKwinConfig, DisableOutput
  <2>3. CASE SlotOn(t) \/ WaitForOutput(t) \/ EnableOutput(t) \/ VerifyMode(t)
    BY <2>3 DEF SlotOn, WaitForOutput, EnableOutput, VerifyMode
  <2>4. CASE ConnectCommit(t) \/ ConnectReturn(t)
    BY <2>4 DEF ConnectCommit, ConnectReturn
  <2>5. QED
    BY <1>2, <2>1, <2>2, <2>3, <2>4 DEF ConnectStep
<1>3. CASE DisconnectStep(t)
  BY <1>3 DEF DisconnectStep, DisconnectRefused, DisconnectBegin, DisconnectSave, DisconnectPublish
<1>4. CASE RestoreStep(t)
  BY <1>4 DEF RestoreStep, RestoreNothing, RestoreBegin, RestoreAdopt, RestoreCleanup
<1>5. CASE CleanupLayout(t) \/ CleanupSlotOff(t)
  BY <1>5 DEF CleanupLayout, CleanupSlotOff
<1>6. CASE CleanupEdid(t)
  <2>1. UNCHANGED err /\ ~err'[t]
    BY <1>6 DEF CleanupEdid, NoErrorInv
  <2>2. QED
    BY <1>6, <2>1 DEF CleanupEdid
<1>7. CASE RecoverSave(t) \/ RecoverPublish(t)
  BY <1>7 DEF RecoverSave, RecoverPublish, NoErrorInv
<1>8. CASE DeleteJournal(t) \/ ClearCache(t)
  BY <1>8 DEF DeleteJournal, ClearCache
<1>9. QED
  BY <1>2, <1>3, <1>4, <1>5, <1>6, <1>7, <1>8 DEF ThreadStep, CleanupStep

LEMMA NoErrorInductive ==
    ASSUME Faults \subseteq {"delete"}
    PROVE  Spec => []NoErrorInv
<1>1. Init => TypeInv /\ NoErrorInv
  BY InitType DEF Init, NoErrorInv
<1>2. TypeInv /\ NoErrorInv /\ [Next]_vars => NoErrorInv'
  <2> SUFFICES ASSUME TypeInv, NoErrorInv, [Next]_vars PROVE NoErrorInv'
    OBVIOUS
  <2>1. pc \in [Threads -> Inside \cup {"idle", "waiting"}]
    BY DEF TypeInv, TypeOK
  <2>2. ASSUME NEW t \in Threads, NEW o \in Ops, Call(t, o) PROVE NoErrorInv'
    BY <2>1, <2>2 DEF Call, Goto, NoErrorInv
  <2>3. CASE Environment
    BY <2>1, <2>3, ThreadsAssumption DEF Environment, Start, ProcessEnds, Reboot, UserRearranges,
       KWinSaves, KWinHotplug, KWinUnplug, NoErrorInv
  <2>4. CASE UNCHANGED vars
    BY <2>4 DEF NoErrorInv
  <2>5. QED
    BY <2>2, <2>3, <2>4, NoErrorStep DEF Next
<1>3. QED
  BY <1>1, <1>2, TypeStep, PTL DEF Spec

\* A disconnect that is over has brought the hardware back.
LEMMA DisconnectEndsClean ==
    ASSUME Faults \subseteq {"delete"}, IndInv, NoErrorInv, NEW t \in Threads, ThreadStep(t),
           op[t] = "disconnect", pc'[t] = "idle"
    PROVE  ~Altered'
<1> SUFFICES ~Altered
  BY StaysUnaltered DEF IndInv
<1> USE DEF Step, Goto, Return, Acquire, Abort, IndInv
<1>1. pc \in [Threads -> Inside \cup {"idle", "waiting"}]
  BY DEF TypeInv, TypeOK
<1>2. CASE ConnectStep(t)
  BY <1>2
     DEF ConnectStep, ConnectRefused, ConnectBegin, ConnectSave, ConnectPublish, WriteEdid,
     ClearKwinConfig, RewriteKwinConfig, DisableOutput, SlotOn, WaitForOutput, EnableOutput,
     VerifyMode, ConnectCommit, ConnectReturn, ControlInv, LockInv, ConnectPcs
<1>3. CASE DisconnectStep(t)
  <2>1. DisconnectRefused(t)
    BY <1>1, <1>3 DEF DisconnectStep, DisconnectBegin, DisconnectSave, DisconnectPublish
  <2>2. up = "up" /\ lock = NoThread /\ cache = NoState
    BY <2>1 DEF DisconnectRefused, ControlInv, UpInv
  <2>3. QED
    BY <2>2 DEF DataInv, SessionMatchesJournal, SameTarget
<1>4. CASE RestoreStep(t)
  BY <1>4 DEF RestoreStep, RestoreNothing, RestoreBegin, RestoreAdopt, RestoreCleanup,
     ControlInv, LockInv
<1>5. CASE CleanupLayout(t) \/ CleanupSlotOff(t) \/ CleanupEdid(t) \/ RecoverSave(t) \/ RecoverPublish(t)
  BY <1>1, <1>5 DEF CleanupLayout, CleanupSlotOff, CleanupEdid, RecoverSave, RecoverPublish, NoErrorInv
<1>6. CASE DeleteJournal(t) \/ ClearCache(t)
  BY <1>6 DEF DeleteJournal, ClearCache, DataInv, CleanupInv
<1>7. QED
  BY <1>2, <1>3, <1>4, <1>5, <1>6 DEF ThreadStep, CleanupStep

-----------------------------------------------------------------------------
\* When the journal can be read, written and removed, whatever fails elsewhere.

JournalWorks == Faults \cap {"load", "save", "recovery_save", "delete"} = {}

\* At rest the session in memory is the one on disk, and the last steps of each
\* operation work towards it.
SyncInv ==
    /\ up = "up" /\ lock = NoThread => cache = journal
    /\ \A t \in Threads :
        /\ pc[t] = "probe" /\ up = "up" => cache = st[t]
        /\ pc[t] = "publish_connected" => journal = st[t]
        /\ pc[t] = "recover_publish" => journal = WithPhase(st[t], "RecoveryRequired")
        /\ pc[t] = "clear" => journal = NoState

\* A thread that goes on, to a step that SyncInv says nothing of.
LEMMA SyncGoesOn ==
    ASSUME TypeInv, ControlInv, NEW t \in Threads, lock \in {t, NoThread}, lock' = t,
           pc'[t] \notin {"probe", "publish_connected", "recover_publish", "clear"},
           \A u \in Threads \ {t} : pc'[u] = pc[u]
    PROVE  SyncInv'
<1>1. lock' # NoThread
  BY ThreadsAssumption
<1>2. \A u \in Threads \ {t} : pc[u] \notin Inside
  BY ThreadsAssumption DEF ControlInv, LockInv
<1>3. QED
  BY <1>1, <1>2 DEF SyncInv, Inside, ConnectPcs, CleanupPcs

\* A thread that returns with memory and disk in step.
LEMMA SyncEnds ==
    ASSUME TypeInv, ControlInv, NEW t \in Threads, lock \in {t, NoThread}, NEW r, Return(t, r),
           cache' = journal'
    PROVE  SyncInv'
<1>1. \A u \in Threads \ {t} : pc[u] \notin Inside /\ pc'[u] = pc[u]
  BY ThreadsAssumption DEF ControlInv, LockInv, Return, TypeInv, TypeOK
<1>2. pc'[t] = "idle"
  BY DEF Return, TypeInv, TypeOK
<1>3. QED
  BY <1>1, <1>2 DEF SyncInv, Inside, ConnectPcs, CleanupPcs

LEMMA ConnectStepSync ==
    ASSUME JournalWorks, TypeInv, ControlInv, SyncInv, NEW t \in Threads, ConnectStep(t)
    PROVE  SyncInv'
<1> USE DEF Step, Goto, Acquire, Abort
<1>1. /\ op[t] = "connect" /\ up = "up" /\ lock \in {t, NoThread}
      /\ \A u \in Threads \ {t} : pc'[u] = pc[u]
  <2>1. op[t] = "connect" /\ lock \in {t, NoThread}
    BY DEF ConnectStep, ConnectRefused, ConnectBegin, ConnectSave, ConnectPublish, WriteEdid,
     ClearKwinConfig, RewriteKwinConfig, DisableOutput, SlotOn, WaitForOutput, EnableOutput,
     VerifyMode, ConnectCommit, ConnectReturn, ControlInv, LockInv, Inside, ConnectPcs
  <2>2. pc[t] # "idle" /\ \A u \in Threads \ {t} : pc'[u] = pc[u]
    BY OneThreadMoves DEF ThreadStep
  <2>3. QED
    BY <2>1, <2>2 DEF ControlInv, UpInv
<1>2. pc \in [Threads -> Inside \cup {"idle", "waiting"}] /\ st \in [Threads -> States \cup {NoState}]
  BY DEF TypeInv, TypeOK
<1>3. ASSUME lock' = t, NEW to, to \notin {"probe", "publish_connected", "recover_publish", "clear"},
             pc' = [pc EXCEPT ![t] = to]
      PROVE  SyncInv'
  BY <1>1, <1>2, <1>3, SyncGoesOn
<1>4. pc[t] \in Inside => lock = t
  BY DEF ControlInv, LockInv
<1>5. CASE ConnectRefused(t)
  <2>1. lock = NoThread /\ UNCHANGED memory /\ Return(t, "err")
    BY <1>5 DEF ConnectRefused
  <2>2. cache' = journal'
    BY <1>1, <2>1 DEF SyncInv
  <2>3. QED
    BY <1>1, <2>1, <2>2, SyncEnds
<1>6. CASE ConnectBegin(t) \/ ConnectSave(t) \/ ConnectPublish(t) \/ WriteEdid(t)
             \/ ClearKwinConfig(t) \/ RewriteKwinConfig(t)
  BY <1>3, <1>4, <1>6 DEF ConnectBegin, ConnectSave, ConnectPublish, WriteEdid, ClearKwinConfig,
     RewriteKwinConfig, JournalWorks, Inside, ConnectPcs
<1>7. CASE DisableOutput(t)
  <2>1. pc[t] = "disable" /\ lock = t /\ UNCHANGED lock
    BY <1>4, <1>7 DEF DisableOutput, Inside, ConnectPcs
  <2>2. pc' \in {[pc EXCEPT ![t] = "disable"], [pc EXCEPT ![t] = "k_layout"]}
    BY <1>2, <1>7, <2>1 DEF DisableOutput
  <2>3. QED
    BY <1>3, <2>1, <2>2
<1>8. CASE SlotOn(t) \/ WaitForOutput(t) \/ EnableOutput(t) \/ VerifyMode(t)
  BY <1>3, <1>4, <1>8 DEF SlotOn, WaitForOutput, EnableOutput, VerifyMode, Inside, ConnectPcs
<1>9. CASE ConnectCommit(t)
  <2>1. /\ pc[t] = "commit" /\ lock = t /\ UNCHANGED lock
        /\ pc' = [pc EXCEPT ![t] = "publish_connected"]
        /\ st' = [st EXCEPT ![t] = WithPhase(st[t], "Connected")]
        /\ journal' = WithPhase(st[t], "Connected")
    BY <1>4, <1>9 DEF ConnectCommit, JournalWorks, Inside, ConnectPcs
  <2>2. journal' = st'[t] /\ pc'[t] = "publish_connected"
    BY <1>2, <2>1
  <2>3. \A u \in Threads \ {t} : pc'[u] \notin Inside
    BY <1>1, <2>1 DEF ControlInv, LockInv
  <2>4. QED
    BY <2>1, <2>2, <2>3, ThreadsAssumption DEF SyncInv, Inside, ConnectPcs, CleanupPcs
<1>10. CASE ConnectReturn(t)
  <2>1. pc[t] = "publish_connected" /\ cache' = st[t] /\ journal' = journal /\ Return(t, "ok")
    BY <1>10 DEF ConnectReturn
  <2>2. QED
    BY <1>1, <2>1, SyncEnds DEF SyncInv
<1>11. QED
  BY <1>5, <1>6, <1>7, <1>8, <1>9, <1>10 DEF ConnectStep

LEMMA DisconnectStepSync ==
    ASSUME JournalWorks, TypeInv, ControlInv, SyncInv, NEW t \in Threads, DisconnectStep(t)
    PROVE  SyncInv'
<1> USE DEF Step, Goto, Acquire
<1>1. pc \in [Threads -> Inside \cup {"idle", "waiting"}]
  BY DEF TypeInv, TypeOK
<1>2. CASE DisconnectRefused(t)
  <2>1. lock = NoThread /\ UNCHANGED memory /\ Return(t, "err") /\ up = "up"
    BY <1>2 DEF DisconnectRefused, ControlInv, UpInv
  <2>2. cache' = journal'
    BY <2>1 DEF SyncInv
  <2>3. QED
    BY <2>1, <2>2, SyncEnds
<1>3. CASE DisconnectBegin(t) \/ DisconnectSave(t) \/ DisconnectPublish(t)
  <2>1. pc[t] \in Inside => lock = t
    BY DEF ControlInv, LockInv
  <2>2. /\ lock \in {t, NoThread} /\ lock' = t
        /\ \E to \in {"d_save", "d_publish", "k_layout"} : pc' = [pc EXCEPT ![t] = to]
    BY <1>3, <2>1 DEF DisconnectBegin, DisconnectSave, DisconnectPublish, JournalWorks, Inside
  <2>3. QED
    BY <1>1, <2>2, SyncGoesOn
<1>4. QED
  BY <1>2, <1>3 DEF DisconnectStep

LEMMA RestoreStepSync ==
    ASSUME JournalWorks, TypeInv, ControlInv, LifeInv, SyncInv, NEW t \in Threads, RestoreStep(t)
    PROVE  SyncInv'
<1> USE DEF Step, Goto, Acquire
<1>1. pc \in [Threads -> Inside \cup {"idle", "waiting"}] /\ st \in [Threads -> States \cup {NoState}]
  BY DEF TypeInv, TypeOK
<1>2. CASE RestoreNothing(t)
  <2>1. lock = NoThread /\ UNCHANGED memory /\ Return(t, "ok") /\ journal = NoState
    BY <1>2 DEF RestoreNothing, JournalWorks
  <2>2. cache = NoState
    BY <2>1 DEF SyncInv, ControlInv, UpInv
  <2>3. QED
    BY <2>1, <2>2, SyncEnds
<1>3. CASE RestoreBegin(t)
  <2>1. /\ lock = NoThread /\ lock' = t /\ UNCHANGED <<up, memory>>
        /\ pc'[t] = "probe" /\ st'[t] = journal
    BY <1>1, <1>3 DEF RestoreBegin
  <2>2. \A u \in Threads \ {t} : pc'[u] \notin Inside
    BY <1>1, <1>3, <2>1, ThreadsAssumption DEF RestoreBegin, ControlInv, LockInv
  <2>3. QED
    BY <2>1, <2>2, ThreadsAssumption DEF SyncInv, Inside, ConnectPcs, CleanupPcs
<1>4. CASE RestoreAdopt(t)
  <2>1. pc[t] = "probe" /\ cache' = st[t] /\ journal' = journal /\ Return(t, "ok")
    BY <1>4 DEF RestoreAdopt
  <2>2. lock = t /\ cache' = journal'
    BY <2>1 DEF LifeInv, ControlInv, LockInv, Inside
  <2>3. QED
    BY <2>1, <2>2, SyncEnds
<1>5. CASE RestoreCleanup(t)
  <2>1. lock = t /\ lock' = t /\ pc' = [pc EXCEPT ![t] = "k_layout"]
    BY <1>5 DEF RestoreCleanup, ControlInv, LockInv, Inside
  <2>2. QED
    BY <1>1, <2>1, SyncGoesOn
<1>6. QED
  BY <1>2, <1>3, <1>4, <1>5 DEF RestoreStep

LEMMA CleanupStepSync ==
    ASSUME JournalWorks, TypeInv, ControlInv, SyncInv, NEW t \in Threads, CleanupStep(t)
    PROVE  SyncInv'
<1> USE DEF Step, Goto
<1>1. pc \in [Threads -> Inside \cup {"idle", "waiting"}]
  BY DEF TypeInv, TypeOK
<1>2. lock = t /\ op[t] \in Ops /\ \A u \in Threads \ {t} : pc[u] \notin Inside
  BY DEF CleanupStep, CleanupLayout, CleanupSlotOff, CleanupEdid, RecoverSave, RecoverPublish,
     DeleteJournal, ClearCache, ControlInv, LockInv, Inside, CleanupPcs
<1>3. CASE CleanupLayout(t) \/ CleanupSlotOff(t) \/ CleanupEdid(t)
  <2>1. /\ lock' = t
        /\ \E to \in {"k_slot_off", "k_edid", "recover_save", "delete"} : pc' = [pc EXCEPT ![t] = to]
    BY <1>2, <1>3 DEF CleanupLayout, CleanupSlotOff, CleanupEdid
  <2>2. QED
    BY <1>1, <1>2, <2>1, SyncGoesOn
<1>4. CASE RecoverSave(t)
  <2>1. /\ pc' = [pc EXCEPT ![t] = "recover_publish"] /\ UNCHANGED <<lock, st>>
        /\ journal' = WithPhase(st[t], "RecoveryRequired")
    BY <1>4 DEF RecoverSave, RecoverFault, JournalWorks
  <2>2. pc'[t] = "recover_publish" /\ \A u \in Threads \ {t} : pc'[u] \notin Inside
    BY <1>1, <1>2, <2>1
  <2>3. QED
    BY <1>2, <2>1, <2>2, ThreadsAssumption
       DEF SyncInv, WithPhase, Inside, ConnectPcs, CleanupPcs
<1>5. CASE RecoverPublish(t)
  <2>1. cache' = journal' /\ Return(t, "err")
    BY <1>5 DEF RecoverPublish, SyncInv
  <2>2. QED
    BY <1>2, <2>1, SyncEnds
<1>6. CASE DeleteJournal(t)
  <2>1. pc' = [pc EXCEPT ![t] = "clear"] /\ UNCHANGED lock /\ journal' = NoState
    BY <1>6 DEF DeleteJournal, JournalWorks
  <2>2. pc'[t] = "clear" /\ \A u \in Threads \ {t} : pc'[u] \notin Inside
    BY <1>1, <1>2, <2>1
  <2>3. QED
    BY <1>2, <2>1, <2>2, ThreadsAssumption DEF SyncInv, Inside, ConnectPcs, CleanupPcs
<1>7. CASE ClearCache(t)
  <2>1. cache' = journal' /\ \E r : Return(t, r)
    BY <1>7 DEF ClearCache, SyncInv
  <2>2. QED
    BY <1>2, <2>1, SyncEnds
<1>8. QED
  BY <1>3, <1>4, <1>5, <1>6, <1>7 DEF CleanupStep

LEMMA LifeHolds == Spec => []LifeInv
<1>1. Init => LifeInv
  BY DEF Init, Journal!Init, LifeInv, Phase, Inside, ConnectPcs, CleanupPcs
<1>2. TypeInv /\ ControlInv /\ PhaseInv /\ LifeInv /\ [Next]_vars => LifeInv'
  BY LifeInductive
<1>3. Init => TypeInv
  BY InitType
<1>4. QED
  BY <1>1, <1>2, <1>3, TypeStep, ControlInductive, PhaseInductive, PTL DEF Spec

LEMMA SyncInductive ==
    ASSUME JournalWorks
    PROVE  Spec => []SyncInv
<1>1. Init => SyncInv
  BY DEF Init, SyncInv
<1>2. TypeInv /\ ControlInv /\ LifeInv /\ SyncInv /\ [Next]_vars => SyncInv'
  <2> SUFFICES ASSUME TypeInv, ControlInv, LifeInv, SyncInv, [Next]_vars PROVE SyncInv'
    OBVIOUS
  <2>1. pc \in [Threads -> Inside \cup {"idle", "waiting"}]
    BY DEF TypeInv, TypeOK
  <2>2. ASSUME NEW t \in Threads, ThreadStep(t) PROVE SyncInv'
    BY <2>2, JournalWorks, ConnectStepSync, DisconnectStepSync, RestoreStepSync, CleanupStepSync
       DEF ThreadStep
  <2>3. ASSUME NEW t \in Threads, NEW o \in Ops, Call(t, o) PROVE SyncInv'
    BY <2>1, <2>3 DEF Call, Goto, SyncInv
  <2>4. CASE Start \/ ProcessEnds
    BY <2>1, <2>4, ThreadsAssumption DEF Start, ProcessEnds, SyncInv
  <2>5. CASE Reboot
    <3>1. up = "down" /\ UNCHANGED <<up, pc>> /\ \A t \in Threads : pc[t] = "idle"
      BY <2>5 DEF Reboot, ControlInv, UpInv
    <3>2. QED
      BY <3>1 DEF SyncInv
  <2>6. CASE UserRearranges \/ KWinSaves \/ \E s \in Slots : KWinHotplug(s) \/ KWinUnplug(s)
    <3>1. UNCHANGED <<control, locals, memory>>
      BY <2>6 DEF UserRearranges, KWinSaves, KWinHotplug, KWinUnplug
    <3>2. QED
      BY <3>1 DEF SyncInv
  <2>7. CASE UNCHANGED vars
    BY <2>7 DEF SyncInv
  <2>8. QED
    BY <2>2, <2>3, <2>4, <2>5, <2>6, <2>7 DEF Next, Environment
<1>3. Init => TypeInv
  BY InitType
<1>4. QED
  BY <1>1, <1>2, <1>3, TypeStep, ControlInductive, LifeHolds, PTL DEF Spec

\* status() comes to say Connected in the last step of a connect, and nowhere
\* else once the daemon is up: a restore adopts only what is Connected already.
LEMMA OnlyConnectConnects ==
    ASSUME TypeInv, ControlInv, PhaseInv, LifeInv, SyncInv, up = "up",
           NEW t \in Threads, ThreadStep(t), op[t] # "connect", IsConnected'
    PROVE  IsConnected
<1> USE DEF Step, Goto, Return, Acquire, Abort
<1>1. ~ConnectStep(t)
  BY DEF ConnectStep, ConnectRefused, ConnectBegin, ConnectSave, ConnectPublish, WriteEdid,
     ClearKwinConfig, RewriteKwinConfig, DisableOutput, SlotOn, WaitForOutput, EnableOutput,
     VerifyMode, ConnectCommit, ConnectReturn, ControlInv, LockInv, ConnectPcs
<1>2. CASE UNCHANGED cache
  BY <1>2 DEF IsConnected, Phase
<1>3. CASE DisconnectPublish(t)
  <2>1. cache' = st[t] /\ st[t] \in States /\ st[t].phase = "Disconnecting"
    BY <1>3 DEF DisconnectPublish, PhaseInv, TypeInv, Inside
  <2>2. QED
    BY <2>1, NoStateAssumption DEF IsConnected, Phase
<1>4. CASE RestoreAdopt(t)
  BY <1>4 DEF RestoreAdopt, SyncInv, IsConnected, Phase
<1>5. CASE RecoverPublish(t)
  <2>1. st[t] \in States /\ cache' = WithPhase(st[t], "RecoveryRequired")
    BY <1>5 DEF RecoverPublish, TypeInv, Inside
  <2>2. cache' \in States /\ cache'.phase = "RecoveryRequired"
    BY <2>1, WithPhaseType DEF Phases
  <2>3. QED
    BY <2>2, NoStateAssumption DEF IsConnected, Phase
<1>6. CASE ClearCache(t)
  BY <1>6 DEF ClearCache, IsConnected, Phase
<1>7. CASE DisconnectRefused(t) \/ DisconnectBegin(t) \/ DisconnectSave(t)
             \/ RestoreNothing(t) \/ RestoreBegin(t) \/ RestoreCleanup(t)
             \/ CleanupLayout(t) \/ CleanupSlotOff(t) \/ CleanupEdid(t)
             \/ RecoverSave(t) \/ DeleteJournal(t)
  BY <1>2, <1>7 DEF DisconnectRefused, DisconnectBegin, DisconnectSave,
     RestoreNothing, RestoreBegin, RestoreCleanup,
     CleanupLayout, CleanupSlotOff, CleanupEdid, RecoverSave, DeleteJournal
<1>8. QED
  BY <1>1, <1>3, <1>4, <1>5, <1>6, <1>7 DEF ThreadStep, DisconnectStep, RestoreStep, CleanupStep

\* A disconnect that is over has left no session, or one that needs recovery.
LEMMA DisconnectDisconnects ==
    ASSUME JournalWorks, TypeInv, ControlInv, NEW t \in Threads, ThreadStep(t),
           op[t] = "disconnect", pc'[t] = "idle"
    PROVE  ~IsConnected'
<1> USE DEF Step, Goto, Return, Acquire, Abort
<1>1. pc \in [Threads -> Inside \cup {"idle", "waiting"}]
  BY DEF TypeInv, TypeOK
<1>2. ~ConnectStep(t) /\ ~RestoreStep(t)
  BY DEF ConnectStep, ConnectRefused, ConnectBegin, ConnectSave, ConnectPublish, WriteEdid,
     ClearKwinConfig, RewriteKwinConfig, DisableOutput, SlotOn, WaitForOutput, EnableOutput,
     VerifyMode, ConnectCommit, ConnectReturn, RestoreStep, RestoreNothing, RestoreBegin,
     RestoreAdopt, RestoreCleanup, ControlInv, LockInv, ConnectPcs
<1>3. CASE DisconnectStep(t)
  <2>1. DisconnectRefused(t)
    BY <1>1, <1>3 DEF DisconnectStep, DisconnectBegin, DisconnectSave, DisconnectPublish, JournalWorks
  <2>2. QED
    BY <2>1 DEF DisconnectRefused, IsConnected, Phase
<1>4. CASE CleanupLayout(t) \/ CleanupSlotOff(t) \/ CleanupEdid(t) \/ RecoverSave(t) \/ DeleteJournal(t)
  BY <1>1, <1>4 DEF CleanupLayout, CleanupSlotOff, CleanupEdid, RecoverSave, RecoverFault,
     DeleteJournal, JournalWorks
<1>5. CASE RecoverPublish(t)
  <2>1. st[t] \in States /\ cache' = WithPhase(st[t], "RecoveryRequired")
    BY <1>5 DEF RecoverPublish, TypeInv, Inside
  <2>2. cache' \in States /\ cache'.phase = "RecoveryRequired"
    BY <2>1, WithPhaseType DEF Phases
  <2>3. QED
    BY <2>2, NoStateAssumption DEF IsConnected, Phase
<1>6. CASE ClearCache(t)
  BY <1>6 DEF ClearCache, IsConnected, Phase
<1>7. QED
  BY <1>2, <1>3, <1>4, <1>5, <1>6 DEF ThreadStep, CleanupStep
=============================================================================
