---------------------------- MODULE DrivenProofs ----------------------------
(***************************************************************************)
(* What status() says is true of the hardware: a session is Connected only *)
(* while its connector is forced on with its EDID.                         *)
(***************************************************************************)
EXTENDS SessionProofs

USE DEF locals, control, stored, memory, sysfs, kwin, vars,
        Journal!Put, Journal!Write, Journal!Flush, Journal!PowerLoss

\* KWin can be asked what it drives, and connect and disconnect journal what
\* they do.
StatusReliable == Faults \cap {"compositor", "kscreen", "save"} = {}

JournalConnected == journal # NoState /\ journal.phase = "Connected"

\* What a restore relies on when it adopts a session because KWin drives it.  A
\* connector that is on is listed already: KWin does not enable it again by itself.
JournalDriven ==
    JournalConnected =>
        /\ journal.slot \in slotOn => journal.slot \in listed
        /\ journal.slot \in enabled => journal.slot \in slotOn \cap edid

\* The session in memory is driven, and is the one in the journal unless a
\* disconnect has just written its own.
StatusDriven ==
    IsConnected =>
        /\ cache.slot \in slotOn \cap edid \cap enabled
        /\ cache = journal \/ \E t \in Threads : pc[t] = "d_publish"

\* How far connect has come; and a cleanup that finds a Connected journal is a
\* restore of a session that KWin drives no longer.
DrivenAt(t) ==
    /\ pc[t] \in ConnectPcs \ {"save", "publish_connected"} => ~JournalConnected
    /\ pc[t] = "publish_connected" => journal = st[t]
    /\ pc[t] \in ConnectPcs \ {"save", "publish", "write_edid"} => st[t].slot \in edid
    /\ pc[t] \in {"wait", "enable", "verify", "commit", "publish_connected"} => st[t].slot \in slotOn
    /\ pc[t] \in {"commit", "publish_connected"} => st[t].slot \in enabled
    /\ pc[t] \in CleanupPcs \cup {"recover_save", "delete"} /\ JournalConnected =>
          journal = st[t] /\ st[t].slot \notin enabled

HardwareDriven == enabled \subseteq Outputs \cup listed /\ JournalDriven /\ StatusDriven
DrivenInv == HardwareDriven /\ \A t \in Threads : DrivenAt(t)

KnownInv == TypeInv /\ ControlInv /\ PhaseInv /\ LifeInv

\* While a thread is at work, the others are not.
LEMMA OthersOutside ==
    ASSUME TypeInv, ControlInv, NEW t \in Threads, ThreadStep(t), HardwareDriven', DrivenAt(t)'
    PROVE  DrivenInv'
<1>1. \A u \in Threads \ {t} : pc'[u] = pc[u]
  BY OneThreadMoves
<1>2. lock \in {t, NoThread}
  BY DEF ThreadStep, ConnectStep, ConnectRefused, ConnectBegin, ConnectSave, ConnectPublish,
     WriteEdid, ClearKwinConfig, RewriteKwinConfig, DisableOutput, SlotOn, WaitForOutput,
     EnableOutput, VerifyMode, ConnectCommit, ConnectReturn, DisconnectStep, DisconnectRefused,
     DisconnectBegin, DisconnectSave, DisconnectPublish, RestoreStep, RestoreNothing, RestoreBegin,
     RestoreAdopt, RestoreCleanup, CleanupStep, CleanupLayout, CleanupSlotOff, CleanupEdid,
     RecoverSave, RecoverPublish, DeleteJournal, ClearCache, Step, Goto, Acquire, Abort,
     ControlInv, LockInv, Inside, ConnectPcs, CleanupPcs
<1>3. \A u \in Threads \ {t} : pc'[u] \notin Inside
  BY <1>1, <1>2, ThreadsAssumption DEF ControlInv, LockInv
<1>4. \A u \in Threads \ {t} : DrivenAt(u)'
  BY <1>3 DEF DrivenAt, Inside, ConnectPcs, CleanupPcs
<1>5. QED
  BY <1>4 DEF DrivenInv

\* No operation that has begun to change things runs on a Connected session.
LEMMA NotConnectedAtWork ==
    ASSUME KnownInv, DrivenInv, NEW t \in Threads,
           pc[t] \in ConnectPcs \cup CleanupPcs \cup {"recover_save", "delete"}
    PROVE  ~IsConnected
<1>1. CASE pc[t] \in ConnectPcs
  BY <1>1 DEF KnownInv, LifeInv, IsConnected, Phase
<1>2. CASE pc[t] \in CleanupPcs \cup {"recover_save", "delete"}
  <2> SUFFICES ASSUME IsConnected PROVE FALSE
    OBVIOUS
  <2>1. cache # NoState /\ cache.phase = "Connected"
    BY DEF IsConnected, Phase
  <2>2. \A u \in Threads : pc[u] # "d_publish"
    BY <1>2 DEF KnownInv, ControlInv, LockInv, Inside, CleanupPcs
  <2>3. cache = journal /\ cache.slot \in enabled
    BY <2>2 DEF DrivenInv, HardwareDriven, StatusDriven
  <2>4. QED
    BY <1>2, <2>1, <2>3 DEF DrivenInv, DrivenAt, JournalConnected
<1>3. QED
  BY <1>1, <1>2

\* A step that leaves the hardware, KWin's outputs and memory alone.
LEMMA HardwareStays ==
    ASSUME KnownInv, DrivenInv, UNCHANGED <<memory, sysfs, listed, enabled>>,
           \A t \in Threads : pc[t] = "d_publish" => pc'[t] = "d_publish"
    PROVE  HardwareDriven'
BY DEF DrivenInv, HardwareDriven, JournalDriven, JournalConnected, StatusDriven, IsConnected, Phase

LEMMA ConnectStepDriven ==
    ASSUME StatusReliable, KnownInv, DrivenInv, NEW t \in Threads, ConnectStep(t)
    PROVE  DrivenInv'
<1> USE DEF Step, Goto, Acquire, Abort
<1> SUFFICES HardwareDriven' /\ DrivenAt(t)'
  BY OthersOutside DEF KnownInv, ThreadStep
<1>1. /\ pc \in [Threads -> Inside \cup {"idle", "waiting"}] /\ st \in [Threads -> States \cup {NoState}]
      /\ todo \in [Threads -> SUBSET Displays] /\ {cache, journal} \subseteq States \cup {NoState}
      /\ pc[t] \in Inside => st[t] \in States
  BY DEF KnownInv, TypeInv, TypeOK
<1>2. HardwareDriven /\ DrivenAt(t)
  BY DEF DrivenInv
<1>3. pc[t] \in ConnectPcs => ~IsConnected /\ \A u \in Threads : pc[u] # "d_publish"
  BY NotConnectedAtWork DEF KnownInv, ControlInv, LockInv, Inside, ConnectPcs
<1>4. CASE ConnectRefused(t) \/ ConnectBegin(t)
  <2>1. UNCHANGED <<memory, sysfs, listed, enabled>> /\ pc[t] = "waiting" /\ pc'[t] \in {"idle", "save"}
        /\ \A u \in Threads \ {t} : pc'[u] = pc[u]
    BY <1>1, <1>4 DEF ConnectRefused, ConnectBegin, Return
  <2>2. DrivenAt(t)'
    BY <2>1 DEF DrivenAt, ConnectPcs, CleanupPcs
  <2>3. QED
    BY <2>1, <2>2, HardwareStays
<1>5. CASE ConnectSave(t)
  <2>1. /\ pc[t] = "save" /\ pc' = [pc EXCEPT ![t] = "publish"] /\ journal' = st[t]
        /\ UNCHANGED <<cache, sysfs, listed, enabled>>
    BY <1>5 DEF ConnectSave, StatusReliable
  <2>2. ~JournalConnected'
    BY <2>1 DEF KnownInv, LifeInv, JournalConnected
  <2>3. HardwareDriven'
    BY <1>2, <1>3, <2>1, <2>2
       DEF HardwareDriven, JournalDriven, StatusDriven, IsConnected, Phase, ConnectPcs
  <2>4. QED
    BY <1>1, <2>1, <2>2, <2>3 DEF DrivenAt, ConnectPcs, CleanupPcs
<1>6. CASE ConnectPublish(t)
  <2>1. /\ pc[t] = "publish" /\ pc' = [pc EXCEPT ![t] = "write_edid"] /\ cache' = st[t]
        /\ UNCHANGED <<stored, sysfs, listed, enabled>> /\ st[t].phase = "Connecting"
    BY <1>6 DEF ConnectPublish, KnownInv, LifeInv
  <2>2. ~IsConnected' /\ ~JournalConnected'
    BY <1>2, <2>1 DEF IsConnected, Phase, DrivenAt, ConnectPcs, JournalConnected
  <2>3. QED
    BY <1>1, <1>2, <2>1, <2>2
       DEF HardwareDriven, JournalDriven, StatusDriven, DrivenAt, ConnectPcs, CleanupPcs
\* Once the journal says Connecting, only the connect's own progress matters.
<1>7. ASSUME pc[t] \in ConnectPcs \ {"save", "publish_connected"}, UNCHANGED memory,
             enabled' \subseteq Outputs \cup listed'
      PROVE  ~JournalConnected' /\ HardwareDriven'
  <2>1. ~JournalConnected' /\ ~IsConnected'
    BY <1>2, <1>3, <1>7 DEF DrivenAt, JournalConnected, IsConnected, Phase
  <2>2. QED
    BY <1>7, <2>1 DEF HardwareDriven, JournalDriven, StatusDriven
<1>8. CASE WriteEdid(t)
  <2>1. /\ pc[t] = "write_edid" /\ UNCHANGED <<memory, slotOn, listed, enabled, st>>
        /\ \/ pc' = [pc EXCEPT ![t] = "clear_config"] /\ st[t].slot \in edid'
           \/ pc' = [pc EXCEPT ![t] = "k_layout"]
    BY <1>8 DEF WriteEdid
  <2>2. ~JournalConnected' /\ HardwareDriven'
    BY <1>2, <1>7, <2>1 DEF HardwareDriven, ConnectPcs
  <2>3. QED
    BY <1>1, <2>1, <2>2 DEF DrivenAt, ConnectPcs, CleanupPcs
<1>9. CASE ClearKwinConfig(t) \/ RewriteKwinConfig(t)
  <2>1. /\ pc[t] \in {"clear_config", "rewrite_config"} /\ UNCHANGED <<memory, sysfs, listed, enabled, st>>
        /\ \E to \in {"rewrite_config", "disable", "k_layout"} : pc' = [pc EXCEPT ![t] = to]
    BY <1>9 DEF ClearKwinConfig, RewriteKwinConfig
  <2>2. ~JournalConnected' /\ HardwareDriven'
    BY <1>2, <1>7, <2>1 DEF HardwareDriven, ConnectPcs
  <2>3. QED
    BY <1>1, <1>2, <2>1, <2>2 DEF DrivenAt, ConnectPcs, CleanupPcs
<1>10. CASE DisableOutput(t)
  <2>1. /\ pc[t] = "disable" /\ UNCHANGED <<memory, sysfs, listed, st>> /\ enabled' \subseteq enabled
        /\ pc' \in {pc, [pc EXCEPT ![t] = "k_layout"]}
    BY <1>10 DEF DisableOutput
  <2>2. ~JournalConnected' /\ HardwareDriven'
    BY <1>2, <1>7, <2>1 DEF HardwareDriven, ConnectPcs
  <2>3. QED
    BY <1>1, <1>2, <2>1, <2>2 DEF DrivenAt, ConnectPcs, CleanupPcs
<1>11. CASE SlotOn(t)
  <2>1. /\ pc[t] = "disable" /\ UNCHANGED <<memory, edid, listed, enabled, st>>
        /\ \/ pc' = [pc EXCEPT ![t] = "wait"] /\ st[t].slot \in slotOn'
           \/ pc' = [pc EXCEPT ![t] = "k_layout"]
    BY <1>11 DEF SlotOn
  <2>2. ~JournalConnected' /\ HardwareDriven'
    BY <1>2, <1>7, <2>1 DEF HardwareDriven, ConnectPcs
  <2>3. QED
    BY <1>1, <1>2, <2>1, <2>2 DEF DrivenAt, ConnectPcs, CleanupPcs
<1>12. CASE WaitForOutput(t) \/ EnableOutput(t) \/ VerifyMode(t)
  <2>1. /\ pc[t] \in {"wait", "enable", "verify"} /\ UNCHANGED <<memory, sysfs, listed, st>>
        /\ enabled' \in {enabled, enabled \cup ({st[t].slot} \cap listed)}
        /\ \/ \E to \in {"enable", "verify", "k_layout"} : pc' = [pc EXCEPT ![t] = to]
           \/ pc' = [pc EXCEPT ![t] = "commit"] /\ st[t].slot \in enabled'
    BY <1>12 DEF WaitForOutput, EnableOutput, VerifyMode
  <2>2. ~JournalConnected' /\ HardwareDriven'
    BY <1>2, <1>7, <2>1 DEF HardwareDriven, ConnectPcs
  <2>3. QED
    BY <1>1, <1>2, <2>1, <2>2 DEF DrivenAt, ConnectPcs, CleanupPcs
<1>13. CASE ConnectCommit(t)
  <2>1. /\ pc[t] = "commit" /\ UNCHANGED <<cache, sysfs, listed, enabled>>
        /\ pc' = [pc EXCEPT ![t] = "publish_connected"]
        /\ st' = [st EXCEPT ![t] = WithPhase(st[t], "Connected")]
        /\ journal' = WithPhase(st[t], "Connected")
    BY <1>13 DEF ConnectCommit, StatusReliable
  <2>2. st[t] \in States /\ st[t].slot \in slotOn \cap edid \cap enabled
    BY <1>1, <1>2, <2>1 DEF DrivenAt, Inside, ConnectPcs
  <2>3. journal' = st'[t] /\ st'[t].slot = st[t].slot /\ pc'[t] = "publish_connected"
    BY <1>1, <2>1, <2>2, WithPhaseType DEF Phases
  <2>4. st[t].slot \in listed
    BY <1>2, <2>2, DisplaysAssumption DEF HardwareDriven, States
  <2>5. ~IsConnected'
    BY <1>3, <2>1 DEF IsConnected, Phase, ConnectPcs
  <2>6. HardwareDriven'
    BY <1>2, <2>1, <2>2, <2>3, <2>4, <2>5 DEF HardwareDriven, JournalDriven, StatusDriven
  <2>7. QED
    BY <2>1, <2>2, <2>3, <2>6 DEF DrivenAt, ConnectPcs, CleanupPcs
<1>14. CASE ConnectReturn(t)
  <2>1. /\ pc[t] = "publish_connected" /\ pc' = [pc EXCEPT ![t] = "idle"] /\ cache' = st[t]
        /\ UNCHANGED <<stored, sysfs, listed, enabled>>
    BY <1>14 DEF ConnectReturn, Return
  <2>2. journal = st[t] /\ st[t].slot \in slotOn \cap edid \cap enabled
    BY <1>2, <2>1 DEF DrivenAt, ConnectPcs
  <2>3. HardwareDriven'
    BY <1>2, <2>1, <2>2 DEF HardwareDriven, JournalDriven, JournalConnected, StatusDriven
  <2>4. QED
    BY <1>1, <2>1, <2>3 DEF DrivenAt, ConnectPcs, CleanupPcs
<1>15. QED
  BY <1>4, <1>5, <1>6, <1>8, <1>9, <1>10, <1>11, <1>12, <1>13, <1>14 DEF ConnectStep

LEMMA DisconnectStepDriven ==
    ASSUME StatusReliable, KnownInv, DrivenInv, NEW t \in Threads, DisconnectStep(t)
    PROVE  DrivenInv'
<1> USE DEF Step, Goto, Acquire
<1> SUFFICES HardwareDriven' /\ DrivenAt(t)'
  BY OthersOutside DEF KnownInv, ThreadStep
<1>1. /\ pc \in [Threads -> Inside \cup {"idle", "waiting"}] /\ st \in [Threads -> States \cup {NoState}]
      /\ pc[t] \in Inside => st[t] \in States
  BY DEF KnownInv, TypeInv, TypeOK
<1>2. HardwareDriven /\ DrivenAt(t)
  BY DEF DrivenInv
<1>3. CASE DisconnectRefused(t) \/ DisconnectBegin(t)
  <2>1. UNCHANGED <<memory, sysfs, listed, enabled>> /\ pc[t] = "waiting" /\ pc'[t] \in {"idle", "d_save"}
        /\ \A u \in Threads \ {t} : pc'[u] = pc[u]
    BY <1>1, <1>3 DEF DisconnectRefused, DisconnectBegin, Return
  <2>2. DrivenAt(t)'
    BY <2>1 DEF DrivenAt, ConnectPcs, CleanupPcs
  <2>3. QED
    BY <2>1, <2>2, HardwareStays
<1>4. CASE DisconnectSave(t)
  <2>1. /\ pc[t] = "d_save" /\ pc' = [pc EXCEPT ![t] = "d_publish"] /\ journal' = st[t]
        /\ UNCHANGED <<cache, sysfs, listed, enabled>>
    BY <1>4 DEF DisconnectSave, StatusReliable
  <2>2. ~JournalConnected' /\ pc'[t] = "d_publish"
    BY <1>1, <2>1 DEF KnownInv, PhaseInv, JournalConnected
  <2>3. HardwareDriven'
    BY <1>2, <2>1, <2>2 DEF HardwareDriven, JournalDriven, StatusDriven, IsConnected, Phase
  <2>4. QED
    BY <2>2, <2>3 DEF DrivenAt, ConnectPcs, CleanupPcs
<1>5. CASE DisconnectPublish(t)
  <2>1. /\ pc[t] = "d_publish" /\ pc' = [pc EXCEPT ![t] = "k_layout"] /\ cache' = st[t]
        /\ UNCHANGED <<stored, sysfs, listed, enabled>> /\ st[t].phase = "Disconnecting"
        /\ journal.phase = "Disconnecting"
    BY <1>5 DEF DisconnectPublish, KnownInv, PhaseInv, LifeInv
  <2>2. ~JournalConnected' /\ ~IsConnected'
    BY <2>1 DEF JournalConnected, IsConnected, Phase
  <2>3. QED
    BY <1>1, <1>2, <2>1, <2>2
       DEF HardwareDriven, JournalDriven, StatusDriven, DrivenAt, ConnectPcs, CleanupPcs
<1>6. QED
  BY <1>3, <1>4, <1>5 DEF DisconnectStep

LEMMA RestoreStepDriven ==
    ASSUME StatusReliable, KnownInv, DrivenInv, NEW t \in Threads, RestoreStep(t)
    PROVE  DrivenInv'
<1> USE DEF Step, Goto, Acquire
<1> SUFFICES HardwareDriven' /\ DrivenAt(t)'
  BY OthersOutside DEF KnownInv, ThreadStep
<1>1. pc \in [Threads -> Inside \cup {"idle", "waiting"}] /\ st \in [Threads -> States \cup {NoState}]
  BY DEF KnownInv, TypeInv, TypeOK
<1>2. HardwareDriven /\ DrivenAt(t)
  BY DEF DrivenInv
<1>3. CASE RestoreNothing(t) \/ RestoreBegin(t)
  <2>1. UNCHANGED <<memory, sysfs, listed, enabled>> /\ pc[t] = "waiting" /\ pc'[t] \in {"idle", "probe"}
        /\ \A u \in Threads \ {t} : pc'[u] = pc[u]
    BY <1>1, <1>3 DEF RestoreNothing, RestoreBegin, Return
  <2>2. DrivenAt(t)'
    BY <2>1 DEF DrivenAt, ConnectPcs, CleanupPcs
  <2>3. QED
    BY <2>1, <2>2, HardwareStays
<1>4. pc[t] = "probe" => st[t] = journal
  BY DEF KnownInv, LifeInv
<1>5. CASE RestoreAdopt(t)
  <2>1. /\ pc' = [pc EXCEPT ![t] = "idle"] /\ cache' = journal /\ JournalConnected
        /\ journal.slot \in enabled /\ UNCHANGED <<stored, sysfs, listed, enabled>>
    BY <1>1, <1>4, <1>5 DEF RestoreAdopt, Return, JournalConnected, KnownInv, TypeInv, LifeInv, Inside
  <2>2. HardwareDriven'
    BY <1>2, <2>1 DEF HardwareDriven, JournalDriven, JournalConnected, StatusDriven
  <2>3. QED
    BY <1>1, <2>1, <2>2 DEF DrivenAt, ConnectPcs, CleanupPcs
<1>6. CASE RestoreCleanup(t)
  <2>1. /\ pc[t] = "probe" /\ pc' = [pc EXCEPT ![t] = "k_layout"]
        /\ UNCHANGED <<memory, sysfs, listed, enabled, st>>
        /\ st[t].phase # "Connected" \/ st[t].slot \notin enabled
    BY <1>6 DEF RestoreCleanup, StatusReliable
  <2>2. HardwareDriven'
    BY <1>1, <2>1, HardwareStays
  <2>3. QED
    BY <1>1, <1>4, <2>1, <2>2 DEF DrivenAt, JournalConnected, ConnectPcs, CleanupPcs
<1>7. QED
  BY <1>3, <1>5, <1>6 DEF RestoreStep

LEMMA CleanupStepDriven ==
    ASSUME StatusReliable, KnownInv, DrivenInv, NEW t \in Threads, CleanupStep(t)
    PROVE  DrivenInv'
<1> USE DEF Step, Goto
<1> SUFFICES HardwareDriven' /\ DrivenAt(t)'
  BY OthersOutside DEF KnownInv, ThreadStep
<1>1. /\ pc \in [Threads -> Inside \cup {"idle", "waiting"}] /\ st \in [Threads -> States \cup {NoState}]
      /\ pc[t] \in Inside => st[t] \in States
  BY DEF KnownInv, TypeInv, TypeOK
<1>2. HardwareDriven /\ DrivenAt(t)
  BY DEF DrivenInv
<1>3. pc[t] \in CleanupPcs \cup {"recover_save", "delete"} => ~IsConnected
  BY NotConnectedAtWork
<1>4. CASE CleanupLayout(t)
  <2>1. /\ pc[t] = "k_layout" /\ pc' = [pc EXCEPT ![t] = "k_slot_off"] /\ enabled' = Restored(st[t])
        /\ UNCHANGED <<memory, sysfs, listed, st>>
    BY <1>4 DEF CleanupLayout, StatusReliable
  <2>2. enabled' \subseteq Outputs \cup listed /\ st[t].slot \notin enabled'
    BY <1>2, <2>1 DEF HardwareDriven, Restored, Present
  <2>3. JournalConnected => journal = st[t]
    BY <1>2, <2>1 DEF DrivenAt, CleanupPcs
  <2>4. ~IsConnected' /\ (JournalConnected' <=> JournalConnected)
    BY <1>3, <2>1 DEF IsConnected, Phase, JournalConnected, CleanupPcs
  <2>5. HardwareDriven'
    BY <1>2, <2>1, <2>2, <2>3, <2>4 DEF HardwareDriven, JournalDriven, StatusDriven
  <2>6. QED
    BY <1>1, <2>1, <2>2, <2>3, <2>4, <2>5 DEF DrivenAt, ConnectPcs, CleanupPcs
\* What is switched off is no longer enabled, so nothing in the journal relies on it.
<1>5. CASE CleanupSlotOff(t) \/ CleanupEdid(t)
  <2>1. /\ pc[t] \in {"k_slot_off", "k_edid"} /\ UNCHANGED <<memory, listed, enabled, st>>
        /\ \E to \in {"k_edid", "recover_save", "delete"} : pc' = [pc EXCEPT ![t] = to]
        /\ slotOn' \in {slotOn, slotOn \ {st[t].slot}} /\ edid' \in {edid, edid \ {st[t].slot}}
    BY <1>5 DEF CleanupSlotOff, CleanupEdid
  <2>2. JournalConnected => journal = st[t] /\ journal.slot \notin enabled
    BY <1>2, <2>1 DEF DrivenAt, CleanupPcs
  <2>3. ~IsConnected' /\ (JournalConnected' <=> JournalConnected)
    BY <1>3, <2>1 DEF IsConnected, Phase, JournalConnected, CleanupPcs
  <2>4. HardwareDriven'
    BY <1>2, <2>1, <2>2, <2>3 DEF HardwareDriven, JournalDriven, StatusDriven
  <2>5. QED
    BY <1>1, <2>1, <2>2, <2>3, <2>4 DEF DrivenAt, ConnectPcs, CleanupPcs
<1>6. CASE RecoverSave(t)
  <2>1. /\ pc[t] = "recover_save" /\ UNCHANGED <<cache, sysfs, listed, enabled>>
        /\ \E to \in {"recover_publish", "idle"} : pc' = [pc EXCEPT ![t] = to]
        /\ journal' \in {journal, WithPhase(st[t], "RecoveryRequired")}
    BY <1>6 DEF RecoverSave, TornSave, Return
  <2>2. st[t] \in States /\ WithPhase(st[t], "RecoveryRequired").phase = "RecoveryRequired"
    BY <1>1, <2>1, WithPhaseType DEF Inside, Phases
  <2>3. ~IsConnected' /\ (JournalConnected' => journal' = journal /\ JournalConnected)
    BY <1>3, <2>1, <2>2 DEF IsConnected, Phase, JournalConnected
  <2>4. HardwareDriven'
    BY <1>2, <2>1, <2>3 DEF HardwareDriven, JournalDriven, StatusDriven
  <2>5. QED
    BY <1>1, <2>1, <2>4 DEF DrivenAt, ConnectPcs, CleanupPcs
<1>7. CASE RecoverPublish(t)
  <2>1. /\ pc[t] = "recover_publish" /\ pc' = [pc EXCEPT ![t] = "idle"]
        /\ UNCHANGED <<stored, sysfs, listed, enabled>>
        /\ cache' = WithPhase(st[t], "RecoveryRequired")
    BY <1>7 DEF RecoverPublish, Return
  <2>2. cache'.phase = "RecoveryRequired"
    BY <1>1, <2>1, WithPhaseType DEF Inside, Phases
  <2>3. ~IsConnected' /\ (JournalConnected' <=> JournalConnected)
    BY <2>1, <2>2 DEF IsConnected, Phase, JournalConnected
  <2>4. HardwareDriven'
    BY <1>2, <2>1, <2>3 DEF HardwareDriven, JournalDriven, StatusDriven
  <2>5. QED
    BY <1>1, <2>1, <2>4 DEF DrivenAt, ConnectPcs, CleanupPcs
<1>8. CASE DeleteJournal(t)
  <2>1. /\ pc[t] = "delete" /\ UNCHANGED <<cache, sysfs, listed, enabled>>
        /\ \E to \in {"clear", "idle"} : pc' = [pc EXCEPT ![t] = to]
        /\ journal' \in {journal, NoState}
    BY <1>8 DEF DeleteJournal, Return
  <2>2. ~IsConnected' /\ (JournalConnected' => journal' = journal /\ JournalConnected)
    BY <1>3, <2>1 DEF IsConnected, Phase, JournalConnected
  <2>3. HardwareDriven'
    BY <1>2, <2>1, <2>2 DEF HardwareDriven, JournalDriven, StatusDriven
  <2>4. QED
    BY <1>1, <2>1, <2>3 DEF DrivenAt, ConnectPcs, CleanupPcs
<1>9. CASE ClearCache(t)
  <2>1. /\ pc[t] = "clear" /\ pc' = [pc EXCEPT ![t] = "idle"] /\ cache' = NoState
        /\ UNCHANGED <<stored, sysfs, listed, enabled>>
    BY <1>9 DEF ClearCache, Return
  <2>2. ~IsConnected' /\ (JournalConnected' <=> JournalConnected)
    BY <2>1 DEF IsConnected, Phase, JournalConnected
  <2>3. HardwareDriven'
    BY <1>2, <2>1, <2>2 DEF HardwareDriven, JournalDriven, StatusDriven
  <2>4. QED
    BY <1>1, <2>1, <2>3 DEF DrivenAt, ConnectPcs, CleanupPcs
<1>10. QED
  BY <1>4, <1>5, <1>6, <1>7, <1>8, <1>9 DEF CleanupStep

-----------------------------------------------------------------------------
LEMMA EnvironmentDriven ==
    ASSUME KnownInv, DrivenInv, Environment \/ \E t \in Threads, o \in Ops : Call(t, o)
    PROVE  DrivenInv'
<1>1. /\ pc \in [Threads -> Inside \cup {"idle", "waiting"}] /\ userLayout \subseteq Outputs
      /\ {cache, journal, disk} \subseteq States \cup {NoState}
  BY DEF KnownInv, TypeInv, TypeOK
<1>2. \A t \in Threads : HardwareDriven /\ DrivenAt(t)
  BY DEF DrivenInv
<1>3. CASE Start \/ \E t \in Threads, o \in Ops : Call(t, o)
  <2>1. UNCHANGED <<st, memory, sysfs, listed, enabled>>
    BY <1>3 DEF Start, Call
  <2>2. \A u \in Threads : pc'[u] = pc[u] \/ (pc[u] = "idle" /\ pc'[u] = "waiting")
    <3>1. CASE Start
      <4>1. pc[Main] = "idle" /\ pc' = [pc EXCEPT ![Main] = "waiting"]
        BY <3>1, ThreadsAssumption DEF Start, KnownInv, ControlInv, UpInv
      <4>2. QED
        BY <1>1, <4>1
    <3>2. ASSUME NEW t \in Threads, NEW o \in Ops, Call(t, o)
          PROVE  \A u \in Threads : pc'[u] = pc[u] \/ (pc[u] = "idle" /\ pc'[u] = "waiting")
      BY <1>1, <3>2 DEF Call, Goto
    <3>3. QED
      BY <1>3, <3>1, <3>2
  <2>3. HardwareDriven'
    BY <2>1, <2>2, HardwareStays
  <2>4. \A u \in Threads : DrivenAt(u)'
    BY <1>2, <2>1, <2>2 DEF DrivenAt, JournalConnected, ConnectPcs, CleanupPcs
  <2>5. QED
    BY <2>3, <2>4 DEF DrivenInv
<1>4. CASE ProcessEnds
  <2>1. cache' = NoState /\ UNCHANGED <<stored, sysfs, listed, enabled>> /\ \A t \in Threads : pc'[t] = "idle"
    BY <1>4 DEF ProcessEnds
  <2>2. ~IsConnected' /\ \A t \in Threads : DrivenAt(t)'
    BY <2>1 DEF IsConnected, Phase, DrivenAt, ConnectPcs, CleanupPcs
  <2>3. QED
    BY <2>1, <2>2 DEF DrivenInv, HardwareDriven, JournalDriven, JournalConnected, StatusDriven
\* A reboot leaves no virtual display on, whichever journal it leaves.
<1>5. CASE Reboot
  <2>1. /\ up = "down" /\ UNCHANGED <<pc, cache>> /\ slotOn' = {} /\ enabled' \subseteq Outputs
        /\ journal' \in {journal, disk}
    BY <1>5 DEF Reboot
  <2>2. cache' = NoState /\ \A t \in Threads : pc'[t] = "idle"
    BY <2>1 DEF KnownInv, ControlInv, UpInv
  <2>3. ~IsConnected' /\ \A t \in Threads : DrivenAt(t)'
    BY <2>2 DEF IsConnected, Phase, DrivenAt, ConnectPcs, CleanupPcs
  <2>4. JournalConnected' => journal'.slot \notin slotOn' \cup enabled'
    BY <1>1, <2>1, DisplaysAssumption DEF JournalConnected, States
  <2>5. QED
    BY <2>1, <2>3, <2>4 DEF DrivenInv, HardwareDriven, JournalDriven, StatusDriven
<1>6. CASE KWinSaves
  <2>1. UNCHANGED <<pc, st, memory, sysfs, listed, enabled>>
    BY <1>6 DEF KWinSaves
  <2>2. HardwareDriven'
    BY <2>1, HardwareStays
  <2>3. QED
    BY <1>2, <2>1, <2>2 DEF DrivenInv, DrivenAt, JournalConnected
<1>7. ASSUME UNCHANGED <<pc, st, memory, sysfs>>, enabled' \subseteq Outputs \cup listed',
             \A s \in Slots \cap slotOn :
                (s \in listed => s \in listed') /\ (s \in enabled => s \in enabled'),
             \A s \in Slots : s \in enabled' \ enabled => s \in slotOn \ listed
      PROVE  DrivenInv'
  <2>1. JournalConnected => journal.slot \in Slots /\ journal.slot \notin slotOn \ listed
    BY <1>1 DEF JournalConnected, States, DrivenInv, HardwareDriven, JournalDriven
  <2>2. JournalDriven'
    BY <1>7, <2>1 DEF DrivenInv, HardwareDriven, JournalDriven, JournalConnected
  <2>3. StatusDriven'
    BY <1>1, <1>7, NoStateAssumption
       DEF DrivenInv, HardwareDriven, StatusDriven, IsConnected, Phase, States
  <2>4. ASSUME NEW t \in Threads PROVE DrivenAt(t)'
    <3>1. pc[t] \in {"commit", "publish_connected"} => st[t].slot \in slotOn \cap Slots
      BY <1>2 DEF DrivenAt, KnownInv, TypeInv, Inside, ConnectPcs, States
    <3>2. QED
      BY <1>2, <1>7, <2>1, <3>1 DEF DrivenAt, JournalConnected
  <2>5. QED
    BY <1>7, <2>2, <2>3, <2>4 DEF DrivenInv, HardwareDriven
<1>8. CASE UserRearranges
  <2>1. UNCHANGED <<pc, st, memory, sysfs, listed>> /\ enabled' = (enabled \ Outputs) \cup userLayout'
        /\ userLayout' \subseteq Outputs
    BY <1>8 DEF UserRearranges
  <2>2. enabled' \subseteq Outputs \cup listed' /\ \A s \in Slots : s \in enabled' <=> s \in enabled
    BY <2>1, DisplaysAssumption DEF DrivenInv, HardwareDriven
  <2>3. QED
    BY <1>7, <2>1, <2>2
<1>9. ASSUME NEW s \in Slots, KWinHotplug(s) \/ KWinUnplug(s)
      PROVE  DrivenInv'
  <2>1. UNCHANGED <<pc, st, memory, sysfs>> /\ enabled' \subseteq Outputs \cup listed'
    BY <1>9, DisplaysAssumption DEF KWinHotplug, KWinUnplug, DrivenInv, HardwareDriven
  <2>2. QED
    BY <1>7, <1>9, <2>1 DEF KWinHotplug, KWinUnplug
<1>10. QED
  BY <1>3, <1>4, <1>5, <1>6, <1>8, <1>9 DEF Environment

LEMMA KnownHolds == Spec => []KnownInv
<1>1. Init => TypeInv
  BY InitType
<1>2. QED
  BY <1>1, TypeStep, ControlInductive, PhaseInductive, LifeHolds, PTL DEF Spec, KnownInv

\* status() says Connected only while the connector is forced on with its EDID,
\* whatever sysfs does and however the journal is read and removed, as long as
\* KWin can be asked and what connect and disconnect do is journalled.
THEOREM StatusIsTrue ==
    ASSUME Faults \cap {"compositor", "kscreen", "save"} = {}
    PROVE  Spec => []ConnectedIsDriven
<1>1. StatusReliable
  BY DEF StatusReliable
<1>2. Init => DrivenInv
  BY NoStateAssumption
     DEF Init, Journal!Init, DrivenInv, HardwareDriven, JournalDriven, JournalConnected, StatusDriven,
     IsConnected, Phase, DrivenAt, ConnectPcs, CleanupPcs
<1>3. KnownInv /\ DrivenInv /\ [Next]_vars => DrivenInv'
  <2> SUFFICES ASSUME KnownInv, DrivenInv, [Next]_vars PROVE DrivenInv'
    OBVIOUS
  <2>1. ASSUME NEW t \in Threads, ThreadStep(t) PROVE DrivenInv'
    BY <1>1, <2>1, ConnectStepDriven, DisconnectStepDriven, RestoreStepDriven, CleanupStepDriven
       DEF ThreadStep
  <2>2. CASE UNCHANGED vars
    <3>1. HardwareDriven'
      BY <2>2, HardwareStays
    <3>2. QED
      BY <2>2, <3>1 DEF DrivenInv, DrivenAt, JournalConnected
  <2>3. QED
    BY <2>1, <2>2, EnvironmentDriven DEF Next
<1>4. DrivenInv => ConnectedIsDriven
  BY DEF DrivenInv, HardwareDriven, StatusDriven, ConnectedIsDriven
<1>5. QED
  BY <1>2, <1>3, <1>4, KnownHolds, PTL DEF Spec
=============================================================================
