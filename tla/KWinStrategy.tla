---------------------------- MODULE KWinStrategy ----------------------------
(***************************************************************************)
(* The display lifecycle of svd-daemon: connect, disconnect and restore of *)
(* strategy/kwin/mod.rs, one action per fallible step of the code, run by  *)
(* any number of threads under the `operation` mutex, with the recovery    *)
(* journal of strategy/kwin/state.rs, the kernel's connector and EDID      *)
(* overrides (sysfs.rs) and the outputs KWin drives (kscreen.rs).          *)
(*                                                                         *)
(* A display is a model value, a layout is the set of enabled displays     *)
(* (positions are not distinguished), and every external call may fail     *)
(* where the constant Faults says so.  The process may end at any step and *)
(* start again; the machine may reboot or lose power in between.           *)
(*                                                                         *)
(* A definition marked "Mutation" is not part of the model: it is the bug  *)
(* that shows that a property can fail, put in place of the definition     *)
(* that follows it.                                                        *)
(***************************************************************************)
EXTENDS FiniteSets

CONSTANTS
    Threads,         \* server, sleep handler and watchers: callers of the strategy
    Main,            \* the thread that runs restore() at startup and the server
    Outputs,         \* physical outputs
    Slots,           \* empty connectors a virtual display can be forced on
    DisableOutputs,  \* config.disable_outputs
    NameContains,    \* <<d, s>>: the listing of display d contains the name s
    Faults,          \* which external calls may fail
    NoState,         \* Option::None for a ConnectState
    NoThread         \* the mutex is free

Displays == Outputs \cup Slots

FaultKinds == {"compositor", "kscreen", "sysfs", "load", "save",
               "recovery_save", "delete"}

Phases == {"Connecting", "Connected", "Disconnecting", "RecoveryRequired"}

\* ConnectState: the session record that is journalled and cached.
States == [phase : Phases, slot : Slots, layout : SUBSET Displays]

Ops == {"connect", "disconnect", "restore"}

\* Where a thread is: idle, waiting for the mutex, or at a step of the body.
ConnectPcs == {"save", "publish", "write_edid", "clear_config", "rewrite_config",
               "disable", "wait", "enable", "verify", "commit", "publish_connected"}
CleanupPcs == {"k_layout", "k_slot_off", "k_edid"}
Inside == ConnectPcs \cup CleanupPcs
            \cup {"d_save", "d_publish", "probe",
                  "recover_save", "recover_publish", "delete", "clear"}

ASSUME ThreadsAssumption == Main \in Threads /\ NoThread \notin Threads
ASSUME DisplaysAssumption == /\ Outputs \cap Slots = {}
                             /\ DisableOutputs \subseteq Displays
                             /\ NameContains \subseteq Displays \X Slots
ASSUME FaultsAssumption == Faults \subseteq FaultKinds
ASSUME NoStateAssumption == NoState \notin States

VARIABLES
    up,          \* "down", "starting" (startup restore running) or "up"
    lock,        \* holder of the `operation` mutex
    pc, op,      \* per thread: position, and the operation it runs
    st,          \* per thread: its local ConnectState
    todo,        \* per thread: outputs connect still has to disable
    err,         \* per thread: cleanup_state recorded a first_error
    res,         \* per thread: result of its last operation
    cache,       \* self.state
    journal,     \* state.json
    disk,        \* state.json after a loss of power
    slotOn,      \* connectors forced on in sysfs
    edid,        \* connectors with an EDID override
    listed,      \* slots KWin lists as outputs
    enabled,     \* displays KWin drives
    config,      \* KWin's kwinoutputconfig.json is whole
    userLayout   \* history: the physical outputs the user had enabled

locals == <<op, st, todo, err>>
control == <<up, lock, pc, res>>
stored == <<journal, disk>>
memory == <<cache, stored>>
sysfs == <<slotOn, edid>>
kwin == <<listed, enabled, config>>
vars == <<control, locals, memory, sysfs, kwin, userLayout>>

\* ConnectState::save and delete, as JournalFile implements them.
Journal == INSTANCE AtomicJournal WITH Records <- States, NoFile <- NoState, value <- journal

-----------------------------------------------------------------------------
\* Derived state.

\* The display, or KWin's configuration file, is not as the user left it.
Altered == slotOn # {} \/ edid # {} \/ ~(userLayout \subseteq enabled) \/ ~config

\* Record s is enough to undo every change made to the hardware.
Covers(s) == /\ s # NoState
             /\ userLayout \subseteq s.layout
             /\ slotOn \cup edid \subseteq {s.slot}

SameTarget(s, r) == s # NoState /\ r # NoState /\ s.slot = r.slot /\ s.layout = r.layout

\* LifecyclePhase and `connected` as status() reports them, read without the mutex.
Phase == IF cache = NoState THEN "Disconnected" ELSE cache.phase
IsConnected == Phase = "Connected"

Present == Outputs \cup listed
\* Mutation: the record of a torn down session is marked Disconnected.
WithPhaseDisconnected(s, p) ==
    [s EXCEPT !.phase = IF p = "Disconnecting" THEN "Disconnected" ELSE p]
WithPhase(s, p) == [s EXCEPT !.phase = p]

\* build_restore_args applied by kscreen-doctor.
Restored(s) == (enabled \cup (s.layout \cap Present)) \ {s.slot}

\* kscreen-doctor's listing, lower-cased, contains the slot's name.
ListingMentions(s) == \E d \in Present : d = s \/ <<d, s>> \in NameContains

-----------------------------------------------------------------------------
Init ==
    /\ up = "down" /\ lock = NoThread
    /\ pc = [t \in Threads |-> "idle"] /\ op = [t \in Threads |-> "none"]
    /\ st = [t \in Threads |-> NoState] /\ todo = [t \in Threads |-> {}]
    /\ err = [t \in Threads |-> FALSE] /\ res = [t \in Threads |-> "none"]
    /\ cache = NoState /\ Journal!Init
    /\ slotOn = {} /\ edid = {} /\ listed = {}
    /\ userLayout \in (SUBSET Outputs) \ {{}}
    /\ enabled = userLayout /\ config = TRUE

Goto(t, from, to) == pc[t] = from /\ pc' = [pc EXCEPT ![t] = to]

\* An operation returns r: the guard is dropped and the locals die with it.
\* When it was the startup restore, main goes on to serve whatever r is.
Return(t, r) ==
    /\ pc' = [pc EXCEPT ![t] = "idle"] /\ res' = [res EXCEPT ![t] = r]
    /\ op' = [op EXCEPT ![t] = "none"] /\ st' = [st EXCEPT ![t] = NoState]
    /\ todo' = [todo EXCEPT ![t] = {}] /\ err' = [err EXCEPT ![t] = FALSE]
    /\ lock' = NoThread
    /\ up' = "up"

\* A step inside an operation that neither returns nor touches the locals.
Step(t, from, to) == Goto(t, from, to) /\ UNCHANGED <<up, lock, res, locals>>

\* The journal after a failed save: rename may already have happened.
TornSave(s) == Journal!Put(s) \/ UNCHANGED stored

Start ==
    /\ up = "down" /\ up' = "starting"
    /\ pc' = [pc EXCEPT ![Main] = "waiting"] /\ op' = [op EXCEPT ![Main] = "restore"]
    /\ UNCHANGED <<lock, st, todo, err, res, memory, sysfs, kwin, userLayout>>

\* The server's thread calls all three; watchers and the sleep handler only end
\* sessions.
Call(t, o) ==
    /\ t = Main \/ o = "disconnect"
    /\ up = "up" /\ Goto(t, "idle", "waiting")
    /\ op' = [op EXCEPT ![t] = o] /\ res' = [res EXCEPT ![t] = "none"]
    /\ UNCHANGED <<up, lock, st, todo, err, memory, sysfs, kwin, userLayout>>

\* Mutation: the operations do not exclude each other.
AcquireShared(t, o) == pc[t] = "waiting" /\ op[t] = o
\* Taking the `operation` mutex for operation o.
Acquire(t, o) == pc[t] = "waiting" /\ op[t] = o /\ lock = NoThread

-----------------------------------------------------------------------------
\* connect

\* The early returns that change nothing: a session is cached, no compositor,
\* no card or empty slot, no listing to snapshot.
ConnectRefused(t) ==
    /\ Acquire(t, "connect")
    /\ \/ cache # NoState
       \/ Slots \subseteq slotOn
       \/ Faults \cap {"compositor", "sysfs", "kscreen"} # {}
    /\ Return(t, "err") /\ UNCHANGED <<memory, sysfs, kwin, userLayout>>

\* Guard, slot, layout snapshot and the list of outputs to disable.
ConnectBegin(t) ==
    /\ Acquire(t, "connect") /\ cache = NoState
    /\ \E s \in Slots \ slotOn, exclusive \in BOOLEAN :
        /\ st' = [st EXCEPT ![t] = [phase |-> "Connecting", slot |-> s, layout |-> enabled]]
        /\ todo' = [todo EXCEPT ![t] = IF exclusive THEN enabled \ {s} ELSE DisableOutputs]
    /\ lock' = t /\ pc' = [pc EXCEPT ![t] = "save"]
    /\ UNCHANGED <<up, op, err, res, memory, sysfs, kwin, userLayout>>

\* Mutation: the display is changed without a journal.
ConnectSaveSkipped(t) ==
    Step(t, "save", "publish") /\ UNCHANGED <<memory, sysfs, kwin, userLayout>>
ConnectSave(t) ==
    /\ \/ Step(t, "save", "publish") /\ Journal!Write(st[t])
       \/ pc[t] = "save" /\ "save" \in Faults /\ TornSave(st[t]) /\ Return(t, "err")
    /\ UNCHANGED <<cache, sysfs, kwin, userLayout>>

\* Mutation: the session is published as Connected before it is set up.
ConnectPublishEarly(t) ==
    /\ Step(t, "publish", "write_edid")
    /\ cache' = WithPhase(st[t], "Connected")
    /\ UNCHANGED <<stored, sysfs, kwin, userLayout>>
ConnectPublish(t) ==
    /\ Step(t, "publish", "write_edid")
    /\ cache' = st[t] /\ UNCHANGED <<stored, sysfs, kwin, userLayout>>

\* A failing step of connect goes to failed_connect, that is to cleanup_state.
Abort(t, from) == Step(t, from, "k_layout")

WriteEdid(t) ==
    /\ \/ Step(t, "write_edid", "clear_config") /\ edid' = edid \cup {st[t].slot}
       \/ Abort(t, "write_edid") /\ "sysfs" \in Faults /\ UNCHANGED edid
    /\ UNCHANGED <<memory, slotOn, kwin, userLayout>>

\* The slot's entry is removed from KWin's file, which is truncated and written
\* in place; without a file, an entry or a user's home there is nothing to do.
ClearKwinConfig(t) ==
    /\ \/ Step(t, "clear_config", "disable") /\ UNCHANGED config
       \/ Step(t, "clear_config", "rewrite_config") /\ config' = FALSE
       \/ Abort(t, "clear_config") /\ "sysfs" \in Faults /\ UNCHANGED config
    /\ UNCHANGED <<memory, sysfs, listed, enabled, userLayout>>

\* Where KWin has saved in between, what is left of both may not parse.
RewriteKwinConfig(t) ==
    /\ config' \in BOOLEAN
    /\ \/ Step(t, "rewrite_config", "disable") /\ (config \/ config')
       \/ Abort(t, "rewrite_config") /\ "sysfs" \in Faults
    /\ UNCHANGED <<memory, sysfs, listed, enabled, userLayout>>

\* One round of the disable loop.  kscreen-doctor may have applied the change
\* in a pass that was followed by an error.
DisableOutput(t) ==
    /\ pc[t] = "disable"
    /\ \E o \in todo[t] :
        \/ /\ todo' = [todo EXCEPT ![t] = @ \ {o}] /\ enabled' = enabled \ {o}
           /\ UNCHANGED <<up, lock, pc, res, op, st, err>>
        \/ /\ "kscreen" \in Faults /\ Abort(t, "disable")
           /\ enabled' \in {enabled, enabled \ {o}}
    /\ UNCHANGED <<memory, sysfs, listed, config, userLayout>>

SlotOn(t) ==
    /\ \/ /\ pc[t] = "disable" /\ todo[t] = {} /\ Step(t, "disable", "wait")
          /\ slotOn' = slotOn \cup {st[t].slot}
       \/ /\ pc[t] = "disable" /\ todo[t] = {} /\ Abort(t, "disable")
          /\ "sysfs" \in Faults /\ UNCHANGED slotOn
    /\ UNCHANGED <<memory, edid, kwin, userLayout>>

\* Mutation: the polling loop has no deadline.
WaitForOutputForever(t) ==
    /\ Step(t, "wait", "enable") /\ ListingMentions(st[t].slot)
    /\ UNCHANGED <<memory, sysfs, kwin, userLayout>>
\* The polling loop leaves when the listing mentions the slot, or times out.
WaitForOutput(t) ==
    /\ \/ Step(t, "wait", "enable") /\ ListingMentions(st[t].slot)
       \/ Abort(t, "wait")
    /\ UNCHANGED <<memory, sysfs, kwin, userLayout>>

EnableOutput(t) ==
    /\ \/ /\ Step(t, "enable", "verify")
          /\ enabled' = enabled \cup ({st[t].slot} \cap listed)
       \/ /\ Abort(t, "enable") /\ "kscreen" \in Faults
          /\ enabled' \in {enabled, enabled \cup ({st[t].slot} \cap listed)}
    /\ UNCHANGED <<memory, sysfs, listed, config, userLayout>>

\* active_mode_matches: the slot is enabled, in the requested mode.  Which
\* mode KWin picked is not modelled: verification may always fail.
VerifyMode(t) ==
    /\ \/ Step(t, "verify", "commit") /\ st[t].slot \in enabled
       \/ Abort(t, "verify")
    /\ UNCHANGED <<memory, sysfs, kwin, userLayout>>

\* Mutation: a failed save of the Connected state returns without rollback.
ConnectCommitNoRollback(t) ==
    /\ pc[t] = "commit"
    /\ LET s == WithPhase(st[t], "Connected") IN
        \/ /\ Goto(t, "commit", "publish_connected") /\ Journal!Write(s)
           /\ st' = [st EXCEPT ![t] = s] /\ UNCHANGED <<up, lock, res, op, todo, err>>
        \/ "save" \in Faults /\ TornSave(s) /\ Return(t, "err")
    /\ UNCHANGED <<cache, sysfs, kwin, userLayout>>
ConnectCommit(t) ==
    /\ pc[t] = "commit"
    /\ LET s == WithPhase(st[t], "Connected") IN
        /\ st' = [st EXCEPT ![t] = s]
        /\ \/ Goto(t, "commit", "publish_connected") /\ Journal!Write(s)
           \/ Goto(t, "commit", "k_layout") /\ "save" \in Faults /\ TornSave(s)
    /\ UNCHANGED <<up, lock, res, op, todo, err, cache, sysfs, kwin, userLayout>>

ConnectReturn(t) ==
    /\ pc[t] = "publish_connected" /\ Return(t, "ok")
    /\ cache' = st[t] /\ UNCHANGED <<stored, sysfs, kwin, userLayout>>

-----------------------------------------------------------------------------
\* disconnect

DisconnectRefused(t) ==
    /\ Acquire(t, "disconnect") /\ cache = NoState
    /\ Return(t, "err") /\ UNCHANGED <<memory, sysfs, kwin, userLayout>>

DisconnectBegin(t) ==
    /\ Acquire(t, "disconnect") /\ cache # NoState
    /\ st' = [st EXCEPT ![t] = WithPhase(cache, "Disconnecting")]
    /\ lock' = t /\ pc' = [pc EXCEPT ![t] = "d_save"]
    /\ UNCHANGED <<up, op, todo, err, res, memory, sysfs, kwin, userLayout>>

DisconnectSave(t) ==
    /\ \/ Step(t, "d_save", "d_publish") /\ Journal!Write(st[t])
       \/ pc[t] = "d_save" /\ "save" \in Faults /\ TornSave(st[t]) /\ Return(t, "err")
    /\ UNCHANGED <<cache, sysfs, kwin, userLayout>>

DisconnectPublish(t) ==
    /\ Step(t, "d_publish", "k_layout")
    /\ cache' = st[t] /\ UNCHANGED <<stored, sysfs, kwin, userLayout>>

-----------------------------------------------------------------------------
\* restore

\* No journal, or one that cannot be read: the cache is left alone.
RestoreNothing(t) ==
    /\ Acquire(t, "restore")
    /\ \/ journal = NoState /\ Return(t, "ok")
       \/ "load" \in Faults /\ Return(t, "err")
    /\ UNCHANGED <<memory, sysfs, kwin, userLayout>>

RestoreBegin(t) ==
    /\ Acquire(t, "restore") /\ journal # NoState
    /\ st' = [st EXCEPT ![t] = journal]
    /\ lock' = t /\ pc' = [pc EXCEPT ![t] = "probe"]
    /\ UNCHANGED <<up, op, todo, err, res, memory, sysfs, kwin, userLayout>>

\* A Connected journal whose slot KWin still drives is adopted as it is.
RestoreAdopt(t) ==
    /\ pc[t] = "probe" /\ st[t].phase = "Connected" /\ st[t].slot \in enabled
    /\ Return(t, "ok")
    /\ cache' = st[t] /\ UNCHANGED <<stored, sysfs, kwin, userLayout>>

\* Otherwise, or when KWin cannot be asked, it is cleaned up.
RestoreCleanup(t) ==
    /\ Step(t, "probe", "k_layout")
    /\ \/ st[t].phase # "Connected" \/ st[t].slot \notin enabled
       \/ Faults \cap {"compositor", "kscreen"} # {}
    /\ UNCHANGED <<memory, sysfs, kwin, userLayout>>

-----------------------------------------------------------------------------
\* cleanup_state and what its callers do with the outcome

\* kscreen-doctor restores the physical outputs and disables the slot; KWin
\* saves what it was told.
CleanupLayout(t) ==
    /\ Goto(t, "k_layout", "k_slot_off")
    /\ \/ enabled' = Restored(st[t]) /\ config' = TRUE /\ UNCHANGED err
       \/ /\ err' = [err EXCEPT ![t] = TRUE] /\ UNCHANGED config
          /\ \/ "kscreen" \in Faults /\ enabled' \in {enabled, Restored(st[t])}
             \/ "compositor" \in Faults /\ op[t] # "connect" /\ UNCHANGED enabled
    /\ UNCHANGED <<up, lock, res, op, st, todo, memory, sysfs, listed, userLayout>>

CleanupSlotOff(t) ==
    /\ Goto(t, "k_slot_off", "k_edid")
    /\ \/ slotOn' = slotOn \ {st[t].slot} /\ UNCHANGED err
       \/ "sysfs" \in Faults /\ err' = [err EXCEPT ![t] = TRUE] /\ UNCHANGED slotOn
    /\ UNCHANGED <<up, lock, res, op, st, todo, memory, edid, kwin, userLayout>>

CleanupEdid(t) ==
    /\ pc[t] = "k_edid"
    /\ \/ edid' = edid \ {st[t].slot} /\ UNCHANGED err
       \/ "sysfs" \in Faults /\ err' = [err EXCEPT ![t] = TRUE] /\ UNCHANGED edid
    /\ Goto(t, "k_edid", IF err'[t] THEN "recover_save" ELSE "delete")
    /\ UNCHANGED <<up, lock, res, op, st, todo, memory, slotOn, kwin, userLayout>>

\* The fault that hits the save of a RecoveryRequired state: connect and
\* disconnect share one kind, restore has its own.
RecoverFault(t) == IF op[t] = "restore" THEN "recovery_save" ELSE "save"

\* failed_connect goes on to the cache whatever the save did; disconnect and
\* restore return the error of the save.
RecoverSave(t) ==
    LET s == WithPhase(st[t], "RecoveryRequired") IN
    /\ pc[t] = "recover_save"
    /\ \/ Step(t, "recover_save", "recover_publish") /\ Journal!Write(s)
       \/ /\ RecoverFault(t) \in Faults /\ TornSave(s)
          /\ IF op[t] = "connect" THEN Step(t, "recover_save", "recover_publish")
                                  ELSE Return(t, "err")
    /\ UNCHANGED <<cache, sysfs, kwin, userLayout>>

\* Mutation: after an incomplete cleanup the session is forgotten.
RecoverPublishNone(t) ==
    /\ pc[t] = "recover_publish" /\ Return(t, "err")
    /\ cache' = NoState /\ UNCHANGED <<stored, sysfs, kwin, userLayout>>
\* Mutation: after an incomplete cleanup the session is Connected again.
RecoverPublishConnected(t) ==
    /\ pc[t] = "recover_publish" /\ Return(t, "err")
    /\ cache' = WithPhase(st[t], "Connected")
    /\ UNCHANGED <<stored, sysfs, kwin, userLayout>>
RecoverPublish(t) ==
    /\ pc[t] = "recover_publish" /\ Return(t, "err")
    /\ cache' = WithPhase(st[t], "RecoveryRequired")
    /\ UNCHANGED <<stored, sysfs, kwin, userLayout>>

\* failed_connect ignores a failed delete; the others return it.
DeleteJournal(t) ==
    /\ \/ Step(t, "delete", "clear") /\ Journal!Put(NoState)
       \/ /\ "delete" \in Faults /\ pc[t] = "delete" /\ UNCHANGED stored
          /\ IF op[t] = "connect" THEN Step(t, "delete", "clear") ELSE Return(t, "err")
    /\ UNCHANGED <<cache, sysfs, kwin, userLayout>>

\* Mutation: the journal is deleted and the session stays in memory.
ClearCacheForgotten(t) ==
    /\ pc[t] = "clear" /\ Return(t, IF op[t] = "connect" THEN "err" ELSE "ok")
    /\ UNCHANGED <<memory, sysfs, kwin, userLayout>>
ClearCache(t) ==
    /\ pc[t] = "clear" /\ Return(t, IF op[t] = "connect" THEN "err" ELSE "ok")
    /\ cache' = NoState /\ UNCHANGED <<stored, sysfs, kwin, userLayout>>

-----------------------------------------------------------------------------
\* The environment.

\* KWin notices a forced connector and may enable it by itself.
KWinHotplug(s) ==
    /\ s \in slotOn \ listed /\ listed' = listed \cup {s}
    /\ enabled' \in {enabled, enabled \cup {s}}
    /\ UNCHANGED <<control, locals, memory, sysfs, config, userLayout>>

KWinUnplug(s) ==
    /\ s \in listed \ slotOn /\ listed' = listed \ {s}
    /\ enabled' = enabled \ {s}
    /\ UNCHANGED <<control, locals, memory, sysfs, config, userLayout>>

\* KWin saves its configuration whenever it sees fit.
KWinSaves ==
    /\ ~config /\ config' = TRUE
    /\ UNCHANGED <<control, locals, memory, sysfs, listed, enabled, userLayout>>

\* The user picks another physical layout while no session exists.
UserRearranges ==
    /\ lock = NoThread /\ cache = NoState /\ ~Altered
    /\ userLayout' \in (SUBSET Outputs) \ {{}, userLayout}
    /\ enabled' = (enabled \ Outputs) \cup userLayout'
    /\ UNCHANGED <<control, locals, memory, sysfs, listed, config>>

\* The process ends, at any step of any thread: crash, kill or plain exit.
ProcessEnds ==
    /\ up # "down" /\ up' = "down" /\ lock' = NoThread
    /\ pc' = [t \in Threads |-> "idle"] /\ op' = [t \in Threads |-> "none"]
    /\ st' = [t \in Threads |-> NoState] /\ todo' = [t \in Threads |-> {}]
    /\ err' = [t \in Threads |-> FALSE] /\ res' = [t \in Threads |-> "none"]
    /\ cache' = NoState
    /\ UNCHANGED <<stored, sysfs, kwin, userLayout>>

\* Overrides in sysfs do not survive a reboot; KWin's layout does if KWin can
\* read it, and the journal does if the reboot is an orderly one.
Reboot ==
    /\ up = "down" /\ (slotOn \cup edid \cup listed # {} \/ disk # journal)
    /\ slotOn' = {} /\ edid' = {} /\ listed' = {}
    /\ enabled' = (IF config THEN enabled \cap Outputs ELSE Outputs) /\ UNCHANGED config
    /\ Journal!Flush \/ Journal!PowerLoss
    /\ UNCHANGED <<control, locals, cache, userLayout>>

-----------------------------------------------------------------------------
ConnectStep(t) ==
    \/ ConnectRefused(t) \/ ConnectBegin(t) \/ ConnectSave(t) \/ ConnectPublish(t)
    \/ WriteEdid(t) \/ ClearKwinConfig(t) \/ RewriteKwinConfig(t) \/ DisableOutput(t) \/ SlotOn(t)
    \/ WaitForOutput(t) \/ EnableOutput(t) \/ VerifyMode(t)
    \/ ConnectCommit(t) \/ ConnectReturn(t)

DisconnectStep(t) ==
    \/ DisconnectRefused(t) \/ DisconnectBegin(t)
    \/ DisconnectSave(t) \/ DisconnectPublish(t)

RestoreStep(t) ==
    \/ RestoreNothing(t) \/ RestoreBegin(t) \/ RestoreAdopt(t) \/ RestoreCleanup(t)

CleanupStep(t) ==
    \/ CleanupLayout(t) \/ CleanupSlotOff(t) \/ CleanupEdid(t)
    \/ RecoverSave(t) \/ RecoverPublish(t) \/ DeleteJournal(t) \/ ClearCache(t)

ThreadStep(t) == ConnectStep(t) \/ DisconnectStep(t) \/ RestoreStep(t) \/ CleanupStep(t)

Environment ==
    \/ Start \/ ProcessEnds \/ Reboot \/ UserRearranges \/ KWinSaves
    \/ \E s \in Slots : KWinHotplug(s) \/ KWinUnplug(s)

Next ==
    \/ \E t \in Threads : ThreadStep(t) \/ \E o \in Ops : Call(t, o)
    \/ Environment

Spec == Init /\ [][Next]_vars

-----------------------------------------------------------------------------
\* Properties

\* Type correctness of every variable.
TypeOK ==
    /\ up \in {"down", "starting", "up"}
    /\ lock \in Threads \cup {NoThread}
    /\ pc \in [Threads -> Inside \cup {"idle", "waiting"}]
    /\ op \in [Threads -> Ops \cup {"none"}]
    /\ st \in [Threads -> States \cup {NoState}]
    /\ todo \in [Threads -> SUBSET Displays]
    /\ err \in [Threads -> BOOLEAN]
    /\ res \in [Threads -> {"none", "ok", "err"}]
    /\ {cache, journal, disk} \subseteq States \cup {NoState}
    /\ slotOn \subseteq Slots /\ edid \subseteq Slots /\ listed \subseteq Slots
    /\ enabled \subseteq Displays /\ config \in BOOLEAN /\ userLayout \subseteq Outputs

\* In every state, hardware that is not as the user left it can be put back from
\* the journal that a restart finds, after the death of the process or a loss of
\* power: it names the forced connector and the layout to enable again.
Recoverable == Altered => Covers(journal) /\ Covers(disk)

\* A daemon that serves requests, runs no operation and believes no session
\* exists has left the hardware as the user had it.  The next connect relies
\* on it: it takes what it finds as the layout to come back to.
NothingLeftBehind == up = "up" /\ lock = NoThread /\ cache = NoState => ~Altered

\* At rest the session in memory, from which disconnect works, and the journal,
\* from which a restart works, name the same connector and layout.
SessionMatchesJournal ==
    up = "up" /\ lock = NoThread /\ Altered => SameTarget(cache, journal)

\* Every exit of connect settles the session: once the mutex is free status()
\* no longer says Connecting, which would refuse every later connect.
NeverStuckConnecting == lock = NoThread => Phase # "Connecting"

\* status() says Connected only while the connector is forced on with its EDID.
ConnectedIsDriven == IsConnected => cache.slot \in slotOn \cap edid

\* The strategy implements its promise to the rest of the daemon: write-ahead
\* recovery intent, and the lifecycle phases.
Lifecycle == INSTANCE DisplayLifecycle WITH
    phase <- IF up = "up" THEN Phase ELSE "Down",
    intent <- journal # NoState,
    altered <- Altered
ImplementsLifecycle == Lifecycle!Spec

\* "Any later failure restores physical outputs before disabling the virtual
\* connector" (readme.md:87): the connector is turned off when the outputs that
\* the user had are on again, so that some display shows a picture throughout.
RestoredBeforeOff ==
    [][up = "up" /\ ~(slotOn \subseteq slotOn') => userLayout \subseteq enabled]_vars

\* No operation keeps the mutex for ever.
LockReleased == lock # NoThread ~> lock = NoThread

\* A disconnect that has begun ends with no session, or with one that says it
\* needs recovery, unless the process ends first.
DisconnectSettles ==
    (\E t \in Threads : pc[t] = "d_save")
      ~> up = "down" \/ (lock = NoThread /\ Phase \in {"Disconnected", "RecoveryRequired"})
=============================================================================
