# A formal model of sunshine-virt-display

`svd-daemon` gives Sunshine (a game-streaming server) a virtual display: it
forces an empty DRM connector on with a generated EDID, has KWin drive it,
optionally turns the physical outputs off, and undoes all of this when the
stream ends, when Sunshine dies, when the machine suspends, when the daemon
stops, or at the next start of the daemon if it was killed half-way. What can go
wrong is not in any one of these paths but in their order, in their failures and
in their meeting: a user who is left with black monitors has nothing to type on.

This directory holds TLA+ modules translated from the Rust source, TLC
configurations that check them on small instances, and TLAPS proofs of what
matters most for every instance. Paths below are relative to the repository;
`kwin/` is `crates/svd-daemon/src/strategy/kwin/`, other file names without a
directory are in `crates/svd-daemon/src/`.

## 1. Inventory

| part | source | state it keeps | operations | correct when |
|---|---|---|---|---|
| KWin strategy | `kwin/mod.rs` | `operation` mutex, cached `ConnectState` | `connect`, `disconnect`, `restore`, `status`; `cleanup_state`, `failed_connect` | the hardware can always be put back; a session is never forgotten; operations exclude each other and end |
| recovery journal | `kwin/state.rs` | `state.json` | `save` (temporary file, sync, rename, sync), `load`, `delete` | atomic and durable |
| sysfs access | `kwin/sysfs.rs` | the kernel's connector `status` and `edid_override`; KWin's `kwinoutputconfig.json` | find card and empty slot, write EDID, remove the connector from KWin's configuration, slot on, slot off | writes undone in full |
| kscreen client | `kwin/kscreen.rs` | none; KWin's layout behind `kscreen-doctor` | list outputs, apply settings (twice), match the active mode | parses what it gets |
| EDID generator | `kwin/edid.rs` | none | `generate` | valid blocks for every accepted mode |
| compositor discovery | `kwin/env.rs` | none | `discover_in` | one desktop, the session's own, or a refusal |
| request handler | `handler.rs` | `watcher_generation` | validate, authorise, dispatch, spawn a watcher | one answer per request; a watcher per session |
| Sunshine watchers | `watcher.rs` | one thread per connect: token, pidfd | find the ancestor, poll, disconnect | ends its own session and no other |
| sleep handler | `sleep.rs` | inhibitor, three threads | inhibit, subscribe, handle `PrepareForSleep` and `PrepareForShutdown` | nothing sleeps on a virtual display; nobody is held up |
| main | `main.rs` | shutdown flag | startup restore, serve, final disconnect | leaves the hardware as it found it |
| IPC server and framing | `ipc/server.rs`, `crates/svd-proto/src/framing.rs` | the socket and its file | remove what is left, bind, set permissions; accept, credentials, read, handle, write | comes up after any crash; one request at a time, bounded |
| protocol | `crates/svd-proto/src/` | none | `validate_request`, `ConnectorId` | accepts what the rest can handle |
| configuration | `config.rs` | read once | load, validate | rejects what the rest cannot handle |
| client `svd` | `crates/svd-cli/src/main.rs` | none | check, dry run, one request per process, exit code | its exit code is true |
| stub, deployment | `bin/svd-restore.rs`, `deploy/`, `install.sh` | none | — | — |

How they meet: the server, each watcher and the sleep handler are threads that
call one strategy object. `connect`, `disconnect` and `restore` take its
`operation` mutex; `status` reads the cached state without it, so the other
threads decide on a phase that may be in the middle of an operation. The
generation counter is an atomic read by the watchers without any lock. The
process may be killed at any step; the hardware, KWin's layout, KWin's configuration
file, the journal and the file of the socket outlive it. A reboot clears the
hardware overrides, and the loss of power before it may bring back what the journal
was before its last unsynced change. Outside are KWin (slow, may not answer, enables
and moves outputs by itself, saves its configuration when it likes), logind,
Sunshine and the `svd` client, which exit when they like.

What is hard here, each with the line where it bites and the property that
covers it, is listed in `PROJECT.json` under `hazards`.

## 2. Modules

| module | what it is | source |
|---|---|---|
| `DisplayLifecycle` | abstract: phase, recovery intent, hardware altered or not | promise of the strategy: `strategy/mod.rs`, readme "Recovery" |
| `KWinStrategy` | the strategy, any number of threads, journal, sysfs, KWin and its configuration file | `kwin/mod.rs`, `kwin/state.rs`, parts of `sysfs.rs`, `kscreen.rs` |
| `KWinStrategyProofs` | inductive invariant and theorems of `KWinStrategy` | |
| `LifecycleProofs` | `KWinStrategy` implements `DisplayLifecycle` | |
| `Daemon` | EXTENDS `KWinStrategy`: server, watchers, sleep handler, Sunshine, logind | `main.rs`, `handler.rs`, `watcher.rs`, `sleep.rs`, accept loop of `ipc/server.rs` |
| `SessionProofs` | lemmas on one session: what an operation that fails or not leaves in hardware, cache and journal | |
| `DrivenProofs` | what `status()` says is true of the hardware | |
| `DaemonProofs` | the daemon is an execution of the strategy; its types, its exit, its suspends | |
| `AtomicJournal` | abstract: one cell, replaced as a whole, flushed now and then, reverted by a loss of power | promise of the journal |
| `JournalFile` | the journal, one action per system call, over a file system with unsynced data | `kwin/state.rs` |
| `JournalFileProofs` | theorems of `JournalFile` | |
| `IpcServer` | socket, accept loop, frames, timeouts, `svd` and its exit code, clients of any temper, death and restart | `ipc/server.rs`, `crates/svd-proto/src/framing.rs`, `crates/svd-cli/src/main.rs` |
| `IpcServerProofs` | how long a client can occupy the server, the socket after a restart, what the exit code tells, that the frame limits agree | |
| `VirtualEdid` | mode table, the whole EDID block, what the kernel reads back | `crates/svd-proto/src/lib.rs`, `kwin/edid.rs` |
| `Connectors` | which card and connector a session gets | `kwin/sysfs.rs`, step 2 of `connect` |
| `Desktops` | whose desktop a request is about, who may end a session | `kwin/env.rs`, resolver of `kwin/mod.rs` |
| `KScreen` | EXTENDS the three above: listing, parsers, placement, restore arguments, one session after the other | `kwin/kscreen.rs`, parts of `kwin/mod.rs`, `handler.rs`, `config.rs` |
| `KScreenProofs` | what the parsers make of any listing, and the theorems of `KScreen` | |
| `MCKWinStrategy`, `MCDaemon`, `MCKScreen` | instances for TLC | |

### KWinStrategy

`pc[t]` is where thread `t` stands. Every fallible call of the code is one
action, and control between two of them is one state, so that a crash, a read of
`status()` or another thread can come in between. The names of the positions are
the steps in the order of the code:

    connect     save publish write_edid clear_config rewrite_config disable*
                (slot on) wait enable verify commit publish_connected
    disconnect  d_save d_publish, then cleanup
    restore     probe, then adopt or cleanup
    cleanup     k_layout k_slot_off k_edid, then recover_save recover_publish
                if one of them failed, else delete clear

`st[t]` is the operation's local `ConnectState`, `err[t]` its `first_error`,
`cache` is `self.state`, `journal` is `state.json`. A layout is the set of
enabled displays: positions, modes and priorities are written back by the same
`kscreen-doctor` call as `enable` and are not told apart. `userLayout` is a
history variable: what the user had enabled when no session existed.

`config` says whether `kwinoutputconfig.json` is whole. `clear_kwin_output_config`
truncates it in place and writes it again (`kwin/sysfs.rs:204`), with a crash, a
failed write or a save by KWin possible in between: `ClearKwinConfig` and
`RewriteKwinConfig`. A torn file counts as an altered desktop (`Altered`): it is on
record, and it is whole again when the layout is put back, because KWin then saves
its own (`CleanupLayout`, `KWinSaves`; external). A machine that comes up with a
torn file has all its outputs on.

`disk` is what `journal` would be after a loss of power; both belong to the
instance `Journal` of `AtomicJournal`, whose `Write` and `Put` are the steps of `save`
and `delete`: a save that returned Ok is on disk, a failed one and a `delete`
may or may not be. An orderly `Reboot` flushes, any other may bring `disk` back.

Failures are kinds in the constant `Faults`. A failing `save` may have renamed
already (`TornSave`); a failing `kscreen-doctor` may have applied its change. A
mode verification and a wait for the output may fail with no fault at all. The
save of `restore` has a kind of its own, `recovery_save`, and so has `load`:
they are what separates the theorems below from the finding `kwin_orphan`.

`RestoreAdopt` and `RestoreCleanup` decide on the layout KWin reports, as the
code does: a `Connected` journal is adopted if the slot is enabled.

### Daemon

`server`, `watch[w]` and `sleeper` are the threads' own positions around the
strategy's; `Main`, the watchers `1..MaxGen` and `Sleeper` are the strategy's
`Threads`, and every step of the strategy is `StrategyStep(t)`. A watcher goes
by its token, because the code spawns exactly one per generation. The shutdown
signals reach the sleep handler through a thread of their own and are a flag
beside the queue of sleep signals: they overtake them. `launcher` (the Sunshine
a session was made for) and `covered` (what an announced sleep met) are history
variables that only properties read.

### JournalFile

`file` and `tmp` are what the running system sees, `disk` is what `state.json` will
be after a loss of power: whether a rename or a removal that is not synced gets
there is settled when it is made, a sync of the directory brings `disk` up to
`file`. A file renamed without having been synced may come back torn. `kept` is a
history variable: the last record whose save returned Ok and what was written or
removed since. Process death and loss of power may come between any two calls.

`KWinStrategy` uses `save` as one action, which is sound for a crash of the
process: `ImplementsAtomicJournal` has `file` change in `Rename` alone. The file
implements the same `AtomicJournal` that `KWinStrategy` has as its journal, so what a
loss of power may bring back here is what its `Reboot` takes into account.

### IpcServer

`path` is what stands at the socket's path: nothing, the file a dead process left
(`stale`), the socket of this one (`live`), or a file that is no socket (`other`).
A process starts at `remove`, and comes through `bind` and `chmod` to `accept`; it
may be killed at any step, which closes every connection and leaves the file, and
be started again, after the service manager has emptied the directory or not. There
is one process at a time: of two daemons started by hand the second would restore
the first one's display and remove its socket.

A connection is a client's `wire` (bytes not yet read; content and newline are
the only kinds) and the server's `got`. Time passes in ticks, only while the
server waits for a byte. `svd` takes a step for each of its system calls: `connect`
("connected"), the two `write_all` calls of `write_frame`, content ("content") and newline
("framed"). It may be stopped between any two, and is then timed out like anybody
else and exits with 1; each `write_all` is one step because a frame is smaller than the
socket's buffer. "raw" clients send bytes when they like. `talk[c]` ends in what
became of the client: refused by its own check, a dry run, nobody to connect to,
one of the two responses, or a connection closed without one; `ExitCode` is what
`svd` makes of it. What a request does is one action here, because nothing of the loop
happens meanwhile (`Daemon` has the other side); the history variable `done` keeps
whether it was carried out. An error response is as long as the words in it, so it
may not fit a frame, and then is not sent (`unsent`).

### VirtualEdid, Connectors, Desktops and KScreen

`generate` is all 128 bytes of the block at their width, `as u8`, the packed 12-bit
and 10-bit fields and the checksum included; the kernel's reading of them is
external and wants the header, the checksum and a sync pulse. A mode has a pixel
clock and a frame size, so that "within half a hertz" is a comparison of integers;
the monitors run a timing of their own, not the one `generate` would give them.
The code computes centimetres in floating point: for a multiple of 4800 pixels,
which no run asks for, the byte may be one less than here.

A listing of `kscreen-doctor` is a sequence of lines, one block per output, in every
order, with the preferred and the active mode marked; both parsers are recursive
functions of the lines read so far, as is the restore of the outputs read so far. Every change of the layout is given twice, as `run_twice` does, and KWin may move
the outputs after the first pass; `kwin/kscreen.rs:264` says why. A session runs
through the steps of `connect` and `disconnect` that use a listing, one session
after the other; KWin may turn the virtual output on by itself, and ignore the
placement. A listing that fails is not modelled here: the code then puts the
virtual display at 0 (`kwin/mod.rs:306`).

`status` is what the connectors' status files say; the daemon reads its own "off"
there, as the comment at `kwin/sysfs.rs:113` has it. Users log in and out when they
like, so each resolution of a compositor meets any set of sockets: `Resolved(uid)`
is everything it can come to. `session_uid` is what the code records; `driven` is a
history variable, the user whose `layout` was changed, and arguments sent to
another user's compositor leave `layout` alone. A session whose desktop is not
found when it ends stays at step "restore" until a later restore finds it.

### DisplayLifecycle

Record intent, alter, undo, forget; phases move along the edges of the readme's
lifecycle. `KWinStrategy` implements it under the mapping

    phase   <- IF up = "up" THEN Phase ELSE "Down"
    intent  <- journal # NoState
    altered <- Altered

(`ImplementsLifecycle`). The abstract module contains no thread, lock or fault; a loss
of power while the daemon is down may change the intent where nothing depends on it.

## 3. Runs

Two callers are enough to have one inside the mutex and one outside; a third
would wait like the second. With two outputs a layout can be taken down and put back
in part: an exclusive connect disables one after the other, and may fail in
between. Two slots let a session meet a leftover of another. In the daemon's runs
the strategy's own faults are off, but for those of sysfs in `daemon_suspend`, because
`kwin_safety` has them all, and what a watcher or a suspend does after a failed
operation depends on its result alone: a connect may still fail at `wait` and
`verify`.

| run | module, specification | bounds | checks | shows |
|---|---|---|---|---|
| `kwin_safety` | KWinStrategy, `Spec` | 2 threads, 2 outputs whose names contain the slots' (symmetric), 2 slots (symmetric), no configured `disable_outputs`, all faults but those of restore's journal | `TypeOK` `Recoverable` `NothingLeftBehind` `SessionMatchesJournal` `NeverStuckConnecting` `ImplementsLifecycle` | at every step, crash, reboot and loss of power included, the journal can undo what was done, to the display and to KWin's configuration; nothing is forgotten and connect leaves no half session |
| `daemon_safety` | Daemon, `DaemonSpec` | 2 generations, 1 Sunshine, 1 logind signal, every fault of the daemon | `DaemonTypeOK` `CleanExit` `CoveredSleep` | an exit leaves nothing behind; a sleep announced at rest finds the session ended |
| `daemon_requests` | Daemon, `FairDaemonSpec` | 2 generations, 1 Sunshine | `RequestAnswered` `WatchedSessionEnds` | every request is answered; a watched Sunshine's exit ends its session |
| `daemon_suspend` | Daemon, `FairDaemonSpec` | 1 generation, no Sunshine, 1 signal, sysfs faults | `InhibitorReleased` `LockReleased` `DisconnectSettles` `ConnectedIsDriven` | a suspend is not held up, operations end, and what status() says is true of the hardware |
| `journal_file` | JournalFile, `Spec` | 2 records, any number of calls, crashes and power losses | `SavedIsDurable` `NeverCorrupt` `ImplementsAtomicJournal` | a saved record survives, and no reader ever sees half of one |
| `ipc_server` | IpcServer, `FairSpec` | 2 clients that come back for ever, frames of 3 bytes, timeout of 2 ticks, any number of deaths and restarts | `HoldIsBounded` `FramedIsRead` `EveryoneServed` `ShutdownStops` `StaleSocketReplaced` `ExitCodeTells` | a slow client delays the others by a bounded time, nobody keeps the daemon from stopping, a restart takes over the socket, and `svd` knows what became of its request |
| `kscreen` | KScreen, `Spec` | 2 users (symmetric) with up to 2 compositors each, 2 cards with an empty connector each, 3 outputs, one with a rejected name, 2 positions, 6 extra modes around the limits of the descriptor, 2 built-in ones | `VerifiedIsDriven` `CanConnectAgain` `OnlyOwnerEnds` `LayoutRestored` `NoOverlap` `PermittedModeVerifies` | the parsers and the timing arithmetic agree from the request to the verification and back to the layout, on the desktop the session was made on; connectors are not used up |
| `kwin_orphan`, `kwin_dark`, `daemon_sleep`, `daemon_foreign`, `daemon_unwatched` | | the smallest instance that shows it | one property each | a finding, see 5 |

The bounds: `MaxGen` bumps of the watcher generation in one life of the process
(two is one supersession, which is all a watcher compares), `MaxSunshine`
Sunshine processes (two only where one session must be confused with the next),
`MaxSignals` announcements by logind (one: that a second finds the handler busy with the
first, or overtakes it, is left to `SleepIsCovered`, which holds for any number). They stand in the guards of `RequestConnect`, `RequestEnd`,
`SunshineStarts`, `AnnounceSleep` and `AnnounceShutdown`; the liveness
properties promise nothing for what the bounds cut off. The number of crashes,
restarts and reboots is not bounded.

A frame of 3 bytes is the smallest in which a content byte, the last permitted one
and one too many differ; two ticks tell a byte in time from one too late; one
client is served while the other waits. Two clients of which each may be `svd`
stopped at any call, or anything else, meet every split of a frame. The modes of `kscreen` are the largest
clock of the table, the mode the monitors run, and one each that is too wide, too
high, too fast or too small for the descriptor, or just within it. Two users and
root are enough for a requester who is not the owner of the desktop, and for one
desktop that is found in place of another.

`ConnectedIsDriven` is checked with sysfs faults only. With `compositor`, `kscreen` or
`save` faults the code can violate it: the phase on disk stays `Connected`
while a failed `restore` tears sysfs down, and the next start adopts it because
KWin still lists the output. No other property forbids that adoption. `CleanExit` is checked with the strategy's faults
off: with them the final disconnect may fail, and the journal stands for it
(`Recoverable`). `ExitCodeTells` says nothing of a daemon that dies under the
connection: `svd` then reports a failure, and the request may have been carried out.

### Fairness

- `FairDaemonSpec`: weak fairness of main, the sleep handler and each watcher
  while the machine is awake, and *strong* fairness of each thread's strategy
  steps. The mutex of `std` is not fair, so a waiter that is passed over must be
  owed an acquisition that is possible again and again; the threads that could
  starve it return to a socket, a poll or a D-Bus read between two calls, and
  unlocking wakes a waiter. Between two steps the code runs straight-line code,
  awaits a deadline (`kwin/mod.rs:279`) or runs a subprocess. `kscreen-doctor` has no
  timeout (`kwin/kscreen.rs:211`): that it returns is an assumption on KWin. Requests,
  signals, crashes and exits of Sunshine are owed by nobody. That the machine wakes
  up is assumed. The strategy alone has no fairness: its liveness is checked under
  the threads that really call it.
- `FairSpec` of `IpcServer`: weak fairness of the server's steps, those of its setup
  included, and of time. The server is one thread that loops until it returns;
  clients, signals, deaths and restarts owe nothing.

## 4. Proofs

The theorems of `KWinStrategyProofs`, `LifecycleProofs`, `DrivenProofs` and `DaemonProofs`
hold for any sets of threads, outputs and slots and any `DisableOutputs`, `NameContains`
and `Faults`, except where a fault is excluded, and those of `DaemonProofs` for any
`MaxGen`, `MaxSunshine` and `MaxSignals`. Assumptions on the constants are the four
ASSUMEs of `KWinStrategy` and the one of `Daemon`. Those of `KScreenProofs` hold for any
users, sockets, cards, connectors, outputs, coordinates and modes that
`ConnectorsAssumption`, `DesktopsAssumption` and `KScreenAssumption` admit.

| theorem | says |
|---|---|
| `TypeCorrect` | `Spec => []TypeOK` |
| `MutualExclusion` | at most one thread is inside an operation, whatever the faults |
| `Inductive` | the inductive invariant holds |
| `JournalRecovers`, `IdleIsClean`, `SessionAgrees` | `Recoverable`, `NothingLeftBehind`, `SessionMatchesJournal` |
| `ConnectSettles` | `NeverStuckConnecting`, whatever the faults |
| `ImplementsPromise` | `Spec => ImplementsLifecycle` |
| `JournalIsAtomic` | the strategy uses the journal as `AtomicJournal` allows, losses of power included |
| `ImplementsStrategy` | `DaemonSpec => Spec` |
| `DaemonRecovers` | `Recoverable` for the whole daemon |
| `StatusIsTrue`, `DaemonStatusIsTrue` | `ConnectedIsDriven` for the strategy and the daemon, without `compositor`, `kscreen` and `save` faults |
| `DaemonTypes` | `DaemonSpec => []DaemonTypeOK` |
| `ExitIsClean` | `CleanExit`, with no fault but `delete` |
| `SleepIsCovered` | `CoveredSleep`, without faults of the journal |
| `SaveLasts`, `NeverHalfAJournal`, `FileIsAtomic` | `SavedIsDurable`, `NeverCorrupt`, and `JournalFile` implements `AtomicJournal` |
| `IpcTypes`, `HoldTime` | types of `IpcServer`; `HoldIsBounded` |
| `SocketIsReplaced` | `StaleSocketReplaced`: a restart comes to listen |
| `ExitCodes` | `ExitCodeTells`: the exit code of `svd` is true |
| `FramesAgree` | `FramedIsRead`: no frame of `svd` is refused for its size, nor for its pace once it is whole |
| `OwnerEnds` | `OnlyOwnerEnds` |
| `SlotsComeBack` | `CanConnectAgain`, if each card has a DisplayPort or HDMI connector without a monitor |
| `VerifiedMeansDriven` | `VerifiedIsDriven`, however many outputs are listed, in any order |
| `PlacedClear` | `NoOverlap` |
| `OutputsComeBack` | `LayoutRestored` |

The three invariants `Recoverable`, `NothingLeftBehind` and `SessionMatchesJournal`, and
so `Inductive`, `DaemonRecovers` and `ImplementsPromise`, assume
`Faults \cap {"load", "recovery_save"} = {}`, that is, the daemon can read its
journal when it starts and can rewrite it when a startup cleanup is incomplete.
`kwin_orphan` shows that the assumption is needed: without it the property is
false of the code.

The other conditions on faults are there for the same reason: TLC, on one output and one
slot, has a counterexample for each kind they exclude, but for those named here. A final
disconnect that cannot reach KWin, write the journal or turn the connector off leaves
the hardware changed, so `ExitIsClean` leaves room for `delete` alone, whose failure leaves
a journal of a session that is undone (and for `recovery_save`, which cannot strike
where no cleanup fails, but which `Inductive` excludes). A disconnect whose journal
cannot be written returns an error before its cleanup and the sleep handler lets the machine
sleep all the same; a startup that could not load or rewrite the journal leaves one
that a later restore adopts: so `SleepIsCovered` excludes these, and `delete`, for
which TLC finds no counterexample but the proof's `SyncInv` does not hold. Failures of
sysfs and KWin are allowed, because a session that ends incompletely is not
`Connected` any more. The conditions of `StatusIsTrue` are those of the
paragraph on `ConnectedIsDriven` above. `SlotsComeBack` asks of the cards what `CanConnectAgain` takes for
granted at the start; a card whose only usable connector has a monitor has none to give.

The argument. `Recoverable` alone is not inductive: whether a step that changes
the hardware is covered by the journal depends on what the running thread
believes. `IndInv` adds, in named parts,

- `LockInv`: exactly the holder of the mutex is inside an operation, and its
  position fits the operation it runs;
- `UpInv`: nothing but the startup restore runs before the daemon is up, with an
  empty cache;
- `RecordInv`: the record a thread works from covers the hardware, and the
  journal names the same connector and layout, in a connect also after a loss of
  power; for a disconnect, so does the cache;
- `CleanupInv`: how far a cleanup without an error has come; `delete` is
  reached only with the hardware and KWin's file back, `save` only with both untouched;
- `Recoverable` and `SessionMatchesJournal` themselves. `NothingLeftBehind`
  follows: an altered idle daemon has a cached session.

`ConnectSettles` needs what the cache says tied to the positions (`PhaseInv`):
`Connecting` is said only while some thread is inside a connect, and the records that the
last steps publish carry the phase they should. It assumes nothing about faults, so the
weaker `ControlInv` (the mutex and the life of the process), which holds without a
condition, stands in for `IndInv`. `ImplementsPromise` adds `LifeInv`: what an operation
finds in cache and journal at each step, in particular that the journal exists
throughout, that `probe` works from the journal, and that a session being ended has no
Connected journal left, so that a restore never adopts it. One lemma for each group
of actions then maps each step to a step of `DisplayLifecycle` or to none.

The proof has a lemma for types, control and data for each group of actions,
with one step per action. `ImplementsStrategy` needs no invariant: each step of
the daemon is a call, the end of the process, an environment step or a step of
`KWinStrategy`, or leaves the strategy's variables alone. Through it everything
proved of the strategy is proved of the daemon with its watchers, suspends and
shutdown.

The journal's theorems hold for any set of records (`ContentsAssumption`: absent,
torn and failed are told apart from them). What is added to the properties to make
them inductive is where `save` stands: `tmp` is the record to be saved from the
write to the rename, and on disk from its sync on, so that the rename brings
in nothing torn.

`HoldTime` holds for any clients and any positive frame size and timeout
(`IpcAssumption`). `held <= MAX_FRAME_SIZE * Timeout` is not inductive; `PaceInv`
is: each byte read so far was waited for at most one timeout, and the present
one for `quiet` ticks so far. `SocketIsReplaced` needs that nothing stands at
the path when `bind` is called. `ExitCodes` needs to know whose answer is being
written: `QueueInv` (the server serves, and has waiting, each client once, and each
is still connected or has left by itself), `BusyInv` (the answer in hand is that of
the client served) and `OutcomeInv` (a request that was carried out is known as
such, or its client has left or was cut off).

`FramesAgree` adds `FrameInv`: whichever of its writes `svd` has come to and whatever part
of them the server has read, both together stay below the limit, and the newline is on
the wire if and only if `svd` is done, so that the server does not wait for a whole frame. It
promises nothing to an `svd` that is stopped before that: the read timeout ends its
connection.

The daemon's properties need to know which thread may be inside which operation
(`DaemonInv`: the server's thread is inside the operation of the request in hand,
only a request's connect has a generation to give, and there is one left for it),
and what that operation does. The latter is the strategy's, and is proved once, in
`SessionProofs`: with no fault that matters no operation has an error in hand
(`NoErrorInv`), a disconnect that finds a session ends with clean hardware, and while the
journal works, cache and journal agree between operations (`SyncInv`). `ExitInv` then
says that once the server has stopped and its last disconnect is over nothing can
change the hardware again, and `RestInv` that a sleep that met no connect has no
session to meet, which only a new connect can change.

`DrivenInv` follows the claim that a connector is driven through its copies: what
`status()` reads, the record the running thread works from and the journal may say
`Connected` only of a connector that is forced on with its EDID, and each
step that takes the hardware down does so when no copy says it any more, or when
the thread that holds the mutex is about to take it back.

The parsers of `KScreen` read line by line, so what they make of a listing of any length
needs induction over its lines, which the library offers only for operators. Here it
is done by the first line that breaks the claim: a nonempty set of naturals has a least
member (`HasLeast`, from the well-foundedness of `<`), and the same argument shows that
the recursive functions are what their definitions say. `MatchLineSays` is the claim
for `active_mode_matches`: what has been read is true of the slot, and is kept only
inside the slot's own block. For `parse_outputs`, `ParsedSoFar` holds between two blocks:
the entries are the outputs listed so far whose names are accepted, each with what is
true of it. `ParseSays` is the claim inside a block, where the last entry is not finished
and a rejected name has no entry; that it has none is what keeps its lines out
of the entry before it. `ListingParsed` and `EveryoneListed` (a listing without
duplicates, as long as there are outputs, has them all) give what the snapshot and the
placement are made from. `ScreenInv` (only the connector in use is forced on, it has no
monitor, and the layout has its type) and `SnapInv` (the snapshot is the layout
the user had) are the inductive invariant; `RestoresAll` shows that the arguments
made from the snapshot bring it back from whatever KWin made of it in between.

Only model-checked: all liveness (`RequestAnswered`, `WatchedSessionEnds`,
`InhibitorReleased`, `LockReleased`, `DisconnectSettles`, `EveryoneServed`,
`ShutdownStops`), which is out of the prover's reach, and `PermittedModeVerifies`, which is
about finitely many modes, each taken through 128 bytes of arithmetic that TLC
evaluates and the provers do not.

## 5. Findings

Each is one violation run, with the counterexample TLC prints.

- `kwin_dark`: the readme (l. 87) has the physical outputs restored before the
  virtual connector is disabled. When `kscreen-doctor` fails, `cleanup_state` goes on
  and disables it all the same (`kwin/mod.rs:105-111`): no output shows a picture.
  The session stays on record.
- `kwin_orphan`: a startup restore whose cleanup is incomplete and whose journal
  update fails returns an error that `main` only logs. The cache is empty, so
  the next `connect` is accepted, takes the broken layout as the one to come
  back to and replaces the only record of the real one.
- `daemon_sleep`: a suspend announced while `connect` is under way is let through
  at once, because the phase is not `Connected` yet; the machine sleeps with the
  display up.
- `daemon_foreign`: a watcher compares its generation before it waits for the
  mutex and not after, and may end a session that is not its own.
- `daemon_unwatched`: a Sunshine that exits while its `connect` runs is not found
  any more and its session is never ended; `svd restore` on an active session
  retires the watcher and keeps the session.

Smaller remarks, met while modelling, without a run of their own:

- the removal of the journal is not synced (`kwin/state.rs:100`): after a loss of power
  the record of a session that was ended may come back, and the next start restores
  its layout over whatever the user has chosen since;
- a configuration that does not load makes `main` exit before its startup restore
  (`main.rs:97-103`), so a crashed session is not recovered then, whatever readme
  l. 89 says of automatic recovery;
- of two daemons started by hand the second restores the display under the first one
  and takes its socket for a stale one (`ipc/server.rs:163`);
- an error response whose text makes it longer than a frame is not sent: `svd` sees
  the connection close and reports a transport failure;
- `crates/svd-cli/src/main.rs:5-8` names `validate_request`, the mode table included, as
  the gate; the code calls `validate_request_format`, so a dry run says OK to a mode that
  the daemon would refuse;
- the cards are sorted as strings (`kwin/sysfs.rs:58`): `card10` comes before `card2`;
- the comment at `kwin/edid.rs:24` has 0x5994 for the manufacturer's id, the code
  computes 0x5A54; the one at `kwin/edid.rs:62` says continuous frequency, and bit 0 of
  the byte it writes, 0x1E, is not set;
- the polling loop (`kwin/mod.rs:282`) tests that the listing *contains* the
  connector's name; `eDP-1` contains `DP-1`. `kwin_safety` runs with such a name;
- the comment in `kwin/edid.rs:35` calls the serial number unique per resolution
  and refresh rate; it holds the rate's low four bits, so 60 and 76 Hz share one;
- the range limits descriptor ends at 160 kHz (`kwin/edid.rs:98`); the built-in
  mode 2560x1440@120 has a line rate of 177 kHz, 1280x720@30 one of 22 kHz, below
  the declared 30;
- root's own desktop is left out of `Users`: a session recorded with uid 0 would be
  restored on whichever single desktop is found, because discovery for uid 0
  looks at all users (`kwin/env.rs:26`);
- nothing writes anything but "on" and "off" to a connector's status
  (`kwin/sysfs.rs:139`): the connector of an ended session stays forced off;
- the card with the most monitors is taken whether or not it has an empty
  connector (`kwin/mod.rs:194`); another card that has one is not tried;
- while the cache is empty a user who is not root is refused `svd restore`, also
  when `state.json` names that user (`kwin/mod.rs:448`);
- `extra_allowed_modes` up to 16384 pixels are accepted (`config.rs`), the
  descriptor holds sizes up to 4095 and clocks up to 655.35 MHz: every connect with
  a larger mode fails at its verification (`VerifiedIsDriven`,
  `PermittedModeVerifies`).

## 6. Abstractions, and what is not modelled

- `KWinStrategy` has one journal access per action; `JournalFile` has the system calls.
- The operations on the socket's file do not fail by themselves, only by what is at
  the path; there is one process at a time.
- A response fits the socket's buffer, so a write does not wait.
- KWin writes a whole configuration file whenever it saves; what the file says of
  other outputs is one bit, whole or torn.
- A failing configuration load changes nothing and ends the process at once.
- Outputs have a horizontal position and a width; the virtual display is always at
  the top, right of all others.
- A crash comes between two actions, not inside one; the partial effects of a
  failing call are in the call's own action.
- A sleep thread that cannot be spawned, or signals that cannot be registered, end
  the process at startup: this is `Crash`.
- In `KWinStrategy`, modes, positions, users and the choice of the connector
  (`KScreen` has them): it takes any slot that is not forced on.
- Not modelled: scale and the other settings of an output; parsing of JSON, of the
  configuration file and of escape sequences; the shape of valid names
  (`validate_device`, `ConnectorId`); the checks of runtime directories and sockets.
  Each is a check with a table of unit tests beside it, and none keeps state. How the
  subprocess is run is reduced to its outcomes.
- Monitors are not plugged in or out, and root has no desktop (`KScreen`).
- `status` and `dry_run` requests to the daemon: `status` is the operator `Phase`, which
  other threads read at every step; a dry run changes nothing.

## 7. Plan

Done: the strategy with the loss of power and KWin's configuration file, the daemon,
the journal's file, the IPC server with its socket, its restarts and `svd`, the
listing, the whole EDID and the choice of desktop and connector, their runs; type
correctness and the recovery invariants proved, the daemon shown to implement the
strategy, the strategy to implement the abstract lifecycle and to leave no connect half done,
the file to implement the atomic journal and the strategy to use it as one,
the time a client can hold the server bounded, the socket taken over by a restart,
the exit code of `svd` and the phase that `status()` reports true, the daemon's exit and
its suspends clean, the parsers right for listings of any length and the layout,
the placement and the connectors with them.

Next, to model: monitors that are plugged in and out while no session is up; the
device names and the configuration's other limits, should they ever depend on state.

Next, to prove: `CoveredSleep` when the journal may not be removed; that a block of `generate` reads back as the mode it was made for,
for every mode within the descriptor's limits (`PermittedModeVerifies`), from lemmas on the
packed fields; that the checksum makes every block valid.

## 8. Running it

    tlc -workers 2 -config kwin_safety.cfg MCKWinStrategy.tla
    tlapm KWinStrategyProofs.tla

`PROJECT.json` names the module of each configuration, the property each run
expects to hold or to fail, the mutation that breaks each property, and the source
lines of every definition.
