------------------------------- MODULE Daemon -------------------------------
(***************************************************************************)
(* svd-daemon as a whole: the server thread that answers one IPC request   *)
(* at a time (main.rs, handler.rs), the Sunshine watchers (watcher.rs) and *)
(* the sleep handler (sleep.rs), all calling one KWinStrategy, with        *)
(* Sunshine, its `svd` client and logind as the environment.               *)
(*                                                                         *)
(* A definition marked "Mutation" is a bug put in place of the definition  *)
(* that follows it, to show that a property can fail.                      *)
(***************************************************************************)
EXTENDS KWinStrategy, Naturals, Sequences

CONSTANTS
    Sleeper,       \* the sleep handler's thread; Main is the server's
    DaemonFaults,  \* which calls of the daemon's own code may fail
    MaxGen,        \* bound: bumps of watcher_generation in one run
    MaxSunshine,   \* bound: Sunshine processes, one after the other
    MaxSignals     \* bound: logind signals

\* A watcher thread goes by its token, the generation it was spawned for.
Watchers == 1..MaxGen

DaemonFaultKinds ==
    {"spawn",    \* thread creation, for a watcher
     "pidfd",    \* pidfd_open and poll
     "client",   \* svd is gone before the watcher reads /proc
     "accept",   \* accept(2)
     "dbus",     \* the system bus
     "inhibit",  \* the Inhibit call
     "crash",    \* the process is killed, or panics, at any step
     "delay"}    \* logind's delay runs out before the inhibitor is released

ASSUME DaemonAssumption ==
    /\ Threads = {Main, Sleeper} \cup Watchers
    /\ Main # Sleeper /\ Main \notin Watchers /\ Sleeper \notin Watchers
    /\ DaemonFaults \subseteq DaemonFaultKinds
    /\ MaxGen \in Nat /\ MaxSunshine \in Nat /\ MaxSignals \in Nat

VARIABLES
    server,      \* what the main thread is doing
    peer,        \* Sunshine process behind the connect in hand, 0 for a shell
    shutdown,    \* the flag set by SIGTERM and SIGINT
    gen,         \* RealHandler.watcher_generation
    watch,       \* per watcher: its state, and the Sunshine process it is for
    sleeper,     \* what the sleep handler is doing
    inhibitor,   \* a logind delay lock is held
    inbox,       \* sleep and wake signals received and not yet handled
    halting,     \* a shutdown signal received and not yet handled
    power,       \* "awake", "preparing" to sleep or "asleep"
    signals,     \* logind signals sent so far
    sunshine,    \* number of the latest Sunshine process
    running,     \* it has not exited
    launcher,    \* history: the Sunshine process behind the latest session
    covered      \* history: what the latest announced sleep met, see Coverages

handlerVars == <<server, peer, shutdown, gen, watch>>
sleepVars == <<sleeper, inhibitor, inbox, halting>>
worldVars == <<power, signals, sunshine, running>>
history == <<launcher, covered>>
daemonVars == <<vars, handlerVars, sleepVars, worldVars, history>>

\* A sleep announced while the handler listened, with its inhibitor held and
\* nothing left to handle: "rest", or "busy" if a connect was in hand or came
\* later.  "no" for every other, and for a delay that ran out.
Coverages == {"no", "rest", "busy"}

NoWatch == [state |-> "none", sunshine |-> 0]

\* Process number n has exited: its pidfd is readable.
Exited(n) == n < sunshine \/ ~running

Idle(t) == pc[t] = "idle"

DaemonInit ==
    /\ Init
    /\ server = "off" /\ peer = 0 /\ shutdown = FALSE /\ gen = 0
    /\ watch = [w \in Watchers |-> NoWatch]
    /\ sleeper = "off" /\ inhibitor = FALSE /\ inbox = <<>> /\ halting = FALSE
    /\ power = "awake" /\ signals = 0 /\ sunshine = 0 /\ running = FALSE
    /\ launcher = 0 /\ covered = "no"

-----------------------------------------------------------------------------
\* main.rs: startup, service, shutdown.

Boot ==
    /\ server \in {"off", "exited"} /\ Start /\ server' = "starting"
    /\ UNCHANGED <<peer, shutdown, gen, watch, sleepVars, worldVars, history>>

\* restore() is over, whatever it returned: sleep thread and server start.
Serve ==
    /\ server = "starting" /\ up = "up" /\ Idle(Main)
    /\ server' = "accept" /\ sleeper' = "started"
    /\ UNCHANGED <<vars, peer, shutdown, gen, watch, inhibitor, inbox, halting,
                   worldVars, history>>

\* SIGTERM or SIGINT.
Terminate ==
    /\ server \in {"accept", "connect", "disconnect", "restore"}
    /\ ~shutdown /\ shutdown' = TRUE
    /\ UNCHANGED <<vars, server, peer, gen, watch, sleepVars, worldVars, history>>

\* Mutation: only a Connected session is ended at exit.
StopServingIfConnected ==
    /\ server = "accept" /\ (shutdown \/ "accept" \in DaemonFaults)
    /\ IF ~IsConnected
       THEN server' = "exit" /\ UNCHANGED vars
       ELSE server' = "final" /\ Call(Main, "disconnect")
    /\ UNCHANGED <<peer, shutdown, gen, watch, sleepVars, worldVars, history>>
\* The accept loop ends; a session that status() reports is ended.
StopServing ==
    /\ server = "accept" /\ (shutdown \/ "accept" \in DaemonFaults)
    /\ IF Phase = "Disconnected"
       THEN server' = "exit" /\ UNCHANGED vars
       ELSE server' = "final" /\ Call(Main, "disconnect")
    /\ UNCHANGED <<peer, shutdown, gen, watch, sleepVars, worldVars, history>>

FinalDisconnected ==
    /\ server = "final" /\ Idle(Main) /\ server' = "exit"
    /\ UNCHANGED <<vars, peer, shutdown, gen, watch, sleepVars, worldVars, history>>

\* The end of the process takes every thread and its file descriptors with it.
EndOfProcess(how) ==
    /\ ProcessEnds /\ server' = how
    /\ peer' = 0 /\ shutdown' = FALSE /\ gen' = 0
    /\ watch' = [w \in Watchers |-> NoWatch]
    /\ sleeper' = "off" /\ inhibitor' = FALSE /\ inbox' = <<>> /\ halting' = FALSE
    /\ covered' = "no"
    /\ UNCHANGED <<worldVars, launcher>>

Exit == server = "exit" /\ EndOfProcess("exited")
Crash == "crash" \in DaemonFaults /\ EndOfProcess("off")

-----------------------------------------------------------------------------
\* handler.rs

\* A Sunshine process has svd ask for a display, or somebody does by hand.
RequestConnect ==
    /\ server = "accept" /\ ~shutdown /\ gen < MaxGen
    /\ Call(Main, "connect") /\ server' = "connect"
    /\ peer' \in {0} \cup (IF running THEN {sunshine} ELSE {})
    /\ covered' = IF covered = "rest" THEN "busy" ELSE covered
    /\ UNCHANGED <<shutdown, gen, watch, sleepVars, worldVars, launcher>>

\* Mutation: one connect moves the generation on twice, past its own watcher's.
ConnectAnsweredTwice ==
    /\ server = "connect" /\ Idle(Main) /\ server' = "accept"
    /\ IF res[Main] = "ok"
       THEN /\ gen' = gen + 2
            /\ watch' = [watch EXCEPT ![gen + 1] = [state |-> "spawned", sunshine |-> peer]]
       ELSE UNCHANGED <<gen, watch>>
    /\ peer' = 0
    /\ UNCHANGED <<vars, shutdown, sleepVars, worldVars, history>>
\* After a successful connect the generation moves on and a watcher for it is
\* spawned; a spawn that fails is only logged.
ConnectAnswered ==
    /\ server = "connect" /\ Idle(Main) /\ server' = "accept"
    /\ IF res[Main] = "ok"
       THEN /\ gen' = gen + 1
            /\ \/ watch' = [watch EXCEPT ![gen + 1] = [state |-> "spawned", sunshine |-> peer]]
               \/ "spawn" \in DaemonFaults /\ UNCHANGED watch
       ELSE UNCHANGED <<gen, watch>>
    /\ peer' = 0
    /\ UNCHANGED <<vars, shutdown, sleepVars, worldVars, history>>

\* disconnect or restore, asked for by root or, while a session is cached, by
\* its owner.
RequestEnd(o) ==
    /\ server = "accept" /\ ~shutdown /\ gen < MaxGen
    /\ gen' = gen + 1
    /\ Call(Main, o) /\ server' = o
    /\ UNCHANGED <<peer, shutdown, watch, sleepVars, worldVars, history>>

\* Mutation: an error is not answered.
EndAnsweredIfOk ==
    /\ server \in {"disconnect", "restore"} /\ Idle(Main) /\ res[Main] = "ok"
    /\ server' = "accept"
    /\ UNCHANGED <<vars, peer, shutdown, gen, watch, sleepVars, worldVars, history>>
EndAnswered ==
    /\ server \in {"disconnect", "restore"} /\ Idle(Main) /\ server' = "accept"
    /\ UNCHANGED <<vars, peer, shutdown, gen, watch, sleepVars, worldVars, history>>

-----------------------------------------------------------------------------
\* watcher.rs

Become(w, s) == watch' = [watch EXCEPT ![w].state = s]
Gone(w) == watch' = [watch EXCEPT ![w] = NoWatch]

\* The Sunshine ancestor is found through /proc from the svd process, while
\* both exist, and its pidfd is opened.
FindSunshine(w) ==
    /\ watch[w].state = "spawned"
    /\ \/ ~Exited(watch[w].sunshine) /\ Become(w, "armed")
       \/ Exited(watch[w].sunshine) /\ Gone(w)
       \/ DaemonFaults \cap {"client", "pidfd"} # {} /\ Gone(w)
    /\ UNCHANGED <<vars, server, peer, shutdown, gen, sleepVars, worldVars, history>>

\* Mutation: the watcher polls the pidfd once and leaves.
WatcherStopsEarly(w) ==
    /\ watch[w].state = "armed" /\ Gone(w)
    /\ UNCHANGED <<vars, server, peer, shutdown, gen, sleepVars, worldVars, history>>
\* Superseded, or the daemon is going down, or poll fails.
WatcherStops(w) ==
    /\ watch[w].state = "armed" /\ Gone(w)
    /\ shutdown \/ gen # w \/ "pidfd" \in DaemonFaults
    /\ UNCHANGED <<vars, server, peer, shutdown, gen, sleepVars, worldVars, history>>

\* The pidfd is readable: the generation is compared, without the mutex, and
\* disconnect is called.
SunshineGone(w) ==
    /\ watch[w].state = "armed" /\ Exited(watch[w].sunshine)
    /\ IF gen = w
       THEN Call(w, "disconnect") /\ Become(w, "disconnect")
       ELSE Gone(w) /\ UNCHANGED vars
    /\ UNCHANGED <<server, peer, shutdown, gen, sleepVars, worldVars, history>>

\* Whatever disconnect returned, the watcher is over.
WatcherDone(w) ==
    /\ watch[w].state = "disconnect" /\ Idle(w) /\ Gone(w)
    /\ UNCHANGED <<vars, server, peer, shutdown, gen, sleepVars, worldVars, history>>

-----------------------------------------------------------------------------
\* sleep.rs

\* logind hands out a delay lock, or the call fails and there is none.
acquire_inhibitor ==
    inhibitor' = TRUE \/ ("inhibit" \in DaemonFaults /\ inhibitor' = FALSE)

\* The inhibitor is taken before the signals are subscribed to.
TakeInhibitor ==
    /\ sleeper = "started"
    /\ \/ sleeper' = "inhibiting" /\ acquire_inhibitor
       \/ sleeper' = "dead" /\ "dbus" \in DaemonFaults /\ UNCHANGED inhibitor
    /\ UNCHANGED <<vars, handlerVars, inbox, halting, worldVars, history>>

Subscribe ==
    /\ sleeper = "inhibiting"
    /\ \/ sleeper' = "listening" /\ UNCHANGED inhibitor
       \/ sleeper' = "dead" /\ "dbus" \in DaemonFaults /\ inhibitor' = FALSE
    /\ UNCHANGED <<vars, handlerVars, inbox, halting, worldVars, history>>

\* Mutation: the inhibitor goes while disconnect runs.
EndSessionUnheld(busy, after) ==
    /\ inhibitor' = FALSE
    /\ \/ IsConnected /\ Call(Sleeper, "disconnect") /\ sleeper' = busy
       \/ ~IsConnected /\ sleeper' = after /\ UNCHANGED vars
\* A session that is Connected is ended first; otherwise, in any other phase,
\* the inhibitor goes at once.
EndSession(busy, after) ==
    \/ /\ IsConnected /\ Call(Sleeper, "disconnect")
       /\ sleeper' = busy /\ UNCHANGED inhibitor
    \/ /\ ~IsConnected /\ sleeper' = after /\ inhibitor' = FALSE
       /\ UNCHANGED vars

\* Mutation: the inhibitor goes only after a disconnect that succeeded.
SessionEndedIfOk(busy, after) ==
    /\ sleeper = busy /\ Idle(Sleeper) /\ sleeper' = after
    /\ inhibitor' = (inhibitor /\ res[Sleeper] # "ok")
    /\ UNCHANGED <<vars, handlerVars, inbox, halting, worldVars, history>>
\* Whatever disconnect returned, the inhibitor goes.
SessionEnded(busy, after) ==
    /\ sleeper = busy /\ Idle(Sleeper)
    /\ inhibitor' = FALSE /\ sleeper' = after
    /\ UNCHANGED <<vars, handlerVars, inbox, halting, worldVars, history>>

Received(event) ==
    sleeper = "listening" /\ inbox # <<>> /\ Head(inbox) = event /\ inbox' = Tail(inbox)

HandleSleep ==
    /\ Received("sleep") /\ EndSession("disconnect", "listening")
    /\ UNCHANGED <<handlerVars, halting, worldVars, history>>
SleepHandled == SessionEnded("disconnect", "listening")

\* A thread of its own feeds the shutdown signals into the channel: they may
\* overtake the sleep signals.
HandleShutdown ==
    /\ sleeper = "listening" /\ halting /\ halting' = FALSE
    /\ EndSession("last", "dead")
    /\ UNCHANGED <<handlerVars, inbox, worldVars, history>>
ShutdownHandled == SessionEnded("last", "dead")

HandleWake ==
    /\ Received("wake")
    /\ acquire_inhibitor
    /\ UNCHANGED <<vars, handlerVars, sleeper, halting, worldVars, history>>

\* A quiet second with the shutdown flag set.
SleeperStops ==
    /\ sleeper = "listening" /\ inbox = <<>> /\ ~halting /\ shutdown
    /\ sleeper' = "dead" /\ inhibitor' = FALSE
    /\ UNCHANGED <<vars, handlerVars, inbox, halting, worldVars, history>>

-----------------------------------------------------------------------------
\* The environment: logind and Sunshine.

Subscribed == sleeper \in {"listening", "disconnect", "last"}
Deliver(event) == inbox' = IF Subscribed THEN Append(inbox, event) ELSE inbox

AnnounceSleep ==
    /\ power = "awake" /\ signals < MaxSignals
    /\ power' = "preparing" /\ signals' = signals + 1 /\ Deliver("sleep")
    /\ covered' = IF sleeper # "listening" \/ inbox # <<>> \/ ~inhibitor THEN "no"
                  ELSE IF server = "connect" THEN "busy" ELSE "rest"
    /\ UNCHANGED <<vars, handlerVars, sleeper, inhibitor, halting,
                   sunshine, running, launcher>>

\* The machine sleeps once nobody delays it.
FallAsleep ==
    /\ power = "preparing" /\ (~inhibitor \/ "delay" \in DaemonFaults)
    /\ power' = "asleep" /\ covered' = IF inhibitor THEN "no" ELSE covered
    /\ UNCHANGED <<vars, handlerVars, sleepVars, signals, sunshine, running, launcher>>

WakeUp ==
    /\ power = "asleep" /\ power' = "awake" /\ Deliver("wake")
    /\ covered' = "no"
    /\ UNCHANGED <<vars, handlerVars, sleeper, inhibitor, halting,
                   signals, sunshine, running, launcher>>

\* A shutdown that is announced and may still be cancelled.
AnnounceShutdown ==
    /\ power = "awake" /\ signals < MaxSignals
    /\ signals' = signals + 1 /\ halting' = (halting \/ Subscribed)
    /\ UNCHANGED <<vars, handlerVars, sleeper, inhibitor, inbox, power,
                   sunshine, running, history>>

SunshineExits ==
    /\ running /\ running' = FALSE
    /\ UNCHANGED <<vars, handlerVars, sleepVars, power, signals, sunshine, history>>

SunshineStarts ==
    /\ ~running /\ sunshine < MaxSunshine
    /\ running' = TRUE /\ sunshine' = sunshine + 1
    /\ UNCHANGED <<vars, handlerVars, sleepVars, power, signals, history>>

-----------------------------------------------------------------------------
\* A step of the strategy in thread t.  A connect that gets past its guard
\* makes the requester's Sunshine the launcher of the session.
StrategyStep(t) ==
    /\ ThreadStep(t)
    /\ launcher' = IF pc'[t] = "save" THEN peer ELSE launcher
    /\ UNCHANGED <<handlerVars, sleepVars, worldVars, covered>>

MachineReboots ==
    /\ Reboot /\ server' = "off" /\ power' = "awake" /\ running' = FALSE
    /\ UNCHANGED <<peer, shutdown, gen, watch, sleepVars, signals, sunshine, history>>

DisplayWorld ==
    /\ \/ UserRearranges \/ KWinSaves
       \/ \E s \in Slots : KWinHotplug(s) \/ KWinUnplug(s)
    /\ UNCHANGED <<handlerVars, sleepVars, worldVars, history>>

MainStep ==
    \/ Serve \/ StopServing \/ FinalDisconnected \/ Exit
    \/ ConnectAnswered \/ EndAnswered
Request == RequestConnect \/ \E o \in {"disconnect", "restore"} : RequestEnd(o)
WatcherStep(w) == FindSunshine(w) \/ WatcherStops(w) \/ SunshineGone(w) \/ WatcherDone(w)
SleeperStep ==
    \/ TakeInhibitor \/ Subscribe \/ SleeperStops \/ HandleWake
    \/ HandleSleep \/ SleepHandled \/ HandleShutdown \/ ShutdownHandled

Outside ==
    \/ Boot \/ Crash \/ MachineReboots \/ Terminate \/ DisplayWorld
    \/ AnnounceSleep \/ FallAsleep \/ AnnounceShutdown
    \/ SunshineExits \/ SunshineStarts

\* Nothing but the wake-up happens while the machine sleeps.
Awake == power # "asleep"

DaemonNext ==
    \/ WakeUp
    \/ /\ Awake
       /\ \/ MainStep \/ Request \/ SleeperStep \/ Outside
          \/ \E w \in Watchers : WatcherStep(w)
          \/ \E t \in Threads : StrategyStep(t)

DaemonSpec == DaemonInit /\ [][DaemonNext]_daemonVars

\* Every thread of the daemon goes on while the machine is awake, a thread that
\* waits for the mutex gets it when it is free again and again, and the machine
\* wakes up.  Requests, signals, crashes and Sunshine's exits are owed by nobody.
FairDaemonSpec ==
    /\ DaemonSpec
    /\ WF_daemonVars(WakeUp)
    /\ WF_daemonVars(Awake /\ MainStep) /\ WF_daemonVars(Awake /\ SleeperStep)
    /\ \A w \in Watchers : WF_daemonVars(Awake /\ WatcherStep(w))
    /\ \A t \in Threads : SF_daemonVars(Awake /\ StrategyStep(t))

-----------------------------------------------------------------------------
\* Type correctness of the daemon's own variables.
DaemonTypeOK ==
    /\ server \in {"off", "starting", "accept", "connect", "disconnect", "restore",
                   "final", "exit", "exited"}
    /\ peer \in 0..MaxSunshine /\ launcher \in 0..MaxSunshine
    /\ shutdown \in BOOLEAN /\ gen \in 0..MaxGen
    /\ watch \in [Watchers -> [state : {"none", "spawned", "armed", "disconnect"},
                               sunshine : 0..MaxSunshine]]
    /\ sleeper \in {"off", "started", "inhibiting", "listening", "disconnect", "last", "dead"}
    /\ inhibitor \in BOOLEAN /\ covered \in Coverages /\ running \in BOOLEAN
    /\ inbox \in Seq({"sleep", "wake"}) /\ halting \in BOOLEAN
    /\ power \in {"awake", "preparing", "asleep"}
    /\ signals \in 0..MaxSignals /\ sunshine \in 0..MaxSunshine

\* A daemon that stops by itself, on a signal or because accept fails, leaves
\* the hardware as the user had it, whichever thread was tearing the session
\* down at that moment.
CleanExit == server = "exited" => ~Altered

\* A sleep announced to a handler that listens and holds its inhibitor finds
\* the session ended, unless a connect is in hand or comes in between: the
\* inhibitor is held until the disconnect is over.
CoveredSleep == power = "asleep" /\ covered = "rest" => ~IsConnected

\* Every request gets its answer, however many threads want the strategy.
RequestAnswered ==
    server \in {"connect", "disconnect", "restore"} ~> server \in {"accept", "off"}

\* The daemon does not hold up a sleep it was told of.
InhibitorReleased ==
    power = "preparing" /\ inbox # <<>> ~> power # "preparing" \/ ~inhibitor

\* Once a watcher stands by, the exit of its Sunshine ends the session, unless
\* another request takes the session over (a new generation).
WatchedSessionEnds ==
    \A w \in Watchers :
        watch[w].state = "armed" /\ gen = w /\ Exited(watch[w].sunshine) /\ IsConnected
          ~> ~IsConnected \/ gen # w

\* While the handler holds its inhibitor, the machine waits for the virtual
\* display to disconnect before it sleeps (sleep.rs:3).
NoSleepWhileConnected == power = "asleep" /\ covered # "no" => ~IsConnected

\* A watcher ends a session only when the Sunshine that session was made for
\* has exited (handler.rs:146).
NoForeignTeardown ==
    [][\A w \in Watchers :
        pc[w] = "waiting" /\ pc'[w] = "d_save" => launcher # 0 /\ Exited(launcher)]_daemonVars

\* The exit of the Sunshine a session was made for ends it (readme.md:89).
SunshineExitDisconnects ==
    IsConnected /\ launcher # 0 /\ Exited(launcher) ~> ~IsConnected
=============================================================================
