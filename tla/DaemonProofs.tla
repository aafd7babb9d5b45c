---------------------------- MODULE DaemonProofs ----------------------------
(***************************************************************************)
(* The daemon as a whole uses the strategy only as KWinStrategy allows, so *)
(* what is proved of the strategy, for any threads, holds of the daemon.   *)
(***************************************************************************)
EXTENDS Daemon, DrivenProofs

USE DEF locals, control, stored, memory, sysfs, kwin, vars,
        handlerVars, sleepVars, worldVars, history, daemonVars

\* The server's, the watchers' and the sleep handler's own code either calls
\* the strategy or leaves its state alone.
LEMMA DaemonStepCalls ==
    ASSUME \/ MainStep \/ Request \/ SleeperStep \/ \E w \in Watchers : WatcherStep(w)
    PROVE  \/ \E t \in Threads, o \in {"connect", "disconnect", "restore"} : Call(t, o)
           \/ ProcessEnds
           \/ UNCHANGED vars
<1> USE DaemonAssumption
<1>1. CASE MainStep
  BY <1>1 DEF MainStep, Serve, StopServing, FinalDisconnected, Exit, EndOfProcess,
              ConnectAnswered, EndAnswered
<1>2. CASE Request
  BY <1>2 DEF Request, RequestConnect, RequestEnd
<1>3. CASE SleeperStep
  BY <1>3 DEF SleeperStep, TakeInhibitor, Subscribe, SleeperStops, HandleWake, HandleSleep,
              SleepHandled, HandleShutdown, ShutdownHandled, EndSession, SessionEnded
<1>4. CASE \E w \in Watchers : WatcherStep(w)
  BY <1>4 DEF WatcherStep, FindSunshine, WatcherStops, SunshineGone, WatcherDone
<1>5. QED
  BY <1>1, <1>2, <1>3, <1>4

\* What happens outside moves the strategy only as its environment does.
LEMMA OutsideMoves ==
    ASSUME Outside \/ WakeUp
    PROVE  Environment \/ UNCHANGED vars
<1>1. CASE Boot \/ Crash \/ MachineReboots \/ DisplayWorld
  BY <1>1 DEF Boot, Crash, EndOfProcess, MachineReboots, DisplayWorld, Environment
<1>2. CASE \/ Terminate \/ AnnounceSleep \/ FallAsleep \/ AnnounceShutdown
           \/ SunshineExits \/ SunshineStarts \/ WakeUp
  BY <1>2 DEF Terminate, AnnounceSleep, FallAsleep, AnnounceShutdown, SunshineExits,
              SunshineStarts, WakeUp
<1>3. QED
  BY <1>1, <1>2 DEF Outside

\* The daemon, however its threads interleave and whatever stops it, is an
\* execution of the strategy: handler.rs, watcher.rs, sleep.rs and main.rs touch
\* the display through connect, disconnect, restore and status alone.
THEOREM ImplementsStrategy == DaemonSpec => Spec
<1>1. DaemonInit => Init
  BY DEF DaemonInit
<1>2. [DaemonNext]_daemonVars => [Next]_vars
  <2> SUFFICES ASSUME [DaemonNext]_daemonVars PROVE [Next]_vars
    OBVIOUS
  <2>1. CASE UNCHANGED daemonVars
    BY <2>1
  <2>2. CASE MainStep \/ Request \/ SleeperStep \/ \E w \in Watchers : WatcherStep(w)
    BY <2>2, DaemonStepCalls DEF Next, Ops, Environment
  <2>3. CASE Outside \/ WakeUp
    BY <2>3, OutsideMoves DEF Next
  <2>4. CASE \E t \in Threads : StrategyStep(t)
    BY <2>4 DEF StrategyStep, Next
  <2>5. QED
    BY <2>1, <2>2, <2>3, <2>4 DEF DaemonNext
<1>3. QED
  BY <1>1, <1>2, PTL DEF DaemonSpec, Spec

\* What the strategy guarantees, the daemon guarantees: with a journal that
\* can be read and rewritten at startup, no interleaving of requests, watchers,
\* suspends, signals and crashes leaves hardware that cannot be put back.
THEOREM DaemonRecovers ==
    ASSUME Faults \cap {"load", "recovery_save"} = {}
    PROVE  DaemonSpec => []Recoverable
<1>1. Spec => []Recoverable
  BY JournalRecovers
<1>2. QED
  BY <1>1, ImplementsStrategy, PTL

\* What svd status reports is true of the daemon whichever of its threads is at
\* work: Connected means a connector that is forced on with its EDID.
THEOREM DaemonStatusIsTrue ==
    ASSUME Faults \cap {"compositor", "kscreen", "save"} = {}
    PROVE  DaemonSpec => []ConnectedIsDriven
<1>1. Spec => []ConnectedIsDriven
  BY StatusIsTrue
<1>2. QED
  BY <1>1, ImplementsStrategy, PTL

-----------------------------------------------------------------------------
\* Which thread may be inside which operation.

\* The server's thread is inside the operation of the request in hand, and only
\* a connect in hand is inside a connect; there is a generation left for it.
ServerInv ==
    /\ up # "up" => server \in {"off", "starting", "exited"}
    /\ server \in {"off", "starting", "exited"} => sleeper = "off"
    /\ server = "connect" => gen < MaxGen
    /\ server \in {"accept", "exit", "exited"} => Idle(Main)
    /\ server = "final" => op[Main] \in {"disconnect", "none"}
    /\ op[Main] = "connect" => server = "connect"
    /\ \A t \in Threads \ {Main} : op[t] \in {"disconnect", "none"}

DaemonInv == DaemonTypeOK /\ ServerInv

StrategyInv == TypeInv /\ ControlInv

\* Values that a process starts with.
LEMMA Fresh ==
    /\ [w \in Watchers |-> NoWatch] \in [Watchers -> [state : {"none", "spawned", "armed", "disconnect"},
                                                      sunshine : 0..MaxSunshine]]
    /\ <<>> \in Seq({"sleep", "wake"}) /\ 0 \in 0..MaxSunshine /\ 0 \in 0..MaxGen /\ 0 \in 0..MaxSignals
BY DaemonAssumption DEF NoWatch

LEMMA InitDaemon == DaemonInit => DaemonInv
BY Fresh, ThreadsAssumption
   DEF DaemonInit, Init, DaemonInv, DaemonTypeOK, ServerInv, Coverages, Idle

\* The end of the process leaves nothing of the daemon.
LEMMA EndDaemon ==
    ASSUME DaemonInv, NEW how \in {"off", "exited"}, EndOfProcess(how)
    PROVE  DaemonInv'
<1>1. DaemonTypeOK'
  BY Fresh DEF EndOfProcess, DaemonInv, DaemonTypeOK, Coverages
<1>2. ServerInv'
  BY ThreadsAssumption DEF EndOfProcess, ProcessEnds, ServerInv, Idle
<1>3. QED
  BY <1>1, <1>2 DEF DaemonInv

LEMMA MainStepDaemon ==
    ASSUME StrategyInv, DaemonInv, MainStep
    PROVE  DaemonInv'
<1> USE DaemonAssumption, ThreadsAssumption
    DEF StrategyInv, TypeInv, TypeOK, DaemonInv, DaemonTypeOK, ServerInv, Idle
<1>1. CASE Serve
  BY <1>1 DEF Serve
<1>2. CASE StopServing
  BY <1>2 DEF StopServing, Call, Goto
<1>3. CASE FinalDisconnected
  BY <1>3 DEF FinalDisconnected
<1>4. CASE Exit
  BY <1>4, EndDaemon DEF Exit
<1>5. CASE ConnectAnswered
  <2>1. op[Main] = "none" /\ gen < MaxGen
    BY <1>5 DEF ConnectAnswered, ControlInv, LockInv
  <2>2. gen + 1 \in Watchers /\ gen + 1 \in 0..MaxGen
    BY <2>1 DEF Watchers
  <2>3. /\ gen' \in {gen, gen + 1}
        /\ watch' \in {watch, [watch EXCEPT ![gen + 1] = [state |-> "spawned", sunshine |-> peer]]}
    BY <1>5 DEF ConnectAnswered
  <2>4. watch' \in [Watchers -> [state : {"none", "spawned", "armed", "disconnect"},
                                 sunshine : 0..MaxSunshine]]
    BY <2>2, <2>3
  <2>5. server' = "accept" /\ peer' = 0 /\ gen' \in 0..MaxGen
        /\ UNCHANGED <<vars, shutdown, sleepVars, worldVars, history>>
    BY <1>5, <2>2, <2>3 DEF ConnectAnswered
  <2>6. QED
    BY <1>5, <2>1, <2>4, <2>5 DEF ConnectAnswered
<1>6. CASE EndAnswered
  BY <1>6 DEF EndAnswered, ControlInv, LockInv
<1>7. QED
  BY <1>1, <1>2, <1>3, <1>4, <1>5, <1>6 DEF MainStep

LEMMA RequestDaemon ==
    ASSUME StrategyInv, DaemonInv, Request
    PROVE  DaemonInv'
<1> USE DaemonAssumption, ThreadsAssumption
    DEF StrategyInv, TypeInv, TypeOK, DaemonInv, DaemonTypeOK, ServerInv, Idle, Call, Goto
<1>1. CASE RequestConnect
  BY <1>1 DEF RequestConnect, Coverages
<1>2. ASSUME NEW o \in {"disconnect", "restore"}, RequestEnd(o)
      PROVE  DaemonInv'
  BY <1>2 DEF RequestEnd
<1>3. QED
  BY <1>1, <1>2 DEF Request

LEMMA WatcherStepDaemon ==
    ASSUME StrategyInv, DaemonInv, NEW w \in Watchers, WatcherStep(w)
    PROVE  DaemonInv'
<1> USE DaemonAssumption, ThreadsAssumption
    DEF StrategyInv, TypeInv, TypeOK, DaemonInv, DaemonTypeOK, ServerInv, Idle
<1>1. ASSUME UNCHANGED <<vars, server, peer, shutdown, gen, sleepVars, worldVars, history>>,
             \/ Gone(w) \/ Become(w, "armed")
      PROVE  DaemonInv'
  <2>1. watch' \in [Watchers -> [state : {"none", "spawned", "armed", "disconnect"},
                                 sunshine : 0..MaxSunshine]]
    <3>1. NoWatch \in [state : {"none", "spawned", "armed", "disconnect"}, sunshine : 0..MaxSunshine]
      BY DEF NoWatch
    <3>2. CASE Gone(w)
      BY <3>1, <3>2 DEF Gone
    <3>3. CASE Become(w, "armed")
      BY <3>3 DEF Become
    <3>4. QED
      BY <1>1, <3>2, <3>3
  <2>2. QED
    BY <1>1, <2>1
<1>2. CASE FindSunshine(w) \/ WatcherStops(w) \/ WatcherDone(w)
  BY <1>1, <1>2 DEF FindSunshine, WatcherStops, WatcherDone
<1>3. CASE SunshineGone(w)
  <2>1. CASE Call(w, "disconnect") /\ Become(w, "disconnect")
    <3>1. watch' \in [Watchers -> [state : {"none", "spawned", "armed", "disconnect"},
                                   sunshine : 0..MaxSunshine]]
      BY <2>1 DEF Become
    <3>2. w \in Threads \ {Main} /\ op' = [op EXCEPT ![w] = "disconnect"]
          /\ pc' = [pc EXCEPT ![w] = "waiting"] /\ up' = up
      BY <2>1 DEF Call, Goto
    <3>3. UNCHANGED <<server, peer, shutdown, gen, sleepVars, worldVars, history>>
      BY <1>3 DEF SunshineGone
    <3>4. QED
      BY <3>1, <3>2, <3>3
  <2>2. QED
    BY <1>1, <1>3, <2>1 DEF SunshineGone
<1>4. QED
  BY <1>2, <1>3 DEF WatcherStep

LEMMA TailOfSignals ==
    ASSUME NEW queue \in Seq({"sleep", "wake"}), queue # <<>>
    PROVE  Tail(queue) \in Seq({"sleep", "wake"})
OBVIOUS

LEMMA SleeperStepDaemon ==
    ASSUME StrategyInv, DaemonInv, SleeperStep
    PROVE  DaemonInv'
<1> USE DaemonAssumption, ThreadsAssumption
    DEF StrategyInv, TypeInv, TypeOK, DaemonInv, DaemonTypeOK, ServerInv, Idle
<1>1. CASE TakeInhibitor \/ Subscribe \/ SleeperStops
  <2>1. /\ sleeper \in {"started", "inhibiting", "listening"}
        /\ sleeper' \in {"inhibiting", "listening", "dead"} /\ inhibitor' \in BOOLEAN
        /\ UNCHANGED <<vars, handlerVars, inbox, halting, worldVars, history>>
    BY <1>1 DEF TakeInhibitor, Subscribe, SleeperStops, acquire_inhibitor
  <2>2. QED
    BY <2>1
<1>2. ASSUME NEW busy \in {"disconnect", "last"}, NEW after \in {"listening", "dead"},
             EndSession(busy, after), inbox' \in Seq({"sleep", "wake"}), halting' \in BOOLEAN,
             sleeper = "listening",
             UNCHANGED <<handlerVars, worldVars, history>>
      PROVE  DaemonInv'
  <2>1. CASE Call(Sleeper, "disconnect") /\ sleeper' = busy /\ UNCHANGED inhibitor
    BY <1>2, <2>1 DEF Call, Goto
  <2>2. CASE sleeper' = after /\ inhibitor' = FALSE /\ UNCHANGED vars
    BY <1>2, <2>2
  <2>3. QED
    BY <1>2, <2>1, <2>2 DEF EndSession
<1>3. CASE HandleSleep \/ HandleWake
  <2>1. inbox # <<>> /\ inbox' = Tail(inbox) /\ sleeper = "listening"
    BY <1>3 DEF HandleSleep, HandleWake, Received
  <2>2. inbox \in Seq({"sleep", "wake"})
    OBVIOUS
  <2>3. inbox' \in Seq({"sleep", "wake"})
    BY <2>1, <2>2, TailOfSignals, Zenon
  <2>4. CASE HandleSleep
    BY <1>2, <2>1, <2>3, <2>4 DEF HandleSleep
  <2>5. CASE HandleWake
    <3>1. inhibitor' \in BOOLEAN
      BY <2>5 DEF HandleWake, acquire_inhibitor
    <3>2. UNCHANGED <<vars, handlerVars, sleeper, halting, worldVars, history>>
      BY <2>5 DEF HandleWake
    <3>3. QED
      BY <2>3, <3>1, <3>2
  <2>6. QED
    BY <1>3, <2>4, <2>5
<1>4. CASE HandleShutdown
  BY <1>2, <1>4 DEF HandleShutdown
<1>5. CASE SleepHandled \/ ShutdownHandled
  <2>1. inhibitor' = FALSE /\ sleeper' \in {"listening", "dead"}
    BY <1>5 DEF SleepHandled, ShutdownHandled, SessionEnded
  <2>2. sleeper \in {"disconnect", "last"}
    BY <1>5 DEF SleepHandled, ShutdownHandled, SessionEnded
  <2>3. UNCHANGED <<vars, handlerVars, inbox, halting, worldVars, history>>
    BY <1>5 DEF SleepHandled, ShutdownHandled, SessionEnded
  <2>4. DaemonTypeOK'
    BY <2>1, <2>3
  <2>5. ServerInv'
    BY <2>1, <2>2, <2>3
  <2>6. QED
    BY <2>4, <2>5
<1>6. QED
  BY <1>1, <1>3, <1>4, <1>5 DEF SleeperStep

LEMMA OutsideDaemon ==
    ASSUME StrategyInv, DaemonInv, Outside \/ WakeUp
    PROVE  DaemonInv'
<1> USE DaemonAssumption, ThreadsAssumption
    DEF StrategyInv, TypeInv, TypeOK, DaemonInv, DaemonTypeOK, ServerInv, Idle
<1>1. CASE Boot
  BY <1>1 DEF Boot, Start
<1>2. CASE Crash
  BY <1>2, EndDaemon DEF Crash
<1>3. CASE MachineReboots
  BY <1>3 DEF MachineReboots, Reboot
<1>4. CASE Terminate \/ FallAsleep \/ AnnounceShutdown \/ SunshineExits \/ SunshineStarts
  <2>1. CASE Terminate
    BY <2>1 DEF Terminate
  <2>2. CASE FallAsleep
    BY <2>2 DEF FallAsleep, Coverages
  <2>3. CASE AnnounceShutdown
    BY <2>3 DEF AnnounceShutdown
  <2>4. CASE SunshineExits \/ SunshineStarts
    <3>1. sunshine' = sunshine \/ (sunshine < MaxSunshine /\ sunshine' = sunshine + 1)
      BY <2>4 DEF SunshineExits, SunshineStarts
    <3>2. sunshine' \in 0..MaxSunshine
      BY <3>1
    <3>3. running' \in BOOLEAN
      BY <2>4 DEF SunshineExits, SunshineStarts
    <3>4. UNCHANGED <<vars, handlerVars, sleepVars, power, signals, history>>
      BY <2>4 DEF SunshineExits, SunshineStarts
    <3>5. QED
      BY <3>2, <3>3, <3>4
  <2>5. QED
    BY <1>4, <2>1, <2>2, <2>3, <2>4
<1>5. CASE DisplayWorld
  <2>1. UNCHANGED <<up, pc, op>> /\ UNCHANGED <<handlerVars, sleepVars, worldVars, history>>
    BY <1>5 DEF DisplayWorld, UserRearranges, KWinSaves, KWinHotplug, KWinUnplug
  <2>2. QED
    BY <2>1
<1>6. CASE AnnounceSleep \/ WakeUp
  <2>1. inbox' \in Seq({"sleep", "wake"})
    <3>1. \A event \in {"sleep", "wake"} : Append(inbox, event) \in Seq({"sleep", "wake"})
      OBVIOUS
    <3>2. QED
      BY <1>6, <3>1 DEF AnnounceSleep, WakeUp, Deliver
  <2>2. QED
    BY <1>6, <2>1 DEF AnnounceSleep, WakeUp, Coverages
<1>7. QED
  BY <1>1, <1>2, <1>3, <1>4, <1>5, <1>6 DEF Outside

LEMMA StrategyStepDaemon ==
    ASSUME StrategyInv, ControlInv', DaemonInv, NEW t \in Threads, StrategyStep(t)
    PROVE  DaemonInv'
<1>1. /\ pc[t] # "idle" /\ up' \in {up, "up"} /\ up # "down" /\ op'[t] \in {op[t], "none"}
      /\ \A u \in Threads \ {t} : pc'[u] = pc[u] /\ op'[u] = op[u]
  BY OneThreadMoves DEF StrategyStep, StrategyInv
<1>2. launcher' \in {peer, launcher} /\ UNCHANGED <<handlerVars, sleepVars, worldVars, covered>>
  BY DEF StrategyStep
<1>3. DaemonTypeOK'
  BY <1>2 DEF DaemonInv, DaemonTypeOK
<1>4. server \in {"accept", "exit", "exited"} => t # Main
  BY <1>1 DEF DaemonInv, ServerInv, Idle
<1>5. QED
  BY <1>1, <1>2, <1>3, <1>4, ThreadsAssumption DEF DaemonInv, ServerInv, Idle

LEMMA DaemonStep ==
    ASSUME StrategyInv, ControlInv', DaemonInv, [DaemonNext]_daemonVars
    PROVE  DaemonInv'
<1>1. CASE UNCHANGED daemonVars
  BY <1>1 DEF DaemonInv, DaemonTypeOK, ServerInv, Idle
<1>2. QED
  BY <1>1, MainStepDaemon, RequestDaemon, WatcherStepDaemon, SleeperStepDaemon, OutsideDaemon,
     StrategyStepDaemon DEF DaemonNext

LEMMA DaemonInductive == DaemonSpec => [](StrategyInv /\ DaemonInv)
<1>1. Spec => []TypeInv
  BY InitType, TypeStep, PTL DEF Spec
<1>2. StrategyInv <=> TypeInv /\ ControlInv
  BY DEF StrategyInv
<1>3. QED
  BY <1>1, <1>2, ControlInductive, ImplementsStrategy, InitDaemon, DaemonStep, PTL DEF DaemonSpec

\* Every variable of the daemon keeps its type; in particular the generation
\* that a successful connect moves on to is that of a watcher.
THEOREM DaemonTypes == DaemonSpec => []DaemonTypeOK
<1>1. DaemonInv => DaemonTypeOK
  BY DEF DaemonInv
<1>2. QED
  BY <1>1, DaemonInductive, PTL

-----------------------------------------------------------------------------
\* The exit.

\* From the moment the final disconnect is over, or is found not to be needed,
\* the hardware is as the user had it, and nobody will change it again.
ExitInv ==
    server \in {"exit", "exited"} \/ (server = "final" /\ Idle(Main)) => ~Altered

\* Without a session in memory nothing is altered while no request is in hand,
\* whatever a watcher or the sleep handler is doing.
LEMMA NoSessionIsClean ==
    ASSUME IndInv, DaemonInv, server = "accept", cache = NoState
    PROVE  ~Altered
<1>1. up = "up" /\ Idle(Main)
  BY DEF DaemonInv, ServerInv
<1>2. CASE lock = NoThread
  BY <1>1, <1>2 DEF IndInv, DataInv, SessionMatchesJournal, SameTarget
<1>3. CASE lock \in Threads
  <2>1. pc[lock] \in Inside /\ op[lock] \in Ops
    BY <1>3 DEF IndInv, ControlInv, LockInv
  <2>2. lock # Main
    BY <1>1, <2>1 DEF Idle, Inside, ConnectPcs, CleanupPcs
  <2>3. op[lock] = "disconnect"
    BY <1>3, <2>1, <2>2 DEF DaemonInv, ServerInv, Ops
  <2>4. QED
    BY <1>3, <2>1, <2>3 DEF IndInv, DataInv, RecordInv, SameTarget
<1>4. QED
  BY <1>2, <1>3 DEF IndInv, TypeInv, TypeOK

LEMMA OwnStepExit ==
    ASSUME IndInv, DaemonInv, ExitInv,
           \/ MainStep \/ Request \/ SleeperStep \/ \E w \in Watchers : WatcherStep(w)
    PROVE  ExitInv'
<1> USE DaemonAssumption DEF Idle
<1>1. UNCHANGED <<sysfs, kwin, userLayout>>
  BY DaemonStepCalls DEF Call, ProcessEnds
<1>2. Altered' = Altered
  BY <1>1, SameAltered
<1>3. pc \in [Threads -> Inside \cup {"idle", "waiting"}]
  BY DEF IndInv, TypeInv, TypeOK
<1>4. CASE MainStep
  <2>1. CASE Serve \/ ConnectAnswered \/ EndAnswered
    BY <2>1 DEF Serve, ConnectAnswered, EndAnswered, ExitInv
  <2>2. CASE StopServing
    <3>1. CASE cache = NoState
      BY <1>2, <2>2, <3>1, NoSessionIsClean DEF StopServing, ExitInv
    <3>2. CASE cache # NoState
      <4>1. Phase # "Disconnected"
        BY <3>2 DEF Phase, IndInv, TypeInv, TypeOK, States, Phases
      <4>2. server' = "final" /\ pc'[Main] = "waiting"
        BY <1>3, <2>2, <4>1, ThreadsAssumption DEF StopServing, Call, Goto
      <4>3. QED
        BY <4>2 DEF ExitInv
    <3>3. QED
      BY <3>1, <3>2
  <2>3. CASE FinalDisconnected
    BY <1>2, <2>3 DEF FinalDisconnected, ExitInv
  <2>4. CASE Exit
    BY <1>2, <2>4 DEF Exit, ExitInv
  <2>5. QED
    BY <1>4, <2>1, <2>2, <2>3, <2>4 DEF MainStep
<1>5. CASE Request
  BY <1>5 DEF Request, RequestConnect, RequestEnd, ExitInv
<1>6. ASSUME UNCHANGED server, UNCHANGED pc \/ \E t \in Threads \ {Main} : Call(t, "disconnect")
      PROVE  ExitInv'
  BY <1>2, <1>3, <1>6, ThreadsAssumption DEF Call, Goto, ExitInv
<1>7. CASE SleeperStep
  <2>1. UNCHANGED server /\ (UNCHANGED pc \/ Call(Sleeper, "disconnect"))
    BY <1>7 DEF SleeperStep, TakeInhibitor, Subscribe, SleeperStops, HandleWake, HandleSleep,
                SleepHandled, HandleShutdown, ShutdownHandled, EndSession, SessionEnded
  <2>2. QED
    BY <1>6, <2>1
<1>8. ASSUME NEW w \in Watchers, WatcherStep(w)
      PROVE  ExitInv'
  <2>1. UNCHANGED server /\ (UNCHANGED pc \/ Call(w, "disconnect"))
    BY <1>8 DEF WatcherStep, FindSunshine, WatcherStops, SunshineGone, WatcherDone
  <2>2. QED
    BY <1>6, <2>1
<1>9. QED
  BY <1>4, <1>5, <1>7, <1>8

LEMMA OutsideExit ==
    ASSUME TypeInv, ExitInv, Outside \/ WakeUp
    PROVE  ExitInv'
<1>1. CASE Boot \/ Crash \/ MachineReboots
  BY <1>1 DEF Boot, Crash, EndOfProcess, MachineReboots, ExitInv
<1>2. CASE \/ Terminate \/ AnnounceSleep \/ FallAsleep \/ AnnounceShutdown
           \/ SunshineExits \/ SunshineStarts \/ WakeUp \/ DisplayWorld
  <2>1. UNCHANGED <<server, pc>>
    BY <1>2 DEF Terminate, AnnounceSleep, FallAsleep, AnnounceShutdown, SunshineExits,
       SunshineStarts, WakeUp, DisplayWorld, UserRearranges, KWinSaves, KWinHotplug, KWinUnplug
  <2>2. ~Altered => ~Altered'
    BY OutsideMoves, WorldLeavesUnaltered
  <2>3. QED
    BY <2>1, <2>2 DEF ExitInv, Idle
<1>3. QED
  BY <1>1, <1>2 DEF Outside

LEMMA StrategyStepExit ==
    ASSUME Faults \subseteq {"delete"}, IndInv, NoErrorInv, DaemonInv, ExitInv,
           NEW t \in Threads, StrategyStep(t)
    PROVE  ExitInv'
<1>1. ThreadStep(t) /\ UNCHANGED server
  BY DEF StrategyStep
<1>2. /\ pc[t] # "idle" /\ op[t] # "none"
      /\ \A u \in Threads \ {t} : pc'[u] = pc[u]
  BY <1>1, OneThreadMoves DEF IndInv
<1>3. SUFFICES ASSUME server \in {"exit", "exited"} \/ (server = "final" /\ pc'[Main] = "idle")
               PROVE  ~Altered'
  BY <1>1 DEF ExitInv, Idle
<1>4. op[t] = "disconnect"
  BY <1>2, <1>3 DEF DaemonInv, ServerInv, Idle
<1>5. CASE t # Main
  <2>1. ~Altered
    BY <1>2, <1>3, <1>5, ThreadsAssumption DEF ExitInv, Idle
  <2>2. QED
    BY <1>1, <1>4, <2>1, StaysUnaltered DEF IndInv
<1>6. CASE t = Main
  <2>1. pc'[t] = "idle"
    BY <1>2, <1>3, <1>6 DEF DaemonInv, ServerInv, Idle
  <2>2. QED
    BY <1>1, <1>4, <2>1, DisconnectEndsClean
<1>7. QED
  BY <1>5, <1>6

\* A daemon that stops by itself leaves the hardware as the user had it, however
\* its last requests, watchers and signals interleave, as long as no call of the
\* strategy fails, or only the removal of the journal does.
THEOREM ExitIsClean ==
    ASSUME Faults \subseteq {"delete"}
    PROVE  DaemonSpec => []CleanExit
<1>1. DaemonSpec => [](IndInv /\ NoErrorInv)
  <2>1. RecoveryReads
    BY DEF RecoveryReads
  <2>2. Spec => []IndInv
    BY <2>1, Inductive
  <2>3. Spec => []NoErrorInv
    BY NoErrorInductive
  <2>4. QED
    BY <2>2, <2>3, ImplementsStrategy, PTL
<1>2. DaemonInit => ExitInv
  BY DEF DaemonInit, ExitInv
<1>3. IndInv /\ NoErrorInv /\ DaemonInv /\ ExitInv /\ [DaemonNext]_daemonVars => ExitInv'
  <2> SUFFICES ASSUME IndInv, NoErrorInv, DaemonInv, ExitInv, [DaemonNext]_daemonVars
               PROVE  ExitInv'
    OBVIOUS
  <2>1. CASE UNCHANGED daemonVars
    BY <2>1, SameAltered DEF ExitInv, Idle
  <2>2. QED
    BY <2>1, OwnStepExit, OutsideExit, StrategyStepExit DEF DaemonNext, IndInv
<1>4. ExitInv => CleanExit
  BY DEF ExitInv, CleanExit
<1>5. QED
  BY <1>1, <1>2, <1>3, <1>4, DaemonInductive, PTL DEF DaemonSpec

-----------------------------------------------------------------------------
\* The sleep.

\* What a covered sleep has met so far: a session that is Connected has its
\* disconnect to come or in hand, and the inhibitor is held until it is over.
RestInv ==
    covered = "rest" =>
        /\ server # "connect" /\ up = "up" /\ power # "awake"
        /\ inbox \in {<<>>, <<"sleep">>}
        /\ IsConnected =>
              /\ inhibitor /\ power = "preparing"
              /\ \/ sleeper = "listening" /\ inbox = <<"sleep">>
                 \/ sleeper \in {"disconnect", "last"} /\ ~Idle(Sleeper)

LEMMA OneSleep == /\ Append(<<>>, "sleep") = <<"sleep">> /\ Head(<<"sleep">>) = "sleep"
                  /\ Tail(<<"sleep">>) = <<>> /\ <<"sleep">> # <<>>
OBVIOUS

LEMMA MainStepRest ==
    ASSUME StrategyInv, DaemonInv, RestInv, MainStep \/ Request
    PROVE  RestInv'
<1> USE DaemonAssumption DEF RestInv, Idle, IsConnected, Phase
<1>1. pc \in [Threads -> Inside \cup {"idle", "waiting"}]
  BY DEF StrategyInv, TypeInv, TypeOK
<1>2. CASE Exit
  BY <1>2 DEF Exit, EndOfProcess
<1>3. ASSUME UNCHANGED <<sleepVars, worldVars, cache, up>>, covered' = covered, server' # "connect",
             UNCHANGED pc \/ \E o \in Ops : Call(Main, o)
      PROVE  RestInv'
  BY <1>1, <1>3, ThreadsAssumption DEF Call, Goto
<1>4. CASE Serve
  BY <1>4 DEF Serve, DaemonInv, ServerInv
<1>5. CASE StopServing \/ FinalDisconnected \/ ConnectAnswered \/ EndAnswered
  BY <1>3, <1>5 DEF StopServing, FinalDisconnected, ConnectAnswered, EndAnswered, Call, Ops
<1>6. CASE RequestConnect
  BY <1>6 DEF RequestConnect
<1>7. ASSUME NEW o \in {"disconnect", "restore"}, RequestEnd(o)
      PROVE  RestInv'
  BY <1>3, <1>7 DEF RequestEnd, Call, Ops
<1>8. QED
  BY <1>2, <1>4, <1>5, <1>6, <1>7 DEF MainStep, Request

LEMMA SleeperStepRest ==
    ASSUME StrategyInv, DaemonInv, RestInv, SleeperStep
    PROVE  RestInv'
<1> USE DaemonAssumption DEF RestInv, Idle, IsConnected, Phase
<1>1. pc \in [Threads -> Inside \cup {"idle", "waiting"}]
  BY DEF StrategyInv, TypeInv, TypeOK
<1>2. CASE TakeInhibitor \/ Subscribe
  BY <1>2 DEF TakeInhibitor, Subscribe
<1>3. CASE SleeperStops
  BY <1>3, OneSleep DEF SleeperStops
<1>4. ASSUME NEW busy \in {"disconnect", "last"}, NEW after, EndSession(busy, after),
             inbox' \in {inbox, Tail(inbox)}, inbox # <<>> \/ UNCHANGED inbox,
             UNCHANGED <<handlerVars, worldVars, history>>
      PROVE  RestInv'
  <2>1. covered = "rest" => inbox' \in {<<>>, <<"sleep">>}
    BY <1>4, OneSleep
  <2>2. CASE IsConnected /\ Call(Sleeper, "disconnect") /\ sleeper' = busy /\ UNCHANGED inhibitor
    <3>1. pc'[Sleeper] = "waiting" /\ UNCHANGED <<up, cache>>
      BY <1>1, <2>2 DEF Call, Goto
    <3>2. QED
      BY <1>4, <2>1, <2>2, <3>1
  <2>3. CASE ~IsConnected /\ UNCHANGED vars
    BY <1>4, <2>1, <2>3
  <2>4. QED
    BY <1>4, <2>2, <2>3 DEF EndSession
<1>5. CASE HandleSleep \/ HandleShutdown
  BY <1>4, <1>5 DEF HandleSleep, HandleShutdown, Received
<1>6. CASE HandleWake
  BY <1>6, OneSleep DEF HandleWake, Received
<1>7. CASE SleepHandled \/ ShutdownHandled
  BY <1>7 DEF SleepHandled, ShutdownHandled, SessionEnded
<1>8. QED
  BY <1>2, <1>3, <1>5, <1>6, <1>7 DEF SleeperStep

LEMMA WatcherStepRest ==
    ASSUME StrategyInv, RestInv, NEW w \in Watchers, WatcherStep(w)
    PROVE  RestInv'
<1>1. pc \in [Threads -> Inside \cup {"idle", "waiting"}]
  BY DEF StrategyInv, TypeInv, TypeOK
<1>2. /\ UNCHANGED <<server, sleepVars, worldVars, history, up, cache>>
      /\ UNCHANGED pc \/ Call(w, "disconnect")
  BY DEF WatcherStep, FindSunshine, WatcherStops, SunshineGone, WatcherDone, Call
<1>3. pc'[Sleeper] = pc[Sleeper]
  BY <1>1, <1>2, DaemonAssumption DEF Call, Goto
<1>4. QED
  BY <1>2, <1>3 DEF RestInv, Idle, IsConnected, Phase

LEMMA OutsideRest ==
    ASSUME StrategyInv, DaemonInv, RestInv, Outside \/ WakeUp
    PROVE  RestInv'
<1> USE DEF RestInv, Idle, IsConnected, Phase
<1>1. CASE Boot \/ MachineReboots
  BY <1>1 DEF Boot, Start, MachineReboots, Reboot
<1>2. CASE Crash \/ WakeUp
  BY <1>2 DEF Crash, EndOfProcess, WakeUp
<1>3. CASE AnnounceSleep
  <2>1. covered' = "rest" => /\ sleeper = "listening" /\ inbox = <<>> /\ inhibitor
                             /\ server # "connect" /\ power' = "preparing"
                             /\ inbox' = Append(inbox, "sleep")
    BY <1>3 DEF AnnounceSleep, Deliver, Subscribed
  <2>2. UNCHANGED <<vars, handlerVars, sleeper, inhibitor>>
    BY <1>3 DEF AnnounceSleep
  <2>3. sleeper = "listening" => up = "up"
    BY DEF StrategyInv, TypeInv, TypeOK, DaemonInv, ServerInv
  <2>4. QED
    BY <2>1, <2>2, <2>3, OneSleep
<1>4. CASE FallAsleep
  <2>1. UNCHANGED <<vars, handlerVars, sleepVars>> /\ power' = "asleep"
        /\ (covered' = "rest" => covered = "rest" /\ ~inhibitor)
    BY <1>4 DEF FallAsleep
  <2>2. QED
    BY <2>1
<1>5. CASE Terminate \/ AnnounceShutdown \/ SunshineExits \/ SunshineStarts
  BY <1>5 DEF Terminate, AnnounceShutdown, SunshineExits, SunshineStarts
<1>6. CASE DisplayWorld
  BY <1>6 DEF DisplayWorld, UserRearranges, KWinSaves, KWinHotplug, KWinUnplug
<1>7. QED
  BY <1>1, <1>2, <1>3, <1>4, <1>5, <1>6 DEF Outside

LEMMA StrategyStepRest ==
    ASSUME JournalWorks, StrategyInv, PhaseInv, LifeInv, SyncInv, DaemonInv, RestInv,
           NEW t \in Threads, StrategyStep(t)
    PROVE  RestInv'
<1>1. ThreadStep(t) /\ UNCHANGED <<handlerVars, sleepVars, worldVars, covered>>
  BY DEF StrategyStep
<1>2. /\ pc[t] # "idle" /\ up' \in {up, "up"} /\ op[t] # "none"
      /\ \A u \in Threads \ {t} : pc'[u] = pc[u]
  BY <1>1, OneThreadMoves DEF StrategyInv
<1>3. SUFFICES ASSUME covered = "rest", IsConnected'
               PROVE  IsConnected /\ (~Idle(Sleeper) => ~Idle(Sleeper)')
  BY <1>1, <1>2 DEF RestInv
<1>4. op[t] # "connect" /\ up = "up"
  BY <1>3, DaemonAssumption DEF DaemonInv, ServerInv, RestInv
<1>5. IsConnected
  BY <1>1, <1>3, <1>4, OnlyConnectConnects DEF StrategyInv
<1>6. CASE t = Sleeper
  <2>1. op[t] = "disconnect"
    BY <1>2, <1>6, DaemonAssumption DEF DaemonInv, ServerInv
  <2>2. QED
    BY <1>1, <1>3, <1>5, <1>6, <2>1, DisconnectDisconnects DEF StrategyInv, Idle
<1>7. CASE t # Sleeper
  BY <1>2, <1>5, <1>7, DaemonAssumption DEF Idle
<1>8. QED
  BY <1>6, <1>7

\* A sleep that is announced to a handler at rest waits for the session to end,
\* whatever requests, watchers and shutdown signals come in meanwhile and
\* whatever fails, as long as the journal can be read, written and removed; a
\* connect that is in hand or comes in between is the exception.
THEOREM SleepIsCovered ==
    ASSUME Faults \cap {"load", "save", "recovery_save", "delete"} = {}
    PROVE  DaemonSpec => []CoveredSleep
<1>1. JournalWorks
  BY DEF JournalWorks
<1>2. DaemonInit => RestInv
  BY DEF DaemonInit, RestInv
<1>3. StrategyInv /\ PhaseInv /\ LifeInv /\ SyncInv /\ DaemonInv /\ RestInv
        /\ [DaemonNext]_daemonVars => RestInv'
  <2> SUFFICES ASSUME StrategyInv, PhaseInv, LifeInv, SyncInv, DaemonInv, RestInv,
                      [DaemonNext]_daemonVars
               PROVE  RestInv'
    OBVIOUS
  <2>1. CASE UNCHANGED daemonVars
    BY <2>1 DEF RestInv, Idle, IsConnected, Phase
  <2>2. QED
    BY <1>1, <2>1, MainStepRest, SleeperStepRest, WatcherStepRest, OutsideRest, StrategyStepRest
       DEF DaemonNext
<1>4. DaemonInv /\ RestInv => CoveredSleep
  BY DEF RestInv, CoveredSleep
<1>5. Spec => []SyncInv
  BY <1>1, SyncInductive
<1>6. QED
  BY <1>2, <1>3, <1>4, <1>5, DaemonInductive, ImplementsStrategy, PhaseInductive, LifeHolds, PTL
     DEF DaemonSpec
=============================================================================
