------------------------------ MODULE MCDaemon ------------------------------
(***************************************************************************)
(* Bounded instances of Daemon for TLC: one physical output, one connector *)
(* for the virtual display.                                                *)
(***************************************************************************)
EXTENDS Daemon

CONSTANTS main, handler, o1, s1

DaemonThreads == {main, handler} \cup Watchers
OneOutput == {o1}
OneSlot == {s1}
AllDaemonFaults == DaemonFaultKinds
=============================================================================
