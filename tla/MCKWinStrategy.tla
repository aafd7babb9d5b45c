--------------------------- MODULE MCKWinStrategy ---------------------------
(***************************************************************************)
(* Bounded instances of KWinStrategy for TLC: two callers, two physical    *)
(* outputs, one or two connectors for the virtual display.                 *)
(***************************************************************************)
EXTENDS KWinStrategy, TLC

CONSTANTS main, helper, o1, o2, s1, s2

TwoThreads == {main, helper}
TwoOutputs == {o1, o2}
OneOutput == {o1}
OneSlot == {s1}
TwoSlots == {s1, s2}
DisableFirst == {o1}

\* Outputs whose names contain the slot's, such as eDP-1 and DP-1.
NameClash == Outputs \X Slots
NoClash == {}
DisplaySymmetry == Permutations(TwoOutputs) \cup Permutations(TwoSlots)

\* Everything fails but the journal accesses of restore.
StrategyFaults == FaultKinds \ {"load", "recovery_save"}
=============================================================================
