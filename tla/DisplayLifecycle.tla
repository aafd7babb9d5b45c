-------------------------- MODULE DisplayLifecycle --------------------------
(***************************************************************************)
(* What the display strategy promises, with nothing about how: a lifecycle *)
(* phase that clients see, a recovery intent that outlives the process,    *)
(* and hardware that is either as the user left it or altered.             *)
(*                                                                         *)
(*   - the hardware is altered only while the intent to undo it is on      *)
(*     record, and the record is dropped only once the hardware is back;   *)
(*   - a client is told "Disconnected" only when the hardware is back;     *)
(*   - the phase moves along the edges of the readme's lifecycle.          *)
(***************************************************************************)
VARIABLES phase, intent, altered

vars == <<phase, intent, altered>>

Phases == {"Down", "Disconnected", "Connecting", "Connected", "Disconnecting",
           "RecoveryRequired"}

Init == phase = "Down" /\ intent = FALSE /\ altered = FALSE

\* Write-ahead: record, then alter; undo, then forget.
Record == intent' = TRUE /\ UNCHANGED <<phase, altered>>
Alter  == intent /\ altered' = TRUE /\ UNCHANGED <<phase, intent>>
Undo   == altered' = FALSE /\ UNCHANGED <<phase, intent>>
Forget == ~altered /\ intent' = FALSE /\ UNCHANGED <<phase, altered>>

Move(from, to) ==
    /\ phase \in from /\ phase' = to
    /\ UNCHANGED <<intent, altered>>

BeginConnect == intent /\ ~altered /\ Move({"Disconnected"}, "Connecting")
Establish == intent /\ Move({"Connecting"}, "Connected")
Adopt == intent /\ Move({"Disconnected", "Connected", "RecoveryRequired"}, "Connected")
BeginDisconnect ==
    Move({"Connected", "Disconnecting", "RecoveryRequired"}, "Disconnecting")
NeedRecovery ==
    intent /\ Move(Phases \ {"Down"}, "RecoveryRequired")
Finish == ~altered /\ Move(Phases \ {"Down"}, "Disconnected")

\* A restart finds out from the record which phase it is in.
Crash == Move(Phases, "Down")
Boot ==
    \E to \in {"Disconnected", "Connected", "RecoveryRequired"} :
        /\ IF to = "Disconnected" THEN ~altered ELSE intent
        /\ Move({"Down"}, to)

\* A loss of power may bring back an intent that was dropped, or lose one that
\* nothing depends on; the hardware may be as the user left it afterwards.
PowerLoss ==
    /\ phase = "Down" /\ UNCHANGED phase
    /\ intent' \in BOOLEAN /\ (altered => intent')
    /\ altered' \in {altered, FALSE}

Next ==
    \/ Record \/ Alter \/ Undo \/ Forget
    \/ BeginConnect \/ Establish \/ Adopt \/ BeginDisconnect \/ NeedRecovery \/ Finish
    \/ Crash \/ Boot \/ PowerLoss

Spec == Init /\ [][Next]_vars
=============================================================================
