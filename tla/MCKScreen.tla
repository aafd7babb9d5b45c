----------------------------- MODULE MCKScreen -----------------------------
(* Two cards, two monitors, and an output whose name the daemon rejects; two *)
(* users, each of whom may run two compositors; modes on both sides of what  *)
(* the descriptor can express.                                               *)
EXTENDS KScreen

CONSTANTS o1, o2, bad, s1, s2, card0, card1, alice, bob

ThreePorts == {o1, o2, bad}
OneBad == {bad}
OneDisabled == {o1}
TwoCards == <<card0, card1>>
AllConnectors == <<s2, s1, o2, o1>>
CardOfConnector == (s1 :> card0) @@ (s2 :> card1) @@ (o1 :> card1) @@ (o2 :> card1)
KindOfConnector == (s1 :> "DP") @@ (s2 :> "HDMI") @@ (o1 :> "DP") @@ (o2 :> "other")
TwoUsers == {alice, bob}
TwoSocketsEach == [uid : TwoUsers, wayland_display : {0, 1}]
UserSymmetry == Permutations(TwoUsers)
TwoCoordinates == {0, 1920}
\* A monitor's own timing: 148.5 MHz, 60 Hz.
FullHD == [width |-> 1920, height |-> 1080, clock |-> 14850, total |-> 2200 * 1125]

\* Too wide, too high, too fast, too small, and just narrow and just large enough.
Extra == {Mode(5120, 1440, 60), Mode(2160, 4096, 30), Mode(3840, 2160, 120),
          Mode(100, 80, 24), Mode(4095, 2160, 60), Mode(64, 120, 24)}
Asked == Extra \cup {Mode(1920, 1080, 60), Mode(2560, 1440, 120),
                     Mode(1920, 1080, 481), Mode(800, 600, 60)}
=============================================================================
