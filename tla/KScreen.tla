------------------------------ MODULE KScreen ------------------------------
(***************************************************************************)
(* What the daemon reads from kscreen-doctor and what it makes of it       *)
(* (strategy/kwin/kscreen.rs and the steps of connect and disconnect in    *)
(* strategy/kwin/mod.rs that use it): on whose desktop and on which        *)
(* connector, the snapshot of the layout, where the virtual display is     *)
(* put, whether it runs the requested mode, and the arguments that put the *)
(* layout back.                                                            *)
(*                                                                         *)
(* One session follows the other; KWinStrategy has the interleavings and   *)
(* the failures, but for a desktop that is gone when its layout has to be  *)
(* put back.  A listing is a sequence of lines, told apart by what the     *)
(* parsers look at.                                                        *)
(***************************************************************************)
EXTENDS VirtualEdid, Connectors, Desktops

CONSTANTS
    Ports,           \* outputs with a monitor
    BadNames,        \* those whose names ConnectorId rejects
    DefaultDevice,   \* config.device
    DisableOutputs,  \* config.disable_outputs
    Coordinates,     \* where the left edge of an output can be
    ScreenMode,      \* the mode every monitor runs
    Requested,       \* modes that clients ask for
    ExtraAllowed     \* config.extra_allowed_modes

Outputs == Ports \cup ToSet(Connectors)

\* What Config::validate lets through.
ValidConfig ==
    /\ DefaultDevice \in ToSet(Cards) \cup {NoDevice}
    /\ DisableOutputs \subseteq Outputs \ BadNames
    /\ ExtraAllowed \subseteq Modes

ASSUME KScreenAssumption ==
    /\ IsFiniteSet(Ports) /\ BadNames \subseteq Ports \ ToSet(Connectors)
    /\ ScreenMode \in [width : Nat, height : Nat, clock : Nat, total : Nat]
    /\ 0 \in Coordinates /\ Coordinates \subseteq Int
    /\ ValidConfig

VARIABLES
    step,             \* "idle", or the next step of the session
    mode,             \* the requested mode
    slot,             \* the connector of the virtual display
    session_uid,      \* the user on record
    status,           \* what each connector's status file says
    layout,           \* the outputs of the desktop
    previous_layout,  \* the snapshot
    to_disable,
    driven,           \* history: whose desktop was changed
    userLayout        \* history: the layout when the session began

session == <<mode, slot, session_uid, previous_layout, driven, userLayout>>
vars == <<step, status, layout, to_disable, session>>

\* The mode the virtual connector has for each one asked for.
EdidModes == {[asked |-> m, mode |-> KernelMode(generate(m))] :
                m \in {m \in Requested : validate_request(m, ExtraAllowed) = "ok"}}
EdidMode == (CHOOSE e \in EdidModes : e.asked = mode).mode

Listed == Ports \cup {c \in ToSet(Connectors) : status[c] = "on"}

\* Where outputs with a monitor can be.  The daemon never sees a rejected name's.
Positions == {x \in [Ports -> Coordinates] : \A p \in BadNames : x[p] = 0}

\* The position of an output that is off is nobody's concern.
Output(on, x, k) == [enabled |-> on, x |-> IF on THEN x ELSE 0, mode |-> k]
Absent == Output(FALSE, 0, ScreenMode)

-----------------------------------------------------------------------------
\* External: `kscreen-doctor -o`, one block of lines per output, in any order.

\* "!" marks the mode the EDID prefers, "*" the one that is on.
ModeTokens(preferred, active) ==
    IF preferred = active
    THEN <<[mode |-> active, marks |-> {"*", "!"}]>>
    ELSE <<[mode |-> preferred, marks |-> {"!"}], [mode |-> active, marks |-> {"*"}]>>

Preferred(p) == IF p = slot THEN EdidMode ELSE ScreenMode

Block(p) ==
    <<[line |-> "Output:", name |-> p],
      [line |-> IF layout[p].enabled THEN "enabled" ELSE "disabled"],
      [line |-> "connected"],
      [line |-> "Modes:", modes |-> ModeTokens(Preferred(p), layout[p].mode)],
      [line |-> "Geometry:", x |-> layout[p].x, width |-> layout[p].mode.width]>>

Listing(s) == [i \in 1..5 * Len(s) |-> Block(s[(i + 4) \div 5])[1 + ((i - 1) % 5)]]
Listings == {Listing(s) : s \in SetToSeqs(Listed)}

-----------------------------------------------------------------------------
\* parse_outputs, line by line; current is the index in result, 0 for none.

NewOutput(name) == [name |-> name, enabled |-> FALSE, x |-> 0, width |-> 0]

\* Mutation: an output with a rejected name does not end the one before it.
ParseLineSkippingNames(acc, l) ==
    CASE l.line = "Output:" /\ l.name \notin BadNames ->
           [result |-> Append(acc.result, NewOutput(l.name)), current |-> Len(acc.result) + 1]
      [] l.line \in {"enabled", "disabled"} /\ acc.current # 0 ->
           [acc EXCEPT !.result[acc.current].enabled = (l.line = "enabled")]
      [] l.line = "Geometry:" /\ acc.current # 0 ->
           [acc EXCEPT !.result[acc.current].x = l.x, !.result[acc.current].width = l.width]
      [] OTHER -> acc
ParseLine(acc, l) ==
    CASE l.line = "Output:" ->
           IF l.name \in BadNames
           THEN [acc EXCEPT !.current = 0]
           ELSE [result |-> Append(acc.result, NewOutput(l.name)), current |-> Len(acc.result) + 1]
      [] l.line \in {"enabled", "disabled"} /\ acc.current # 0 ->
           [acc EXCEPT !.result[acc.current].enabled = (l.line = "enabled")]
      [] l.line = "Geometry:" /\ acc.current # 0 ->
           [acc EXCEPT !.result[acc.current].x = l.x, !.result[acc.current].width = l.width]
      [] OTHER -> acc

parse_lines(text) ==
    LET acc[i \in 0..Len(text)] ==
          IF i = 0 THEN [result |-> <<>>, current |-> 0] ELSE ParseLine(acc[i - 1], text[i])
    IN  acc

parse_outputs(text) == parse_lines(text)[Len(text)].result

\* active_mode_matches, line by line; an Option is a set.
parse_active_mode_token(token) == IF "*" \in token.marks THEN {token.mode} ELSE {}

\* The first of the tokens that parses.
find_active(tokens) ==
    LET on == {i \in 1..Len(tokens) : parse_active_mode_token(tokens[i]) # {}}
    IN  IF on = {} THEN {} ELSE parse_active_mode_token(tokens[Min(on)])

\* Mutation: the block of another output does not end the target's.
MatchLineRunningOn(acc, l) ==
    CASE l.line = "Output:" /\ l.name = slot -> [target |-> TRUE, enabled |-> FALSE, active |-> {}]
      [] acc.target /\ l.line \in {"enabled", "disabled"} ->
           [acc EXCEPT !.enabled = (l.line = "enabled")]
      [] acc.target /\ l.line = "Modes:" -> [acc EXCEPT !.active = find_active(l.modes)]
      [] OTHER -> acc
MatchLine(acc, l) ==
    CASE l.line = "Output:" ->
           IF l.name = slot
           THEN [target |-> TRUE, enabled |-> FALSE, active |-> {}]
           ELSE [acc EXCEPT !.target = FALSE]
      [] acc.target /\ l.line \in {"enabled", "disabled"} ->
           [acc EXCEPT !.enabled = (l.line = "enabled")]
      [] acc.target /\ l.line = "Modes:" -> [acc EXCEPT !.active = find_active(l.modes)]
      [] OTHER -> acc

Runs(k, m) == k.width = m.width /\ k.height = m.height /\ RateIsAbout(k, m.refresh)

match_lines(text) ==
    LET acc[i \in 0..Len(text)] ==
          IF i = 0 THEN [target |-> FALSE, enabled |-> FALSE, active |-> {}]
                   ELSE MatchLine(acc[i - 1], text[i])
    IN  acc

active_mode_matches(text, m) ==
    LET end == match_lines(text)[Len(text)]
    IN  end.enabled /\ \E k \in end.active : Runs(k, m)

-----------------------------------------------------------------------------
\* The session.

NoSession ==
    /\ mode = Mode(0, 0, 0) /\ slot = NoSlot /\ session_uid = Nobody
    /\ previous_layout = <<>> /\ driven = Nobody /\ userLayout = <<>>

Init ==
    /\ step = "idle" /\ to_disable = {}
    /\ status = [c \in ToSet(Connectors) |-> IF c \in Ports THEN "connected" ELSE "disconnected"]
    /\ layout \in {[p \in Outputs |-> IF p \in Ports THEN Output(on[p], x[p], ScreenMode) ELSE Absent] :
                     on \in [Ports -> BOOLEAN], x \in Positions}
    /\ NoSession

\* Mutation: the one who asked is put on record.
RecordedRequester(uid, env) == uid
\* session_uid of the record: the one whose desktop it is.
Recorded(uid, env) == env

Connect(uid, device, m, exclusive) ==
    LET d == IF device = NoDevice THEN DefaultDevice ELSE device
    IN  /\ step = "idle" /\ validate_request(m, ExtraAllowed) = "ok"
        /\ \E env \in Resolved(uid) \ {Nobody} :
             session_uid' = Recorded(uid, env) /\ driven' = env
        /\ slot' = find_empty_slot(SelectCard(d, status), status) /\ slot' # NoSlot
        /\ step' = "disable" /\ mode' = m /\ userLayout' = layout
        /\ \E text \in Listings :
             /\ previous_layout' = parse_outputs(text)
             /\ to_disable' = IF exclusive
                              THEN {o.name : o \in {o \in ToSet(parse_outputs(text)) :
                                                      o.enabled /\ o.name # slot'}}
                              ELSE DisableOutputs
        /\ UNCHANGED <<status, layout>>

\* External: when outputs come or go KWin may move those that are on.
Moved(l) ==
    {[p \in Outputs |-> IF p \in Ports /\ l[p].enabled THEN [l[p] EXCEPT !.x = x[p]] ELSE l[p]] :
       x \in Positions}

\* "KWin sometimes needs two kscreen-doctor invocations" (run_twice): it moves
\* outputs after the first pass, and the second one settles them.

\* output.P.disable; the outputs that are still on may move.
Disabled(l) ==
    [p \in Outputs |-> IF p \in to_disable THEN Output(FALSE, 0, ScreenMode) ELSE l[p]]

Disable ==
    /\ step = "disable" /\ step' = "hotplug" /\ to_disable' = {}
    /\ layout' \in {Disabled(l) : l \in Moved(Disabled(layout))}
    /\ UNCHANGED <<status, session>>

\* The connector is forced on.  KWin may turn it on by itself, in a mode and at a
\* place of its choice.
Hotplug ==
    /\ step = "hotplug" /\ step' = "place"
    /\ status' = set_connector_status(slot, TRUE, status)
    /\ \E on \in BOOLEAN, x \in Coordinates, k \in {ScreenMode, EdidMode} :
         layout' = [layout EXCEPT ![slot] = Output(on, x, k)]
    /\ UNCHANGED <<to_disable, session>>

\* Step 12: the right edge of the rightmost output that is on.
VirtualX(text) ==
    LET on == {o \in ToSet(parse_outputs(text)) : o.enabled /\ o.name # slot}
    IN  IF on = {} THEN 0 ELSE Max({o.x + o.width : o \in on})

\* Step 13.  KWin has the modes of the EDID, and may ignore what it is told.
Place ==
    /\ step = "place" /\ step' = "verify"
    /\ \/ \E virtual_x \in {VirtualX(text) : text \in Listings} :
            LET Placed(l) == [l EXCEPT ![slot] =
                                Output(TRUE, virtual_x,
                                       IF Runs(EdidMode, mode) THEN EdidMode ELSE @.mode)]
            IN  layout' \in {Placed(l) : l \in Moved(Placed(layout))}
       \/ UNCHANGED layout
    /\ UNCHANGED <<status, to_disable, session>>

Verify ==
    /\ step = "verify"
    /\ \E verified \in {active_mode_matches(text, mode) : text \in Listings} :
         step' = IF verified THEN "connected" ELSE "rollback"
    /\ UNCHANGED <<status, layout, to_disable, session>>

\* The handler's test before a disconnect or a restore.
LetThrough(uid) == is_authorized(uid, session_uid)

Disconnect(uid) ==
    /\ step = "connected" /\ step' = "restore"
    /\ LetThrough(uid)
    /\ UNCHANGED <<status, layout, to_disable, session>>

\* build_restore_args, for one output of the snapshot, as kscreen-doctor applies it.
RestoredAt(l, o) ==
    IF o.enabled /\ o.name # slot
    THEN [l EXCEPT ![o.name].enabled = TRUE, ![o.name].x = o.x]
    ELSE l

\* The layout after each of them, and after all; the slot's are a disable.
restore_each(l) ==
    LET after[i \in 0..Len(previous_layout)] ==
          IF i = 0 THEN l ELSE RestoredAt(after[i - 1], previous_layout[i])
    IN  after
Restored(l) == [restore_each(l)[Len(previous_layout)] EXCEPT ![slot] = Absent]
\* Mutation: they are given once.
RestoredOnce(l) == Moved(Restored(l))
RestoredTwice(l) == {Restored(k) : k \in Moved(Restored(l))}

\* cleanup_state with the compositor of user env.  Without one the outputs stay
\* as they are, but the connector is turned off all the same.
Cleanup(env) ==
    /\ status' = set_connector_status(slot, FALSE, status)
    /\ IF env = driven THEN layout' \in RestoredTwice(layout)
                       ELSE layout' = [layout EXCEPT ![slot] = Absent]

Forgotten ==
    /\ step' = "idle" /\ mode' = Mode(0, 0, 0) /\ slot' = NoSlot /\ session_uid' = Nobody
    /\ previous_layout' = <<>> /\ driven' = Nobody /\ userLayout' = <<>>
    /\ UNCHANGED to_disable

\* RecoveryRequired: the record is kept for a later restore.
Kept == step' = "restore" /\ UNCHANGED <<to_disable, session>>

\* A failed connect cleans up in the desktop it has in hand, which may be gone.
Rollback ==
    /\ step = "rollback"
    /\ \/ Cleanup(driven) /\ Forgotten
       \/ Cleanup(Nobody) /\ Kept

\* A disconnect looks for the desktop again, and so does each restore after it.
Restore ==
    /\ step = "restore"
    /\ \E env \in Resolved(session_uid) :
         /\ Cleanup(env)
         /\ IF env = Nobody THEN Kept ELSE Forgotten

Next ==
    \/ /\ step = "idle"
       /\ \E uid \in Uids, device \in ToSet(Cards) \cup {NoDevice}, m \in Requested, e \in BOOLEAN :
            Connect(uid, device, m, e)
    \/ Disable \/ Hotplug \/ Place \/ Verify
    \/ \E uid \in Uids : Disconnect(uid)
    \/ Rollback \/ Restore

Spec == Init /\ [][Next]_vars

-----------------------------------------------------------------------------
\* "so that disconnect can restore exact positions and enabled states"
\* (kscreen.rs): whatever KWin moved and whoever is logged in meanwhile, when the
\* session is over the outputs the user had on are on again and where they were.
LayoutRestored ==
    [][step # "idle" /\ step' = "idle" =>
         \A p \in Ports \ BadNames :
           userLayout[p].enabled => layout'[p].enabled /\ layout'[p].x = userLayout[p].x]_vars

\* "to avoid overlapping with physical monitors" (mod.rs): unless KWin ignores
\* the placement, no monitor that is on and that the parser can name reaches
\* into the virtual display.
NoOverlap ==
    [][step = "place" /\ layout' # layout =>
         \A p \in Ports \ BadNames :
           layout[p].enabled => layout[p].x + layout[p].mode.width <= layout'[slot].x]_vars

\* A session becomes Connected only when KWin drives the virtual connector
\* itself in the requested mode: another output that runs it does not count.
VerifiedIsDriven ==
    step = "connected" => layout[slot].enabled /\ Runs(layout[slot].mode, mode)

\* Every mode of the table, and every extra mode the descriptor can express,
\* survives the way through the EDID, the kernel, KWin and the parser: when KWin
\* does what it is told, connect does not fail at the verification.
PermittedModeVerifies ==
    [][(/\ step = "verify" /\ layout[slot].enabled
        /\ layout[slot].mode = EdidMode
        /\ mode \in VIC_TABLE \/ Representable(mode))
         => step' = "connected"]_vars

\* A card that had an empty connector has one after any number of sessions,
\* although each leaves the one it used forced off (find_empty_slot in sysfs.rs).
CanConnectAgain ==
    step = "idle" => \A card \in ToSet(Cards) : find_empty_slot(card, status) # NoSlot

\* "restricted to root or the owner of the active KWin session" (readme.md): the
\* user whose desktop was changed may end the session whoever asked for it, and
\* no other user may.
OnlyOwnerEnds ==
    step # "idle" => \A uid \in Users : LetThrough(uid) <=> uid = driven
=============================================================================
