----------------------------- MODULE Connectors -----------------------------
(***************************************************************************)
(* Which card and which of its connectors a virtual display is given       *)
(* (strategy/kwin/sysfs.rs and step 2 of connect).  A status is what a     *)
(* connector's status file says: "connected", "disconnected", or what the  *)
(* daemon wrote to it, "on" or "off".                                      *)
(*                                                                         *)
(* A definition marked "Mutation" is a bug put in place of the definition  *)
(* that follows it, to show that a property can fail.                      *)
(***************************************************************************)
EXTENDS Integers, SequencesExt

CONSTANTS
    Cards,          \* the cards in /dev/dri, sorted
    Connectors,     \* the connectors of all cards, sorted
    CardOf,         \* the card of a connector
    KindOf,         \* "DP", "HDMI" or "other": how its name begins
    NoDevice,       \* Option::None for a card
    NoSlot          \* StrategyError::NoSlot

ASSUME ConnectorsAssumption ==
    /\ Cards # <<>> /\ NoDevice \notin ToSet(Cards)
    /\ Connectors \in Seq(ToSet(Connectors)) /\ NoSlot \notin ToSet(Connectors)
    /\ CardOf \in [ToSet(Connectors) -> ToSet(Cards)]
    /\ KindOf \in [ToSet(Connectors) -> {"DP", "HDMI", "other"}]

connected_connectors(card, status) ==
    {c \in ToSet(Connectors) : CardOf[c] = card /\ status[c] = "connected"}

connected_count(card, status) == Cardinality(connected_connectors(card, status))

\* The card with the most monitors, the first of them if there are several.
MostConnected(status) ==
    FoldLeft(LAMBDA best, c : IF connected_count(c, status) > connected_count(best, status)
                              THEN c ELSE best,
             Head(Cards), Tail(Cards))

\* device: of the request, or else of the configuration.
SelectCard(device, status) == IF device = NoDevice THEN MostConnected(status) ELSE device

\* Mutation: a connector that was turned off once is not empty any more.
IsEmptyIfUntouched(c, status) == status[c] = "disconnected"
IsEmpty(c, status) == status[c] \in {"disconnected", "off"}

\* The empty connectors of a card and kind, by their places in the sorted list.
empty_slots(card, kind, status) ==
    {i \in 1..Len(Connectors) : /\ CardOf[Connectors[i]] = card /\ KindOf[Connectors[i]] = kind
                                /\ IsEmpty(Connectors[i], status)}

\* DisplayPort before HDMI; connectors of other kinds are never taken.
find_empty_slot(card, status) ==
    LET dp_slots == empty_slots(card, "DP", status)
        hdmi_slots == empty_slots(card, "HDMI", status)
    IN  IF dp_slots # {} THEN Connectors[Min(dp_slots)]
        ELSE IF hdmi_slots # {} THEN Connectors[Min(hdmi_slots)]
        ELSE NoSlot

set_connector_status(c, on, status) == [status EXCEPT ![c] = IF on THEN "on" ELSE "off"]
=============================================================================
