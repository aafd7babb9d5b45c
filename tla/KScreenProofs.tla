---------------------------- MODULE KScreenProofs ----------------------------
(***************************************************************************)
(* Proofs about KScreen, for any users, cards, connectors and layouts.     *)
(***************************************************************************)
EXTENDS KScreen, FiniteSetTheorems, WellFoundedInduction, TLAPS

-----------------------------------------------------------------------------
\* Every step of a session leaves whose it is alone, or ends it.
OwnerInv == step # "idle" => session_uid = driven

\* The user whose desktop was changed may end the session, whoever asked for it,
\* and no other user may.
THEOREM OwnerEnds == Spec => []OnlyOwnerEnds
<1> USE DEF vars, session
<1>1. Init => OwnerInv
  BY DEF Init, OwnerInv
<1>2. OwnerInv /\ [Next]_vars => OwnerInv'
  <2> SUFFICES ASSUME OwnerInv, [Next]_vars PROVE OwnerInv'
    OBVIOUS
  <2>1. ASSUME NEW uid, NEW device, NEW m, NEW e, Connect(uid, device, m, e)
        PROVE  OwnerInv'
    BY <2>1 DEF Connect, Recorded, OwnerInv
  <2>2. CASE Disable \/ Hotplug \/ Place \/ Verify \/ \E uid \in Uids : Disconnect(uid)
    BY <2>2 DEF Disable, Hotplug, Place, Verify, Disconnect, OwnerInv
  <2>3. CASE Rollback \/ Restore
    BY <2>3 DEF Rollback, Restore, Forgotten, Kept, OwnerInv
  <2>4. CASE UNCHANGED vars
    BY <2>4 DEF OwnerInv
  <2>5. QED
    BY <2>1, <2>2, <2>3, <2>4 DEF Next
<1>3. OwnerInv => OnlyOwnerEnds
  BY DesktopsAssumption DEF OwnerInv, OnlyOwnerEnds, LetThrough, is_authorized
<1>4. QED
  BY <1>1, <1>2, <1>3, PTL DEF Spec

-----------------------------------------------------------------------------
LEMMA HasLeast ==
    ASSUME NEW S, S \subseteq Nat, S # {}
    PROVE  \E x \in S : \A y \in S : x =< y
<1>1. PICK x \in S : \A y \in S : <<y, x>> \notin OpToRel(<, Nat)
  BY WFMin, NatLessThanWellFounded
<1>2. \A y \in S : ~(y < x)
  BY <1>1, Zenon DEF OpToRel
<1>3. QED
  BY <1>2

LEMMA MinIsMember ==
    ASSUME NEW S, S \subseteq Nat, S # {}
    PROVE  Min(S) \in S
BY HasLeast DEF Min

\* A connector that a virtual display can be given.
Usable(c) == c \in ToSet(Connectors) /\ KindOf[c] \in {"DP", "HDMI"}

\* find_empty_slot finds an empty connector, if the card has a usable one.
LEMMA FindsEmpty ==
    ASSUME NEW card, NEW s
    PROVE  LET slot_ == find_empty_slot(card, s)
           IN  /\ slot_ # NoSlot => slot_ \in ToSet(Connectors) /\ IsEmpty(slot_, s)
               /\ (\E c : Usable(c) /\ CardOf[c] = card /\ IsEmpty(c, s)) => slot_ # NoSlot
<1> DEFINE dp == empty_slots(card, "DP", s)
           hdmi == empty_slots(card, "HDMI", s)
<1>1. DOMAIN Connectors = 1..Len(Connectors) /\ 1..Len(Connectors) \subseteq Nat
  BY ConnectorsAssumption
<1>2. ASSUME NEW kind, empty_slots(card, kind, s) # {}
      PROVE  LET c == Connectors[Min(empty_slots(card, kind, s))]
             IN  c \in ToSet(Connectors) /\ c # NoSlot /\ IsEmpty(c, s)
  <2>1. Min(empty_slots(card, kind, s)) \in empty_slots(card, kind, s)
    BY <1>1, <1>2, MinIsMember DEF empty_slots
  <2>2. QED
    BY <1>1, <2>1, ConnectorsAssumption DEF empty_slots, ToSet
<1>3. \/ dp # {} /\ find_empty_slot(card, s) = Connectors[Min(dp)]
      \/ hdmi # {} /\ find_empty_slot(card, s) = Connectors[Min(hdmi)]
      \/ dp = {} /\ hdmi = {} /\ find_empty_slot(card, s) = NoSlot
  BY DEF find_empty_slot
<1>4. ASSUME NEW c, Usable(c), CardOf[c] = card, IsEmpty(c, s)
      PROVE  dp # {} \/ hdmi # {}
  <2>1. PICK i \in 1..Len(Connectors) : Connectors[i] = c
    BY <1>1, <1>4 DEF Usable, ToSet
  <2>2. i \in dp \/ i \in hdmi
    BY <1>4, <2>1 DEF Usable, empty_slots
  <2>3. QED
    BY <2>2
<1>5. QED
  BY <1>2, <1>3, <1>4

\* Whatever has no monitor is empty between the sessions; during one, all but
\* the connector in use.
SlotInv ==
    /\ status \in [ToSet(Connectors) -> {"connected", "disconnected", "on", "off"}]
    /\ \A c \in ToSet(Connectors) \ Ports : (step # "idle" /\ c = slot) \/ IsEmpty(c, status)

LEMMA CleanupLeavesEmpty ==
    ASSUME SlotInv, step # "idle", NEW env, Cleanup(env), Forgotten \/ Kept
    PROVE  SlotInv'
<1>1. status' = [status EXCEPT ![slot] = "off"]
  BY DEF Cleanup, set_connector_status
<1>2. \A c \in ToSet(Connectors) \ Ports : IsEmpty(c, status')
  BY <1>1 DEF SlotInv, IsEmpty
<1>3. QED
  BY <1>1, <1>2 DEF SlotInv, IsEmpty

\* A card that has a connector for a virtual display has one after any number of
\* sessions, ended or rolled back, with a desktop or without one.
THEOREM SlotsComeBack ==
    ASSUME \A card \in ToSet(Cards) : \E c : Usable(c) /\ c \notin Ports /\ CardOf[c] = card
    PROVE  Spec => []CanConnectAgain
<1> USE DEF vars, session
<1>1. Init => SlotInv
  BY DEF Init, SlotInv, IsEmpty
<1>2. SlotInv /\ [Next]_vars => SlotInv'
  <2> SUFFICES ASSUME SlotInv, [Next]_vars PROVE SlotInv'
    OBVIOUS
  <2>1. ASSUME NEW uid, NEW device, NEW m, NEW e, step = "idle", Connect(uid, device, m, e)
        PROVE  SlotInv'
    BY <2>1 DEF Connect, SlotInv, IsEmpty
  <2>2. CASE Disable \/ Place \/ Verify \/ \E uid \in Uids : Disconnect(uid)
    BY <2>2 DEF Disable, Place, Verify, Disconnect, SlotInv, IsEmpty
  <2>3. CASE Hotplug
    BY <2>3 DEF Hotplug, set_connector_status, SlotInv, IsEmpty
  <2>4. CASE Rollback \/ Restore
    BY <2>4, CleanupLeavesEmpty DEF Rollback, Restore
  <2>5. CASE UNCHANGED vars
    BY <2>5 DEF SlotInv, IsEmpty
  <2>6. QED
    BY <2>1, <2>2, <2>3, <2>4, <2>5 DEF Next
<1>3. SlotInv => CanConnectAgain
  <2> SUFFICES ASSUME SlotInv, step = "idle", NEW card \in ToSet(Cards)
               PROVE  find_empty_slot(card, status) # NoSlot
    BY DEF CanConnectAgain
  <2>1. PICK c : Usable(c) /\ c \notin Ports /\ CardOf[c] = card
    OBVIOUS
  <2>2. IsEmpty(c, status)
    BY <2>1 DEF SlotInv, Usable
  <2>3. QED
    BY <2>1, <2>2, FindsEmpty
<1>4. QED
  BY <1>1, <1>2, <1>3, PTL DEF Spec

-----------------------------------------------------------------------------
\* What the parsers make of a listing.  Induction over its lines is by the first
\* line that breaks the claim.

\* The scan for the active mode is the function its definition says.
NoMatch == [target |-> FALSE, enabled |-> FALSE, active |-> {}]

LEMMA MatchLinesUnfold ==
    ASSUME NEW text, Len(text) \in Nat
    PROVE  match_lines(text) =
             [i \in 0..Len(text) |->
                IF i = 0 THEN NoMatch ELSE MatchLine(match_lines(text)[i - 1], text[i])]
<1> DEFINE Scan(f, n) == [i \in 0..n |-> IF i = 0 THEN NoMatch ELSE MatchLine(f[i - 1], text[i])]
           Without == {n \in Nat : \A f : f # Scan(f, n)}
<1>1. Without = {}
  <2> SUFFICES ASSUME Without # {} PROVE FALSE
    OBVIOUS
  <2>1. PICK n \in Without : \A k \in Without : n =< k
    BY HasLeast
  <2>2. n # 0
    <3>1. Scan(<<>>, 0) = Scan(Scan(<<>>, 0), 0)
      OBVIOUS
    <3>2. QED
      BY <2>1, <3>1
  <2>3. n - 1 \in Nat /\ n - 1 \notin Without
    <3>1. n \in Nat
      BY <2>1
    <3>2. n - 1 \in Nat /\ ~(n =< n - 1)
      BY <2>2, <3>1
    <3> HIDE DEF Without
    <3>3. QED
      BY <2>1, <3>2
  <2>4. PICK g : g = Scan(g, n - 1)
    BY <2>3
  <2> DEFINE h == [i \in 0..n |-> IF i = n THEN MatchLine(g[n - 1], text[n]) ELSE g[i]]
  <2>5. ASSUME NEW i \in 0..n PROVE h[i] = Scan(h, n)[i]
    <3>1. CASE i = n
      BY <2>2, <3>1
    <3>2. CASE i # n /\ i # 0
      <4>1. i \in 0..(n - 1) /\ i - 1 \in 0..n /\ i - 1 # n
        BY <2>3, <3>2
      <4>2. h[i] = g[i] /\ h[i - 1] = g[i - 1]
        BY <3>2, <4>1
      <4>3. g[i] = MatchLine(g[i - 1], text[i])
        BY <2>4, <3>2, <4>1
      <4>4. QED
        BY <3>2, <4>2, <4>3
    <3>3. CASE i # n /\ i = 0
      BY <2>3, <2>4, <3>3
    <3>4. QED
      BY <3>1, <3>2, <3>3
  <2>6. h = Scan(h, n)
    BY <2>5
  <2>7. QED
    BY <2>1, <2>6
<1>2. \E f : f = Scan(f, Len(text))
  BY <1>1
<1>3. match_lines(text) = CHOOSE f : f = Scan(f, Len(text))
  BY DEF match_lines, NoMatch
<1>4. QED
  BY <1>2, <1>3

\* A listing has five lines for each output.
LEMMA ListingLines ==
    ASSUME NEW s, Len(s) \in Nat
    PROVE  /\ Len(Listing(s)) = 5 * Len(s)
           /\ \A i \in 1..Len(Listing(s)) :
                /\ Listing(s)[i] = Block(s[(i + 4) \div 5])[1 + ((i - 1) % 5)]
                /\ (i + 4) \div 5 \in 1..Len(s) /\ 1 + ((i - 1) % 5) \in 1..5
                /\ 1 + ((i - 1) % 5) # 1 => i # 1 /\ (i + 3) \div 5 = (i + 4) \div 5
BY DEF Listing

\* The active mode is that of the token marked with a star.
LEMMA FindsActive ==
    ASSUME NEW preferred, NEW active
    PROVE  find_active(ModeTokens(preferred, active)) = {active}
<1> DEFINE tokens == ModeTokens(preferred, active)
           on == {i \in 1..Len(tokens) : parse_active_mode_token(tokens[i]) # {}}
<1>1. /\ Len(tokens) \in {1, 2} /\ "*" \in tokens[Len(tokens)].marks
      /\ \A i \in 1..Len(tokens) : "*" \in tokens[i].marks => tokens[i].mode = active
  BY DEF ModeTokens
<1>2. on # {} /\ on \subseteq Nat
  BY <1>1 DEF parse_active_mode_token
<1>3. Min(on) \in on
  BY <1>2, MinIsMember
<1>4. QED
  BY <1>1, <1>2, <1>3 DEF find_active, parse_active_mode_token

\* One line of the block of output p: what it says of p is kept for the target only.
MatchSays(acc, p) ==
    /\ acc \in [target : BOOLEAN, enabled : BOOLEAN, active : SUBSET {layout[slot].mode}]
    /\ acc.target => p = slot
    /\ acc.enabled => layout[slot].enabled

LEMMA MatchLineSays ==
    ASSUME NEW acc, NEW p, NEW q, NEW k \in 1..5, MatchSays(acc, q), k # 1 => p = q
    PROVE  MatchSays(MatchLine(acc, Block(p)[k]), p)
<1> DEFINE line == Block(p)[k]
<1> USE DEF MatchSays
<1>1. CASE k = 1
  <2>1. line.line = "Output:" /\ line.name = p
    BY <1>1 DEF Block
  <2> HIDE DEF line
  <2>2. CASE p = slot
    <3>1. MatchLine(acc, line) = [target |-> TRUE, enabled |-> FALSE, active |-> {}]
      BY <2>1, <2>2 DEF MatchLine
    <3>2. QED
      BY <2>2, <3>1 DEF line
  <2>3. CASE p # slot
    <3>1. MatchLine(acc, line) = [acc EXCEPT !.target = FALSE]
      BY <2>1, <2>3 DEF MatchLine
    <3>2. QED
      BY <3>1 DEF line
  <2>4. QED
    BY <2>2, <2>3
<1>2. CASE k = 2
  <2>1. line.line = IF layout[p].enabled THEN "enabled" ELSE "disabled"
    BY <1>2 DEF Block
  <2>2. MatchLine(acc, line) =
          IF acc.target THEN [acc EXCEPT !.enabled = (line.line = "enabled")] ELSE acc
    BY <2>1 DEF MatchLine
  <2>3. QED
    BY <1>2, <2>1, <2>2
<1>3. CASE k = 4
  <2>1. line.line = "Modes:" /\ find_active(line.modes) = {layout[p].mode}
    BY <1>3, FindsActive DEF Block
  <2>2. MatchLine(acc, line) = IF acc.target THEN [acc EXCEPT !.active = {layout[p].mode}] ELSE acc
    BY <2>1 DEF MatchLine
  <2>3. QED
    BY <1>3, <2>2
<1>4. CASE k \in {3, 5}
  <2>1. line.line \in {"connected", "Geometry:"}
    BY <1>4 DEF Block
  <2>2. MatchLine(acc, line) = acc
    BY <2>1 DEF MatchLine
  <2>3. QED
    BY <1>4, <2>2
<1>5. QED
  BY <1>1, <1>2, <1>3, <1>4

\* In whatever order the outputs are listed, the scan ends with what is true of
\* the slot.
LEMMA MatchIsTrue ==
    ASSUME NEW s, Len(s) \in Nat, NEW m, active_mode_matches(Listing(s), m)
    PROVE  layout[slot].enabled /\ Runs(layout[slot].mode, m)
<1> DEFINE text == Listing(s)
           acc == match_lines(text)
           Wrong == {i \in 0..Len(text) : ~MatchSays(acc[i], IF i = 0 THEN slot ELSE s[(i + 4) \div 5])}
<1>1. Len(text) \in Nat
  BY ListingLines
<1>2. /\ acc[0] = NoMatch
      /\ \A i \in 1..Len(text) : acc[i] = MatchLine(acc[i - 1], text[i])
  <2> HIDE DEF text
  <2>1. acc = [i \in 0..Len(text) |-> IF i = 0 THEN NoMatch ELSE MatchLine(acc[i - 1], text[i])]
    BY <1>1, MatchLinesUnfold
  <2> HIDE DEF acc
  <2>2. QED
    BY <1>1, <2>1
<1>3. Wrong = {}
  <2> SUFFICES ASSUME Wrong # {} PROVE FALSE
    OBVIOUS
  <2>1. PICK i \in Wrong : \A j \in Wrong : i =< j
    <3>1. Wrong \subseteq Nat
      BY <1>1
    <3> HIDE DEF Wrong
    <3>2. QED
      BY <3>1, HasLeast
  <2>2. i # 0
    <3>1. MatchSays(acc[0], slot)
      BY <1>2 DEF MatchSays, NoMatch
    <3>2. QED
      BY <2>1, <3>1
  <2>3. i \in 1..Len(text) /\ i - 1 \in 0..Len(text) /\ i - 1 \notin Wrong
    BY <1>1, <2>1, <2>2
  <2> DEFINE p == s[(i + 4) \div 5]
             k == 1 + ((i - 1) % 5)
             q == IF i = 1 THEN slot ELSE s[(i + 3) \div 5]
  <2>4. MatchSays(acc[i - 1], q)
    <3>1. (i - 1) + 4 = i + 3 /\ (i - 1 = 0 <=> i = 1)
      BY <2>3
    <3>2. QED
      BY <2>3, <3>1
  <2>5. text[i] = Block(p)[k] /\ k \in 1..5 /\ (k # 1 => p = q)
    BY <2>3, ListingLines
  <2>6. acc[i] = MatchLine(acc[i - 1], Block(p)[k])
    BY <1>2, <2>3, <2>5
  <2> HIDE DEF p, q, k, acc, text
  <2>7. MatchSays(acc[i], p)
    <3>1. MatchSays(MatchLine(acc[i - 1], Block(p)[k]), p)
      BY <2>4, <2>5, MatchLineSays, Zenon
    <3>2. QED
      BY <2>6, <3>1
  <2>8. QED
    BY <2>1, <2>2, <2>7 DEF p
<1>4. \E p : MatchSays(acc[Len(text)], p)
  BY <1>1, <1>3
<1>5. acc[Len(text)].enabled /\ \E k \in acc[Len(text)].active : Runs(k, m)
  BY DEF active_mode_matches
<1> HIDE DEF acc, text
<1>6. QED
  BY <1>4, <1>5 DEF MatchSays

\* A session is Connected only when KWin drives the virtual connector itself in
\* the requested mode, whatever else is listed and in whatever order.
THEOREM VerifiedMeansDriven == Spec => []VerifiedIsDriven
<1> USE DEF vars, session
<1>1. Init => VerifiedIsDriven
  BY DEF Init, VerifiedIsDriven
<1>2. VerifiedIsDriven /\ [Next]_vars => VerifiedIsDriven'
  <2> SUFFICES ASSUME VerifiedIsDriven, [Next]_vars, step' = "connected"
               PROVE  layout'[slot'].enabled /\ Runs(layout'[slot'].mode, mode')
    BY DEF VerifiedIsDriven
  <2>1. CASE Verify
    <3>1. PICK text \in Listings : active_mode_matches(text, mode)
      BY <2>1 DEF Verify
    <3>2. PICK s \in SetToSeqs(Listed) : text = Listing(s)
      BY <3>1 DEF Listings
    <3>3. Len(s) \in Nat
      BY <3>2 DEF SetToSeqs
    <3>4. layout[slot].enabled /\ Runs(layout[slot].mode, mode)
      BY <3>1, <3>2, <3>3, MatchIsTrue
    <3>5. QED
      BY <2>1, <3>4 DEF Verify
  <2>2. ~\E uid \in Uids, device \in ToSet(Cards) \cup {NoDevice}, m \in Requested, e \in BOOLEAN :
           Connect(uid, device, m, e)
    BY DEF Connect
  <2>3. ~(Disable \/ Hotplug \/ Place \/ Rollback \/ Restore)
         /\ ~\E uid \in Uids : Disconnect(uid)
    BY DEF Disable, Hotplug, Place, Disconnect, Rollback, Restore, Forgotten, Kept
  <2>4. CASE UNCHANGED vars
    BY <2>4 DEF VerifiedIsDriven
  <2>5. QED
    BY <2>1, <2>2, <2>3, <2>4 DEF Next
<1>3. QED
  BY <1>1, <1>2, PTL DEF Spec

-----------------------------------------------------------------------------
\* The scan for the outputs is the function its definition says.
NothingParsed == [result |-> <<>>, current |-> 0]

LEMMA ParseLinesUnfold ==
    ASSUME NEW text, Len(text) \in Nat
    PROVE  parse_lines(text) =
             [i \in 0..Len(text) |->
                IF i = 0 THEN NothingParsed ELSE ParseLine(parse_lines(text)[i - 1], text[i])]
<1> DEFINE Scan(f, n) == [i \in 0..n |-> IF i = 0 THEN NothingParsed ELSE ParseLine(f[i - 1], text[i])]
           Without == {n \in Nat : \A f : f # Scan(f, n)}
<1>1. Without = {}
  <2> SUFFICES ASSUME Without # {} PROVE FALSE
    OBVIOUS
  <2>1. PICK n \in Without : \A k \in Without : n =< k
    BY HasLeast
  <2>2. n # 0
    <3>1. Scan(<<>>, 0) = Scan(Scan(<<>>, 0), 0)
      OBVIOUS
    <3>2. QED
      BY <2>1, <3>1
  <2>3. n - 1 \in Nat /\ n - 1 \notin Without
    <3>1. n \in Nat
      BY <2>1
    <3>2. n - 1 \in Nat /\ ~(n =< n - 1)
      BY <2>2, <3>1
    <3> HIDE DEF Without
    <3>3. QED
      BY <2>1, <3>2
  <2>4. PICK g : g = Scan(g, n - 1)
    BY <2>3
  <2> DEFINE h == [i \in 0..n |-> IF i = n THEN ParseLine(g[n - 1], text[n]) ELSE g[i]]
  <2>5. ASSUME NEW i \in 0..n PROVE h[i] = Scan(h, n)[i]
    <3>1. CASE i = n
      BY <2>2, <3>1
    <3>2. CASE i # n /\ i # 0
      <4>1. i \in 0..(n - 1) /\ i - 1 \in 0..n /\ i - 1 # n
        BY <2>3, <3>2
      <4>2. h[i] = g[i] /\ h[i - 1] = g[i - 1]
        BY <3>2, <4>1
      <4>3. g[i] = ParseLine(g[i - 1], text[i])
        BY <2>4, <3>2, <4>1
      <4>4. QED
        BY <3>2, <4>2, <4>3
    <3>3. CASE i # n /\ i = 0
      BY <2>3, <2>4, <3>3
    <3>4. QED
      BY <3>1, <3>2, <3>3
  <2>6. h = Scan(h, n)
    BY <2>5
  <2>7. QED
    BY <2>1, <2>6
<1>2. \E f : f = Scan(f, Len(text))
  BY <1>1
<1>3. parse_lines(text) = CHOOSE f : f = Scan(f, Len(text))
  BY DEF parse_lines, NothingParsed
<1>4. QED
  BY <1>2, <1>3

\* What a listing says of output q.
Seen(q) == [name |-> q, enabled |-> layout[q].enabled, x |-> layout[q].x,
            width |-> layout[q].mode.width]

ParsedOutputs == [name : Outputs, enabled : BOOLEAN,
                  x : {0} \cup {layout[q].x : q \in Outputs},
                  width : {0} \cup {layout[q].mode.width : q \in Outputs}]

\* The accumulator between two lines; all but the current entry are those of D.
ParseType(acc) == acc \in [result : Seq(ParsedOutputs), current : Nat]

Finished(acc, D) ==
    /\ \A n \in 1..Len(acc.result) : n # acc.current => \E q \in D \ BadNames : acc.result[n] = Seen(q)
    /\ \A q \in D \ BadNames : \E n \in 1..Len(acc.result) : n # acc.current /\ acc.result[n] = Seen(q)

\* After the k-th line of the block of p.
ParseSays(acc, D, p, k) ==
    /\ ParseType(acc) /\ Finished(acc, D)
    /\ p \in BadNames => acc.current = 0
    /\ p \notin BadNames =>
          /\ acc.current = Len(acc.result) /\ acc.current # 0
          /\ acc.result[acc.current].name = p
          /\ k \in 2..5 => acc.result[acc.current].enabled = layout[p].enabled
          /\ k = 5 => /\ acc.result[acc.current].x = layout[p].x
                      /\ acc.result[acc.current].width = layout[p].mode.width

\* Between two blocks.
ParsedSoFar(acc, D) ==
    /\ ParseType(acc)
    /\ \A n \in 1..Len(acc.result) : \E q \in D \ BadNames : acc.result[n] = Seen(q)
    /\ \A q \in D \ BadNames : \E n \in 1..Len(acc.result) : acc.result[n] = Seen(q)

LEMMA BlockEnds ==
    ASSUME NEW acc, NEW D, NEW p, ParseSays(acc, D, p, 5)
    PROVE  ParsedSoFar(acc, D \cup {p})
<1> USE DEF ParseSays, ParseType, Finished, ParsedSoFar
<1>1. CASE p \in BadNames
  BY <1>1
<1>2. CASE p \notin BadNames
  <2>1. acc.current \in 1..Len(acc.result)
    BY <1>2
  <2>2. acc.result[acc.current] = Seen(p)
    <3>1. acc.result[acc.current] \in ParsedOutputs
      BY <2>1
    <3>2. QED
      BY <1>2, <3>1 DEF ParsedOutputs, Seen
  <2>3. QED
    BY <1>2, <2>1, <2>2
<1>3. QED
  BY <1>1, <1>2

LEMMA BlockBegins ==
    ASSUME NEW acc, NEW D, NEW p \in Outputs, ParsedSoFar(acc, D)
    PROVE  ParseSays(ParseLine(acc, Block(p)[1]), D, p, 1)
<1> DEFINE line == Block(p)[1]
           next == ParseLine(acc, line)
<1> USE DEF ParseType, Finished, ParsedSoFar
<1>1. line.line = "Output:" /\ line.name = p
  BY DEF Block
<1> HIDE DEF line
<1>2. CASE p \in BadNames
  <2>1. next = [acc EXCEPT !.current = 0]
    BY <1>1, <1>2 DEF ParseLine
  <2>2. QED
    BY <1>2, <2>1 DEF ParseSays, line
<1>3. CASE p \notin BadNames
  <2>1. next = [result |-> Append(acc.result, NewOutput(p)), current |-> Len(acc.result) + 1]
    BY <1>1, <1>3 DEF ParseLine
  <2>2. NewOutput(p) \in ParsedOutputs /\ NewOutput(p).name = p
    BY DEF NewOutput, ParsedOutputs
  <2>3. /\ next.result \in Seq(ParsedOutputs) /\ Len(next.result) = Len(acc.result) + 1
        /\ \A n \in 1..Len(acc.result) : next.result[n] = acc.result[n]
        /\ next.result[next.current] = NewOutput(p)
    BY <2>1, <2>2
  <2>4. Finished(next, D)
    BY <2>1, <2>3
  <2>5. next.current = Len(next.result) /\ next.current # 0 /\ ParseType(next)
    BY <2>1, <2>3
  <2> HIDE DEF next
  <2>6. QED
    BY <1>3, <2>2, <2>3, <2>4, <2>5 DEF ParseSays, next, line
<1>4. QED
  BY <1>2, <1>3

\* The lines that follow change nothing but the current entry.
LEMMA CurrentReplaced ==
    ASSUME NEW acc, NEW D, ParseType(acc), Finished(acc, D), acc.current \in 1..Len(acc.result),
           NEW e \in ParsedOutputs
    PROVE  LET next == [acc EXCEPT !.result = [acc.result EXCEPT ![acc.current] = e]]
           IN  /\ ParseType(next) /\ Finished(next, D) /\ next.current = acc.current
               /\ Len(next.result) = Len(acc.result) /\ next.result[acc.current] = e
<1> DEFINE next == [acc EXCEPT !.result = [acc.result EXCEPT ![acc.current] = e]]
           result == [acc.result EXCEPT ![acc.current] = e]
<1>1. acc \in [result : Seq(ParsedOutputs), current : Nat]
  BY DEF ParseType
<1>2. /\ result \in Seq(ParsedOutputs) /\ Len(result) = Len(acc.result)
      /\ result[acc.current] = e
      /\ \A n \in 1..Len(acc.result) : n # acc.current => result[n] = acc.result[n]
  BY <1>1
<1>3. next = [result |-> result, current |-> acc.current]
  BY <1>1
<1> HIDE DEF next, result
<1>4. next.result = result /\ next.current = acc.current
  BY <1>3
<1>5. ParseType(next)
  BY <1>1, <1>2, <1>3 DEF ParseType
<1>6. Finished(next, D)
  BY <1>2, <1>4 DEF Finished
<1>7. QED
  BY <1>2, <1>4, <1>5, <1>6 DEF next

LEMMA BlockContinues ==
    ASSUME NEW acc, NEW D, NEW p \in Outputs, NEW k \in 2..5, layout[p].enabled \in BOOLEAN,
           ParseSays(acc, D, p, k - 1)
    PROVE  ParseSays(ParseLine(acc, Block(p)[k]), D, p, k)
<1> DEFINE line == Block(p)[k]
           next == ParseLine(acc, line)
<1>1. line.line # "Output:"
  BY DEF Block
<1>2. CASE p \in BadNames
  <2>1. next = acc
    BY <1>1, <1>2 DEF ParseLine, ParseSays
  <2>2. QED
    BY <1>2, <2>1 DEF ParseSays
<1>3. CASE p \notin BadNames
  <2> DEFINE old == acc.result[acc.current]
             Put(e) == [acc EXCEPT !.result = [acc.result EXCEPT ![acc.current] = e]]
  <2>1. /\ acc.current = Len(acc.result) /\ acc.current \in 1..Len(acc.result)
        /\ old \in ParsedOutputs /\ old.name = p
        /\ k - 1 \in 2..5 => old.enabled = layout[p].enabled
    BY <1>3 DEF ParseSays, ParseType
  <2>2. ASSUME NEW e \in ParsedOutputs, next = Put(e), e.name = p,
               e.enabled = layout[p].enabled,
               k = 5 => e.x = layout[p].x /\ e.width = layout[p].mode.width
        PROVE  ParseSays(next, D, p, k)
    <3>1. ParseType(acc) /\ Finished(acc, D)
      BY DEF ParseSays
    <3>2. LET replaced == Put(e)
          IN  /\ ParseType(replaced) /\ Finished(replaced, D) /\ replaced.current = acc.current
              /\ Len(replaced.result) = Len(acc.result) /\ replaced.result[acc.current] = e
      BY <2>1, <2>2, <3>1, CurrentReplaced, Zenon
    <3>3. /\ ParseType(next) /\ Finished(next, D) /\ next.current = acc.current
          /\ Len(next.result) = Len(acc.result) /\ next.result[acc.current] = e
      <4> HIDE DEF Put, next
      <4>1. QED
        BY <2>2, <3>2
    <3> HIDE DEF next
    <3>4. QED
      BY <1>3, <2>1, <2>2, <3>3 DEF ParseSays
  <2>3. CASE k = 2
    <3>1. line.line = IF layout[p].enabled THEN "enabled" ELSE "disabled"
      BY <2>3 DEF Block
    <3>2. next = [acc EXCEPT !.result[acc.current].enabled = (line.line = "enabled")]
      BY <2>1, <3>1 DEF ParseLine
    <3> DEFINE e == [old EXCEPT !.enabled = layout[p].enabled]
    <3>3. next = Put(e)
      BY <3>1, <3>2
    <3>4. e \in ParsedOutputs /\ e.name = p /\ e.enabled = layout[p].enabled
      BY <2>1 DEF ParsedOutputs
    <3> HIDE DEF e, next, Put
    <3>5. QED
      BY <2>2, <2>3, <3>3, <3>4 DEF next
  <2>4. CASE k \in {3, 4}
    <3>1. line.line \in {"connected", "Modes:"}
      BY <2>4 DEF Block
    <3>2. next = acc
      BY <3>1 DEF ParseLine
    <3>3. QED
      BY <1>3, <2>1, <2>4, <3>2 DEF ParseSays
  <2>5. CASE k = 5
    <3>1. line.line = "Geometry:" /\ line.x = layout[p].x /\ line.width = layout[p].mode.width
      BY <2>5 DEF Block
    <3>2. next = [acc EXCEPT !.result[acc.current].x = line.x,
                             !.result[acc.current].width = line.width]
      BY <2>1, <3>1 DEF ParseLine
    <3> DEFINE moved == [old EXCEPT !.x = line.x]
               e == [moved EXCEPT !.width = line.width]
    <3>3. next = Put(e)
      <4>1. acc \in [result : Seq(ParsedOutputs), current : Nat]
        BY <1>3 DEF ParseSays, ParseType
      <4>2. acc.current \in DOMAIN acc.result
        BY <2>1, <4>1
      <4> HIDE DEF line
      <4>3. QED
        BY <3>2, <4>1, <4>2
    <3>4. moved \in ParsedOutputs /\ moved.name = p /\ moved.x = layout[p].x
           /\ moved.enabled = layout[p].enabled
      BY <2>1, <2>5, <3>1 DEF ParsedOutputs
    <3>5. /\ e \in ParsedOutputs /\ e.name = p /\ e.enabled = layout[p].enabled
          /\ e.x = layout[p].x /\ e.width = layout[p].mode.width
      <4> HIDE DEF moved, line
      <4>1. QED
        BY <3>1, <3>4 DEF ParsedOutputs
    <3> HIDE DEF e, next, Put
    <3>6. QED
      BY <2>2, <2>5, <3>3, <3>5 DEF next
  <2>6. QED
    BY <2>3, <2>4, <2>5
<1>4. QED
  BY <1>2, <1>3

\* The five lines of a block add what they say of its output, unless its name is
\* rejected.
LEMMA BlockParsed ==
    ASSUME NEW f, NEW i \in Nat, NEW D, NEW p \in Outputs, layout[p].enabled \in BOOLEAN,
           ParsedSoFar(f[i], D),
           \A k \in 1..5 : f[i + k] = ParseLine(f[i + k - 1], Block(p)[k])
    PROVE  ParsedSoFar(f[i + 5], D \cup {p})
<1>1. ParseSays(f[i + 1], D, p, 1)
  BY BlockBegins
<1>2. ASSUME NEW k \in 2..5, ParseSays(f[i + k - 1], D, p, k - 1)
      PROVE  ParseSays(f[i + k], D, p, k)
  <2>1. f[i + k] = ParseLine(f[i + k - 1], Block(p)[k])
    BY <1>2
  <2>2. ParseSays(ParseLine(f[i + k - 1], Block(p)[k]), D, p, k)
    BY <1>2, BlockContinues, Zenon
  <2>3. QED
    BY <2>1, <2>2
<1>3. ParseSays(f[i + 2], D, p, 2)
  BY <1>1, <1>2
<1>4. ParseSays(f[i + 3], D, p, 3)
  BY <1>2, <1>3
<1>5. ParseSays(f[i + 4], D, p, 4)
  BY <1>2, <1>4
<1>6. ParseSays(f[i + 5], D, p, 5)
  BY <1>2, <1>5
<1>7. QED
  BY <1>6, BlockEnds

\* What the snapshot and the placement are made from: an entry for each listed
\* output with a name, which says what is true of it, and no other.
LEMMA ListingParsed ==
    ASSUME NEW s, Len(s) \in Nat,
           \A n \in 1..Len(s) : s[n] \in Outputs /\ layout[s[n]].enabled \in BOOLEAN
    PROVE  LET r == parse_outputs(Listing(s))
               D == {s[n] : n \in 1..Len(s)}
           IN  /\ r \in Seq(ParsedOutputs)
               /\ \A n \in 1..Len(r) : \E q \in D \ BadNames : r[n] = Seen(q)
               /\ \A q \in D \ BadNames : \E n \in 1..Len(r) : r[n] = Seen(q)
<1> DEFINE text == Listing(s)
           acc == parse_lines(text)
           Upto(n) == {s[m] : m \in 1..n}
           Wrong == {n \in 0..Len(s) : ~ParsedSoFar(acc[5 * n], Upto(n))}
<1>1. Len(text) \in Nat /\ Len(text) = 5 * Len(s)
  BY ListingLines
<1>2. /\ acc[0] = NothingParsed
      /\ \A i \in 1..Len(text) : acc[i] = ParseLine(acc[i - 1], text[i])
  <2> HIDE DEF text
  <2>1. acc = [i \in 0..Len(text) |-> IF i = 0 THEN NothingParsed ELSE ParseLine(acc[i - 1], text[i])]
    BY <1>1, ParseLinesUnfold
  <2> HIDE DEF acc
  <2>2. QED
    BY <1>1, <2>1
<1>3. Wrong = {}
  <2> SUFFICES ASSUME Wrong # {} PROVE FALSE
    OBVIOUS
  <2>1. PICK n \in Wrong : \A j \in Wrong : n =< j
    <3>1. Wrong \subseteq Nat
      OBVIOUS
    <3> HIDE DEF Wrong
    <3>2. QED
      BY <3>1, HasLeast
  <2>2. n # 0
    <3>1. ParsedSoFar(NothingParsed, {})
      BY DEF ParsedSoFar, ParseType, NothingParsed
    <3>2. Upto(0) = {} /\ acc[5 * 0] = NothingParsed
      BY <1>2
    <3> HIDE DEF acc, Upto
    <3>3. QED
      BY <2>1, <3>1, <3>2
  <2>3. n \in 1..Len(s) /\ n - 1 \in 0..Len(s) /\ n - 1 \notin Wrong
    <3>1. n \in 1..Len(s) /\ n - 1 \in 0..Len(s) /\ ~(n =< n - 1)
      BY <2>1, <2>2
    <3> HIDE DEF Wrong
    <3>2. QED
      BY <2>1, <3>1
  <2> DEFINE i == 5 * (n - 1)
  <2>4. ParsedSoFar(acc[i], Upto(n - 1)) /\ i \in Nat /\ i + 5 = 5 * n
    BY <2>3
  <2>5. ASSUME NEW k \in 1..5 PROVE acc[i + k] = ParseLine(acc[i + k - 1], Block(s[n])[k])
    <3>1. i + k \in 1..Len(text) /\ ((i + k) + 4) \div 5 = n /\ 1 + (((i + k) - 1) % 5) = k
      <4>1. n \in Nat /\ n \in 1..Len(s)
        BY <2>3
      <4>2. i + k \in 1..Len(text)
        BY <1>1, <4>1
      <4>3. ((i + k) + 4) \div 5 = n
        BY <4>1
      <4>4. ((i + k) - 1) % 5 = k - 1
        BY <4>1
      <4>5. QED
        BY <4>2, <4>3, <4>4
    <3>2. text[i + k] = Block(s[n])[k]
      <4>1. \A j \in 1..Len(text) : text[j] = Block(s[(j + 4) \div 5])[1 + ((j - 1) % 5)]
        BY ListingLines
      <4> HIDE DEF text, i
      <4>2. QED
        BY <3>1, <4>1, Zenon
    <3> HIDE DEF acc, text, i
    <3>3. QED
      BY <1>2, <2>4, <3>1, <3>2
  <2>6. Upto(n) = Upto(n - 1) \cup {s[n]}
    BY <2>3
  <2> HIDE DEF acc, Upto, i
  <2>7. ParsedSoFar(acc[i + 5], Upto(n - 1) \cup {s[n]})
    BY <2>3, <2>4, <2>5, BlockParsed
  <2>8. QED
    BY <2>1, <2>4, <2>6, <2>7
<1>4. ParsedSoFar(acc[Len(text)], Upto(Len(s)))
  <2>1. ParsedSoFar(acc[5 * Len(s)], Upto(Len(s)))
    <3>1. Len(s) \in 0..Len(s)
      OBVIOUS
    <3> HIDE DEF acc, Upto
    <3>2. QED
      BY <1>3, <3>1
  <2>2. QED
    BY <1>1, <2>1
<1>5. parse_outputs(text) = acc[Len(text)].result
  BY DEF parse_outputs
<1> HIDE DEF acc, text
<1>6. QED
  BY <1>4, <1>5 DEF ParsedSoFar, ParseType, text

-----------------------------------------------------------------------------
\* What the outputs look like, and which of them are listed.
PortStates == [enabled : BOOLEAN, x : Int, mode : {ScreenMode}]

IsLayout(l) ==
    /\ l = [q \in Outputs |-> l[q]]
    /\ \A q \in Outputs : l[q].enabled \in BOOLEAN
    /\ \A q \in Ports : l[q] \in PortStates

\* Only the connector in use is forced on, and it has no monitor.
ScreenInv ==
    /\ IsLayout(layout)
    /\ status \in [ToSet(Connectors) -> {"connected", "disconnected", "on", "off"}]
    /\ \A c \in ToSet(Connectors) : status[c] = "on" => step # "idle" /\ c = slot
    /\ \A c \in ToSet(Connectors) \cap Ports : status[c] = "connected"
    /\ step # "idle" => slot \in ToSet(Connectors) \ Ports

LEMMA SlotChanges ==
    ASSUME slot \in Outputs \ Ports, NEW l, IsLayout(l), NEW e, e.enabled \in BOOLEAN
    PROVE  /\ IsLayout([l EXCEPT ![slot] = e]) /\ [l EXCEPT ![slot] = e][slot] = e
           /\ \A q \in Ports : [l EXCEPT ![slot] = e][q] = l[q]
<1> DEFINE k == [l EXCEPT ![slot] = e]
<1>1. k = [q \in Outputs |-> IF q = slot THEN e ELSE l[q]]
  BY DEF IsLayout
<1> HIDE DEF k
<1>2. \A q \in Outputs : k[q] = IF q = slot THEN e ELSE l[q]
  BY <1>1
<1>3. k = [q \in Outputs |-> k[q]]
  BY <1>1, <1>2
<1>4. Ports \subseteq Outputs
  BY DEF Outputs
<1>5. IsLayout(k) /\ k[slot] = e /\ \A q \in Ports : k[q] = l[q]
  BY <1>2, <1>3, <1>4 DEF IsLayout
<1>6. QED
  BY <1>5 DEF k

LEMMA MovedIsLayout ==
    ASSUME NEW l, IsLayout(l), NEW k \in Moved(l)
    PROVE  IsLayout(k)
<1>1. PICK x \in Positions :
        k = [q \in Outputs |-> IF q \in Ports /\ l[q].enabled THEN [l[q] EXCEPT !.x = x[q]] ELSE l[q]]
  BY DEF Moved
<1>2. \A q \in Ports : x[q] \in Int
  BY KScreenAssumption DEF Positions
<1>3. \A q \in Ports : k[q] \in PortStates
  <2>1. SUFFICES ASSUME NEW q \in Ports PROVE k[q] \in PortStates
    OBVIOUS
  <2>2. l[q] \in PortStates /\ q \in Outputs
    BY DEF IsLayout, Outputs
  <2>3. [l[q] EXCEPT !.x = x[q]] \in PortStates
    BY <1>2, <2>2 DEF PortStates
  <2>4. QED
    BY <1>1, <2>2, <2>3
<1>4. \A q \in Outputs : k[q].enabled \in BOOLEAN
  <2>1. \A q \in Outputs \ Ports : k[q] = l[q]
    BY <1>1
  <2>2. QED
    BY <1>3, <2>1 DEF IsLayout, PortStates
<1>5. k = [q \in Outputs |-> k[q]]
  BY <1>1
<1>6. QED
  BY <1>3, <1>4, <1>5 DEF IsLayout

LEMMA DisabledIsLayout ==
    ASSUME NEW l, IsLayout(l)
    PROVE  IsLayout(Disabled(l))
<1> DEFINE off == Output(FALSE, 0, ScreenMode)
           k == Disabled(l)
<1>1. k = [q \in Outputs |-> IF q \in to_disable THEN off ELSE l[q]]
  BY DEF Disabled
<1>2. off = [enabled |-> FALSE, x |-> 0, mode |-> ScreenMode]
  BY DEF Output
<1> HIDE DEF off, k
<1>3. off \in PortStates /\ off.enabled \in BOOLEAN
  BY <1>2 DEF PortStates
<1>4. k = [q \in Outputs |-> k[q]] /\ Ports \subseteq Outputs
  BY <1>1 DEF Outputs
<1>5. QED
  BY <1>1, <1>3, <1>4 DEF IsLayout, k

LEMMA HotplugIsLayout ==
    ASSUME ScreenInv, Hotplug
    PROVE  IsLayout(layout')
<1>1. PICK on \in BOOLEAN, x \in Coordinates, k \in {ScreenMode, EdidMode} :
        layout' = [layout EXCEPT ![slot] = Output(on, x, k)]
  BY DEF Hotplug
<1>2. Output(on, x, k).enabled = on /\ slot \in Outputs \ Ports
  BY DEF Output, Hotplug, ScreenInv, Outputs
<1> DEFINE e == Output(on, x, k)
<1> HIDE DEF e
<1>3. IsLayout([layout EXCEPT ![slot] = e])
  BY <1>2, SlotChanges DEF ScreenInv, e
<1>4. QED
  BY <1>1, <1>3 DEF e

\* Where the display is put, unless KWin ignores the placement.
LEMMA PlaceSetsSlot ==
    ASSUME ScreenInv, Place
    PROVE  /\ IsLayout(layout')
           /\ layout' # layout => \E text \in Listings : layout'[slot].x = VirtualX(text)
<1>1. slot \in Outputs \ Ports
  BY DEF Place, ScreenInv, Outputs
<1>2. CASE layout' = layout
  BY <1>2 DEF ScreenInv
<1>3. CASE layout' # layout
  <2> DEFINE at(virtual_x, l) ==
               Output(TRUE, virtual_x, IF Runs(EdidMode, mode) THEN EdidMode ELSE l[slot].mode)
  <2>1. PICK virtual_x \in {VirtualX(text) : text \in Listings} :
          \E l \in Moved([layout EXCEPT ![slot] = at(virtual_x, layout)]) :
            layout' = [l EXCEPT ![slot] = at(virtual_x, l)]
    BY <1>3 DEF Place
  <2>2. PICK l \in Moved([layout EXCEPT ![slot] = at(virtual_x, layout)]) :
          layout' = [l EXCEPT ![slot] = at(virtual_x, l)]
    BY <2>1
  <2>3. at(virtual_x, l).enabled \in BOOLEAN /\ at(virtual_x, layout).enabled \in BOOLEAN
         /\ at(virtual_x, l).x = virtual_x
    BY DEF Output
  <2> HIDE DEF at
  <2>4. IsLayout([layout EXCEPT ![slot] = at(virtual_x, layout)])
    BY <1>1, <2>3, SlotChanges DEF ScreenInv
  <2>5. IsLayout(l)
    BY <2>2, <2>4, MovedIsLayout, Zenon
  <2>6. LET k == [l EXCEPT ![slot] = at(virtual_x, l)]
        IN  IsLayout(k) /\ k[slot] = at(virtual_x, l)
    BY <1>1, <2>3, <2>5, SlotChanges
  <2>7. IsLayout(layout') /\ layout'[slot] = at(virtual_x, l)
    BY <2>2, <2>6
  <2>8. QED
    BY <2>1, <2>3, <2>7
<1>4. QED
  BY <1>2, <1>3

\* The layout after each of the outputs of a snapshot is the function its
\* definition says.
LEMMA RestoreEachUnfold ==
    ASSUME NEW l, Len(previous_layout) \in Nat
    PROVE  restore_each(l) =
             [i \in 0..Len(previous_layout) |->
                IF i = 0 THEN l ELSE RestoredAt(restore_each(l)[i - 1], previous_layout[i])]
<1> DEFINE Scan(f, n) == [i \in 0..n |-> IF i = 0 THEN l ELSE RestoredAt(f[i - 1], previous_layout[i])]
           Without == {n \in Nat : \A f : f # Scan(f, n)}
<1>1. Without = {}
  <2> SUFFICES ASSUME Without # {} PROVE FALSE
    OBVIOUS
  <2>1. PICK n \in Without : \A k \in Without : n =< k
    BY HasLeast
  <2>2. n # 0
    <3>1. Scan(<<>>, 0) = Scan(Scan(<<>>, 0), 0)
      OBVIOUS
    <3>2. QED
      BY <2>1, <3>1
  <2>3. n - 1 \in Nat /\ n - 1 \notin Without
    <3>1. n \in Nat
      BY <2>1
    <3>2. n - 1 \in Nat /\ ~(n =< n - 1)
      BY <2>2, <3>1
    <3> HIDE DEF Without
    <3>3. QED
      BY <2>1, <3>2
  <2>4. PICK g : g = Scan(g, n - 1)
    BY <2>3
  <2> DEFINE h == [i \in 0..n |-> IF i = n THEN RestoredAt(g[n - 1], previous_layout[n]) ELSE g[i]]
  <2>5. ASSUME NEW i \in 0..n PROVE h[i] = Scan(h, n)[i]
    <3>1. CASE i = n
      BY <2>2, <3>1
    <3>2. CASE i # n /\ i # 0
      <4>1. i \in 0..(n - 1) /\ i - 1 \in 0..n /\ i - 1 # n
        BY <2>3, <3>2
      <4>2. h[i] = g[i] /\ h[i - 1] = g[i - 1]
        BY <3>2, <4>1
      <4>3. g[i] = RestoredAt(g[i - 1], previous_layout[i])
        BY <2>4, <3>2, <4>1
      <4>4. QED
        BY <3>2, <4>2, <4>3
    <3>3. CASE i # n /\ i = 0
      BY <2>3, <2>4, <3>3
    <3>4. QED
      BY <3>1, <3>2, <3>3
  <2>6. h = Scan(h, n)
    BY <2>5
  <2>7. QED
    BY <2>1, <2>6
<1>2. \E f : f = Scan(f, Len(previous_layout))
  BY <1>1
<1>3. restore_each(l) = CHOOSE f : f = Scan(f, Len(previous_layout))
  BY DEF restore_each
<1>4. QED
  BY <1>2, <1>3

-----------------------------------------------------------------------------
\* A listing is about every output that is listed.
LEMMA EveryoneListed ==
    ASSUME NEW s \in SetToSeqs(Listed)
    PROVE  Len(s) \in Nat /\ Listed = {s[n] : n \in 1..Len(s)}
<1> DEFINE all == {Connectors[i] : i \in 1..Len(Connectors)}
<1>1. IsFiniteSet(ToSet(Connectors))
  <2>1. Connectors \in Seq(ToSet(Connectors)) /\ Len(Connectors) \in Nat
         /\ DOMAIN Connectors = 1..Len(Connectors)
    BY ConnectorsAssumption
  <2>2. Connectors \in Surjection(1..Len(Connectors), ToSet(Connectors))
    BY <2>1 DEF Surjection, ToSet
  <2>3. IsFiniteSet(1..Len(Connectors))
    BY <2>1, FS_Interval
  <2>4. QED
    BY <2>2, <2>3, FS_Surjection
<1>2. IsFiniteSet(Ports \cup ToSet(Connectors))
  BY <1>1, KScreenAssumption, FS_Union
<1>3. IsFiniteSet(Listed)
  BY <1>2, FS_Subset DEF Listed
<1> DEFINE n == Cardinality(Listed)
<1>4. n \in Nat
  BY <1>3, FS_CardinalityType
<1>5. s \in Injection(1..n, Listed)
  BY DEF SetToSeqs, Injection, IsInjective
<1>6. Cardinality(1..n) = n
  BY <1>4, FS_Interval
<1>7. s \in Surjection(1..n, Listed)
  BY <1>3, <1>5, <1>6, FS_Injection
<1>8. s \in [1..n -> Listed] /\ Len(s) = n
  BY <1>4 DEF SetToSeqs
<1>9. QED
  BY <1>4, <1>7, <1>8 DEF Surjection

\* In whatever order the outputs are listed, the parser finds those with a name.
LEMMA ListingsSay ==
    ASSUME ScreenInv, NEW text \in Listings
    PROVE  LET r == parse_outputs(text)
           IN  /\ r \in Seq(ParsedOutputs)
               /\ \A n \in 1..Len(r) : \E q \in Listed \ BadNames : r[n] = Seen(q)
               /\ \A q \in Listed \ BadNames : \E n \in 1..Len(r) : r[n] = Seen(q)
<1>1. PICK s \in SetToSeqs(Listed) : text = Listing(s)
  BY DEF Listings
<1>2. Len(s) \in Nat /\ Listed = {s[n] : n \in 1..Len(s)}
  BY EveryoneListed
<1>3. Listed \subseteq Outputs
  BY DEF Listed, Outputs
<1>4. \A n \in 1..Len(s) : s[n] \in Outputs /\ layout[s[n]].enabled \in BOOLEAN
  BY <1>2, <1>3 DEF ScreenInv, IsLayout
<1> DEFINE D == {s[n] : n \in 1..Len(s)}
           r == parse_outputs(Listing(s))
<1>5. /\ r \in Seq(ParsedOutputs)
      /\ \A n \in 1..Len(r) : \E q \in D \ BadNames : r[n] = Seen(q)
      /\ \A q \in D \ BadNames : \E n \in 1..Len(r) : r[n] = Seen(q)
  BY <1>2, <1>4, ListingParsed, Zenon
<1>6. D = Listed /\ r = parse_outputs(text)
  BY <1>1, <1>2
<1> HIDE DEF D, r
<1>7. QED
  BY <1>5, <1>6

\* A finite set of integers has a greatest member.
LEMMA HasGreatest ==
    ASSUME NEW g, NEW n \in Nat, NEW I \in SUBSET (1..n), I # {}, \A i \in I : g[i] \in Int
    PROVE  \E i \in I : \A j \in I : g[j] =< g[i]
<1> DEFINE Without == {k \in Nat : \E J \in SUBSET (1..k) :
                         J # {} /\ J \subseteq I /\ \A i \in J : \E j \in J : ~(g[j] =< g[i])}
<1>1. Without = {}
  <2> SUFFICES ASSUME Without # {} PROVE FALSE
    OBVIOUS
  <2>1. PICK k \in Without : \A m \in Without : k =< m
    <3>1. Without \subseteq Nat
      OBVIOUS
    <3> HIDE DEF Without
    <3>2. QED
      BY <3>1, HasLeast
  <2>2. PICK J \in SUBSET (1..k) :
          J # {} /\ J \subseteq I /\ \A i \in J : \E j \in J : ~(g[j] =< g[i])
    BY <2>1
  <2>3. k - 1 \in Nat /\ k - 1 \notin Without
    <3>1. k \in Nat
      BY <2>1
    <3>2. PICK i \in J : i \in 1..k
      BY <2>2
    <3>3. k - 1 \in Nat /\ ~(k =< k - 1)
      BY <3>1, <3>2
    <3> HIDE DEF Without
    <3>4. QED
      BY <2>1, <3>3
  <2>4. \A K \in SUBSET (1..(k - 1)) : 
          K # {} /\ K \subseteq I => \E i \in K : \A j \in K : g[j] =< g[i]
    BY <2>3
  <2>5. k \in J
    <3>1. k \notin J => J \in SUBSET (1..(k - 1))
      BY <2>1
    <3>2. QED
      BY <2>2, <2>4, <3>1
  <2>6. J \ {k} \in SUBSET (1..(k - 1)) /\ J \ {k} \subseteq I
    BY <2>1, <2>2
  <2>7. J \ {k} # {}
    BY <2>2, <2>5
  <2>8. PICK i \in J \ {k} : \A j \in J \ {k} : g[j] =< g[i]
    BY <2>4, <2>6, <2>7
  <2>9. \A j \in J : g[j] \in Int
    BY <2>2
  <2>10. QED
    BY <2>2, <2>5, <2>8, <2>9
<1>2. QED
  BY <1>1

-----------------------------------------------------------------------------
\* The snapshot has what the user had of each output with a name.
Snapped(q) == [name |-> q, enabled |-> userLayout[q].enabled, x |-> userLayout[q].x,
               width |-> userLayout[q].mode.width]

SnapInv ==
    step # "idle" =>
      /\ IsLayout(userLayout) /\ Len(previous_layout) \in Nat
      /\ \A n \in 1..Len(previous_layout) :
           \E q \in Ports \ BadNames : previous_layout[n] = Snapped(q)
      /\ \A q \in Ports \ BadNames :
           \E n \in 1..Len(previous_layout) : previous_layout[n] = Snapped(q)

\* One output is put back; no other monitor is touched.
LEMMA RestoresOne ==
    ASSUME ScreenInv, step # "idle", IsLayout(userLayout), NEW l, IsLayout(l), NEW q \in Ports
    PROVE  LET k == RestoredAt(l, Snapped(q))
           IN  /\ IsLayout(k) /\ \A p \in Ports \ {q} : k[p] = l[p]
               /\ userLayout[q].enabled => k[q].enabled /\ k[q].x = userLayout[q].x
<1> DEFINE o == Snapped(q)
           k == RestoredAt(l, o)
<1>1. /\ q \in Outputs /\ q # slot /\ l[q] \in PortStates
      /\ userLayout[q].enabled \in BOOLEAN /\ userLayout[q].x \in Int
  BY DEF ScreenInv, IsLayout, Outputs, PortStates
<1>2. o.name = q /\ o.enabled = userLayout[q].enabled /\ o.x = userLayout[q].x
  BY DEF Snapped
<1> HIDE DEF o
<1>3. CASE userLayout[q].enabled
  <2> DEFINE e == [[l[q] EXCEPT !.enabled = TRUE] EXCEPT !.x = o.x]
  <2>1. e \in PortStates /\ e.enabled = TRUE /\ e.x = userLayout[q].x
    <3> DEFINE d == [l[q] EXCEPT !.enabled = TRUE]
    <3>1. d \in PortStates /\ d.enabled = TRUE
      BY <1>1 DEF PortStates
    <3> HIDE DEF d
    <3>2. [d EXCEPT !.x = o.x] \in PortStates /\ [d EXCEPT !.x = o.x].enabled = TRUE
           /\ [d EXCEPT !.x = o.x].x = o.x
      BY <1>1, <1>2, <3>1 DEF PortStates
    <3>3. QED
      BY <1>2, <3>2 DEF d
  <2>2. k = [l EXCEPT ![q].enabled = TRUE, ![q].x = o.x]
    BY <1>1, <1>2, <1>3 DEF RestoredAt
  <2>3. k = [p \in Outputs |-> IF p = q THEN e ELSE l[p]]
    BY <1>1, <2>2 DEF IsLayout
  <2> HIDE DEF e, k
  <2>4. \A p \in Outputs : k[p] = IF p = q THEN e ELSE l[p]
    BY <2>3
  <2>5. k = [p \in Outputs |-> k[p]] /\ Ports \subseteq Outputs
    BY <2>3, <2>4 DEF Outputs
  <2>6. QED
    BY <1>1, <2>1, <2>4, <2>5 DEF IsLayout, k, o
<1>4. CASE ~userLayout[q].enabled
  <2>1. k = l
    BY <1>2, <1>4 DEF RestoredAt
  <2>2. QED
    BY <1>4, <2>1 DEF o
<1>5. QED
  BY <1>3, <1>4

\* Whatever the layout is by then, the arguments made from the snapshot bring the
\* user's outputs back.
LEMMA RestoresAll ==
    ASSUME ScreenInv, SnapInv, step # "idle", NEW l, IsLayout(l)
    PROVE  /\ IsLayout(Restored(l))
           /\ \A p \in Ports \ BadNames :
                userLayout[p].enabled =>
                  Restored(l)[p].enabled /\ Restored(l)[p].x = userLayout[p].x
<1> DEFINE after == restore_each(l)
           Back(k, i) ==
             /\ IsLayout(k)
             /\ \A n \in 1..i, q \in Ports :
                  previous_layout[n] = Snapped(q) /\ userLayout[q].enabled =>
                    k[q].enabled /\ k[q].x = userLayout[q].x
           Wrong == {i \in 0..Len(previous_layout) : ~Back(after[i], i)}
<1>1. Len(previous_layout) \in Nat /\ IsLayout(userLayout)
  BY DEF SnapInv
<1>2. /\ after[0] = l
      /\ \A i \in 1..Len(previous_layout) : after[i] = RestoredAt(after[i - 1], previous_layout[i])
  <2>1. after = [i \in 0..Len(previous_layout) |->
                   IF i = 0 THEN l ELSE RestoredAt(after[i - 1], previous_layout[i])]
    BY <1>1, RestoreEachUnfold
  <2> HIDE DEF after
  <2>2. QED
    BY <1>1, <2>1
<1> HIDE DEF after
<1>3. Wrong = {}
  <2> SUFFICES ASSUME Wrong # {} PROVE FALSE
    OBVIOUS
  <2>1. PICK i \in Wrong : \A j \in Wrong : i =< j
    <3>1. Wrong \subseteq Nat
      BY <1>1
    <3> HIDE DEF Wrong
    <3>2. QED
      BY <3>1, HasLeast
  <2>2. i # 0
    <3>1. Back(after[0], 0)
      BY <1>2
    <3> HIDE DEF Back
    <3>2. QED
      BY <2>1, <3>1
  <2>3. i \in 1..Len(previous_layout) /\ i - 1 \in 0..Len(previous_layout) /\ i - 1 \notin Wrong
    <3>1. i \in 1..Len(previous_layout) /\ i - 1 \in 0..Len(previous_layout) /\ ~(i =< i - 1)
      BY <1>1, <2>1, <2>2
    <3> HIDE DEF Wrong
    <3>2. QED
      BY <2>1, <3>1
  <2>4. Back(after[i - 1], i - 1)
    BY <2>3
  <2>5. PICK q \in Ports \ BadNames : previous_layout[i] = Snapped(q)
    BY <2>3 DEF SnapInv
  <2>6. LET k == RestoredAt(after[i - 1], Snapped(q))
        IN  /\ IsLayout(k) /\ \A p \in Ports \ {q} : k[p] = after[i - 1][p]
            /\ userLayout[q].enabled => k[q].enabled /\ k[q].x = userLayout[q].x
    BY <1>1, <2>4, RestoresOne
  <2>7. after[i] = RestoredAt(after[i - 1], Snapped(q))
    BY <1>2, <2>3, <2>5
  <2>8. ASSUME NEW n \in 1..i, NEW p \in Ports, previous_layout[n] = Snapped(p),
               userLayout[p].enabled
        PROVE  after[i][p].enabled /\ after[i][p].x = userLayout[p].x
    <3>1. CASE p = q
      BY <2>6, <2>7, <2>8, <3>1
    <3>2. CASE p # q
      <4>1. n # i
        BY <2>5, <2>8, <3>2 DEF Snapped
      <4>2. n \in 1..(i - 1)
        BY <2>3, <4>1
      <4>3. QED
        BY <2>4, <2>6, <2>7, <2>8, <3>2, <4>2
    <3>3. QED
      BY <3>1, <3>2
  <2>9. Back(after[i], i)
    BY <2>6, <2>7, <2>8
  <2>10. QED
    BY <2>1, <2>9
<1> DEFINE k == after[Len(previous_layout)]
<1>4. Back(k, Len(previous_layout))
  BY <1>1, <1>3
<1>5. IsLayout(k)
  BY <1>4
<1>6. \A p \in Ports \ BadNames :
        userLayout[p].enabled => k[p].enabled /\ k[p].x = userLayout[p].x
  BY <1>4 DEF SnapInv
<1>7. Restored(l) = [k EXCEPT ![slot] = Absent]
  BY DEF Restored, after
<1>8. slot \in Outputs \ Ports /\ Absent.enabled \in BOOLEAN
  BY DEF ScreenInv, Outputs, Absent, Output
<1> HIDE DEF k
<1>9. IsLayout([k EXCEPT ![slot] = Absent]) /\ \A q \in Ports : [k EXCEPT ![slot] = Absent][q] = k[q]
  BY <1>5, <1>8, SlotChanges
<1>10. QED
  BY <1>6, <1>7, <1>9

LEMMA RestoredTwiceIsBack ==
    ASSUME ScreenInv, SnapInv, step # "idle", NEW k \in RestoredTwice(layout)
    PROVE  /\ IsLayout(k)
           /\ \A p \in Ports \ BadNames :
                userLayout[p].enabled => k[p].enabled /\ k[p].x = userLayout[p].x
<1>1. PICK l \in Moved(Restored(layout)) : k = Restored(l)
  BY DEF RestoredTwice
<1>2. IsLayout(Restored(layout))
  BY RestoresAll DEF ScreenInv
<1>3. IsLayout(l)
  BY <1>2, MovedIsLayout
<1>4. QED
  BY <1>1, <1>3, RestoresAll

LEMMA CleanupKeepsScreen ==
    ASSUME ScreenInv, SnapInv, step # "idle", NEW env, Cleanup(env)
    PROVE  /\ IsLayout(layout')
           /\ status' \in [ToSet(Connectors) -> {"connected", "disconnected", "on", "off"}]
           /\ \A c \in ToSet(Connectors) : status'[c] # "on" /\ (c \in Ports => status'[c] = "connected")
<1>1. slot \in Outputs \ Ports /\ Absent.enabled \in BOOLEAN
  BY DEF ScreenInv, Outputs, Absent, Output
<1>2. IsLayout([layout EXCEPT ![slot] = Absent])
  BY <1>1, SlotChanges DEF ScreenInv
<1>3. IsLayout(layout')
  <2>1. CASE env = driven
    BY <2>1, RestoredTwiceIsBack DEF Cleanup
  <2>2. CASE env # driven
    BY <1>2, <2>2 DEF Cleanup
  <2>3. QED
    BY <2>1, <2>2
<1>4. status' = [status EXCEPT ![slot] = "off"]
  BY DEF Cleanup, set_connector_status
<1>5. \A c \in ToSet(Connectors) : status'[c] = IF c = slot THEN "off" ELSE status[c]
  BY <1>4 DEF ScreenInv
<1>6. QED
  BY <1>1, <1>3, <1>4, <1>5 DEF ScreenInv

\* The session begins: the connector is empty and no other is forced on.
LEMMA ConnectKeepsScreen ==
    ASSUME ScreenInv, step = "idle", NEW uid, NEW device, NEW m, NEW e, Connect(uid, device, m, e)
    PROVE  ScreenInv' /\ SnapInv'
<1>1. slot' \in ToSet(Connectors) /\ IsEmpty(slot', status)
  <2>1. PICK card : slot' = find_empty_slot(card, status) /\ slot' # NoSlot
    BY DEF Connect
  <2>2. QED
    BY <2>1, FindsEmpty
<1>2. slot' \notin Ports
  BY <1>1 DEF ScreenInv, IsEmpty
<1>3. step' = "disable" /\ layout' = layout /\ status' = status /\ userLayout' = layout
  BY DEF Connect
<1>4. ScreenInv'
  BY <1>1, <1>2, <1>3 DEF ScreenInv
<1>5. PICK text \in Listings : previous_layout' = parse_outputs(text)
  BY DEF Connect
<1>6. Listed = Ports
  <2>1. \A c \in ToSet(Connectors) : status[c] # "on"
    BY DEF ScreenInv
  <2>2. QED
    BY <2>1 DEF Listed
<1>7. \A q : Snapped(q)' = Seen(q)
  BY <1>3 DEF Snapped, Seen
<1>8. /\ Len(previous_layout') \in Nat
      /\ \A n \in 1..Len(previous_layout') : \E q \in Ports \ BadNames : previous_layout'[n] = Seen(q)
      /\ \A q \in Ports \ BadNames : \E n \in 1..Len(previous_layout') : previous_layout'[n] = Seen(q)
  BY <1>5, <1>6, ListingsSay
<1>9. SnapInv'
  BY <1>3, <1>7, <1>8 DEF SnapInv, ScreenInv
<1>10. QED
  BY <1>4, <1>9

LEMMA ScreenInductive ==
    ASSUME ScreenInv, SnapInv, [Next]_vars
    PROVE  ScreenInv' /\ SnapInv'
<1> USE DEF vars, session
<1>1. ASSUME NEW uid, NEW device, NEW m, NEW e, step = "idle", Connect(uid, device, m, e)
      PROVE  ScreenInv' /\ SnapInv'
  BY <1>1, ConnectKeepsScreen
<1>2. ASSUME step # "idle", step' # "idle", UNCHANGED session PROVE SnapInv'
  BY <1>2 DEF SnapInv, Snapped
<1>3. CASE Disable
  <2>1. PICK l \in Moved(Disabled(layout)) : layout' = Disabled(l)
    BY <1>3 DEF Disable
  <2>2. IsLayout(layout')
    BY <2>1, DisabledIsLayout, MovedIsLayout DEF ScreenInv
  <2>3. QED
    BY <1>2, <1>3, <2>2 DEF Disable, ScreenInv
<1>4. CASE Hotplug
  <2>1. IsLayout(layout')
    BY <1>4, HotplugIsLayout
  <2>2. status' = [status EXCEPT ![slot] = "on"]
    BY <1>4 DEF Hotplug, set_connector_status
  <2>3. QED
    BY <1>2, <1>4, <2>1, <2>2 DEF Hotplug, ScreenInv
<1>5. CASE Place
  BY <1>2, <1>5, PlaceSetsSlot DEF Place, ScreenInv
<1>6. CASE Verify \/ \E uid \in Uids : Disconnect(uid)
  BY <1>2, <1>6 DEF Verify, Disconnect, ScreenInv
<1>7. ASSUME NEW env, step # "idle", Cleanup(env), Forgotten PROVE ScreenInv' /\ SnapInv'
  BY <1>7, CleanupKeepsScreen DEF Forgotten, ScreenInv, SnapInv
<1>8. ASSUME NEW env, step # "idle", Cleanup(env), Kept PROVE ScreenInv' /\ SnapInv'
  BY <1>2, <1>8, CleanupKeepsScreen DEF Kept, ScreenInv
<1>9. CASE Rollback
  BY <1>7, <1>8, <1>9 DEF Rollback
<1>10. CASE Restore
  BY <1>7, <1>8, <1>10 DEF Restore
<1>11. CASE UNCHANGED vars
  BY <1>11 DEF ScreenInv, SnapInv, Snapped
<1>12. QED
  BY <1>1, <1>3, <1>4, <1>5, <1>6, <1>9, <1>10, <1>11 DEF Next

LEMMA ScreenHolds == Spec => [](ScreenInv /\ SnapInv)
<1>1. Init => ScreenInv /\ SnapInv
  <2> SUFFICES ASSUME Init PROVE ScreenInv /\ SnapInv
    OBVIOUS
  <2>1. PICK on \in [Ports -> BOOLEAN], x \in Positions :
          layout = [p \in Outputs |-> IF p \in Ports THEN Output(on[p], x[p], ScreenMode) ELSE Absent]
    BY DEF Init
  <2>2. \A p \in Ports : x[p] \in Int /\ on[p] \in BOOLEAN
    BY KScreenAssumption DEF Positions
  <2>3. \A p \in Ports : Output(on[p], x[p], ScreenMode) \in PortStates
    BY <2>2 DEF Output, PortStates
  <2>4. Absent.enabled \in BOOLEAN
    BY DEF Absent, Output
  <2>5. Ports \subseteq Outputs
    BY DEF Outputs
  <2>6. \A p \in Outputs : layout[p] = IF p \in Ports THEN Output(on[p], x[p], ScreenMode) ELSE Absent
    BY <2>1
  <2>7. IsLayout(layout)
    <3>1. layout = [q \in Outputs |-> layout[q]]
      BY <2>1, <2>6
    <3>2. \A p \in Ports : layout[p] \in PortStates
      BY <2>3, <2>5, <2>6
    <3>3. \A p \in Outputs : layout[p].enabled \in BOOLEAN
      BY <2>4, <2>6, <3>2 DEF PortStates
    <3>4. QED
      BY <3>1, <3>2, <3>3 DEF IsLayout
  <2>8. step = "idle" /\ status = [c \in ToSet(Connectors) |->
                                   IF c \in Ports THEN "connected" ELSE "disconnected"]
    BY DEF Init
  <2>9. QED
    BY <2>7, <2>8 DEF ScreenInv, SnapInv
<1>2. ScreenInv /\ SnapInv /\ [Next]_vars => (ScreenInv /\ SnapInv)'
  BY ScreenInductive
<1>3. QED
  BY <1>1, <1>2, PTL DEF Spec

-----------------------------------------------------------------------------
\* VirtualX is at or beyond the right edge of every monitor that is on and has a
\* name.
LEMMA RightOfAll ==
    ASSUME ScreenInv, step = "place", NEW text \in Listings,
           NEW p \in Ports \ BadNames, layout[p].enabled
    PROVE  layout[p].x + layout[p].mode.width =< VirtualX(text)
<1> DEFINE r == parse_outputs(text)
           on == {o \in ToSet(r) : o.enabled /\ o.name # slot}
           edges == {o.x + o.width : o \in on}
           I == {n \in 1..Len(r) : r[n] \in on}
           g == [n \in I |-> r[n].x + r[n].width]
<1>1. /\ r \in Seq(ParsedOutputs)
      /\ \A n \in 1..Len(r) : \E q \in Listed \ BadNames : r[n] = Seen(q)
      /\ \A q \in Listed \ BadNames : \E n \in 1..Len(r) : r[n] = Seen(q)
  BY ListingsSay
<1>2. \A q \in Ports : layout[q] \in PortStates
  BY DEF ScreenInv, IsLayout
<1>3. slot \notin Ports
  BY DEF ScreenInv
<1>4. \A q \in Listed : q = slot \/ q \in Ports
  BY DEF Listed, ScreenInv
<1> HIDE DEF r
<1>5. \A o \in ToSet(r) : \E n \in 1..Len(r) : r[n] = o
  BY <1>1 DEF ToSet
<1>6. \A n \in 1..Len(r) : r[n] \in ToSet(r)
  BY <1>1 DEF ToSet
<1>7. Seen(p) \in on
  <2>1. p \in Listed \ BadNames
    BY DEF Listed
  <2>2. Seen(p) \in ToSet(r)
    BY <1>1, <1>6, <2>1
  <2>3. Seen(p).enabled /\ Seen(p).name # slot
    BY <1>3 DEF Seen
  <2>4. QED
    BY <2>2, <2>3
<1>8. \A n \in I : g[n] \in Int
  <2>1. SUFFICES ASSUME NEW n \in I PROVE r[n].x + r[n].width \in Int
    OBVIOUS
  <2>2. PICK q \in Listed \ BadNames : r[n] = Seen(q)
    BY <1>1
  <2>3. q \in Ports
    BY <1>4, <2>2 DEF Seen
  <2>4. Seen(q).x = layout[q].x /\ Seen(q).width = ScreenMode.width
    BY <1>2, <2>3 DEF Seen, PortStates
  <2>5. layout[q].x \in Int /\ ScreenMode.width \in Int
    BY <1>2, <2>3, KScreenAssumption DEF PortStates
  <2>6. QED
    BY <2>2, <2>4, <2>5
<1>9. I \in SUBSET (1..Len(r)) /\ I # {} /\ Len(r) \in Nat
  <2>1. PICK n \in 1..Len(r) : r[n] = Seen(p)
    BY <1>5, <1>7
  <2>2. n \in I
    BY <1>7, <2>1
  <2>3. QED
    BY <1>1, <2>2
<1>10. PICK i \in I : \A j \in I : g[j] =< g[i]
  <2> HIDE DEF I, g
  <2>1. QED
    BY <1>8, <1>9, HasGreatest
<1>11. \A y \in edges : \E j \in I : y = g[j]
  BY <1>5
<1>12. g[i] \in edges
  BY <1>10
<1>13. \E y \in edges : \A z \in edges : y >= z
  <2> HIDE DEF edges, I, g
  <2>1. QED
    BY <1>8, <1>10, <1>11, <1>12
<1>14. Max(edges) \in edges /\ \A z \in edges : Max(edges) >= z
  BY <1>13 DEF Max
<1>15. VirtualX(text) = Max(edges)
  BY <1>7 DEF VirtualX, r
<1>16. layout[p].x + layout[p].mode.width \in edges
  BY <1>7 DEF Seen
<1>17. \A z \in edges : z \in Int
  <2> HIDE DEF edges, I, g
  <2>1. QED
    BY <1>8, <1>11
<1> HIDE DEF edges
<1>18. QED
  BY <1>14, <1>15, <1>16, <1>17

\* Unless KWin ignores the placement, no monitor that is on and that the parser
\* can name reaches into the virtual display.
THEOREM PlacedClear == Spec => NoOverlap
<1>1. ScreenInv /\ SnapInv /\ [Next]_vars =>
        [step = "place" /\ layout' # layout =>
           \A p \in Ports \ BadNames :
             layout[p].enabled => layout[p].x + layout[p].mode.width <= layout'[slot].x]_vars
  <2> SUFFICES ASSUME ScreenInv, [Next]_vars, step = "place", layout' # layout,
                      NEW p \in Ports \ BadNames, layout[p].enabled
               PROVE  layout[p].x + layout[p].mode.width <= layout'[slot].x
    OBVIOUS
  <2>1. Place
    BY DEF Next, Connect, Disable, Hotplug, Verify, Disconnect, Rollback, Restore, vars
  <2>2. PICK text \in Listings : layout'[slot].x = VirtualX(text)
    BY <2>1, PlaceSetsSlot
  <2>3. QED
    BY <2>2, RightOfAll
<1>2. QED
  BY <1>1, ScreenHolds, PTL DEF Spec, NoOverlap

\* The compositor that is found is a user's; for a user's request, his own.
LEMMA FindsUser ==
    ASSUME NEW uid, NEW env \in Resolved(uid), env # Nobody
    PROVE  env \in Users /\ (uid # Root => env = uid)
<1>1. PICK run_user \in SUBSET Sockets : env = resolve_compositor(run_user, uid)
  BY DEF Resolved
<1> DEFINE found == discover_in(run_user, uid)
<1>2. Cardinality(found) = 1 /\ env = (CHOOSE s \in found : TRUE).uid
  BY <1>1 DEF resolve_compositor, resolve_candidates
<1>3. found # {}
  BY <1>2, FS_EmptySet
<1>4. \A s \in found : s.uid \in Users /\ (uid # Root => s.uid = uid)
  BY DesktopsAssumption DEF discover_in
<1> HIDE DEF found
<1>5. QED
  BY <1>2, <1>3, <1>4

OwnInv == OwnerInv /\ (step # "idle" => driven \in Users)

\* A session is over only when the layout was put back in the desktop it came
\* from: the outputs the user had on are on again and where they were, whatever
\* KWin moved, whoever is logged in meanwhile and in whatever order they are listed.
THEOREM OutputsComeBack == Spec => LayoutRestored
<1> USE DEF vars, session
<1>1. Init => OwnInv
  BY DEF Init, OwnInv, OwnerInv
<1>2. OwnInv /\ [Next]_vars => OwnInv'
  <2> SUFFICES ASSUME OwnInv, [Next]_vars PROVE OwnInv'
    OBVIOUS
  <2>1. ASSUME NEW uid \in Uids, NEW device, NEW m, NEW e, Connect(uid, device, m, e)
        PROVE  OwnInv'
    <3>1. PICK env \in Resolved(uid) \ {Nobody} : session_uid' = env /\ driven' = env
      BY <2>1 DEF Connect, Recorded
    <3>2. env \in Users
      BY <3>1, FindsUser
    <3>3. QED
      BY <3>1, <3>2 DEF OwnInv, OwnerInv
  <2>2. CASE Disable \/ Hotplug \/ Place \/ Verify \/ \E uid \in Uids : Disconnect(uid)
    BY <2>2 DEF Disable, Hotplug, Place, Verify, Disconnect, OwnInv, OwnerInv
  <2>3. CASE Rollback \/ Restore
    BY <2>3 DEF Rollback, Restore, Forgotten, Kept, OwnInv, OwnerInv
  <2>4. CASE UNCHANGED vars
    BY <2>4 DEF OwnInv, OwnerInv
  <2>5. QED
    BY <2>1, <2>2, <2>3, <2>4 DEF Next
<1>3. ScreenInv /\ SnapInv /\ OwnInv /\ [Next]_vars =>
        [step # "idle" /\ step' = "idle" =>
           \A p \in Ports \ BadNames :
             userLayout[p].enabled => layout'[p].enabled /\ layout'[p].x = userLayout[p].x]_vars
  <2> SUFFICES ASSUME ScreenInv, SnapInv, OwnInv, [Next]_vars, step # "idle", step' = "idle"
               PROVE  \A p \in Ports \ BadNames :
                        userLayout[p].enabled =>
                          layout'[p].enabled /\ layout'[p].x = userLayout[p].x
    OBVIOUS
  <2>1. Rollback \/ Restore
    BY DEF Next, Connect, Disable, Hotplug, Place, Verify, Disconnect
  <2>2. Cleanup(driven)
    <3>1. CASE Rollback
      BY <3>1 DEF Rollback, Kept
    <3>2. CASE Restore
      <4>1. PICK env \in Resolved(session_uid) : Cleanup(env) /\ env # Nobody
        BY <3>2 DEF Restore, Kept
      <4>2. env = driven
        BY <4>1, FindsUser, DesktopsAssumption DEF OwnInv, OwnerInv
      <4>3. QED
        BY <4>1, <4>2
    <3>3. QED
      BY <2>1, <3>1, <3>2
  <2>3. layout' \in RestoredTwice(layout)
    BY <2>2 DEF Cleanup
  <2>4. QED
    BY <2>3, RestoredTwiceIsBack
<1>4. QED
  BY <1>1, <1>2, <1>3, ScreenHolds, PTL DEF Spec, LayoutRestored
=============================================================================
