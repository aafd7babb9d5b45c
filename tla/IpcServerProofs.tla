-------------------------- MODULE IpcServerProofs --------------------------
(***************************************************************************)
(* How long one client can occupy the server, what a restart makes of the  *)
(* socket left behind, and what svd's exit code tells, for any number of   *)
(* clients, any frame size and any timeout.                                *)
(***************************************************************************)
EXTENDS IpcServer, TLAPS

USE DEF connection, socket, clientVars, vars

\* Each byte read so far was waited for at most Timeout ticks.
PaceInv == held <= got * Timeout + quiet

ServingInv ==
    /\ server \in {"read", "handle", "write"} => serving \in Clients
    /\ server \notin {"read", "handle", "write"} => got = 0 /\ quiet = 0 /\ held = 0
    /\ server = "write" => answer \in {"ok", "error"}

IndInv == IpcTypeOK /\ ServingInv /\ PaceInv

LEMMA InitInd == Init => IndInv
<1> SUFFICES ASSUME Init PROVE IndInv
  OBVIOUS
<1> USE IpcAssumption DEF Init
<1>1. IpcTypeOK
  <2>1. wire \in [Clients -> [content : 0..MAX_FRAME_SIZE, newline : BOOLEAN]]
    BY DEF Unsent
  <2>2. backlog \in Seq(Clients)
    OBVIOUS
  <2>3. talk \in [Clients -> TalkStates]
    BY DEF TalkStates
  <2>4. got \in 0..(MAX_FRAME_SIZE - 1) /\ quiet \in 0..Timeout
    OBVIOUS
  <2>5. QED
    BY <2>1, <2>2, <2>3, <2>4 DEF IpcTypeOK
<1>2. PaceInv
  <2>1. 0 * Timeout = 0
    OBVIOUS
  <2>2. QED
    BY <2>1 DEF PaceInv
<1>3. QED
  BY <1>1, <1>2 DEF IndInv, ServingInv

\* The two facts about products that the steps need.
LEMMA OneMoreByte ==
    ASSUME NEW n \in Nat, NEW q \in 0..Timeout
    PROVE  n * Timeout + q <= (n + 1) * Timeout /\ n * Timeout \in Nat
BY IpcAssumption

LEMMA MoreBytes ==
    ASSUME NEW m \in Nat, NEW n \in Nat, m <= n
    PROVE  m * Timeout <= n * Timeout /\ m * Timeout \in Nat /\ n * Timeout \in Nat
<1>1. PICK k \in Nat : n = m + k
  OBVIOUS
<1>2. n * Timeout = m * Timeout + k * Timeout /\ k * Timeout \in Nat
  BY <1>1, IpcAssumption
<1>3. QED
  BY <1>2, IpcAssumption

LEMMA AtMost ==
    ASSUME NEW a \in Nat, NEW b \in Nat, NEW c \in Nat, a <= b, b <= c
    PROVE  a <= c
OBVIOUS

LEMMA ClosedInd ==
    ASSUME IndInv, serving \in Clients, NEW outcome \in TalkStates, Close(outcome)
    PROVE  IndInv'
<1>1. 0 * Timeout = 0
  BY IpcAssumption
<1>2. QED
  BY <1>1, IpcAssumption DEF IndInv, IpcTypeOK, ServingInv, PaceInv, Close, NoConnection, Open, Svd

LEMMA StoppedInd ==
    ASSUME IndInv, server' \in {"stopped", "dead"}, CloseAll
    PROVE  IndInv'
<1>1. 0 * Timeout = 0
  BY IpcAssumption
<1>2. talk' \in [Clients -> TalkStates]
  BY DEF IndInv, IpcTypeOK, CloseAll, TalkStates, Ended
<1>3. backlog' \in Seq(Clients)
  BY DEF CloseAll
<1>4. QED
  BY <1>1, <1>2, <1>3, IpcAssumption DEF IndInv, IpcTypeOK, ServingInv, PaceInv, CloseAll, NoConnection

LEMMA SetupInd ==
    ASSUME IndInv, Remove \/ Bind \/ SetPermissions \/ Start
    PROVE  IndInv'
BY DEF IndInv, IpcTypeOK, ServingInv, PaceInv, Remove, Bind, SetPermissions, Start

LEMMA ServerStepInd ==
    ASSUME IndInv, ServerStep \/ Skip \/ Tick
    PROVE  IndInv'
<1> USE IpcAssumption DEF IndInv, IpcTypeOK, ServingInv, PaceInv
<1>1. CASE Accept
  <2>1. Head(backlog) \in Clients /\ Tail(backlog) \in Seq(Clients)
    BY <1>1 DEF Accept
  <2>2. QED
    BY <1>1, <2>1 DEF Accept
<1>2. CASE Stop
  BY <1>2, StoppedInd DEF Stop
<1>3. CASE Skip
  BY <1>3, ClosedInd DEF Skip, TalkStates, Ended
<1>4. CASE ReadContent
  <2>1. CASE Oversize(got + 1) /\ Close("too_large")
    BY <1>4, <2>1, ClosedInd DEF ReadContent, TalkStates, Ended
  <2>2. CASE ~Oversize(got + 1)
    <3>1. /\ server = "read" /\ UNCHANGED <<server, serving, held, answer, socket, talk, done>>
          /\ got' = got + 1 /\ quiet' = 0
          /\ wire' = [wire EXCEPT ![serving].content = @ - 1]
      BY <1>4, <2>2 DEF ReadContent
    <3>2. got' \in 0..(MAX_FRAME_SIZE - 1)
      BY <2>2, <3>1 DEF Oversize
    <3>3. wire' \in [Clients -> [content : 0..MAX_FRAME_SIZE, newline : BOOLEAN]]
      <4>1. wire[serving].content - 1 \in 0..MAX_FRAME_SIZE
        BY <1>4, <3>1 DEF ReadContent, Input
      <4>2. QED
        BY <3>1, <4>1
    <3>4. held' <= got' * Timeout + quiet'
      BY <3>1, OneMoreByte
    <3>5. QED
      BY <3>1, <3>2, <3>3, <3>4
  <2>3. QED
    BY <1>4, <2>1, <2>2 DEF ReadContent
<1>5. CASE ReadNewline
  <2>1. CASE Close("dropped")
    BY <1>5, <2>1, ClosedInd DEF ReadNewline, TalkStates, Ended
  <2>2. CASE ~Close("dropped")
    <3>1. /\ server = "read" /\ server' = "handle" /\ UNCHANGED <<connection, socket, talk, done>>
          /\ wire' = [wire EXCEPT ![serving].newline = FALSE]
      BY <1>5, <2>2 DEF ReadNewline
    <3>2. wire' \in [Clients -> [content : 0..MAX_FRAME_SIZE, newline : BOOLEAN]]
      BY <3>1
    <3>3. QED
      BY <3>1, <3>2
  <2>3. QED
    BY <2>1, <2>2
<1>6. CASE ReadClosed \/ ReadTimesOut
  BY <1>6, ClosedInd DEF ReadClosed, ReadTimesOut, TalkStates, Ended
<1>7. CASE Handle
  BY <1>7 DEF Handle
<1>8. CASE Write
  <2>1. answer \in TalkStates
    BY <1>8 DEF Write, TalkStates, Ended
  <2>2. QED
    BY <1>8, <2>1, ClosedInd DEF Write, TalkStates, Ended
<1>9. CASE Tick
  BY <1>9, OneMoreByte DEF Tick
<1>10. QED
  BY <1>1, <1>2, <1>3, <1>4, <1>5, <1>6, <1>7, <1>8, <1>9, SetupInd DEF ServerStep

LEMMA ClientStepInd ==
    ASSUME IndInv, NEW c \in Clients, ClientStep(c)
    PROVE  IndInv'
<1> USE IpcAssumption DEF IndInv, IpcTypeOK, ServingInv, PaceInv, TalkStates, Open, Svd, Early
<1>1. CASE ConnectSvd(c) \/ ConnectRaw(c)
  <2>1. backlog' \in Seq(Clients) /\ talk' \in [Clients -> TalkStates]
    <3>1. PICK how \in {"connected", "raw"} :
            backlog' = Append(backlog, c) /\ talk' = [talk EXCEPT ![c] = how]
      BY <1>1 DEF ConnectSvd, ConnectRaw, Connects
    <3>2. backlog' \in Seq(Clients)
      BY <3>1
    <3>3. how \in TalkStates
      OBVIOUS
    <3>4. QED
      BY <3>1, <3>2, <3>3
  <2>2. UNCHANGED <<server, connection, path, shutdown, wire, done>>
    BY <1>1 DEF ConnectSvd, ConnectRaw, Connects
  <2>3. QED
    BY <2>1, <2>2
<1>2. CASE WriteContent(c) \/ WriteNewline(c)
  <2>1. UNCHANGED <<server, connection, socket, done>>
    BY <1>2 DEF WriteContent, WriteNewline
  <2>2. talk' \in [Clients -> TalkStates]
    BY <1>2 DEF WriteContent, WriteNewline
  <2>3. \/ \E n \in 1..MAX_FRAME_SIZE : wire' = [wire EXCEPT ![c].content = n]
        \/ wire' = [wire EXCEPT ![c].newline = TRUE] \/ UNCHANGED wire
    BY <1>2 DEF WriteContent, WriteNewline
  <2>4. wire' \in [Clients -> [content : 0..MAX_FRAME_SIZE, newline : BOOLEAN]]
    <3>1. ASSUME NEW n \in 1..MAX_FRAME_SIZE, wire' = [wire EXCEPT ![c].content = n]
          PROVE  wire' \in [Clients -> [content : 0..MAX_FRAME_SIZE, newline : BOOLEAN]]
      <4>1. n \in 0..MAX_FRAME_SIZE
        OBVIOUS
      <4>2. QED
        BY <3>1, <4>1
    <3>2. CASE wire' = [wire EXCEPT ![c].newline = TRUE]
      BY <3>2
    <3>3. CASE UNCHANGED wire
      BY <3>3
    <3>4. QED
      BY <2>3, <3>1, <3>2, <3>3
  <2>5. QED
    BY <2>1, <2>2, <2>4
<1>3. CASE SendByte(c)
  <2>1. \/ wire' = [wire EXCEPT ![c].content = 1]
        \/ wire' = [wire EXCEPT ![c].newline = TRUE]
    BY <1>3 DEF SendByte
  <2>2. wire' \in [Clients -> [content : 0..MAX_FRAME_SIZE, newline : BOOLEAN]]
    <3>1. 1 \in 0..MAX_FRAME_SIZE
      OBVIOUS
    <3>2. CASE wire' = [wire EXCEPT ![c].content = 1]
      BY <3>1, <3>2
    <3>3. CASE wire' = [wire EXCEPT ![c].newline = TRUE]
      BY <3>3
    <3>4. QED
      BY <2>1, <3>2, <3>3
  <2>3. QED
    BY <1>3, <2>2 DEF SendByte
<1>4. CASE Leave(c)
  BY <1>4 DEF Leave
<1>5. CASE ComeBack(c)
  BY <1>5 DEF ComeBack, Unsent
<1>6. CASE EndEarly(c)
  BY <1>6 DEF EndEarly
<1>7. QED
  BY <1>1, <1>2, <1>3, <1>4, <1>5, <1>6 DEF ClientStep

LEMMA NextInd == IndInv /\ [Next]_vars => IndInv'
<1> SUFFICES ASSUME IndInv, [Next]_vars PROVE IndInv'
  OBVIOUS
<1>1. CASE Terminate \/ UNCHANGED vars
  BY <1>1 DEF Terminate, IndInv, IpcTypeOK, ServingInv, PaceInv
<1>2. CASE Die
  BY <1>2, StoppedInd DEF Die
<1>3. QED
  BY <1>1, <1>2, ServerStepInd, SetupInd, ClientStepInd DEF Next

LEMMA Inductive == Spec => []IndInv
BY InitInd, NextInd, PTL DEF Spec

\* Every variable of the server and its clients keeps its type.
THEOREM IpcTypes == Spec => []IpcTypeOK
<1>1. IndInv => IpcTypeOK
  BY DEF IndInv
<1>2. QED
  BY <1>1, Inductive, PTL

\* A client occupies the server for at most MAX_FRAME_SIZE timeouts, however it
\* times its bytes.
THEOREM HoldTime == Spec => []HoldIsBounded
<1>1. IndInv => HoldIsBounded
  <2> SUFFICES ASSUME IndInv PROVE HoldIsBounded
    OBVIOUS
  <2>1. /\ held \in Nat /\ got \in 0..(MAX_FRAME_SIZE - 1) /\ quiet \in 0..Timeout
        /\ held <= got * Timeout + quiet
    BY DEF IndInv, IpcTypeOK, PaceInv
  <2>2. got \in Nat /\ got + 1 \in Nat /\ got + 1 <= MAX_FRAME_SIZE /\ MAX_FRAME_SIZE \in Nat
    BY <2>1, IpcAssumption
  <2>3. held <= (got + 1) * Timeout
    BY <2>1, <2>2, OneMoreByte, IpcAssumption
  <2>4. /\ (got + 1) * Timeout <= MAX_FRAME_SIZE * Timeout
        /\ (got + 1) * Timeout \in Nat /\ MAX_FRAME_SIZE * Timeout \in Nat
    BY <2>2, MoreBytes
  <2>5. QED
    BY <2>1, <2>3, <2>4, AtMost DEF HoldIsBounded
<1>2. QED
  BY <1>1, Inductive, PTL

-----------------------------------------------------------------------------
\* The socket.

BindInv == server = "bind" => path = "absent"

LEMMA BindInductive == Spec => []BindInv
<1>1. Init => BindInv
  BY DEF Init, BindInv
<1>2. BindInv /\ [Next]_vars => BindInv'
  <2> SUFFICES ASSUME BindInv, [Next]_vars PROVE BindInv'
    OBVIOUS
  <2> USE DEF BindInv
  <2>1. CASE ServerStep
    BY <2>1 DEF ServerStep, Remove, Bind, SetPermissions, Accept, Stop, CloseAll,
              ReadContent, ReadNewline, ReadClosed, ReadTimesOut, Handle, Write, Close
  <2>2. CASE Skip \/ Tick \/ Terminate \/ Start \/ Die \/ UNCHANGED vars
    BY <2>2 DEF Skip, Tick, Terminate, Start, Die, CloseAll, Close
  <2>3. ASSUME NEW c \in Clients, ClientStep(c) PROVE BindInv'
    BY <2>3 DEF ClientStep, EndEarly, ConnectSvd, WriteContent, WriteNewline, ConnectRaw,
              Connects, SendByte, Leave, ComeBack
  <2>4. QED
    BY <2>1, <2>2, <2>3 DEF Next
<1>3. QED
  BY <1>1, <1>2, PTL DEF Spec

\* A process that is started comes to listen, whatever the one before it left,
\* unless something that is no socket is in the way.
THEOREM SocketIsReplaced == Spec => StaleSocketReplaced
<1>1. BindInv /\ [Next]_vars =>
        [/\ server \notin {"accept", "stopped"} /\ server' = "stopped" => path = "other"
         /\ server \notin {"stopped", "dead"} /\ path = "other" => path' = "other"]_vars
  <2> SUFFICES ASSUME BindInv, Next
               PROVE  /\ server \notin {"accept", "stopped"} /\ server' = "stopped" => path = "other"
                      /\ server \notin {"stopped", "dead"} /\ path = "other" => path' = "other"
    OBVIOUS
  <2>1. CASE ServerStep
    BY <2>1 DEF BindInv, ServerStep, Remove, Bind, SetPermissions, Accept, Stop, CloseAll,
              ReadContent, ReadNewline, ReadClosed, ReadTimesOut, Handle, Write, Close
  <2>2. CASE Skip \/ Tick \/ Terminate \/ Start \/ Die
    BY <2>2 DEF Skip, Tick, Terminate, Start, Die, CloseAll, Close
  <2>3. ASSUME NEW c \in Clients, ClientStep(c) PROVE UNCHANGED <<server, path>>
    BY <2>3 DEF ClientStep, EndEarly, ConnectSvd, WriteContent, WriteNewline, ConnectRaw,
              Connects, SendByte, Leave, ComeBack
  <2>4. QED
    BY <2>1, <2>2, <2>3 DEF Next
<1>2. QED
  BY <1>1, BindInductive, PTL DEF Spec, StaleSocketReplaced

-----------------------------------------------------------------------------
\* The outcome.

\* Who still has his side of a connection to the server.
Connected == Open \cup {"left"}

\* The server serves, and has waiting, each client once, and each is connected.
QueueInv ==
    /\ serving # NoClient => talk[serving] \in Connected
    /\ \A i \in DOMAIN backlog : talk[backlog[i]] \in Connected /\ backlog[i] # serving
    /\ \A i, j \in DOMAIN backlog : backlog[i] = backlog[j] => i = j

BusyInv ==
    /\ serving # NoClient <=> server \in {"read", "handle", "write"}
    /\ server = "write" => (answer = "ok" <=> done[serving])

\* A request that was carried out is known as such, or its client cannot know.
OutcomeInv ==
    \A c \in Clients :
        /\ done[c] => talk[c] \in {"ok", "left", "lost"} \/ (server = "write" /\ c = serving)
        /\ talk[c] = "ok" => done[c]

AnswerInv == QueueInv /\ BusyInv /\ OutcomeInv

LEMMA InitAnswer == Init => AnswerInv
BY IpcAssumption DEF Init, AnswerInv, QueueInv, BusyInv, OutcomeInv

LEMMA CloseAnswer ==
    ASSUME IndInv, AnswerInv, server \in {"read", "write"}, NEW outcome \in Ended \ {"lost"},
           Close(outcome),
           talk[serving] \in Open => (outcome = "ok" <=> done[serving])
    PROVE  AnswerInv'
<1> USE IpcAssumption DEF IndInv, IpcTypeOK, ServingInv, AnswerInv, QueueInv, BusyInv,
        OutcomeInv, Close, NoConnection, Connected, Open, Svd, Ended
<1>1. serving \in Clients /\ serving # NoClient
  OBVIOUS
<1>2. \A c \in Clients \ {serving} : talk'[c] = talk[c]
  OBVIOUS
<1>3. talk'[serving] = IF talk[serving] \in Open THEN outcome ELSE talk[serving]
  BY <1>1
<1>4. QueueInv'
  <2>1. \A i \in DOMAIN backlog : backlog[i] \in Clients \ {serving}
    OBVIOUS
  <2>2. QED
    BY <1>2, <2>1
<1>5. OutcomeInv'
  <2> SUFFICES ASSUME NEW c \in Clients
               PROVE  /\ done[c] => talk'[c] \in {"ok", "left", "lost"}
                      /\ talk'[c] = "ok" => done[c]
    OBVIOUS
  <2>1. CASE c = serving
    BY <1>1, <1>3, <2>1
  <2>2. CASE c # serving
    BY <1>2, <2>2
  <2>3. QED
    BY <2>1, <2>2
<1>6. QED
  BY <1>4, <1>5

LEMMA StoppedAnswer ==
    ASSUME IndInv, AnswerInv, server' \in {"stopped", "dead"}, CloseAll
    PROVE  AnswerInv'
<1> USE DEF IndInv, IpcTypeOK, AnswerInv, QueueInv, BusyInv, OutcomeInv, CloseAll,
        NoConnection, Connected, Open, Svd
<1>1. \A c \in Clients : talk'[c] = IF talk[c] \in Open THEN "lost" ELSE talk[c]
  OBVIOUS
<1>2. OutcomeInv'
  <2> SUFFICES ASSUME NEW c \in Clients
               PROVE  /\ done[c] => talk'[c] \in {"ok", "left", "lost"}
                      /\ talk'[c] = "ok" => done[c]
    OBVIOUS
  <2>1. CASE server = "write" /\ c = serving
    BY <1>1, <2>1, IpcAssumption
  <2>2. CASE ~(server = "write" /\ c = serving)
    BY <1>1, <2>2
  <2>3. QED
    BY <2>1, <2>2
<1>3. QED
  BY <1>2

LEMMA AcceptAnswer ==
    ASSUME IndInv, AnswerInv, Accept
    PROVE  AnswerInv'
<1> USE IpcAssumption DEF IndInv, IpcTypeOK, AnswerInv, QueueInv, BusyInv, OutcomeInv, Accept,
        Connected
<1>1. backlog \in Seq(Clients) /\ backlog # <<>>
  OBVIOUS
<1>2. /\ 1 \in DOMAIN backlog /\ serving' = backlog[1] /\ backlog[1] \in Clients
      /\ \A i \in DOMAIN backlog' : i + 1 \in DOMAIN backlog /\ backlog'[i] = backlog[i + 1] /\ i + 1 # 1
  BY <1>1
<1>3. QueueInv'
  <2>1. talk'[serving'] \in Connected
    BY <1>2
  <2>2. \A i \in DOMAIN backlog' : talk'[backlog'[i]] \in Connected /\ backlog'[i] # serving'
    BY <1>2
  <2>3. \A i, j \in DOMAIN backlog' : backlog'[i] = backlog'[j] => i = j
    <3> SUFFICES ASSUME NEW i \in DOMAIN backlog', NEW j \in DOMAIN backlog',
                        backlog'[i] = backlog'[j]
                 PROVE  i = j
      OBVIOUS
    <3>1. i + 1 = j + 1
      BY <1>2
    <3>2. i \in Nat /\ j \in Nat
      BY <1>1
    <3>3. QED
      BY <3>1, <3>2
  <2>4. QED
    BY <2>1, <2>2, <2>3
<1>4. BusyInv' /\ OutcomeInv'
  BY <1>2
<1>5. QED
  BY <1>3, <1>4

LEMMA ServerStepAnswer ==
    ASSUME IndInv, AnswerInv, ServerStep \/ Skip \/ Tick \/ Start
    PROVE  AnswerInv'
<1> USE DEF AnswerInv, QueueInv, BusyInv, OutcomeInv
<1>1. CASE Remove \/ Bind \/ SetPermissions \/ Start \/ Tick
  BY <1>1 DEF Remove, Bind, SetPermissions, Start, Tick
<1>2. CASE Accept
  BY <1>2, AcceptAnswer
<1>3. CASE Stop
  BY <1>3, StoppedAnswer DEF Stop
<1>4. ASSUME server = "read", talk[serving] \in Open PROVE ~done[serving]
  BY <1>4, IpcAssumption DEF IndInv, ServingInv, Open, Svd
<1>5. ASSUME NEW outcome \in {"dropped", "too_large", "timed_out"}, server = "read", Close(outcome)
      PROVE  AnswerInv'
  BY <1>4, <1>5, CloseAnswer DEF Ended
<1>6. CASE Skip \/ ReadClosed \/ ReadTimesOut
  BY <1>5, <1>6 DEF Skip, ReadClosed, ReadTimesOut
<1>7. CASE ReadContent
  <2>1. CASE Close("too_large")
    BY <1>5, <1>7, <2>1 DEF ReadContent
  <2>2. CASE ~Close("too_large")
    BY <1>7, <2>2 DEF ReadContent
  <2>3. QED
    BY <2>1, <2>2
<1>8. CASE ReadNewline
  <2>1. CASE Close("dropped")
    BY <1>5, <1>8, <2>1 DEF ReadNewline
  <2>2. CASE ~Close("dropped")
    BY <1>8, <2>2 DEF ReadNewline
  <2>3. QED
    BY <2>1, <2>2
<1>9. CASE Handle
  <2>1. serving \in Clients /\ talk[serving] \in Connected /\ done \in [Clients -> BOOLEAN]
    BY <1>9, IpcAssumption DEF Handle, IndInv, IpcTypeOK, ServingInv
  <2>2. /\ \A c \in Clients \ {serving} : done'[c] = done[c]
        /\ done'[serving] <=> answer' = "ok"
    BY <1>9, <2>1 DEF Handle
  <2>3. server' = "write" /\ server = "handle" /\ UNCHANGED <<serving, backlog, talk>>
    BY <1>9 DEF Handle
  <2>4. OutcomeInv'
    BY <2>1, <2>2, <2>3 DEF Connected, Open, Svd
  <2>5. QED
    BY <2>2, <2>3, <2>4
<1>10. CASE Write
  <2>1. server = "write" /\ answer \in {"ok", "error"}
    BY <1>10 DEF Write, IndInv, ServingInv
  <2>2. CASE Close(answer)
    BY <2>1, <2>2, CloseAnswer DEF Ended
  <2>3. CASE answer = "error" /\ Close("unsent")
    BY <2>1, <2>3, CloseAnswer DEF Ended
  <2>4. QED
    BY <1>10, <2>2, <2>3 DEF Write
<1>11. QED
  BY <1>1, <1>2, <1>3, <1>6, <1>7, <1>8, <1>9, <1>10 DEF ServerStep

LEMMA Appended ==
    ASSUME NEW s \in Seq(Clients), NEW c \in Clients
    PROVE  /\ Len(s) \in Nat /\ DOMAIN s = 1..Len(s)
           /\ DOMAIN Append(s, c) = 1..(Len(s) + 1) /\ Append(s, c)[Len(s) + 1] = c
           /\ \A i \in DOMAIN s : Append(s, c)[i] = s[i]
OBVIOUS

LEMMA ConnectsAnswer ==
    ASSUME IndInv, AnswerInv, NEW c \in Clients, NEW how \in Open, Connects(c, how)
    PROVE  AnswerInv'
<1> USE IpcAssumption DEF IndInv, IpcTypeOK, ServingInv, AnswerInv, QueueInv, BusyInv,
        OutcomeInv, Connects
<1>0. "away" \notin Connected /\ how \in Connected /\ how # "ok"
  BY DEF Connected, Open, Svd
<1>1. backlog \in Seq(Clients) /\ talk[c] = "away" /\ c # serving
  BY <1>0
<1>2. \A i \in DOMAIN backlog : backlog[i] # c /\ backlog[i] \in Clients
  <2>1. \A i \in DOMAIN backlog : backlog[i] \in Clients
    BY <1>1
  <2>2. \A i \in DOMAIN backlog : talk[backlog[i]] \in Connected
    BY ZenonT(20)
  <2>3. talk[c] \notin Connected
    BY <1>0, <1>1
  <2>4. QED
    BY <2>1, <2>2, <2>3, Zenon
<1>3. /\ Len(backlog) \in Nat /\ DOMAIN backlog = 1..Len(backlog)
      /\ DOMAIN backlog' = 1..(Len(backlog) + 1) /\ backlog'[Len(backlog) + 1] = c
      /\ \A i \in DOMAIN backlog : backlog'[i] = backlog[i]
  BY <1>1, Appended
<1>4. \A i \in DOMAIN backlog' : i \in DOMAIN backlog \/ i = Len(backlog) + 1
  BY <1>3
<1>5. talk'[c] = how /\ \A d \in Clients \ {c} : talk'[d] = talk[d]
  OBVIOUS
<1>6. QueueInv'
  <2>1. serving' # NoClient => talk'[serving'] \in Connected
    BY <1>1, <1>5
  <2>2. \A i \in DOMAIN backlog' : talk'[backlog'[i]] \in Connected /\ backlog'[i] # serving'
    BY <1>0, <1>1, <1>2, <1>3, <1>4, <1>5
  <2>3. \A i, j \in DOMAIN backlog' : backlog'[i] = backlog'[j] => i = j
    BY <1>2, <1>3, <1>4
  <2>4. QED
    BY <2>1, <2>2, <2>3
<1>7. OutcomeInv'
  BY <1>0, <1>1, <1>5
<1>8. QED
  BY <1>6, <1>7

\* Who is served or waits stays connected.
LEMMA SameQueue ==
    ASSUME IndInv, QueueInv, UNCHANGED <<serving, backlog>>,
           \A d \in Clients : talk[d] \in Connected => talk'[d] \in Connected
    PROVE  QueueInv'
<1>1. \A i \in DOMAIN backlog : backlog[i] \in Clients
  BY DEF IndInv, IpcTypeOK
<1>2. serving # NoClient => serving \in Clients
  BY DEF IndInv, IpcTypeOK
<1>3. QED
  BY <1>1, <1>2 DEF QueueInv

LEMMA ClientStepAnswer ==
    ASSUME IndInv, AnswerInv, NEW c \in Clients, ClientStep(c)
    PROVE  AnswerInv'
<1> USE IpcAssumption DEF IndInv, IpcTypeOK, ServingInv, AnswerInv, QueueInv, BusyInv,
        OutcomeInv
<1>0. /\ "away" \notin Connected /\ Early \cap Connected = {} /\ "ok" \notin Connected \cup Early
      /\ Open \subseteq Connected /\ Svd \subseteq Open /\ "left" \in Connected
  BY DEF Connected, Open, Svd, Early
<1>1. CASE ConnectSvd(c) \/ ConnectRaw(c)
  <2>1. "connected" \in Open /\ "raw" \in Open
    BY DEF Open, Svd
  <2>2. QED
    BY <1>1, <2>1, ConnectsAnswer DEF ConnectSvd, ConnectRaw
<1>2. ASSUME talk[c] \notin Connected
      PROVE  c # serving /\ \A i \in DOMAIN backlog : backlog[i] # c
  BY <1>2
<1>3. CASE EndEarly(c)
  <2>1. PICK how \in Early : talk' = [talk EXCEPT ![c] = how]
    BY <1>3 DEF EndEarly
  <2>2. talk[c] = "away" /\ UNCHANGED <<server, serving, answer, backlog, done>>
    BY <1>3 DEF EndEarly
  <2>3. talk'[c] = how /\ \A d \in Clients \ {c} : talk'[d] = talk[d]
    BY <2>1
  <2>4. QueueInv'
    BY <1>0, <1>2, <2>2, <2>3
  <2>5. OutcomeInv'
    BY <1>0, <2>2, <2>3
  <2>6. QED
    BY <2>2, <2>4, <2>5
<1>4. CASE SendByte(c)
  BY <1>4 DEF SendByte
<1>5. CASE Leave(c)
  <2>1. UNCHANGED <<server, serving, answer, backlog, done>>
    BY <1>5 DEF Leave
  <2>2. /\ talk[c] \in Open /\ talk'[c] = "left"
        /\ \A d \in Clients \ {c} : talk'[d] = talk[d]
    BY <1>5 DEF Leave
  <2>3. QueueInv'
    <3>1. \A d \in Clients : talk[d] \in Connected => talk'[d] \in Connected
      BY <1>0, <2>2
    <3>2. QED
      BY <2>1, <3>1, SameQueue
  <2>4. OutcomeInv'
    BY <1>0, <2>1, <2>2 DEF Open, Svd
  <2>5. QED
    BY <2>1, <2>3, <2>4
<1>6. CASE ComeBack(c)
  <2>1. /\ UNCHANGED <<server, serving, answer, backlog>>
        /\ talk'[c] = "away" /\ ~done'[c] /\ c # serving
        /\ \A i \in DOMAIN backlog : backlog[i] # c
        /\ \A d \in Clients \ {c} : talk'[d] = talk[d] /\ done'[d] = done[d]
    BY <1>2, <1>6 DEF ComeBack
  <2>2. \A i \in DOMAIN backlog : backlog[i] \in Clients
    OBVIOUS
  <2>3. QueueInv'
    BY <2>1, <2>2
  <2>4. BusyInv'
    BY <2>1
  <2>5. OutcomeInv'
    BY <2>1
  <2>6. QED
    BY <2>3, <2>4, <2>5
<1>7. CASE WriteContent(c) \/ WriteNewline(c)
  <2>1. UNCHANGED <<server, serving, answer, backlog, done>>
    BY <1>7 DEF WriteContent, WriteNewline
  <2>2. /\ talk[c] \in Svd /\ talk'[c] \in Svd \cup {"left"}
        /\ \A d \in Clients \ {c} : talk'[d] = talk[d]
    BY <1>7 DEF WriteContent, WriteNewline, Svd
  <2>3. QueueInv'
    <3>1. \A d \in Clients : talk[d] \in Connected => talk'[d] \in Connected
      BY <1>0, <2>2
    <3>2. QED
      BY <2>1, <3>1, SameQueue
  <2>4. OutcomeInv'
    BY <1>0, <2>1, <2>2 DEF Svd, Open
  <2>5. QED
    BY <2>1, <2>3, <2>4
<1>8. QED
  BY <1>1, <1>3, <1>4, <1>5, <1>6, <1>7 DEF ClientStep

LEMMA AnswerInductive == Spec => []AnswerInv
<1>1. IndInv /\ AnswerInv /\ [Next]_vars => AnswerInv'
  <2> SUFFICES ASSUME IndInv, AnswerInv, [Next]_vars PROVE AnswerInv'
    OBVIOUS
  <2>1. CASE Terminate \/ UNCHANGED vars
    BY <2>1 DEF Terminate, AnswerInv, QueueInv, BusyInv, OutcomeInv
  <2>2. CASE Die
    BY <2>2, StoppedAnswer DEF Die
  <2>3. QED
    BY <2>1, <2>2, ServerStepAnswer, ClientStepAnswer DEF Next
<1>2. QED
  BY <1>1, InitAnswer, Inductive, PTL DEF Spec

\* svd's exit code says what became of the request.
THEOREM ExitCodes == Spec => []ExitCodeTells
<1>1. IndInv /\ AnswerInv => ExitCodeTells
  <2> SUFFICES ASSUME IndInv, AnswerInv, NEW c \in Clients,
                      talk[c] \in (Early \cup Ended) \ {"lost"}
               PROVE  ExitCode(talk[c]) = 0 <=> done[c] \/ talk[c] = "dry_run"
    BY DEF ExitCodeTells
  <2>1. ~(server = "write" /\ c = serving)
    BY IpcAssumption DEF AnswerInv, QueueInv, Connected, Open, Svd, Early, Ended
  <2>2. done[c] <=> talk[c] = "ok"
    BY <2>1 DEF AnswerInv, OutcomeInv, Early, Ended
  <2>3. QED
    BY <2>2 DEF ExitCode
<1>2. QED
  BY <1>1, Inductive, AnswerInductive, PTL
-----------------------------------------------------------------------------
\* The limit on a frame.

\* Of c's frame, what is on the wire and what the server has of it.
Sent(c) == wire[c].content + IF c = serving THEN got ELSE 0

\* Until the server has the whole frame of svd, what was sent of it fits, and its
\* newline is on the wire if and only if svd is done.  A client that is away has
\* left nothing behind.
FrameOf(c) ==
    /\ talk[c] = "away" => wire[c] = Unsent
    /\ talk[c] \in Svd /\ (c = serving => server = "read") =>
        /\ Sent(c) < MAX_FRAME_SIZE
        /\ talk[c] = "connected" => Sent(c) = 0
        /\ wire[c].newline <=> talk[c] = "framed"

FrameInv == \A c \in Clients : FrameOf(c)

LEMMA InitFrame == Init => FrameInv
BY DEF Init, FrameInv, FrameOf, Svd

\* Who has to do with nothing that changes, and who has no frame.
LEMMA SameFrame ==
    ASSUME NEW c \in Clients, FrameOf(c), talk'[c] = talk[c], wire'[c] = wire[c],
           UNCHANGED <<serving, got, server>> \/ (c # serving /\ c # serving')
    PROVE  FrameOf(c)'
BY DEF FrameOf, Sent

LEMMA NoFrame ==
    ASSUME NEW c \in Clients, talk'[c] \notin Svd \cup {"away"}
    PROVE  FrameOf(c)'
BY DEF FrameOf

LEMMA CloseFrame ==
    ASSUME IndInv, AnswerInv, FrameInv, serving \in Clients, NEW outcome \in Ended, Close(outcome)
    PROVE  FrameInv'
<1>1. talk[serving] \in Connected /\ serving' \notin Clients /\ UNCHANGED wire
  BY IpcAssumption DEF AnswerInv, QueueInv, Close, NoConnection
<1>2. talk'[serving] \notin Svd \cup {"away"}
  BY <1>1 DEF IndInv, IpcTypeOK, Close, Connected, Open, Svd, Ended
<1>3. \A c \in Clients \ {serving} : talk'[c] = talk[c]
  BY DEF IndInv, IpcTypeOK, Close
<1>4. ASSUME NEW c \in Clients PROVE FrameOf(c)'
  <2>1. CASE c = serving
    BY <1>2, <2>1, NoFrame
  <2>2. CASE c # serving
    <3>1. FrameOf(c)
      BY DEF FrameInv
    <3>2. talk'[c] = talk[c] /\ wire'[c] = wire[c] /\ c # serving'
      BY <1>1, <1>3, <2>2
    <3>3. QED
      BY <2>2, <3>1, <3>2, SameFrame
  <2>3. QED
    BY <2>1, <2>2
<1>5. QED
  BY <1>4 DEF FrameInv

LEMMA StoppedFrame ==
    ASSUME IndInv, FrameInv, CloseAll
    PROVE  FrameInv'
<1> SUFFICES ASSUME NEW c \in Clients PROVE FrameOf(c)'
  BY DEF FrameInv
<1>1. talk'[c] \notin Svd
  BY DEF IndInv, IpcTypeOK, CloseAll, Open, Svd
<1>2. CASE talk'[c] = "away"
  <2>1. talk[c] = "away" /\ wire'[c] = wire[c]
    BY <1>2 DEF CloseAll
  <2>2. QED
    BY <1>1, <1>2, <2>1 DEF FrameInv, FrameOf, Unsent
<1>3. QED
  BY <1>1, <1>2, NoFrame

LEMMA AcceptFrame ==
    ASSUME IndInv, AnswerInv, FrameInv, Accept
    PROVE  FrameInv'
<1>1. serving \notin Clients /\ got = 0 /\ server' = "read" /\ UNCHANGED <<got, wire, talk>>
  BY IpcAssumption DEF Accept, IndInv, ServingInv, IpcTypeOK, AnswerInv, BusyInv
<1>2. ASSUME NEW c \in Clients PROVE FrameOf(c)'
  <2>1. FrameOf(c) /\ wire[c].content \in Nat
    BY IpcAssumption DEF FrameInv, IndInv, IpcTypeOK
  <2>2. Sent(c) = wire[c].content /\ Sent(c)' = wire[c].content
    BY <1>1, <2>1 DEF Sent
  <2>3. QED
    BY <1>1, <2>1, <2>2 DEF FrameOf
<1>3. QED
  BY <1>2 DEF FrameInv

\* A byte of content moves from the wire to the server.
LEMMA ReadFrame ==
    ASSUME IndInv, AnswerInv, FrameInv, ReadContent, ~Close("too_large")
    PROVE  FrameInv'
<1>1. /\ server = "read" /\ UNCHANGED <<server, serving, talk>> /\ got' = got + 1
      /\ wire' = [wire EXCEPT ![serving].content = @ - 1] /\ wire[serving].content > 0
  BY DEF ReadContent, Input
<1>2. /\ serving \in Clients /\ got \in Nat /\ wire[serving].content \in Nat
      /\ talk[serving] # "away"
  BY <1>1, IpcAssumption
     DEF IndInv, ServingInv, IpcTypeOK, AnswerInv, QueueInv, Connected, Open, Svd
<1>3. /\ \A c \in Clients \ {serving} : wire'[c] = wire[c]
      /\ wire'[serving].content = wire[serving].content - 1
      /\ wire'[serving].newline = wire[serving].newline
  BY <1>1, <1>2 DEF IndInv, IpcTypeOK
<1>4. ASSUME NEW c \in Clients PROVE FrameOf(c)'
  <2>1. FrameOf(c)
    BY DEF FrameInv
  <2>2. CASE c = serving
    <3>1. Sent(c)' = Sent(c)
      BY <1>1, <1>2, <1>3, <2>2 DEF Sent
    <3>2. QED
      BY <1>1, <1>2, <1>3, <2>1, <2>2, <3>1 DEF FrameOf
  <2>3. CASE c # serving
    BY <1>1, <1>3, <2>1, <2>3, SameFrame
  <2>4. QED
    BY <2>2, <2>3
<1>5. QED
  BY <1>4 DEF FrameInv

\* The server has the frame: nothing is said of its client any more.
LEMMA NewlineFrame ==
    ASSUME IndInv, AnswerInv, FrameInv, ReadNewline, ~Close("dropped")
    PROVE  FrameInv'
<1>1. /\ server = "read" /\ server' = "handle" /\ UNCHANGED <<serving, talk>>
      /\ wire' = [wire EXCEPT ![serving].newline = FALSE]
  BY DEF ReadNewline
<1>2. serving \in Clients /\ talk[serving] # "away"
  BY <1>1, IpcAssumption
     DEF IndInv, ServingInv, IpcTypeOK, AnswerInv, QueueInv, Connected, Open, Svd
<1>3. \A c \in Clients \ {serving} : wire'[c] = wire[c]
  BY <1>1 DEF IndInv, IpcTypeOK
<1>4. ASSUME NEW c \in Clients PROVE FrameOf(c)'
  <2>1. CASE c = serving
    BY <1>1, <1>2, <2>1 DEF FrameOf
  <2>2. CASE c # serving
    BY <1>1, <1>3, <2>2, SameFrame DEF FrameInv
  <2>3. QED
    BY <2>1, <2>2
<1>5. QED
  BY <1>4 DEF FrameInv

LEMMA ServerStepFrame ==
    ASSUME IndInv, AnswerInv, FrameInv, ServerStep \/ Skip \/ Tick \/ Start
    PROVE  FrameInv'
<1>1. CASE Tick
  <2>1. UNCHANGED <<talk, wire, serving, got, server>>
    BY <1>1 DEF Tick
  <2>2. QED
    BY <2>1, SameFrame DEF FrameInv
<1>2. CASE Remove \/ Bind \/ SetPermissions \/ Start
  <2>1. UNCHANGED <<talk, wire, serving>> /\ serving \notin Clients
    BY <1>2, IpcAssumption
       DEF Remove, Bind, SetPermissions, Start, IndInv, IpcTypeOK, AnswerInv, BusyInv
  <2>2. QED
    BY <2>1, SameFrame DEF FrameInv
<1>3. CASE Stop
  BY <1>3, StoppedFrame DEF Stop
<1>4. ASSUME NEW outcome \in Ended, server \in {"read", "write"}, Close(outcome)
      PROVE  FrameInv'
  BY <1>4, CloseFrame DEF IndInv, ServingInv
<1>5. CASE Skip \/ ReadClosed \/ ReadTimesOut
  BY <1>4, <1>5 DEF Skip, ReadClosed, ReadTimesOut, Ended
<1>6. CASE ReadContent
  <2>1. CASE Close("too_large")
    BY <1>4, <1>6, <2>1 DEF ReadContent, Ended
  <2>2. QED
    BY <1>6, <2>1, ReadFrame
<1>7. CASE ReadNewline
  <2>1. CASE Close("dropped")
    BY <1>4, <1>7, <2>1 DEF ReadNewline, Ended
  <2>2. QED
    BY <1>7, <2>1, NewlineFrame
<1>8. CASE Handle
  <2>1. /\ server = "handle" /\ server' = "write"
        /\ UNCHANGED <<talk, wire, serving, got>>
    BY <1>8 DEF Handle
  <2>2. QED
    BY <2>1 DEF FrameInv, FrameOf, Sent
<1>9. CASE Write
  <2>1. answer \in Ended /\ "unsent" \in Ended
    BY <1>9 DEF Write, IndInv, ServingInv, Ended
  <2>2. QED
    BY <1>4, <1>9, <2>1 DEF Write
<1>10. CASE Accept
  BY <1>10, AcceptFrame
<1>11. QED
  BY <1>1, <1>2, <1>3, <1>5, <1>6, <1>7, <1>8, <1>9, <1>10 DEF ServerStep

LEMMA ClientStepFrame ==
    ASSUME IndInv, AnswerInv, FrameInv, NEW c \in Clients, ClientStep(c)
    PROVE  FrameInv'
<1>1. UNCHANGED <<server, serving, got>>
  BY DEF ClientStep, EndEarly, ConnectSvd, WriteContent, WriteNewline, ConnectRaw,
         Connects, SendByte, Leave, ComeBack
<1>2. \A d \in Clients \ {c} : talk'[d] = talk[d] /\ wire'[d] = wire[d]
  BY DEF IndInv, IpcTypeOK, ClientStep, EndEarly, ConnectSvd, WriteContent, WriteNewline,
         ConnectRaw, Connects, SendByte, Leave, ComeBack
<1>3. ASSUME FrameOf(c)' PROVE FrameInv'
  BY <1>1, <1>2, <1>3, SameFrame DEF FrameInv
<1>4. /\ FrameOf(c) /\ wire[c] \in [content : 0..MAX_FRAME_SIZE, newline : BOOLEAN]
      /\ got \in Nat /\ MAX_FRAME_SIZE \in Nat
  BY IpcAssumption DEF FrameInv, IndInv, IpcTypeOK
<1>5. CASE ConnectSvd(c) \/ ConnectRaw(c)
  <2>1. /\ talk[c] = "away" /\ talk'[c] \in {"connected", "raw"} /\ wire'[c] = wire[c]
    BY <1>5 DEF ConnectSvd, ConnectRaw, Connects, IndInv, IpcTypeOK
  <2>2. c # serving
    BY <2>1, IpcAssumption DEF AnswerInv, QueueInv, Connected, Open, Svd
  <2>3. wire'[c] = Unsent
    BY <1>4, <2>1 DEF FrameOf
  <2>4. Sent(c)' = 0
    BY <1>1, <2>2, <2>3 DEF Sent, Unsent
  <2>5. FrameOf(c)'
    BY <2>1, <2>3, <2>4, IpcAssumption DEF FrameOf, Unsent
  <2>6. QED
    BY <1>3, <2>5
<1>6. CASE WriteContent(c)
  <2>1. PICK n \in 1..MAX_FRAME_SIZE :
          \/ /\ FitsFrame(n) /\ wire' = [wire EXCEPT ![c].content = n]
             /\ talk' = [talk EXCEPT ![c] = "content"]
          \/ talk' = [talk EXCEPT ![c] = "left"]
    BY <1>6 DEF WriteContent
  <2>2. talk[c] = "connected"
    BY <1>6 DEF WriteContent
  <2>3. CASE talk' = [talk EXCEPT ![c] = "left"]
    <3>1. talk'[c] = "left"
      BY <2>3 DEF IndInv, IpcTypeOK
    <3>2. QED
      BY <1>3, <3>1, NoFrame DEF Svd
  <2>4. CASE /\ FitsFrame(n) /\ wire' = [wire EXCEPT ![c].content = n]
             /\ talk' = [talk EXCEPT ![c] = "content"]
    <3>1. talk'[c] = "content" /\ wire'[c].content = n /\ wire'[c].newline = wire[c].newline
      BY <2>4 DEF IndInv, IpcTypeOK
    <3>2. n < MAX_FRAME_SIZE
      BY <1>4, <2>4 DEF FitsFrame
    <3>3. ASSUME c = serving => server = "read"
          PROVE  Sent(c)' = n /\ ~wire[c].newline
      <4>1. Sent(c) = 0 /\ ~wire[c].newline
        BY <1>4, <2>2, <3>3 DEF FrameOf, Svd
      <4>2. c = serving => got = 0
        BY <1>4, <4>1 DEF Sent
      <4>3. QED
        BY <1>1, <3>1, <4>1, <4>2 DEF Sent
    <3>4. FrameOf(c)'
      BY <1>1, <3>1, <3>2, <3>3 DEF FrameOf
    <3>5. QED
      BY <1>3, <3>4
  <2>5. QED
    BY <2>1, <2>3, <2>4
<1>7. CASE WriteNewline(c)
  <2>1. talk[c] = "content" /\ talk'[c] = "framed" /\ wire'[c].newline
        /\ wire'[c].content = wire[c].content
    BY <1>7 DEF WriteNewline, IndInv, IpcTypeOK
  <2>2. Sent(c)' = Sent(c)
    BY <1>1, <2>1 DEF Sent
  <2>3. FrameOf(c)'
    BY <1>1, <1>4, <2>1, <2>2 DEF FrameOf, Svd
  <2>4. QED
    BY <1>3, <2>3
<1>8. CASE EndEarly(c) \/ Leave(c) \/ SendByte(c)
  <2>1. talk'[c] \in Early \cup {"left", "raw"}
    BY <1>8 DEF EndEarly, Leave, SendByte, IndInv, IpcTypeOK
  <2>2. QED
    BY <1>3, <2>1, NoFrame DEF Early, Svd
<1>9. CASE ComeBack(c)
  <2>1. talk'[c] = "away" /\ wire'[c] = Unsent
    BY <1>9 DEF ComeBack, IndInv, IpcTypeOK
  <2>2. QED
    BY <1>3, <2>1 DEF FrameOf, Svd
<1>10. QED
  BY <1>5, <1>6, <1>7, <1>8, <1>9 DEF ClientStep

LEMMA FrameInductive == Spec => []FrameInv
<1>1. IndInv /\ AnswerInv /\ FrameInv /\ [Next]_vars => FrameInv'
  <2> SUFFICES ASSUME IndInv, AnswerInv, FrameInv, [Next]_vars PROVE FrameInv'
    OBVIOUS
  <2>1. CASE Terminate \/ UNCHANGED vars
    <3>1. UNCHANGED <<talk, wire, serving, got, server>>
      BY <2>1 DEF Terminate
    <3>2. QED
      BY <3>1, SameFrame DEF FrameInv
  <2>2. CASE Die
    BY <2>2, StoppedFrame DEF Die
  <2>3. QED
    BY <2>1, <2>2, ServerStepFrame, ClientStepFrame DEF Next
<1>2. QED
  BY <1>1, InitFrame, Inductive, AnswerInductive, PTL DEF Spec

\* The two ends agree on the limit: svd, between any two of its writes, is never
\* refused for the size of its frame, and once the frame is whole not for its pace.
THEOREM FramesAgree == Spec => FramedIsRead
<1>1. IndInv /\ FrameInv /\ [Next]_vars =>
        [\A c \in Clients :
           /\ talk[c] \in Svd => talk'[c] # "too_large"
           /\ talk[c] = "framed" => talk'[c] # "timed_out"]_vars
  <2> SUFFICES ASSUME IndInv, FrameInv, Next, NEW c \in Clients, talk[c] \in Svd
               PROVE  /\ talk'[c] # "too_large"
                      /\ talk[c] = "framed" => talk'[c] # "timed_out"
    BY DEF Svd
  <2> USE DEF IndInv, IpcTypeOK
  <2>1. ASSUME NEW outcome \in {"ok", "error", "unsent", "dropped"}, Close(outcome)
        PROVE  talk'[c] \notin {"too_large", "timed_out"}
    BY <2>1 DEF Close, Svd
  <2>2. CASE ReadContent
    <3>1. CASE Oversize(got + 1) /\ Close("too_large")
      <4>1. server = "read" /\ wire[serving].content \in Nat \ {0} /\ serving \in Clients
        BY <2>2, IpcAssumption DEF ReadContent, Input, ServingInv
      <4>2. got + wire[serving].content >= MAX_FRAME_SIZE
        BY <3>1, <4>1, IpcAssumption DEF Oversize
      <4>3. c # serving
        <5>1. SUFFICES ASSUME c = serving PROVE FALSE
          OBVIOUS
        <5>2. Sent(c) = wire[serving].content + got
          BY <5>1 DEF Sent
        <5>3. Sent(c) < MAX_FRAME_SIZE
          BY <4>1, <5>1 DEF FrameInv, FrameOf
        <5>4. QED
          BY <4>1, <4>2, <5>2, <5>3, IpcAssumption
      <4>4. QED
        BY <3>1, <4>3 DEF Close, Svd
    <3>2. CASE UNCHANGED talk
      BY <3>2 DEF Svd
    <3>3. QED
      BY <2>2, <3>1, <3>2 DEF ReadContent
  <2>3. CASE ReadTimesOut
    <3>1. server = "read" /\ ~wire[serving].newline /\ serving \in Clients
      BY <2>3 DEF ReadTimesOut, Readable, Input, ServingInv
    <3>2. talk[c] = "framed" => c # serving
      BY <3>1 DEF FrameInv, FrameOf
    <3>3. QED
      BY <2>3, <3>2 DEF ReadTimesOut, Close, Svd
  <2>4. CASE ReadNewline \/ ReadClosed \/ Skip
    <3>1. Close("dropped") \/ UNCHANGED talk
      BY <2>4 DEF ReadNewline, ReadClosed, Skip
    <3>2. QED
      BY <2>1, <3>1 DEF Svd
  <2>5. CASE Write
    <3>1. answer \in {"ok", "error"}
      BY <2>5 DEF Write, ServingInv
    <3>2. QED
      BY <2>1, <2>5, <3>1 DEF Write
  <2>6. CASE Stop \/ Die
    BY <2>6 DEF Stop, Die, CloseAll, Svd
  <2>7. CASE \/ Remove \/ Bind \/ SetPermissions \/ Start \/ Accept \/ Handle \/ Tick \/ Terminate
    <3>1. UNCHANGED talk
      BY <2>7 DEF Remove, Bind, SetPermissions, Start, Accept, Handle, Tick, Terminate
    <3>2. QED
      BY <3>1 DEF Svd
  <2>8. ASSUME NEW d \in Clients, ClientStep(d)
        PROVE  talk'[c] \notin {"too_large", "timed_out"}
    BY <2>8 DEF ClientStep, EndEarly, Early, ConnectSvd, WriteContent, WriteNewline,
                ConnectRaw, Connects, SendByte, Leave, ComeBack, Svd
  <2>9. QED
    BY <2>2, <2>3, <2>4, <2>5, <2>6, <2>7, <2>8 DEF Next, ServerStep
<1>2. QED
  BY <1>1, Inductive, FrameInductive, PTL DEF Spec, FramedIsRead
=============================================================================
