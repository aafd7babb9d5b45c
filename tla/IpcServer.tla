----------------------------- MODULE IpcServer -----------------------------
(***************************************************************************)
(* run_server of ipc/server.rs with the frames of svd-proto/framing.rs:    *)
(* the socket it leaves behind and finds again, one thread that serves one *)
(* connection after the other, svd (svd-cli/main.rs) with its exit code,   *)
(* and other clients that send a frame, a part of one, too much or         *)
(* nothing.  Bytes are told apart only as content and newline.  The        *)
(* process may be killed at any step and started again.                    *)
(*                                                                         *)
(* Time passes in ticks while the server waits for a byte; everything else *)
(* takes none.  A read gives up after Timeout ticks.                       *)
(*                                                                         *)
(* A definition marked "Mutation" is a bug put in place of the definition  *)
(* that follows it, to show that a property can fail.                      *)
(***************************************************************************)
EXTENDS Naturals, Sequences

CONSTANTS
    Clients,
    NoClient,      \* the server serves nobody
    MAX_FRAME_SIZE,
    Timeout,       \* ipc_timeout, set on the stream for reads and writes
    AcceptFails    \* accept(2) may fail

ASSUME IpcAssumption ==
    /\ NoClient \notin Clients
    /\ MAX_FRAME_SIZE \in Nat \ {0} /\ Timeout \in Nat \ {0}
    /\ AcceptFails \in BOOLEAN

VARIABLES
    server,    \* "remove", "bind", "chmod", "accept", "read", "handle", "write",
               \* "stopped" when run_server has returned, "dead" without a process
    serving,   \* the client whose stream is open
    got,       \* content bytes read of its frame
    quiet,     \* ticks since its last byte
    held,      \* history: ticks since it was accepted
    answer,    \* the response for it: "none", "ok" or "error"
    path,      \* at SOCKET_PATH: "absent", "other" (no socket), "stale", or the
               \* "live" socket of this server
    shutdown,  \* the flag
    backlog,   \* connections not yet accepted
    wire,      \* per client: content bytes not yet read, and if a newline follows
    talk,      \* per client: what it has done and what came of it
    done       \* history, per client: its request was carried out

connection == <<serving, got, quiet, held, answer>>
socket == <<path, shutdown, backlog>>
clientVars == <<wire, talk, done>>
vars == <<server, connection, socket, clientVars>>

Unsent == [content |-> 0, newline |-> FALSE]

\* svd between its system calls: "connected", the "content" of its frame written,
\* the frame whole.  It may be stopped at any of them for as long as it takes.
Svd == {"connected", "content", "framed"}
\* "raw": whatever else talks to the socket; "left": closed by the client.
Open == Svd \cup {"raw"}
\* How svd ends before it talks to the daemon, and how the daemon ends the
\* connection: with a response, "ok" or "error", or without one.
Early == {"rejected", "dry_run", "refused"}
Ended == {"ok", "error", "unsent", "dropped", "too_large", "timed_out", "lost"}
TalkStates == {"away", "left"} \cup Open \cup Early \cup Ended

Init ==
    /\ server = "dead" /\ serving = NoClient
    /\ got = 0 /\ quiet = 0 /\ held = 0 /\ answer = "none"
    /\ path \in {"absent", "stale", "other"} /\ shutdown = FALSE /\ backlog = <<>>
    /\ wire = [c \in Clients |-> Unsent] /\ talk = [c \in Clients |-> "away"]
    /\ done = [c \in Clients |-> FALSE]

-----------------------------------------------------------------------------
\* The clients.

\* Mutation: the writer does not count the newline.
FitsFrameBarely(n) == n <= MAX_FRAME_SIZE
\* write_frame's limit on n bytes of JSON.
FitsFrame(n) == n + 1 <= MAX_FRAME_SIZE

Connects(c, how) ==
    /\ talk[c] = "away" /\ path = "live" /\ backlog' = Append(backlog, c)
    /\ talk' = [talk EXCEPT ![c] = how]
    /\ UNCHANGED <<server, connection, path, shutdown, wire, done>>

\* svd: the request is not well-formed, is a dry run, or there is nobody to connect
\* to; before its mode is set the socket may not let svd connect.
EndEarly(c) ==
    /\ talk[c] = "away"
    /\ \E how \in Early :
         /\ how = "refused" => path # "live" \/ server = "chmod"
         /\ talk' = [talk EXCEPT ![c] = how]
    /\ UNCHANGED <<server, connection, socket, wire, done>>

ConnectSvd(c) == Connects(c, "connected")
ConnectRaw(c) == Connects(c, "raw")

\* write_frame's first write_all, or svd leaves because the frame would be too
\* large.  On a stream that the server has closed the write fails.
WriteContent(c) ==
    /\ talk[c] = "connected"
    /\ \E n \in 1..MAX_FRAME_SIZE :
         \/ /\ FitsFrame(n) /\ wire' = [wire EXCEPT ![c].content = n]
            /\ talk' = [talk EXCEPT ![c] = "content"]
         \/ ~FitsFrame(n) /\ talk' = [talk EXCEPT ![c] = "left"] /\ UNCHANGED wire
    /\ UNCHANGED <<server, connection, socket, done>>

\* Its second.
WriteNewline(c) ==
    /\ talk[c] = "content" /\ talk' = [talk EXCEPT ![c] = "framed"]
    /\ wire' = [wire EXCEPT ![c].newline = TRUE]
    /\ UNCHANGED <<server, connection, socket, done>>

\* Somebody who does not use write_frame sends bytes at a pace of his own.
SendByte(c) ==
    /\ talk[c] = "raw" /\ ~wire[c].newline
    /\ \/ wire[c].content = 0 /\ wire' = [wire EXCEPT ![c].content = 1]
       \/ wire' = [wire EXCEPT ![c].newline = TRUE]
    /\ UNCHANGED <<server, connection, socket, talk, done>>

Leave(c) ==
    /\ talk[c] \in Open /\ talk' = [talk EXCEPT ![c] = "left"]
    /\ UNCHANGED <<server, connection, socket, wire, done>>

\* Mutation: svd reports that it got an answer.
ExitCodeOfTransport(outcome) == IF outcome \in {"ok", "error", "dry_run"} THEN 0 ELSE 1
\* How svd exits.
ExitCode(outcome) == IF outcome \in {"ok", "dry_run"} THEN 0 ELSE 1

\* Once the stream is closed on both sides a client may come back.
ComeBack(c) ==
    /\ talk[c] \notin Open \cup {"away"}
    /\ c # serving /\ \A i \in DOMAIN backlog : backlog[i] # c
    /\ talk' = [talk EXCEPT ![c] = "away"] /\ wire' = [wire EXCEPT ![c] = Unsent]
    /\ done' = [done EXCEPT ![c] = FALSE]
    /\ UNCHANGED <<server, connection, socket>>

\* The signal that sets the flag.
Terminate ==
    /\ server \notin {"stopped", "dead"} /\ ~shutdown /\ shutdown' = TRUE
    /\ UNCHANGED <<server, connection, path, backlog, clientVars>>

-----------------------------------------------------------------------------
\* Setting up the socket.

\* A process is started; the service manager may have emptied the directory.
Start ==
    /\ server \in {"stopped", "dead"} /\ server' = "remove"
    /\ shutdown' = FALSE /\ path' \in {path, "absent"}
    /\ UNCHANGED <<connection, backlog, clientVars>>

\* Mutation: what an earlier process left is not removed.
RemoveNothing ==
    /\ server = "remove" /\ server' = (IF path = "other" THEN "stopped" ELSE "bind")
    /\ UNCHANGED <<connection, socket, clientVars>>
\* A socket at the path is removed; anything else is an error.
Remove ==
    /\ server = "remove"
    /\ IF path = "other" THEN server' = "stopped" /\ path' = path
                         ELSE server' = "bind" /\ path' = "absent"
    /\ UNCHANGED <<connection, shutdown, backlog, clientVars>>

\* bind(2) does not replace a file.
Bind ==
    /\ server = "bind"
    /\ IF path = "absent" THEN server' = "chmod" /\ path' = "live"
                          ELSE server' = "stopped" /\ path' = path
    /\ UNCHANGED <<connection, shutdown, backlog, clientVars>>

SetPermissions ==
    server = "chmod" /\ server' = "accept" /\ UNCHANGED <<connection, socket, clientVars>>

-----------------------------------------------------------------------------
\* The accept loop.

\* Mutation: the flag is looked at only when nobody is waiting.
AcceptFirst ==
    /\ server = "accept" /\ backlog # <<>>
    /\ server' = "read" /\ serving' = Head(backlog) /\ backlog' = Tail(backlog)
    /\ UNCHANGED <<got, quiet, held, answer, path, shutdown, clientVars>>
Accept ==
    /\ server = "accept" /\ ~shutdown /\ backlog # <<>>
    /\ server' = "read" /\ serving' = Head(backlog) /\ backlog' = Tail(backlog)
    /\ UNCHANGED <<got, quiet, held, answer, path, shutdown, clientVars>>

NoConnection ==
    /\ serving' = NoClient /\ got' = 0 /\ quiet' = 0 /\ held' = 0 /\ answer' = "none"

\* The listener and the stream are closed, with all that was waiting; the file of
\* the socket stays.
CloseAll ==
    /\ NoConnection /\ backlog' = <<>>
    /\ path' = IF path = "live" THEN "stale" ELSE path
    /\ talk' = [c \in Clients |-> IF talk[c] \in Open THEN "lost" ELSE talk[c]]
    /\ UNCHANGED <<shutdown, wire, done>>

\* The flag at the top of the loop, or an accept that fails.
Stop ==
    /\ server = "accept" /\ server' = "stopped"
    /\ shutdown \/ AcceptFails
    /\ CloseAll

\* The process is killed.
Die == server # "dead" /\ server' = "dead" /\ CloseAll

\* The stream is dropped and the loop goes on; a client that has left does not
\* see how.
Close(outcome) ==
    /\ server' = "accept" /\ NoConnection
    /\ talk' = [talk EXCEPT ![serving] = IF @ \in Open THEN outcome ELSE @]
    /\ UNCHANGED <<socket, wire, done>>

\* set_nonblocking, the timeouts or SO_PEERCRED fail; or the signal that sets the
\* flag interrupts a read, which a read with a timeout does not resume.
Skip ==
    server = "read" /\ ((got = 0 /\ held = 0) \/ shutdown) /\ Close("dropped")

-----------------------------------------------------------------------------
\* read_frame

Input == wire[serving]
Readable == Input.content > 0 \/ Input.newline \/ talk[serving] = "left"

\* Mutation: one content byte too many is read.
OversizeLate(n) == n > MAX_FRAME_SIZE
Oversize(n) == n >= MAX_FRAME_SIZE

\* A content byte, with the size check after it.
ReadContent ==
    /\ server = "read" /\ Input.content > 0
    /\ \/ /\ ~Oversize(got + 1) /\ got' = got + 1 /\ quiet' = 0
          /\ wire' = [wire EXCEPT ![serving].content = @ - 1]
          /\ UNCHANGED <<server, serving, held, answer, socket, talk, done>>
       \/ Oversize(got + 1) /\ Close("too_large")

\* The newline ends the frame.  What write_frame sent parses; what somebody
\* else sent may not be UTF-8, JSON or a request.
ReadNewline ==
    /\ server = "read" /\ Input.content = 0 /\ Input.newline
    /\ \/ /\ server' = "handle" /\ wire' = [wire EXCEPT ![serving].newline = FALSE]
          /\ UNCHANGED <<connection, socket, talk, done>>
       \/ talk[serving] # "framed" /\ Close("dropped")

\* End of file.
ReadClosed ==
    /\ server = "read" /\ talk[serving] = "left"
    /\ Input = Unsent /\ Close("dropped")

\* Mutation: the stream has no read timeout.
ReadTimesOutNever == FALSE /\ Close("timed_out")
ReadTimesOut ==
    server = "read" /\ ~Readable /\ quiet = Timeout /\ Close("timed_out")

Tick ==
    /\ server = "read" /\ ~Readable /\ quiet < Timeout
    /\ quiet' = quiet + 1 /\ held' = held + 1
    /\ UNCHANGED <<server, serving, got, answer, socket, clientVars>>

-----------------------------------------------------------------------------
\* The handler answers every request; Daemon says what it does meanwhile.
Handle ==
    /\ server = "handle" /\ server' = "write"
    /\ answer' \in {"ok", "error"} /\ done' = [done EXCEPT ![serving] = (answer' = "ok")]
    /\ UNCHANGED <<serving, got, quiet, held, socket, wire, talk>>

\* A response fits the socket's buffer; one with the words of an error in it may
\* not fit a frame.
Write ==
    /\ server = "write"
    /\ Close(answer) \/ (answer = "error" /\ Close("unsent"))

-----------------------------------------------------------------------------
ServerStep ==
    \/ Remove \/ Bind \/ SetPermissions
    \/ Accept \/ Stop \/ ReadContent \/ ReadNewline \/ ReadClosed \/ ReadTimesOut
    \/ Handle \/ Write

ClientStep(c) ==
    \/ EndEarly(c) \/ ConnectSvd(c) \/ WriteContent(c) \/ WriteNewline(c)
    \/ ConnectRaw(c) \/ SendByte(c) \/ Leave(c) \/ ComeBack(c)

Next ==
    \/ ServerStep \/ Skip \/ Tick \/ Terminate \/ Start \/ Die
    \/ \E c \in Clients : ClientStep(c)

Spec == Init /\ [][Next]_vars

\* The server goes on and time passes; clients owe nothing.
FairSpec == Spec /\ WF_vars(ServerStep) /\ WF_vars(Tick)

-----------------------------------------------------------------------------
\* Type correctness.
IpcTypeOK ==
    /\ server \in {"remove", "bind", "chmod", "accept", "read", "handle", "write",
                   "stopped", "dead"}
    /\ serving \in Clients \cup {NoClient}
    /\ got \in 0..(MAX_FRAME_SIZE - 1) /\ quiet \in 0..Timeout /\ held \in Nat
    /\ answer \in {"none", "ok", "error"} /\ path \in {"absent", "other", "stale", "live"}
    /\ shutdown \in BOOLEAN /\ backlog \in Seq(Clients)
    /\ wire \in [Clients -> [content : 0..MAX_FRAME_SIZE, newline : BOOLEAN]]
    /\ talk \in [Clients -> TalkStates] /\ done \in [Clients -> BOOLEAN]

\* "IPC frames are limited to 4096 bytes and have bounded read/write timeouts"
\* (readme.md): together they bound how long one client can keep all the others
\* waiting, however it times its bytes.
HoldIsBounded == held <= MAX_FRAME_SIZE * Timeout

\* The two ends agree on the limit: svd, which write_frame lets send no more than
\* fits, is never refused by read_frame for the size of its frame, however the
\* reads fall between its writes.  Once its frame is whole it is not timed out
\* either, however long it waits behind others; one that is stopped before that is.
FramedIsRead ==
    [][\A c \in Clients :
        /\ talk[c] \in Svd => talk'[c] # "too_large"
        /\ talk[c] = "framed" => talk'[c] # "timed_out"]_vars

\* "Stale socket files are removed before binding (crash-safe restart)"
\* (server.rs): whatever the process before was doing when it died, the next one
\* comes to listen, unless what is at the path is no socket, which stays.
StaleSocketReplaced ==
    [][/\ server \notin {"accept", "stopped"} /\ server' = "stopped" => path = "other"
       /\ server \notin {"stopped", "dead"} /\ path = "other" => path' = "other"]_vars

\* svd's exit code says what became of the request: 0 if and only if it was
\* carried out (or was a dry run), except that svd cannot know what a daemon
\* that died under it had done.
ExitCodeTells ==
    \A c \in Clients :
        talk[c] \in (Early \cup Ended) \ {"lost"} =>
          (ExitCode(talk[c]) = 0 <=> done[c] \/ talk[c] = "dry_run")

\* Nobody waits for ever, behind another client's connection or for an answer to
\* his own, and svd has no timeout that would end it.
EveryoneServed == \A c \in Clients : talk[c] \in Open ~> talk[c] \notin Open

\* The daemon can be stopped, however many clients keep asking.
ShutdownStops == shutdown ~> server \in {"stopped", "dead"}
=============================================================================
