-------------------------------- MODULE Session --------------------------------
(***************************************************************************)
(* One approved session from end to end: `tbridge share` (remote-host.ts), *)
(* `tbridge connect` (remote-guest.ts), the relay's room (main.ts and      *)
(* session-manager.ts of apps/server) and the connections between them,    *)
(* from the moment at which the relay has sent SESSION_READY to both.      *)
(*                                                                         *)
(* Each connection has a queue in either direction.  A close() travels in  *)
(* its queue as "CLOSE".  A connection that is cut carries nothing more;    *)
(* each end may still read what had arrived and sees the close later, on   *)
(* its own, so messages of a connection and of its successor overtake each *)
(* other.  Handlers are those of Relay, HostCli and GuestCli; left out are *)
(* what comes before the approval, limits and backpressure.                *)
(***************************************************************************)
EXTENDS Naturals, Sequences, FiniteSets

CONSTANTS MaxConnections,           \* bound on the connections of a peer that open
          MaxCuts,                  \* bound on the connections that are lost
          MaxFailures,              \* bound on the connections that cannot be made
          MaxTyped, MaxOutput,      \* bounds on the chunks of input and output
          MAX_RECONNECT_ATTEMPTS,
          None

ASSUME SessionAssumption ==
    /\ MaxConnections \in Nat \ {0}
    /\ {MaxCuts, MaxFailures, MaxTyped, MaxOutput} \subseteq Nat
    /\ MAX_RECONNECT_ATTEMPTS \in Nat \ {0}

VARIABLES
    readyState,     \* of a connection, as its peer sees it
    serverState,    \* and as the relay sees it
    up, down,       \* messages under way to the relay and to the peer
    cut,            \* connections that are lost
    failures,       \* connections that could not be made
    attempt,        \* which attempt made the connection
    timers,         \* per peer and attempt: pending reconnections
    isClosed, sessionId,    \* of each peer, as in the code
    child, childSocket,     \* the host's shell, and where its output goes
    cipher, currentSocket,  \* of the guest
    sendCounter, recvCounter,       \* of each peer's cipher
    typed, printed,         \* how many chunks went in at the guest and out of the shell
    shellRead, shown,       \* which of them came out at the shell and at the guest
    refused,                \* a message was refused by decrypt
    state, seat,            \* the room: its state, and the connection on each seat
    roomsBySocket,          \* connections with an entry
    graceTimers, graceTimer,        \* pending, and the one on record
    inbox           \* history: kinds of message the relay has sent, as in Relay

wireVars == <<readyState, serverState, up, down, cut, failures>>
linkVars == <<attempt, timers, isClosed, sessionId>>
terminalVars == <<child, childSocket, cipher, currentSocket, sendCounter, recvCounter, typed,
                  printed, shellRead, shown, refused>>
roomVars == <<state, seat, roomsBySocket, graceTimers, graceTimer>>
vars == <<wireVars, linkVars, terminalVars, roomVars, inbox>>

Peer == {"host", "guest"}
Other(p) == IF p = "host" THEN "guest" ELSE "host"

Connection == Peer \X (1 .. MaxConnections)
First(p) == <<p, 1>>
Owner(c) == c[1]

Attempt == 0 .. MAX_RECONNECT_ATTEMPTS - 1

(* n: the chunk of terminal traffic; counter: of the cipher. *)
Message(type) == [type |-> type, n |-> 0, counter |-> 0]
Chunk(type, n, counter) == [type |-> type, n |-> n, counter |-> counter]

Forwarded == {"KEY_EXCHANGE", "ENCRYPTED_DATA", "PTY_INPUT", "PTY_RESIZE", "PTY_EXIT",
              "SESSION_TERMINATE"}

(* "TERMINATED" is a SESSION_TERMINATE that the relay sends by itself. *)
Ends == {"SESSION_TERMINATE", "TERMINATED", "PTY_EXIT"}

Messages ==
    [type : Forwarded \cup Ends \cup {"SESSION_READY", "RECONNECT", "RECONNECT_OK", "ERROR",
                                      "CLOSE"},
     n : 0 .. MaxTyped + MaxOutput, counter : 0 .. MaxTyped + MaxOutput]

TypeOK ==
    /\ readyState \in [Connection -> {"absent", "connecting", "open", "closing", "closed"}]
    /\ serverState \in [Connection -> {"absent", "open", "closing", "closed"}]
    /\ \A c \in Connection : up[c] \in Seq(Messages) /\ down[c] \in Seq(Messages)
    /\ cut \subseteq Connection /\ failures \in 0 .. MaxFailures
    /\ attempt \in [Connection -> Attempt]
    /\ timers \in [Peer -> [Attempt -> Nat]]
    /\ isClosed \in [Peer -> BOOLEAN] /\ sessionId \in [Peer -> BOOLEAN]
    /\ child \in {"none", "running", "killed", "exited"}
    /\ childSocket \in Connection \cup {None} /\ currentSocket \in Connection
    /\ cipher \in BOOLEAN /\ refused \in BOOLEAN
    /\ sendCounter \in [Peer -> Nat] /\ recvCounter \in [Peer -> Nat]
    /\ typed \in 0 .. MaxTyped /\ printed \in 0 .. MaxOutput
    /\ shellRead \in Seq(1 .. MaxTyped) /\ shown \in Seq(1 .. MaxOutput)
    /\ state \in {"active", "ended"}
    /\ seat \in [Peer -> Connection \cup {None}]
    /\ roomsBySocket \subseteq Connection /\ graceTimers \subseteq Connection
    /\ graceTimer \in Connection \cup {None}

Init ==
    /\ readyState = [c \in Connection |-> IF c = First(Owner(c)) THEN "open" ELSE "absent"]
    /\ serverState = readyState
    /\ up = [c \in Connection |-> <<>>]
    /\ down = [c \in Connection |-> IF c = First(Owner(c)) THEN <<Message("SESSION_READY")>>
                                                          ELSE <<>>]
    /\ cut = {} /\ failures = 0
    /\ attempt = [c \in Connection |-> 0]
    /\ timers = [p \in Peer |-> [n \in Attempt |-> 0]]
    /\ isClosed = [p \in Peer |-> FALSE] /\ sessionId = [p \in Peer |-> FALSE]
    /\ child = "none" /\ childSocket = None
    /\ cipher = FALSE /\ currentSocket = First("guest")
    /\ sendCounter = [p \in Peer |-> 0] /\ recvCounter = [p \in Peer |-> 0]
    /\ typed = 0 /\ printed = 0
    /\ shellRead = <<>> /\ shown = <<>>
    /\ refused = FALSE
    /\ state = "active"
    /\ seat = [p \in Peer |-> First(p)]
    /\ roomsBySocket = {First(p) : p \in Peer}
    /\ graceTimers = {} /\ graceTimer = None
    /\ inbox = [c \in Connection |->
                  IF c = First("host") THEN {"HOST_REGISTERED", "SESSION_READY", "SESSION_INFO"}
                  ELSE IF c = First("guest") THEN {"SESSION_READY", "SESSION_INFO"}
                  ELSE {}]

-----------------------------------------------------------------------------
(* The wires.                                                              *)

(* ws sends on a connection that is open and emits messages until it is    *)
(* closed.                                                                 *)
Carried(c, out) == IF readyState[c] = "open" /\ c \notin cut THEN up[c] \o out ELSE up[c]

PeerSends(c, out) == up' = [up EXCEPT ![c] = Carried(c, out)]

(* socket.close() after out was sent; state' of the connection. *)
PeerSendsAndCloses(c, out) ==
    /\ PeerSends(c, Append(out, Message("CLOSE")))
    /\ readyState' = [readyState EXCEPT ![c] = IF @ = "open" THEN "closing" ELSE @]

(* A message of type comes out of the wire. *)
PeerTakes(c, type) ==
    /\ readyState[c] \in {"open", "closing"}
    /\ down[c] # <<>> /\ Head(down[c]).type = type
    /\ down' = [down EXCEPT ![c] = Tail(@)]

RelayTakes(c, types) ==
    /\ serverState[c] \in {"open", "closing"}
    /\ up[c] # <<>> /\ Head(up[c]).type \in types
    /\ up' = [up EXCEPT ![c] = Tail(@)]

(* What Relay calls a message: those it forwards are all "DATA".           *)
Kind(type) == IF type = "TERMINATED" THEN "SESSION_TERMINATE"
              ELSE IF type \in Forwarded THEN "DATA" ELSE type

(* What the relay sends in one step: to each connection, in order. *)
To(c, type) == [d \in Connection |-> IF d = c THEN <<Message(type)>> ELSE <<>>]
Then(out, more) == [d \in Connection |-> out[d] \o more[d]]
NoReply == To(None, "ERROR")

RelaySends(out) ==
    /\ down' = [c \in Connection |-> IF serverState[c] = "open" /\ c \notin cut
                                     THEN down[c] \o out[c] ELSE down[c]]
    /\ inbox' = [c \in Connection |->
                    IF serverState[c] = "open"
                    THEN inbox[c] \cup {Kind(out[c][i].type) :
                            i \in {j \in 1 .. Len(out[c]) : out[c][j].type # "CLOSE"}}
                    ELSE inbox[c]]

RelayCloses(closed, closing) ==
    serverState' = [c \in Connection |->
                      IF c \in closed THEN "closed"
                      ELSE IF c \in closing /\ serverState[c] = "open" THEN "closing"
                      ELSE serverState[c]]

(* The connection is lost. *)
Cut(c) ==
    /\ Cardinality(cut) < MaxCuts
    /\ readyState[c] \in {"open", "closing"} \/ serverState[c] \in {"open", "closing"}
    /\ c \notin cut
    /\ cut' = cut \cup {c}
    /\ UNCHANGED <<readyState, serverState, up, down, failures, linkVars, terminalVars, roomVars,
                   inbox>>

-----------------------------------------------------------------------------
(* connectSocket and attemptReconnect, as in ClientLink.                   *)

Scheduled(p, n) == [timers EXCEPT ![p][n] = @ + 1]

(* The "close" event.  Without a sessionId there is no shell to kill.      *)
SocketClosed(c) ==
    LET p == Owner(c) IN
    /\ readyState' = [readyState EXCEPT ![c] = "closed"]
    /\ isClosed' = [isClosed EXCEPT ![p] = @ \/ ~sessionId[p]]
    /\ timers' = IF isClosed'[p] THEN timers ELSE Scheduled(p, 0)
    /\ UNCHANGED <<serverState, cut, failures, attempt, sessionId, terminalVars, roomVars, inbox>>

PeerReadsClose(c) ==
    /\ PeerTakes(c, "CLOSE")
    /\ PeerSends(c, <<Message("CLOSE")>>)
    /\ SocketClosed(c)

PeerSeesCut(c) ==
    /\ c \in cut /\ readyState[c] \in {"open", "closing"}
    /\ down' = [down EXCEPT ![c] = <<>>]
    /\ UNCHANGED up
    /\ SocketClosed(c)

GivesUp(c) == attempt[c] + 1 >= MAX_RECONNECT_ATTEMPTS

Killed == IF child = "running" THEN "killed" ELSE child

(* "error" and "close" of a connection that cannot be made. *)
ConnectFails(c) ==
    LET p == Owner(c)
        onError == IF GivesUp(c) THEN timers ELSE Scheduled(p, attempt[c] + 1)
    IN
    /\ readyState[c] = "connecting"
    /\ failures < MaxFailures /\ failures' = failures + 1
    /\ readyState' = [readyState EXCEPT ![c] = "absent"]
    /\ isClosed' = [isClosed EXCEPT ![p] = @ \/ GivesUp(c)]
    /\ timers' = IF isClosed'[p] THEN onError ELSE [onError EXCEPT ![p][0] = @ + 1]
    /\ child' = IF p = "host" /\ GivesUp(c) THEN Killed ELSE child
    /\ UNCHANGED <<serverState, up, down, cut, attempt, sessionId, childSocket, cipher,
                   currentSocket, sendCounter, recvCounter, typed, printed, shellRead, shown,
                   refused, roomVars, inbox>>

TimerFires(p, n) ==
    /\ timers[p][n] > 0
    /\ timers' = [timers EXCEPT ![p][n] = @ - 1]
    /\ \/ isClosed[p] /\ UNCHANGED <<readyState, attempt>>
       \/ /\ ~isClosed[p]
          /\ \E i \in 1 .. MaxConnections :
               /\ readyState[<<p, i>>] = "absent"
               /\ \A j \in 1 .. i - 1 : readyState[<<p, j>>] # "absent"
               /\ readyState' = [readyState EXCEPT ![<<p, i>>] = "connecting"]
               /\ attempt' = [attempt EXCEPT ![<<p, i>>] = n]
    /\ UNCHANGED <<serverState, up, down, cut, failures, isClosed, sessionId, terminalVars,
                   roomVars, inbox>>

(* "open": RECONNECT goes out.  The guest types there from now on. *)
SocketOpens(c) ==
    /\ readyState[c] = "connecting"
    /\ readyState' = [readyState EXCEPT ![c] = "open"]
    /\ serverState' = [serverState EXCEPT ![c] = "open"]
    /\ up' = [up EXCEPT ![c] = <<Message("RECONNECT")>>]
    /\ currentSocket' = IF Owner(c) = "guest" THEN c ELSE currentSocket
    /\ UNCHANGED <<down, cut, failures, linkVars, child, childSocket, cipher, sendCounter,
                   recvCounter, typed, printed, shellRead, shown, refused, roomVars, inbox>>

-----------------------------------------------------------------------------
(* Messages both peers handle alike.                                       *)

(* What every message handler of a peer leaves alone. *)
OnMessage == UNCHANGED <<serverState, cut, failures, attempt, timers, roomVars, inbox>>

(* SESSION_READY: the peer's key goes out; the guest's input is enabled,   *)
(* and its size follows.                                                   *)
SessionReady(c) ==
    LET p == Owner(c)
        size == IF p = "guest" THEN <<Message("PTY_RESIZE")>> ELSE <<>>
    IN
    /\ PeerTakes(c, "SESSION_READY")
    /\ sessionId' = [sessionId EXCEPT ![p] = TRUE]
    /\ PeerSends(c, <<Message("KEY_EXCHANGE")>> \o size)
    /\ OnMessage
    /\ UNCHANGED <<readyState, isClosed, terminalVars>>

(* Mutant: without child?.kill(). *)
TerminatedKeepsShell(c) ==
    /\ \E type \in Ends : PeerTakes(c, type)
    /\ isClosed' = [isClosed EXCEPT ![Owner(c)] = TRUE]
    /\ PeerSendsAndCloses(c, <<>>)
    /\ OnMessage
    /\ UNCHANGED <<sessionId, terminalVars>>

(* SESSION_TERMINATE, and PTY_EXIT at the guest. *)
Terminated(c) ==
    LET p == Owner(c) IN
    /\ \E type \in Ends : PeerTakes(c, type)
    /\ isClosed' = [isClosed EXCEPT ![p] = TRUE]
    /\ child' = IF p = "host" THEN Killed ELSE child
    /\ PeerSendsAndCloses(c, <<>>)
    /\ OnMessage
    /\ UNCHANGED <<sessionId, childSocket, cipher, currentSocket, sendCounter, recvCounter, typed,
                   printed, shellRead, shown, refused>>

(* RECONNECT_OK: the guest sends its size. *)
ReconnectOk(c) ==
    /\ PeerTakes(c, "RECONNECT_OK")
    /\ PeerSends(c, IF Owner(c) = "guest" THEN <<Message("PTY_RESIZE")>> ELSE <<>>)
    /\ OnMessage
    /\ UNCHANGED <<readyState, isClosed, sessionId, terminalVars>>

Error(c) ==
    /\ PeerTakes(c, "ERROR")
    /\ PeerSendsAndCloses(c, <<>>)
    /\ OnMessage
    /\ UNCHANGED <<isClosed, sessionId, terminalVars>>

-----------------------------------------------------------------------------
(* The host's messages and its shell.                                      *)

(* The guest's key: the shell starts, and belongs to this connection. *)
HostKeyExchange(c) ==
    /\ Owner(c) = "host" /\ PeerTakes(c, "KEY_EXCHANGE")
    /\ child' = "running"
    /\ childSocket' = c
    /\ OnMessage
    /\ UNCHANGED <<readyState, up, isClosed, sessionId, cipher, currentSocket, sendCounter,
                   recvCounter, typed, printed, shellRead, shown, refused>>

(* child.write *)
ShellReads(n) == shellRead' = IF child = "running" THEN Append(shellRead, n) ELSE shellRead

(* decrypt refuses a counter that is not above the last one. *)
Decrypts(p, m) ==
    /\ refused' = (refused \/ m.counter <= recvCounter[p])
    /\ recvCounter' = IF m.counter > recvCounter[p] THEN [recvCounter EXCEPT ![p] = m.counter]
                                                    ELSE recvCounter

HostEncryptedData(c) ==
    LET m == Head(down[c]) IN
    /\ Owner(c) = "host" /\ PeerTakes(c, "ENCRYPTED_DATA")
    /\ IF child = "none" THEN UNCHANGED <<recvCounter, refused, shellRead>>
       ELSE /\ Decrypts("host", m)
            /\ IF m.counter > recvCounter["host"] THEN ShellReads(m.n) ELSE UNCHANGED shellRead
    /\ OnMessage
    /\ UNCHANGED <<readyState, up, isClosed, sessionId, child, childSocket, cipher, currentSocket,
                   sendCounter, typed, printed, shown>>

(* Mutant: plain input is ignored, as there is a cipher. *)
HostIgnoresPlain(c) ==
    /\ Owner(c) = "host" /\ PeerTakes(c, "PTY_INPUT")
    /\ OnMessage
    /\ UNCHANGED <<readyState, up, isClosed, sessionId, terminalVars>>

HostPtyInput(c) ==
    /\ Owner(c) = "host" /\ PeerTakes(c, "PTY_INPUT")
    /\ ShellReads(Head(down[c]).n)
    /\ OnMessage
    /\ UNCHANGED <<readyState, up, isClosed, sessionId, child, childSocket, cipher, currentSocket,
                   sendCounter, recvCounter, typed, printed, shown, refused>>

HostPtyResize(c) ==
    /\ Owner(c) = "host" /\ PeerTakes(c, "PTY_RESIZE")
    /\ OnMessage
    /\ UNCHANGED <<readyState, up, isClosed, sessionId, terminalVars>>

(* onData: a chunk is encrypted and sent only while childSocket is open. *)
Output ==
    LET open == readyState[childSocket] = "open" IN
    /\ child = "running"
    /\ printed < MaxOutput /\ printed' = printed + 1
    /\ \/ /\ open
          /\ sendCounter' = [sendCounter EXCEPT !["host"] = @ + 1]
          /\ PeerSends(childSocket, <<Chunk("ENCRYPTED_DATA", printed', sendCounter'["host"])>>)
       \/ ~open /\ UNCHANGED <<sendCounter, up>>
    /\ UNCHANGED <<readyState, serverState, down, cut, failures, linkVars, child, childSocket,
                   cipher, currentSocket, recvCounter, typed, shellRead, shown, refused, roomVars,
                   inbox>>

(* onExit *)
ShellExits ==
    LET open == readyState[childSocket] = "open" IN
    /\ child \in {"running", "killed"}
    /\ child' = "exited"
    /\ \/ /\ open
          /\ isClosed' = [isClosed EXCEPT !["host"] = TRUE]
          /\ PeerSendsAndCloses(childSocket, <<Message("PTY_EXIT")>>)
       \/ ~open /\ UNCHANGED <<isClosed, up, readyState>>
    /\ UNCHANGED <<serverState, down, cut, failures, attempt, timers, sessionId, childSocket, cipher,
                   currentSocket, sendCounter, recvCounter, typed, printed, shellRead, shown,
                   refused, roomVars, inbox>>

-----------------------------------------------------------------------------
(* The guest's messages and its terminal.                                  *)

GuestKeyExchange(c) ==
    /\ Owner(c) = "guest" /\ PeerTakes(c, "KEY_EXCHANGE")
    /\ cipher' = TRUE
    /\ OnMessage
    /\ UNCHANGED <<readyState, up, isClosed, sessionId, child, childSocket, currentSocket,
                   sendCounter, recvCounter, typed, printed, shellRead, shown, refused>>

GuestEncryptedData(c) ==
    LET m == Head(down[c]) IN
    /\ Owner(c) = "guest" /\ PeerTakes(c, "ENCRYPTED_DATA")
    /\ IF ~cipher THEN UNCHANGED <<recvCounter, refused, shown>>
       ELSE /\ Decrypts("guest", m)
            /\ shown' = IF m.counter > recvCounter["guest"] THEN Append(shown, m.n) ELSE shown
    /\ OnMessage
    /\ UNCHANGED <<readyState, up, isClosed, sessionId, child, childSocket, cipher, currentSocket,
                   sendCounter, typed, printed, shellRead>>

AtTerminal == sessionId["guest"] /\ ~isClosed["guest"]

(* onInput; a chunk is encrypted whether or not the connection is open.    *)
Type ==
    /\ AtTerminal
    /\ typed < MaxTyped /\ typed' = typed + 1
    /\ \/ /\ cipher
          /\ sendCounter' = [sendCounter EXCEPT !["guest"] = @ + 1]
          /\ PeerSends(currentSocket,
                       <<Chunk("ENCRYPTED_DATA", typed', sendCounter'["guest"])>>)
       \/ /\ ~cipher
          /\ PeerSends(currentSocket, <<Chunk("PTY_INPUT", typed', 0)>>)
          /\ UNCHANGED sendCounter
    /\ UNCHANGED <<readyState, serverState, down, cut, failures, linkVars, child, childSocket,
                   cipher, currentSocket, recvCounter, printed, shellRead, shown, refused,
                   roomVars, inbox>>

(* Ctrl+] *)
Detach ==
    /\ AtTerminal
    /\ isClosed' = [isClosed EXCEPT !["guest"] = TRUE]
    /\ PeerSendsAndCloses(currentSocket, <<Message("SESSION_TERMINATE")>>)
    /\ UNCHANGED <<serverState, down, cut, failures, attempt, timers, sessionId, terminalVars,
                   roomVars, inbox>>

-----------------------------------------------------------------------------
(* The relay, as in Relay.                                                 *)

PeerOf(c) == IF c = seat["host"] THEN seat["guest"] ELSE seat["host"]

ForwardToPeer(c) ==
    LET known == c \in roomsBySocket /\ state = "active" IN
    /\ RelayTakes(c, Forwarded)
    /\ RelaySends(IF known THEN [d \in Connection |-> IF d = PeerOf(c) THEN <<Head(up[c])>>
                                                                      ELSE <<>>]
                           ELSE To(c, "ERROR"))
    /\ UNCHANGED <<readyState, serverState, cut, failures, linkVars, terminalVars, roomVars>>

(* Mutants: the old connection keeps its entry; its timer goes on.         *)
TakeSeatBeside(c) ==
    /\ seat' = [seat EXCEPT ![Owner(c)] = c]
    /\ roomsBySocket' = roomsBySocket \cup {c}
    /\ graceTimers' = graceTimers \ {graceTimer}
    /\ graceTimer' = None

TakeSeat(c) ==
    /\ seat' = [seat EXCEPT ![Owner(c)] = c]
    /\ roomsBySocket' = (roomsBySocket \ {seat[Owner(c)]}) \cup {c}
    /\ graceTimers' = graceTimers \ {graceTimer}
    /\ graceTimer' = None

HandleReconnect(c) ==
    /\ RelayTakes(c, {"RECONNECT"})
    /\ \/ /\ state = "active"
          /\ TakeSeat(c)
          /\ RelaySends(To(c, "RECONNECT_OK"))
          /\ UNCHANGED <<serverState, state>>
       \/ /\ state = "ended"
          /\ RelaySends(Then(To(c, "ERROR"), To(c, "CLOSE")))
          /\ RelayCloses({}, {c})
          /\ UNCHANGED roomVars
    /\ UNCHANGED <<readyState, cut, failures, linkVars, terminalVars>>

(* cleanupRoom(c), after which closed is closed and the messages of reply  *)
(* are sent.                                                               *)
CleanupRoom(c, closed, reply) ==
    LET isHost == c = seat["host"]
        guest == IF isHost THEN seat["guest"] ELSE None
    IN
    /\ RelaySends(Then(Then(reply, To(PeerOf(c), "TERMINATED")), To(guest, "CLOSE")))
    /\ RelayCloses(closed, {guest})
    /\ state' = "ended"
    /\ seat' = IF isHost THEN seat ELSE [seat EXCEPT !["guest"] = None]
    /\ roomsBySocket' = roomsBySocket \ {c, guest}

HandleDisconnect(c, reply) ==
    \/ /\ c \notin roomsBySocket
       /\ RelaySends(reply)
       /\ RelayCloses({c}, {})
       /\ UNCHANGED roomVars
    \/ /\ c \in roomsBySocket /\ state = "active"
       /\ RelaySends(Then(reply, To(PeerOf(c), "TERMINATED")))
       /\ RelayCloses({c}, {})
       /\ graceTimers' = graceTimers \cup {c}
       /\ graceTimer' = c
       /\ UNCHANGED <<state, seat, roomsBySocket>>
    \/ /\ c \in roomsBySocket /\ state = "ended"
       /\ CleanupRoom(c, {c}, reply)
       /\ UNCHANGED <<graceTimers, graceTimer>>

RelayReadsClose(c) ==
    /\ RelayTakes(c, {"CLOSE"})
    /\ HandleDisconnect(c, To(c, "CLOSE"))
    /\ UNCHANGED <<readyState, cut, failures, linkVars, terminalVars>>

RelaySeesCut(c) ==
    /\ c \in cut /\ serverState[c] \in {"open", "closing"}
    /\ up' = [up EXCEPT ![c] = <<>>]
    /\ HandleDisconnect(c, NoReply)
    /\ UNCHANGED <<readyState, cut, failures, linkVars, terminalVars>>

GraceTimerFires(c) ==
    /\ c \in graceTimers
    /\ graceTimers' = graceTimers \ {c}
    /\ graceTimer' = None
    /\ \/ c \in roomsBySocket /\ CleanupRoom(c, {}, NoReply)
       \/ /\ c \notin roomsBySocket
          /\ UNCHANGED <<down, inbox, serverState, state, seat, roomsBySocket>>
    /\ UNCHANGED <<readyState, up, cut, failures, linkVars, terminalVars>>

-----------------------------------------------------------------------------

PeerHandles(c) ==
    \/ PeerReadsClose(c) \/ SessionReady(c) \/ Terminated(c) \/ ReconnectOk(c) \/ Error(c)
    \/ HostKeyExchange(c) \/ HostEncryptedData(c) \/ HostPtyInput(c) \/ HostPtyResize(c)
    \/ GuestKeyExchange(c) \/ GuestEncryptedData(c)

RelayHandles(c) == ForwardToPeer(c) \/ HandleReconnect(c) \/ RelayReadsClose(c)

Next ==
    \/ \E c \in Connection :
        \/ PeerHandles(c) \/ RelayHandles(c)
        \/ Cut(c) \/ PeerSeesCut(c) \/ RelaySeesCut(c)
        \/ SocketOpens(c) \/ ConnectFails(c)
        \/ GraceTimerFires(c)
    \/ \E p \in Peer, n \in Attempt : TimerFires(p, n)
    \/ Output \/ ShellExits \/ Type \/ Detach

Spec == Init /\ [][Next]_vars

(***************************************************************************)
(* Fairness.  What has arrived is handled, both ends of a lost connection  *)
(* notice it, connections are made or fail, and timers fire.  Nothing is   *)
(* assumed of the user and of the shell.                                   *)
(***************************************************************************)
FairSpec ==
    /\ Spec
    /\ \A c \in Connection :
        /\ WF_vars(PeerHandles(c)) /\ WF_vars(RelayHandles(c))
        /\ WF_vars(PeerSeesCut(c)) /\ WF_vars(RelaySeesCut(c))
        /\ WF_vars(SocketOpens(c) \/ ConnectFails(c))
        /\ WF_vars(GraceTimerFires(c))
    /\ \A p \in Peer, n \in Attempt : WF_vars(TimerFires(p, n))

-----------------------------------------------------------------------------

(***************************************************************************)
(* What this module says of the relay, in the terms of Relay: the host's   *)
(* first connection stands for the room, and a socket is alive until it    *)
(* has been closed.                                                        *)
(***************************************************************************)
Room == First("host")

(* `undefined` is nothing that Relay tells it apart from. *)
ASSUME NoneAssumption ==
    None \notin Connection \cup {"code", "host", "guest", "waiting", "pending", "active", "ended",
                                 "refused"}

AtRelay == INSTANCE RelayInvariant WITH
    Socket <- Connection, Code <- {"code"}, HostDevice <- {"host"}, GuestDevice <- {"guest"},
    ReuseCodes <- FALSE,
    readyState <- serverState,
    client <- [c \in Connection |->
                 IF inbox[c] = {} THEN [role |-> None, device |-> None, session |-> None]
                 ELSE [role |-> Owner(c), device |-> Owner(c), session |-> Room]],
    rooms <- [r \in Connection |->
                IF r = Room THEN [state |-> state, code |-> "code", host |-> seat["host"],
                                  guest |-> seat["guest"], sessionId |-> Room]
                ELSE [state |-> None, code |-> None, host |-> None, guest |-> None,
                      sessionId |-> None]],
    elapsed <- {},
    roomsByCode <- [c \in {"code"} |-> None],
    roomsBySocket <- [c \in Connection |-> IF c \in roomsBySocket THEN Room ELSE None],
    roomsBySessionId <- IF state = "active" THEN {Room} ELSE {},
    sessionStartTimes <- IF state = "active" THEN {Room} ELSE {},
    timers <- [c \in Connection |-> IF c \in graceTimers THEN Room ELSE None],
    graceTimers <- [r \in Connection |-> IF r = Room THEN graceTimer ELSE None],
    socketIps <- {c \in Connection : serverState[c] \in {"open", "closing"}}

Ascending(s) == \A i \in 1 .. Len(s) - 1 : s[i] < s[i + 1]

Over(p) == isClosed[p] /\ (p = "host" => child # "running")

InSession(p) ==
    /\ state = "active" /\ ~isClosed[p]
    /\ seat[p] \notin cut /\ readyState[seat[p]] = "open" /\ serverState[seat[p]] = "open"

(* The relay of this module is the one of Relay, and its peers keep to     *)
(* what Relay takes for granted of its clients: the session starts in a    *)
(* state that satisfies the inductive invariant of the relay, and every    *)
(* step is a step of the relay or leaves it alone.  Whatever is proved     *)
(* about Relay holds here.                                                 *)
ImplementsRelay == AtRelay!IInv /\ [][AtRelay!Next]_(AtRelay!vars)

(* What the shell reads was typed in that order and nothing twice, and the *)
(* same of what the guest sees, across reconnections in which messages of  *)
(* the old and the new connection overtake each other; and no message is   *)
(* taken for a replay.  It holds when no peer connects more than twice:    *)
(* with a third connection the relay may read the RECONNECT of one that is *)
(* lost after that of its successor, and give it the seat back.            *)
StreamsInOrder == Ascending(shellRead) /\ Ascending(shown) /\ ~refused

(* Until a connection is lost nothing is missing in between, though typing *)
(* and printing start while the keys are still being exchanged.            *)
NothingMissing ==
    cut = {} => /\ \A i \in DOMAIN shellRead : shellRead[i] = i
                /\ \A i \in DOMAIN shown : shown[i] = i

(* Unless a connection is lost, the end of one peer is the end of both,    *)
(* and of the shell.                                                       *)
EndTogether ==
    (\E p \in Peer : isClosed[p]) ~> ((\A p \in Peer : Over(p)) \/ cut # {})

(* "Common disconnects recover or fail cleanly": after a lost connection   *)
(* no peer stays in the session for ever when the other has ended.         *)
NobodyLeftAlone ==
    \A p \in Peer : InSession(p) /\ isClosed[Other(p)] ~> ~InSession(p)

=============================================================================
