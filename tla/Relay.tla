-------------------------------- MODULE Relay --------------------------------
(***************************************************************************)
(* The v1 relay server: the WebSocket handlers of apps/server/src/main.ts  *)
(* on top of the room registry of apps/server/src/session-manager.ts.      *)
(*                                                                         *)
(* Node runs one handler at a time, so every handler is one action.        *)
(*                                                                         *)
(* Names.  A room object is named by the socket whose REGISTER_HOST made   *)
(* it, a session id by its room (a room is approved at most once), and a   *)
(* grace timer by the socket whose close event started it (a socket closes *)
(* once).                                                                  *)
(*                                                                         *)
(* Time.  The share-code TTL of a room and its grace timers never concern  *)
(* the same room at the same time, so the clock is reduced to the rooms    *)
(* whose TTL has elapsed and the timers that are still set.                *)
(*                                                                         *)
(* Clients are the CLI (apps/cli): a connection carries one opening        *)
(* message, a host answers an ACCESS_REQUEST once, a peer forwards only    *)
(* once it knows its session, and it reconnects only to that session.      *)
(***************************************************************************)
EXTENDS Naturals, FiniteSets

CONSTANTS Socket,       \* the connections the relay will ever see
          Code,         \* share codes
          HostDevice,   \* deviceIds that share a terminal
          GuestDevice,  \* deviceIds that join one
          ReuseCodes,   \* may a host ask for a code used before (share --code)?
          None          \* undefined

ASSUME NoneAssumption ==
    /\ None \notin Socket \cup Code \cup HostDevice \cup GuestDevice
    /\ None \notin {"waiting", "pending", "active", "ended", "host", "guest", "refused"}
ASSUME ReuseAssumption == ReuseCodes \in BOOLEAN

VARIABLES
    readyState,         \* ws readyState; "absent" before the connection
    client,             \* who opened the connection, and the session it knows
    inbox,              \* kinds of message the relay has sent on the socket
    rooms,              \* the RelayRoom objects
    elapsed,            \* rooms with expiresAt <= Date.now()
    roomsByCode, roomsBySocket, roomsBySessionId,   \* SessionManager's maps
    sessionStartTimes,  \* sessions with an entry in this map
    timers,             \* socket -> session of its pending setTimeout
    graceTimers,        \* session -> the timer (its socket) on record
    socketIps           \* sockets with an entry in this map

managerVars == <<rooms, roomsByCode, roomsBySocket, roomsBySessionId>>
timerVars == <<timers, graceTimers>>
vars == <<readyState, client, inbox, rooms, elapsed, roomsByCode, roomsBySocket,
          roomsBySessionId, sessionStartTimes, timers, graceTimers, socketIps>>

Room == Socket

RelayState == {"waiting", "pending", "active", "ended"}

ReadyState == {"absent", "open", "closing", "closed"}

(* "DATA" stands for the seven kinds of message that are only forwarded.   *)
Message == {"HOST_REGISTERED", "ACCESS_REQUEST", "ACCESS_REJECTED", "SESSION_READY",
            "SESSION_INFO", "RECONNECT_OK", "SESSION_TERMINATE", "ERROR", "DATA"}

(* role "refused": the connection was over the limit and has no handlers.  *)
Client == [role : {"host", "guest", "refused", None},
           device : HostDevice \cup GuestDevice \cup {None},
           session : Room \cup {None}]

RelayRoom == [state : RelayState \cup {None}, code : Code \cup {None},
              host : Socket \cup {None}, guest : Socket \cup {None},
              sessionId : Room \cup {None}]

NoClient == [role |-> None, device |-> None, session |-> None]

NoRoom == [state |-> None, code |-> None, host |-> None, guest |-> None,
           sessionId |-> None]

TypeOK ==
    /\ readyState \in [Socket -> ReadyState]
    /\ client \in [Socket -> Client]
    /\ inbox \in [Socket -> SUBSET Message]
    /\ rooms \in [Room -> RelayRoom]
    /\ elapsed \in SUBSET Room
    /\ roomsByCode \in [Code -> Room \cup {None}]
    /\ roomsBySocket \in [Socket -> Room \cup {None}]
    /\ roomsBySessionId \in SUBSET Room
    /\ sessionStartTimes \in SUBSET Room
    /\ timers \in [Socket -> Room \cup {None}]
    /\ graceTimers \in [Room -> Socket \cup {None}]
    /\ socketIps \in SUBSET Socket

Init ==
    /\ readyState = [s \in Socket |-> "absent"]
    /\ client = [s \in Socket |-> NoClient]
    /\ inbox = [s \in Socket |-> {}]
    /\ rooms = [r \in Room |-> NoRoom]
    /\ elapsed = {}
    /\ roomsByCode = [c \in Code |-> None]
    /\ roomsBySocket = [s \in Socket |-> None]
    /\ roomsBySessionId = {}
    /\ sessionStartTimes = {}
    /\ timers = [s \in Socket |-> None]
    /\ graceTimers = [r \in Room |-> None]
    /\ socketIps = {}

-----------------------------------------------------------------------------
(* Sockets.                                                                *)

(* send(): each <<socket, message>> of out goes out if the socket is OPEN; *)
(* the messages of read are consumed by the client that answers them.      *)
Deliver(out, read) ==
    inbox' = [s \in Socket |->
                (inbox[s] \ {m \in Message : <<s, m>> \in read})
                \cup {m \in Message : <<s, m>> \in out /\ readyState[s] = "open"}]

Send(out) == Deliver(out, {})

Close(S) ==
    readyState' = [s \in Socket |->
                     IF s \in S /\ readyState[s] = "open" THEN "closing" ELSE readyState[s]]

(* ws still emits the messages that arrive after close() was called.       *)
Receiving(s) == readyState[s] \in {"open", "closing"} /\ client[s].role # "refused"

(* The first message of a connection; a client that was sent an ERROR      *)
(* closes instead.                                                         *)
Opening(s) == readyState[s] = "open" /\ client[s].role = None /\ "ERROR" \notin inbox[s]

Identify(s, role, device, session) ==
    client' = [client EXCEPT ![s] = [role |-> role, device |-> device, session |-> session]]

(* An ERROR to s, which is then closed. *)
Refuse(s) == Send({<<s, "ERROR">>}) /\ Close({s})

-----------------------------------------------------------------------------
(* SessionManager.                                                         *)

Members(r) == {rooms[r].host, rooms[r].guest} \ {None}

(* Mutant: only a room with a request in it expires. *)
ExpiredPending == {r \in Room :
                    /\ \E c \in Code : roomsByCode[c] = r
                    /\ rooms[r].state = "pending"
                    /\ r \in elapsed}

ExpiredRooms == {r \in Room :
                    /\ \E c \in Code : roomsByCode[c] = r
                    /\ rooms[r].state # "active"
                    /\ r \in elapsed}

(* What expireRooms leaves in the rooms and in the maps. *)
RoomsAfterExpiry ==
    [r \in Room |-> IF r \in ExpiredRooms THEN [rooms[r] EXCEPT !.state = "ended"]
                                          ELSE rooms[r]]

(* Mutant: roomsByCode.clear(). *)
ByCodeCleared ==
    [c \in Code |-> IF ExpiredRooms # {} THEN None ELSE roomsByCode[c]]
ByCodeAfterExpiry ==
    [c \in Code |-> IF roomsByCode[c] \in ExpiredRooms THEN None ELSE roomsByCode[c]]
BySocketAfterExpiry ==
    [s \in Socket |-> IF \E r \in ExpiredRooms : s \in Members(r) THEN None
                                                                  ELSE roomsBySocket[s]]
BySessionIdAfterExpiry ==
    roomsBySessionId \ {rooms[r].sessionId : r \in ExpiredRooms}

OnlyExpiry ==
    /\ rooms' = RoomsAfterExpiry
    /\ roomsByCode' = ByCodeAfterExpiry
    /\ roomsBySocket' = BySocketAfterExpiry
    /\ roomsBySessionId' = BySessionIdAfterExpiry

ManagerRegisterHost(s, c) ==
    /\ ByCodeAfterExpiry[c] = None
    /\ rooms' = [RoomsAfterExpiry EXCEPT
                   ![s] = [state |-> "waiting", code |-> c, host |-> s, guest |-> None,
                           sessionId |-> None]]
    /\ roomsByCode' = [ByCodeAfterExpiry EXCEPT ![c] = s]
    /\ roomsBySocket' = [BySocketAfterExpiry EXCEPT ![s] = s]
    /\ roomsBySessionId' = BySessionIdAfterExpiry

ManagerRegisterGuest(s, c) ==
    LET r == ByCodeAfterExpiry[c] IN
    /\ r # None
    /\ RoomsAfterExpiry[r].state = "waiting"
    /\ rooms' = [RoomsAfterExpiry EXCEPT ![r].guest = s, ![r].state = "pending"]
    /\ roomsByCode' = ByCodeAfterExpiry
    /\ roomsBySocket' = [BySocketAfterExpiry EXCEPT ![s] = r]
    /\ roomsBySessionId' = BySessionIdAfterExpiry

(* The test approve and reject share. *)
HasRequest(s) ==
    LET r == roomsBySocket[s] IN r # None /\ rooms[r].host = s /\ rooms[r].guest # None

(* Mutant: the second branch repeats the first. *)
SeatCopied(r, device) ==
    IF client[rooms[r].host].device = device THEN "host"
    ELSE IF rooms[r].guest # None /\ client[rooms[r].guest].device = device THEN "host"
    ELSE None

(* reconnect: the seat is found by deviceId, the host's first. *)
Seat(r, device) ==
    IF client[rooms[r].host].device = device THEN "host"
    ELSE IF rooms[r].guest # None /\ client[rooms[r].guest].device = device THEN "guest"
    ELSE None

(* `socket === room.host.socket ? room.guest?.socket : room.host.socket` *)
Peer(s, r) == IF s = rooms[r].host THEN rooms[r].guest ELSE rooms[r].host

(* releaseSocket(s) of a socket mapped to room r.                          *)
ReleaseSocket(s, r) ==
    LET isHost == s = rooms[r].host
        isGuest == ~isHost /\ s = rooms[r].guest
        ends == isHost \/ (isGuest /\ rooms[r].state \in {"pending", "active"})
        newState == IF ends THEN "ended" ELSE rooms[r].state
        newGuest == IF isGuest THEN None ELSE rooms[r].guest
    IN
    /\ rooms' = [rooms EXCEPT ![r] = [@ EXCEPT !.state = newState, !.guest = newGuest]]
    /\ roomsByCode' = IF ends THEN [roomsByCode EXCEPT ![rooms[r].code] = None]
                              ELSE roomsByCode
    /\ roomsBySessionId' = IF ends THEN roomsBySessionId \ {rooms[r].sessionId}
                                   ELSE roomsBySessionId
    /\ roomsBySocket' = [x \in Socket |->
                           IF x = s \/ (isHost /\ x = rooms[r].guest) THEN None
                           ELSE roomsBySocket[x]]

-----------------------------------------------------------------------------
(* Connections and opening messages.                                       *)

Connect(s) ==
    /\ readyState[s] = "absent"
    /\ readyState' = [readyState EXCEPT ![s] = "open"]
    /\ socketIps' = socketIps \cup {s}
    /\ UNCHANGED <<client, inbox, managerVars, elapsed, sessionStartTimes, timerVars>>

(* Over the connection limit: the handler returns before it listens for    *)
(* "message" and "close".                                                  *)
ConnectRefused(s) ==
    /\ readyState[s] = "absent"
    /\ readyState' = [readyState EXCEPT ![s] = "closing"]
    /\ socketIps' = socketIps \cup {s}
    /\ inbox' = [inbox EXCEPT ![s] = @ \cup {"ERROR"}]
    /\ Identify(s, "refused", None, None)
    /\ UNCHANGED <<managerVars, elapsed, sessionStartTimes, timerVars>>

(* Over the message limit, or not decodable: the message is lost and its   *)
(* sender is sent an ERROR.                                                *)
MessageDropped(s) ==
    /\ Receiving(s)
    /\ Opening(s) \/ "ACCESS_REQUEST" \in inbox[s] \/ client[s].session # None
    /\ Deliver({<<s, "ERROR">>}, {<<s, "ACCESS_REQUEST">>})
    /\ UNCHANGED <<readyState, client, managerVars, elapsed, sessionStartTimes, timerVars,
                   socketIps>>

(* Over the registration limit: the registry is not consulted.             *)
RegistrationLimited(s, role, d) ==
    /\ Opening(s)
    /\ Identify(s, role, d, None)
    /\ Refuse(s)
    /\ UNCHANGED <<managerVars, elapsed, sessionStartTimes, timerVars, socketIps>>

(* A code of a host: generated afresh, or chosen with --code.              *)
MayAsk(c) == ReuseCodes \/ \A r \in Room : rooms[r].code # c

RegisterHost(s, c, d) ==
    /\ Opening(s)
    /\ MayAsk(c)
    /\ Identify(s, "host", d, None)
    /\ \/ /\ ManagerRegisterHost(s, c)
          /\ Send({<<s, "HOST_REGISTERED">>})
          /\ UNCHANGED readyState
       \/ /\ ByCodeAfterExpiry[c] # None
          /\ OnlyExpiry
          /\ Refuse(s)
    /\ UNCHANGED <<elapsed, sessionStartTimes, timerVars, socketIps>>

RegisterGuest(s, c, d) ==
    LET r == ByCodeAfterExpiry[c] IN
    /\ Opening(s)
    /\ Identify(s, "guest", d, None)
    /\ \/ /\ ManagerRegisterGuest(s, c)
          /\ Send({<<rooms[r].host, "ACCESS_REQUEST">>})
          /\ UNCHANGED readyState
       \/ /\ r # None => RoomsAfterExpiry[r].state # "waiting"
          /\ OnlyExpiry
          /\ Refuse(s)
    /\ UNCHANGED <<elapsed, sessionStartTimes, timerVars, socketIps>>

(* Mutants: the old socket keeps its entry; no answer.                     *)
TakeSeatBeside(s, old, r) == roomsBySocket' = [roomsBySocket EXCEPT ![s] = r]
ResumeSilent(s) == UNCHANGED inbox

TakeSeat(s, old, r) == roomsBySocket' = [roomsBySocket EXCEPT ![old] = None, ![s] = r]

ClearGraceTimer(r) ==
    /\ timers' = IF graceTimers[r] # None THEN [timers EXCEPT ![graceTimers[r]] = None]
                                          ELSE timers
    /\ graceTimers' = [graceTimers EXCEPT ![r] = None]

Resume(s) == Send({<<s, "RECONNECT_OK">>})

(* RECONNECT, on a new connection of a client that knows session r from    *)
(* its connection old.                                                     *)
ReconnectAccepted(s, r, d) ==
    LET seat == Seat(r, d)
        old == IF seat = "host" THEN rooms[r].host ELSE rooms[r].guest
    IN
    /\ r \in roomsBySessionId
    /\ rooms[r].state = "active"
    /\ seat # None
    /\ rooms' = IF seat = "host" THEN [rooms EXCEPT ![r].host = s]
                                 ELSE [rooms EXCEPT ![r].guest = s]
    /\ TakeSeat(s, old, r)
    /\ ClearGraceTimer(r)
    /\ Resume(s)
    /\ UNCHANGED <<readyState, roomsByCode, roomsBySessionId>>

ReconnectRefused(s, r, d) ==
    /\ \/ r \notin roomsBySessionId
       \/ rooms[r].state # "active"
       \/ Seat(r, d) = None
    /\ Refuse(s)
    /\ UNCHANGED <<managerVars, timerVars>>

Reconnect(s, old) ==
    LET r == client[old].session
        d == client[old].device
    IN
    /\ Opening(s)
    /\ r # None
    /\ Identify(s, client[old].role, d, r)
    /\ ReconnectAccepted(s, r, d) \/ ReconnectRefused(s, r, d)
    /\ UNCHANGED <<elapsed, sessionStartTimes, socketIps>>

-----------------------------------------------------------------------------
(* The host's answer, and traffic between the peers.                       *)

Answering(s) == Receiving(s) /\ "ACCESS_REQUEST" \in inbox[s]

AnswerFails(s) ==
    /\ Deliver({<<s, "ERROR">>}, {<<s, "ACCESS_REQUEST">>})
    /\ UNCHANGED <<readyState, client, managerVars, elapsed, sessionStartTimes, timerVars,
                   socketIps>>

ApproveAccess(s) ==
    LET r == roomsBySocket[s]
        peers == {s, rooms[r].guest}
    IN
    /\ Answering(s)
    /\ HasRequest(s)
    /\ rooms[r].state = "pending"
    /\ rooms' = [rooms EXCEPT ![r].sessionId = r, ![r].state = "active"]
    /\ roomsByCode' = [roomsByCode EXCEPT ![rooms[r].code] = None]
    /\ roomsBySessionId' = roomsBySessionId \cup {r}
    /\ sessionStartTimes' = sessionStartTimes \cup {r}
    /\ Deliver(peers \X {"SESSION_READY", "SESSION_INFO"}, {<<s, "ACCESS_REQUEST">>})
    /\ client' = [x \in Socket |-> IF x \in peers /\ readyState[x] = "open"
                                   THEN [client[x] EXCEPT !.session = r] ELSE client[x]]
    /\ UNCHANGED <<readyState, roomsBySocket, elapsed, timerVars, socketIps>>

ApproveFails(s) ==
    /\ Answering(s)
    /\ HasRequest(s) => rooms[roomsBySocket[s]].state # "pending"
    /\ AnswerFails(s)

(* reject does not look at the state of the room, and the sockets keep     *)
(* their entries until they close.                                         *)
RejectAccess(s) ==
    LET r == roomsBySocket[s] IN
    /\ Answering(s)
    /\ HasRequest(s)
    /\ rooms' = [rooms EXCEPT ![r].state = "ended"]
    /\ roomsByCode' = [roomsByCode EXCEPT ![rooms[r].code] = None]
    /\ Deliver({<<rooms[r].guest, "ACCESS_REJECTED">>}, {<<s, "ACCESS_REQUEST">>})
    /\ Close({rooms[r].guest})
    /\ UNCHANGED <<client, roomsBySocket, roomsBySessionId, elapsed, sessionStartTimes,
                   timerVars, socketIps>>

RejectFails(s) ==
    /\ Answering(s)
    /\ ~HasRequest(s)
    /\ AnswerFails(s)

(* forwardToPeer and getPeer. *)
ForwardToPeer(s) ==
    LET r == roomsBySocket[s]
        ready == r # None /\ rooms[r].state = "active"
    IN
    /\ Receiving(s)
    /\ client[s].session # None
    /\ \/ ready /\ Peer(s, r) # None /\ Send({<<Peer(s, r), "DATA">>})
       \/ (ready => Peer(s, r) = None) /\ Send({<<s, "ERROR">>})
    /\ UNCHANGED <<readyState, client, managerVars, elapsed, sessionStartTimes, timerVars,
                   socketIps>>

-----------------------------------------------------------------------------
(* The end of a connection, grace timers, and expiry.                      *)

(* Mutant: the peer is not told. *)
CleanupSilent(s, r, sid) ==
    /\ ReleaseSocket(s, r)
    /\ sessionStartTimes' = sessionStartTimes \ {sid}
    /\ UNCHANGED inbox

(* cleanupRoom(s, sid), save that the callers close ClosedWithRoom(s, r).   *)
CleanupRoom(s, r, sid) ==
    /\ ReleaseSocket(s, r)
    /\ sessionStartTimes' = sessionStartTimes \ {sid}
    /\ Send({<<Peer(s, r), "SESSION_TERMINATE">>})

ClosedWithRoom(s, r) == IF s = rooms[r].host THEN {rooms[r].guest} ELSE {}

(* Mutants: no timer if the peer is gone too; no timer for a guest. *)
StartUnlessAlone(s, r) ==
    IF readyState[Peer(s, r)] = "closed" THEN UNCHANGED timerVars
    ELSE timers' = [timers EXCEPT ![s] = r] /\ graceTimers' = [graceTimers EXCEPT ![r] = s]
StartForHost(s, r) ==
    IF s # rooms[r].host THEN UNCHANGED timerVars
    ELSE timers' = [timers EXCEPT ![s] = r] /\ graceTimers' = [graceTimers EXCEPT ![r] = s]

StartGraceTimer(s, r) ==
    timers' = [timers EXCEPT ![s] = r] /\ graceTimers' = [graceTimers EXCEPT ![r] = s]

HandleDisconnect(s) ==
    LET r == roomsBySocket[s]
        ReadyAfter(S) == readyState' = [x \in Socket |->
                            IF x = s THEN "closed"
                            ELSE IF x \in S /\ readyState[x] = "open" THEN "closing"
                            ELSE readyState[x]]
    IN
    \/ /\ r = None
       /\ ReadyAfter({})
       /\ UNCHANGED <<inbox, managerVars, sessionStartTimes, timerVars>>
    \/ /\ r # None
       /\ rooms[r].state = "active" /\ rooms[r].sessionId # None
       /\ ReadyAfter({})
       /\ Send({<<Peer(s, r), "SESSION_TERMINATE">>})
       /\ StartGraceTimer(s, rooms[r].sessionId)
       /\ UNCHANGED <<managerVars, sessionStartTimes>>
    \/ /\ r # None
       /\ ~(rooms[r].state = "active" /\ rooms[r].sessionId # None)
       /\ ReadyAfter(ClosedWithRoom(s, r))
       /\ CleanupRoom(s, r, rooms[r].sessionId)
       /\ UNCHANGED timerVars

(* The "close" event: the peer closed, the connection was lost, or the     *)
(* close() of the relay completed.                                         *)
SocketClosed(s) ==
    /\ Receiving(s)
    /\ HandleDisconnect(s)
    /\ socketIps' = socketIps \ {s}
    /\ UNCHANGED <<client, elapsed>>

(* The same event of a refused connection, which nobody listens for.       *)
RefusedClosed(s) ==
    /\ readyState[s] = "closing"
    /\ client[s].role = "refused"
    /\ readyState' = [readyState EXCEPT ![s] = "closed"]
    /\ UNCHANGED <<client, inbox, managerVars, elapsed, sessionStartTimes, timerVars, socketIps>>

(* Mutant: the timer ends its session, whoever has reconnected. *)
TimerEndsSession(s) ==
    LET r == timers[s] IN
    /\ r # None
    /\ timers' = [timers EXCEPT ![s] = None]
    /\ graceTimers' = [graceTimers EXCEPT ![r] = None]
    /\ \/ /\ r \notin roomsBySessionId
          /\ UNCHANGED <<readyState, inbox, managerVars, sessionStartTimes>>
       \/ /\ r \in roomsBySessionId
          /\ CleanupRoom(rooms[r].host, r, r)
          /\ Close({rooms[r].guest})
    /\ UNCHANGED <<client, elapsed, socketIps>>

(* getRoom() of the socket the timer was started for. *)
TimedRoom(s) == roomsBySocket[s]

(* The callback of setTimeout: it forgets whatever timer is on record for  *)
(* the session, then cleans up if its own socket still has a room.         *)
GraceTimerFires(s) ==
    LET r == TimedRoom(s) IN
    /\ timers[s] # None
    /\ timers' = [timers EXCEPT ![s] = None]
    /\ graceTimers' = [graceTimers EXCEPT ![timers[s]] = None]
    /\ \/ /\ r = None
          /\ UNCHANGED <<readyState, inbox, managerVars, sessionStartTimes>>
       \/ /\ r # None
          /\ CleanupRoom(s, r, timers[s])
          /\ Close(ClosedWithRoom(s, r))
    /\ UNCHANGED <<client, elapsed, socketIps>>

(* Date.now() reaches the expiresAt of a room.  Nothing reads expiresAt    *)
(* once the room is active or ended.                                       *)
TtlElapses(r) ==
    /\ rooms[r].state \in {"waiting", "pending"}
    /\ r \notin elapsed
    /\ elapsed' = elapsed \cup {r}
    /\ UNCHANGED <<readyState, client, inbox, managerVars, sessionStartTimes, timerVars,
                   socketIps>>

ExpirySweep ==
    /\ ExpiredRooms # {}
    /\ OnlyExpiry
    /\ Send({<<rooms[r].host, "ERROR">> : r \in ExpiredRooms})
    /\ Close(UNION {Members(r) : r \in ExpiredRooms})
    /\ UNCHANGED <<client, elapsed, sessionStartTimes, timerVars, socketIps>>

-----------------------------------------------------------------------------

Next ==
    \/ \E s \in Socket :
        \/ Connect(s)
        \/ ConnectRefused(s)
        \/ MessageDropped(s)
        \/ \E d \in HostDevice : RegistrationLimited(s, "host", d)
        \/ \E d \in GuestDevice : RegistrationLimited(s, "guest", d)
        \/ \E c \in Code, d \in HostDevice : RegisterHost(s, c, d)
        \/ \E c \in Code, d \in GuestDevice : RegisterGuest(s, c, d)
        \/ \E old \in Socket : Reconnect(s, old)
        \/ ApproveAccess(s)
        \/ ApproveFails(s)
        \/ RejectAccess(s)
        \/ RejectFails(s)
        \/ ForwardToPeer(s)
        \/ SocketClosed(s)
        \/ RefusedClosed(s)
        \/ GraceTimerFires(s)
        \/ TtlElapses(s)
    \/ ExpirySweep

Spec == Init /\ [][Next]_vars

(***************************************************************************)
(* Fairness.  The event loop runs due timers and the sweep's interval, time *)
(* passes, and ws completes a close() by itself (it destroys the connection *)
(* when the closing handshake times out).  Nothing obliges a client to send *)
(* or a connection that is open to close.                                   *)
(***************************************************************************)
ClosingEnds(s) == readyState[s] = "closing" /\ (SocketClosed(s) \/ RefusedClosed(s))

Fairness ==
    /\ WF_vars(ExpirySweep)
    /\ \A s \in Socket : /\ WF_vars(GraceTimerFires(s))
                         /\ WF_vars(TtlElapses(s))
                         /\ WF_vars(ClosingEnds(s))

FairSpec == Spec /\ Fairness

-----------------------------------------------------------------------------
(* Safety.                                                                  *)

Unapproved(r) == rooms[r].state \in {"waiting", "pending"}
Active(r) == rooms[r].state = "active"

(* The three maps and the start times agree with the rooms through every   *)
(* interleaving of handlers: an entry of roomsBySocket leads to a room the *)
(* socket sits in, both members of a live room have one, a share code only *)
(* leads to an unapproved room that was registered under it, and the       *)
(* session ids on record are those of the active rooms, so nothing of an   *)
(* ended session can be reconnected to or leaks.                           *)
RegistryConsistent ==
    /\ \A s \in Socket : roomsBySocket[s] # None => s \in Members(roomsBySocket[s])
    /\ \A r \in Room : Unapproved(r) \/ Active(r) =>
            \A s \in Members(r) : roomsBySocket[s] = r
    /\ \A c \in Code : roomsByCode[c] # None =>
            Unapproved(roomsByCode[c]) /\ rooms[roomsByCode[c]].code = c
    /\ roomsBySessionId = {r \in Room : Active(r)}
    /\ sessionStartTimes = roomsBySessionId

(* A stale grace timer is harmless: whatever timers were overwritten or    *)
(* left behind by handleDisconnect and handleReconnect, an active session  *)
(* ends only while the connection of one of its two members is closed.     *)
EndsOnlyWhenPeerGone ==
    [][\A r \in Room : Active(r) /\ rooms'[r].state = "ended" =>
            \E s \in Members(r) : readyState[s] = "closed"]_vars

(* No session is stranded: although handleDisconnect overwrites the timer  *)
(* on record and handleReconnect cancels it whoever it was for, an active  *)
(* session always has a member that is connected or is being timed out.    *)
AbandonedIsTimed ==
    \A r \in Room : Active(r) =>
        \E s \in Members(r) : readyState[s] # "closed" \/ timers[s] = r

(* Peer traffic reaches a socket only after the relay told it that the     *)
(* session is ready or resumed ("host approved and PTY traffic can flow"). *)
NoTrafficBeforeReady ==
    \A s \in Socket : "DATA" \in inbox[s] =>
        "SESSION_READY" \in inbox[s] \/ "RECONNECT_OK" \in inbox[s]

(* Nobody is left waiting in a room that ended for another reason than its *)
(* TTL: the guest is being disconnected, and the host, unless it rejected  *)
(* the request itself, was sent SESSION_TERMINATE.                         *)
EndIsTold ==
    \A r \in Room : rooms[r].state = "ended" /\ r \notin elapsed =>
        /\ rooms[r].guest # None => readyState[rooms[r].guest] # "open"
        /\ rooms[r].guest = None /\ readyState[rooms[r].host] = "open" =>
               "SESSION_TERMINATE" \in inbox[rooms[r].host]

(* The TTL of a code holds at the moment a guest asks, whether or not the  *)
(* periodic sweep has run.                                                 *)
ExpiredCodeAdmitsNobody ==
    [][\A r \in Room : rooms[r].state = "waiting" /\ r \in elapsed =>
            rooms'[r].state # "pending"]_vars

(* "The identity must match the original peer for the corresponding role": *)
(* the host's seat is only ever held by a client that shares, the guest's  *)
(* by one that joined.                                                     *)
RoleKept ==
    \A r \in Room :
        /\ rooms[r].host # None => client[rooms[r].host].role = "host"
        /\ rooms[r].guest # None => client[rooms[r].guest].role = "guest"

(* "waiting: host registered a code and is waiting for a guest": while a   *)
(* room is unapproved, its code leads to it.                               *)
CodeLeadsToRoom ==
    \A r \in Room : Unapproved(r) => roomsByCode[rooms[r].code] = r

(* The rooms go through the life cycle the documentation draws.            *)
LifeCycle == INSTANCE RoomLifecycle WITH
    state <- [r \in Room |-> rooms[r].state],
    sharer <- [r \in Room |-> IF Unapproved(r) \/ Active(r) THEN client[rooms[r].host].device
                                                        ELSE None],
    joiner <- [r \in Room |-> IF rooms[r].state = "pending" \/ Active(r)
                             THEN client[rooms[r].guest].device ELSE None]

LifeCycleSpec == LifeCycle!Spec

-----------------------------------------------------------------------------
(* Liveness, under FairSpec.                                                *)

(* An unapproved room whose TTL passes ends, or is approved at the last    *)
(* moment, even if nobody ever uses the relay again.                       *)
UnapprovedEnds ==
    \A r \in Room : Unapproved(r) ~> ~Unapproved(r)

(* Without a reconnect, the loss of a connection eventually ends the       *)
(* session.                                                                *)
LossEndsSession ==
    \A r \in Room :
        (Active(r) /\ \E s \in Members(r) : readyState[s] = "closed")
            ~> (~Active(r) \/ \E s \in Socket : client[s].session = r
                                            /\ "RECONNECT_OK" \in inbox[s])

=============================================================================
