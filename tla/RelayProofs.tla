----------------------------- MODULE RelayProofs -----------------------------
(***************************************************************************)
(* Proofs about Relay, for any sets of sockets, codes and devices.         *)
(***************************************************************************)
EXTENDS RelayInvariant, TLAPS

USE DEF TakeSeat, ClearGraceTimer, Resume, StartGraceTimer, TimedRoom

(***************************************************************************)
(* Type correctness.                                                       *)
(***************************************************************************)

(* The socket operations keep their variables well typed. *)
LEMMA DeliverType ==
    ASSUME TypeOK, NEW out, NEW read, Deliver(out, read)
    PROVE  inbox' \in [Socket -> SUBSET Message]
BY DEF TypeOK, Deliver

(* close() leaves every connection in a state of the WebSocket. *)
LEMMA CloseType ==
    ASSUME TypeOK, NEW S, Close(S)
    PROVE  readyState' \in [Socket -> ReadyState]
BY DEF TypeOK, Close, ReadyState

(* The first message of a connection gives it a role and a device. *)
LEMMA IdentifyType ==
    ASSUME TypeOK, NEW s \in Socket, NEW role \in {"host", "guest", "refused", None},
           NEW device \in HostDevice \cup GuestDevice \cup {None},
           NEW session \in Room \cup {None}, Identify(s, role, device, session)
    PROVE  client' \in [Socket -> Client]
BY DEF TypeOK, Identify, Client

(* expireRooms leaves the maps and the rooms well typed. *)
LEMMA ExpiryType ==
    ASSUME TypeOK
    PROVE  /\ RoomsAfterExpiry \in [Room -> RelayRoom]
           /\ ByCodeAfterExpiry \in [Code -> Room \cup {None}]
           /\ BySocketAfterExpiry \in [Socket -> Room \cup {None}]
           /\ BySessionIdAfterExpiry \in SUBSET Room
<1>1. RoomsAfterExpiry \in [Room -> RelayRoom]
  BY DEF TypeOK, RoomsAfterExpiry, RelayRoom, RelayState
<1> QED
  BY <1>1 DEF TypeOK, ByCodeAfterExpiry, BySocketAfterExpiry, BySessionIdAfterExpiry

(* releaseSocket() leaves the maps and the rooms well typed. *)
LEMMA ReleaseType ==
    ASSUME TypeOK, NEW s \in Socket, NEW r \in Room, ReleaseSocket(s, r)
    PROVE  /\ rooms' \in [Room -> RelayRoom]
           /\ roomsByCode' \in [Code -> Room \cup {None}]
           /\ roomsBySocket' \in [Socket -> Room \cup {None}]
           /\ roomsBySessionId' \in SUBSET Room
<1>1. rooms' \in [Room -> RelayRoom]
  <2>1. \A x \in RelayState \cup {None}, g \in Socket \cup {None} :
            [rooms[r] EXCEPT !.state = x, !.guest = g] \in RelayRoom
    BY DEF TypeOK, RelayRoom
  <2>2. PICK x \in RelayState \cup {None}, g \in Socket \cup {None} :
            rooms' = [rooms EXCEPT ![r] = [rooms[r] EXCEPT !.state = x, !.guest = g]]
    <3>1. rooms[r].state \in RelayState \cup {None} /\ rooms[r].guest \in Socket \cup {None}
      BY DEF TypeOK, RelayRoom
    <3> QED
      BY <3>1 DEF ReleaseSocket, RelayState
  <2> QED
    BY <2>1, <2>2 DEF TypeOK
<1>2. roomsByCode' \in [Code -> Room \cup {None}]
  BY DEF TypeOK, ReleaseSocket
<1>3. roomsBySocket' \in [Socket -> Room \cup {None}]
  BY DEF TypeOK, ReleaseSocket
<1>4. roomsBySessionId' \in SUBSET Room
  BY DEF TypeOK, ReleaseSocket
<1> QED
  BY <1>1, <1>2, <1>3, <1>4

(* Every step of the relay keeps the types: one case per handler. *)
LEMMA TypeStep == TypeOK /\ [Next]_vars => TypeOK'
<1> SUFFICES ASSUME TypeOK, [Next]_vars PROVE TypeOK'
  OBVIOUS
<1> USE DEF Room
<1>1. CASE UNCHANGED vars
  BY <1>1 DEF TypeOK, vars
<1>2. ASSUME NEW s \in Socket, Connect(s) PROVE TypeOK'
  BY <1>2 DEF TypeOK, Connect, managerVars, timerVars, ReadyState
<1>3. ASSUME NEW s \in Socket, ConnectRefused(s) PROVE TypeOK'
  <2>1. client' \in [Socket -> Client]
    BY <1>3, IdentifyType DEF ConnectRefused
  <2> QED
    BY <1>3, <2>1 DEF TypeOK, ConnectRefused, managerVars, timerVars, ReadyState, Message
<1>4. ASSUME NEW s \in Socket, MessageDropped(s) PROVE TypeOK'
  <2>1. inbox' \in [Socket -> SUBSET Message]
    BY <1>4, DeliverType DEF MessageDropped
  <2> QED
    BY <1>4, <2>1 DEF TypeOK, MessageDropped, managerVars, timerVars
<1>5. ASSUME NEW s \in Socket, NEW role \in {"host", "guest"},
             NEW d \in HostDevice \cup GuestDevice, RegistrationLimited(s, role, d)
      PROVE  TypeOK'
  <2>1. client' \in [Socket -> Client]
    BY <1>5, IdentifyType DEF RegistrationLimited
  <2>2. inbox' \in [Socket -> SUBSET Message] /\ readyState' \in [Socket -> ReadyState]
    BY <1>5, DeliverType, CloseType DEF RegistrationLimited, Refuse, Send
  <2> QED
    BY <1>5, <2>1, <2>2 DEF TypeOK, RegistrationLimited, managerVars, timerVars
<1>6. ASSUME NEW s \in Socket, NEW c \in Code, NEW d \in HostDevice, RegisterHost(s, c, d)
      PROVE  TypeOK'
  <2>1. client' \in [Socket -> Client]
    BY <1>6, IdentifyType DEF RegisterHost
  <2>2. inbox' \in [Socket -> SUBSET Message] /\ readyState' \in [Socket -> ReadyState]
    BY <1>6, DeliverType, CloseType DEF RegisterHost, Refuse, Send, TypeOK
  <2>3. /\ rooms' \in [Room -> RelayRoom]
        /\ roomsByCode' \in [Code -> Room \cup {None}]
        /\ roomsBySocket' \in [Socket -> Room \cup {None}]
        /\ roomsBySessionId' \in SUBSET Room
    <3>1. [state |-> "waiting", code |-> c, host |-> s, guest |-> None, sessionId |-> None]
            \in RelayRoom
      BY DEF RelayRoom, RelayState
    <3>2. CASE ManagerRegisterHost(s, c)
      BY <3>1, <3>2, ExpiryType DEF ManagerRegisterHost
    <3>3. CASE OnlyExpiry
      BY <3>3, ExpiryType DEF OnlyExpiry
    <3> QED
      BY <1>6, <3>2, <3>3 DEF RegisterHost
  <2> QED
    BY <1>6, <2>1, <2>2, <2>3 DEF TypeOK, RegisterHost, timerVars
<1>7. ASSUME NEW s \in Socket, NEW c \in Code, NEW d \in GuestDevice, RegisterGuest(s, c, d)
      PROVE  TypeOK'
  <2>1. client' \in [Socket -> Client]
    BY <1>7, IdentifyType DEF RegisterGuest
  <2>2. inbox' \in [Socket -> SUBSET Message] /\ readyState' \in [Socket -> ReadyState]
    BY <1>7, DeliverType, CloseType DEF RegisterGuest, Refuse, Send, TypeOK
  <2>3. /\ rooms' \in [Room -> RelayRoom]
        /\ roomsByCode' \in [Code -> Room \cup {None}]
        /\ roomsBySocket' \in [Socket -> Room \cup {None}]
        /\ roomsBySessionId' \in SUBSET Room
    <3>1. CASE ManagerRegisterGuest(s, c)
      <4>1. PICK r \in Room : r = ByCodeAfterExpiry[c]
        BY <3>1, ExpiryType DEF ManagerRegisterGuest
      <4>2. [RoomsAfterExpiry[r] EXCEPT !.guest = s, !.state = "pending"] \in RelayRoom
        BY ExpiryType DEF RelayRoom, RelayState
      <4>3. rooms' = [RoomsAfterExpiry EXCEPT ![r].guest = s, ![r].state = "pending"]
        BY <3>1, <4>1 DEF ManagerRegisterGuest
      <4>4. rooms' \in [Room -> RelayRoom]
        BY <4>2, <4>3, ExpiryType
      <4> QED
        BY <3>1, <4>1, <4>4, ExpiryType DEF ManagerRegisterGuest
    <3>2. CASE OnlyExpiry
      BY <3>2, ExpiryType DEF OnlyExpiry
    <3> QED
      BY <1>7, <3>1, <3>2 DEF RegisterGuest
  <2> QED
    BY <1>7, <2>1, <2>2, <2>3 DEF TypeOK, RegisterGuest, timerVars
<1>8. ASSUME NEW s \in Socket, NEW old \in Socket, Reconnect(s, old) PROVE TypeOK'
  <2>1. client' \in [Socket -> Client]
    <3>1. client[old] \in Client
      BY DEF TypeOK
    <3>2. /\ client[old].role \in {"host", "guest", "refused", None}
          /\ client[old].device \in HostDevice \cup GuestDevice \cup {None}
          /\ client[old].session \in Room \cup {None}
      BY <3>1 DEF Client
    <3> QED
      BY <1>8, <3>2, IdentifyType DEF Reconnect
  <2>2. inbox' \in [Socket -> SUBSET Message] /\ readyState' \in [Socket -> ReadyState]
    BY <1>8, DeliverType, CloseType
    DEF Reconnect, ReconnectAccepted, ReconnectRefused, Refuse, Send, TypeOK
  <2>3. rooms' \in [Room -> RelayRoom]
    <3>1. PICK r \in Room : \/ rooms' = [rooms EXCEPT ![r].host = s]
                            \/ rooms' = [rooms EXCEPT ![r].guest = s]
                            \/ rooms' = rooms
      BY <1>8 DEF Reconnect, ReconnectAccepted, ReconnectRefused, managerVars, TypeOK, Client
    <3>2. rooms \in [Room -> RelayRoom]
      BY DEF TypeOK
    <3>3. [rooms[r] EXCEPT !.host = s] \in RelayRoom /\ [rooms[r] EXCEPT !.guest = s] \in RelayRoom
      BY <1>8, <3>2 DEF RelayRoom
    <3> QED
      BY <3>1, <3>2, <3>3
  <2>4. roomsBySocket' \in [Socket -> Room \cup {None}]
    BY <1>8 DEF Reconnect, ReconnectAccepted, ReconnectRefused, managerVars, TypeOK, Client
  <2>5. timers' \in [Socket -> Room \cup {None}] /\ graceTimers' \in [Room -> Socket \cup {None}]
    BY <1>8 DEF Reconnect, ReconnectAccepted, ReconnectRefused, timerVars, TypeOK
  <2> QED
    BY <1>8, <2>1, <2>2, <2>3, <2>4, <2>5
    DEF TypeOK, Reconnect, ReconnectAccepted, ReconnectRefused, managerVars
<1>9. ASSUME NEW s \in Socket, ApproveAccess(s) PROVE TypeOK'
  <2>1. roomsBySocket[s] \in Room
    BY <1>9 DEF ApproveAccess, HasRequest, TypeOK
  <2>2. inbox' \in [Socket -> SUBSET Message]
    BY <1>9, DeliverType DEF ApproveAccess
  <2>3. client' \in [Socket -> Client]
    BY <1>9, <2>1 DEF ApproveAccess, TypeOK, Client
  <2>4. rooms' \in [Room -> RelayRoom]
    BY <1>9, <2>1 DEF ApproveAccess, TypeOK, RelayRoom, RelayState
  <2> QED
    BY <1>9, <2>1, <2>2, <2>3, <2>4 DEF TypeOK, ApproveAccess, timerVars
<1>10. ASSUME NEW s \in Socket, ApproveFails(s) \/ RejectFails(s) PROVE TypeOK'
  <2>1. inbox' \in [Socket -> SUBSET Message]
    BY <1>10, DeliverType DEF ApproveFails, RejectFails, AnswerFails
  <2> QED
    BY <1>10, <2>1 DEF TypeOK, ApproveFails, RejectFails, AnswerFails, managerVars, timerVars
<1>11. ASSUME NEW s \in Socket, RejectAccess(s) PROVE TypeOK'
  <2>1. inbox' \in [Socket -> SUBSET Message] /\ readyState' \in [Socket -> ReadyState]
    BY <1>11, DeliverType, CloseType DEF RejectAccess
  <2>2. rooms' \in [Room -> RelayRoom]
    BY <1>11 DEF RejectAccess, HasRequest, TypeOK, RelayRoom, RelayState
  <2> QED
    BY <1>11, <2>1, <2>2 DEF TypeOK, RejectAccess, timerVars
<1>12. ASSUME NEW s \in Socket, ForwardToPeer(s) PROVE TypeOK'
  <2>1. inbox' \in [Socket -> SUBSET Message]
    BY <1>12, DeliverType DEF ForwardToPeer, Send
  <2> QED
    BY <1>12, <2>1 DEF TypeOK, ForwardToPeer, managerVars, timerVars
<1>13. ASSUME NEW s \in Socket, SocketClosed(s) PROVE TypeOK'
  <2>1. inbox' \in [Socket -> SUBSET Message]
    BY <1>13, DeliverType DEF SocketClosed, HandleDisconnect, CleanupRoom, Send, TypeOK
  <2>2. readyState' \in [Socket -> ReadyState]
    BY <1>13 DEF SocketClosed, HandleDisconnect, TypeOK, ReadyState
  <2>3. /\ rooms' \in [Room -> RelayRoom]
        /\ roomsByCode' \in [Code -> Room \cup {None}]
        /\ roomsBySocket' \in [Socket -> Room \cup {None}]
        /\ roomsBySessionId' \in SUBSET Room
    BY <1>13, ReleaseType DEF SocketClosed, HandleDisconnect, CleanupRoom, TypeOK, managerVars
  <2>4. timers' \in [Socket -> Room \cup {None}] /\ graceTimers' \in [Room -> Socket \cup {None}]
    BY <1>13 DEF SocketClosed, HandleDisconnect, TypeOK, timerVars, RelayRoom
  <2>5. sessionStartTimes' \in SUBSET Room
    BY <1>13 DEF SocketClosed, HandleDisconnect, CleanupRoom, TypeOK
  <2> QED
    BY <1>13, <2>1, <2>2, <2>3, <2>4, <2>5 DEF TypeOK, SocketClosed
<1>14. ASSUME NEW s \in Socket, RefusedClosed(s) PROVE TypeOK'
  BY <1>14 DEF TypeOK, RefusedClosed, managerVars, timerVars, ReadyState
<1>15. ASSUME NEW s \in Socket, GraceTimerFires(s) PROVE TypeOK'
  <2>1. inbox' \in [Socket -> SUBSET Message] /\ readyState' \in [Socket -> ReadyState]
    BY <1>15, DeliverType, CloseType DEF GraceTimerFires, CleanupRoom, Send, TypeOK
  <2>2. /\ rooms' \in [Room -> RelayRoom]
        /\ roomsByCode' \in [Code -> Room \cup {None}]
        /\ roomsBySocket' \in [Socket -> Room \cup {None}]
        /\ roomsBySessionId' \in SUBSET Room
    BY <1>15, ReleaseType DEF GraceTimerFires, CleanupRoom, TypeOK, managerVars
  <2>3. sessionStartTimes' \in SUBSET Room
    BY <1>15 DEF GraceTimerFires, CleanupRoom, TypeOK
  <2> QED
    BY <1>15, <2>1, <2>2, <2>3 DEF TypeOK, GraceTimerFires
<1>16. ASSUME NEW r \in Room, TtlElapses(r) PROVE TypeOK'
  BY <1>16 DEF TypeOK, TtlElapses, managerVars, timerVars
<1>17. CASE ExpirySweep
  <2>1. inbox' \in [Socket -> SUBSET Message] /\ readyState' \in [Socket -> ReadyState]
    BY <1>17, DeliverType, CloseType DEF ExpirySweep, Send
  <2> QED
    BY <1>17, <2>1, ExpiryType DEF TypeOK, ExpirySweep, OnlyExpiry, timerVars
<1> QED
  BY <1>1, <1>2, <1>3, <1>4, <1>5, <1>6, <1>7, <1>8, <1>9, <1>10, <1>11, <1>12, <1>13, <1>14,
     <1>15, <1>16, <1>17 DEF Next

(* Every handler of main.ts keeps SessionManager's maps, the rooms, the    *)
(* timers and the connections within their types.                          *)
THEOREM TypeCorrect == Spec => []TypeOK
<1>1. Init => TypeOK
  BY DEF Init, TypeOK, Room, ReadyState, Client, NoClient, RelayRoom, NoRoom
<1> QED
  BY <1>1, TypeStep, PTL DEF Spec

(***************************************************************************)
(* The inductive invariant.                                                *)
(***************************************************************************)

(* A socket that has said who it is. *)
Known(s) == client[s].role \in {"host", "guest"}

(* A step is calm if the sockets that are known to the relay stay who they *)
(* are, none of them opens again, they keep what they were sent, and peer  *)
(* traffic only reaches sockets that are ready for it.                     *)
Calm ==
    /\ \A s \in Socket : Known(s) => client'[s] = client[s]
    /\ \A s \in Socket : Known(s) /\ readyState'[s] = "open" => readyState[s] = "open"
    /\ \A s \in Socket : readyState[s] = "closed" => readyState'[s] = "closed"
    /\ \A s \in Socket : readyState'[s] = "absent" => client'[s] = NoClient
    /\ \A s \in Socket : client'[s].session # None => client'[s].role \in {"host", "guest"}
    /\ \A s \in Socket : inbox[s] \ {"ACCESS_REQUEST"} \subseteq inbox'[s]
    /\ \A s \in Socket : "DATA" \in inbox'[s] =>
           inbox[s] \cap {"DATA", "SESSION_READY", "RECONNECT_OK"} # {}

(* A socket that is host or guest of a room is a known connection. *)
LEMMA MembersAreKnown ==
    ASSUME IInv, NEW r \in Room
    PROVE  Members(r) \subseteq Socket /\ \A x \in Members(r) : Known(x)
BY DEF IInv, TypeOK, RelayRoom, Room, Members, SocketShape, Known

(* A calm step that leaves the registry alone and asks no host anything   *)
(* keeps the invariant if it keeps what concerns the timers.               *)
LEMMA SameRoomsStep ==
    ASSUME IInv, TypeOK', Calm,
           UNCHANGED <<managerVars, sessionStartTimes>>,
           elapsed \subseteq elapsed',
           \A s \in Socket : "ACCESS_REQUEST" \in inbox'[s] => "ACCESS_REQUEST" \in inbox[s],
           TimerShape', AbandonedIsTimed'
    PROVE  IInv'
<1> USE NoneAssumption DEF Room, managerVars
<1>1. RegistryConsistent' /\ RoomShape' /\ OneRoomEach'
  BY DEF IInv, RegistryConsistent, RoomShape, OneRoomEach, Members, Unapproved, Active
<1>2. SocketShape'
  BY DEF IInv, SocketShape, RoomShape, Members, TypeOK, RelayRoom, Calm, Known
<1>3. RequestShape'
  BY DEF IInv, RequestShape
<1>4. MembersReady'
  <2> SUFFICES ASSUME NEW r \in Room, Active(r), NEW s \in Members(r), readyState'[s] = "open"
               PROVE  "SESSION_READY" \in inbox'[s] \/ "RECONNECT_OK" \in inbox'[s]
    BY DEF MembersReady, Active, Members
  <2>1. s \in Socket /\ Known(s)
    BY DEF IInv, TypeOK, RelayRoom, Members, SocketShape, Known
  <2> QED
    BY <2>1 DEF IInv, MembersReady, Calm
<1>5. SeatDevices'
  BY DEF IInv, SeatDevices, SocketShape, RoomShape, Members, TypeOK, RelayRoom, Calm, Known,
         Unapproved, Active
<1>6. NoTrafficBeforeReady'
  BY DEF IInv, NoTrafficBeforeReady, Calm
<1>7. EndIsTold'
  <2> SUFFICES ASSUME NEW r \in Room, rooms[r].state = "ended", r \notin elapsed
               PROVE  /\ rooms[r].guest # None => readyState'[rooms[r].guest] # "open"
                      /\ rooms[r].guest = None /\ readyState'[rooms[r].host] = "open" =>
                             "SESSION_TERMINATE" \in inbox'[rooms[r].host]
    BY DEF EndIsTold
  <2>1. rooms[r].host \in Socket /\ Known(rooms[r].host)
    BY DEF IInv, TypeOK, RelayRoom, RoomShape, SocketShape, Members, Known
  <2>2. rooms[r].guest # None => rooms[r].guest \in Socket /\ Known(rooms[r].guest)
    BY DEF IInv, TypeOK, RelayRoom, SocketShape, Members, Known
  <2> QED
    BY <2>1, <2>2 DEF IInv, EndIsTold, Calm
<1> QED
  BY <1>1, <1>2, <1>3, <1>4, <1>5, <1>6, <1>7 DEF IInv

(* So does one that leaves the timers alone too and closes no socket that  *)
(* has a room.                                                             *)
LEMMA QuietStep ==
    ASSUME IInv, TypeOK', Calm,
           UNCHANGED <<managerVars, sessionStartTimes, timerVars>>,
           elapsed \subseteq elapsed',
           \A s \in Socket : "ACCESS_REQUEST" \in inbox'[s] => "ACCESS_REQUEST" \in inbox[s],
           \A s \in Socket : roomsBySocket[s] # None /\ readyState'[s] = "closed" =>
                                readyState[s] = "closed"
    PROVE  IInv'
<1> USE NoneAssumption DEF Room, managerVars, timerVars
<1>1. TimerShape'
  BY DEF IInv, TimerShape, Calm
<1>2. AbandonedIsTimed'
  <2> SUFFICES ASSUME NEW r \in Room, Active(r)
               PROVE  \E s \in Members(r) : readyState'[s] # "closed" \/ timers[s] = r
    BY DEF AbandonedIsTimed, Active, Members
  <2>1. PICK s \in Members(r) : readyState[s] # "closed" \/ timers[s] = r
    BY DEF IInv, AbandonedIsTimed
  <2>2. s \in Socket /\ roomsBySocket[s] = r
    BY DEF IInv, TypeOK, RelayRoom, Members, RegistryConsistent
  <2> QED
    BY <2>1, <2>2
<1> QED
  BY <1>1, <1>2, SameRoomsStep

(* A new connection is in no room. *)
LEMMA ConnectStep ==
    ASSUME IInv, TypeOK', NEW s \in Socket, Connect(s) PROVE IInv'
<1>1. Calm
  BY NoneAssumption DEF IInv, SocketShape, TypeOK, NoClient, Connect, Calm, Known
<1> QED
  BY <1>1, QuietStep DEF IInv, TypeOK, Connect, managerVars, timerVars

(* Neither is one that the connection limiter refuses. *)
LEMMA ConnectRefusedStep ==
    ASSUME IInv, TypeOK', NEW s \in Socket, ConnectRefused(s) PROVE IInv'
<1>1. Calm
  BY NoneAssumption DEF IInv, SocketShape, TypeOK, NoClient, ConnectRefused, Identify, Calm, Known
<1> QED
  BY <1>1, QuietStep DEF IInv, TypeOK, ConnectRefused, managerVars, timerVars

(* send() is calm, as long as traffic goes to a socket that is ready. *)
LEMMA DeliverCalm ==
    ASSUME IInv, NEW out, NEW read, Deliver(out, read),
           \A s \in Socket : <<s, "DATA">> \notin out,
           \A s \in Socket, m \in Message : <<s, m>> \in read => m = "ACCESS_REQUEST"
    PROVE  /\ \A s \in Socket : inbox[s] \ {"ACCESS_REQUEST"} \subseteq inbox'[s]
           /\ \A s \in Socket : "DATA" \in inbox'[s] => "DATA" \in inbox[s]
BY DEF IInv, TypeOK, Deliver

(* A message that the handler ignores or answers with an error changes no  *)
(* room.                                                                   *)
LEMMA MessageDroppedStep ==
    ASSUME IInv, TypeOK', NEW s \in Socket, MessageDropped(s) PROVE IInv'
<1>1. Deliver({<<s, "ERROR">>}, {<<s, "ACCESS_REQUEST">>})
  BY DEF MessageDropped
<1>2. Calm
  BY <1>1, DeliverCalm DEF IInv, SocketShape, MessageDropped, Calm
<1>3. \A x \in Socket : "ACCESS_REQUEST" \in inbox'[x] => "ACCESS_REQUEST" \in inbox[x]
  BY <1>1 DEF Deliver
<1> QED
  BY <1>2, <1>3, QuietStep DEF MessageDropped, managerVars, timerVars

(* An answer to no pending request changes no room. *)
LEMMA AnswerFailsStep ==
    ASSUME IInv, TypeOK', NEW s \in Socket, ApproveFails(s) \/ RejectFails(s) PROVE IInv'
<1>1. AnswerFails(s)
  BY DEF ApproveFails, RejectFails
<1>2. Deliver({<<s, "ERROR">>}, {<<s, "ACCESS_REQUEST">>})
  BY <1>1 DEF AnswerFails
<1>3. Calm
  BY <1>1, <1>2, DeliverCalm DEF IInv, SocketShape, AnswerFails, Calm
<1>4. \A x \in Socket : "ACCESS_REQUEST" \in inbox'[x] => "ACCESS_REQUEST" \in inbox[x]
  BY <1>2 DEF Deliver
<1> QED
  BY <1>1, <1>3, <1>4, QuietStep DEF AnswerFails, managerVars, timerVars

(* Identifying and refusing a socket whose opening message arrives. *)
LEMMA RefuseCalm ==
    ASSUME IInv, NEW s \in Socket, Opening(s), Refuse(s),
           NEW role \in {"host", "guest"}, NEW d, NEW r, Identify(s, role, d, r)
    PROVE  /\ Calm
           /\ \A x \in Socket : "ACCESS_REQUEST" \in inbox'[x] => "ACCESS_REQUEST" \in inbox[x]
           /\ \A x \in Socket : readyState'[x] = "closed" => readyState[x] = "closed"
<1>1. /\ \A x \in Socket : inbox[x] \ {"ACCESS_REQUEST"} \subseteq inbox'[x]
      /\ \A x \in Socket : "DATA" \in inbox'[x] => "DATA" \in inbox[x]
  BY DeliverCalm DEF Refuse, Send
<1>2. \A x \in Socket : "ACCESS_REQUEST" \in inbox'[x] => "ACCESS_REQUEST" \in inbox[x]
  BY DEF Refuse, Send, Deliver
<1>3. \A x \in Socket : x # s => readyState'[x] = readyState[x] /\ client'[x] = client[x]
  BY DEF Refuse, Close, Identify, IInv, TypeOK
<1>4. /\ readyState'[s] = "closing" /\ readyState[s] = "open" /\ ~Known(s)
      /\ client'[s].role = role
  BY NoneAssumption DEF Refuse, Close, Identify, Opening, IInv, TypeOK, Known
<1> QED
  BY <1>1, <1>2, <1>3, <1>4 DEF Calm, IInv, SocketShape

(* A registration over the limit is refused. *)
LEMMA RegistrationLimitedStep ==
    ASSUME IInv, TypeOK', NEW s \in Socket, NEW role \in {"host", "guest"},
           NEW d, RegistrationLimited(s, role, d)
    PROVE  IInv'
<1> SUFFICES /\ Calm
             /\ \A x \in Socket : "ACCESS_REQUEST" \in inbox'[x] => "ACCESS_REQUEST" \in inbox[x]
             /\ \A x \in Socket : readyState'[x] = "closed" => readyState[x] = "closed"
  BY QuietStep DEF RegistrationLimited, managerVars, timerVars
<1> QED
  BY RefuseCalm DEF RegistrationLimited

(* A reconnection that handleReconnect refuses changes no room. *)
LEMMA ReconnectRefusedStep ==
    ASSUME IInv, TypeOK', NEW s \in Socket, NEW old \in Socket, Reconnect(s, old),
           ReconnectRefused(s, client[old].session, client[old].device)
    PROVE  IInv'
<1>1. client[old].role \in {"host", "guest"}
  BY DEF Reconnect, IInv, SocketShape
<1> SUFFICES /\ Calm
             /\ \A x \in Socket : "ACCESS_REQUEST" \in inbox'[x] => "ACCESS_REQUEST" \in inbox[x]
             /\ \A x \in Socket : readyState'[x] = "closed" => readyState[x] = "closed"
  BY QuietStep DEF Reconnect, ReconnectRefused, managerVars, timerVars
<1> QED
  BY <1>1, RefuseCalm DEF Reconnect, ReconnectRefused

(* Traffic is forwarded inside an active room only, whose peer was told. *)
LEMMA ForwardToPeerStep ==
    ASSUME IInv, TypeOK', NEW s \in Socket, ForwardToPeer(s) PROVE IInv'
<1> DEFINE r == roomsBySocket[s]
<1>1. CASE r # None /\ Active(r) /\ Send({<<Peer(s, r), "DATA">>})
  <2>1. r \in Room /\ Peer(s, r) \in Members(r) \cup {None}
    BY <1>1 DEF IInv, TypeOK, Peer, Members
  <2>2. \A x \in Socket : inbox'[x] # inbox[x] =>
            /\ x \in Members(r) /\ readyState[x] = "open"
            /\ inbox'[x] = inbox[x] \cup {"DATA"}
    BY <1>1, <2>1, NoneAssumption DEF Send, Deliver, IInv, TypeOK
  <2>3. \A x \in Socket : inbox'[x] # inbox[x] =>
            inbox[x] \cap {"SESSION_READY", "RECONNECT_OK"} # {}
    BY <1>1, <2>1, <2>2 DEF IInv, MembersReady
  <2>4. Calm
    BY <2>2, <2>3 DEF IInv, SocketShape, ForwardToPeer, Calm
  <2> QED
    BY <2>2, <2>4, QuietStep DEF ForwardToPeer, managerVars, timerVars
<1>2. CASE Send({<<s, "ERROR">>})
  <2>1. Deliver({<<s, "ERROR">>}, {})
    BY <1>2 DEF Send
  <2>2. Calm
    BY <2>1, DeliverCalm DEF IInv, SocketShape, ForwardToPeer, Calm
  <2>3. \A x \in Socket : "ACCESS_REQUEST" \in inbox'[x] => "ACCESS_REQUEST" \in inbox[x]
    BY <2>1 DEF Deliver
  <2> QED
    BY <2>2, <2>3, QuietStep DEF ForwardToPeer, managerVars, timerVars
<1> QED
  BY <1>1, <1>2 DEF ForwardToPeer, Active

(* The close event of a connection that was never admitted. *)
LEMMA RefusedClosedStep ==
    ASSUME IInv, TypeOK', NEW s \in Socket, RefusedClosed(s) PROVE IInv'
<1>1. ~Known(s) /\ roomsBySocket[s] = None
  BY DEF RefusedClosed, Known, IInv, TypeOK, SocketShape, RegistryConsistent
<1>2. Calm
  BY <1>1 DEF RefusedClosed, Calm, IInv, SocketShape, TypeOK
<1> QED
  BY <1>1, <1>2, QuietStep DEF RefusedClosed, IInv, TypeOK, managerVars, timerVars

(* The passing of a room's TTL ends nothing by itself. *)
LEMMA TtlElapsesStep ==
    ASSUME IInv, TypeOK', NEW r \in Room, TtlElapses(r) PROVE IInv'
<1>1. Calm
  BY DEF TtlElapses, Calm, IInv, SocketShape
<1> QED
  BY <1>1, QuietStep DEF TtlElapses, managerVars, timerVars

(***************************************************************************)
(* The host's answer.                                                      *)
(***************************************************************************)

(* A host that answers does so about its own room. *)
LEMMA AnswerIsOwn ==
    ASSUME IInv, NEW s \in Socket, Answering(s), HasRequest(s)
    PROVE  /\ roomsBySocket[s] = s /\ s \in Room /\ rooms[s].host = s
           /\ rooms[s].state \in {"pending", "ended"}
           /\ rooms[s].guest \in Socket /\ rooms[s].guest # s
           /\ rooms[s].code \in Code
BY NoneAssumption
DEF Answering, HasRequest, IInv, TypeOK, RelayRoom, RequestShape, RoomShape, Room

(* approveAccess activates the answering host's own room. *)
LEMMA ApproveAccessStep ==
    ASSUME IInv, TypeOK', NEW s \in Socket, ApproveAccess(s) PROVE IInv'
<1> USE NoneAssumption DEF Room
<1> DEFINE g == rooms[s].guest
<1>1. /\ roomsBySocket[s] = s /\ s \in Room /\ rooms[s].host = s /\ rooms[s].state = "pending"
      /\ g \in Socket /\ g # s /\ rooms[s].code \in Code
  BY AnswerIsOwn DEF ApproveAccess
<1>2. /\ \A q \in Room : q # s => rooms'[q] = rooms[q]
      /\ rooms'[s].state = "active" /\ rooms'[s].sessionId = s
      /\ rooms'[s].host = s /\ rooms'[s].guest = g /\ rooms'[s].code = rooms[s].code
  BY <1>1 DEF ApproveAccess, IInv, TypeOK, RelayRoom
<1>3. /\ roomsByCode'[rooms[s].code] = None
      /\ \A c \in Code : c # rooms[s].code => roomsByCode'[c] = roomsByCode[c]
      /\ roomsBySessionId' = roomsBySessionId \cup {s}
      /\ sessionStartTimes' = sessionStartTimes \cup {s}
      /\ roomsBySocket' = roomsBySocket /\ timers' = timers /\ graceTimers' = graceTimers
      /\ readyState' = readyState /\ elapsed' = elapsed
  BY <1>1 DEF ApproveAccess, IInv, TypeOK, timerVars
<1>4. /\ \A x \in Socket : inbox[x] \ {"ACCESS_REQUEST"} \subseteq inbox'[x]
      /\ \A x \in Socket : "DATA" \in inbox'[x] => "DATA" \in inbox[x]
  <2>1. Deliver({s, g} \X {"SESSION_READY", "SESSION_INFO"}, {<<s, "ACCESS_REQUEST">>})
    BY <1>1 DEF ApproveAccess
  <2> QED
    BY <2>1, DeliverCalm
<1>5. /\ \A x \in Socket : "ACCESS_REQUEST" \in inbox'[x] => x # s /\ "ACCESS_REQUEST" \in inbox[x]
      /\ \A x \in {s, g} : readyState[x] = "open" => "SESSION_READY" \in inbox'[x]
  BY <1>1 DEF ApproveAccess, Deliver, Message
<1>6. \A x \in Socket : /\ client'[x].role = client[x].role
                        /\ client'[x].device = client[x].device
                        /\ client'[x].session \in {client[x].session, s}
                        /\ client'[x] = client[x] \/ (x \in {s, g} /\ readyState[x] = "open")
  <2>1. client' = [x \in Socket |-> IF x \in {s, g} /\ readyState[x] = "open"
                                    THEN [client[x] EXCEPT !.session = s] ELSE client[x]]
    BY <1>1 DEF ApproveAccess
  <2> QED
    BY <2>1 DEF IInv, TypeOK, Client
<1>7. RegistryConsistent'
  <2>1. \A x \in Socket : roomsBySocket'[x] # None => x \in Members(roomsBySocket[x])'
    BY <1>1, <1>2, <1>3 DEF IInv, RegistryConsistent, Members, TypeOK
  <2>2. \A r \in Room : (Unapproved(r) \/ Active(r))' => \A x \in Members(r)' : roomsBySocket'[x] = r
    BY <1>1, <1>2, <1>3 DEF IInv, RegistryConsistent, Members, Unapproved, Active
  <2>3. \A c \in Code : roomsByCode'[c] # None =>
            Unapproved(roomsByCode[c])' /\ rooms'[roomsByCode'[c]].code = c
    BY <1>1, <1>2, <1>3 DEF IInv, RegistryConsistent, Unapproved, TypeOK
  <2>4. roomsBySessionId' = {r \in Room : Active(r)'} /\ sessionStartTimes' = roomsBySessionId'
    BY <1>1, <1>2, <1>3 DEF IInv, RegistryConsistent, Active
  <2> QED
    BY <2>1, <2>2, <2>3, <2>4 DEF RegistryConsistent
<1>8. SocketShape'
  <2>1. \A r \in Room : Members(r)' = Members(r) /\ (rooms'[r].state # None => rooms[r].state # None)
    BY <1>1, <1>2 DEF Members
  <2>2. Known(s) /\ Known(g)
    BY <1>1 DEF IInv, SocketShape, Members, Known
  <2>3. \A x \in Socket : client'[x].session # None => client'[x].role \in {"host", "guest"}
    BY <1>6, <2>2 DEF IInv, SocketShape, Known
  <2> QED
    BY <1>3, <1>6, <2>1, <2>3, MembersAreKnown DEF IInv, SocketShape
<1>9. RoomShape'
  BY <1>1, <1>2 DEF IInv, RoomShape, Unapproved, Active
<1>10. OneRoomEach'
  BY <1>1, <1>2 DEF IInv, OneRoomEach, Members
<1>11. TimerShape'
  BY <1>3 DEF IInv, TimerShape
<1>12. RequestShape'
  BY <1>2, <1>3, <1>5 DEF IInv, RequestShape
<1>13. MembersReady'
  <2> SUFFICES ASSUME NEW r \in Room, Active(r)', NEW x \in Members(r)', readyState'[x] = "open"
               PROVE  "SESSION_READY" \in inbox'[x] \/ "RECONNECT_OK" \in inbox'[x]
    BY DEF MembersReady
  <2>1. CASE r = s
    BY <1>1, <1>2, <1>3, <1>5, <2>1 DEF Members
  <2>2. CASE r # s
    <3>1. x \in Members(r) /\ Active(r) /\ x \in Socket
      BY <1>2, <2>2 DEF Members, Active, IInv, TypeOK, RelayRoom
    <3> QED
      BY <1>3, <1>4, <3>1 DEF IInv, MembersReady
  <2> QED
    BY <2>1, <2>2
<1>14. SeatDevices'
  <2> SUFFICES ASSUME NEW r \in Room
               PROVE  /\ (Unapproved(r) \/ Active(r))' => client'[rooms'[r].host].device \in HostDevice
                      /\ (rooms[r].state = "pending" \/ Active(r))' =>
                             client'[rooms'[r].guest].device \in GuestDevice
    BY DEF SeatDevices
  <2>1. rooms'[r].host = rooms[r].host /\ rooms'[r].guest = rooms[r].guest
    BY <1>1, <1>2
  <2>2. /\ rooms[r].state # None => rooms[r].host \in Socket
        /\ rooms[r].state = "pending" \/ Active(r) => rooms[r].guest \in Socket
    BY DEF IInv, RoomShape, TypeOK, RelayRoom
  <2>3. /\ (Unapproved(r) \/ Active(r))' => Unapproved(r) \/ Active(r)
        /\ (rooms[r].state = "pending" \/ Active(r))' => rooms[r].state = "pending" \/ Active(r)
    BY <1>1, <1>2 DEF Unapproved, Active
  <2> QED
    BY <1>6, <2>1, <2>2, <2>3 DEF IInv, SeatDevices, Unapproved, Active
<1>15. AbandonedIsTimed'
  <2>1. s \in Members(s)' /\ readyState'[s] # "closed"
    BY <1>1, <1>2, <1>3 DEF ApproveAccess, Answering, Receiving, Members
  <2>2. \A r \in Room : r # s => (Active(r)' <=> Active(r)) /\ Members(r)' = Members(r)
    BY <1>2 DEF Active, Members
  <2> QED
    BY <1>3, <2>1, <2>2 DEF IInv, AbandonedIsTimed
<1>16. NoTrafficBeforeReady'
  BY <1>4 DEF IInv, NoTrafficBeforeReady
<1>17. EndIsTold'
  <2>1. \A r \in Room : rooms'[r].state = "ended" => rooms'[r] = rooms[r]
    BY <1>2
  <2>2. \A r \in Room : rooms[r].state = "ended" => rooms[r].host \in Socket
    BY DEF IInv, RoomShape, TypeOK, RelayRoom
  <2> QED
    BY <1>3, <1>4, <2>1, <2>2 DEF IInv, EndIsTold
<1> QED
  BY <1>7, <1>8, <1>9, <1>10, <1>11, <1>12, <1>13, <1>14, <1>15, <1>16, <1>17 DEF IInv

(* rejectAccess ends the answering host's own room and closes the guest. *)
LEMMA RejectAccessStep ==
    ASSUME IInv, TypeOK', NEW s \in Socket, RejectAccess(s) PROVE IInv'
<1> USE NoneAssumption DEF Room
<1> DEFINE g == rooms[s].guest
<1>1. /\ roomsBySocket[s] = s /\ s \in Room /\ rooms[s].host = s
      /\ rooms[s].state \in {"pending", "ended"}
      /\ g \in Socket /\ g # s /\ rooms[s].code \in Code
  BY AnswerIsOwn DEF RejectAccess
<1>2. /\ \A q \in Room : q # s => rooms'[q] = rooms[q]
      /\ rooms'[s].state = "ended" /\ rooms'[s].sessionId = rooms[s].sessionId
      /\ rooms'[s].host = s /\ rooms'[s].guest = g /\ rooms'[s].code = rooms[s].code
  BY <1>1 DEF RejectAccess, IInv, TypeOK, RelayRoom
<1>3. /\ roomsByCode'[rooms[s].code] = None
      /\ \A c \in Code : c # rooms[s].code => roomsByCode'[c] = roomsByCode[c]
      /\ UNCHANGED <<client, roomsBySocket, roomsBySessionId, elapsed, sessionStartTimes,
                     timers, graceTimers>>
  BY <1>1 DEF RejectAccess, IInv, TypeOK, timerVars
<1>4. /\ \A x \in Socket : inbox[x] \ {"ACCESS_REQUEST"} \subseteq inbox'[x]
      /\ \A x \in Socket : "DATA" \in inbox'[x] => "DATA" \in inbox[x]
  <2>1. Deliver({<<g, "ACCESS_REJECTED">>}, {<<s, "ACCESS_REQUEST">>})
    BY <1>1 DEF RejectAccess
  <2> QED
    BY <2>1, DeliverCalm
<1>5. \A x \in Socket : "ACCESS_REQUEST" \in inbox'[x] => x # s /\ "ACCESS_REQUEST" \in inbox[x]
  BY <1>1 DEF RejectAccess, Deliver, Message
<1>6. /\ readyState'[g] # "open"
      /\ \A x \in Socket : readyState'[x] = readyState[x]
                           \/ (readyState[x] = "open" /\ readyState'[x] = "closing")
  <2>1. readyState' = [x \in Socket |->
                        IF x = g /\ readyState[x] = "open" THEN "closing" ELSE readyState[x]]
    BY <1>1 DEF RejectAccess, Close
  <2> QED
    BY <1>1, <2>1
<1>7. RegistryConsistent'
  <2>1. \A x \in Socket : roomsBySocket'[x] # None => x \in Members(roomsBySocket[x])'
    BY <1>1, <1>2, <1>3 DEF IInv, RegistryConsistent, Members, TypeOK
  <2>2. \A r \in Room : (Unapproved(r) \/ Active(r))' => \A x \in Members(r)' : roomsBySocket'[x] = r
    BY <1>1, <1>2, <1>3 DEF IInv, RegistryConsistent, Members, Unapproved, Active
  <2>3. \A c \in Code : roomsByCode'[c] # None =>
            Unapproved(roomsByCode[c])' /\ rooms'[roomsByCode'[c]].code = c
    BY <1>1, <1>2, <1>3 DEF IInv, RegistryConsistent, Unapproved, TypeOK
  <2>4. roomsBySessionId' = {r \in Room : Active(r)'} /\ sessionStartTimes' = roomsBySessionId'
    BY <1>1, <1>2, <1>3 DEF IInv, RegistryConsistent, Active
  <2> QED
    BY <2>1, <2>2, <2>3, <2>4 DEF RegistryConsistent
<1>8. SocketShape'
  <2>1. \A r \in Room : Members(r)' = Members(r) /\ (rooms'[r].state # None => rooms[r].state # None)
    BY <1>1, <1>2 DEF Members
  <2> QED
    BY <1>3, <1>6, <2>1 DEF IInv, SocketShape
<1>9. RoomShape' /\ OneRoomEach'
  BY <1>1, <1>2 DEF IInv, RoomShape, OneRoomEach, Members, Unapproved, Active
<1>10. TimerShape'
  BY <1>3, <1>6 DEF IInv, TimerShape
<1>11. RequestShape'
  BY <1>2, <1>3, <1>5 DEF IInv, RequestShape
<1>12. \A r \in Room : Active(r)' => r # s /\ Active(r) /\ Members(r)' = Members(r)
  BY <1>2 DEF Active, Members
<1>13. MembersReady'
  BY <1>4, <1>6, <1>12, MembersAreKnown DEF IInv, MembersReady
<1>14. SeatDevices'
  BY <1>1, <1>2, <1>3 DEF IInv, SeatDevices, Unapproved, Active
<1>15. AbandonedIsTimed'
  BY <1>3, <1>6, <1>12, MembersAreKnown DEF IInv, AbandonedIsTimed
<1>16. NoTrafficBeforeReady'
  BY <1>4 DEF IInv, NoTrafficBeforeReady
<1>17. EndIsTold'
  <2> SUFFICES ASSUME NEW r \in Room, rooms'[r].state = "ended", r \notin elapsed'
               PROVE  /\ rooms'[r].guest # None => readyState'[rooms'[r].guest] # "open"
                      /\ rooms'[r].guest = None /\ readyState'[rooms'[r].host] = "open" =>
                             "SESSION_TERMINATE" \in inbox'[rooms'[r].host]
    BY DEF EndIsTold
  <2>1. CASE r = s
    BY <1>1, <1>2, <1>6, <2>1
  <2>2. CASE r # s
    <3>1. rooms'[r] = rooms[r] /\ r \notin elapsed
      BY <1>2, <1>3, <2>2
    <3>2. rooms[r].host \in Socket /\ rooms[r].guest \in Socket \cup {None}
      BY <3>1 DEF IInv, RoomShape, TypeOK, RelayRoom
    <3> QED
      BY <1>4, <1>6, <3>1, <3>2 DEF IInv, EndIsTold
  <2> QED
    BY <2>1, <2>2
<1> QED
  BY <1>7, <1>8, <1>9, <1>10, <1>11, <1>13, <1>14, <1>15, <1>16, <1>17 DEF IInv

(***************************************************************************)
(* Expiry, alone or as the first thing a registration does.                *)
(***************************************************************************)

(* expireRooms ends unapproved rooms whose TTL has elapsed, and removes    *)
(* exactly their entries from the maps.                                    *)
LEMMA ExpiryFacts ==
    ASSUME IInv
    PROVE  /\ \A r \in ExpiredRooms : r \in Room /\ Unapproved(r) /\ r \in elapsed
           /\ \A r \in Room \ ExpiredRooms : RoomsAfterExpiry[r] = rooms[r]
           /\ \A r \in ExpiredRooms : RoomsAfterExpiry[r].state = "ended"
           /\ \A r \in Room : /\ RoomsAfterExpiry[r].host = rooms[r].host
                              /\ RoomsAfterExpiry[r].guest = rooms[r].guest
                              /\ RoomsAfterExpiry[r].code = rooms[r].code
                              /\ RoomsAfterExpiry[r].sessionId = rooms[r].sessionId
           /\ \A s \in Socket : BySocketAfterExpiry[s] # None =>
                  /\ BySocketAfterExpiry[s] = roomsBySocket[s]
                  /\ roomsBySocket[s] \notin ExpiredRooms
           /\ \A r \in Room \ ExpiredRooms : Unapproved(r) \/ Active(r) =>
                  \A s \in Members(r) : BySocketAfterExpiry[s] = r
           /\ \A x \in Code : ByCodeAfterExpiry[x] # None =>
                  /\ ByCodeAfterExpiry[x] = roomsByCode[x]
                  /\ roomsByCode[x] \notin ExpiredRooms
           /\ BySessionIdAfterExpiry = roomsBySessionId
<1> USE NoneAssumption DEF Room
<1>1. \A r \in ExpiredRooms : r \in Room /\ Unapproved(r) /\ r \in elapsed
  BY DEF IInv, RegistryConsistent, ExpiredRooms
<1>2. \A r \in Room \ ExpiredRooms : RoomsAfterExpiry[r] = rooms[r]
  BY DEF RoomsAfterExpiry
<1>3. ASSUME NEW r \in ExpiredRooms
      PROVE  /\ RoomsAfterExpiry[r].state = "ended"
             /\ RoomsAfterExpiry[r].host = rooms[r].host
             /\ RoomsAfterExpiry[r].guest = rooms[r].guest
             /\ RoomsAfterExpiry[r].code = rooms[r].code
             /\ RoomsAfterExpiry[r].sessionId = rooms[r].sessionId
  <2>1. rooms[r] \in RelayRoom /\ RoomsAfterExpiry[r] = [rooms[r] EXCEPT !.state = "ended"]
    BY <1>1 DEF IInv, TypeOK, RoomsAfterExpiry
  <2> QED
    BY <2>1 DEF RelayRoom
<1>4. \A s \in Socket : BySocketAfterExpiry[s] # None =>
          /\ BySocketAfterExpiry[s] = roomsBySocket[s]
          /\ roomsBySocket[s] \notin ExpiredRooms
  BY <1>1 DEF IInv, RegistryConsistent, BySocketAfterExpiry
<1>5. \A r \in Room \ ExpiredRooms : Unapproved(r) \/ Active(r) =>
          \A s \in Members(r) : BySocketAfterExpiry[s] = r
  BY <1>1 DEF IInv, TypeOK, RelayRoom, Members, RegistryConsistent, BySocketAfterExpiry
<1>6. \A x \in Code : ByCodeAfterExpiry[x] # None =>
          /\ ByCodeAfterExpiry[x] = roomsByCode[x]
          /\ roomsByCode[x] \notin ExpiredRooms
  BY DEF ByCodeAfterExpiry
<1>7. BySessionIdAfterExpiry = roomsBySessionId
  BY <1>1 DEF IInv, TypeOK, RoomShape, BySessionIdAfterExpiry
<1> QED
  BY <1>1, <1>2, <1>3, <1>4, <1>5, <1>6, <1>7

(* A calm step that only expires rooms, closing sockets but losing none,   *)
(* keeps the invariant.                                                    *)
LEMMA ExpiryStep ==
    ASSUME IInv, TypeOK', Calm, OnlyExpiry,
           UNCHANGED <<elapsed, sessionStartTimes, timerVars>>,
           \A s \in Socket : "ACCESS_REQUEST" \in inbox'[s] => "ACCESS_REQUEST" \in inbox[s],
           \A s \in Socket : readyState'[s] = "closed" => readyState[s] = "closed"
    PROVE  IInv'
<1> USE NoneAssumption DEF Room, timerVars
<1>1. /\ \A r \in ExpiredRooms : r \in Room /\ Unapproved(r) /\ r \in elapsed
      /\ \A r \in Room \ ExpiredRooms : rooms'[r] = rooms[r]
      /\ \A r \in ExpiredRooms : rooms'[r].state = "ended"
      /\ \A r \in Room : /\ rooms'[r].host = rooms[r].host /\ rooms'[r].guest = rooms[r].guest
                         /\ rooms'[r].code = rooms[r].code
                         /\ rooms'[r].sessionId = rooms[r].sessionId
                         /\ Members(r)' = Members(r)
  BY ExpiryFacts DEF OnlyExpiry, Members
<1>2. /\ \A s \in Socket : roomsBySocket'[s] # None =>
             roomsBySocket'[s] = roomsBySocket[s] /\ roomsBySocket[s] \notin ExpiredRooms
      /\ \A r \in Room \ ExpiredRooms : Unapproved(r) \/ Active(r) =>
             \A s \in Members(r) : roomsBySocket'[s] = r
      /\ \A x \in Code : roomsByCode'[x] # None =>
             roomsByCode'[x] = roomsByCode[x] /\ roomsByCode[x] \notin ExpiredRooms
      /\ roomsBySessionId' = roomsBySessionId
  BY ExpiryFacts DEF OnlyExpiry
<1>3. \A r \in Room : /\ Active(r)' <=> Active(r)
                      /\ Unapproved(r)' => Unapproved(r) /\ r \notin ExpiredRooms
                      /\ Unapproved(r) /\ r \notin ExpiredRooms => Unapproved(r)'
                      /\ Active(r) => r \notin ExpiredRooms
  BY <1>1 DEF Active, Unapproved
<1>4. RegistryConsistent'
  <2>1. \A s \in Socket : roomsBySocket'[s] # None => s \in Members(roomsBySocket[s])'
    <3> SUFFICES ASSUME NEW s \in Socket, roomsBySocket'[s] # None
                 PROVE  s \in Members(roomsBySocket[s])'
      OBVIOUS
    <3>1. roomsBySocket'[s] = roomsBySocket[s] /\ roomsBySocket[s] \in Room
      BY <1>2 DEF IInv, TypeOK
    <3>2. s \in Members(roomsBySocket[s])
      BY <3>1 DEF IInv, RegistryConsistent
    <3> QED
      BY <1>1, <3>1, <3>2 DEF Members
  <2>2. \A r \in Room : (Unapproved(r) \/ Active(r))' => \A s \in Members(r)' : roomsBySocket'[s] = r
    BY <1>1, <1>2, <1>3
  <2>3. \A c \in Code : roomsByCode'[c] # None =>
            Unapproved(roomsByCode[c])' /\ rooms'[roomsByCode'[c]].code = c
    BY <1>1, <1>2 DEF IInv, TypeOK, RegistryConsistent, Unapproved
  <2>4. roomsBySessionId' = {r \in Room : Active(r)'} /\ sessionStartTimes' = roomsBySessionId'
    BY <1>2, <1>3 DEF IInv, RegistryConsistent
  <2> QED
    BY <2>1, <2>2, <2>3, <2>4 DEF RegistryConsistent
<1>5. SocketShape'
  <2>1. \A r \in Room : rooms'[r].state # None => rooms[r].state # None
    BY <1>1 DEF Unapproved
  <2> QED
    BY <1>1, <2>1, MembersAreKnown DEF IInv, SocketShape, Calm, Known
<1>6. RoomShape'
  BY <1>1 DEF IInv, RoomShape, Unapproved, Active, NoRoom
<1>7. OneRoomEach'
  BY <1>1 DEF IInv, OneRoomEach
<1>8. TimerShape'
  BY <1>2 DEF IInv, TimerShape, Calm
<1>9. RequestShape'
  BY <1>1, <1>2 DEF IInv, RequestShape, TypeOK
<1>10. MembersReady'
  BY <1>1, <1>3, MembersAreKnown DEF IInv, MembersReady, Calm
<1>11. SeatDevices'
  <2> SUFFICES ASSUME NEW r \in Room, r \notin ExpiredRooms
               PROVE  /\ Unapproved(r) \/ Active(r) => client'[rooms[r].host].device \in HostDevice
                      /\ rooms[r].state = "pending" \/ Active(r) =>
                             client'[rooms[r].guest].device \in GuestDevice
    BY <1>1 DEF SeatDevices, Unapproved, Active
  <2>1. /\ rooms[r].state # None => rooms[r].host \in Members(r)
        /\ rooms[r].guest # None => rooms[r].guest \in Members(r)
    BY DEF IInv, RoomShape, Members
  <2> QED
    BY <2>1, MembersAreKnown DEF IInv, SeatDevices, RoomShape, Calm, Unapproved, Active
<1>12. AbandonedIsTimed'
  BY <1>1, <1>3, MembersAreKnown DEF IInv, AbandonedIsTimed
<1>13. NoTrafficBeforeReady'
  BY DEF IInv, NoTrafficBeforeReady, Calm
<1>14. EndIsTold'
  <2> SUFFICES ASSUME NEW r \in Room, r \notin ExpiredRooms, rooms[r].state = "ended",
                      r \notin elapsed
               PROVE  /\ rooms[r].guest # None => readyState'[rooms[r].guest] # "open"
                      /\ rooms[r].guest = None /\ readyState'[rooms[r].host] = "open" =>
                             "SESSION_TERMINATE" \in inbox'[rooms[r].host]
    BY <1>1 DEF EndIsTold
  <2>1. /\ rooms[r].host \in Members(r)
        /\ rooms[r].guest # None => rooms[r].guest \in Members(r)
    BY DEF IInv, RoomShape, Members
  <2> QED
    BY <2>1, MembersAreKnown DEF IInv, EndIsTold, Calm
<1> QED
  BY <1>4, <1>5, <1>6, <1>7, <1>8, <1>9, <1>10, <1>11, <1>12, <1>13, <1>14 DEF IInv

(* The interval timer's expireRooms keeps the invariant. *)
LEMMA ExpirySweepStep ==
    ASSUME IInv, TypeOK', ExpirySweep PROVE IInv'
<1>1. /\ \A x \in Socket : inbox[x] \ {"ACCESS_REQUEST"} \subseteq inbox'[x]
      /\ \A x \in Socket : "DATA" \in inbox'[x] => "DATA" \in inbox[x]
      /\ \A x \in Socket : "ACCESS_REQUEST" \in inbox'[x] => "ACCESS_REQUEST" \in inbox[x]
  BY DEF ExpirySweep, Send, Deliver, IInv, TypeOK
<1>2. \A x \in Socket : readyState'[x] = readyState[x]
                        \/ (readyState[x] = "open" /\ readyState'[x] = "closing")
  BY DEF ExpirySweep, Close
<1>3. Calm
  BY <1>1, <1>2 DEF Calm, ExpirySweep, IInv, SocketShape
<1> QED
  BY <1>1, <1>2, <1>3, ExpiryStep DEF ExpirySweep

(* The socket of an opening message is in no room, and no room bears its   *)
(* name.                                                                   *)
LEMMA FreshSocket ==
    ASSUME IInv, NEW s \in Socket, Opening(s)
    PROVE  /\ readyState[s] = "open" /\ ~Known(s) /\ rooms[s] = NoRoom /\ s \in Room
           /\ roomsBySocket[s] = None /\ timers[s] = None
           /\ "ACCESS_REQUEST" \notin inbox[s]
           /\ \A r \in Room : s \notin Members(r)
           /\ \A x \in Socket : roomsBySocket[x] # s
           /\ \A x \in Code : roomsByCode[x] # s
           /\ s \notin ExpiredRooms /\ s \notin roomsBySessionId
<1> USE NoneAssumption DEF Room
<1>1. readyState[s] = "open" /\ ~Known(s)
  BY DEF Opening, Known
<1>2. rooms[s] = NoRoom /\ \A r \in Room : s \notin Members(r)
  BY <1>1 DEF IInv, SocketShape, RoomShape, Known
<1>3. roomsBySocket[s] = None
  BY <1>2 DEF IInv, RegistryConsistent, TypeOK
<1>4. timers[s] = None /\ "ACCESS_REQUEST" \notin inbox[s]
  BY <1>1, <1>2 DEF IInv, TimerShape, RequestShape, NoRoom
<1>5. \A x \in Socket : roomsBySocket[x] # s
  BY <1>2 DEF IInv, RegistryConsistent, Members, NoRoom
<1>6. \A x \in Code : roomsByCode[x] # s
  BY <1>2 DEF IInv, RegistryConsistent, Unapproved, NoRoom
<1>7. s \notin ExpiredRooms /\ s \notin roomsBySessionId
  BY <1>2, <1>6 DEF IInv, RegistryConsistent, ExpiredRooms, Active, NoRoom
<1> QED
  BY <1>1, <1>2, <1>3, <1>4, <1>5, <1>6, <1>7

(* registerHost creates a room for a socket that had none. *)
LEMMA RegisterHostStep ==
    ASSUME IInv, TypeOK', NEW s \in Socket, NEW c \in Code, NEW d \in HostDevice,
           RegisterHost(s, c, d)
    PROVE  IInv'
<1> USE NoneAssumption DEF Room
<1>1. CASE OnlyExpiry /\ Refuse(s)
  <2>1. /\ Calm
        /\ \A x \in Socket : "ACCESS_REQUEST" \in inbox'[x] => "ACCESS_REQUEST" \in inbox[x]
        /\ \A x \in Socket : readyState'[x] = "closed" => readyState[x] = "closed"
    BY <1>1, RefuseCalm DEF RegisterHost
  <2> QED
    BY <1>1, <2>1, ExpiryStep DEF RegisterHost
<1>2. CASE /\ ManagerRegisterHost(s, c)
           /\ Send({<<s, "HOST_REGISTERED">>})
           /\ UNCHANGED readyState
  <2> DEFINE E == ExpiredRooms
  <2>1. /\ s \notin E /\ \A r \in Room : s \notin Members(r)
        /\ \A x \in Socket : roomsBySocket[x] # s
        /\ \A x \in Code : roomsByCode[x] # s
        /\ ~Known(s) /\ readyState[s] = "open" /\ timers[s] = None
        /\ roomsBySocket[s] = None /\ s \notin roomsBySessionId /\ rooms[s].state = None
    BY FreshSocket DEF RegisterHost, NoRoom
  <2>2. /\ \A r \in E : r \in Room /\ Unapproved(r) /\ r \in elapsed
        /\ \A r \in Room \ E : r # s => rooms'[r] = rooms[r]
        /\ \A r \in E : rooms'[r].state = "ended"
        /\ \A r \in Room \ {s} : /\ rooms'[r].host = rooms[r].host
                                 /\ rooms'[r].guest = rooms[r].guest
                                 /\ rooms'[r].code = rooms[r].code
                                 /\ rooms'[r].sessionId = rooms[r].sessionId
                                 /\ Members(r)' = Members(r)
    <3>1. \A r \in Room \ {s} : rooms'[r] = RoomsAfterExpiry[r]
      BY <1>2, ExpiryType DEF ManagerRegisterHost, IInv
    <3> QED
      BY <2>1, <3>1, ExpiryFacts DEF Members
  <2>3. /\ rooms'[s].state = "waiting" /\ rooms'[s].host = s /\ rooms'[s].guest = None
        /\ rooms'[s].code = c /\ rooms'[s].sessionId = None /\ Members(s)' = {s}
    BY <1>2, ExpiryType DEF ManagerRegisterHost, Members, IInv
  <2>4. /\ roomsBySocket'[s] = s
        /\ \A x \in Socket : x # s /\ roomsBySocket'[x] # None =>
               roomsBySocket'[x] = roomsBySocket[x] /\ roomsBySocket[x] \notin E
        /\ \A r \in Room \ E : Unapproved(r) \/ Active(r) =>
               \A x \in Members(r) : roomsBySocket'[x] = r
        /\ roomsByCode'[c] = s
        /\ \A x \in Code : x # c /\ roomsByCode'[x] # None =>
               roomsByCode'[x] = roomsByCode[x] /\ roomsByCode[x] \notin E
        /\ roomsBySessionId' = roomsBySessionId
    <3>1. /\ roomsBySocket'[s] = s
          /\ \A x \in Socket : x # s => roomsBySocket'[x] = BySocketAfterExpiry[x]
          /\ roomsByCode'[c] = s
          /\ \A x \in Code : x # c => roomsByCode'[x] = ByCodeAfterExpiry[x]
          /\ roomsBySessionId' = BySessionIdAfterExpiry
      BY <1>2, ExpiryType DEF ManagerRegisterHost, IInv
    <3>2. \A r \in Room : s \notin Members(r)
      BY <2>1
    <3> QED
      BY <3>1, <3>2, ExpiryFacts, MembersAreKnown
  <2>5. /\ UNCHANGED <<readyState, elapsed, sessionStartTimes, timers, graceTimers>>
        /\ \A x \in Socket : x # s => client'[x] = client[x]
        /\ client'[s].role = "host" /\ client'[s].device = d
    BY <1>2 DEF RegisterHost, Identify, IInv, TypeOK, timerVars
  <2>6. /\ \A x \in Socket : inbox[x] \subseteq inbox'[x]
        /\ \A x \in Socket : "DATA" \in inbox'[x] => "DATA" \in inbox[x]
        /\ \A x \in Socket : "ACCESS_REQUEST" \in inbox'[x] => "ACCESS_REQUEST" \in inbox[x]
    BY <1>2 DEF Send, Deliver, IInv, TypeOK
  <2>7. \A r \in Room : /\ Active(r)' <=> Active(r)
                        /\ Active(r) => r \notin E /\ r # s
                        /\ Unapproved(r)' => r = s \/ (Unapproved(r) /\ r \notin E)
    BY <2>1, <2>2, <2>3 DEF Active, Unapproved
  <2>8. RegistryConsistent'
    <3>1. \A x \in Socket : roomsBySocket'[x] # None => x \in Members(roomsBySocket[x])'
      <4> SUFFICES ASSUME NEW x \in Socket, x # s, roomsBySocket'[x] # None
                   PROVE  x \in Members(roomsBySocket[x])'
        BY <2>3, <2>4 DEF Members
      <4>1. /\ roomsBySocket'[x] = roomsBySocket[x] /\ roomsBySocket[x] \in Room
            /\ roomsBySocket[x] # s
        BY <2>1, <2>4 DEF IInv, TypeOK
      <4>2. x \in Members(roomsBySocket[x])
        BY <4>1 DEF IInv, RegistryConsistent
      <4> QED
        BY <2>2, <4>1, <4>2 DEF Members
    <3>2. \A r \in Room : (Unapproved(r) \/ Active(r))' =>
              \A x \in Members(r)' : roomsBySocket'[x] = r
      BY <2>2, <2>3, <2>4, <2>7
    <3>3. \A x \in Code : roomsByCode'[x] # None =>
              Unapproved(roomsByCode[x])' /\ rooms'[roomsByCode'[x]].code = x
      <4>1. Unapproved(roomsByCode[c])' /\ rooms'[roomsByCode'[c]].code = c
        BY <2>3, <2>4 DEF Unapproved
      <4> QED
        BY <2>1, <2>2, <2>4, <4>1 DEF IInv, TypeOK, RegistryConsistent, Unapproved
    <3>4. roomsBySessionId' = {r \in Room : Active(r)'} /\ sessionStartTimes' = roomsBySessionId'
      BY <2>4, <2>5, <2>7 DEF IInv, RegistryConsistent
    <3> QED
      BY <3>1, <3>2, <3>3, <3>4 DEF RegistryConsistent
  <2>9. SocketShape'
    <3>1. \A x \in Socket : client'[x].session # None => client'[x].role \in {"host", "guest"}
      BY <2>5 DEF IInv, SocketShape
    <3>2. \A r \in Room \ {s} : rooms'[r].state # None => rooms[r].state # None
      BY <2>2 DEF Unapproved
    <3>3. \A r \in Room : \A x \in Members(r)' : client'[x].role \in {"host", "guest"}
      BY <2>1, <2>2, <2>3, <2>5, MembersAreKnown DEF Known
    <3> QED
      BY <2>1, <2>5, <3>1, <3>2, <3>3 DEF IInv, SocketShape
  <2>10. RoomShape'
    <3>1. \A r \in Room \ {s} : rooms[r].state = None => rooms'[r] = rooms[r]
      BY <2>2 DEF Unapproved
    <3> QED
      BY <2>2, <2>3, <3>1 DEF IInv, RoomShape, Unapproved, Active, NoRoom
  <2>11. OneRoomEach'
    BY <2>1, <2>2, <2>3 DEF IInv, OneRoomEach
  <2>12. TimerShape'
    BY <2>1, <2>4, <2>5 DEF IInv, TimerShape
  <2>13. RequestShape'
    BY <2>1, <2>2, <2>4, <2>6 DEF IInv, RequestShape, TypeOK
  <2>14. MembersReady'
    BY <2>2, <2>5, <2>6, <2>7, MembersAreKnown DEF IInv, MembersReady
  <2>15. SeatDevices'
    <3> SUFFICES ASSUME NEW r \in Room, r \notin E, r # s
                 PROVE  /\ Unapproved(r) \/ Active(r) => client'[rooms[r].host].device \in HostDevice
                        /\ rooms[r].state = "pending" \/ Active(r) =>
                               client'[rooms[r].guest].device \in GuestDevice
      BY <2>2, <2>3, <2>5 DEF SeatDevices, Unapproved, Active
    <3>1. /\ rooms[r].state # None => rooms[r].host \in Members(r)
          /\ rooms[r].guest # None => rooms[r].guest \in Members(r)
      BY DEF IInv, RoomShape, Members
    <3> QED
      BY <2>1, <2>5, <3>1, MembersAreKnown DEF IInv, SeatDevices, RoomShape, Unapproved, Active
  <2>16. AbandonedIsTimed'
    BY <2>2, <2>5, <2>7, MembersAreKnown DEF IInv, AbandonedIsTimed
  <2>17. NoTrafficBeforeReady'
    BY <2>6 DEF IInv, NoTrafficBeforeReady
  <2>18. EndIsTold'
    <3>1. \A r \in Room : rooms'[r].state = "ended" /\ r \notin elapsed =>
              r \notin E /\ r # s /\ rooms'[r] = rooms[r]
      BY <2>2, <2>3
    <3>2. \A r \in Room : rooms[r].state = "ended" => rooms[r].host \in Socket
      BY DEF IInv, RoomShape, TypeOK, RelayRoom
    <3> QED
      BY <2>5, <2>6, <3>1, <3>2 DEF IInv, EndIsTold
  <2> QED
    BY <2>8, <2>9, <2>10, <2>11, <2>12, <2>13, <2>14, <2>15, <2>16, <2>17, <2>18 DEF IInv
<1> QED
  BY <1>1, <1>2 DEF RegisterHost

(* registerGuest joins a socket that had no room to a waiting one. *)
LEMMA RegisterGuestStep ==
    ASSUME IInv, TypeOK', NEW s \in Socket, NEW c \in Code, NEW d \in GuestDevice,
           RegisterGuest(s, c, d)
    PROVE  IInv'
<1> USE NoneAssumption DEF Room
<1>1. CASE OnlyExpiry /\ Refuse(s)
  <2>1. /\ Calm
        /\ \A x \in Socket : "ACCESS_REQUEST" \in inbox'[x] => "ACCESS_REQUEST" \in inbox[x]
        /\ \A x \in Socket : readyState'[x] = "closed" => readyState[x] = "closed"
    BY <1>1, RefuseCalm DEF RegisterGuest
  <2> QED
    BY <1>1, <2>1, ExpiryStep DEF RegisterGuest
<1>2. CASE /\ ManagerRegisterGuest(s, c)
           /\ Send({<<rooms[ByCodeAfterExpiry[c]].host, "ACCESS_REQUEST">>})
           /\ UNCHANGED readyState
  <2> DEFINE E == ExpiredRooms
  <2> PICK h \in Room : h = ByCodeAfterExpiry[c]
    BY <1>2, ExpiryType DEF ManagerRegisterGuest, IInv
  <2>1. /\ s \notin E /\ \A r \in Room : s \notin Members(r)
        /\ ~Known(s) /\ readyState[s] = "open" /\ timers[s] = None
        /\ roomsBySocket[s] = None /\ rooms[s].state = None
        /\ "ACCESS_REQUEST" \notin inbox[s]
    BY FreshSocket DEF RegisterGuest, NoRoom
  <2>2. /\ h \in Room \ E /\ h # s /\ rooms[h].state = "waiting" /\ rooms[h].code = c
        /\ rooms[h].host = h /\ rooms[h].guest = None /\ rooms[h].sessionId = None
        /\ roomsByCode[c] = h /\ Members(h) = {h} /\ roomsBySocket[h] = h
    <3>1. h # None /\ RoomsAfterExpiry[h].state = "waiting"
      BY <1>2 DEF ManagerRegisterGuest
    <3>2. h = roomsByCode[c] /\ h \in Room \ E
      BY <3>1, ExpiryFacts DEF IInv, TypeOK
    <3>3. rooms[h].state = "waiting" /\ rooms[h].code = c
      BY <3>1, <3>2, ExpiryFacts DEF IInv, RegistryConsistent
    <3>4. /\ rooms[h].host = h /\ rooms[h].guest = None /\ rooms[h].sessionId = None
          /\ Members(h) = {h}
      BY <3>2, <3>3 DEF IInv, RoomShape, Unapproved, Members
    <3>5. roomsBySocket[h] = h
      BY <3>2, <3>3, <3>4 DEF IInv, RegistryConsistent, Unapproved
    <3> QED
      BY <2>1, <3>2, <3>3, <3>4, <3>5
  <2>3. /\ \A r \in E : r \in Room /\ Unapproved(r) /\ r \in elapsed
        /\ \A r \in Room \ E : r # h => rooms'[r] = rooms[r]
        /\ \A r \in E : rooms'[r].state = "ended"
        /\ \A r \in Room \ {h} : /\ rooms'[r].host = rooms[r].host
                                 /\ rooms'[r].guest = rooms[r].guest
                                 /\ Members(r)' = Members(r)
        /\ \A r \in Room : /\ rooms'[r].code = rooms[r].code
                           /\ rooms'[r].sessionId = rooms[r].sessionId
    <3>1. /\ \A r \in Room \ {h} : rooms'[r] = RoomsAfterExpiry[r]
          /\ rooms'[h].code = RoomsAfterExpiry[h].code
          /\ rooms'[h].sessionId = RoomsAfterExpiry[h].sessionId
      BY <1>2, <2>2, ExpiryType DEF ManagerRegisterGuest, IInv, RelayRoom
    <3> QED
      BY <2>2, <3>1, ExpiryFacts DEF Members
  <2>4. /\ rooms'[h].state = "pending" /\ rooms'[h].host = h /\ rooms'[h].guest = s
        /\ Members(h)' = {h, s}
    <3>1. /\ rooms'[h].state = "pending" /\ rooms'[h].host = RoomsAfterExpiry[h].host
          /\ rooms'[h].guest = s
      BY <1>2, <2>2, ExpiryType DEF ManagerRegisterGuest, IInv, RelayRoom
    <3> QED
      BY <2>2, <3>1, ExpiryFacts DEF Members
  <2>5. /\ roomsBySocket'[s] = h
        /\ \A x \in Socket : x # s /\ roomsBySocket'[x] # None =>
               roomsBySocket'[x] = roomsBySocket[x] /\ roomsBySocket[x] \notin E
        /\ \A r \in Room \ E : Unapproved(r) \/ Active(r) =>
               \A x \in Members(r) : roomsBySocket'[x] = r
        /\ \A x \in Code : roomsByCode'[x] # None =>
               roomsByCode'[x] = roomsByCode[x] /\ roomsByCode[x] \notin E
        /\ roomsBySessionId' = roomsBySessionId
    <3>1. /\ roomsBySocket'[s] = h
          /\ \A x \in Socket : x # s => roomsBySocket'[x] = BySocketAfterExpiry[x]
          /\ roomsByCode' = ByCodeAfterExpiry
          /\ roomsBySessionId' = BySessionIdAfterExpiry
      BY <1>2, ExpiryType DEF ManagerRegisterGuest, IInv
    <3>2. \A r \in Room : s \notin Members(r)
      BY <2>1
    <3> QED
      BY <3>1, <3>2, ExpiryFacts, MembersAreKnown
  <2>6. /\ UNCHANGED <<readyState, elapsed, sessionStartTimes, timers, graceTimers>>
        /\ \A x \in Socket : x # s => client'[x] = client[x]
        /\ client'[s].role = "guest" /\ client'[s].device = d
    BY <1>2 DEF RegisterGuest, Identify, IInv, TypeOK, timerVars
  <2>7. /\ \A x \in Socket : inbox[x] \subseteq inbox'[x]
        /\ \A x \in Socket : "DATA" \in inbox'[x] => "DATA" \in inbox[x]
        /\ \A x \in Socket : "ACCESS_REQUEST" \in inbox'[x] => "ACCESS_REQUEST" \in inbox[x] \/ x = h
    BY <1>2, <2>2 DEF Send, Deliver, IInv, TypeOK
  <2>8. \A r \in Room : /\ Active(r)' <=> Active(r)
                        /\ Active(r) => r \notin E /\ r # h
                        /\ Unapproved(r)' => Unapproved(r) /\ r \notin E
    BY <2>2, <2>3, <2>4 DEF Active, Unapproved
  <2>9. RegistryConsistent'
    <3>1. \A x \in Socket : roomsBySocket'[x] # None => x \in Members(roomsBySocket[x])'
      <4>1. s \in Members(roomsBySocket[s])'
        BY <2>4, <2>5 DEF Members
      <4> SUFFICES ASSUME NEW x \in Socket, x # s, roomsBySocket'[x] # None
                   PROVE  x \in Members(roomsBySocket[x])'
        BY <4>1
      <4>2. roomsBySocket'[x] = roomsBySocket[x] /\ roomsBySocket[x] \in Room
        BY <2>5 DEF IInv, TypeOK
      <4>3. x \in Members(roomsBySocket[x])
        BY <4>2 DEF IInv, RegistryConsistent
      <4>4. CASE roomsBySocket[x] = h
        BY <2>2, <2>4, <4>2, <4>3, <4>4 DEF Members
      <4>5. CASE roomsBySocket[x] # h
        BY <2>3, <4>2, <4>3, <4>5 DEF Members
      <4> QED
        BY <4>4, <4>5
    <3>2. \A r \in Room : (Unapproved(r) \/ Active(r))' =>
              \A x \in Members(r)' : roomsBySocket'[x] = r
      <4> SUFFICES ASSUME NEW r \in Room, (Unapproved(r) \/ Active(r))', NEW x \in Members(r)'
                   PROVE  roomsBySocket'[x] = r
        OBVIOUS
      <4>1. r \notin E /\ (Unapproved(r) \/ Active(r))
        BY <2>8
      <4>2. x \in Members(r) \/ (r = h /\ x = s)
        BY <2>2, <2>3, <2>4
      <4> QED
        BY <2>5, <4>1, <4>2
    <3>3. \A x \in Code : roomsByCode'[x] # None =>
              Unapproved(roomsByCode[x])' /\ rooms'[roomsByCode'[x]].code = x
      BY <2>2, <2>3, <2>4, <2>5 DEF IInv, TypeOK, RegistryConsistent, Unapproved
    <3>4. roomsBySessionId' = {r \in Room : Active(r)'} /\ sessionStartTimes' = roomsBySessionId'
      BY <2>5, <2>6, <2>8 DEF IInv, RegistryConsistent
    <3> QED
      BY <3>1, <3>2, <3>3, <3>4 DEF RegistryConsistent
  <2>10. SocketShape'
    <3>1. \A x \in Socket : client'[x].session # None => client'[x].role \in {"host", "guest"}
      BY <2>6 DEF IInv, SocketShape
    <3>2. \A r \in Room : rooms'[r].state # None => rooms[r].state # None
      BY <2>2, <2>3 DEF Unapproved
    <3>3. \A r \in Room : \A x \in Members(r)' : client'[x].role \in {"host", "guest"}
      BY <2>1, <2>2, <2>3, <2>4, <2>6, MembersAreKnown DEF Known
    <3> QED
      BY <2>1, <2>6, <3>1, <3>2, <3>3 DEF IInv, SocketShape
  <2>11. RoomShape'
    <3>1. \A r \in Room : rooms[r].state = None => rooms'[r] = rooms[r]
      BY <2>2, <2>3 DEF Unapproved
    <3> QED
      BY <2>2, <2>3, <2>4, <3>1 DEF IInv, RoomShape, Unapproved, Active, NoRoom
  <2>12. OneRoomEach'
    BY <2>1, <2>2, <2>3, <2>4 DEF IInv, OneRoomEach
  <2>13. TimerShape'
    BY <2>1, <2>5, <2>6 DEF IInv, TimerShape
  <2>14. RequestShape'
    <3>1. rooms'[h].state \in {"pending", "ended"} /\ roomsBySocket'[h] \in {None, h}
      BY <2>2, <2>4, <2>5
    <3>2. \A x \in Socket : x # h /\ "ACCESS_REQUEST" \in inbox'[x] =>
              /\ rooms'[x].state \in {"pending", "ended"}
              /\ roomsBySocket'[x] \in {None, x}
      BY <2>1, <2>3, <2>5, <2>7 DEF IInv, RequestShape, TypeOK
    <3> QED
      BY <3>1, <3>2 DEF RequestShape
  <2>15. MembersReady'
    BY <2>3, <2>6, <2>7, <2>8, MembersAreKnown DEF IInv, MembersReady
  <2>16. SeatDevices'
    <3>1. client'[rooms'[h].host].device \in HostDevice /\ client'[rooms'[h].guest].device \in GuestDevice
      BY <2>2, <2>4, <2>6 DEF IInv, SeatDevices, Unapproved
    <3> SUFFICES ASSUME NEW r \in Room, r \notin E, r # h
                 PROVE  /\ Unapproved(r) \/ Active(r) => client'[rooms[r].host].device \in HostDevice
                        /\ rooms[r].state = "pending" \/ Active(r) =>
                               client'[rooms[r].guest].device \in GuestDevice
      BY <2>3, <3>1 DEF SeatDevices, Unapproved, Active
    <3>2. /\ rooms[r].state # None => rooms[r].host \in Members(r)
          /\ rooms[r].guest # None => rooms[r].guest \in Members(r)
      BY DEF IInv, RoomShape, Members
    <3> QED
      BY <2>1, <2>6, <3>2, MembersAreKnown DEF IInv, SeatDevices, RoomShape, Unapproved, Active
  <2>17. AbandonedIsTimed'
    BY <2>3, <2>6, <2>8, MembersAreKnown DEF IInv, AbandonedIsTimed
  <2>18. NoTrafficBeforeReady'
    BY <2>7 DEF IInv, NoTrafficBeforeReady
  <2>19. EndIsTold'
    <3>1. \A r \in Room : rooms'[r].state = "ended" /\ r \notin elapsed =>
              r \notin E /\ rooms'[r] = rooms[r]
      BY <2>3, <2>4
    <3>2. \A r \in Room : rooms[r].state = "ended" => rooms[r].host \in Socket
      BY DEF IInv, RoomShape, TypeOK, RelayRoom
    <3> QED
      BY <2>6, <2>7, <3>1, <3>2 DEF IInv, EndIsTold
  <2> QED
    BY <2>9, <2>10, <2>11, <2>12, <2>13, <2>14, <2>15, <2>16, <2>17, <2>18, <2>19 DEF IInv
<1> QED
  BY <1>1, <1>2 DEF RegisterGuest

(***************************************************************************)
(* Reconnection.                                                           *)
(***************************************************************************)

(* handleReconnect replaces a lost member's socket and stops its timer. *)
LEMMA ReconnectAcceptedStep ==
    ASSUME IInv, TypeOK', NEW s \in Socket, NEW o \in Socket, Reconnect(s, o),
           ReconnectAccepted(s, client[o].session, client[o].device)
    PROVE  IInv'
<1> USE NoneAssumption DEF Room
<1> DEFINE d == client[o].device
<1> PICK k \in Room : k = client[o].session
  BY DEF Reconnect, IInv, TypeOK, Client
<1>1. /\ Active(k) /\ k \in roomsBySessionId
      /\ rooms[k].host \in Socket /\ rooms[k].guest \in Socket /\ rooms[k].host # rooms[k].guest
      /\ Members(k) = {rooms[k].host, rooms[k].guest} /\ rooms[k].sessionId = k
  <2>1. Active(k) /\ k \in roomsBySessionId
    BY DEF ReconnectAccepted, Active, IInv, TypeOK
  <2> QED
    BY <2>1 DEF IInv, RoomShape, TypeOK, RelayRoom, Active, Members
<1>2. /\ \A r \in Room : s \notin Members(r)
      /\ ~Known(s) /\ readyState[s] = "open" /\ timers[s] = None
      /\ roomsBySocket[s] = None /\ rooms[s].state = None /\ k # s
      /\ "ACCESS_REQUEST" \notin inbox[s]
  BY <1>1, FreshSocket DEF Reconnect, NoRoom, Active
<1> PICK old \in Socket : old = IF Seat(k, d) = "host" THEN rooms[k].host ELSE rooms[k].guest
  BY <1>1
<1>3. /\ \A r \in Room : r # k => rooms'[r] = rooms[r]
      /\ rooms'[k].state = "active" /\ rooms'[k].code = rooms[k].code
      /\ rooms'[k].sessionId = k
      /\ \/ /\ old = rooms[k].host /\ client[old].device = d
            /\ rooms'[k].host = s /\ rooms'[k].guest = rooms[k].guest
         \/ /\ old = rooms[k].guest /\ client[old].device = d
            /\ rooms'[k].host = rooms[k].host /\ rooms'[k].guest = s
  <2> rooms[k] \in RelayRoom /\ rooms \in [Room -> RelayRoom]
    BY DEF IInv, TypeOK
  <2>1. CASE Seat(k, d) = "host"
    <3>1. rooms' = [rooms EXCEPT ![k].host = s] /\ old = rooms[k].host
      BY <2>1 DEF ReconnectAccepted
    <3>2. client[old].device = d
      BY <2>1, <3>1 DEF Seat
    <3> QED
      BY <1>1, <3>1, <3>2 DEF RelayRoom, Active
  <2>2. CASE Seat(k, d) = "guest"
    <3>1. rooms' = [rooms EXCEPT ![k].guest = s] /\ old = rooms[k].guest
      BY <2>2 DEF ReconnectAccepted
    <3>2. client[old].device = d
      BY <2>2, <3>1 DEF Seat
    <3> QED
      BY <1>1, <3>1, <3>2 DEF RelayRoom, Active
  <2> QED
    BY <2>1, <2>2 DEF ReconnectAccepted, Seat
<1>4. /\ old \in Members(k) /\ old \in Socket /\ old # s
      /\ \A x \in Members(k)' : x = s \/ (x \in Members(k) /\ x # old)
      /\ s \in Members(k)'
      /\ \A x \in Members(k) : x = old \/ x \in Members(k)'
  BY <1>1, <1>2, <1>3 DEF Members
<1>5. /\ roomsBySocket'[old] = None /\ roomsBySocket'[s] = k
      /\ \A x \in Socket : x # s /\ x # old => roomsBySocket'[x] = roomsBySocket[x]
      /\ UNCHANGED <<readyState, roomsByCode, roomsBySessionId, elapsed, sessionStartTimes>>
  <2>1. roomsBySocket' = [roomsBySocket EXCEPT ![old] = None, ![s] = k]
    BY DEF ReconnectAccepted
  <2>2. roomsBySocket \in [Socket -> Room \cup {None}]
    BY DEF IInv, TypeOK
  <2>3. UNCHANGED <<readyState, roomsByCode, roomsBySessionId, elapsed, sessionStartTimes>>
    BY DEF ReconnectAccepted, Reconnect
  <2> QED
    BY <1>4, <2>1, <2>2, <2>3
<1>6. /\ graceTimers'[k] = None
      /\ \A r \in Room : r # k => graceTimers'[r] = graceTimers[r]
      /\ \A x \in Socket : timers'[x] = timers[x] \/ (timers'[x] = None /\ timers[x] = k)
  BY <1>1 DEF ReconnectAccepted, IInv, TypeOK, TimerShape
<1>7. /\ \A x \in Socket : x # s => client'[x] = client[x]
      /\ client'[s].role = client[o].role /\ client'[s].device = d
      /\ client'[s].role \in {"host", "guest"}
  BY DEF Reconnect, Identify, IInv, TypeOK, SocketShape
<1>8. /\ \A x \in Socket : inbox[x] \subseteq inbox'[x]
      /\ \A x \in Socket : "DATA" \in inbox'[x] => "DATA" \in inbox[x]
      /\ \A x \in Socket : "ACCESS_REQUEST" \in inbox'[x] => "ACCESS_REQUEST" \in inbox[x]
      /\ "RECONNECT_OK" \in inbox'[s]
  BY <1>2 DEF ReconnectAccepted, Send, Deliver, IInv, TypeOK, Message
<1>9. \A r \in Room : /\ Active(r)' <=> Active(r)
                      /\ Unapproved(r)' <=> Unapproved(r)
                      /\ r # k => Members(r)' = Members(r) /\ old \notin Members(r)
  BY <1>1, <1>3, <1>4 DEF Active, Unapproved, Members, IInv, OneRoomEach
<1>10. RegistryConsistent'
  <2>1. \A x \in Socket : roomsBySocket'[x] # None => x \in Members(roomsBySocket[x])'
    <3>1. s \in Members(roomsBySocket[s])'
      BY <1>4, <1>5 DEF Members
    <3> SUFFICES ASSUME NEW x \in Socket, x # s, x # old, roomsBySocket[x] # None
                 PROVE  x \in Members(roomsBySocket[x])'
      BY <1>5, <3>1 DEF Members
    <3>2. x \in Members(roomsBySocket[x]) /\ roomsBySocket[x] \in Room
      BY DEF IInv, TypeOK, RegistryConsistent
    <3>3. roomsBySocket'[x] = roomsBySocket[x]
      BY <1>5
    <3>4. CASE roomsBySocket[x] = k
      BY <1>4, <3>2, <3>3, <3>4 DEF Members
    <3>5. CASE roomsBySocket[x] # k
      BY <1>9, <3>2, <3>3, <3>5 DEF Members
    <3> QED
      BY <3>4, <3>5
  <2>2. \A r \in Room : (Unapproved(r) \/ Active(r))' => \A x \in Members(r)' : roomsBySocket'[x] = r
    <3> SUFFICES ASSUME NEW r \in Room, Unapproved(r) \/ Active(r), NEW x \in Members(r)'
                 PROVE  roomsBySocket'[x] = r
      BY <1>9
    <3>1. CASE r = k /\ x = s
      BY <1>5, <3>1
    <3>2. CASE ~(r = k /\ x = s)
      <4>1. x \in Members(r) /\ x # s /\ x # old
        BY <1>2, <1>4, <1>9, <3>2
      <4>2. x \in Socket /\ roomsBySocket[x] = r
        BY <4>1, MembersAreKnown DEF IInv, RegistryConsistent
      <4> QED
        BY <1>5, <4>1, <4>2
    <3> QED
      BY <3>1, <3>2
  <2>3. \A c \in Code : roomsByCode'[c] # None =>
            Unapproved(roomsByCode[c])' /\ rooms'[roomsByCode'[c]].code = c
    <3> SUFFICES ASSUME NEW c \in Code, roomsByCode'[c] # None
                 PROVE  Unapproved(roomsByCode[c])' /\ rooms'[roomsByCode'[c]].code = c
      OBVIOUS
    <3>1. PICK r \in Room : r = roomsByCode[c]
      BY <1>5 DEF IInv, TypeOK
    <3>2. Unapproved(r) /\ rooms[r].code = c /\ roomsByCode'[c] = r
      BY <1>5, <3>1 DEF IInv, RegistryConsistent
    <3>3. r # k
      BY <1>1, <3>2 DEF Unapproved, Active
    <3> QED
      BY <1>3, <3>2, <3>3 DEF Unapproved
  <2>4. roomsBySessionId' = {r \in Room : Active(r)'} /\ sessionStartTimes' = roomsBySessionId'
    BY <1>5, <1>9 DEF IInv, RegistryConsistent
  <2> QED
    BY <2>1, <2>2, <2>3, <2>4 DEF RegistryConsistent
<1>11. SocketShape'
  <2>1. \A x \in Socket : client'[x].session # None => client'[x].role \in {"host", "guest"}
    BY <1>7 DEF IInv, SocketShape
  <2>2. \A r \in Room : rooms'[r].state # None => rooms[r].state # None /\ r # s
    BY <1>1, <1>2, <1>3 DEF Active
  <2>3. \A r \in Room : \A x \in Members(r)' : client'[x].role \in {"host", "guest"}
    <3> SUFFICES ASSUME NEW r \in Room, NEW x \in Members(r)', x # s
                 PROVE  client'[x].role \in {"host", "guest"}
      BY <1>7
    <3>1. x \in Members(r)
      BY <1>4, <1>9
    <3> QED
      BY <1>7, <3>1, MembersAreKnown DEF Known
  <2> QED
    BY <1>2, <1>5, <1>7, <2>1, <2>2, <2>3 DEF IInv, SocketShape
<1>12. RoomShape'
  <2>1. rooms'[k].guest # rooms'[k].host /\ rooms'[k].host # None /\ rooms'[k].guest # None
    BY <1>1, <1>2, <1>3
  <2> QED
    BY <1>1, <1>3, <2>1 DEF IInv, RoomShape, Unapproved, Active
<1>13. OneRoomEach'
  <2>1. \A q \in Room : q # k => Members(q)' \cap Members(k)' = {}
    BY <1>1, <1>2, <1>4, <1>9 DEF IInv, OneRoomEach
  <2> QED
    BY <1>9, <2>1 DEF IInv, OneRoomEach
<1>14. TimerShape'
  <2>1. \A r \in Room : graceTimers'[r] # None => timers'[graceTimers'[r]] = r
    BY <1>1, <1>6 DEF IInv, TimerShape, TypeOK
  <2> QED
    BY <1>2, <1>5, <1>6, <2>1 DEF IInv, TimerShape
<1>15. RequestShape'
  <2> SUFFICES ASSUME NEW x \in Socket, "ACCESS_REQUEST" \in inbox[x]
               PROVE  rooms'[x].state \in {"pending", "ended"} /\ roomsBySocket'[x] \in {None, x}
    BY <1>8 DEF RequestShape
  <2>1. rooms[x].state \in {"pending", "ended"} /\ roomsBySocket[x] \in {None, x} /\ x # s
    BY <1>2 DEF IInv, RequestShape
  <2>2. x # k
    BY <1>1, <2>1 DEF Active
  <2> QED
    BY <1>3, <1>5, <2>1, <2>2
<1>16. MembersReady'
  <2> SUFFICES ASSUME NEW r \in Room, Active(r), NEW x \in Members(r)', readyState[x] = "open", x # s
               PROVE  "SESSION_READY" \in inbox'[x] \/ "RECONNECT_OK" \in inbox'[x]
    BY <1>5, <1>8, <1>9 DEF MembersReady
  <2>1. x \in Members(r) /\ x \in Socket
    BY <1>4, <1>9, MembersAreKnown
  <2> QED
    BY <1>8, <2>1 DEF IInv, MembersReady
<1>17. SeatDevices'
  <2>1. client'[rooms'[k].host].device \in HostDevice /\ client'[rooms'[k].guest].device \in GuestDevice
    <3>1. client[rooms[k].host].device \in HostDevice /\ client[rooms[k].guest].device \in GuestDevice
      BY <1>1 DEF IInv, SeatDevices
    <3>2. rooms[k].host # s /\ rooms[k].guest # s
      BY <1>1, <1>2
    <3> QED
      BY <1>1, <1>3, <1>7, <3>1, <3>2
  <2> SUFFICES ASSUME NEW r \in Room, r # k
               PROVE  /\ Unapproved(r) \/ Active(r) => client'[rooms[r].host].device \in HostDevice
                      /\ rooms[r].state = "pending" \/ Active(r) =>
                             client'[rooms[r].guest].device \in GuestDevice
    BY <1>3, <1>9, <2>1 DEF SeatDevices
  <2>2. /\ rooms[r].state # None => rooms[r].host \in Members(r)
        /\ rooms[r].guest # None => rooms[r].guest \in Members(r)
    BY DEF IInv, RoomShape, Members
  <2> QED
    BY <1>2, <1>7, <2>2, MembersAreKnown DEF IInv, SeatDevices, RoomShape, Unapproved, Active
<1>18. AbandonedIsTimed'
  <2>1. \E x \in Members(k)' : readyState'[x] # "closed"
    BY <1>2, <1>4, <1>5
  <2> SUFFICES ASSUME NEW r \in Room, r # k, Active(r)
               PROVE  \E x \in Members(r) : readyState[x] # "closed" \/ timers'[x] = r
    BY <1>5, <1>9, <2>1 DEF AbandonedIsTimed
  <2>2. PICK x \in Members(r) : readyState[x] # "closed" \/ timers[x] = r
    BY DEF IInv, AbandonedIsTimed
  <2> QED
    BY <1>6, <2>2, MembersAreKnown
<1>19. NoTrafficBeforeReady'
  BY <1>8 DEF IInv, NoTrafficBeforeReady
<1>20. EndIsTold'
  <2>1. \A r \in Room : rooms'[r].state = "ended" => rooms'[r] = rooms[r]
    BY <1>3
  <2>2. \A r \in Room : rooms[r].state = "ended" => rooms[r].host \in Socket
    BY DEF IInv, RoomShape, TypeOK, RelayRoom
  <2> QED
    BY <1>5, <1>8, <2>1, <2>2 DEF IInv, EndIsTold
<1> QED
  BY <1>10, <1>11, <1>12, <1>13, <1>14, <1>15, <1>16, <1>17, <1>18, <1>19, <1>20 DEF IInv

(***************************************************************************)
(* The end of a connection, and grace timers.                              *)
(***************************************************************************)

(* releaseSocket() ends the room, whichever of its sockets goes, and       *)
(* leaves the other rooms and their entries alone, except that it may take *)
(* the code of another room out of roomsByCode.                            *)
LEMMA ReleaseFacts ==
    ASSUME IInv, NEW s \in Socket, NEW k \in Room, roomsBySocket[s] = k, ReleaseSocket(s, k)
    PROVE  /\ \A r \in Room : r # k => rooms'[r] = rooms[r]
           /\ rooms'[k].state = "ended" /\ rooms'[k].host = rooms[k].host
           /\ rooms'[k].code = rooms[k].code /\ rooms'[k].sessionId = rooms[k].sessionId
           /\ \/ s = rooms[k].host /\ rooms'[k].guest = rooms[k].guest
              \/ s = rooms[k].guest /\ rooms'[k].guest = None /\ s # rooms[k].host
           /\ \A c \in Code : roomsByCode'[c] # None =>
                  roomsByCode'[c] = roomsByCode[c] /\ roomsByCode[c] # k
           /\ roomsBySessionId' = roomsBySessionId \ {k}
           /\ roomsBySocket'[s] = None
           /\ \A x \in Socket : roomsBySocket'[x] # None =>
                  /\ roomsBySocket'[x] = roomsBySocket[x]
                  /\ x # s /\ (s = rooms[k].host => x # rooms[k].guest)
           /\ \A x \in Socket : x \notin Members(k) => roomsBySocket'[x] = roomsBySocket[x]
<1> USE NoneAssumption DEF Room
<1>1. /\ s \in Members(k) /\ rooms[k].state # None /\ rooms[k].code \in Code
      /\ rooms[k].guest # rooms[k].host
      /\ rooms[k].state = "waiting" => s = rooms[k].host
      /\ rooms[k].state \in RelayState
  BY DEF IInv, RegistryConsistent, RoomShape, Members, TypeOK, RelayRoom, NoRoom
<1>2. \/ s = rooms[k].host
      \/ s = rooms[k].guest /\ s # rooms[k].host
  BY <1>1 DEF Members
<1>3. /\ \A r \in Room : r # k => rooms'[r] = rooms[r]
      /\ rooms'[k].state = "ended" /\ rooms'[k].host = rooms[k].host
      /\ rooms'[k].code = rooms[k].code /\ rooms'[k].sessionId = rooms[k].sessionId
      /\ \/ s = rooms[k].host /\ rooms'[k].guest = rooms[k].guest
         \/ s = rooms[k].guest /\ rooms'[k].guest = None /\ s # rooms[k].host
  <2> rooms \in [Room -> RelayRoom]
    BY DEF IInv, TypeOK
  <2>1. CASE s = rooms[k].host
    <3>1. rooms' = [rooms EXCEPT ![k] = [rooms[k] EXCEPT !.state = "ended", !.guest = rooms[k].guest]]
      BY <2>1 DEF ReleaseSocket
    <3> QED
      BY <2>1, <3>1 DEF RelayRoom
  <2>2. CASE s = rooms[k].guest /\ s # rooms[k].host
    <3>1. rooms' = [rooms EXCEPT ![k] = [rooms[k] EXCEPT !.state = "ended", !.guest = None]]
      BY <1>1, <2>2 DEF ReleaseSocket, RelayState
    <3> QED
      BY <2>2, <3>1 DEF RelayRoom
  <2> QED
    BY <1>2, <2>1, <2>2
<1>4. \A c \in Code : roomsByCode'[c] # None => roomsByCode'[c] = roomsByCode[c] /\ roomsByCode[c] # k
  <2>1. \A c \in Code : roomsByCode[c] = k => Unapproved(k) /\ c = rooms[k].code
    BY DEF IInv, RegistryConsistent
  <2>2. CASE roomsByCode' = [roomsByCode EXCEPT ![rooms[k].code] = None]
    BY <1>1, <2>1, <2>2 DEF IInv, TypeOK
  <2>3. CASE roomsByCode' = roomsByCode /\ rooms[k].state = "ended"
    BY <2>1, <2>3 DEF Unapproved
  <2> QED
    BY <1>1, <1>2, <2>2, <2>3 DEF ReleaseSocket, RelayState
<1>5. roomsBySessionId' = roomsBySessionId \ {k}
  <2>1. k \in roomsBySessionId => rooms[k].state = "active" /\ rooms[k].sessionId = k
    BY DEF IInv, RegistryConsistent, RoomShape, Active
  <2>2. rooms[k].sessionId \in {None, k} /\ None \notin roomsBySessionId
    BY DEF IInv, RoomShape, TypeOK
  <2>3. CASE roomsBySessionId' = roomsBySessionId \ {rooms[k].sessionId}
    BY <2>1, <2>2, <2>3
  <2>4. CASE roomsBySessionId' = roomsBySessionId /\ rooms[k].state = "ended"
    BY <2>1, <2>4
  <2> QED
    BY <1>1, <1>2, <2>3, <2>4 DEF ReleaseSocket, RelayState
<1>6. /\ roomsBySocket'[s] = None
      /\ \A x \in Socket : roomsBySocket'[x] # None =>
             /\ roomsBySocket'[x] = roomsBySocket[x]
             /\ x # s /\ (s = rooms[k].host => x # rooms[k].guest)
      /\ \A x \in Socket : x \notin Members(k) => roomsBySocket'[x] = roomsBySocket[x]
  BY <1>1 DEF ReleaseSocket, Members
<1> QED
  BY <1>3, <1>4, <1>5, <1>6

(* What a cleanup keeps, of a closing socket or of a timer's socket.       *)
LEMMA CleanupStep ==
    ASSUME IInv, TypeOK', NEW s \in Socket, NEW k \in Room, roomsBySocket[s] = k,
           NEW sid \in {None, k}, Active(k) => sid = k,
           CleanupRoom(s, k, sid), UNCHANGED <<client, elapsed>>,
           readyState'[s] = "closed",
           \A x \in Socket \ {s} : readyState'[x] = readyState[x]
                                   \/ (readyState[x] = "open" /\ readyState'[x] = "closing"),
           s = rooms[k].host /\ rooms[k].guest # None => readyState'[rooms[k].guest] # "open",
           \A x \in Socket : timers'[x] = timers[x] \/ (timers'[x] = None /\ timers[x] = k),
           \A r \in Room : graceTimers'[r] # None => timers'[graceTimers'[r]] = r
    PROVE  IInv'
<1> USE NoneAssumption DEF Room
<1>1. /\ s \in Members(k) /\ rooms[k].host \in Socket /\ rooms[k].state # None
      /\ Members(k) \subseteq Socket
  BY MembersAreKnown DEF IInv, RegistryConsistent, RoomShape, Members, TypeOK, RelayRoom, NoRoom
<1>2. /\ \A r \in Room : r # k => rooms'[r] = rooms[r]
      /\ rooms'[k].state = "ended" /\ rooms'[k].host = rooms[k].host
      /\ rooms'[k].code = rooms[k].code /\ rooms'[k].sessionId = rooms[k].sessionId
      /\ \/ s = rooms[k].host /\ rooms'[k].guest = rooms[k].guest
         \/ s = rooms[k].guest /\ rooms'[k].guest = None /\ s # rooms[k].host
  BY ReleaseFacts DEF CleanupRoom
<1>3. /\ \A c \in Code : roomsByCode'[c] # None =>
             roomsByCode'[c] = roomsByCode[c] /\ roomsByCode[c] # k
      /\ roomsBySessionId' = roomsBySessionId \ {k}
      /\ \A x \in Socket : roomsBySocket'[x] # None =>
             /\ roomsBySocket'[x] = roomsBySocket[x]
             /\ x # s /\ (s = rooms[k].host => x # rooms[k].guest)
      /\ \A x \in Socket : x \notin Members(k) => roomsBySocket'[x] = roomsBySocket[x]
  BY ReleaseFacts DEF CleanupRoom
<1>4. sessionStartTimes' = sessionStartTimes \ {k}
  BY DEF CleanupRoom, IInv, RegistryConsistent, TypeOK
<1>5. /\ \A x \in Socket : inbox[x] \ {"ACCESS_REQUEST"} \subseteq inbox'[x]
      /\ \A x \in Socket : "DATA" \in inbox'[x] => "DATA" \in inbox[x]
      /\ \A x \in Socket : "ACCESS_REQUEST" \in inbox'[x] => "ACCESS_REQUEST" \in inbox[x]
      /\ s # rooms[k].host /\ readyState[rooms[k].host] = "open" =>
             "SESSION_TERMINATE" \in inbox'[rooms[k].host]
  <2>1. Deliver({<<Peer(s, k), "SESSION_TERMINATE">>}, {})
    BY DEF CleanupRoom, Send
  <2> QED
    BY <1>1, <2>1 DEF Deliver, Peer, Message, IInv, TypeOK
<1>6. \A r \in Room : r # k => /\ Members(r)' = Members(r) /\ (Active(r)' <=> Active(r))
                               /\ (Unapproved(r)' <=> Unapproved(r))
                               /\ Members(r) \cap Members(k) = {} /\ s \notin Members(r)
                               /\ Members(r) \subseteq Socket
  BY <1>1, <1>2, MembersAreKnown DEF Members, Active, Unapproved, IInv, OneRoomEach
<1>7. ~Active(k)' /\ ~Unapproved(k)' /\ Members(k)' \subseteq Members(k)
  BY <1>2 DEF Active, Unapproved, Members
<1>8. RegistryConsistent'
  <2>1. \A x \in Socket : roomsBySocket'[x] # None => x \in Members(roomsBySocket[x])'
    <3> SUFFICES ASSUME NEW x \in Socket, NEW r \in Room, r = roomsBySocket[x], roomsBySocket'[x] = r,
                        x # s, s = rooms[k].host => x # rooms[k].guest
                 PROVE  x \in Members(r)'
      BY <1>3 DEF IInv, TypeOK, Members
    <3>1. x \in Members(r)
      BY DEF IInv, RegistryConsistent
    <3>2. CASE r = k
      BY <1>2, <3>1, <3>2 DEF Members
    <3>3. CASE r # k
      BY <1>6, <3>1, <3>3
    <3> QED
      BY <3>2, <3>3
  <2>2. \A r \in Room : (Unapproved(r) \/ Active(r))' => \A x \in Members(r)' : roomsBySocket'[x] = r
    <3> SUFFICES ASSUME NEW r \in Room, r # k, Unapproved(r) \/ Active(r), NEW x \in Members(r)
                 PROVE  roomsBySocket'[x] = r
      BY <1>6, <1>7
    <3>1. x \in Socket /\ x \notin Members(k) /\ roomsBySocket[x] = r
      BY <1>6 DEF IInv, RegistryConsistent
    <3> QED
      BY <1>3, <3>1
  <2>3. \A c \in Code : roomsByCode'[c] # None =>
            Unapproved(roomsByCode[c])' /\ rooms'[roomsByCode'[c]].code = c
    BY <1>2, <1>3 DEF IInv, RegistryConsistent, Unapproved, TypeOK
  <2>4. roomsBySessionId' = {r \in Room : Active(r)'} /\ sessionStartTimes' = roomsBySessionId'
    BY <1>3, <1>4, <1>6, <1>7 DEF IInv, RegistryConsistent
  <2> QED
    BY <2>1, <2>2, <2>3, <2>4 DEF RegistryConsistent
<1>9. SocketShape'
  <2>1. \A r \in Room : /\ Members(r)' \subseteq Members(r)
                        /\ rooms'[r].state # None => rooms[r].state # None
    BY <1>1, <1>2, <1>6, <1>7
  <2>2. \A x \in Socket : readyState'[x] = "absent" => readyState[x] = "absent"
    OBVIOUS
  <2> QED
    BY <2>1, <2>2 DEF IInv, SocketShape
<1>10. RoomShape'
  <2>1. rooms'[k].state # None /\ rooms'[k].guest \in {None, rooms[k].guest}
    BY <1>2
  <2> QED
    BY <1>1, <1>2, <2>1 DEF IInv, RoomShape, Active, Unapproved
<1>11. OneRoomEach'
  BY <1>6, <1>7 DEF IInv, OneRoomEach
<1>12. TimerShape'
  <2>1. \A x \in Socket : timers'[x] # None => timers'[x] = timers[x] /\ readyState'[x] = "closed"
    BY DEF IInv, TimerShape
  <2> QED
    BY <1>3, <2>1 DEF IInv, TimerShape
<1>13. RequestShape'
  BY <1>2, <1>3, <1>5 DEF IInv, RequestShape
<1>14. MembersReady'
  BY <1>5, <1>6, <1>7 DEF IInv, MembersReady
<1>15. SeatDevices'
  BY <1>2, <1>6, <1>7 DEF IInv, SeatDevices, Unapproved, Active
<1>16. AbandonedIsTimed'
  <2> SUFFICES ASSUME NEW r \in Room, r # k, Active(r)
               PROVE  \E x \in Members(r) : readyState'[x] # "closed" \/ timers'[x] = r
    BY <1>6, <1>7 DEF AbandonedIsTimed
  <2>1. PICK x \in Members(r) : readyState[x] # "closed" \/ timers[x] = r
    BY DEF IInv, AbandonedIsTimed
  <2>2. x \in Socket /\ x # s
    BY <1>6
  <2> QED
    BY <2>1, <2>2
<1>17. NoTrafficBeforeReady'
  BY <1>5 DEF IInv, NoTrafficBeforeReady
<1>18. EndIsTold'
  <2>1. /\ rooms'[k].guest # None => readyState'[rooms'[k].guest] # "open"
        /\ rooms'[k].guest = None /\ readyState'[rooms'[k].host] = "open" =>
               "SESSION_TERMINATE" \in inbox'[rooms'[k].host]
    BY <1>1, <1>2, <1>5
  <2> SUFFICES ASSUME NEW r \in Room, r # k, rooms[r].state = "ended", r \notin elapsed
               PROVE  /\ rooms[r].guest # None => readyState'[rooms[r].guest] # "open"
                      /\ rooms[r].guest = None /\ readyState'[rooms[r].host] = "open" =>
                             "SESSION_TERMINATE" \in inbox'[rooms[r].host]
    BY <1>2, <2>1 DEF EndIsTold
  <2>2. /\ rooms[r].host \in Socket /\ rooms[r].host # s
        /\ rooms[r].guest # None => rooms[r].guest \in Socket /\ rooms[r].guest # s
    BY <1>6 DEF IInv, RoomShape, TypeOK, RelayRoom, Members
  <2> QED
    BY <1>5, <2>2 DEF IInv, EndIsTold
<1> QED
  BY <1>8, <1>9, <1>10, <1>11, <1>12, <1>13, <1>14, <1>15, <1>16, <1>17, <1>18 DEF IInv

(* The close event starts a grace timer or cleans the room up. *)
LEMMA SocketClosedStep ==
    ASSUME IInv, TypeOK', NEW s \in Socket, SocketClosed(s) PROVE IInv'
<1> USE NoneAssumption DEF Room
<1>1. readyState[s] \in {"open", "closing"} /\ timers[s] = None /\ client' = client
  BY DEF SocketClosed, Receiving, IInv, TimerShape
<1>2. CASE roomsBySocket[s] = None
  <2>1. /\ readyState'[s] = "closed"
        /\ \A x \in Socket : x # s => readyState'[x] = readyState[x]
        /\ UNCHANGED <<inbox, managerVars, sessionStartTimes, timerVars, elapsed>>
    BY <1>2 DEF SocketClosed, HandleDisconnect
  <2>2. Calm
    BY <1>1, <2>1 DEF Calm, IInv, SocketShape
  <2> QED
    BY <1>2, <2>1, <2>2, QuietStep
<1>3. CASE roomsBySocket[s] # None
  <2> PICK k \in Room : k = roomsBySocket[s]
    BY <1>3 DEF IInv, TypeOK
  <2>1. s \in Members(k) /\ (Active(k) => rooms[k].sessionId = k) /\ rooms[k].sessionId \in {None, k}
    BY DEF IInv, RegistryConsistent, RoomShape
  <2>2. CASE Active(k)
    <3>1. /\ readyState'[s] = "closed"
          /\ \A x \in Socket : x # s => readyState'[x] = readyState[x]
          /\ Send({<<Peer(s, k), "SESSION_TERMINATE">>})
          /\ timers' = [timers EXCEPT ![s] = k] /\ graceTimers' = [graceTimers EXCEPT ![k] = s]
          /\ UNCHANGED <<managerVars, sessionStartTimes, elapsed>>
      BY <1>3, <2>1, <2>2 DEF SocketClosed, HandleDisconnect, Active
    <3>2. /\ \A x \in Socket : inbox[x] \ {"ACCESS_REQUEST"} \subseteq inbox'[x]
          /\ \A x \in Socket : "DATA" \in inbox'[x] => "DATA" \in inbox[x]
          /\ \A x \in Socket : "ACCESS_REQUEST" \in inbox'[x] => "ACCESS_REQUEST" \in inbox[x]
      BY <3>1 DEF Send, Deliver, IInv, TypeOK
    <3>3. Calm
      BY <1>1, <3>1, <3>2 DEF Calm, IInv, SocketShape
    <3>4. /\ timers'[s] = k /\ \A x \in Socket : x # s => timers'[x] = timers[x]
          /\ graceTimers'[k] = s /\ \A r \in Room : r # k => graceTimers'[r] = graceTimers[r]
      BY <3>1 DEF IInv, TypeOK
    <3>5. TimerShape'
      <4>1. \A r \in Room : graceTimers'[r] # None => timers'[graceTimers'[r]] = r
        BY <1>1, <3>4 DEF IInv, TimerShape, TypeOK
      <4> QED
        BY <3>1, <3>4, <4>1 DEF IInv, TimerShape, managerVars
    <3>6. AbandonedIsTimed'
      <4> SUFFICES ASSUME NEW r \in Room, r # k, Active(r)
                   PROVE  \E x \in Members(r) : readyState'[x] # "closed" \/ timers'[x] = r
        BY <2>1, <3>1, <3>4 DEF AbandonedIsTimed, managerVars, Active, Members
      <4>1. \A x \in Members(r) : x \in Socket /\ x # s
        BY <2>1, MembersAreKnown DEF IInv, OneRoomEach
      <4> QED
        BY <3>1, <3>4, <4>1 DEF IInv, AbandonedIsTimed
    <3> QED
      BY <3>1, <3>2, <3>3, <3>5, <3>6, SameRoomsStep
  <2>3. CASE ~Active(k)
    <3>1. /\ CleanupRoom(s, k, rooms[k].sessionId)
          /\ UNCHANGED <<timers, graceTimers, client, elapsed>>
          /\ readyState' = [x \in Socket |->
                              IF x = s THEN "closed"
                              ELSE IF x \in ClosedWithRoom(s, k) /\ readyState[x] = "open"
                                   THEN "closing"
                              ELSE readyState[x]]
      BY <1>3, <2>3 DEF SocketClosed, HandleDisconnect, Active, timerVars
    <3>2. s = rooms[k].host /\ rooms[k].guest # None => readyState'[rooms[k].guest] # "open"
      BY <3>1 DEF ClosedWithRoom, IInv, TypeOK, RelayRoom
    <3> QED
      BY <2>1, <2>3, <3>1, <3>2, CleanupStep DEF IInv, TimerShape
  <2> QED
    BY <2>2, <2>3
<1> QED
  BY <1>2, <1>3

(* A grace timer that fires cleans up the room its socket still has, if    *)
(* any.                                                                    *)
LEMMA GraceTimerFiresStep ==
    ASSUME IInv, TypeOK', NEW s \in Socket, GraceTimerFires(s) PROVE IInv'
<1> USE NoneAssumption DEF Room
<1> PICK k \in Room : k = timers[s]
  BY DEF GraceTimerFires, IInv, TypeOK
<1>1. /\ readyState[s] = "closed" /\ roomsBySocket[s] \in {None, k}
      /\ timers'[s] = None /\ \A x \in Socket : x # s => timers'[x] = timers[x]
      /\ graceTimers'[k] = None /\ \A r \in Room : r # k => graceTimers'[r] = graceTimers[r]
  BY DEF GraceTimerFires, IInv, TypeOK, TimerShape
<1>2. \A r \in Room : graceTimers'[r] # None => timers'[graceTimers'[r]] = r
  BY <1>1 DEF IInv, TimerShape, TypeOK
<1>3. CASE roomsBySocket[s] = None
  <2>1. UNCHANGED <<readyState, inbox, managerVars, sessionStartTimes, client, elapsed>>
    BY <1>3 DEF GraceTimerFires
  <2>2. Calm
    BY <2>1 DEF Calm, IInv, SocketShape
  <2>3. TimerShape'
    BY <1>1, <1>2, <2>1 DEF IInv, TimerShape, managerVars
  <2>4. AbandonedIsTimed'
    <3> SUFFICES ASSUME NEW r \in Room, Active(r)
                 PROVE  \E x \in Members(r) : readyState[x] # "closed" \/ timers'[x] = r
      BY <2>1 DEF AbandonedIsTimed, managerVars, Active, Members
    <3>1. \A x \in Members(r) : x \in Socket /\ x # s
      BY <1>3, MembersAreKnown DEF IInv, RegistryConsistent
    <3> QED
      BY <1>1, <3>1 DEF IInv, AbandonedIsTimed
  <2> QED
    BY <2>1, <2>2, <2>3, <2>4, SameRoomsStep
<1>4. CASE roomsBySocket[s] # None
  <2>1. /\ roomsBySocket[s] = k /\ CleanupRoom(s, k, k) /\ UNCHANGED <<client, elapsed>>
        /\ readyState' = [x \in Socket |->
                            IF x \in ClosedWithRoom(s, k) /\ readyState[x] = "open"
                            THEN "closing" ELSE readyState[x]]
    BY <1>1, <1>4 DEF GraceTimerFires, Close
  <2>2. s = rooms[k].host /\ rooms[k].guest # None => readyState'[rooms[k].guest] # "open"
    BY <2>1 DEF ClosedWithRoom, IInv, TypeOK, RelayRoom
  <2> QED
    BY <1>1, <1>2, <2>1, <2>2, CleanupStep
<1> QED
  BY <1>3, <1>4

(***************************************************************************)
(* The theorems.                                                           *)
(***************************************************************************)

(* The relay starts with no room and no connection. *)
LEMMA InitIInv == Init => IInv
<1> SUFFICES ASSUME Init PROVE IInv
  OBVIOUS
<1> USE NoneAssumption DEF Init, Room, NoClient, NoRoom
<1>1. TypeOK
  BY DEF TypeOK, ReadyState, Client, RelayRoom
<1>2. \A r \in Room : Members(r) = {} /\ ~Unapproved(r) /\ ~Active(r)
  BY DEF Members, Unapproved, Active
<1>3. RegistryConsistent /\ SocketShape /\ RoomShape
  BY <1>2 DEF RegistryConsistent, SocketShape, RoomShape
<1>4. OneRoomEach /\ TimerShape /\ RequestShape /\ MembersReady /\ SeatDevices
  BY <1>2 DEF OneRoomEach, TimerShape, RequestShape, MembersReady, SeatDevices
<1>5. AbandonedIsTimed /\ NoTrafficBeforeReady /\ EndIsTold
  BY <1>2 DEF AbandonedIsTimed, NoTrafficBeforeReady, EndIsTold
<1> QED
  BY <1>1, <1>3, <1>4, <1>5 DEF IInv

(* The invariant is inductive: one lemma per handler. *)
LEMMA NextIInv == IInv /\ [Next]_vars => IInv'
<1> SUFFICES ASSUME IInv, [Next]_vars PROVE IInv'
  OBVIOUS
<1>1. TypeOK'
  BY TypeStep DEF IInv
<1>2. CASE UNCHANGED vars
  <2>1. Calm
    BY <1>2 DEF vars, Calm, IInv, SocketShape
  <2> QED
    BY <1>1, <1>2, <2>1, QuietStep DEF vars, managerVars, timerVars
<1>3. CASE ExpirySweep
  BY <1>1, <1>3, ExpirySweepStep
<1>4. ASSUME NEW s \in Socket, Connect(s) \/ ConnectRefused(s) \/ RefusedClosed(s) PROVE IInv'
  BY <1>1, <1>4, ConnectStep, ConnectRefusedStep, RefusedClosedStep
<1>5. ASSUME NEW s \in Socket, MessageDropped(s) \/ ForwardToPeer(s) \/ TtlElapses(s) PROVE IInv'
  BY <1>1, <1>5, MessageDroppedStep, ForwardToPeerStep, TtlElapsesStep DEF Room
<1>6. ASSUME NEW s \in Socket, NEW d, \E role \in {"host", "guest"} : RegistrationLimited(s, role, d)
      PROVE  IInv'
  BY <1>1, <1>6, RegistrationLimitedStep
<1>7. ASSUME NEW s \in Socket, NEW c \in Code, NEW d \in HostDevice, RegisterHost(s, c, d) PROVE IInv'
  BY <1>1, <1>7, RegisterHostStep
<1>8. ASSUME NEW s \in Socket, NEW c \in Code, NEW d \in GuestDevice, RegisterGuest(s, c, d) PROVE IInv'
  BY <1>1, <1>8, RegisterGuestStep
<1>9. ASSUME NEW s \in Socket, NEW old \in Socket, Reconnect(s, old) PROVE IInv'
  BY <1>1, <1>9, ReconnectAcceptedStep, ReconnectRefusedStep DEF Reconnect
<1>10. ASSUME NEW s \in Socket,
              ApproveAccess(s) \/ RejectAccess(s) \/ ApproveFails(s) \/ RejectFails(s)
       PROVE  IInv'
  BY <1>1, <1>10, ApproveAccessStep, RejectAccessStep, AnswerFailsStep
<1>11. ASSUME NEW s \in Socket, SocketClosed(s) \/ GraceTimerFires(s) PROVE IInv'
  BY <1>1, <1>11, SocketClosedStep, GraceTimerFiresStep
<1> QED
  BY <1>2, <1>3, <1>4, <1>5, <1>6, <1>7, <1>8, <1>9, <1>10, <1>11 DEF Next

(* Every reachable state of the relay satisfies the inductive invariant,   *)
(* whatever the connections, codes and devices.                            *)
THEOREM Invariance == Spec => []IInv
BY InitIInv, NextIInv, PTL DEF Spec

(* SessionManager's maps agree with each other and with the rooms through  *)
(* every interleaving of main.ts's handlers.                               *)
THEOREM RegistrySafe == Spec => []RegistryConsistent
<1>1. IInv => RegistryConsistent
  BY DEF IInv
<1> QED
  BY <1>1, Invariance, PTL

(* handleDisconnect and handleReconnect never strand an active session:    *)
(* one of its members is connected or has its grace timer running.         *)
THEOREM NoStrandedSession == Spec => []AbandonedIsTimed
<1>1. IInv => AbandonedIsTimed
  BY DEF IInv
<1> QED
  BY <1>1, Invariance, PTL

(* forwardToPeer reaches only sockets that were told their session is      *)
(* ready or resumed.                                                       *)
THEOREM TrafficOnlyWhenReady == Spec => []NoTrafficBeforeReady
<1>1. IInv => NoTrafficBeforeReady
  BY DEF IInv
<1> QED
  BY <1>1, Invariance, PTL

(* cleanupRoom and rejectAccess tell whoever stays behind.                 *)
THEOREM NobodyLeftWaiting == Spec => []EndIsTold
<1>1. IInv => EndIsTold
  BY DEF IInv
<1> QED
  BY <1>1, Invariance, PTL

(* The handlers that leave the rooms alone. *)
Idle(s) ==
    \/ Connect(s) \/ ConnectRefused(s) \/ RefusedClosed(s) \/ MessageDropped(s)
    \/ ForwardToPeer(s) \/ TtlElapses(s) \/ ApproveFails(s) \/ RejectFails(s)
    \/ \E role \in {"host", "guest"}, d \in HostDevice \cup GuestDevice :
            RegistrationLimited(s, role, d)

(* The steps that touch no room end no session and admit nobody. *)
LEMMA IdleStep ==
    ASSUME NEW s \in Socket, Idle(s)
    PROVE  rooms' = rooms
BY DEF Idle, Connect, ConnectRefused, RefusedClosed, MessageDropped, ForwardToPeer, TtlElapses,
       ApproveFails, RejectFails, AnswerFails, RegistrationLimited, managerVars

(* The steps that end an active session. *)
LEMMA LossStep ==
    ASSUME IInv, Next, NEW r \in Room, Active(r), rooms'[r].state = "ended",
           \A s \in Members(r) : readyState[s] # "closed"
    PROVE  FALSE
<1> USE NoneAssumption DEF Room
<1>1. rooms[r].state = "active" /\ r \notin ExpiredRooms
  BY DEF Active, ExpiredRooms
<1>2. /\ RoomsAfterExpiry[r] = rooms[r]
      /\ rooms \in [Room -> RelayRoom] /\ RoomsAfterExpiry \in [Room -> RelayRoom]
  BY <1>1, ExpiryType DEF RoomsAfterExpiry, IInv, TypeOK
<1>3. ASSUME NEW s \in Socket, Idle(s) PROVE FALSE
  BY <1>1, <1>3, IdleStep
<1>4. ASSUME NEW s \in Socket, NEW c \in Code, NEW d \in HostDevice, RegisterHost(s, c, d)
      PROVE  FALSE
  <2>1. rooms' = RoomsAfterExpiry \/ rooms'[r] = RoomsAfterExpiry[r] \/ rooms'[r].state = "waiting"
    BY <1>2, <1>4 DEF RegisterHost, ManagerRegisterHost, OnlyExpiry
  <2> QED
    BY <1>1, <1>2, <2>1
<1>5. ASSUME NEW s \in Socket, NEW c \in Code, NEW d \in GuestDevice, RegisterGuest(s, c, d)
      PROVE  FALSE
  <2>1. rooms' = RoomsAfterExpiry \/ rooms'[r] = RoomsAfterExpiry[r] \/ rooms'[r].state = "pending"
    BY <1>2, <1>5 DEF RegisterGuest, ManagerRegisterGuest, OnlyExpiry, RelayRoom
  <2> QED
    BY <1>1, <1>2, <2>1
<1>6. ASSUME NEW s \in Socket, NEW old \in Socket, Reconnect(s, old) PROVE FALSE
  <2>1. rooms'[r].state = rooms[r].state
    BY <1>2, <1>6 DEF Reconnect, ReconnectAccepted, ReconnectRefused, managerVars, RelayRoom
  <2> QED
    BY <1>1, <2>1
<1>7. ASSUME NEW s \in Socket, ApproveAccess(s) \/ RejectAccess(s) PROVE FALSE
  <2>1. roomsBySocket[s] = s /\ s \in Room /\ rooms[s].state # "active"
    BY <1>7, AnswerIsOwn DEF ApproveAccess, RejectAccess
  <2>2. rooms'[r] = rooms[r]
    BY <1>1, <1>2, <1>7, <2>1 DEF ApproveAccess, RejectAccess
  <2> QED
    BY <1>1, <2>2
<1>8. ASSUME NEW s \in Socket, SocketClosed(s) PROVE FALSE
  <2>1. rooms[r].sessionId # None
    BY DEF IInv, RoomShape
  <2>2. rooms'[r] = rooms[r]
    BY <1>1, <1>2, <1>8, <2>1
    DEF SocketClosed, HandleDisconnect, CleanupRoom, ReleaseSocket, managerVars, IInv, TypeOK
  <2> QED
    BY <1>1, <2>2
<1>9. ASSUME NEW s \in Socket, GraceTimerFires(s) PROVE FALSE
  <2>1. readyState[s] = "closed" /\ timers[s] # None
    BY <1>9 DEF GraceTimerFires, IInv, TimerShape
  <2>2. s \notin Members(r)
    BY <2>1
  <2>3. roomsBySocket[s] # r
    BY <2>2 DEF IInv, RegistryConsistent
  <2>4. rooms'[r] = rooms[r]
    BY <1>2, <1>9, <2>3
    DEF GraceTimerFires, CleanupRoom, ReleaseSocket, managerVars, IInv, TypeOK
  <2> QED
    BY <1>1, <2>4
<1>10. CASE ExpirySweep
  BY <1>1, <1>2, <1>10 DEF ExpirySweep, OnlyExpiry
<1> QED
  BY <1>1, <1>3, <1>4, <1>5, <1>6, <1>7, <1>8, <1>9, <1>10 DEF Next, Idle

(* No stale grace timer, and no late reject, ends a session whose members  *)
(* are both connected.                                                     *)
THEOREM OnlyLossEndsSession == Spec => EndsOnlyWhenPeerGone
<1> DEFINE Loss == \A r \in Room : Active(r) /\ rooms'[r].state = "ended" =>
                        \E s \in Members(r) : readyState[s] = "closed"
<1>1. IInv /\ [Next]_vars => [Loss]_vars
  BY LossStep
<1>2. [][Loss]_vars => EndsOnlyWhenPeerGone
  BY DEF EndsOnlyWhenPeerGone
<1> QED
  BY <1>1, <1>2, Invariance, PTL DEF Spec

(* The steps that admit a guest. *)
LEMMA DeadStep ==
    ASSUME IInv, Next, NEW r \in Room, rooms[r].state = "waiting", r \in elapsed,
           rooms'[r].state = "pending"
    PROVE  FALSE
<1> USE NoneAssumption DEF Room
<1>1. /\ rooms \in [Room -> RelayRoom] /\ RoomsAfterExpiry \in [Room -> RelayRoom]
      /\ RoomsAfterExpiry[r].state \in {"waiting", "ended"}
  BY ExpiryType DEF RoomsAfterExpiry, IInv, TypeOK, RelayRoom
<1>2. ASSUME NEW s \in Socket, Idle(s) PROVE FALSE
  BY <1>1, <1>2, IdleStep
<1>3. ASSUME NEW s \in Socket, NEW c \in Code, NEW d \in HostDevice, RegisterHost(s, c, d)
      PROVE  FALSE
  BY <1>1, <1>3 DEF RegisterHost, ManagerRegisterHost, OnlyExpiry
<1>4. ASSUME NEW s \in Socket, NEW c \in Code, NEW d \in GuestDevice, RegisterGuest(s, c, d)
      PROVE  FALSE
  <2>1. rooms' # RoomsAfterExpiry
    BY <1>1
  <2>2. ManagerRegisterGuest(s, c)
    BY <1>4, <2>1 DEF RegisterGuest, OnlyExpiry
  <2>3. ByCodeAfterExpiry[c] = r
    <3>1. ByCodeAfterExpiry[c] # r => rooms'[r] = RoomsAfterExpiry[r]
      BY <1>1, <2>2, ExpiryType DEF ManagerRegisterGuest, IInv
    <3> QED
      BY <1>1, <3>1
  <2>4. roomsByCode[c] = r /\ r \notin ExpiredRooms
    BY <2>3 DEF ByCodeAfterExpiry
  <2> QED
    BY <2>4 DEF ExpiredRooms
<1>5. ASSUME NEW s \in Socket, NEW old \in Socket, Reconnect(s, old) PROVE FALSE
  BY <1>1, <1>5 DEF Reconnect, ReconnectAccepted, ReconnectRefused, managerVars, RelayRoom
<1>6. ASSUME NEW s \in Socket, ApproveAccess(s) \/ RejectAccess(s) PROVE FALSE
  BY <1>1, <1>6 DEF ApproveAccess, RejectAccess, HasRequest, IInv, TypeOK, RelayRoom
<1>7. ASSUME NEW s \in Socket, SocketClosed(s) \/ GraceTimerFires(s) PROVE FALSE
  <2>1. CASE rooms' = rooms
    BY <2>1
  <2>2. CASE ReleaseSocket(s, roomsBySocket[s]) /\ roomsBySocket[s] # None
    <3>1. PICK k \in Room : k = roomsBySocket[s]
      BY <2>2 DEF IInv, TypeOK
    <3> QED
      BY <2>2, <3>1, ReleaseFacts
  <2> QED
    BY <1>7, <2>1, <2>2 DEF SocketClosed, HandleDisconnect, GraceTimerFires, CleanupRoom, managerVars
<1>8. CASE ExpirySweep
  BY <1>1, <1>8 DEF ExpirySweep, OnlyExpiry
<1> QED
  BY <1>2, <1>3, <1>4, <1>5, <1>6, <1>7, <1>8 DEF Next, Idle

(* registerGuest runs expireRooms first: a guest is never admitted to a    *)
(* room whose TTL has elapsed, whether or not the sweep has run.           *)
THEOREM ExpiredCodesAreDead == Spec => ExpiredCodeAdmitsNobody
<1> DEFINE Dead == \A r \in Room : rooms[r].state = "waiting" /\ r \in elapsed =>
                        rooms'[r].state # "pending"
<1>1. IInv /\ [Next]_vars => [Dead]_vars
  BY DeadStep
<1>2. [][Dead]_vars => ExpiredCodeAdmitsNobody
  BY DEF ExpiredCodeAdmitsNobody
<1> QED
  BY <1>1, <1>2, Invariance, PTL DEF Spec

(***************************************************************************)
(* The life cycle of a room.                                               *)
(***************************************************************************)

(* What one handler does to the room k it is about: the room appears, it   *)
(* is asked for, approved or ended, or a client takes the seat back that   *)
(* its device has.                                                         *)
RoomMoves(k) ==
    \/ rooms[k].state = None /\ rooms'[k].state = "waiting"
    \/ /\ rooms[k].state = "waiting" /\ rooms'[k].state = "pending"
       /\ rooms'[k].host = rooms[k].host
    \/ /\ rooms[k].state = "pending" /\ rooms'[k].state = "active"
       /\ rooms'[k].host = rooms[k].host /\ rooms'[k].guest = rooms[k].guest
    \/ /\ rooms[k].state # None /\ rooms'[k].state = "ended"
    \/ /\ rooms[k].state = "active" /\ rooms'[k].state = "active"
       /\ client'[rooms'[k].host].device = client[rooms[k].host].device
       /\ client'[rooms'[k].guest].device = client[rooms[k].guest].device

(* A handler identifies a connection that has no room, or none: the        *)
(* devices of the members of a room stay what they are.                    *)
LEMMA DevicesKept ==
    ASSUME IInv, Next, NEW r \in Room, NEW x \in Members(r)
    PROVE  client'[x].device = client[x].device
<1> USE NoneAssumption DEF Room
<1> x \in Socket /\ Known(x)
  BY MembersAreKnown
<1>1. ASSUME NEW s \in Socket, Opening(s), NEW role, NEW d, NEW q, Identify(s, role, d, q)
      PROVE  client'[x] = client[x]
  <2>1. x # s
    BY <1>1, FreshSocket
  <2> QED
    BY <1>1, <2>1 DEF Identify, IInv, TypeOK
<1>2. ASSUME NEW s \in Socket, Idle(s) PROVE client'[x] = client[x]
  <2>1. CASE ConnectRefused(s)
    <3>1. x # s
      BY <2>1 DEF ConnectRefused, IInv, SocketShape, Known, NoClient
    <3> QED
      BY <2>1, <3>1 DEF ConnectRefused, Identify, IInv, TypeOK
  <2>2. CASE \E role \in {"host", "guest"}, d \in HostDevice \cup GuestDevice :
                 RegistrationLimited(s, role, d)
    BY <1>1, <2>2 DEF RegistrationLimited
  <2> QED
    BY <1>2, <2>1, <2>2
    DEF Idle, Connect, RefusedClosed, MessageDropped, ForwardToPeer, TtlElapses, ApproveFails,
        RejectFails, AnswerFails
<1>3. ASSUME NEW s \in Socket, NEW c \in Code, NEW d \in HostDevice, RegisterHost(s, c, d)
      PROVE  client'[x] = client[x]
  BY <1>1, <1>3 DEF RegisterHost
<1>4. ASSUME NEW s \in Socket, NEW c \in Code, NEW d \in GuestDevice, RegisterGuest(s, c, d)
      PROVE  client'[x] = client[x]
  BY <1>1, <1>4 DEF RegisterGuest
<1>5. ASSUME NEW s \in Socket, NEW o \in Socket, Reconnect(s, o) PROVE client'[x] = client[x]
  BY <1>1, <1>5 DEF Reconnect
<1>6. ASSUME NEW s \in Socket, ApproveAccess(s) PROVE client'[x].device = client[x].device
  <2>1. PICK q, peers :
            client' = [y \in Socket |-> IF y \in peers /\ readyState[y] = "open"
                                        THEN [client[y] EXCEPT !.session = q] ELSE client[y]]
    BY <1>6 DEF ApproveAccess
  <2> QED
    BY <2>1 DEF IInv, TypeOK, Client
<1>7. ASSUME NEW s \in Socket, RejectAccess(s) \/ SocketClosed(s) \/ GraceTimerFires(s)
      PROVE  client'[x] = client[x]
  BY <1>7 DEF RejectAccess, SocketClosed, GraceTimerFires
<1>8. CASE ExpirySweep
  BY <1>8 DEF ExpirySweep
<1> QED
  BY <1>2, <1>3, <1>4, <1>5, <1>6, <1>7, <1>8 DEF Next, Idle

(* Every handler leaves a room as it is or moves it along its life cycle.  *)
LEMMA RoomCases ==
    ASSUME IInv, Next, NEW k \in Room
    PROVE  rooms'[k] = rooms[k] \/ RoomMoves(k)
<1> USE NoneAssumption DEF Room
<1>1. /\ rooms \in [Room -> RelayRoom] /\ RoomsAfterExpiry \in [Room -> RelayRoom]
      /\ RoomsAfterExpiry[k] = rooms[k]
           \/ (RoomsAfterExpiry[k].state = "ended" /\ rooms[k].state # None)
      /\ RoomsAfterExpiry[k].host = rooms[k].host
      /\ RoomsAfterExpiry[k].state = "waiting" => rooms[k].state = "waiting"
  BY ExpiryType, ExpiryFacts DEF IInv, TypeOK, Unapproved
<1>2. ASSUME NEW s \in Socket, Idle(s) PROVE rooms'[k] = rooms[k]
  BY <1>2, IdleStep
<1>3. ASSUME rooms' = RoomsAfterExpiry PROVE rooms'[k] = rooms[k] \/ RoomMoves(k)
  BY <1>1, <1>3 DEF RoomMoves
<1>4. ASSUME NEW s \in Socket, NEW c \in Code, NEW d \in HostDevice, RegisterHost(s, c, d)
      PROVE  rooms'[k] = rooms[k] \/ RoomMoves(k)
  <2>1. rooms[s].state = None
    BY <1>4, FreshSocket DEF RegisterHost, NoRoom
  <2>2. CASE ManagerRegisterHost(s, c)
    <3>1. rooms'[k] = RoomsAfterExpiry[k] \/ (k = s /\ rooms'[k].state = "waiting")
      BY <1>1, <2>2 DEF ManagerRegisterHost
    <3> QED
      BY <1>1, <2>1, <3>1 DEF RoomMoves
  <2> QED
    BY <1>3, <1>4, <2>2 DEF RegisterHost, OnlyExpiry
<1>5. ASSUME NEW s \in Socket, NEW c \in Code, NEW d \in GuestDevice, RegisterGuest(s, c, d)
      PROVE  rooms'[k] = rooms[k] \/ RoomMoves(k)
  <2>1. CASE ManagerRegisterGuest(s, c)
    <3> DEFINE r == ByCodeAfterExpiry[c]
    <3>1. r \in Room /\ RoomsAfterExpiry[r].state = "waiting"
      BY <2>1, ExpiryType DEF ManagerRegisterGuest, IInv
    <3>2. rooms' = [RoomsAfterExpiry EXCEPT ![r].guest = s, ![r].state = "pending"]
      BY <2>1 DEF ManagerRegisterGuest
    <3>3. \/ rooms'[k] = RoomsAfterExpiry[k]
          \/ /\ k = r /\ rooms'[k].state = "pending"
             /\ rooms'[k].host = RoomsAfterExpiry[k].host
      BY <1>1, <3>1, <3>2 DEF RelayRoom
    <3> QED
      BY <1>1, <3>1, <3>3 DEF RoomMoves
  <2> QED
    BY <1>3, <1>5, <2>1 DEF RegisterGuest, OnlyExpiry
<1>6. ASSUME NEW s \in Socket, NEW o \in Socket, Reconnect(s, o)
      PROVE  rooms'[k] = rooms[k] \/ RoomMoves(k)
  <2> DEFINE r == client[o].session
             d == client[o].device
  <2>1. CASE ReconnectRefused(s, r, d)
    BY <2>1 DEF ReconnectRefused, managerVars
  <2>2. CASE ReconnectAccepted(s, r, d)
    <3>1. r \in Room /\ rooms[r].state = "active"
      BY <2>2 DEF ReconnectAccepted, IInv, TypeOK
    <3>2. client'[s].device = d
      BY <1>6 DEF Reconnect, Identify, IInv, TypeOK
    <3>3. CASE Seat(r, d) = "host"
      <4>1. rooms' = [rooms EXCEPT ![r].host = s] /\ client[rooms[r].host].device = d
        BY <2>2, <3>3 DEF ReconnectAccepted, Seat
      <4>2. rooms[r].guest \in Members(r)
        BY <3>1 DEF IInv, RoomShape, Active, Members
      <4>3. client'[rooms[r].guest].device = client[rooms[r].guest].device
        BY <3>1, <4>2, DevicesKept
      <4> QED
        BY <1>1, <3>1, <3>2, <4>1, <4>3 DEF RoomMoves, RelayRoom
    <3>4. CASE Seat(r, d) # "host"
      <4>1. rooms' = [rooms EXCEPT ![r].guest = s] /\ client[rooms[r].guest].device = d
        BY <2>2, <3>4 DEF ReconnectAccepted, Seat
      <4>2. rooms[r].host \in Members(r)
        BY <3>1 DEF IInv, RoomShape, Active, Members
      <4>3. client'[rooms[r].host].device = client[rooms[r].host].device
        BY <3>1, <4>2, DevicesKept
      <4> QED
        BY <1>1, <3>1, <3>2, <4>1, <4>3 DEF RoomMoves, RelayRoom
    <3> QED
      BY <3>3, <3>4
  <2> QED
    BY <1>6, <2>1, <2>2 DEF Reconnect
<1>7. ASSUME NEW s \in Socket, ApproveAccess(s) \/ RejectAccess(s)
      PROVE  rooms'[k] = rooms[k] \/ RoomMoves(k)
  <2>1. roomsBySocket[s] = s /\ s \in Room /\ rooms[s].state \in {"pending", "ended"}
    BY <1>7, AnswerIsOwn DEF ApproveAccess, RejectAccess
  <2> QED
    BY <1>1, <1>7, <2>1 DEF ApproveAccess, RejectAccess, RoomMoves, RelayRoom
<1>8. ASSUME NEW s \in Socket, SocketClosed(s) \/ GraceTimerFires(s)
      PROVE  rooms'[k] = rooms[k] \/ RoomMoves(k)
  <2>1. CASE rooms' = rooms
    BY <2>1
  <2>2. CASE ReleaseSocket(s, roomsBySocket[s]) /\ roomsBySocket[s] # None
    <3>1. PICK r \in Room : r = roomsBySocket[s]
      BY <2>2 DEF IInv, TypeOK
    <3>2. rooms[r].state # None
      BY <3>1 DEF IInv, RegistryConsistent, RoomShape, Members, NoRoom
    <3> QED
      BY <2>2, <3>1, <3>2, ReleaseFacts DEF RoomMoves
  <2> QED
    BY <1>8, <2>1, <2>2 DEF SocketClosed, HandleDisconnect, GraceTimerFires, CleanupRoom, managerVars
<1>9. CASE ExpirySweep
  BY <1>3, <1>9 DEF ExpirySweep, OnlyExpiry
<1> QED
  BY <1>2, <1>4, <1>5, <1>6, <1>7, <1>8, <1>9 DEF Next, Idle

(* The device in a seat of a live room, as the life cycle shows it. *)
Sharer(r) == IF Unapproved(r) \/ Active(r) THEN client[rooms[r].host].device ELSE None
(* The device that is waiting for, or has, the guest's seat of r. *)
Joiner(r) == IF rooms[r].state = "pending" \/ Active(r) THEN client[rooms[r].guest].device
             ELSE None

(* The life cycle shows devices that may sit where they sit. *)
LEMMA LifeCycleType == IInv => LifeCycle!TypeOK
<1> SUFFICES ASSUME IInv PROVE LifeCycle!TypeOK
  OBVIOUS
<1>1. \A r \in Room : rooms[r].state \in {None, "waiting", "pending", "active", "ended"}
  BY DEF IInv, TypeOK, RelayRoom, RelayState
<1>2. \A r \in Room : Sharer(r) \in HostDevice \cup {None} /\ Joiner(r) \in GuestDevice \cup {None}
  BY DEF IInv, SeatDevices, Sharer, Joiner
<1> QED
  BY <1>1, <1>2 DEF LifeCycle!TypeOK, Sharer, Joiner

(* A step of the relay is a step of the life cycle of every room. *)
LEMMA LifeCycleStep ==
    ASSUME IInv, IInv', Next, NEW k \in Room
    PROVE  LifeCycle!Share(k) \/ LifeCycle!Ask(k) \/ LifeCycle!Grant(k) \/ LifeCycle!End(k)
               \/ LifeCycle!Stay(k)
<1> USE NoneAssumption
<1>1. /\ rooms[k].host # None => client'[rooms[k].host].device = client[rooms[k].host].device
      /\ rooms[k].guest # None => client'[rooms[k].guest].device = client[rooms[k].guest].device
  BY DevicesKept DEF Members
<1>2. /\ rooms[k].state # None => rooms[k].host # None
      /\ rooms[k].state = "pending" \/ Active(k) => rooms[k].guest # None
  BY DEF IInv, RoomShape
<1>3. Sharer(k)' \in HostDevice \cup {None} /\ Joiner(k)' \in GuestDevice \cup {None}
  BY DEF IInv, SeatDevices, Sharer, Joiner
<1>4. /\ Unapproved(k)' => client'[rooms'[k].host].device \in HostDevice
      /\ (rooms[k].state = "pending")' => client'[rooms'[k].guest].device \in GuestDevice
  BY DEF IInv, SeatDevices, Unapproved
<1> USE DEF Sharer, Joiner, Unapproved, Active
<1>5. CASE rooms'[k] = rooms[k]
  <2>1. Sharer(k)' = Sharer(k) /\ Joiner(k)' = Joiner(k)
    BY <1>1, <1>2, <1>5
  <2> QED
    BY <1>5, <2>1 DEF LifeCycle!Stay
<1>6. CASE rooms[k].state = None /\ rooms'[k].state = "waiting"
  BY <1>4, <1>6 DEF LifeCycle!Share
<1>7. CASE /\ rooms[k].state = "waiting" /\ rooms'[k].state = "pending"
           /\ rooms'[k].host = rooms[k].host
  BY <1>1, <1>2, <1>4, <1>7 DEF LifeCycle!Ask
<1>8. CASE /\ rooms[k].state = "pending" /\ rooms'[k].state = "active"
           /\ rooms'[k].host = rooms[k].host /\ rooms'[k].guest = rooms[k].guest
  BY <1>1, <1>2, <1>8 DEF LifeCycle!Grant
<1>9. CASE rooms[k].state # None /\ rooms'[k].state = "ended"
  <2>1. Sharer(k)' = None /\ Joiner(k)' = None
    BY <1>9
  <2>2. CASE rooms[k].state = "ended"
    BY <1>9, <2>1, <2>2 DEF LifeCycle!Stay
  <2>3. CASE rooms[k].state # "ended"
    <3>1. rooms[k].state \in {"waiting", "pending", "active"}
      BY <1>9, <2>3 DEF IInv, TypeOK, RelayRoom, RelayState
    <3> QED
      BY <1>9, <2>1, <3>1 DEF LifeCycle!End
  <2> QED
    BY <2>2, <2>3
<1>10. CASE /\ rooms[k].state = "active" /\ rooms'[k].state = "active"
            /\ client'[rooms'[k].host].device = client[rooms[k].host].device
            /\ client'[rooms'[k].guest].device = client[rooms[k].guest].device
  BY <1>10 DEF LifeCycle!Stay
<1> QED
  BY <1>5, <1>6, <1>7, <1>8, <1>9, <1>10, RoomCases DEF RoomMoves

(* The relay implements the life cycle the documentation draws: every      *)
(* handler moves each room one step along waiting, pending, active, ended, *)
(* and while a session is active the two devices of its approved request   *)
(* stay its members.                                                       *)
THEOREM ImplementsLifeCycle == Spec => LifeCycleSpec
<1>1. Init => LifeCycle!Init
  BY NoneAssumption DEF Init, NoRoom, LifeCycle!Init, Unapproved, Active
<1>2. IInv' => LifeCycle!TypeOK'
  BY LifeCycleType, PTL
<1>3. IInv /\ IInv' /\ [Next]_vars => [LifeCycle!Next]_(LifeCycle!vars)
  <2> SUFFICES ASSUME IInv, IInv', [Next]_vars PROVE [LifeCycle!Next]_(LifeCycle!vars)
    OBVIOUS
  <2>1. CASE Next
    BY <1>2, <2>1, LifeCycleStep DEF LifeCycle!Next
  <2>2. CASE UNCHANGED vars
    BY <2>2 DEF vars, LifeCycle!vars, Unapproved, Active
  <2> QED
    BY <2>1, <2>2
<1> QED
  BY <1>1, <1>3, Invariance, PTL DEF Spec, LifeCycleSpec, LifeCycle!Spec

(***************************************************************************)
(* Share codes.                                                            *)
(***************************************************************************)

(* A step that gives no room a code, opens no room and takes out of        *)
(* roomsByCode only the code of room k, which is not open, keeps the codes *)
(* of the others.                                                          *)
LEMMA CodesKept ==
    ASSUME IInv, CodeInv, NEW k \in Room,
           \A r \in Room : rooms'[r].code = rooms[r].code,
           \A r \in Room : Unapproved(r)' => Unapproved(r) /\ r # k,
           \A c \in Code : c # rooms[k].code => roomsByCode'[c] = roomsByCode[c]
    PROVE  CodeInv'
<1>1. \A q, r \in Room : rooms'[q].code # None /\ rooms'[q].code = rooms'[r].code => q = r
  BY DEF CodeInv
<1>2. ASSUME NEW r \in Room, Unapproved(r)' PROVE roomsByCode'[rooms'[r].code] = r
  <2>1. rooms[r].code \in Code /\ rooms[r].code # None
    BY <1>2, NoneAssumption DEF IInv, RoomShape, TypeOK, RelayRoom, Unapproved
  <2>2. rooms[r].code # rooms[k].code
    BY <1>2, <2>1 DEF CodeInv
  <2> QED
    BY <1>2, <2>1, <2>2 DEF CodeInv, CodeLeadsToRoom
<1> QED
  BY <1>1, <1>2 DEF CodeInv, CodeLeadsToRoom

(* expireRooms takes the codes of the rooms it ends, and no others. *)
LEMMA ExpiryKeepsCodes ==
    ASSUME IInv, CodeInv
    PROVE  \A r \in Room : RoomsAfterExpiry[r].state \in {"waiting", "pending"} =>
               /\ r \notin ExpiredRooms /\ Unapproved(r) /\ rooms[r].code \in Code
               /\ ByCodeAfterExpiry[rooms[r].code] = r
<1> SUFFICES ASSUME NEW r \in Room, RoomsAfterExpiry[r].state \in {"waiting", "pending"}
             PROVE  /\ r \notin ExpiredRooms /\ Unapproved(r) /\ rooms[r].code \in Code
                    /\ ByCodeAfterExpiry[rooms[r].code] = r
  OBVIOUS
<1>1. r \notin ExpiredRooms /\ Unapproved(r)
  BY ExpiryFacts DEF Unapproved
<1>2. rooms[r].code \in Code
  BY <1>1, NoneAssumption DEF IInv, RoomShape, TypeOK, RelayRoom, Unapproved
<1> QED
  BY <1>1, <1>2 DEF CodeInv, CodeLeadsToRoom, ByCodeAfterExpiry

(* When no code is used twice, every handler keeps the codes apart and in  *)
(* the map while their rooms are open.                                     *)
LEMMA CodeStep ==
    ASSUME ReuseCodes = FALSE, IInv, CodeInv, Next
    PROVE  CodeInv'
<1> USE NoneAssumption DEF Room
<1>1. /\ rooms \in [Room -> RelayRoom] /\ RoomsAfterExpiry \in [Room -> RelayRoom]
      /\ roomsByCode \in [Code -> Room \cup {None}]
      /\ ByCodeAfterExpiry \in [Code -> Room \cup {None}]
      /\ \A r \in Room : RoomsAfterExpiry[r].code = rooms[r].code
  BY ExpiryType, ExpiryFacts DEF IInv, TypeOK
<1>2. ASSUME rooms' = rooms, roomsByCode' = roomsByCode PROVE CodeInv'
  BY <1>2 DEF CodeInv, CodeLeadsToRoom, Unapproved
<1>3. ASSUME OnlyExpiry PROVE CodeInv'
  <2>1. \A q, r \in Room : rooms'[q].code # None /\ rooms'[q].code = rooms'[r].code => q = r
    BY <1>1, <1>3 DEF OnlyExpiry, CodeInv
  <2>2. \A r \in Room : Unapproved(r)' => roomsByCode'[rooms'[r].code] = r
    BY <1>1, <1>3, ExpiryKeepsCodes DEF OnlyExpiry, Unapproved
  <2> QED
    BY <2>1, <2>2 DEF CodeInv, CodeLeadsToRoom
<1>4. ASSUME NEW s \in Socket, Idle(s) PROVE CodeInv'
  <2>1. roomsByCode' = roomsByCode
    BY <1>4
    DEF Idle, Connect, ConnectRefused, RefusedClosed, MessageDropped, ForwardToPeer, TtlElapses,
        ApproveFails, RejectFails, AnswerFails, RegistrationLimited, managerVars
  <2> QED
    BY <1>2, <1>4, <2>1, IdleStep
<1>5. ASSUME NEW s \in Socket, NEW c \in Code, NEW d \in HostDevice, RegisterHost(s, c, d)
      PROVE  CodeInv'
  <2>1. CASE ManagerRegisterHost(s, c)
    <3>1. \A r \in Room : rooms[r].code # c
      BY <1>5 DEF RegisterHost, MayAsk
    <3>2. /\ rooms'[s].code = c /\ \A r \in Room : r # s => rooms'[r] = RoomsAfterExpiry[r]
          /\ roomsByCode'[c] = s
          /\ \A x \in Code : x # c => roomsByCode'[x] = ByCodeAfterExpiry[x]
      BY <1>1, <2>1 DEF ManagerRegisterHost
    <3>3. \A q, r \in Room : rooms'[q].code # None /\ rooms'[q].code = rooms'[r].code => q = r
      BY <1>1, <3>1, <3>2 DEF CodeInv
    <3>4. \A r \in Room : Unapproved(r)' => roomsByCode'[rooms'[r].code] = r
      BY <1>1, <3>1, <3>2, ExpiryKeepsCodes DEF Unapproved
    <3> QED
      BY <3>3, <3>4 DEF CodeInv, CodeLeadsToRoom
  <2> QED
    BY <1>3, <1>5, <2>1 DEF RegisterHost
<1>6. ASSUME NEW s \in Socket, NEW c \in Code, NEW d \in GuestDevice, RegisterGuest(s, c, d)
      PROVE  CodeInv'
  <2>1. CASE ManagerRegisterGuest(s, c)
    <3> DEFINE r == ByCodeAfterExpiry[c]
    <3>1. r \in Room /\ RoomsAfterExpiry[r].state = "waiting"
      BY <1>1, <2>1 DEF ManagerRegisterGuest
    <3>2. /\ rooms' = [RoomsAfterExpiry EXCEPT ![r].guest = s, ![r].state = "pending"]
          /\ roomsByCode' = ByCodeAfterExpiry
      BY <2>1 DEF ManagerRegisterGuest
    <3>3. \A q \in Room : /\ rooms'[q].code = rooms[q].code
                          /\ rooms'[q].state \in {"waiting", "pending"} =>
                                 RoomsAfterExpiry[q].state \in {"waiting", "pending"}
      BY <1>1, <3>1, <3>2 DEF RelayRoom
    <3>4. \A q, p \in Room : rooms'[q].code # None /\ rooms'[q].code = rooms'[p].code => q = p
      BY <3>3 DEF CodeInv
    <3>5. \A q \in Room : Unapproved(q)' => roomsByCode'[rooms'[q].code] = q
      BY <3>2, <3>3, ExpiryKeepsCodes DEF Unapproved
    <3> QED
      BY <3>4, <3>5 DEF CodeInv, CodeLeadsToRoom
  <2> QED
    BY <1>3, <1>6, <2>1 DEF RegisterGuest
<1>7. ASSUME NEW s \in Socket, NEW o \in Socket, Reconnect(s, o) PROVE CodeInv'
  <2>1. roomsByCode' = roomsByCode
    BY <1>7 DEF Reconnect, ReconnectAccepted, ReconnectRefused, managerVars
  <2>2. \A r \in Room : rooms'[r].code = rooms[r].code /\ rooms'[r].state = rooms[r].state
    BY <1>1, <1>7 DEF Reconnect, ReconnectAccepted, ReconnectRefused, managerVars, RelayRoom
  <2> QED
    BY <2>1, <2>2 DEF CodeInv, CodeLeadsToRoom, Unapproved
<1>8. ASSUME NEW s \in Socket, ApproveAccess(s) \/ RejectAccess(s) PROVE CodeInv'
  <2>1. roomsBySocket[s] = s /\ s \in Room /\ rooms[s].code \in Code
    BY <1>8, AnswerIsOwn DEF ApproveAccess, RejectAccess
  <2>2. /\ \A r \in Room : r # s => rooms'[r] = rooms[r]
        /\ rooms'[s].code = rooms[s].code /\ rooms'[s].state \in {"active", "ended"}
        /\ roomsByCode' = [roomsByCode EXCEPT ![rooms[s].code] = None]
    BY <1>1, <1>8, <2>1 DEF ApproveAccess, RejectAccess, RelayRoom
  <2> QED
    BY <1>1, <2>1, <2>2, CodesKept DEF Unapproved
<1>9. ASSUME NEW s \in Socket, SocketClosed(s) \/ GraceTimerFires(s) PROVE CodeInv'
  <2>1. CASE ReleaseSocket(s, roomsBySocket[s]) /\ roomsBySocket[s] # None
    <3>1. PICK k \in Room : k = roomsBySocket[s]
      BY <2>1 DEF IInv, TypeOK
    <3>2. /\ \A r \in Room : r # k => rooms'[r] = rooms[r]
          /\ rooms'[k].code = rooms[k].code /\ rooms'[k].state = "ended"
      BY <2>1, <3>1, ReleaseFacts
    <3>3. \A c \in Code : c # rooms[k].code => roomsByCode'[c] = roomsByCode[c]
      BY <1>1, <2>1, <3>1 DEF ReleaseSocket
    <3> QED
      BY <3>2, <3>3, CodesKept DEF Unapproved
  <2> QED
    BY <1>2, <1>9, <2>1 DEF SocketClosed, HandleDisconnect, GraceTimerFires, CleanupRoom, managerVars
<1>10. CASE ExpirySweep
  BY <1>3, <1>10 DEF ExpirySweep
<1> QED
  BY <1>4, <1>5, <1>6, <1>7, <1>8, <1>9, <1>10 DEF Next, Idle

(* "waiting: host registered a code and is waiting for a guest": while no  *)
(* host asks for a code used before, the code of an unapproved room leads  *)
(* to it, whatever expireRooms, releaseSocket and a late reject take out   *)
(* of roomsByCode.                                                         *)
THEOREM CodesLead == ASSUME ReuseCodes = FALSE PROVE Spec => []CodeLeadsToRoom
<1>1. Init => CodeInv
  BY NoneAssumption DEF Init, NoRoom, CodeInv, CodeLeadsToRoom, Unapproved
<1>2. IInv /\ CodeInv /\ [Next]_vars => CodeInv'
  <2> SUFFICES ASSUME IInv, CodeInv, [Next]_vars PROVE CodeInv'
    OBVIOUS
  <2>1. CASE UNCHANGED vars
    BY <2>1 DEF vars, CodeInv, CodeLeadsToRoom, Unapproved
  <2> QED
    BY <2>1, CodeStep
<1>3. CodeInv => CodeLeadsToRoom
  BY DEF CodeInv
<1> QED
  BY <1>1, <1>2, <1>3, Invariance, PTL DEF Spec

(* A socket that says whose it is says it once, and is a device of that    *)
(* role.                                                                   *)
Identified(s) ==
    /\ client[s].role \in {"host", "guest"} =>
           client'[s].role = client[s].role /\ client'[s].device = client[s].device
    /\ client'[s].role = "host" => client'[s].device \in HostDevice
    /\ client'[s].role = "guest" => client'[s].device \in GuestDevice

(* An opening message names a device of its sender's role. *)
LEMMA IdentifyKeepsRoles ==
    ASSUME IInv, RoleInv, NEW s \in Socket, client[s].role = None,
           NEW role, NEW d, NEW k, Identify(s, role, d, k),
           role = "host" => d \in HostDevice, role = "guest" => d \in GuestDevice
    PROVE  \A x \in Socket : Identified(x)
<1>1. client \in [Socket -> Client]
  BY DEF IInv, TypeOK
<1>2. /\ client'[s].role = role /\ client'[s].device = d
      /\ \A x \in Socket : x # s => client'[x] = client[x]
  BY <1>1 DEF Identify
<1> QED
  BY <1>2, NoneAssumption DEF Identified, RoleInv

(* Every handler keeps who the sockets are. *)
LEMMA IdentifiedStep ==
    ASSUME IInv, RoleInv, Next
    PROVE  \A s \in Socket : Identified(s)
<1> DEFINE Goal == \A s \in Socket : Identified(s)
<1>1. ASSUME client' = client PROVE Goal
  BY <1>1 DEF RoleInv, Identified
<1>2. ASSUME NEW s \in Socket, ConnectRefused(s) PROVE Goal
  <2>1. client[s].role = None
    BY <1>2 DEF ConnectRefused, IInv, SocketShape, NoClient
  <2> QED
    BY <1>2, <2>1, IdentifyKeepsRoles DEF ConnectRefused
<1>3. ASSUME NEW s \in Socket, NEW d \in HostDevice,
             RegistrationLimited(s, "host", d) \/ \E c \in Code : RegisterHost(s, c, d)
      PROVE  Goal
  BY <1>3, IdentifyKeepsRoles DEF RegistrationLimited, RegisterHost, Opening
<1>4. ASSUME NEW s \in Socket, NEW d \in GuestDevice,
             RegistrationLimited(s, "guest", d) \/ \E c \in Code : RegisterGuest(s, c, d)
      PROVE  Goal
  BY <1>4, IdentifyKeepsRoles DEF RegistrationLimited, RegisterGuest, Opening
<1>5. ASSUME NEW s \in Socket, NEW old \in Socket, Reconnect(s, old) PROVE Goal
  BY <1>5, IdentifyKeepsRoles DEF Reconnect, Opening, RoleInv
<1>6. ASSUME NEW s \in Socket, ApproveAccess(s) PROVE Goal
  <2>1. \A x \in Socket : client'[x].role = client[x].role /\ client'[x].device = client[x].device
    BY <1>6 DEF ApproveAccess, IInv, TypeOK, Client
  <2> QED
    BY <2>1 DEF RoleInv, Identified
<1> QED
  BY <1>1, <1>2, <1>3, <1>4, <1>5, <1>6
  DEF Next, Connect, RefusedClosed, MessageDropped, ForwardToPeer, TtlElapses, ApproveFails,
      RejectFails, AnswerFails, RejectAccess, SocketClosed, GraceTimerFires, ExpirySweep

(* A seat is kept, given up, or taken by a socket of its role. *)
SeatsKept(r) ==
    /\ rooms'[r].host \in {None, rooms[r].host} \/ client'[rooms'[r].host].role = "host"
    /\ rooms'[r].guest \in {None, rooms[r].guest} \/ client'[rooms'[r].guest].role = "guest"

(* A reconnection takes the seat of the role it had: its device holds that *)
(* seat, and no device holds seats of both kinds.                          *)
LEMMA ReconnectTakesOwnSeat ==
    ASSUME HostDevice \cap GuestDevice = {}, IInv, RoleInv,
           NEW s \in Socket, NEW o \in Socket, Reconnect(s, o)
    PROVE  \A r \in Room : SeatsKept(r)
<1> USE NoneAssumption DEF Room
<1>1. ASSUME rooms' = rooms PROVE \A r \in Room : SeatsKept(r)
  BY <1>1 DEF SeatsKept
<1>2. CASE ReconnectAccepted(s, client[o].session, client[o].device)
  <2> DEFINE k == client[o].session
             d == client[o].device
  <2>1. k \in Room /\ client[o].role \in {"host", "guest"} /\ client'[s].role = client[o].role
    BY DEF Reconnect, Identify, IInv, TypeOK, SocketShape, Client
  <2>2. /\ rooms[k].host \in Socket /\ client[rooms[k].host].role = "host"
        /\ rooms[k].guest # None =>
               rooms[k].guest \in Socket /\ client[rooms[k].guest].role = "guest"
    BY <1>2, <2>1 DEF ReconnectAccepted, IInv, TypeOK, RoomShape, RelayRoom, RoleInv, RoleKept
  <2>3. Seat(k, d) = client[o].role
    BY <1>2, <2>1, <2>2 DEF ReconnectAccepted, Seat, RoleInv
  <2>4. /\ \A r \in Room : r # k => rooms'[r] = rooms[r]
        /\ Seat(k, d) = "host" => rooms'[k].host = s /\ rooms'[k].guest = rooms[k].guest
        /\ Seat(k, d) = "guest" => rooms'[k].guest = s /\ rooms'[k].host = rooms[k].host
    BY <1>2, <2>1 DEF ReconnectAccepted, IInv, TypeOK, RelayRoom
  <2> QED
    BY <2>1, <2>3, <2>4 DEF SeatsKept
<1> QED
  BY <1>1, <1>2 DEF Reconnect, ReconnectRefused, managerVars

(* Every handler keeps the seats. *)
LEMMA SeatsKeptStep ==
    ASSUME HostDevice \cap GuestDevice = {}, IInv, RoleInv, Next
    PROVE  \A r \in Room : SeatsKept(r)
<1> USE NoneAssumption DEF Room
<1> DEFINE Goal == \A r \in Room : SeatsKept(r)
<1>1. /\ rooms \in [Room -> RelayRoom] /\ RoomsAfterExpiry \in [Room -> RelayRoom]
      /\ client \in [Socket -> Client]
      /\ ByCodeAfterExpiry \in [Code -> Room \cup {None}]
      /\ \A r \in Room : /\ RoomsAfterExpiry[r].host = rooms[r].host
                         /\ RoomsAfterExpiry[r].guest = rooms[r].guest
  BY ExpiryType, ExpiryFacts DEF IInv, TypeOK
<1>2. ASSUME rooms' = rooms \/ OnlyExpiry PROVE Goal
  BY <1>1, <1>2 DEF SeatsKept, OnlyExpiry
<1>3. ASSUME NEW s \in Socket, NEW c \in Code, NEW d \in HostDevice, RegisterHost(s, c, d)
      PROVE  Goal
  <2>1. CASE ManagerRegisterHost(s, c)
    <3>1. /\ rooms'[s].host = s /\ rooms'[s].guest = None
          /\ \A r \in Room : r # s => rooms'[r] = RoomsAfterExpiry[r]
      BY <1>1, <2>1 DEF ManagerRegisterHost
    <3>2. client'[s].role = "host"
      BY <1>1, <1>3 DEF RegisterHost, Identify
    <3> QED
      BY <1>1, <3>1, <3>2 DEF SeatsKept
  <2> QED
    BY <1>2, <1>3, <2>1 DEF RegisterHost
<1>4. ASSUME NEW s \in Socket, NEW c \in Code, NEW d \in GuestDevice, RegisterGuest(s, c, d)
      PROVE  Goal
  <2>1. CASE ManagerRegisterGuest(s, c)
    <3> DEFINE k == ByCodeAfterExpiry[c]
    <3>1. /\ k \in Room
          /\ rooms' = [RoomsAfterExpiry EXCEPT ![k].guest = s, ![k].state = "pending"]
      BY <1>1, <2>1 DEF ManagerRegisterGuest
    <3>2. /\ rooms'[k].guest = s /\ rooms'[k].host = rooms[k].host
          /\ \A r \in Room : r # k => rooms'[r] = RoomsAfterExpiry[r]
      BY <1>1, <3>1 DEF RelayRoom
    <3>3. client'[s].role = "guest"
      BY <1>1, <1>4 DEF RegisterGuest, Identify
    <3> QED
      BY <1>1, <3>2, <3>3 DEF SeatsKept
  <2> QED
    BY <1>2, <1>4, <2>1 DEF RegisterGuest
<1>5. ASSUME NEW s \in Socket, ApproveAccess(s) \/ RejectAccess(s) PROVE Goal
  BY <1>1, <1>5 DEF ApproveAccess, RejectAccess, RelayRoom, SeatsKept
<1>6. ASSUME NEW s \in Socket, SocketClosed(s) \/ GraceTimerFires(s) PROVE Goal
  <2>1. CASE ReleaseSocket(s, roomsBySocket[s]) /\ roomsBySocket[s] # None
    <3>1. PICK k \in Room : k = roomsBySocket[s]
      BY <2>1 DEF IInv, TypeOK
    <3> QED
      BY <2>1, <3>1, ReleaseFacts DEF SeatsKept
  <2> QED
    BY <1>2, <1>6, <2>1
    DEF SocketClosed, HandleDisconnect, GraceTimerFires, TimedRoom, CleanupRoom, managerVars
<1>7. ASSUME NEW s \in Socket,
             \/ Connect(s) \/ ConnectRefused(s) \/ RefusedClosed(s) \/ MessageDropped(s)
             \/ ForwardToPeer(s) \/ TtlElapses(s) \/ ApproveFails(s) \/ RejectFails(s)
             \/ \E d \in HostDevice : RegistrationLimited(s, "host", d)
             \/ \E d \in GuestDevice : RegistrationLimited(s, "guest", d)
      PROVE  Goal
  <2>1. Idle(s)
    BY <1>7 DEF Idle
  <2> QED
    BY <1>2, <2>1, IdleStep
<1>8. CASE ExpirySweep
  BY <1>2, <1>8 DEF ExpirySweep
<1> QED
  BY <1>3, <1>4, <1>5, <1>6, <1>7, <1>8, ReconnectTakesOwnSeat DEF Next

(* "The identity must match the original peer for the corresponding role": *)
(* when no device is both a host and a guest, a seat is only ever held by  *)
(* a connection of its role, however many reconnections have taken it over *)
(* by device.                                                              *)
THEOREM RolesKept == ASSUME HostDevice \cap GuestDevice = {} PROVE Spec => []RoleKept
<1>1. Init => RoleInv
  BY NoneAssumption DEF Init, NoRoom, NoClient, RoleInv, RoleKept
<1>2. IInv /\ RoleInv /\ [Next]_vars => RoleInv'
  <2> SUFFICES ASSUME IInv, RoleInv, [Next]_vars PROVE RoleInv'
    OBVIOUS
  <2>1. CASE UNCHANGED vars
    BY <2>1 DEF vars, RoleInv, RoleKept
  <2>2. CASE Next
    <3>1. /\ \A s \in Socket : Identified(s)
          /\ \A r \in Room : SeatsKept(r)
      BY <2>2, IdentifiedStep, SeatsKeptStep
    <3>2. rooms \in [Room -> RelayRoom]
      BY DEF IInv, TypeOK
    <3> QED
      BY <3>1, <3>2, NoneAssumption DEF RoleInv, RoleKept, Identified, SeatsKept, RelayRoom
  <2> QED
    BY <2>1, <2>2
<1>3. RoleInv => RoleKept
  BY DEF RoleInv
<1> QED
  BY <1>1, <1>2, <1>3, Invariance, PTL DEF Spec

=============================================================================
