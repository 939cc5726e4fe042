--------------------------- MODULE RelayInvariant ----------------------------
(***************************************************************************)
(* The inductive invariant behind the safety properties of Relay.  It adds *)
(* to them what the handlers rely on without checking it: who can be where *)
(* in a room, which sockets can be members, and what a grace timer that is *)
(* still set can point to.                                                 *)
(***************************************************************************)
EXTENDS Relay

(* A connection that has not sent its opening message is in no room, and   *)
(* nothing was sent to one that does not exist yet.                        *)
SocketShape ==
    /\ \A s \in Socket : readyState[s] = "absent" => client[s] = NoClient
    /\ \A s \in Socket : client[s].session # None => client[s].role \in {"host", "guest"}
    /\ \A r \in Room : \A s \in Members(r) : client[s].role \in {"host", "guest"}
    /\ \A r \in Room : rooms[r].state # None => client[r].role \in {"host", "guest"}

(* What the fields of a room can be in each state. *)
RoomShape ==
    \A r \in Room :
        /\ rooms[r].state = None => rooms[r] = NoRoom
        /\ rooms[r].state # None => rooms[r].host # None /\ rooms[r].code # None
        /\ rooms[r].state = "waiting" => rooms[r].guest = None
        /\ rooms[r].state = "pending" \/ Active(r) => rooms[r].guest # None
        /\ rooms[r].guest # None => rooms[r].guest # rooms[r].host
        /\ rooms[r].sessionId \in {None, r}
        /\ Active(r) => rooms[r].sessionId = r
        /\ Unapproved(r) => rooms[r].sessionId = None /\ rooms[r].host = r

(* A socket sits in one room: it sends one opening message. *)
OneRoomEach ==
    \A q, r \in Room : q # r => Members(q) \cap Members(r) = {}

(* The timer on record for a session is set and is a timer of that         *)
(* session; a timer that is set belongs to a closed socket, and if that    *)
(* socket still has a room, it is the room of the timer's session.         *)
TimerShape ==
    /\ \A r \in Room : graceTimers[r] # None => timers[graceTimers[r]] = r
    /\ \A s \in Socket : timers[s] # None => readyState[s] = "closed"
    /\ \A s \in Socket : timers[s] # None /\ roomsBySocket[s] # None =>
            roomsBySocket[s] = timers[s]

(* A host that still owes an answer owes it about its own room, which is   *)
(* not active: this is what spares reject() a look at the state.           *)
RequestShape ==
    \A s \in Socket : "ACCESS_REQUEST" \in inbox[s] =>
        /\ rooms[s].state \in {"pending", "ended"}
        /\ roomsBySocket[s] \in {None, s}

(* The members of an active session that are connected know it. *)
MembersReady ==
    \A r \in Room : Active(r) => \A s \in Members(r) : readyState[s] = "open" =>
        "SESSION_READY" \in inbox[s] \/ "RECONNECT_OK" \in inbox[s]

(* The seats of a live room hold devices that may sit there. *)
SeatDevices ==
    \A r \in Room :
        /\ Unapproved(r) \/ Active(r) => client[rooms[r].host].device \in HostDevice
        /\ rooms[r].state = "pending" \/ Active(r) =>
               client[rooms[r].guest].device \in GuestDevice

IInv ==
    /\ TypeOK
    /\ RegistryConsistent
    /\ SocketShape
    /\ RoomShape
    /\ OneRoomEach
    /\ TimerShape
    /\ RequestShape
    /\ MembersReady
    /\ SeatDevices
    /\ AbandonedIsTimed
    /\ NoTrafficBeforeReady
    /\ EndIsTold

(* With no device that is both a host and a guest. *)
RoleInv ==
    /\ \A s \in Socket : client[s].role = "host" => client[s].device \in HostDevice
    /\ \A s \in Socket : client[s].role = "guest" => client[s].device \in GuestDevice
    /\ RoleKept

(* With codes that are never used twice. *)
CodeInv ==
    /\ \A q, r \in Room : rooms[q].code # None /\ rooms[q].code = rooms[r].code => q = r
    /\ CodeLeadsToRoom

=============================================================================
