-------------------------------- MODULE Wizard --------------------------------
(***************************************************************************)
(* The interactive program (apps/cli/src/tui/app.ts): a host that creates  *)
(* a session, the guest that joins it, and the relay between them.  Each   *)
(* peer has one connection and never reconnects.                           *)
(*                                                                         *)
(* Each event handler of a peer, up to its next await, is one action; the  *)
(* awaits are the phases "deciding" (the policy is being read), "asking"   *)
(* and "choosing" (a menu is open).  The relay handles a message when it   *)
(* is sent and its answer waits in toHost or toGuest, so that a message    *)
(* may be read long after the world has changed.  The relay's messages     *)
(* that only carry a name to show (SESSION_INFO) are left out.             *)
(***************************************************************************)
EXTENDS Naturals, Sequences, SequencesExt

CONSTANT MaxChunks      \* bound on the chunks of output, and of input

ASSUME ChunksAssumption == MaxChunks \in Nat \ {0}

VARIABLES
    relay,          \* who runs the relay
    room,           \* the room of the session at the relay
    toHost, toGuest,            \* messages the relay has sent
    hostSocket, guestSocket,    \* ws readyState
    hostPhase,      \* how far the host's handlers have come
    hostEnd,        \* has the host run cleanup(), and for what?
    hostCipher,     \* is it defined?
    role,           \* the session mode
    child,          \* the shell
    hostTerminal,   \* raw: raw mode; flowing: stdin is not paused;
                    \* listening: the session's listener is on stdin
    guestReady,     \* has the guest an ephemeral key?
    guestEnd,       \* has the guest run cleanup()?
    guestCipher,
    guestTerminal,
    outputs, inputs \* chunks sent so far

hostVars == <<hostPhase, hostEnd, hostCipher, role, child, hostTerminal, outputs>>
guestVars == <<guestReady, guestEnd, guestCipher, guestTerminal, inputs>>
wires == <<relay, room, toHost, toGuest, hostSocket, guestSocket>>
vars == <<wires, hostVars, guestVars>>

Role == {"both", "self", "peer"}    \* as the host sees it

(* An encrypted role assignment is represented by the role.  INPUT and     *)
(* OUTPUT are the other ENCRYPTED_DATA, of the guest and of the host.      *)
Message ==
    {"HOST_REGISTERED", "ACCESS_REQUEST", "ACCESS_REJECTED", "SESSION_READY", "KEY_EXCHANGE",
     "INPUT", "OUTPUT", "PTY_RESIZE", "PTY_EXIT", "SESSION_TERMINATE", "ERROR"} \cup Role

Phase == {"start", "connecting", "registering", "waiting", "deciding", "asking", "answered",
          "ready", "choosing", "sharing", "failed"}

Socket == {"new", "open", "closing", "closed"}

Terminal == [raw : BOOLEAN, flowing : BOOLEAN, listening : BOOLEAN]

TypeOK ==
    /\ relay \in {"unknown", "external", "embedded", "killed"}
    /\ room \in {"none", "waiting", "pending", "active", "ended"}
    /\ toHost \in Seq(Message) /\ toGuest \in Seq(Message)
    /\ hostSocket \in Socket /\ guestSocket \in Socket
    /\ hostPhase \in Phase
    /\ hostEnd \in {"no", "error", "over"}
    /\ hostCipher \in BOOLEAN /\ guestCipher \in BOOLEAN
    /\ role \in Role \cup {"none"}
    /\ child \in {"none", "running", "killed", "exited"}
    /\ hostTerminal \in Terminal /\ guestTerminal \in Terminal
    /\ guestReady \in BOOLEAN /\ guestEnd \in BOOLEAN
    /\ outputs \in 0 .. MaxChunks /\ inputs \in 0 .. MaxChunks

Idle == [raw |-> FALSE, flowing |-> FALSE, listening |-> FALSE]

Init ==
    /\ relay = "unknown" /\ room = "none"
    /\ toHost = <<>> /\ toGuest = <<>>
    /\ hostSocket = "new" /\ guestSocket = "new"
    /\ hostPhase = "start" /\ hostEnd = "no" /\ hostCipher = FALSE
    /\ role = "none" /\ child = "none" /\ hostTerminal = Idle
    /\ guestReady = FALSE /\ guestEnd = FALSE /\ guestCipher = FALSE /\ guestTerminal = Idle
    /\ outputs = 0 /\ inputs = 0

-----------------------------------------------------------------------------
(* The relay.                                                              *)

Up == relay \in {"external", "embedded"}

(* send of the relay: nothing happens unless the socket is open. *)
Queued(queue, socket, messages) == IF socket = "open" /\ Up THEN queue \o messages ELSE queue

(* close() of a socket, by either side *)
Closing(socket) == IF socket = "open" THEN "closing" ELSE socket

(* The host sends messages for the guest; forwardToPeer.  q is what is     *)
(* left of toHost.  The message limiter may refuse one of them, which      *)
(* drops it and tells the sender, and so does a room that is not active.   *)
HostForwards(q, messages) ==
    \/ /\ hostSocket = "open" => room = "active"
       /\ toHost' = q
       /\ toGuest' = IF hostSocket = "open" THEN Queued(toGuest, guestSocket, messages)
                                            ELSE toGuest
    \/ /\ hostSocket = "open"
       /\ toHost' = Queued(q, hostSocket, <<"ERROR">>)
       /\ \E i \in 1 .. Len(messages) :
            toGuest' = IF room = "active"
                       THEN Queued(toGuest, guestSocket, RemoveAt(messages, i)) ELSE toGuest

GuestForwards(q, messages) ==
    \/ /\ guestSocket = "open" => room = "active"
       /\ toGuest' = q
       /\ toHost' = IF guestSocket = "open" THEN Queued(toHost, hostSocket, messages)
                                            ELSE toHost
    \/ /\ guestSocket = "open"
       /\ toGuest' = Queued(q, guestSocket, <<"ERROR">>)
       /\ \E i \in 1 .. Len(messages) :
            toHost' = IF room = "active"
                      THEN Queued(toHost, hostSocket, RemoveAt(messages, i)) ELSE toHost

(* handleDisconnect of the host; if the room is not active, cleanupRoom. *)
HostDisconnected ==
    /\ room' = IF room \in {"waiting", "pending"} THEN "ended" ELSE room
    /\ toGuest' = IF room \in {"pending", "active"}
                  THEN Queued(toGuest, guestSocket, <<"SESSION_TERMINATE">>) ELSE toGuest
    /\ guestSocket' = IF room = "pending" THEN Closing(guestSocket) ELSE guestSocket

(* Mutant: only the host's end of an active session is announced. *)
GuestDisconnectedQuietly ==
    /\ room' = IF room = "pending" THEN "ended" ELSE room
    /\ toHost' = IF room = "pending"
                 THEN Queued(toHost, hostSocket, <<"SESSION_TERMINATE">>) ELSE toHost

GuestDisconnected ==
    /\ room' = IF room = "pending" THEN "ended" ELSE room
    /\ toHost' = IF room \in {"pending", "active"}
                 THEN Queued(toHost, hostSocket, <<"SESSION_TERMINATE">>) ELSE toHost

(* The grace timer of an active session that one peer has left: cleanupRoom. *)
GraceEnds ==
    /\ Up
    /\ room = "active"
    /\ "closed" \in {hostSocket, guestSocket}
    /\ room' = "ended"
    /\ toHost' = Queued(toHost, hostSocket, <<"SESSION_TERMINATE">>)
    /\ toGuest' = Queued(toGuest, guestSocket, <<"SESSION_TERMINATE">>)
    /\ guestSocket' = IF hostSocket = "closed" THEN Closing(guestSocket) ELSE guestSocket
    /\ UNCHANGED <<relay, hostSocket, hostVars, guestVars>>

(* The code expires before the guest is let in: in the sweep, which tells  *)
(* the host and closes both, or in a registration, which does not.         *)
CodeExpires(swept) ==
    /\ Up
    /\ room \in {"waiting", "pending"}
    /\ room' = "ended"
    /\ toHost' = IF swept THEN Queued(toHost, hostSocket, <<"ERROR">>) ELSE toHost
    /\ hostSocket' = IF swept THEN Closing(hostSocket) ELSE hostSocket
    /\ guestSocket' = IF swept /\ room = "pending" THEN Closing(guestSocket) ELSE guestSocket
    /\ UNCHANGED <<relay, toGuest, hostVars, guestVars>>

-----------------------------------------------------------------------------
(* The host.                                                               *)

(* createSessionFlow: a relay answers, or one is started, or it does not   *)
(* come up.                                                                *)
StartRelay(found) ==
    /\ hostPhase = "start"
    /\ hostPhase' = IF found = "unknown" THEN "failed" ELSE "connecting"
    /\ relay' = found
    /\ UNCHANGED <<room, toHost, toGuest, hostSocket, guestSocket, hostEnd, hostCipher, role,
                   child, hostTerminal, outputs, guestVars>>

(* REGISTER_HOST, accepted or refused. *)
HostOpens(accepted) ==
    /\ hostPhase = "connecting"
    /\ hostPhase' = "registering"
    /\ room' = IF accepted THEN "waiting" ELSE room
    /\ toHost' = <<IF accepted THEN "HOST_REGISTERED" ELSE "ERROR">>
    /\ hostSocket' = IF accepted THEN "open" ELSE "closing"
    /\ UNCHANGED <<relay, toGuest, guestSocket, hostEnd, hostCipher, role, child, hostTerminal,
                   outputs, guestVars>>

HostConnectFails ==
    /\ hostPhase = "connecting"
    /\ hostPhase' = "failed"
    /\ hostSocket' = "closed"
    /\ UNCHANGED <<relay, room, toHost, toGuest, guestSocket, hostEnd, hostCipher, role, child,
                   hostTerminal, outputs, guestVars>>

HostReads(message) ==
    /\ hostSocket \in {"open", "closing"}
    /\ toHost # <<>> /\ Head(toHost) = message

HostRegistered ==
    /\ HostReads("HOST_REGISTERED")
    /\ hostPhase' = "waiting"
    /\ toHost' = Tail(toHost)
    /\ UNCHANGED <<relay, room, toGuest, hostSocket, guestSocket, hostEnd, hostCipher, role,
                   child, hostTerminal, outputs, guestVars>>

RegistrationRefused ==
    /\ HostReads("ERROR") /\ hostPhase = "registering"
    /\ hostPhase' = "failed"
    /\ toHost' = Tail(toHost)
    /\ UNCHANGED <<relay, room, toGuest, hostSocket, guestSocket, hostEnd, hostCipher, role,
                   child, hostTerminal, outputs, guestVars>>

AccessRequest ==
    /\ HostReads("ACCESS_REQUEST")
    /\ hostPhase' = "deciding"
    /\ toHost' = Tail(toHost)
    /\ UNCHANGED <<relay, room, toGuest, hostSocket, guestSocket, hostEnd, hostCipher, role,
                   child, hostTerminal, outputs, guestVars>>

(* ACCESS_APPROVED and ACCESS_REJECTED; what the relay does with them. *)
SendAnswer(allowed) ==
    /\ hostPhase' = "answered"
    /\ \/ /\ hostSocket = "open" /\ room = "pending" /\ allowed
          /\ room' = "active"
          /\ toHost' = Queued(toHost, hostSocket, <<"SESSION_READY">>)
          /\ toGuest' = Queued(toGuest, guestSocket, <<"SESSION_READY">>)
          /\ UNCHANGED guestSocket
       \/ /\ hostSocket = "open" /\ room = "pending" /\ ~allowed
          /\ room' = "ended"
          /\ toGuest' = Queued(toGuest, guestSocket, <<"ACCESS_REJECTED">>)
          /\ guestSocket' = Closing(guestSocket)
          /\ UNCHANGED toHost
       \/ /\ hostSocket = "open" /\ room # "pending"
          /\ toHost' = Queued(toHost, hostSocket, <<"ERROR">>)
          /\ UNCHANGED <<room, toGuest, guestSocket>>
       \/ hostSocket # "open" /\ UNCHANGED <<room, toHost, toGuest, guestSocket>>

(* selectMenu, from its start to its answer.  Its cleanup() gives stdin    *)
(* back as it was, which is cooked and paused.                             *)
MenuOpen(t) == [t EXCEPT !.raw = TRUE, !.flowing = TRUE]
MenuClosed(t) == [t EXCEPT !.raw = FALSE, !.flowing = FALSE]

(* decideAccess returns. *)
PolicyAnswers(allowed) ==
    /\ hostPhase = "deciding"
    /\ SendAnswer(allowed)
    /\ UNCHANGED <<relay, hostSocket, hostEnd, hostCipher, role, child, hostTerminal, outputs,
                   guestVars>>

PolicyAsks ==
    /\ hostPhase = "deciding"
    /\ hostPhase' = "asking"
    /\ hostTerminal' = MenuOpen(hostTerminal)
    /\ UNCHANGED <<wires, hostEnd, hostCipher, role, child, outputs, guestVars>>

UserAnswers(allowed) ==
    /\ hostPhase = "asking" /\ hostTerminal.flowing
    /\ hostTerminal' = MenuClosed(hostTerminal)
    /\ SendAnswer(allowed)
    /\ UNCHANGED <<relay, hostSocket, hostEnd, hostCipher, role, child, outputs, guestVars>>

(* Mutant: the host's key is only sent in answer to the guest's. *)
HostSilent ==
    /\ HostReads("SESSION_READY")
    /\ hostPhase' = "ready"
    /\ toHost' = Tail(toHost)
    /\ UNCHANGED <<relay, room, toGuest, hostSocket, guestSocket, hostEnd, hostCipher, role,
                   child, hostTerminal, outputs, guestVars>>

HostSessionReady ==
    /\ HostReads("SESSION_READY")
    /\ hostPhase' = "ready"
    /\ HostForwards(Tail(toHost), <<"KEY_EXCHANGE">>)
    /\ UNCHANGED <<relay, room, hostSocket, guestSocket, hostEnd, hostCipher, role, child,
                   hostTerminal, outputs, guestVars>>

(* The guest's key; the menu of session modes opens. *)
HostKeyExchange ==
    /\ HostReads("KEY_EXCHANGE") /\ hostPhase = "ready"
    /\ hostCipher' = TRUE
    /\ hostPhase' = "choosing"
    /\ hostTerminal' = MenuOpen(hostTerminal)
    /\ toHost' = Tail(toHost)
    /\ UNCHANGED <<relay, room, toGuest, hostSocket, guestSocket, hostEnd, role, child, outputs,
                   guestVars>>

(* The mode is chosen: the guest is told, the shell starts, and stdin goes *)
(* to it unless the guest alone is admin.                                  *)
ChooseRole(r) ==
    /\ hostPhase = "choosing" /\ hostTerminal.flowing
    /\ hostPhase' = "sharing"
    /\ role' = r
    /\ child' = "running"
    /\ hostTerminal' = [raw |-> r # "peer", flowing |-> r # "peer", listening |-> r # "peer"]
    /\ HostForwards(toHost, <<r>>)
    /\ UNCHANGED <<relay, room, hostSocket, guestSocket, hostEnd, hostCipher, outputs, guestVars>>

(* onData.  A chunk that finds the buffer full is not sent. *)
ShellOutput ==
    /\ child = "running" /\ hostCipher /\ hostSocket = "open"
    /\ outputs < MaxChunks
    /\ outputs' = outputs + 1
    /\ HostForwards(toHost, <<"OUTPUT">>)
    /\ UNCHANGED <<relay, room, hostSocket, guestSocket, hostPhase, hostEnd, hostCipher, role,
                   child, hostTerminal, guestVars>>

(* onExit *)
ShellExits ==
    /\ child \in {"running", "killed"}
    /\ child' = "exited"
    /\ HostForwards(toHost, <<"PTY_EXIT">>)
    /\ UNCHANGED <<relay, room, hostSocket, guestSocket, hostPhase, hostEnd, hostCipher, role,
                   hostTerminal, outputs, guestVars>>

(* Mutant: cleanup() leaves stdin flowing. *)
HostCleanupFlowing ==
    /\ child' = IF child = "running" THEN "killed" ELSE child
    /\ relay' = IF relay = "embedded" THEN "killed" ELSE relay
    /\ hostTerminal' = [hostTerminal EXCEPT !.raw = FALSE]

(* cleanup(): an open menu gets no more keys, for stdin is paused. *)
HostCleanup ==
    /\ child' = IF child = "running" THEN "killed" ELSE child
    /\ relay' = IF relay = "embedded" THEN "killed" ELSE relay
    /\ hostTerminal' = [hostTerminal EXCEPT !.raw = FALSE, !.flowing = FALSE]

(* The guest's input, or its size, for the shell. *)
HostInput ==
    /\ HostReads("INPUT") \/ HostReads("PTY_RESIZE")
    /\ toHost' = Tail(toHost)
    /\ UNCHANGED <<relay, room, toGuest, hostSocket, guestSocket, hostVars, guestVars>>

HostTerminate ==
    /\ HostReads("SESSION_TERMINATE")
    /\ HostCleanup
    /\ hostEnd' = "over"
    /\ toHost' = Tail(toHost)
    /\ UNCHANGED <<room, toGuest, hostSocket, guestSocket, hostPhase, hostCipher, role, outputs,
                   guestVars>>

(* ERROR: cleanup(), but the handlers stay. *)
HostError ==
    /\ HostReads("ERROR") /\ hostPhase # "registering"
    /\ HostCleanup
    /\ hostEnd' = IF hostEnd = "no" THEN "error" ELSE hostEnd
    /\ toHost' = Tail(toHost)
    /\ UNCHANGED <<room, toGuest, hostSocket, guestSocket, hostPhase, hostCipher, role, outputs,
                   guestVars>>

(* Ctrl+] *)
HostDetach ==
    /\ hostTerminal.listening /\ hostTerminal.flowing
    /\ HostForwards(toHost, <<"SESSION_TERMINATE">>)
    /\ hostSocket' = Closing(hostSocket)
    /\ UNCHANGED <<relay, room, guestSocket, hostVars, guestVars>>

(* The connection is lost, or a close() completes. *)
HostClosed ==
    /\ hostSocket \in {"open", "closing"}
    /\ hostSocket' = "closed"
    /\ toHost' = <<>>
    /\ HostDisconnected
    /\ \/ /\ hostPhase \notin {"registering", "failed"}
          /\ HostCleanup
          /\ hostEnd' = "over"
       \/ /\ hostPhase \in {"registering", "failed"}     \* nobody listens
          /\ UNCHANGED <<relay, child, hostTerminal, hostEnd>>
    /\ UNCHANGED <<hostPhase, hostCipher, role, outputs, guestVars>>

-----------------------------------------------------------------------------
(* The guest.                                                              *)

(* joinSessionFlow: REGISTER_GUEST, accepted or refused. *)
GuestOpens(accepted) ==
    /\ Up
    /\ guestSocket = "new"
    /\ accepted => room = "waiting"
    /\ room' = IF accepted THEN "pending" ELSE room
    /\ toHost' = IF accepted THEN Queued(toHost, hostSocket, <<"ACCESS_REQUEST">>) ELSE toHost
    /\ toGuest' = IF accepted THEN toGuest ELSE <<"ERROR">>
    /\ guestSocket' = IF accepted THEN "open" ELSE "closing"
    /\ UNCHANGED <<relay, hostSocket, hostVars, guestVars>>

GuestConnectFails ==
    /\ guestSocket = "new"
    /\ guestSocket' = "closed"
    /\ guestEnd' = TRUE
    /\ UNCHANGED <<relay, room, toHost, toGuest, hostSocket, hostVars, guestReady, guestCipher,
                   guestTerminal, inputs>>

GuestReads(message) ==
    /\ guestSocket \in {"open", "closing"}
    /\ toGuest # <<>> /\ Head(toGuest) = message

GuestSessionReady ==
    /\ GuestReads("SESSION_READY")
    /\ guestReady' = TRUE
    /\ guestTerminal' = [guestTerminal EXCEPT !.raw = TRUE, !.flowing = TRUE]
    /\ GuestForwards(Tail(toGuest), <<"KEY_EXCHANGE", "PTY_RESIZE">>)
    /\ UNCHANGED <<relay, room, hostSocket, guestSocket, hostVars, guestEnd, guestCipher, inputs>>

GuestKeyExchange ==
    /\ GuestReads("KEY_EXCHANGE")
    /\ guestCipher' = guestReady
    /\ toGuest' = Tail(toGuest)
    /\ UNCHANGED <<relay, room, toHost, hostSocket, guestSocket, hostVars, guestReady, guestEnd,
                   guestTerminal, inputs>>

(* Mutant: the role is not turned round for the guest. *)
SameRole(adminRole) == adminRole

(* The guest's side of a role. *)
guestRole(adminRole) ==
    CASE adminRole = "both" -> "both" [] adminRole = "self" -> "peer" [] adminRole = "peer" -> "self"

(* The role assignment; setupGuestInput. *)
GuestRoleAssigned(r) ==
    /\ GuestReads(r)
    /\ guestTerminal' = IF guestCipher /\ guestRole(r) # "peer"
                        THEN [guestTerminal EXCEPT !.listening = TRUE] ELSE guestTerminal
    /\ toGuest' = Tail(toGuest)
    /\ UNCHANGED <<relay, room, toHost, hostSocket, guestSocket, hostVars, guestReady, guestEnd,
                   guestCipher, inputs>>

(* Output is shown; ACCESS_REJECTED is reported and the relay closes the   *)
(* connection.                                                             *)
GuestShows ==
    /\ GuestReads("OUTPUT") \/ GuestReads("ACCESS_REJECTED")
    /\ toGuest' = Tail(toGuest)
    /\ UNCHANGED <<relay, room, toHost, hostSocket, guestSocket, hostVars, guestVars>>

(* Mutant: cleanup() is left to the close event. *)
GuestReturns == UNCHANGED guestTerminal

(* cleanup() *)
GuestCleanup == guestTerminal' = [guestTerminal EXCEPT !.raw = FALSE, !.flowing = FALSE]

GuestEnds ==
    /\ \E m \in {"PTY_EXIT", "SESSION_TERMINATE", "ERROR"} : GuestReads(m)
    /\ GuestCleanup
    /\ guestEnd' = TRUE
    /\ toGuest' = Tail(toGuest)
    /\ UNCHANGED <<relay, room, toHost, hostSocket, guestSocket, hostVars, guestReady,
                   guestCipher, inputs>>

GuestListens == guestTerminal.listening /\ guestTerminal.flowing

GuestTypes ==
    /\ GuestListens /\ guestSocket = "open"
    /\ inputs < MaxChunks
    /\ inputs' = inputs + 1
    /\ GuestForwards(toGuest, <<"INPUT">>)
    /\ UNCHANGED <<relay, room, hostSocket, guestSocket, hostVars, guestReady, guestEnd,
                   guestCipher, guestTerminal>>

(* Ctrl+] *)
GuestDetach ==
    /\ GuestListens
    /\ GuestForwards(toGuest, <<"SESSION_TERMINATE">>)
    /\ guestSocket' = Closing(guestSocket)
    /\ UNCHANGED <<relay, room, hostSocket, hostVars, guestVars>>

GuestClosed ==
    /\ guestSocket \in {"open", "closing"}
    /\ guestSocket' = "closed"
    /\ toGuest' = <<>>
    /\ GuestDisconnected
    /\ GuestCleanup
    /\ guestEnd' = TRUE
    /\ UNCHANGED <<relay, hostSocket, hostVars, guestReady, guestCipher, inputs>>

-----------------------------------------------------------------------------

HostHandles ==
    HostRegistered \/ RegistrationRefused \/ AccessRequest \/ HostSessionReady
    \/ HostKeyExchange \/ HostInput \/ HostTerminate \/ HostError

GuestHandles ==
    GuestSessionReady \/ GuestKeyExchange \/ (\E r \in Role : GuestRoleAssigned(r))
    \/ GuestShows \/ GuestEnds

Next ==
    \/ \E found \in {"external", "embedded", "unknown"} : StartRelay(found)
    \/ \E accepted \in BOOLEAN : HostOpens(accepted) \/ GuestOpens(accepted)
    \/ HostConnectFails \/ GuestConnectFails
    \/ HostHandles \/ GuestHandles
    \/ PolicyAsks
    \/ \E allowed \in BOOLEAN : PolicyAnswers(allowed) \/ UserAnswers(allowed)
    \/ \E r \in Role : ChooseRole(r)
    \/ ShellOutput \/ ShellExits \/ HostDetach \/ HostClosed
    \/ GuestTypes \/ GuestDetach \/ GuestClosed
    \/ GraceEnds \/ \E swept \in BOOLEAN : CodeExpires(swept)

Spec == Init /\ [][Next]_vars

(***************************************************************************)
(* Fairness: a message that has arrived is handled, and TCP completes a    *)
(* close() and notices that the relay is gone.                             *)
(***************************************************************************)
HostCloseDue == ("closing" = hostSocket \/ relay = "killed") /\ HostClosed
GuestCloseDue == ("closing" = guestSocket \/ relay = "killed") /\ GuestClosed

FairSpec ==
    /\ Spec
    /\ WF_vars(HostHandles) /\ WF_vars(GuestHandles)
    /\ WF_vars(HostCloseDue) /\ WF_vars(GuestCloseDue)

-----------------------------------------------------------------------------

(* "You Admin - only you can run commands": nothing the guest types is on  *)
(* its way to the shell unless the mode the host chose lets the guest type. *)
ViewerNeverTypes ==
    guestTerminal.listening \/ Contains(toHost, "INPUT")
        => role \in {"both", "peer"}

(* No encrypted message is dropped for want of a cipher: each side's       *)
(* KEY_EXCHANGE arrives before what it encrypts, unless the relay refused  *)
(* a message of the sender's, which it has been told or is about to be.    *)
CipherFirst ==
    /\ HostReads("INPUT") => hostCipher
    /\ (\E r \in Role : GuestReads(r)) \/ GuestReads("OUTPUT") =>
            guestCipher \/ hostEnd # "no" \/ Contains(toHost, "ERROR")

(* A session that is over has no shell, though it may end while the host   *)
(* is still choosing the mode: the menu dies with it.                      *)
NoShellAfterEnd == hostEnd = "over" => child # "running"

(* However a session ends, both terminals are given back in cooked mode.   *)
(* (The host may still be asked about a guest that has left.)              *)
TerminalsRestored ==
    /\ hostEnd = "over" /\ hostPhase # "asking" => ~hostTerminal.raw
    /\ guestEnd => ~guestTerminal.raw

(* "Guest disconnect and host disconnect both cleanly notify the peer":    *)
(* when one of two peers in a session goes, the other ends.                *)
PeerIsNotified ==
    /\ guestSocket = "closed" /\ room = "active" ~> hostEnd # "no"
    /\ hostSocket = "closed" /\ room = "active" ~> guestEnd

=============================================================================
