------------------------------ MODULE ClientLink ------------------------------
(***************************************************************************)
(* The connections of a command-line peer to the relay: connectSocket and  *)
(* attemptReconnect, which apps/cli/src/terminal/remote-host.ts and        *)
(* remote-guest.ts share word for word.  HostCli and GuestCli add what the *)
(* two peers do with them.                                                 *)
(*                                                                         *)
(* A peer runs in one Node process: every event handler is one action.     *)
(* Connection is a pool of WebSocket objects.  One that is closed can do   *)
(* nothing any more; it goes back to the pool and whoever refers to it     *)
(* refers to None, so a peer may reconnect for ever.  The relay is the     *)
(* environment: it may send on a connection whatever Relay sends in that   *)
(* phase of the conversation.                                              *)
(*                                                                         *)
(* Bounds: a failed reconnection schedules two more, so their number would *)
(* grow.  A timer waits until a WebSocket object is free, and at most      *)
(* MaxTimers timers of one attempt are counted.                            *)
(***************************************************************************)
EXTENDS Naturals

CONSTANTS Connection,               \* the pool of WebSocket objects
          First,                    \* the one connectSocket(false) makes
          MAX_RECONNECT_ATTEMPTS,
          MaxTimers,                \* bound on the pending timers of an attempt
          None                      \* undefined

ASSUME LinkAssumption ==
    /\ First \in Connection
    /\ None \notin Connection
    /\ None \notin Nat
    /\ MAX_RECONNECT_ATTEMPTS \in Nat \ {0}
    /\ MaxTimers \in Nat \ {0}

VARIABLES
    isClosed,       \* as in the code
    sessionId,      \* is it defined?
    readyState,     \* ws readyState
    attempt,        \* the attempt that made the connection, None for the first
    link,           \* how far the conversation with the relay has come
    timers,         \* attempt -> number of setTimeouts that are pending
    forgotten       \* the relay no longer has the session

linkVars == <<isClosed, sessionId, readyState, attempt, link, timers, forgotten>>

Attempt == 0 .. MAX_RECONNECT_ATTEMPTS - 1

ReadyState == {"connecting", "open", "closing", "closed"}

(* new: opening message not yet sent; sent; waiting: host registered;      *)
(* asked: the host is deciding; answered; over: refused; ready: in session. *)
Phase == {"new", "sent", "waiting", "asked", "answered", "over", "ready"}

LinkTypeOK ==
    /\ isClosed \in BOOLEAN
    /\ sessionId \in BOOLEAN
    /\ readyState \in [Connection -> ReadyState]
    /\ attempt \in [Connection -> Attempt \cup {None}]
    /\ link \in [Connection -> Phase]
    /\ timers \in [Attempt -> 0 .. MaxTimers]
    /\ forgotten \in BOOLEAN

LinkInit ==
    /\ isClosed = FALSE
    /\ sessionId = FALSE
    /\ readyState = [c \in Connection |-> IF c = First THEN "connecting" ELSE "closed"]
    /\ attempt = [c \in Connection |-> None]
    /\ link = [c \in Connection |-> "new"]
    /\ timers = [n \in Attempt |-> 0]
    /\ forgotten = FALSE

-----------------------------------------------------------------------------

(* ws emits messages until the connection is closed. *)
Receiving(c) == readyState[c] \in {"open", "closing"}

Reached(c, phases) == Receiving(c) /\ link[c] \in phases

Advance(c, phase) == link' = [link EXCEPT ![c] = phase]

(* socket.close() *)
CloseSocket(c) ==
    readyState' = [readyState EXCEPT ![c] = IF @ = "open" THEN "closing" ELSE @]

(* attemptReconnect(n), for an n it does not give up on. *)
Scheduled(t, n) == [t EXCEPT ![n] = IF @ < MaxTimers THEN @ + 1 ELSE @]

(* A closed connection goes back to the pool. *)
Free(c) ==
    /\ readyState' = [readyState EXCEPT ![c] = "closed"]
    /\ attempt' = [attempt EXCEPT ![c] = None]
    /\ link' = [link EXCEPT ![c] = "new"]

(* Mutant: reconnections are left to the handler of "error". *)
ClosedFirstOnly(c) ==
    /\ Receiving(c)
    /\ Free(c)
    /\ isClosed' = (isClosed \/ ~sessionId)
    /\ timers' = IF isClosed' \/ attempt[c] # None THEN timers ELSE Scheduled(timers, 0)
    /\ UNCHANGED <<sessionId, forgotten>>

(* The "close" event: the connection was lost, or a close() completed.     *)
SocketClosed(c) ==
    /\ Receiving(c)
    /\ Free(c)
    /\ isClosed' = (isClosed \/ ~sessionId)
    /\ timers' = IF isClosed' THEN timers ELSE Scheduled(timers, 0)
    /\ UNCHANGED <<sessionId, forgotten>>

(* attemptReconnect gives up on the attempt after this connection's. *)
GivesUp(c) == attempt[c] # None /\ attempt[c] + 1 >= MAX_RECONNECT_ATTEMPTS

(* Mutant: attemptReconnect(attempt). *)
SameAttempt(c) == IF attempt[c] # None /\ ~GivesUp(c) THEN Scheduled(timers, attempt[c])
                                                      ELSE timers

(* The handler of "error" that only reconnections have. *)
RetryScheduled(c) ==
    IF attempt[c] # None /\ ~GivesUp(c) THEN Scheduled(timers, attempt[c] + 1) ELSE timers

(* The connection cannot be made: "error", then "close". *)
ConnectFails(c) ==
    /\ readyState[c] = "connecting"
    /\ Free(c)
    /\ isClosed' = (isClosed \/ GivesUp(c) \/ ~sessionId)
    /\ timers' = IF isClosed' THEN RetryScheduled(c) ELSE Scheduled(RetryScheduled(c), 0)
    /\ UNCHANGED <<sessionId, forgotten>>

(* The callback of attemptReconnect(n).  c is a fresh WebSocket object.    *)
TimerFires(n, c) ==
    /\ timers[n] > 0
    /\ timers' = [timers EXCEPT ![n] = @ - 1]
    /\ ~isClosed
    /\ readyState[c] = "closed"
    /\ readyState' = [readyState EXCEPT ![c] = "connecting"]
    /\ attempt' = [attempt EXCEPT ![c] = n]
    /\ UNCHANGED <<isClosed, sessionId, link, forgotten>>

TimerFiresClosed(n) ==
    /\ timers[n] > 0
    /\ isClosed
    /\ timers' = [timers EXCEPT ![n] = @ - 1]
    /\ UNCHANGED <<isClosed, sessionId, readyState, attempt, link, forgotten>>

(* "open": REGISTER_HOST or REGISTER_GUEST on the first connection,        *)
(* RECONNECT on the others (they are made only once sessionId is defined). *)
SocketOpens(c) ==
    /\ readyState[c] = "connecting"
    /\ readyState' = [readyState EXCEPT ![c] = "open"]
    /\ Advance(c, "sent")
    /\ UNCHANGED <<isClosed, sessionId, attempt, timers, forgotten>>

(* SESSION_READY *)
LinkReady(c) ==
    /\ ~forgotten
    /\ sessionId' = TRUE
    /\ Advance(c, "ready")
    /\ UNCHANGED <<isClosed, readyState, attempt, timers, forgotten>>

(* RECONNECT_OK *)
LinkResumes(c) ==
    /\ Reached(c, {"sent"})
    /\ attempt[c] # None
    /\ ~forgotten
    /\ Advance(c, "ready")
    /\ UNCHANGED <<isClosed, sessionId, readyState, attempt, timers, forgotten>>

(* ERROR: a message was refused, dropped or could not be forwarded. *)
LinkError(c) ==
    /\ Reached(c, Phase \ {"new"})
    /\ CloseSocket(c)
    /\ UNCHANGED <<isClosed, sessionId, attempt, link, timers, forgotten>>

(* The peer ends the session on its side.  The relay sends nothing of the  *)
(* other peer after its end.                                               *)
LinkEnds(c) ==
    /\ isClosed' = TRUE
    /\ CloseSocket(c)
    /\ UNCHANGED <<sessionId, attempt, timers, forgotten>>

(* The room of the session ends while this peer is away: a peer that is    *)
(* connected is sent SESSION_TERMINATE.                                    *)
RelayForgets ==
    /\ sessionId
    /\ \A c \in Connection : ~Reached(c, {"ready"})
    /\ ~forgotten
    /\ forgotten' = TRUE
    /\ UNCHANGED <<isClosed, sessionId, readyState, attempt, link, timers>>

(***************************************************************************)
(* For fairness: the relay answers a RECONNECT for a session it no longer  *)
(* has with an ERROR.                                                      *)
(***************************************************************************)
RefusalDue(c) == forgotten /\ link[c] = "sent" /\ readyState[c] = "open"

-----------------------------------------------------------------------------

(* A peer never forgets its session: until it is closed, some connection   *)
(* or some reconnection is under way, whatever attempts failed.            *)
NeverIdle ==
    ~isClosed => \/ \E c \in Connection : readyState[c] # "closed"
                 \/ \E n \in Attempt : timers[n] > 0

(* If the relay stays out of reach, the peer eventually gives up.          *)
UnreachableGivesUp ==
    <>[](\A c \in Connection : readyState[c] # "open") => <>isClosed

=============================================================================
