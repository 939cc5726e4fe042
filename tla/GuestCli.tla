------------------------------- MODULE GuestCli -------------------------------
(***************************************************************************)
(* `tbridge connect`: connectToShare of                                    *)
(* apps/cli/src/terminal/remote-guest.ts.  Once the session is ready the   *)
(* guest's terminal is in raw mode and every chunk typed goes to           *)
(* currentSocket, encrypted as soon as there is a cipher.                  *)
(***************************************************************************)
EXTENDS ClientLink

VARIABLES
    cipher,         \* is it defined?
    keys,           \* "none", "sent" (ours, with ephemeral), "both"
    currentSocket,  \* None when the connection is closed
    isRaw,          \* as in the code
    rawMode,        \* is the terminal in raw mode?
    listeners,      \* number of "data" listeners onInput has on stdin
    flowing,        \* process.stdin is not paused
    isStdinPaused,  \* as in the code
    buffered        \* bufferedAmount of currentSocket, against the two marks

inputVars == <<isRaw, rawMode, listeners, flowing, isStdinPaused>>
guestVars == <<cipher, keys, currentSocket, buffered, inputVars>>
vars == <<linkVars, guestVars>>

Level == {"low", "middle", "high"}

MaxListeners == 2   \* bound: one more than there may ever be

TypeOK ==
    /\ LinkTypeOK
    /\ cipher \in BOOLEAN
    /\ keys \in {"none", "sent", "both"}
    /\ currentSocket \in Connection \cup {None}
    /\ isRaw \in BOOLEAN /\ rawMode \in BOOLEAN
    /\ listeners \in 0 .. MaxListeners
    /\ flowing \in BOOLEAN /\ isStdinPaused \in BOOLEAN
    /\ buffered \in Level

Init ==
    /\ LinkInit
    /\ cipher = FALSE
    /\ keys = "none"
    /\ currentSocket = First
    /\ isRaw = FALSE /\ rawMode = FALSE
    /\ listeners = 0
    /\ flowing = FALSE /\ isStdinPaused = FALSE
    /\ buffered = "low"

-----------------------------------------------------------------------------
(* The terminal.                                                           *)

EnableRawInput ==
    /\ rawMode' = TRUE
    /\ flowing' = TRUE
    /\ listeners' = listeners + 1
    /\ isRaw' = TRUE
    /\ UNCHANGED <<isStdinPaused>>

(* cleanup(); isRaw is not reset. *)
Cleanup ==
    \/ /\ isRaw
       /\ rawMode' = FALSE
       /\ flowing' = FALSE
       /\ listeners' = IF listeners > 0 THEN listeners - 1 ELSE 0
       /\ UNCHANGED <<isRaw, isStdinPaused>>
    \/ ~isRaw /\ UNCHANGED inputVars

ForgetSocket(c) == currentSocket' = IF c = currentSocket THEN None ELSE currentSocket

-----------------------------------------------------------------------------
(* Connections.                                                            *)

Lose(c) ==
    /\ SocketClosed(c)
    /\ ForgetSocket(c)
    /\ IF ~isClosed /\ ~sessionId THEN Cleanup ELSE UNCHANGED inputVars
    /\ UNCHANGED <<cipher, keys, buffered>>

Fail(c) ==
    /\ ConnectFails(c)
    /\ ForgetSocket(c)
    /\ IF GivesUp(c) \/ (~isClosed /\ ~sessionId) THEN Cleanup ELSE UNCHANGED inputVars
    /\ UNCHANGED <<cipher, keys, buffered>>

(* Mutant: currentSocket = connectSocket(true), as for the first one. *)
RetryAssigned(n, c) ==
    /\ TimerFires(n, c)
    /\ currentSocket' = c
    /\ buffered' = "low"
    /\ UNCHANGED <<cipher, keys, inputVars>>

Retry(n, c) == TimerFires(n, c) /\ UNCHANGED guestVars

RetryClosed(n) == TimerFiresClosed(n) /\ UNCHANGED guestVars

(* A reconnection becomes currentSocket when it opens. *)
Open(c) ==
    /\ SocketOpens(c)
    /\ currentSocket' = c
    /\ buffered' = IF c = currentSocket THEN buffered ELSE "low"
    /\ UNCHANGED <<cipher, keys, inputVars>>

Forget == RelayForgets /\ UNCHANGED guestVars

-----------------------------------------------------------------------------
(* Messages.                                                               *)

SessionReady(c) ==
    /\ Reached(c, {"sent"}) /\ attempt[c] = None
    /\ LinkReady(c)
    /\ keys' = "sent"
    /\ EnableRawInput
    /\ UNCHANGED <<cipher, currentSocket, buffered>>

KeyExchange(c) ==
    /\ Reached(c, {"ready"})
    /\ keys = "sent"
    /\ keys' = "both"
    /\ cipher' = TRUE
    /\ UNCHANGED <<linkVars, currentSocket, buffered, inputVars>>

AccessRejected(c) ==
    /\ Reached(c, {"sent"}) /\ attempt[c] = None
    /\ Advance(c, "over")
    /\ CloseSocket(c)
    /\ UNCHANGED <<isClosed, sessionId, attempt, timers, forgotten, guestVars>>

(* SESSION_TERMINATE or PTY_EXIT.  The close event that follows finds      *)
(* isClosed set and returns before cleanup().                              *)
SessionTerminate(c) ==
    /\ \/ Reached(c, {"ready"})
       \/ Reached(c, {"sent"}) /\ attempt[c] = None
    /\ LinkEnds(c)
    /\ Advance(c, "over")
    /\ UNCHANGED guestVars

(* Mutant: raw input is enabled again. *)
ReconnectOkAgain(c) ==
    /\ LinkResumes(c)
    /\ EnableRawInput
    /\ UNCHANGED <<cipher, keys, currentSocket, buffered>>

ReconnectOk(c) ==
    /\ LinkResumes(c)
    /\ IF isRaw THEN UNCHANGED inputVars ELSE EnableRawInput
    /\ UNCHANGED <<cipher, keys, currentSocket, buffered>>

Error(c) == LinkError(c) /\ UNCHANGED guestVars

-----------------------------------------------------------------------------
(* Input.                                                                  *)

Typing == listeners > 0 /\ flowing

Connected == currentSocket # None /\ readyState[currentSocket] = "open"

(* onInput of a chunk.  If the connection is not open it is dropped, but   *)
(* ws counts it in bufferedAmount all the same.                            *)
InputSent ==
    /\ Typing
    /\ buffered # "high"
    /\ buffered' \in Level \ {"low"}
    /\ UNCHANGED <<linkVars, cipher, keys, currentSocket, isRaw, rawMode, listeners, flowing,
                   isStdinPaused>>

InputPaused ==
    /\ Typing
    /\ buffered = "high"
    /\ ~isStdinPaused
    /\ isStdinPaused' = TRUE
    /\ flowing' = FALSE
    /\ UNCHANGED <<linkVars, cipher, keys, currentSocket, buffered, isRaw, rawMode, listeners>>

(* onInput of Ctrl+]. *)
Detach ==
    /\ Typing
    /\ \/ currentSocket # None /\ LinkEnds(currentSocket) /\ UNCHANGED link
       \/ /\ currentSocket = None
          /\ isClosed' = TRUE
          /\ UNCHANGED <<sessionId, readyState, attempt, link, timers, forgotten>>
    /\ UNCHANGED <<cipher, keys, currentSocket, buffered, isRaw, rawMode, listeners, flowing,
                   isStdinPaused>>

Drains ==
    /\ Connected
    /\ buffered # "low"
    /\ buffered' = IF buffered = "high" THEN "middle" ELSE "low"
    /\ UNCHANGED <<linkVars, cipher, keys, currentSocket, inputVars>>

(* Mutant: the marks are compared the wrong way round. *)
DrainedAbove(c) == c = currentSocket /\ buffered = "high"

(* bufferedAmount < BACKPRESSURE_LOW *)
Drained(c) == c # currentSocket \/ buffered = "low"

(* The interval of connection c, which runs until c is closed. *)
DrainCheck(c) ==
    /\ readyState[c] # "closed"
    /\ isStdinPaused
    /\ Drained(c)
    /\ isStdinPaused' = FALSE
    /\ flowing' = TRUE
    /\ UNCHANGED <<linkVars, cipher, keys, currentSocket, buffered, isRaw, rawMode, listeners>>

Next ==
    \/ \E c \in Connection :
        \/ Open(c) \/ Fail(c) \/ Lose(c)
        \/ \E n \in Attempt : Retry(n, c)
        \/ SessionReady(c) \/ KeyExchange(c) \/ AccessRejected(c) \/ SessionTerminate(c)
        \/ ReconnectOk(c) \/ Error(c)
        \/ DrainCheck(c)
    \/ \E n \in Attempt : RetryClosed(n)
    \/ Forget
    \/ InputSent \/ InputPaused \/ Detach \/ Drains

Spec == Init /\ [][Next]_vars

-----------------------------------------------------------------------------

(* onInput never sends on a connection that is still being made, on which  *)
(* ws throws: currentSocket only changes once the new connection is open.  *)
NoSendWhileConnecting ==
    listeners > 0 /\ currentSocket # None => readyState[currentSocket] # "connecting"

(* However often the guest reconnects, what it types is sent once.         *)
TypedOnce == listeners <= 1

(* Input that was paused because the connection was full is resumed, on    *)
(* that connection or on a later one, while the guest is connected.        *)
PausedIsResumed ==
    isStdinPaused ~> (~isStdinPaused \/ ~Connected)

=============================================================================
