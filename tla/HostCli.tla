------------------------------- MODULE HostCli -------------------------------
(***************************************************************************)
(* `tbridge share`: shareTerminal of apps/cli/src/terminal/remote-host.ts. *)
(* The host registers a code, answers one access request, exchanges keys   *)
(* and starts the shell, whose output goes to the connection on which the  *)
(* keys were exchanged.                                                    *)
(***************************************************************************)
EXTENDS ClientLink

VARIABLES
    ephemeral,      \* is the key pair defined?
    peerKey,        \* the guest's KEY_EXCHANGE: "due", "here" or "lost"
    child,          \* the shell
    childSocket,    \* the connection in the closure of spawnSharedPty,
                    \* None before there is one and when it is closed
    buffered,       \* bufferedAmount of childSocket, against the two marks
    isPtyPaused     \* as in the code

shellVars == <<ephemeral, peerKey, child, childSocket, buffered, isPtyPaused>>
vars == <<linkVars, shellVars>>

Shell == {"none", "running", "killed", "exited"}

(* Below BACKPRESSURE_LOW, between the marks, above BACKPRESSURE_HIGH. *)
Level == {"low", "middle", "high"}

TypeOK ==
    /\ LinkTypeOK
    /\ ephemeral \in BOOLEAN
    /\ peerKey \in {"due", "here", "lost"}
    /\ child \in Shell
    /\ childSocket \in Connection \cup {None}
    /\ buffered \in Level
    /\ isPtyPaused \in BOOLEAN

Init ==
    /\ LinkInit
    /\ ephemeral = FALSE
    /\ peerKey = "due"
    /\ child = "none"
    /\ childSocket = None
    /\ buffered = "low"
    /\ isPtyPaused = FALSE

(* child?.kill() *)
Killed == IF child = "running" THEN "killed" ELSE child

-----------------------------------------------------------------------------
(* Connections.                                                            *)

ForgetSocket(c) == childSocket' = IF c = childSocket THEN None ELSE childSocket

Lose(c) ==
    /\ SocketClosed(c)
    /\ ForgetSocket(c)
    /\ child' = IF ~isClosed /\ ~sessionId THEN Killed ELSE child
    /\ UNCHANGED <<ephemeral, peerKey, buffered, isPtyPaused>>

(* Mutant: attemptReconnect gives up without a word to the shell. *)
KilledIfNeverReady(c) == IF ~isClosed /\ ~sessionId THEN Killed ELSE child

KilledOnFailure(c) == IF GivesUp(c) \/ (~isClosed /\ ~sessionId) THEN Killed ELSE child

Fail(c) ==
    /\ ConnectFails(c)
    /\ child' = KilledOnFailure(c)
    /\ UNCHANGED <<ephemeral, peerKey, childSocket, buffered, isPtyPaused>>

Retry(n, c) == TimerFires(n, c) /\ UNCHANGED shellVars

RetryClosed(n) == TimerFiresClosed(n) /\ UNCHANGED shellVars

Open(c) == SocketOpens(c) /\ UNCHANGED shellVars

Forget == RelayForgets /\ UNCHANGED shellVars

-----------------------------------------------------------------------------
(* Messages.                                                               *)

HostRegistered(c) ==
    /\ Reached(c, {"sent"}) /\ attempt[c] = None
    /\ Advance(c, "waiting")
    /\ UNCHANGED <<isClosed, sessionId, readyState, attempt, timers, forgotten, shellVars>>

AccessRequest(c) ==
    /\ Reached(c, {"waiting"})
    /\ Advance(c, "asked")
    /\ UNCHANGED <<isClosed, sessionId, readyState, attempt, timers, forgotten, shellVars>>

(* handleApproval returns, maybe long after the connection was lost; send  *)
(* does nothing then.  After a rejection the relay sends nothing more.     *)
Answer(c, allowed) ==
    /\ link[c] = "asked"
    /\ Advance(c, IF allowed /\ readyState[c] = "open" THEN "answered" ELSE "over")
    /\ UNCHANGED <<isClosed, sessionId, readyState, attempt, timers, forgotten, shellVars>>

SessionReady(c) ==
    /\ Reached(c, {"answered"})
    /\ LinkReady(c)
    /\ ephemeral' = TRUE
    /\ UNCHANGED <<peerKey, child, childSocket, buffered, isPtyPaused>>

(* The guest's key arrives; spawnSharedPty. *)
KeyExchange(c) ==
    /\ Reached(c, {"ready"})
    /\ peerKey = "due"
    /\ peerKey' = "here"
    /\ ephemeral
    /\ child' = "running"
    /\ childSocket' = c
    /\ UNCHANGED <<linkVars, ephemeral, buffered, isPtyPaused>>

(* The relay forwards it while the host has no connection. *)
KeyExchangeLost ==
    /\ sessionId
    /\ peerKey = "due"
    /\ \A c \in Connection : ~Reached(c, {"ready"})
    /\ peerKey' = "lost"
    /\ UNCHANGED <<linkVars, ephemeral, child, childSocket, buffered, isPtyPaused>>

SessionTerminate(c) ==
    /\ Reached(c, {"asked", "answered", "ready"})
    /\ LinkEnds(c)
    /\ Advance(c, "over")
    /\ child' = Killed
    /\ UNCHANGED <<ephemeral, peerKey, childSocket, buffered, isPtyPaused>>

ReconnectOk(c) == LinkResumes(c) /\ UNCHANGED shellVars

Error(c) == LinkError(c) /\ UNCHANGED shellVars

-----------------------------------------------------------------------------
(* The shell.                                                              *)

Connected == childSocket # None /\ readyState[childSocket] = "open"

(* onData of a chunk that is sent. *)
OutputSent ==
    /\ child = "running" /\ Connected
    /\ ~isPtyPaused
    /\ buffered # "high"
    /\ buffered' \in (Level \ {"low"})
    /\ UNCHANGED <<linkVars, ephemeral, peerKey, child, childSocket, isPtyPaused>>

(* onData of a chunk that finds the buffer full: the shell is paused and   *)
(* the chunk is not sent.                                                  *)
OutputPaused ==
    /\ child = "running" /\ Connected
    /\ buffered = "high"
    /\ ~isPtyPaused
    /\ isPtyPaused' = TRUE
    /\ UNCHANGED <<linkVars, ephemeral, peerKey, child, childSocket, buffered>>

(* The connection accepts some of the data. *)
Drains ==
    /\ Connected
    /\ buffered' = IF buffered = "high" THEN "middle" ELSE "low"
    /\ buffered # "low"
    /\ UNCHANGED <<linkVars, ephemeral, peerKey, child, childSocket, isPtyPaused>>

(* Mutant: the marks are compared the wrong way round. *)
DrainedAbove(c) == c = childSocket /\ buffered = "high"

(* bufferedAmount < BACKPRESSURE_LOW; only childSocket carries much. *)
Drained(c) == c # childSocket \/ buffered = "low"

(* The interval of connection c, which runs until c is closed. *)
DrainCheck(c) ==
    /\ readyState[c] # "closed"
    /\ isPtyPaused
    /\ Drained(c)
    /\ child # "none"
    /\ isPtyPaused' = FALSE
    /\ UNCHANGED <<linkVars, ephemeral, peerKey, child, childSocket, buffered>>

(* onExit: PTY_EXIT goes out and the connection is closed if it is open. *)
ShellExits ==
    /\ child \in {"running", "killed"}
    /\ child' = "exited"
    /\ \/ Connected /\ LinkEnds(childSocket) /\ UNCHANGED link
       \/ ~Connected /\ UNCHANGED linkVars
    /\ UNCHANGED <<ephemeral, peerKey, childSocket, buffered, isPtyPaused>>

Next ==
    \/ \E c \in Connection :
        \/ Open(c) \/ Fail(c) \/ Lose(c)
        \/ \E n \in Attempt : Retry(n, c)
        \/ HostRegistered(c) \/ AccessRequest(c)
        \/ \E allowed \in BOOLEAN : Answer(c, allowed)
        \/ SessionReady(c) \/ KeyExchange(c) \/ SessionTerminate(c)
        \/ ReconnectOk(c) \/ Error(c)
        \/ DrainCheck(c)
    \/ \E n \in Attempt : RetryClosed(n)
    \/ Forget \/ KeyExchangeLost
    \/ OutputSent \/ OutputPaused \/ Drains \/ ShellExits

Spec == Init /\ [][Next]_vars

-----------------------------------------------------------------------------

(* The host never leaves its shell running when it closes, whichever of    *)
(* the handlers notices that the session is over.                          *)
CloseStopsShell == [][~isClosed /\ isClosed' => child' # "running"]_vars

(* A paused shell is resumed once its connection has drained.              *)
PausedIsResumed ==
    isPtyPaused ~> (~isPtyPaused \/ ~Connected)

(* "On successful reconnect, the relay sends RECONNECT_OK and the session  *)
(* resumes": the output of the running shell has an open connection.       *)
OutputResumes ==
    \A c \in Connection :
        /\ readyState[c] = "open" /\ link[c] = "ready" /\ attempt[c] # None
        /\ child = "running"
        => Connected

=============================================================================
