---------------------------------- MODULE Cli ----------------------------------
(***************************************************************************)
(* A process of the command-line program (apps/cli/src/main.ts): it runs   *)
(* `share` (HostCli) or `connect` (GuestCli) to its end.                   *)
(***************************************************************************)
EXTENDS ClientLink

VARIABLES
    command,
    ephemeral, peerKey, child, childSocket, isPtyPaused,        \* of share
    cipher, keys, currentSocket, isRaw, rawMode, listeners, flowing,
    isStdinPaused,                                              \* of connect
    buffered

hostVars == <<ephemeral, peerKey, child, childSocket, isPtyPaused>>
guestVars == <<cipher, keys, currentSocket, isRaw, rawMode, listeners, flowing, isStdinPaused>>
vars == <<linkVars, command, hostVars, guestVars, buffered>>

Share == INSTANCE HostCli
Connect == INSTANCE GuestCli

TypeOK == command \in {"share", "connect"} /\ Share!TypeOK /\ Connect!TypeOK

(* The variables of the command that does not run keep their initial       *)
(* values.                                                                 *)
Init == command \in {"share", "connect"} /\ Share!Init /\ Connect!Init

RunShare == command = "share" /\ Share!Next /\ UNCHANGED <<command, guestVars>>

RunConnect == command = "connect" /\ Connect!Next /\ UNCHANGED <<command, hostVars>>

Next == RunShare \/ RunConnect

Spec == Init /\ [][Next]_vars

(***************************************************************************)
(* Fairness.  TCP decides the fate of every connection attempt and of      *)
(* every close() and delivers what is buffered, the relay answers a        *)
(* RECONNECT, timers fire, and no connection is replaced faster (a second) *)
(* than the drain intervals run (50 ms).                                   *)
(***************************************************************************)
Runs(shareStep, connectStep) ==
    \/ command = "share" /\ shareStep /\ UNCHANGED <<command, guestVars>>
    \/ command = "connect" /\ connectStep /\ UNCHANGED <<command, hostVars>>

Resolved(c) == Runs(Share!Open(c) \/ Share!Fail(c), Connect!Open(c) \/ Connect!Fail(c))
Ended(c) == readyState[c] = "closing" /\ Runs(Share!Lose(c), Connect!Lose(c))
Refused(c) == RefusalDue(c) /\ Runs(Share!Error(c), Connect!Error(c))
TimerDue(n) == Runs(\E c \in Connection : Share!Retry(n, c),
                    \E c \in Connection : Connect!Retry(n, c))
Delivered == Runs(Share!Drains, Connect!Drains)
IntervalDue == Runs(\E c \in Connection : Share!DrainCheck(c),
                    \E c \in Connection : Connect!DrainCheck(c))

FairSpec ==
    /\ Spec
    /\ \A c \in Connection : WF_vars(Resolved(c)) /\ WF_vars(Ended(c)) /\ WF_vars(Refused(c))
    /\ \A n \in Attempt : SF_vars(TimerDue(n))
    /\ WF_vars(Delivered)
    /\ WF_vars(IntervalDue)

-----------------------------------------------------------------------------
(* What the two commands promise; see HostCli and GuestCli.                *)

(* Closing always stops the shell. *)
CloseStopsShell == Share!CloseStopsShell

(* A shell paused by backpressure is resumed. *)
ShellIsResumed == Share!PausedIsResumed

(* After a reconnection the shell's output has a connection. *)
OutputResumes == Share!OutputResumes

(* The guest never sends on a connection that is still being made. *)
NoSendWhileConnecting == Connect!NoSendWhileConnecting

(* What the guest types is sent once. *)
TypedOnce == Connect!TypedOnce

(* Input paused by backpressure is resumed. *)
InputIsResumed == Connect!PausedIsResumed

=============================================================================
