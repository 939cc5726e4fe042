------------------------------ MODULE CliProofs ------------------------------
(***************************************************************************)
(* Proofs about Cli: both commands, for any pool of connections and any    *)
(* number of attempts.  HostCli and GuestCli run on the same ClientLink,   *)
(* so what their steps do to the connections is proved once.               *)
(***************************************************************************)
EXTENDS Cli, TLAPS

(***************************************************************************)
(* The inductive invariant.                                                *)
(***************************************************************************)

(* A connection has no conversation before it opens and after it closes.   *)
(* Before the session there is only the first connection and no            *)
(* reconnection; from then on, a connection that still registers is none   *)
(* of the living.                                                          *)
LinkShape ==
    /\ \A c \in Connection : readyState[c] \in {"connecting", "closed"} => link[c] = "new"
    /\ ~sessionId =>
           /\ \A c \in Connection : c # First => readyState[c] = "closed"
           /\ \A c \in Connection : attempt[c] = None
           /\ \A n \in Attempt : timers[n] = 0
    /\ sessionId => \A c \in Connection : attempt[c] = None /\ readyState[c] # "closed" =>
                        link[c] \notin {"new", "sent"}

(* The connection. *)
LinkInv == LinkTypeOK /\ LinkShape /\ NeverIdle

(* Who connects has no shell. *)
HostInv ==
    /\ Share!TypeOK
    /\ command = "connect" => child = "none"

(* The terminal has been raw since there is a session, with one listener   *)
(* at most; currentSocket is the first connection before the session and   *)
(* one that has opened after it.                                           *)
GuestInv ==
    /\ Connect!TypeOK
    /\ isRaw => command = "connect" /\ sessionId
    /\ command = "connect" /\ sessionId => isRaw
    /\ ~isRaw => listeners = 0
    /\ TypedOnce
    /\ command = "connect" /\ ~sessionId => currentSocket \in {First, None}
    /\ command = "connect" /\ sessionId /\ currentSocket # None =>
           readyState[currentSocket] \in {"open", "closing"}

(* The inductive invariant. *)
IInv == command \in {"share", "connect"} /\ LinkInv /\ HostInv /\ GuestInv

(***************************************************************************)
(* The connections.                                                        *)
(***************************************************************************)

USE LinkAssumption

(* 0 is an attempt, and a scheduled attempt has a timer. *)
LEMMA ScheduledFacts ==
    ASSUME NEW t \in [Attempt -> 0 .. MaxTimers], NEW n \in Attempt
    PROVE  /\ 0 \in Attempt
           /\ Scheduled(t, n) \in [Attempt -> 0 .. MaxTimers]
           /\ Scheduled(t, n)[n] > 0
           /\ \A m \in Attempt : t[m] > 0 => Scheduled(t, n)[m] > 0
BY DEF Attempt, Scheduled

(* A connection that closes is freed, and a reconnection follows if there  *)
(* is a session left.                                                      *)
LEMMA ClosesStep ==
    ASSUME LinkInv, NEW c \in Connection, Free(c),
           NEW t \in [Attempt -> 0 .. MaxTimers], isClosed' \in BOOLEAN,
           ~isClosed' => sessionId /\ timers' = Scheduled(t, 0),
           isClosed' => timers' = t,
           ~sessionId => t = timers,
           UNCHANGED <<sessionId, forgotten>>
    PROVE  LinkInv'
<1>1. /\ timers' \in [Attempt -> 0 .. MaxTimers]
      /\ ~isClosed' => \E n \in Attempt : timers'[n] > 0
  <2>1. 0 \in Attempt
    BY DEF Attempt
  <2> QED
    BY <2>1, ScheduledFacts
<1>2. LinkTypeOK'
  BY <1>1 DEF LinkInv, LinkTypeOK, Free, ReadyState, Phase
<1>3. LinkShape'
  BY DEF LinkInv, LinkTypeOK, LinkShape, Free
<1>4. NeverIdle'
  BY <1>1 DEF NeverIdle
<1> QED
  BY <1>2, <1>3, <1>4 DEF LinkInv

(* The close event. *)
LEMMA SocketClosedStep ==
    ASSUME LinkInv, NEW c \in Connection, SocketClosed(c)
    PROVE  LinkInv'
<1>1. isClosed' \in BOOLEAN
  BY DEF LinkInv, LinkTypeOK, SocketClosed
<1>2. ~isClosed' => sessionId
  BY DEF SocketClosed
<1> QED
  BY <1>1, <1>2, ClosesStep DEF LinkInv, LinkTypeOK, SocketClosed

(* A connection that cannot be made schedules its own retry too. *)
LEMMA ConnectFailsStep ==
    ASSUME LinkInv, NEW c \in Connection, ConnectFails(c)
    PROVE  LinkInv'
<1>1. isClosed' \in BOOLEAN
  BY DEF LinkInv, LinkTypeOK, ConnectFails, GivesUp
<1>2. ~isClosed' => sessionId
  BY DEF ConnectFails
<1>3. RetryScheduled(c) \in [Attempt -> 0 .. MaxTimers]
  <2>1. attempt[c] # None /\ ~GivesUp(c) => attempt[c] + 1 \in Attempt
    BY DEF LinkInv, LinkTypeOK, GivesUp, Attempt
  <2> QED
    BY <2>1, ScheduledFacts DEF LinkInv, LinkTypeOK, RetryScheduled
<1>4. ~sessionId => RetryScheduled(c) = timers
  BY DEF LinkInv, LinkShape, RetryScheduled
<1> QED
  BY <1>1, <1>2, <1>3, <1>4, ClosesStep DEF ConnectFails

(* A timer makes a connection, or finds the peer closed. *)
LEMMA TimerStep ==
    ASSUME LinkInv, NEW n \in Attempt, NEW c \in Connection,
           TimerFires(n, c) \/ TimerFiresClosed(n)
    PROVE  LinkInv'
<1>1. timers' \in [Attempt -> 0 .. MaxTimers] /\ sessionId /\ sessionId' = sessionId
  BY DEF LinkInv, LinkTypeOK, LinkShape, TimerFires, TimerFiresClosed
<1>2. LinkTypeOK'
  BY <1>1 DEF LinkInv, LinkTypeOK, TimerFires, TimerFiresClosed, ReadyState
<1>3. LinkShape'
  <2>1. n # None
    BY DEF Attempt
  <2> QED
    BY <1>1, <2>1 DEF LinkInv, LinkTypeOK, LinkShape, TimerFires, TimerFiresClosed
<1>4. NeverIdle'
  BY DEF LinkInv, LinkTypeOK, NeverIdle, TimerFires, TimerFiresClosed
<1> QED
  BY <1>2, <1>3, <1>4 DEF LinkInv

(* A connection opens and sends its opening message. *)
LEMMA SocketOpensStep ==
    ASSUME LinkInv, NEW c \in Connection, SocketOpens(c), sessionId => attempt[c] # None
    PROVE  LinkInv'
<1>1. LinkTypeOK'
  BY DEF LinkInv, LinkTypeOK, SocketOpens, Advance, ReadyState, Phase
<1>2. LinkShape'
  BY DEF LinkInv, LinkTypeOK, LinkShape, SocketOpens, Advance
<1>3. NeverIdle'
  BY DEF LinkInv, LinkTypeOK, NeverIdle, SocketOpens
<1> QED
  BY <1>1, <1>2, <1>3 DEF LinkInv

(* The connections that live in a session are past the registration. *)
LEMMA OpensReconnecting ==
    ASSUME LinkInv, NEW c \in Connection, readyState[c] = "connecting", sessionId
    PROVE  attempt[c] # None
BY DEF LinkInv, LinkShape

(* A conversation that is under way goes on, or its connection is closed   *)
(* by this side.                                                           *)
Converses(c) ==
    /\ UNCHANGED <<attempt, timers>>
    /\ readyState' = readyState \/ CloseSocket(c)
    /\ link' = link \/ (Receiving(c) /\ \E phase \in Phase \ {"new", "sent"} : Advance(c, phase))
    /\ isClosed' = isClosed \/ isClosed' = TRUE
    /\ forgotten' = forgotten \/ forgotten' = TRUE
    /\ \/ sessionId' = sessionId
       \/ sessionId' = TRUE /\ Receiving(c) /\ Advance(c, "ready")

(* Nothing of that disturbs the invariant. *)
LEMMA ConversesStep ==
    ASSUME LinkInv, NEW c \in Connection, Converses(c)
    PROVE  LinkInv'
<1>1. /\ readyState' \in [Connection -> ReadyState]
      /\ \A x \in Connection : /\ readyState'[x] = "closed" <=> readyState[x] = "closed"
                               /\ readyState'[x] = "connecting" <=> readyState[x] = "connecting"
  BY DEF Converses, CloseSocket, LinkInv, LinkTypeOK, ReadyState
<1>2. /\ link' \in [Connection -> Phase]
      /\ \A x \in Connection :
             link'[x] # link[x] => Receiving(x) /\ link'[x] \notin {"new", "sent"}
  BY DEF Converses, Advance, LinkInv, LinkTypeOK
<1>3. LinkTypeOK'
  <2>1. isClosed' \in BOOLEAN /\ sessionId' \in BOOLEAN /\ forgotten' \in BOOLEAN
    BY DEF Converses, LinkInv, LinkTypeOK
  <2> QED
    BY <1>1, <1>2, <2>1 DEF Converses, LinkInv, LinkTypeOK
<1>4. LinkShape'
  <2>1. \A x \in Connection : readyState'[x] \in {"connecting", "closed"} => link'[x] = "new"
    BY <1>1, <1>2 DEF LinkInv, LinkShape, Receiving
  <2>2. ~sessionId' =>
           /\ \A x \in Connection : x # First => readyState'[x] = "closed"
           /\ \A x \in Connection : attempt'[x] = None
           /\ \A n \in Attempt : timers'[n] = 0
    BY <1>1 DEF LinkInv, LinkShape, Converses
  <2>3. ASSUME sessionId', NEW x \in Connection, attempt'[x] = None, readyState'[x] # "closed"
        PROVE  link'[x] \notin {"new", "sent"}
    <3>1. CASE sessionId
      BY <1>1, <1>2, <2>3, <3>1 DEF LinkInv, LinkShape, Converses
    <3>2. CASE ~sessionId
      <4>1. Receiving(c) /\ link'[c] = "ready"
        BY <2>3, <3>2 DEF Converses, Advance, LinkInv, LinkTypeOK
      <4>2. x = First /\ c = First
        BY <1>1, <2>3, <3>2, <4>1 DEF LinkInv, LinkShape, Receiving
      <4> QED
        BY <4>1, <4>2
    <3> QED
      BY <3>1, <3>2
  <2> QED
    BY <2>1, <2>2, <2>3 DEF LinkShape
<1>5. NeverIdle'
  BY <1>1 DEF LinkInv, NeverIdle, Converses
<1> QED
  BY <1>3, <1>4, <1>5 DEF LinkInv

(* What the handlers of both commands do with the connections. *)
LinkMoves ==
    \/ UNCHANGED linkVars
    \/ \E c \in Connection :
        \/ SocketClosed(c) \/ ConnectFails(c) \/ SocketOpens(c) \/ Converses(c)
        \/ \E n \in Attempt : TimerFires(n, c) \/ TimerFiresClosed(n)

(* All of it keeps the invariant of the connections. *)
LEMMA LinkStep == ASSUME LinkInv, LinkMoves PROVE LinkInv'
<1>1. CASE UNCHANGED linkVars
  BY <1>1 DEF linkVars, LinkInv, LinkTypeOK, LinkShape, NeverIdle
<1>2. ASSUME NEW c \in Connection, SocketOpens(c) PROVE LinkInv'
  BY <1>2, SocketOpensStep, OpensReconnecting DEF SocketOpens
<1> QED
  BY <1>1, <1>2, SocketClosedStep, ConnectFailsStep, ConversesStep, TimerStep DEF LinkMoves

(***************************************************************************)
(* The two commands on top of them.                                        *)
(***************************************************************************)

(* HostCli and GuestCli mean the same as Cli by the names of ClientLink.   *)
LEMMA SameLink ==
    ASSUME NEW c, NEW n
    PROVE  /\ (Share!SocketClosed(c) <=> SocketClosed(c)) /\ (Connect!SocketClosed(c) <=> SocketClosed(c))
           /\ (Share!ConnectFails(c) <=> ConnectFails(c)) /\ (Connect!ConnectFails(c) <=> ConnectFails(c))
           /\ (Share!SocketOpens(c) <=> SocketOpens(c)) /\ (Connect!SocketOpens(c) <=> SocketOpens(c))
           /\ (Share!TimerFires(n, c) <=> TimerFires(n, c)) /\ (Connect!TimerFires(n, c) <=> TimerFires(n, c))
           /\ (Share!TimerFiresClosed(n) <=> TimerFiresClosed(n)) /\ (Connect!TimerFiresClosed(n) <=> TimerFiresClosed(n))
           /\ (Share!LinkReady(c) <=> LinkReady(c)) /\ (Connect!LinkReady(c) <=> LinkReady(c))
           /\ (Share!LinkResumes(c) <=> LinkResumes(c)) /\ (Connect!LinkResumes(c) <=> LinkResumes(c))
           /\ (Share!LinkError(c) <=> LinkError(c)) /\ (Connect!LinkError(c) <=> LinkError(c))
           /\ (Share!LinkEnds(c) <=> LinkEnds(c)) /\ (Connect!LinkEnds(c) <=> LinkEnds(c))
           /\ (Share!RelayForgets <=> RelayForgets) /\ (Connect!RelayForgets <=> RelayForgets)
           /\ (Share!Reached(c, n) <=> Reached(c, n)) /\ (Connect!Reached(c, n) <=> Reached(c, n))
           /\ (Share!Advance(c, n) <=> Advance(c, n)) /\ (Connect!Advance(c, n) <=> Advance(c, n))
           /\ (Share!CloseSocket(c) <=> CloseSocket(c)) /\ (Connect!CloseSocket(c) <=> CloseSocket(c))
           /\ (Share!GivesUp(c) <=> GivesUp(c)) /\ (Connect!GivesUp(c) <=> GivesUp(c))
BY DEF Share!SocketClosed, Connect!SocketClosed, SocketClosed, Share!ConnectFails,
       Connect!ConnectFails, ConnectFails, Share!SocketOpens, Connect!SocketOpens,
       SocketOpens, Share!TimerFires, Connect!TimerFires, TimerFires,
       Share!TimerFiresClosed, Connect!TimerFiresClosed, TimerFiresClosed,
       Share!LinkReady, Connect!LinkReady, LinkReady, Share!LinkResumes,
       Connect!LinkResumes, LinkResumes, Share!LinkError, Connect!LinkError, LinkError,
       Share!LinkEnds, Connect!LinkEnds, LinkEnds, Share!RelayForgets,
       Connect!RelayForgets, RelayForgets, Share!Reached, Connect!Reached, Reached,
       Share!Advance, Connect!Advance, Advance, Share!CloseSocket, Connect!CloseSocket,
       CloseSocket, Share!GivesUp, Connect!GivesUp, GivesUp, Share!Free, Connect!Free,
       Free, Share!Receiving, Connect!Receiving, Receiving, Share!Scheduled,
       Connect!Scheduled, Scheduled, Share!RetryScheduled, Connect!RetryScheduled,
       RetryScheduled, Share!Phase, Connect!Phase, Phase, Share!Attempt, Connect!Attempt,
       Attempt

(* What these handlers do is to go on with a conversation. *)
LEMMA ConversesFacts ==
    ASSUME NEW c \in Connection
    PROVE  /\ LinkError(c) \/ RelayForgets => Converses(c)
           /\ LinkResumes(c) => Converses(c)
           /\ Reached(c, Phase) /\ LinkReady(c) => Converses(c)
           /\ LinkEnds(c) /\ link' = link => Converses(c)
           /\ Receiving(c) /\ LinkEnds(c) /\ Advance(c, "over") => Converses(c)
<1> USE DEF Converses, Reached, Phase
<1>1. LinkError(c) \/ RelayForgets => Converses(c)
  BY DEF LinkError, RelayForgets
<1>2. LinkResumes(c) => Converses(c)
  BY DEF LinkResumes
<1>3. Reached(c, Phase) /\ LinkReady(c) => Converses(c)
  BY DEF LinkReady
<1>4. LinkEnds(c) /\ link' = link => Converses(c)
  BY DEF LinkEnds
<1>5. Receiving(c) /\ LinkEnds(c) /\ Advance(c, "over") => Converses(c)
  BY DEF LinkEnds
<1> QED
  BY <1>1, <1>2, <1>3, <1>4, <1>5

(* A handler of share. *)
LEMMA ShareMoves ==
    ASSUME LinkInv, Share!TypeOK, Share!Next
    PROVE  LinkMoves
<1> USE SameLink
<1>1. ASSUME NEW c \in Connection, Share!Open(c) \/ Share!Fail(c) \/ Share!Lose(c)
      PROVE  LinkMoves
  BY <1>1 DEF Share!Open, Share!Fail, Share!Lose, LinkMoves
<1>2. ASSUME NEW n \in Attempt, NEW c \in Connection, Share!Retry(n, c) \/ Share!RetryClosed(n)
      PROVE  LinkMoves
  BY <1>2 DEF Share!Retry, Share!RetryClosed, LinkMoves
<1>3. ASSUME NEW c \in Connection,
             Share!HostRegistered(c) \/ Share!AccessRequest(c)
                 \/ \E allowed \in BOOLEAN : Share!Answer(c, allowed)
      PROVE  LinkMoves
  <2>1. Receiving(c)
    BY <1>3
    DEF Share!HostRegistered, Share!AccessRequest, Share!Answer, Reached, Receiving, LinkInv,
        LinkShape, LinkTypeOK, ReadyState
  <2>2. PICK phase \in Phase \ {"new", "sent"} : Advance(c, phase)
    BY <1>3 DEF Share!HostRegistered, Share!AccessRequest, Share!Answer, Phase
  <2>3. Converses(c)
    BY <1>3, <2>1, <2>2
    DEF Share!HostRegistered, Share!AccessRequest, Share!Answer, Converses
  <2> QED
    BY <2>3 DEF LinkMoves
<1>4. ASSUME NEW c \in Connection,
             Share!SessionReady(c) \/ Share!SessionTerminate(c) \/ Share!ReconnectOk(c)
                 \/ Share!Error(c) \/ Share!Forget
      PROVE  LinkMoves
  <2>1. Converses(c)
    BY <1>4, ConversesFacts
    DEF Share!SessionReady, Share!SessionTerminate, Share!ReconnectOk, Share!Error, Share!Forget,
        Reached, Phase
  <2> QED
    BY <2>1 DEF LinkMoves
<1>5. CASE Share!ShellExits
  <2>1. CASE UNCHANGED linkVars
    BY <2>1 DEF LinkMoves
  <2>2. CASE Share!Connected /\ LinkEnds(childSocket) /\ UNCHANGED link
    <3>1. childSocket \in Connection
      BY <2>2 DEF Share!Connected, Share!TypeOK
    <3> QED
      BY <2>2, <3>1, ConversesFacts DEF LinkMoves
  <2> QED
    BY <1>5, <2>1, <2>2 DEF Share!ShellExits, Share!linkVars, linkVars
<1>6. CASE Share!OutputSent \/ Share!OutputPaused \/ Share!Drains \/ Share!KeyExchangeLost
               \/ \E c \in Connection : Share!KeyExchange(c) \/ Share!DrainCheck(c)
  BY <1>6
  DEF Share!OutputSent, Share!OutputPaused, Share!Drains, Share!KeyExchangeLost, Share!KeyExchange,
      Share!DrainCheck, Share!linkVars, linkVars, LinkMoves
<1> QED
  BY <1>1, <1>2, <1>3, <1>4, <1>5, <1>6 DEF Share!Next, Share!Attempt, Attempt

(* A handler of connect. *)
LEMMA ConnectMoves ==
    ASSUME LinkInv, Connect!TypeOK, Connect!Next
    PROVE  LinkMoves
<1> USE SameLink
<1>1. ASSUME NEW c \in Connection, Connect!Open(c) \/ Connect!Fail(c) \/ Connect!Lose(c)
      PROVE  LinkMoves
  BY <1>1 DEF Connect!Open, Connect!Fail, Connect!Lose, LinkMoves
<1>2. ASSUME NEW n \in Attempt, NEW c \in Connection, Connect!Retry(n, c) \/ Connect!RetryClosed(n)
      PROVE  LinkMoves
  BY <1>2 DEF Connect!Retry, Connect!RetryClosed, LinkMoves
<1>3. ASSUME NEW c \in Connection, Connect!AccessRejected(c) PROVE LinkMoves
  <2>1. Converses(c)
    BY <1>3 DEF Connect!AccessRejected, Converses, Reached, Phase
  <2> QED
    BY <2>1 DEF LinkMoves
<1>4. ASSUME NEW c \in Connection,
             Connect!SessionReady(c) \/ Connect!SessionTerminate(c) \/ Connect!ReconnectOk(c)
                 \/ Connect!Error(c) \/ Connect!Forget
      PROVE  LinkMoves
  <2>1. Converses(c)
    BY <1>4, ConversesFacts
    DEF Connect!SessionReady, Connect!SessionTerminate, Connect!ReconnectOk, Connect!Error,
        Connect!Forget, Reached, Phase
  <2> QED
    BY <2>1 DEF LinkMoves
<1>5. CASE Connect!Detach
  <2>1. CASE currentSocket # None
    <3>1. currentSocket \in Connection
      BY <2>1 DEF Connect!TypeOK
    <3> QED
      BY <1>5, <2>1, <3>1, ConversesFacts DEF Connect!Detach, LinkMoves
  <2>2. CASE currentSocket = None
    BY <1>5, <2>2 DEF Connect!Detach, LinkMoves, Converses
  <2> QED
    BY <2>1, <2>2
<1>6. CASE Connect!InputSent \/ Connect!InputPaused \/ Connect!Drains
               \/ \E c \in Connection : Connect!KeyExchange(c) \/ Connect!DrainCheck(c)
  BY <1>6
  DEF Connect!InputSent, Connect!InputPaused, Connect!Drains, Connect!KeyExchange,
      Connect!DrainCheck, Connect!linkVars, linkVars, LinkMoves
<1> QED
  BY <1>1, <1>2, <1>3, <1>4, <1>5, <1>6 DEF Connect!Next, Connect!Attempt, Attempt


(* The connections are typed alike in both. *)
LEMMA SameTypes ==
    /\ Share!LinkTypeOK <=> LinkTypeOK
    /\ Connect!LinkTypeOK <=> LinkTypeOK
BY DEF Share!LinkTypeOK, Connect!LinkTypeOK, LinkTypeOK, Share!ReadyState, Connect!ReadyState,
       ReadyState, Share!Phase, Connect!Phase, Phase, Share!Attempt, Connect!Attempt, Attempt

(* So they keep their types in both. *)
LEMMA SameTypesLater ==
    ASSUME LinkInv'
    PROVE  Share!LinkTypeOK' /\ Connect!LinkTypeOK'
BY SameTypes, PTL DEF LinkInv

(* A handler of share keeps the types of the host. *)
LEMMA ShareStep ==
    ASSUME LinkInv, Share!TypeOK, Share!Next, LinkInv'
    PROVE  Share!TypeOK'
<1> USE DEF Share!TypeOK
<1> DEFINE Kept == /\ ephemeral' \in BOOLEAN
                   /\ peerKey' \in {"due", "here", "lost"}
                   /\ child' \in Share!Shell
                   /\ childSocket' \in Connection \cup {None}
                   /\ buffered' \in Share!Level
                   /\ isPtyPaused' \in BOOLEAN
<1>1. ASSUME Share!shellVars' = Share!shellVars PROVE Kept
  BY <1>1 DEF Share!shellVars
<1>2. ASSUME NEW c \in Connection,
             \/ Share!Open(c) \/ \E n \in Attempt : Share!Retry(n, c)
             \/ Share!HostRegistered(c) \/ Share!AccessRequest(c)
             \/ \E allowed \in BOOLEAN : Share!Answer(c, allowed)
             \/ Share!ReconnectOk(c) \/ Share!Error(c)
      PROVE  Kept
  BY <1>1, <1>2
  DEF Share!Open, Share!Retry, Share!HostRegistered, Share!AccessRequest, Share!Answer,
      Share!ReconnectOk, Share!Error
<1>3. ASSUME Share!Forget \/ \E n \in Attempt : Share!RetryClosed(n) PROVE Kept
  BY <1>1, <1>3 DEF Share!Forget, Share!RetryClosed
<1>4. ASSUME NEW c \in Connection,
             Share!Fail(c) \/ Share!Lose(c) \/ Share!SessionTerminate(c)
      PROVE  Kept
  BY <1>4
  DEF Share!Fail, Share!Lose, Share!SessionTerminate, Share!KilledOnFailure, Share!Killed,
      Share!ForgetSocket, Share!Shell
<1>5. ASSUME NEW c \in Connection,
             Share!SessionReady(c) \/ Share!KeyExchange(c) \/ Share!DrainCheck(c)
      PROVE  Kept
  BY <1>5 DEF Share!SessionReady, Share!KeyExchange, Share!DrainCheck, Share!Shell
<1>6. ASSUME \/ Share!KeyExchangeLost \/ Share!OutputSent \/ Share!OutputPaused
             \/ Share!Drains \/ Share!ShellExits
      PROVE  Kept
  BY <1>6
  DEF Share!KeyExchangeLost, Share!OutputSent, Share!OutputPaused, Share!Drains,
      Share!ShellExits, Share!Shell, Share!Level
<1>7. Kept
  BY <1>2, <1>3, <1>4, <1>5, <1>6 DEF Share!Next, Share!Attempt, Attempt
<1> QED
  BY <1>7, SameTypesLater

(* cleanup() takes the one listener away and cannot add one. *)
LEMMA CleanupFacts ==
    ASSUME Connect!TypeOK, Connect!Cleanup
    PROVE  /\ isRaw' = isRaw
           /\ rawMode' \in BOOLEAN /\ flowing' \in BOOLEAN /\ isStdinPaused' \in BOOLEAN
           /\ listeners' \in 0 .. listeners
<1>1. listeners \in Nat
  BY DEF Connect!TypeOK, Connect!MaxListeners
<1>2. CASE isRaw
  <2>1. /\ isRaw' = isRaw /\ isStdinPaused' = isStdinPaused
        /\ rawMode' = FALSE /\ flowing' = FALSE
        /\ listeners' = IF listeners > 0 THEN listeners - 1 ELSE 0
    BY <1>2 DEF Connect!Cleanup
  <2>2. listeners' \in 0 .. listeners
    BY <1>1, <2>1
  <2> QED
    BY <2>1, <2>2 DEF Connect!TypeOK
<1>3. CASE ~isRaw
  BY <1>1, <1>3 DEF Connect!Cleanup, Connect!TypeOK, Connect!inputVars
<1> QED
  BY <1>2, <1>3

(* What GuestInv says of the terminal, and what it says of the socket.     *)
Terminal ==
    /\ isRaw \in BOOLEAN /\ rawMode \in BOOLEAN
    /\ listeners \in 0 .. 1
    /\ flowing \in BOOLEAN /\ isStdinPaused \in BOOLEAN
    /\ isRaw <=> sessionId
    /\ ~isRaw => listeners = 0

(* currentSocket, the keys and the buffer. *)
Socket ==
    /\ cipher \in BOOLEAN
    /\ keys \in {"none", "sent", "both"}
    /\ buffered \in Connect!Level
    /\ currentSocket \in Connection \cup {None}
    /\ ~sessionId => currentSocket \in {First, None}
    /\ sessionId /\ currentSocket # None => readyState[currentSocket] \in {"open", "closing"}

(* Together they are GuestInv, for the command that connects. *)
LEMMA GuestParts == command = "connect" /\ LinkInv => (GuestInv <=> Terminal /\ Socket)
<1> SUFFICES ASSUME command = "connect", LinkInv
             PROVE  GuestInv <=> Terminal /\ Socket
  OBVIOUS
<1>1. Connect!LinkTypeOK
  BY SameTypes DEF LinkInv
<1>2. listeners \in 0 .. Connect!MaxListeners /\ listeners <= 1 <=> listeners \in 0 .. 1
  BY DEF Connect!MaxListeners
<1>3. sessionId \in BOOLEAN
  BY DEF LinkInv, LinkTypeOK
<1> QED
  BY <1>1, <1>2, <1>3
  DEF GuestInv, Terminal, Socket, Connect!TypeOK, TypedOnce, Connect!TypedOnce

(* A first connection that is still registering is the only one there is.  *)
LEMMA Registering ==
    ASSUME LinkInv, NEW c \in Connection, link[c] \in {"new", "sent"}, attempt[c] = None,
           readyState[c] # "closed"
    PROVE  ~sessionId /\ c = First
BY DEF LinkInv, LinkShape, LinkTypeOK


(* A handler of connect that leaves the terminal and currentSocket alone. *)
LEMMA GuestRests ==
    ASSUME LinkInv, Terminal, Socket, UNCHANGED <<Connect!inputVars, currentSocket, sessionId>>,
           cipher' \in BOOLEAN, keys' \in {"none", "sent", "both"}, buffered' \in Connect!Level,
           \A x \in Connection : readyState[x] \in {"open", "closing"} =>
                                     readyState'[x] \in {"open", "closing"}
    PROVE  Terminal' /\ Socket'
<1>1. Terminal'
  BY DEF Terminal, Connect!inputVars
<1>2. Socket'
  BY DEF Socket
<1> QED
  BY <1>1, <1>2

(* The handlers of connect that concern the life of a connection. *)
LEMMA ConnectionsStep ==
    ASSUME LinkInv, Connect!TypeOK, Terminal, Socket, NEW c \in Connection,
           \/ Connect!Open(c) \/ Connect!Fail(c) \/ Connect!Lose(c)
           \/ \E n \in Attempt : Connect!Retry(n, c)
    PROVE  Terminal' /\ Socket'
<1> USE SameLink
<1>1. CASE Connect!Open(c)
  <2>1. SocketOpens(c) /\ UNCHANGED <<cipher, keys, Connect!inputVars, sessionId>>
        /\ currentSocket' = c /\ buffered' \in {buffered, "low"}
    BY <1>1 DEF Connect!Open, SocketOpens
  <2>2. Terminal'
    BY <2>1 DEF Terminal, Connect!inputVars
  <2>3. ~sessionId => c = First
    BY <2>1 DEF SocketOpens, LinkInv, LinkShape
  <2>4. Socket'
    BY <2>1, <2>3 DEF Socket, SocketOpens, LinkInv, LinkTypeOK, Connect!Level
  <2> QED
    BY <2>2, <2>4
<1>2. CASE Connect!Fail(c) \/ Connect!Lose(c)
  <2>1. /\ Free(c) /\ UNCHANGED <<cipher, keys, buffered, sessionId>>
        /\ currentSocket' = IF c = currentSocket THEN None ELSE currentSocket
        /\ Connect!Cleanup \/ UNCHANGED Connect!inputVars
    BY <1>2
    DEF Connect!Fail, Connect!Lose, Connect!ForgetSocket, ConnectFails, SocketClosed
  <2>2. Terminal'
    <3>1. CASE Connect!Cleanup
      <4>1. listeners' \in 0 .. 1 /\ (listeners = 0 => listeners' = 0)
        BY <3>1, CleanupFacts DEF Terminal
      <4> QED
        BY <2>1, <3>1, <4>1, CleanupFacts DEF Terminal
    <3>2. CASE UNCHANGED Connect!inputVars
      BY <2>1, <3>2 DEF Terminal, Connect!inputVars
    <3> QED
      BY <2>1, <3>1, <3>2
  <2>3. Socket'
    BY <2>1 DEF Socket, Free, LinkInv, LinkTypeOK
  <2> QED
    BY <2>2, <2>3
<1>3. CASE \E n \in Attempt : Connect!Retry(n, c)
  <2>1. PICK n \in Attempt : TimerFires(n, c) /\ UNCHANGED Connect!guestVars
    BY <1>3 DEF Connect!Retry
  <2> QED
    BY <2>1, GuestRests
    DEF TimerFires, Connect!guestVars, Socket, LinkInv, LinkTypeOK
<1> QED
  BY <1>1, <1>2, <1>3

(* The messages a guest receives. *)
LEMMA MessagesStep ==
    ASSUME LinkInv, Connect!TypeOK, Terminal, Socket, NEW c \in Connection,
           \/ Connect!SessionReady(c) \/ Connect!KeyExchange(c) \/ Connect!AccessRejected(c)
           \/ Connect!SessionTerminate(c) \/ Connect!ReconnectOk(c) \/ Connect!Error(c)
    PROVE  Terminal' /\ Socket'
<1> USE SameLink
<1>1. CASE Connect!SessionReady(c)
  <2>1. /\ ~sessionId /\ c = First /\ Receiving(c)
        /\ UNCHANGED <<cipher, currentSocket, buffered, readyState>>
        /\ sessionId' = TRUE /\ keys' = "sent" /\ Connect!EnableRawInput
    <3>1. Connect!SessionReady(c) /\ Reached(c, {"sent"}) /\ LinkReady(c)
      BY <1>1 DEF Connect!SessionReady
    <3>2. ~sessionId /\ c = First
      BY <3>1, Registering DEF Connect!SessionReady, Reached, Receiving
    <3> QED
      BY <3>1, <3>2 DEF Connect!SessionReady, LinkReady, Reached
  <2>2. Terminal'
    <3>1. rawMode' = TRUE /\ flowing' = TRUE /\ isRaw' = TRUE /\ UNCHANGED isStdinPaused
      BY <2>1 DEF Connect!EnableRawInput
    <3>2. listeners' = 1
      BY <2>1 DEF Connect!EnableRawInput, Terminal
    <3> QED
      BY <2>1, <3>1, <3>2 DEF Terminal
  <2>3. Socket'
    BY <2>1 DEF Socket, Receiving
  <2> QED
    BY <2>2, <2>3
<1>2. CASE Connect!KeyExchange(c)
  BY <1>2, GuestRests DEF Connect!KeyExchange, Connect!linkVars, Socket
<1>3. CASE Connect!AccessRejected(c) \/ Connect!SessionTerminate(c) \/ Connect!Error(c)
  <2>1. CloseSocket(c) /\ UNCHANGED <<sessionId, Connect!guestVars>>
    BY <1>3
    DEF Connect!AccessRejected, Connect!SessionTerminate, Connect!Error, LinkEnds, LinkError
  <2> QED
    BY <2>1, GuestRests DEF CloseSocket, Connect!guestVars, Socket, LinkInv, LinkTypeOK
<1>4. CASE Connect!ReconnectOk(c)
  <2>1. /\ Reached(c, {"sent"}) /\ attempt[c] # None
        /\ UNCHANGED <<cipher, keys, currentSocket, buffered, sessionId, readyState>>
    BY <1>4 DEF Connect!ReconnectOk, LinkResumes
  <2>2. isRaw
    BY <2>1 DEF LinkInv, LinkShape, Terminal
  <2>3. UNCHANGED Connect!inputVars
    BY <1>4, <2>2 DEF Connect!ReconnectOk
  <2> QED
    BY <2>1, <2>3, GuestRests DEF Socket
<1> QED
  BY <1>1, <1>2, <1>3, <1>4

(* Input and its backpressure, and what happens without the guest. *)
LEMMA InputStep ==
    ASSUME LinkInv, Connect!TypeOK, Terminal, Socket,
           \/ Connect!InputSent \/ Connect!InputPaused \/ Connect!Detach \/ Connect!Drains
           \/ \E c \in Connection : Connect!DrainCheck(c)
           \/ Connect!Forget \/ \E n \in Attempt : Connect!RetryClosed(n)
    PROVE  Terminal' /\ Socket'
<1> USE SameLink
<1>1. CASE Connect!InputSent \/ Connect!Drains
  <2>1. /\ UNCHANGED <<Connect!inputVars, currentSocket, sessionId, readyState, cipher, keys>>
        /\ buffered' \in Connect!Level
    BY <1>1
    DEF Connect!InputSent, Connect!Drains, Connect!inputVars, Connect!linkVars, Connect!Level
  <2> QED
    BY <2>1, GuestRests DEF Socket
<1>2. CASE Connect!InputPaused \/ \E c \in Connection : Connect!DrainCheck(c)
  <2>1. /\ UNCHANGED <<isRaw, rawMode, listeners, currentSocket, sessionId, readyState, cipher,
                       keys, buffered>>
        /\ isStdinPaused' \in BOOLEAN /\ flowing' \in BOOLEAN
    BY <1>2 DEF Connect!InputPaused, Connect!DrainCheck, Connect!linkVars
  <2>2. Terminal'
    BY <2>1 DEF Terminal
  <2>3. Socket'
    BY <2>1 DEF Socket
  <2> QED
    BY <2>2, <2>3
<1>3. CASE Connect!Detach
  <2>1. /\ UNCHANGED <<Connect!inputVars, currentSocket, sessionId, cipher, keys, buffered>>
        /\ readyState' = readyState \/ CloseSocket(currentSocket)
    BY <1>3 DEF Connect!Detach, LinkEnds, Connect!inputVars
  <2> QED
    BY <2>1, GuestRests DEF CloseSocket, Socket, LinkInv, LinkTypeOK
<1>4. CASE Connect!Forget \/ \E n \in Attempt : Connect!RetryClosed(n)
  <2>1. UNCHANGED <<Connect!guestVars, sessionId, readyState>>
    BY <1>4 DEF Connect!Forget, Connect!RetryClosed, RelayForgets, TimerFiresClosed
  <2> QED
    BY <2>1, GuestRests DEF Connect!guestVars, Socket
<1> QED
  BY <1>1, <1>2, <1>3, <1>4

(* A handler of connect keeps what GuestInv says. *)
LEMMA ConnectStep ==
    ASSUME LinkInv, Connect!TypeOK, Terminal, Socket, Connect!Next
    PROVE  Terminal' /\ Socket'
BY ConnectionsStep, MessagesStep, InputStep DEF Connect!Next, Connect!Attempt, Attempt

(***************************************************************************)
(* The program.                                                            *)
(***************************************************************************)

(* The process starts in IInv. *)
LEMMA InitInv == Init => IInv
<1> SUFFICES ASSUME Init PROVE IInv
  OBVIOUS
<1>1. LinkInit
  BY DEF Init, Share!Init, Share!LinkInit, LinkInit, Share!Attempt, Attempt
<1>2. LinkInv
  <2>1. LinkTypeOK
    <3>1. timers \in [Attempt -> 0 .. MaxTimers]
      BY <1>1 DEF LinkInit
    <3>2. /\ readyState \in [Connection -> ReadyState] /\ link \in [Connection -> Phase]
          /\ attempt \in [Connection -> Attempt \cup {None}]
      BY <1>1 DEF LinkInit, ReadyState, Phase
    <3> QED
      BY <1>1, <3>1, <3>2 DEF LinkInit, LinkTypeOK
  <2>2. LinkShape /\ NeverIdle
    BY <1>1 DEF LinkInit, LinkShape, NeverIdle
  <2> QED
    BY <2>1, <2>2 DEF LinkInv
<1>3. HostInv
  BY <1>2, SameTypes
  DEF HostInv, LinkInv, Init, Share!Init, Share!TypeOK, Share!Shell, Share!Level
<1>4. GuestInv
  <2>1. Connect!Init /\ ~sessionId
    BY <1>1 DEF Init, LinkInit
  <2>2. listeners \in 0 .. Connect!MaxListeners /\ listeners <= 1
    BY <2>1 DEF Connect!Init, Connect!MaxListeners
  <2>3. ~isRaw /\ currentSocket = First /\ listeners = 0
    BY <2>1 DEF Connect!Init
  <2>4. Connect!TypeOK
    <3>1. Connect!LinkTypeOK
      BY <1>2, SameTypes DEF LinkInv
    <3> QED
      BY <2>1, <2>2, <3>1 DEF Connect!Init, Connect!TypeOK, Connect!Level
  <2> QED
    BY <2>1, <2>2, <2>3, <2>4 DEF GuestInv, TypedOnce, Connect!TypedOnce
<1> QED
  BY <1>2, <1>3, <1>4 DEF IInv, Init

(* Every step keeps it. *)
LEMMA NextInv == IInv /\ [Next]_vars => IInv'
<1> SUFFICES ASSUME IInv, [Next]_vars PROVE IInv'
  OBVIOUS
<1>1. CASE RunShare
  <2>1. command = "share" /\ Share!Next /\ UNCHANGED <<command, guestVars>>
    BY <1>1 DEF RunShare
  <2>2. LinkInv'
    BY <2>1, ShareMoves, LinkStep DEF IInv, HostInv
  <2>3. Share!TypeOK'
    BY <2>1, <2>2, ShareStep DEF IInv, HostInv
  <2>4. HostInv'
    BY <2>1, <2>3 DEF HostInv
  <2>5. GuestInv'
    <3>1. Connect!TypeOK'
      <4>1. buffered' \in Connect!Level
        BY <2>3 DEF Share!TypeOK, Share!Level, Connect!Level
      <4> QED
        BY <2>1, <2>2, <4>1, SameTypesLater DEF IInv, GuestInv, Connect!TypeOK, guestVars
    <3> QED
      BY <2>1, <3>1 DEF IInv, GuestInv, guestVars, TypedOnce, Connect!TypedOnce
  <2> QED
    BY <2>1, <2>2, <2>4, <2>5 DEF IInv
<1>2. CASE RunConnect
  <2>1. command = "connect" /\ Connect!Next /\ UNCHANGED <<command, hostVars>>
    BY <1>2 DEF RunConnect
  <2>2. LinkInv'
    BY <2>1, ConnectMoves, LinkStep DEF IInv, GuestInv
  <2>3. Terminal' /\ Socket'
    BY <2>1, GuestParts, ConnectStep DEF IInv, GuestInv
  <2>4. GuestInv'
    <3>1. (command = "connect" /\ LinkInv => (GuestInv <=> Terminal /\ Socket))'
      BY GuestParts, PTL
    <3> QED
      BY <2>1, <2>2, <2>3, <3>1
  <2>5. HostInv'
    BY <2>1, <2>2, <2>3, SameTypesLater
    DEF IInv, HostInv, Share!TypeOK, hostVars, Socket, Share!Level, Connect!Level
  <2> QED
    BY <2>1, <2>2, <2>4, <2>5 DEF IInv
<1>3. CASE UNCHANGED vars
  BY <1>3
  DEF vars, IInv, linkVars, hostVars, guestVars, LinkInv, LinkTypeOK, LinkShape, NeverIdle, HostInv,
      GuestInv, Share!TypeOK, Share!LinkTypeOK, Connect!TypeOK, Connect!LinkTypeOK, TypedOnce,
      Connect!TypedOnce
<1> QED
  BY <1>1, <1>2, <1>3 DEF Next

(* The invariant holds of every behaviour of the program.                  *)
THEOREM Invariance == Spec => []IInv
BY InitInv, NextInv, PTL DEF Spec

(* The variables of both commands keep their types. *)
THEOREM TypeCorrect == Spec => []TypeOK
<1>1. IInv => TypeOK
  BY DEF IInv, HostInv, GuestInv, TypeOK
<1> QED
  BY <1>1, Invariance, PTL

(* Until a peer is closed, a connection or a reconnection is under way,    *)
(* however many attempts failed and whoever scheduled the next ones.       *)
THEOREM AlwaysUnderWay == Spec => []NeverIdle
<1>1. IInv => NeverIdle
  BY DEF IInv, LinkInv
<1> QED
  BY <1>1, Invariance, PTL

(* onInput never meets a connection that is still being made, so ws never  *)
(* throws there.                                                           *)
THEOREM SendsWhenOpen == Spec => []NoSendWhileConnecting
<1>1. IInv => NoSendWhileConnecting
  BY DEF IInv, GuestInv, NoSendWhileConnecting, Connect!NoSendWhileConnecting, Connect!TypeOK,
         Connect!MaxListeners
<1> QED
  BY <1>1, Invariance, PTL

(* No sequence of reconnections gives onInput a second listener.           *)
THEOREM OneListener == Spec => []TypedOnce
<1>1. IInv => TypedOnce
  BY DEF IInv, GuestInv
<1> QED
  BY <1>1, Invariance, PTL

(* Whichever handler of share sets isClosed has killed the shell first.    *)
LEMMA ShareKills ==
    ASSUME IInv, command = "share", Share!Next, ~isClosed, isClosed'
    PROVE  child' # "running"
<1> USE SameLink
<1>1. \/ Share!ShellExits
      \/ \E c \in Connection : Share!Lose(c) \/ Share!Fail(c) \/ Share!SessionTerminate(c)
  BY
  DEF Share!Next, Share!Open, Share!Retry, Share!HostRegistered, Share!AccessRequest, Share!Answer,
      Share!SessionReady, Share!KeyExchange, Share!ReconnectOk, Share!Error, Share!DrainCheck,
      Share!RetryClosed, Share!Forget, Share!KeyExchangeLost, Share!OutputSent,
      Share!OutputPaused, Share!Drains, Share!linkVars, SocketOpens, TimerFires, LinkReady,
      LinkResumes, LinkError, TimerFiresClosed, RelayForgets
<1>2. ASSUME NEW c \in Connection, Share!Lose(c) PROVE child' # "running"
  BY <1>2 DEF Share!Lose, SocketClosed, Share!Killed
<1>3. ASSUME NEW c \in Connection, Share!Fail(c) PROVE child' # "running"
  BY <1>3 DEF Share!Fail, Share!KilledOnFailure, ConnectFails, Share!Killed
<1>4. ASSUME NEW c \in Connection, Share!SessionTerminate(c) PROVE child' # "running"
  BY <1>4 DEF Share!SessionTerminate, Share!Killed
<1>5. CASE Share!ShellExits
  BY <1>5 DEF Share!ShellExits
<1> QED
  BY <1>1, <1>2, <1>3, <1>4, <1>5

(* The host never leaves its shell running when it closes.                 *)
THEOREM ClosedStopsShell == Spec => CloseStopsShell
<1>1. IInv /\ [Next]_vars => [~isClosed /\ isClosed' => child' # "running"]_(Share!vars)
  <2> SUFFICES ASSUME IInv, [Next]_vars, ~isClosed, isClosed' PROVE child' # "running"
    OBVIOUS
  <2>1. CASE RunShare
    BY <2>1, ShareKills DEF RunShare
  <2>2. CASE RunConnect
    BY <2>2 DEF RunConnect, IInv, HostInv, hostVars
  <2>3. CASE UNCHANGED vars
    BY <2>3 DEF vars, linkVars
  <2> QED
    BY <2>1, <2>2, <2>3 DEF Next
<1> QED
  BY <1>1, Invariance, PTL DEF Spec, CloseStopsShell, Share!CloseStopsShell

=============================================================================
