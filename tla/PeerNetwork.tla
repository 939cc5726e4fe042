----------------------------- MODULE PeerNetwork -----------------------------
(***************************************************************************)
(* The network of the full-screen program: NetworkManager, PeerConnection  *)
(* and the relay worker (packages/network), SessionCipher                  *)
(* (packages/crypto), and the handlers App sets up for them                *)
(* (packages/tui/src/app.ts).                                              *)
(*                                                                         *)
(* Two peers on one relay.  A socket is one connection of one peer to the  *)
(* relay and also names the share code the relay gives it.  up and down    *)
(* are what is under way to the relay and from it.  A connection of a peer *)
(* to the other is numbered in the order of creation; <<p, i>> also names  *)
(* its ephemeral key, and the two keys of a cipher name the shared secret. *)
(***************************************************************************)
EXTENDS Integers, Sequences, SequencesExt

CONSTANTS Peer,         \* two programs
          MaxSocket,    \* bound on the connections to the relay
          Asking,       \* those whose user types /connect
          MaxPairs,     \* bound on the times it is used
          MaxSends,     \* bound on the outputs and keys sent
          MaxLost,      \* bound on the messages the rate limiter discards
          None

Socket == 1 .. MaxSocket

ASSUME NetworkAssumption ==
    /\ \E p, q \in Peer : p # q /\ Peer = {p, q}
    /\ Asking \subseteq Peer
    /\ MaxSocket \in Nat /\ MaxPairs \in Nat /\ MaxSends \in Nat /\ MaxLost \in Nat
    /\ None \notin Peer \cup Nat

VARIABLES
    status,         \* of each NetworkManager
    ws,             \* its newest socket
    sessionCode,    \* the code it shows
    conns,          \* its PeerConnections; the last one is in its map
    mounted,        \* are the other's sessions mounted?
    owner,          \* the peer that made a socket
    relayOpen,      \* sockets whose close the relay has not seen
    dead,           \* sockets whose connection has failed
    up, down,       \* messages under way on each socket
    clients,        \* the relay's map from peer to socket
    socketIds,      \* its map from socket to peer
    shareCodes,     \* the codes it knows
    pairs, sent, lost,  \* counters, for the bounds
    refused         \* has a cipher refused a message?

peerVars == <<status, ws, sessionCode>>
pairVars == <<conns, mounted, refused>>
linkVars == <<owner, relayOpen, dead>>
relayVars == <<clients, socketIds, shareCodes>>
counters == <<pairs, sent, lost>>
vars == <<peerVars, pairVars, linkVars, up, down, relayVars, counters>>

Other(p) == CHOOSE q \in Peer : q # p

Key == Peer \X (1 .. MaxPairs)

TypeOK ==
    /\ status \in [Peer -> {"disconnected", "connecting", "connected"}]
    /\ ws \in [Peer -> Socket \cup {None}]
    /\ sessionCode \in [Peer -> Socket \cup {None}]
    /\ \A p \in Peer : \A i \in DOMAIN conns[p] :
        LET c == conns[p][i]
        IN  /\ c.role \in {"host", "guest"}
            /\ c.status \in {"connecting", "handshake", "encrypted", "disconnected"}
            /\ c.cipher \subseteq Key
            /\ c.cipher # {} <=> c.status \in {"encrypted", "disconnected"}
            /\ c.sendCounter \in Nat /\ c.last \in Nat \cup {-1}
    /\ mounted \in [Peer -> BOOLEAN]
    /\ owner \in [Socket -> Peer \cup {None}]
    /\ relayOpen \subseteq Socket /\ dead \subseteq Socket
    /\ clients \in [Peer -> Socket \cup {None}]
    /\ socketIds \in [Socket -> Peer \cup {None}]
    /\ shareCodes \subseteq Socket
    /\ pairs \in 0 .. MaxPairs /\ sent \in 0 .. MaxSends /\ lost \in 0 .. MaxLost
    /\ refused \in BOOLEAN

Init ==
    /\ status = [p \in Peer |-> "disconnected"]
    /\ ws = [p \in Peer |-> None]
    /\ sessionCode = [p \in Peer |-> None]
    /\ conns = [p \in Peer |-> <<>>]
    /\ mounted = [p \in Peer |-> FALSE]
    /\ owner = [s \in Socket |-> None]
    /\ relayOpen = {} /\ dead = {}
    /\ up = [s \in Socket |-> <<>>] /\ down = [s \in Socket |-> <<>>]
    /\ clients = [p \in Peer |-> None]
    /\ socketIds = [s \in Socket |-> None]
    /\ shareCodes = {}
    /\ pairs = 0 /\ sent = 0 /\ lost = 0
    /\ refused = FALSE

(* NetworkManager.send: what is sent while the socket is not open is lost. *)
Sends(p, msgs) ==
    up' = IF status[p] = "connected" /\ ws[p] \in relayOpen
          THEN [up EXCEPT ![ws[p]] = @ \o msgs] ELSE up

-----------------------------------------------------------------------------
(* NetworkManager and its socket.                                          *)

(* connect, when the program starts or the timer of scheduleReconnect      *)
(* fires.  A NetworkManager is disconnected only before either.  The timer *)
(* is set to two seconds or more, in which what was under way on an        *)
(* earlier socket has arrived or is lost.                                  *)
Connect(p) ==
    /\ status[p] = "disconnected"
    /\ \E s \in Socket :
        /\ owner[s] = None /\ \A t \in 1 .. s - 1 : owner[t] # None
        /\ owner' = [owner EXCEPT ![s] = p]
        /\ ws' = [ws EXCEPT ![p] = s]
    /\ status' = [status EXCEPT ![p] = "connecting"]
    /\ up' = [s \in Socket |-> IF owner[s] = p THEN <<>> ELSE up[s]]
    /\ UNCHANGED <<sessionCode, pairVars, relayOpen, dead, down, relayVars, counters>>

(* "open": HELLO is sent. *)
Opens(p) ==
    /\ status[p] = "connecting"
    /\ status' = [status EXCEPT ![p] = "connected"]
    /\ relayOpen' = relayOpen \cup {ws[p]}
    /\ up' = [up EXCEPT ![ws[p]] = <<[kind |-> "HELLO"]>>]
    /\ UNCHANGED <<ws, sessionCode, pairVars, owner, dead, down, relayVars, counters>>

(* "close", of a connection or of the attempt to make one. *)
Closed(p) ==
    /\ status[p] # "disconnected"
    /\ status' = [status EXCEPT ![p] = "disconnected"]
    /\ dead' = dead \cup {ws[p]}
    /\ down' = [down EXCEPT ![ws[p]] = <<>>]
    /\ UNCHANGED <<ws, sessionCode, pairVars, owner, relayOpen, up, relayVars, counters>>

-----------------------------------------------------------------------------
(* The relay worker.                                                       *)

(* Mutant: the newest socket is registered in place of the older one. *)
RegisteredAnew(p, s) ==
    [clients |-> [clients EXCEPT ![p] = s], socketIds |-> [socketIds EXCEPT ![s] = p]]

(* The first lines of handleEnvelope: the maps with p registered on s. *)
Registered(p, s) ==
    IF clients[p] # None THEN [clients |-> clients, socketIds |-> socketIds]
    ELSE [clients |-> [clients EXCEPT ![p] = s], socketIds |-> [socketIds EXCEPT ![s] = p]]

Register(p, s) ==
    /\ clients' = Registered(p, s).clients
    /\ socketIds' = Registered(p, s).socketIds

(* send: to the socket t, if there is one and it is open. *)
RelaySends(t, m) ==
    down' = IF t \in relayOpen \ dead THEN [down EXCEPT ![t] = Append(@, m)] ELSE down

(* handleEnvelope *)
RelayHandles(s) ==
    /\ s \in relayOpen /\ up[s] # <<>>
    /\ LET m == Head(up[s])
           p == owner[s]
       IN  /\ Register(p, s)
           /\ shareCodes' = IF m.kind = "HELLO" THEN shareCodes \cup {s} ELSE shareCodes
           /\ CASE m.kind = "HELLO" -> RelaySends(s, [kind |-> "HELLO_ACK", code |-> s])
                [] m.kind = "PAIR_REQUEST" ->
                     IF m.code \in shareCodes THEN RelaySends(clients'[owner[m.code]], m)
                                              ELSE RelaySends(s, [kind |-> "PAIR_REJECT"])
                [] OTHER -> RelaySends(clients'[Other(p)], m)
    /\ up' = [up EXCEPT ![s] = Tail(@)]
    /\ UNCHANGED <<peerVars, pairVars, linkVars, counters>>

(* checkRateLimit: more than 50 messages in ten seconds, and this one is   *)
(* discarded without a word.                                               *)
RelayDiscards(s) ==
    /\ s \in relayOpen /\ up[s] # <<>>
    /\ lost < MaxLost /\ lost' = lost + 1
    /\ up' = [up EXCEPT ![s] = Tail(@)]
    /\ UNCHANGED <<peerVars, pairVars, linkVars, down, relayVars, pairs, sent>>

(* Mutant: only HELLO registers. *)
PingIgnored(p) == FALSE /\ UNCHANGED vars

(* PING, sent every 15 s: it matters only if the peer is not registered. *)
Ping(p) ==
    /\ status[p] = "connected" /\ ws[p] \in relayOpen /\ up[ws[p]] = <<>>
    /\ clients[p] = None
    /\ Register(p, ws[p])
    /\ UNCHANGED <<peerVars, pairVars, linkVars, up, down, shareCodes, counters>>

(* "close": the maps are cleared by the id the socket was registered with. *)
RelayCloses(s) ==
    /\ s \in relayOpen
    /\ relayOpen' = relayOpen \ {s}
    /\ dead' = dead \cup {s}
    /\ up' = [up EXCEPT ![s] = <<>>]
    /\ clients' = [p \in Peer |-> IF socketIds[s] = p THEN None ELSE clients[p]]
    /\ socketIds' = [socketIds EXCEPT ![s] = None]
    /\ shareCodes' = shareCodes \ {s}
    /\ UNCHANGED <<peerVars, pairVars, owner, down, counters>>

-----------------------------------------------------------------------------
(* PeerConnection.  These operators map what a handler has done so far,    *)
(* [conns, out, mounted, thrown], to what it has done after a step: the    *)
(* peer's connections, the messages it sends, whether the other's sessions *)
(* are mounted, and whether an exception was thrown.  Nobody listens to    *)
(* "error" of a PeerConnection, so emitting it throws.                     *)

Start(p) == [conns |-> conns[p], out |-> <<>>, mounted |-> mounted[p], thrown |-> FALSE]

NewConn(role, st) ==
    [role |-> role, status |-> st, cipher |-> {}, sendCounter |-> 0, last |-> -1,
     pending |-> <<>>, keysSent |-> IF st = "handshake" THEN 1 ELSE 0]

KeyExchange(p, i) == [kind |-> "KEY_EXCHANGE", key |-> <<p, i>>]

(* send of connection i, and encrypt. *)
Sent(st, i, payload) ==
    LET c == st.conns[i]
        m == [kind |-> "ENCRYPTED", cipher |-> c.cipher, counter |-> c.sendCounter,
              payload |-> payload]
    IN  [st EXCEPT !.conns[i].sendCounter = @ + 1, !.out = Append(@, m)]

(* App's handlers of "payload".  A guest mounts the sessions it is told    *)
(* of, whose panes send their size; output of a mounted session is an      *)
(* event of the guest's engine and goes to all its peers, the host too.    *)
Delivered(st, i, payload) ==
    IF st.conns[i].role = "host" THEN st
    ELSE IF payload = "SYNC_SESSIONS" THEN Sent([st EXCEPT !.mounted = TRUE], i, "PTY_RESIZE")
    ELSE IF payload = "PTY_DATA" /\ st.mounted THEN Sent(st, i, "PTY_DATA")
    ELSE st

(* Mutant: the counter must be the next one. *)
DecryptedNext(st, i, m) ==
    IF st.thrown \/ m.counter # st.conns[i].last + 1 \/ m.cipher # st.conns[i].cipher
    THEN [st EXCEPT !.thrown = TRUE]
    ELSE Delivered([st EXCEPT !.conns[i].last = m.counter], i, m.payload)

(* decryptAndEmit: the counter must increase, and is noted before the      *)
(* message is authenticated.                                               *)
Decrypted(st, i, m) ==
    LET c == st.conns[i]
        noted == [st EXCEPT !.conns[i].last = m.counter]
    IN  IF st.thrown THEN st
        ELSE IF m.counter <= c.last THEN [st EXCEPT !.thrown = TRUE]
        ELSE IF m.cipher # c.cipher THEN [noted EXCEPT !.thrown = TRUE]
        ELSE Delivered(noted, i, m.payload)

(* What came too early, decrypted in turn. *)
Flushed(st, i, msgs) ==
    LET after[k \in 0 .. Len(msgs)] == IF k = 0 THEN st ELSE Decrypted(after[k - 1], i, msgs[k])
    IN  after[Len(msgs)]

(* createSessionCipher: the new cipher of a connection c, upon which it is *)
(* "ready".                                                                *)
SharedSecret(p, i, key) == {<<p, i>>, key}

Ready(c, secret) ==
    [c EXCEPT !.cipher = secret, !.sendCounter = 0, !.last = -1, !.status = "encrypted"]

(* Mutant: "ready" before the status is set; send throws, and the handler  *)
(* of that exception sets "disconnected".                                  *)
FinalizedEarly(st, p, i, key) == [st EXCEPT !.conns[i].status = "disconnected"]

(* finalizeHandshake: a new cipher, "ready" (upon which the host sends its *)
(* sessions), then what came too early.  An exception while that is        *)
(* decrypted ends in the handler of createSessionCipher's.                 *)
Finalized(st, p, i, key) ==
    LET ready == [st EXCEPT !.conns[i] = Ready(@, SharedSecret(p, i, key))]
        synced == IF st.conns[i].role = "host" THEN Sent(ready, i, "SYNC_SESSIONS") ELSE ready
        flushed == Flushed([synced EXCEPT !.conns[i].pending = <<>>], i, st.conns[i].pending)
    IN  IF flushed.thrown THEN [flushed EXCEPT !.conns[i].status = "disconnected"] ELSE flushed

(* startHandshake *)
KeySent(c) == [c EXCEPT !.status = "handshake", !.keysSent = @ + 1]

Started(st, p, i) ==
    [st EXCEPT !.conns[i] = KeySent(@), !.out = Append(@, KeyExchange(p, i))]

(* Mutant: every key is answered. *)
AlwaysAnswered(st, p, i, key) == Finalized(Started(st, p, i), p, i, key)

(* handleKeyExchange *)
KeyExchanged(st, p, i, key) ==
    Finalized(IF st.conns[i].status = "handshake" THEN st ELSE Started(st, p, i), p, i, key)

(* handleEnvelope of connection i. *)
Handled(st, p, i, m) ==
    IF st.thrown THEN st
    ELSE IF m.kind = "KEY_EXCHANGE" THEN KeyExchanged(st, p, i, m.key)
    ELSE IF st.conns[i].cipher = {} THEN [st EXCEPT !.conns[i].pending = Append(@, m)]
    ELSE Decrypted(st, i, m)

(* acceptPairRequest, and App's handler of "pair_request". *)
PairRequested(st, p) ==
    [st EXCEPT !.conns = Append(@, NewConn("host", "handshake")),
               !.out = <<[kind |-> "PAIR_ACCEPT"], KeyExchange(p, Len(st.conns) + 1)>>]

(* PAIR_ACCEPT *)
PairAccepted(st, p) ==
    LET known == IF st.conns # <<>> THEN st
                 ELSE [st EXCEPT !.conns = <<NewConn("guest", "connecting")>>]
    IN  IF Last(known.conns).status = "connecting" THEN Started(known, p, Len(known.conns))
                                                   ELSE known

(* What is not about pairing goes to each connection in turn, until one    *)
(* throws.                                                                 *)
HandledByAll(st, p, m) ==
    LET after[i \in 0 .. Len(st.conns)] == IF i = 0 THEN st ELSE Handled(after[i - 1], p, i, m)
    IN  after[Len(st.conns)]

(* NetworkManager.handleEnvelope *)
Received(st, p, m) ==
    CASE m.kind \in {"HELLO_ACK", "PAIR_REJECT"} -> st
      [] m.kind = "PAIR_REQUEST" -> PairRequested(st, p)
      [] m.kind = "PAIR_ACCEPT" -> PairAccepted(st, p)
      [] OTHER -> HandledByAll(st, p, m)

(* "message" *)
Reads(p) ==
    /\ status[p] = "connected" /\ down[ws[p]] # <<>>
    /\ LET m == Head(down[ws[p]])
           done == Received(Start(p), p, m)
       IN  /\ conns' = [conns EXCEPT ![p] = done.conns]
           /\ mounted' = [mounted EXCEPT ![p] = done.mounted]
           /\ refused' = (refused \/ done.thrown)
           /\ Sends(p, done.out)
           /\ sessionCode' = IF m.kind = "HELLO_ACK" THEN [sessionCode EXCEPT ![p] = m.code]
                                                     ELSE sessionCode
    /\ down' = [down EXCEPT ![ws[p]] = Tail(@)]
    /\ UNCHANGED <<status, ws, linkVars, relayVars, counters>>

(* /connect with the code the other peer shows. *)
RequestPair(p) ==
    /\ p \in Asking
    /\ pairs < MaxPairs /\ pairs' = pairs + 1
    /\ sessionCode[Other(p)] # None
    /\ Sends(p, <<[kind |-> "PAIR_REQUEST", code |-> sessionCode[Other(p)]]>>)
    /\ UNCHANGED <<peerVars, pairVars, linkVars, down, relayVars, sent, lost>>

(* Output of a shell, or what is typed into a mounted one, is sent on the  *)
(* connection in the map.                                                  *)
SendData(p) ==
    /\ sent < MaxSends /\ sent' = sent + 1
    /\ conns[p] # <<>> /\ Last(conns[p]).status = "encrypted"
    /\ LET done == Sent(Start(p), Len(conns[p]), "PTY_DATA")
       IN  conns' = [conns EXCEPT ![p] = done.conns] /\ Sends(p, done.out)
    /\ UNCHANGED <<peerVars, mounted, refused, linkVars, down, relayVars, pairs, lost>>

Next ==
    \/ \E p \in Peer :
        Connect(p) \/ Opens(p) \/ Closed(p) \/ Ping(p) \/ Reads(p) \/ RequestPair(p) \/ SendData(p)
    \/ \E s \in Socket : RelayHandles(s) \/ RelayDiscards(s) \/ RelayCloses(s)

Spec == Init /\ [][Next]_vars

(* Fairness: connections open, messages and pings arrive, and each end of  *)
(* a connection that has failed sees its close event.                      *)
FairSpec ==
    /\ Spec
    /\ \A p \in Peer :
        /\ WF_vars(Opens(p)) /\ WF_vars(Reads(p)) /\ WF_vars(Ping(p))
        /\ WF_vars(ws[p] \in dead /\ Closed(p))
    /\ \A s \in Socket : WF_vars(RelayHandles(s)) /\ WF_vars(s \in dead /\ RelayCloses(s))

-----------------------------------------------------------------------------

(* The relay's two maps are inverse to one another, though a peer may come *)
(* back on a new socket before the close of its old one is seen, which     *)
(* then clears an entry by the peer's name.                                *)
RegistryAgrees ==
    \A p \in Peer, s \in Socket : clients[p] = s <=> socketIds[s] = p

(* A cipher never refuses what the peer sent, though messages before it    *)
(* were discarded or went down with a connection.                          *)
NothingRefused == ~refused

(* "We haven't started our side of the handshake yet": a connection sends  *)
(* its key once, when its handshake starts.                                *)
HandshakeOnce ==
    \A p \in Peer : \A i \in DOMAIN conns[p] : conns[p][i].keysSent <= 1

(* A peer that stays connected can be reached by the other: the relay has  *)
(* it registered on its socket, whatever became of its former ones.        *)
Reachable ==
    \A p \in Peer :
        status[p] = "connected" ~> (status[p] # "connected" \/ clients[p] = ws[p])

(* Unless a message or a connection is lost, a request to pair that is     *)
(* under way ends with the other's sessions mounted.                       *)
PairingMounts ==
    (\E s \in Socket : \E i \in DOMAIN up[s] : up[s][i].kind = "PAIR_REQUEST") ~>
        (lost > 0 \/ dead # {} \/ \E p \in Peer : mounted[p])

=============================================================================
