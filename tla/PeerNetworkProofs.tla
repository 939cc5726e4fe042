-------------------------- MODULE PeerNetworkProofs --------------------------
(***************************************************************************)
(* Proofs about PeerNetwork, for any number of connections and messages.   *)
(*                                                                         *)
(* The first part is about the relay worker: its maps agree whatever the   *)
(* order in which connections are made, used, lost and seen to be lost.    *)
(* The second is about two peers that pair once: what is under way between *)
(* them stays in order, through the losses of connections and of messages, *)
(* so that no cipher refuses anything and each key is sent once.           *)
(***************************************************************************)
EXTENDS PeerNetwork, TLAPS

(* The newest socket of a peer is its own, and so is every socket that the *)
(* relay sees or has registered.                                           *)
OwnerInv ==
    /\ status \in [Peer -> {"disconnected", "connecting", "connected"}]
    /\ ws \in [Peer -> Socket \cup {None}]
    /\ owner \in [Socket -> Peer \cup {None}]
    /\ relayOpen \subseteq Socket
    /\ \A p \in Peer : status[p] # "disconnected" => ws[p] # None
    /\ \A p \in Peer : ws[p] # None => owner[ws[p]] = p
    /\ \A s \in relayOpen : owner[s] # None

(* The maps.                                                               *)
MapsInv ==
    /\ clients \in [Peer -> Socket \cup {None}]
    /\ socketIds \in [Socket -> Peer \cup {None}]
    /\ \A s \in Socket : socketIds[s] \in {None, owner[s]}
    /\ RegistryAgrees

(* The inductive invariant.                                                *)
IInv == OwnerInv /\ MapsInv

(* A socket is not None.                                                   *)
LEMMA SocketFacts == None \notin Socket /\ None \notin Peer
BY NetworkAssumption DEF Socket

(* handleEnvelope registers a peer on its own socket, if it is not on one. *)
LEMMA RegisterStep ==
    ASSUME IInv, NEW s \in Socket, owner[s] # None, Register(owner[s], s), owner' = owner
    PROVE  MapsInv'
<1> DEFINE p == owner[s]
<1>1. p \in Peer
  BY DEF IInv, OwnerInv
<1>2. CASE clients[p] # None
  <2>1. clients' = clients /\ socketIds' = socketIds
    BY <1>2 DEF Register, Registered
  <2> QED
    BY <2>1 DEF IInv, MapsInv, RegistryAgrees
<1>3. CASE clients[p] = None
  <2>1. /\ clients' = [clients EXCEPT ![p] = s]
        /\ socketIds' = [socketIds EXCEPT ![s] = p]
    BY <1>3 DEF Register, Registered
  <2>2. socketIds[s] = None
    BY <1>1, <1>3, SocketFacts DEF IInv, MapsInv, RegistryAgrees
  <2>3. RegistryAgrees'
    <3> SUFFICES ASSUME NEW q \in Peer, NEW t \in Socket
                 PROVE  clients'[q] = t <=> socketIds'[t] = q
      BY DEF RegistryAgrees
    <3>1. /\ clients'[q] = IF q = p THEN s ELSE clients[q]
          /\ socketIds'[t] = IF t = s THEN p ELSE socketIds[t]
      BY <1>1, <2>1 DEF IInv, MapsInv
    <3>2. clients[q] = t <=> socketIds[t] = q
      BY DEF IInv, MapsInv, RegistryAgrees
    <3> QED
      BY <1>1, <1>3, <2>2, <3>1, <3>2, SocketFacts
  <2> QED
    BY <1>1, <2>1, <2>3 DEF IInv, MapsInv
<1> QED
  BY <1>2, <1>3

(* A close event clears both maps of what the socket was registered with.  *)
LEMMA RelayClosesStep ==
    ASSUME IInv, NEW s \in Socket, RelayCloses(s)
    PROVE  MapsInv'
<1>1. /\ clients' = [p \in Peer |-> IF socketIds[s] = p THEN None ELSE clients[p]]
      /\ socketIds' = [socketIds EXCEPT ![s] = None]
      /\ owner' = owner
  BY DEF RelayCloses
<1>2. RegistryAgrees'
  <2> SUFFICES ASSUME NEW q \in Peer, NEW t \in Socket
               PROVE  clients'[q] = t <=> socketIds'[t] = q
    BY DEF RegistryAgrees
  <2>1. /\ clients'[q] = IF socketIds[s] = q THEN None ELSE clients[q]
        /\ socketIds'[t] = IF t = s THEN None ELSE socketIds[t]
    BY <1>1 DEF IInv, MapsInv
  <2>2. (clients[q] = t <=> socketIds[t] = q) /\ (clients[q] = s <=> socketIds[s] = q)
    BY DEF IInv, MapsInv, RegistryAgrees
  <2> QED
    BY <2>1, <2>2, SocketFacts
<1> QED
  BY <1>1, <1>2 DEF IInv, MapsInv

(* A socket gets its owner when it is made, before anybody registers.      *)
LEMMA ConnectStep ==
    ASSUME IInv, NEW p \in Peer, Connect(p)
    PROVE  IInv'
<1>1. PICK s \in Socket : /\ owner[s] = None
                          /\ owner' = [owner EXCEPT ![s] = p]
                          /\ ws' = [ws EXCEPT ![p] = s]
  BY DEF Connect
<1>2. OwnerInv'
  BY <1>1, SocketFacts DEF IInv, OwnerInv, Connect
<1>3. MapsInv'
  BY <1>1, SocketFacts DEF IInv, OwnerInv, MapsInv, RegistryAgrees, Connect, relayVars
<1> QED
  BY <1>2, <1>3 DEF IInv

(* The program starts in the invariant.                                    *)
LEMMA InitInv == Init => IInv
BY SocketFacts DEF Init, IInv, OwnerInv, MapsInv, RegistryAgrees

(* Every step of the peers and of the relay keeps it.                      *)
LEMMA NextInv == IInv /\ [Next]_vars => IInv'
<1> SUFFICES ASSUME IInv, [Next]_vars PROVE IInv'
  OBVIOUS
<1> USE DEF IInv
<1>1. ASSUME NEW p \in Peer, Connect(p) PROVE IInv'
  BY <1>1, ConnectStep
<1>2. ASSUME NEW p \in Peer, Opens(p) PROVE IInv'
  BY <1>2, SocketFacts
  DEF Opens, OwnerInv, MapsInv, RegistryAgrees, relayVars
<1>3. ASSUME NEW p \in Peer, Closed(p) PROVE IInv'
  BY <1>3 DEF Closed, OwnerInv, MapsInv, RegistryAgrees, relayVars
<1>4. ASSUME NEW p \in Peer, Ping(p) PROVE IInv'
  <2>1. UNCHANGED <<status, ws, owner, relayOpen>>
    BY <1>4 DEF Ping, peerVars, linkVars
  <2>2. ws[p] \in Socket /\ owner[ws[p]] = p
    BY <1>4, SocketFacts DEF Ping, OwnerInv
  <2>3. MapsInv'
    BY <1>4, <2>1, <2>2, RegisterStep, SocketFacts DEF Ping
  <2> QED
    BY <2>1, <2>3 DEF OwnerInv
<1>5. ASSUME NEW p \in Peer, Reads(p) \/ RequestPair(p) \/ SendData(p) PROVE IInv'
  <2>1. UNCHANGED <<status, ws, owner, relayOpen, clients, socketIds>>
    BY <1>5 DEF Reads, RequestPair, SendData, peerVars, linkVars, relayVars
  <2> QED
    BY <2>1 DEF OwnerInv, MapsInv, RegistryAgrees
<1>6. ASSUME NEW s \in Socket, RelayHandles(s) PROVE IInv'
  <2>1. UNCHANGED <<status, ws, owner, relayOpen>>
    BY <1>6 DEF RelayHandles, peerVars, linkVars
  <2>2. Register(owner[s], s) /\ owner[s] # None
    BY <1>6 DEF RelayHandles, OwnerInv
  <2>3. MapsInv'
    BY <2>1, <2>2, RegisterStep
  <2> QED
    BY <2>1, <2>3 DEF OwnerInv
<1>7. ASSUME NEW s \in Socket, RelayDiscards(s) PROVE IInv'
  BY <1>7 DEF RelayDiscards, OwnerInv, MapsInv, RegistryAgrees, peerVars, linkVars, relayVars
<1>8. ASSUME NEW s \in Socket, RelayCloses(s) PROVE IInv'
  <2>1. OwnerInv'
    BY <1>8 DEF RelayCloses, OwnerInv, peerVars
  <2> QED
    BY <1>8, <2>1, RelayClosesStep
<1>9. CASE UNCHANGED vars
  BY <1>9
  DEF vars, peerVars, linkVars, relayVars, OwnerInv, MapsInv, RegistryAgrees
<1> QED
  BY <1>1, <1>2, <1>3, <1>4, <1>5, <1>6, <1>7, <1>8, <1>9 DEF Next

(* The invariant holds of every behaviour of the peers and the relay.      *)
THEOREM Invariance == Spec => []IInv
BY InitInv, NextInv, PTL DEF Spec

(* The relay's two maps stay inverse to one another, although a peer comes *)
(* back on a new socket before the close event of the old one.             *)
THEOREM MapsAgree == Spec => []RegistryAgrees
<1>1. IInv => RegistryAgrees
  BY DEF IInv, MapsInv
<1> QED
  BY <1>1, Invariance, PTL

-----------------------------------------------------------------------------
(* What is under way between two peers that pair once.                     *)

(* Messages.                                                               *)
Msg == [kind : {"HELLO", "PAIR_ACCEPT", "PAIR_REJECT"}]
       \cup [kind : {"HELLO_ACK", "PAIR_REQUEST"}, code : Socket]
       \cup [kind : {"KEY_EXCHANGE"}, key : Peer \X Nat]
       \cup [kind : {"ENCRYPTED"}, cipher : SUBSET (Peer \X Nat), counter : Nat,
             payload : {"SYNC_SESSIONS", "PTY_RESIZE", "PTY_DATA"}]

(* The relay's own messages and HELLO.                                     *)
IsNoise(m) == m.kind \in {"HELLO", "HELLO_ACK", "PAIR_REJECT"}

(* The secret of the one key of each peer.                                 *)
Secret == {<<p, 1>> : p \in Peer}

(* m may be under way before n: there is one key, which nothing encrypted  *)
(* precedes, one request, and counters ascend.                             *)
Ok(m, n) ==
    /\ n.kind = "KEY_EXCHANGE" => m.kind \notin {"KEY_EXCHANGE", "ENCRYPTED"}
    /\ n.kind = "PAIR_REQUEST" => m.kind # "PAIR_REQUEST"
    /\ n.kind = "ENCRYPTED" /\ m.kind = "ENCRYPTED" => m.counter < n.counter

(* The messages of q.                                                      *)
In(q) == {q[i] : i \in 1 .. Len(q)}

(* The messages of q, and those of q before those of r, are in order.      *)
Sorted(q) == \A i, j \in 1 .. Len(q) : i < j => Ok(q[i], q[j])
Before(q, r) == \A i \in 1 .. Len(q), j \in 1 .. Len(r) : Ok(q[i], r[j])
Ordered(q, r) == Sorted(q) /\ Sorted(r) /\ Before(q, r)

(* Some of the messages of q, or none.                                     *)
Rest(a, q) == a = q \/ a = <<>> \/ (q # <<>> /\ a = Tail(q))

(* Noise goes with anything.                                               *)
LEMMA OkNoise ==
    ASSUME NEW m, NEW n, IsNoise(m) \/ IsNoise(n) PROVE Ok(m, n)
BY DEF IsNoise, Ok

(* What is left of a queue is part of it.                                  *)
LEMMA RestElements ==
    ASSUME NEW S, NEW q \in Seq(S), NEW a, Rest(a, q)
    PROVE  /\ a \in Seq(S)
           /\ \E k \in {0, 1} : \A i \in 1 .. Len(a) : i + k \in 1 .. Len(q) /\ a[i] = q[i + k]
<1>1. CASE a = q
  <2>1. \A i \in 1 .. Len(a) : i + 0 \in 1 .. Len(q) /\ a[i] = q[i + 0]
    BY <1>1
  <2> QED
    BY <1>1, <2>1
<1>2. CASE a = <<>>
  BY <1>2
<1>3. CASE q # <<>> /\ a = Tail(q)
  <2>1. \A i \in 1 .. Len(a) : i + 1 \in 1 .. Len(q) /\ a[i] = q[i + 1]
    BY <1>3
  <2> QED
    BY <1>3, <2>1
<1> QED
  BY <1>1, <1>2, <1>3 DEF Rest

(* It holds no other messages.                                             *)
LEMMA RestIn ==
    ASSUME NEW S, NEW q \in Seq(S), NEW a, Rest(a, q)
    PROVE  In(a) \subseteq In(q)
BY RestElements DEF In

(* A message is added at the end.                                          *)
LEMMA AppendIn ==
    ASSUME NEW S, NEW q \in Seq(S), NEW m \in S
    PROVE  Append(q, m) \in Seq(S) /\ In(Append(q, m)) = In(q) \cup {m}
  BY DEF In

(* The first message of a queue.                                           *)
LEMMA HeadIn ==
    ASSUME NEW S, NEW q \in Seq(S), q # <<>>
    PROVE  Head(q) \in In(q) /\ Head(q) \in S
  BY DEF In

(* Messages are added at the end.                                          *)
LEMMA ConcatIn ==
    ASSUME NEW S, NEW q \in Seq(S), NEW r \in Seq(S)
    PROVE  q \o r \in Seq(S) /\ In(q \o r) \subseteq In(q) \cup In(r)
<1>1. q \o r \in Seq(S) /\ Len(q \o r) = Len(q) + Len(r)
  OBVIOUS
<1>2. \A i \in 1 .. Len(q) + Len(r) :
          (q \o r)[i] = IF i <= Len(q) THEN q[i] ELSE r[i - Len(q)]
  OBVIOUS
<1>3. ASSUME NEW i \in 1 .. Len(q) + Len(r) PROVE (q \o r)[i] \in In(q) \cup In(r)
  <2>1. CASE i <= Len(q)
    BY <1>2, <2>1 DEF In
  <2>2. CASE i > Len(q)
    <3>1. i - Len(q) \in 1 .. Len(r)
      BY <2>2
    <3> QED
      BY <1>2, <2>2, <3>1 DEF In
  <2> QED
    BY <2>1, <2>2
<1> QED
  BY <1>1, <1>3 DEF In

(* What is left is in order.                                               *)
LEMMA RestOrdered ==
    ASSUME NEW S, NEW q \in Seq(S), NEW r \in Seq(S), Ordered(q, r),
           NEW a, NEW b, Rest(a, q), Rest(b, r)
    PROVE  Ordered(a, b)
<1>1. PICK k \in {0, 1} : \A i \in 1 .. Len(a) : i + k \in 1 .. Len(q) /\ a[i] = q[i + k]
  BY RestElements
<1>2. PICK l \in {0, 1} : \A i \in 1 .. Len(b) : i + l \in 1 .. Len(r) /\ b[i] = r[i + l]
  BY RestElements
<1>3. a \in Seq(S) /\ b \in Seq(S)
  BY RestElements
<1>4. ASSUME NEW i \in 1 .. Len(a), NEW j \in 1 .. Len(a), i < j PROVE Ok(a[i], a[j])
  BY <1>1, <1>3, <1>4 DEF Ordered, Sorted
<1>5. ASSUME NEW i \in 1 .. Len(b), NEW j \in 1 .. Len(b), i < j PROVE Ok(b[i], b[j])
  BY <1>2, <1>3, <1>5 DEF Ordered, Sorted
<1>6. ASSUME NEW i \in 1 .. Len(a), NEW j \in 1 .. Len(b) PROVE Ok(a[i], b[j])
  BY <1>1, <1>2, <1>3 DEF Ordered, Before
<1> QED
  BY <1>4, <1>5, <1>6 DEF Ordered, Sorted, Before

(* A peer sends messages that may follow all that is under way.            *)
LEMMA SendOrdered ==
    ASSUME NEW S, NEW q \in Seq(S), NEW r \in Seq(S), Ordered(q, r), NEW out \in Seq(S),
           Sorted(out), \A m \in In(q) \cup In(r), n \in In(out) : Ok(m, n)
    PROVE  Ordered(q, r \o out)
<1> DEFINE s == r \o out
<1>1. s \in Seq(S) /\ Len(s) = Len(r) + Len(out)
  OBVIOUS
<1>2. \A i \in 1 .. Len(r) + Len(out) :
          s[i] = IF i <= Len(r) THEN r[i] ELSE out[i - Len(r)]
  OBVIOUS
<1> HIDE DEF s
<1>3. \A i \in 1 .. Len(s) : ~(i <= Len(r)) => i - Len(r) \in 1 .. Len(out) /\ s[i] \in In(out)
  BY <1>1, <1>2 DEF In
<1>4. ASSUME NEW i \in 1 .. Len(s), NEW j \in 1 .. Len(s), i < j PROVE Ok(s[i], s[j])
  <2>1. CASE j <= Len(r)
    <3>1. s[i] = r[i] /\ s[j] = r[j] /\ i \in 1 .. Len(r) /\ j \in 1 .. Len(r)
      BY <1>1, <1>2, <1>4, <2>1
    <3> QED
      BY <1>4, <3>1 DEF Ordered, Sorted
  <2>2. CASE i <= Len(r) /\ ~(j <= Len(r))
    <3>1. s[i] \in In(r)
      BY <1>1, <1>2, <2>2 DEF In
    <3> QED
      BY <1>3, <2>2, <3>1
  <2>3. CASE ~(i <= Len(r)) /\ ~(j <= Len(r))
    <3>1. s[i] = out[i - Len(r)] /\ s[j] = out[j - Len(r)]
      BY <1>1, <1>2, <2>3
    <3>2. i - Len(r) \in 1 .. Len(out) /\ j - Len(r) \in 1 .. Len(out) /\ i - Len(r) < j - Len(r)
      BY <1>1, <1>4, <2>3
    <3> QED
      BY <3>1, <3>2 DEF Sorted
  <2> QED
    BY <1>4, <2>1, <2>2, <2>3
<1>5. ASSUME NEW i \in 1 .. Len(q), NEW j \in 1 .. Len(s) PROVE Ok(q[i], s[j])
  <2>1. CASE j <= Len(r)
    <3>1. s[j] = r[j] /\ j \in 1 .. Len(r)
      BY <1>1, <1>2, <2>1
    <3> QED
      BY <3>1 DEF Ordered, Before
  <2>2. CASE ~(j <= Len(r))
    BY <1>3, <2>2 DEF In
  <2> QED
    BY <2>1, <2>2
<1>6. Sorted(q)
  BY DEF Ordered
<1> QED
  BY <1>4, <1>5, <1>6 DEF Ordered, Sorted, Before, s

(* A message goes from one queue to the one before it.                     *)
LEMMA AppendOrdered ==
    ASSUME NEW S, NEW q \in Seq(S), NEW r \in Seq(S), Ordered(q, r), NEW m \in S,
           \A n \in In(q) : Ok(n, m),
           \A n \in In(r) : Ok(m, n)
    PROVE  Ordered(Append(q, m), r)
<1> DEFINE s == Append(q, m)
<1>1. s \in Seq(S) /\ Len(s) = Len(q) + 1
      /\ \A i \in 1 .. Len(s) : s[i] = IF i <= Len(q) THEN q[i] ELSE m
  OBVIOUS
<1> HIDE DEF s
<1>2. ASSUME NEW i \in 1 .. Len(s), NEW j \in 1 .. Len(s), i < j PROVE Ok(s[i], s[j])
  <2>1. i \in 1 .. Len(q) /\ s[i] = q[i]
    BY <1>1, <1>2
  <2>2. CASE j <= Len(q)
    BY <1>1, <1>2, <2>1, <2>2 DEF Ordered, Sorted
  <2>3. CASE ~(j <= Len(q))
    BY <1>1, <2>1, <2>3 DEF In
  <2> QED
    BY <2>2, <2>3
<1>3. ASSUME NEW i \in 1 .. Len(s), NEW j \in 1 .. Len(r) PROVE Ok(s[i], r[j])
  <2>1. CASE i <= Len(q)
    BY <1>1, <2>1 DEF Ordered, Before
  <2>2. CASE ~(i <= Len(q))
    BY <1>1, <2>2 DEF In
  <2> QED
    BY <2>1, <2>2
<1>4. Sorted(r)
  BY DEF Ordered
<1> QED
  BY <1>2, <1>3, <1>4 DEF Ordered, Sorted, Before, s

(* The relay forwards the first message of r.                              *)
LEMMA MoveOrdered ==
    ASSUME NEW S, NEW q \in Seq(S), NEW r \in Seq(S), Ordered(q, r), r # <<>>
    PROVE  Ordered(Append(q, Head(r)), Tail(r))
<1>1. Tail(r) \in Seq(S) /\ Head(r) \in S /\ Head(r) = r[1]
  OBVIOUS
<1>2. Rest(q, q) /\ Rest(Tail(r), r)
  BY DEF Rest
<1>3. Ordered(q, Tail(r))
  BY <1>2, RestOrdered
<1>4. \A n \in In(q) : Ok(n, r[1])
  BY DEF Ordered, Before, In
<1>5. \A n \in In(Tail(r)) : Ok(r[1], n)
  <2> SUFFICES ASSUME NEW i \in 1 .. Len(Tail(r)) PROVE Ok(r[1], Tail(r)[i])
    BY DEF In
  <2>1. Tail(r)[i] = r[i + 1] /\ i + 1 \in 1 .. Len(r) /\ 1 \in 1 .. Len(r) /\ 1 < i + 1
    OBVIOUS
  <2> QED
    BY <2>1 DEF Ordered, Sorted
<1> QED
  BY <1>1, <1>3, <1>4, <1>5, AppendOrdered

-----------------------------------------------------------------------------
(* What holds of two peers that pair once.                                 *)

(* What is under way to p and from it on its newest socket.                *)
Inbox(p) == IF ws[p] = None THEN <<>> ELSE down[ws[p]]
Outbox(p) == IF ws[p] = None THEN <<>> ELSE up[ws[p]]

(* What is under way from p to the other peer.                             *)
Path(p) == In(Inbox(Other(p))) \cup In(Outbox(p))

(* Only the newest socket of a peer carries messages; the others have      *)
(* failed.                                                                 *)
SocketInv ==
    /\ up \in [Socket -> Seq(Msg)] /\ down \in [Socket -> Seq(Msg)]
    /\ dead \subseteq Socket
    /\ \A s \in Socket : owner[s] = None => up[s] = <<>> /\ down[s] = <<>>
    /\ \A p \in Peer, s \in Socket : owner[s] = p /\ s # ws[p] => up[s] = <<>> /\ s \in dead
    /\ \A p \in Peer : status[p] = "disconnected" /\ ws[p] # None => ws[p] \in dead

(* Codes lead back to the peer they were given to.                         *)
CodesInv ==
    /\ sessionCode \in [Peer -> Socket \cup {None}]
    /\ \A p \in Peer : sessionCode[p] # None => owner[sessionCode[p]] = p
    /\ \A p \in Peer : \A m \in In(Inbox(p)) :
           m.kind # "HELLO" /\ (m.kind = "HELLO_ACK" => owner[m.code] = p)
    /\ \A p \in Peer : \A m \in In(Outbox(p)) :
           /\ m.kind \notin {"HELLO_ACK", "PAIR_REJECT"}
           /\ m.kind = "PAIR_REQUEST" => owner[m.code] = Other(p)

LinkInv == SocketInv /\ CodesInv

(* Connections that have sent their key, once.                             *)
Conn == [role : {"host", "guest"}, status : {"handshake", "encrypted"}, cipher : {{}, Secret},
         sendCounter : Nat, last : Nat \cup {-1}, pending : Seq(Msg), keysSent : {1}]

(* A connection in its handshake has no cipher yet, and then has the one   *)
(* of the two keys.                                                        *)
Shaped(c) ==
    /\ c.status = "handshake" => c.cipher = {} /\ c.sendCounter = 0 /\ c.last = -1
    /\ c.status = "encrypted" => c.cipher = Secret

(* Each peer has one connection at most; it has heard less than the other  *)
(* has sent, and nothing before there is the other one.                    *)
PairInv ==
    /\ conns \in [Peer -> {<<>>} \cup {<<c>> : c \in Conn}]
    /\ mounted \in [Peer -> BOOLEAN]
    /\ pairs \in Nat
    /\ \A p \in Peer : conns[p] # <<>> =>
           /\ pairs # 0
           /\ Shaped(conns[p][1])
           /\ conns[Other(p)] = <<>> =>
                  conns[p][1].status = "handshake" /\ conns[p][1].pending = <<>>
           /\ conns[Other(p)] # <<>> => conns[p][1].last < conns[Other(p)][1].sendCounter
    /\ ~refused

(* What a message of p that is under way says about the connections.       *)
FromOk(p, m) ==
    /\ m.kind = "PAIR_REQUEST" =>
           /\ pairs # 0 /\ conns[p] = <<>> /\ conns[Other(p)] = <<>>
           /\ \A n \in Path(Other(p)) : n.kind # "PAIR_REQUEST"
    /\ m.kind = "PAIR_ACCEPT" => conns[p] # <<>>
    /\ m.kind = "KEY_EXCHANGE" =>
           /\ m.key = <<p, 1>> /\ conns[p] # <<>>
           /\ conns[Other(p)] # <<>> => /\ conns[Other(p)][1].status = "handshake"
                                        /\ conns[Other(p)][1].pending = <<>>
    /\ m.kind = "ENCRYPTED" =>
           /\ m.cipher = Secret /\ conns[p] # <<>>
           /\ m.counter < conns[p][1].sendCounter
           /\ conns[Other(p)] # <<>> => conns[Other(p)][1].last < m.counter

TrafficInv ==
    \A p \in Peer : /\ Ordered(Inbox(Other(p)), Outbox(p))
                    /\ \A m \in Path(p) : FromOk(p, m)

PairingInv == LinkInv /\ PairInv /\ TrafficInv

(* There are two peers.                                                    *)
LEMMA OtherFacts ==
    \A p \in Peer : Other(p) \in Peer /\ Other(p) # p /\ Other(Other(p)) = p /\ Peer = {p, Other(p)}
<1>1. \E p, q \in Peer : p # q /\ Peer = {p, q}
  BY NetworkAssumption
<1>2. PICK a \in Peer, b \in Peer : a # b /\ Peer = {a, b}
  BY <1>1
<1>3. Other(a) = b /\ Other(b) = a
  BY <1>2 DEF Other
<1> QED
  BY <1>2, <1>3

(* Messages.                                                               *)
LEMMA MsgFacts ==
    /\ \A k \in {"HELLO", "PAIR_ACCEPT", "PAIR_REJECT"} : [kind |-> k] \in Msg
    /\ \A s \in Socket : [kind |-> "HELLO_ACK", code |-> s] \in Msg
                         /\ [kind |-> "PAIR_REQUEST", code |-> s] \in Msg
    /\ \A p \in Peer : KeyExchange(p, 1) \in Msg
    /\ \A n \in Nat, x \in {"SYNC_SESSIONS", "PTY_RESIZE", "PTY_DATA"} :
           [kind |-> "ENCRYPTED", cipher |-> Secret, counter |-> n, payload |-> x] \in Msg
BY DEF Msg, KeyExchange, Secret

(* What a message has, by its kind.                                        *)
LEMMA MsgKinds ==
    \A m \in Msg :
        /\ m.kind \in {"HELLO", "PAIR_ACCEPT", "PAIR_REJECT", "HELLO_ACK", "PAIR_REQUEST",
                       "KEY_EXCHANGE", "ENCRYPTED"}
        /\ m.kind \in {"HELLO_ACK", "PAIR_REQUEST"} => m.code \in Socket
        /\ m.kind = "ENCRYPTED" => /\ m.counter \in Nat
                                   /\ m.payload \in {"SYNC_SESSIONS", "PTY_RESIZE", "PTY_DATA"}
BY DEF Msg

(* The queues of a peer hold messages.                                     *)
LEMMA BoxFacts ==
    ASSUME IInv, LinkInv, NEW p \in Peer
    PROVE  Inbox(p) \in Seq(Msg) /\ Outbox(p) \in Seq(Msg) /\ In(Inbox(p)) \subseteq Msg
           /\ In(Outbox(p)) \subseteq Msg /\ Path(p) \subseteq Msg
<1>1. \A r \in Peer : Inbox(r) \in Seq(Msg) /\ Outbox(r) \in Seq(Msg)
  BY DEF Inbox, Outbox, LinkInv, SocketInv, IInv, OwnerInv
<1>2. \A q \in Seq(Msg) : In(q) \subseteq Msg
  BY DEF In
<1> QED
  BY <1>1, <1>2, OtherFacts DEF Path

(* A step that carries messages and loses some, while the relay and HELLO  *)
(* add noise, changes nothing about the pairing.                           *)
LEMMA CarryStep ==
    ASSUME PairInv, TrafficInv, UNCHANGED <<conns, mounted, pairs>>, ~refused',
           \A r \in Peer : Ordered(Inbox(Other(r)), Outbox(r))',
           \A r \in Peer : \A m \in Path(r)' : m \in Path(r) \/ IsNoise(m)
    PROVE  PairInv' /\ TrafficInv'
<1>1. PairInv'
  BY DEF PairInv
<1>2. ASSUME NEW p \in Peer, NEW m, m \in Path(p)' PROVE FromOk(p, m)'
  <2>1. CASE IsNoise(m)
    BY <2>1 DEF IsNoise, FromOk
  <2>2. CASE m \in Path(p)
    <3>1. FromOk(p, m)
      BY <2>2 DEF TrafficInv
    <3>2. ASSUME \A n \in Path(Other(p)) : n.kind # "PAIR_REQUEST"
          PROVE  \A n \in Path(Other(p))' : n.kind # "PAIR_REQUEST"
      BY <3>2, OtherFacts DEF IsNoise
    <3> QED
      BY <3>1, <3>2 DEF FromOk
  <2> QED
    BY <1>2, <2>1, <2>2
<1> QED
  BY <1>1, <1>2 DEF TrafficInv

-----------------------------------------------------------------------------
(* How steps of the peers keep it.                                         *)

(* A handler of p reads at most one message and sends out, or loses it.    *)
Answers(p, out) ==
    /\ Rest(Inbox(p)', Inbox(p)) /\ Inbox(Other(p))' = Inbox(Other(p))
    /\ Outbox(p)' = Outbox(p) \/ Outbox(p)' = Outbox(p) \o out
    /\ Outbox(Other(p))' = Outbox(Other(p))

(* The queues after it.                                                    *)
LEMMA AnswersStep ==
    ASSUME IInv, LinkInv, TrafficInv, NEW p \in Peer, NEW out \in Seq(Msg), Answers(p, out),
           Sorted(out), \A m \in Path(p), n \in In(out) : Ok(m, n)
    PROVE  /\ \A r \in Peer : Ordered(Inbox(Other(r)), Outbox(r))'
           /\ Path(Other(p))' \subseteq Path(Other(p))
           /\ \A m \in Path(p)' : m \in Path(p) \/ m \in In(out)
<1> DEFINE q == Other(p)
<1>1. q \in Peer /\ q # p /\ Other(q) = p /\ Peer = {p, q}
  BY OtherFacts
<1>2. /\ Inbox(p) \in Seq(Msg) /\ Outbox(p) \in Seq(Msg)
      /\ Inbox(q) \in Seq(Msg) /\ Outbox(q) \in Seq(Msg)
  BY <1>1, BoxFacts
<1>3. Ordered(Inbox(q), Outbox(p)) /\ Ordered(Inbox(p), Outbox(q))
  BY <1>1 DEF TrafficInv
<1> HIDE DEF q
<1>4. Ordered(Inbox(p)', Outbox(q)') /\ In(Inbox(p)') \subseteq In(Inbox(p))
  BY <1>2, <1>3, RestOrdered, RestIn DEF Answers, Rest, q
<1>5. /\ Ordered(Inbox(q), Outbox(p) \o out)
      /\ In(Outbox(p) \o out) \subseteq In(Outbox(p)) \cup In(out)
  <2>1. \A m \in In(Inbox(q)) \cup In(Outbox(p)), n \in In(out) : Ok(m, n)
    BY DEF Path, q
  <2> QED
    BY <1>2, <1>3, <2>1, SendOrdered, ConcatIn
<1>6. Ordered(Inbox(q)', Outbox(p)') /\ In(Outbox(p)') \subseteq In(Outbox(p)) \cup In(out)
  BY <1>3, <1>5 DEF Answers, q
<1>7. /\ Path(q) = In(Inbox(p)) \cup In(Outbox(q)) /\ Path(p) = In(Inbox(q)) \cup In(Outbox(p))
      /\ Path(q)' = In(Inbox(p)') \cup In(Outbox(q)')
      /\ Path(p)' = In(Inbox(q)') \cup In(Outbox(p)')
  BY <1>1 DEF Path, q
<1>8. Outbox(q)' = Outbox(q) /\ Inbox(q)' = Inbox(q)
  BY DEF Answers, q
<1> QED
  BY <1>1, <1>4, <1>6, <1>7, <1>8 DEF q

(* A queue of one message.                                                 *)
LEMMA OneMessage ==
    ASSUME NEW m
    PROVE  In(<<m>>) = {m} /\ Sorted(<<m>>)
<1>1. Len(<<m>>) = 1 /\ <<m>>[1] = m
  OBVIOUS
<1> QED
  BY <1>1 DEF In, Sorted

(* The user of p asks for the only pairing.                                *)
LEMMA AskStep ==
    ASSUME IInv, PairingInv, NEW p \in Peer, NEW s \in Socket, pairs = 0, pairs' = 1,
           Answers(p, <<[kind |-> "PAIR_REQUEST", code |-> s]>>),
           UNCHANGED <<conns, mounted>>, ~refused'
    PROVE  PairInv' /\ TrafficInv'
<1> DEFINE q == Other(p)
           m0 == [kind |-> "PAIR_REQUEST", code |-> s]
           out == <<m0>>
<1>1. q \in Peer /\ q # p /\ Other(q) = p /\ Peer = {p, q}
  BY OtherFacts
<1>2. out \in Seq(Msg) /\ In(out) = {m0} /\ Sorted(out) /\ m0.kind = "PAIR_REQUEST"
  <2>1. m0 \in Msg /\ m0.kind = "PAIR_REQUEST"
    BY MsgFacts
  <2> HIDE DEF m0
  <2> QED
    BY <2>1, OneMessage
<1>3. conns[p] = <<>> /\ conns[q] = <<>>
  BY <1>1 DEF PairingInv, PairInv
<1>4. \A r \in Peer : \A m \in Path(r) : FromOk(r, m)
  BY DEF PairingInv, TrafficInv
<1>5. \A r \in Peer : \A m \in Path(r) :
          m.kind \notin {"PAIR_REQUEST", "PAIR_ACCEPT", "KEY_EXCHANGE", "ENCRYPTED"}
  BY <1>1, <1>3, <1>4 DEF FromOk
<1> HIDE DEF q, out, m0
<1>6. \A m \in Path(p), n \in In(out) : Ok(m, n)
  BY <1>2, <1>5 DEF Ok
<1>7. /\ \A r \in Peer : Ordered(Inbox(Other(r)), Outbox(r))'
      /\ Path(q)' \subseteq Path(q)
      /\ \A m \in Path(p)' : m \in Path(p) \/ m \in In(out)
  BY <1>2, <1>6, AnswersStep DEF PairingInv, q, out, m0
<1>8. PairInv'
  BY <1>1, <1>3 DEF PairingInv, PairInv
<1>9. \A m \in Path(q)' : FromOk(q, m)'
  BY <1>1, <1>5, <1>7 DEF FromOk
<1>10. ASSUME NEW m, m \in Path(p)' PROVE FromOk(p, m)'
  <2>1. CASE m \in Path(p)
    BY <1>5, <2>1 DEF FromOk
  <2>2. CASE m = m0
    BY <1>1, <1>2, <1>3, <1>5, <1>7, <2>2 DEF FromOk, q
  <2> QED
    BY <1>2, <1>7, <1>10, <2>1, <2>2
<1> QED
  BY <1>1, <1>7, <1>8, <1>9, <1>10 DEF TrafficInv

(* p makes its connection, and sends its key.                              *)
LEMMA BirthStep ==
    ASSUME IInv, PairingInv, NEW p \in Peer, NEW role \in {"host", "guest"}, NEW out \in Seq(Msg),
           pairs # 0, conns[p] = <<>>,
           out \in {<<[kind |-> "PAIR_ACCEPT"], KeyExchange(p, 1)>>, <<KeyExchange(p, 1)>>},
           \A r \in Peer : \A m \in Path(r)' : m.kind # "PAIR_REQUEST",
           Answers(p, out), UNCHANGED <<mounted, pairs>>, ~refused',
           conns' = [conns EXCEPT ![p] = <<NewConn(role, "handshake")>>]
    PROVE  PairInv' /\ TrafficInv'
<1> DEFINE q == Other(p)
           c == NewConn(role, "handshake")
<1>1. q \in Peer /\ q # p /\ Other(q) = p /\ Peer = {p, q}
  BY OtherFacts
<1>2. /\ c \in Conn /\ Shaped(c) /\ c.status = "handshake" /\ c.pending = <<>>
      /\ c.last = -1 /\ c.sendCounter = 0
  BY DEF Conn, NewConn, Shaped
<1>3. conns \in [Peer -> {<<>>} \cup {<<d>> : d \in Conn}]
  BY DEF PairingInv, PairInv
<1> HIDE DEF c, q
<1>4. conns'[p] = <<c>> /\ conns'[p][1] = c /\ conns'[p] # <<>> /\ conns'[q] = conns[q]
  BY <1>1, <1>3 DEF c
<1>5. /\ \A m \in In(out) : m = KeyExchange(p, 1) \/ m.kind = "PAIR_ACCEPT"
      /\ Sorted(out)
  BY DEF In, Sorted, Ok, KeyExchange
<1>6. \A r \in Peer : \A m \in Path(r) : FromOk(r, m)
  BY DEF PairingInv, TrafficInv
<1>7. \A m \in Path(p) : m.kind \notin {"PAIR_ACCEPT", "KEY_EXCHANGE", "ENCRYPTED"}
  BY <1>6 DEF FromOk
<1>8. \A m \in Path(p), n \in In(out) : Ok(m, n)
  BY <1>5, <1>7 DEF Ok, KeyExchange
<1>9. /\ \A r \in Peer : Ordered(Inbox(Other(r)), Outbox(r))'
      /\ Path(q)' \subseteq Path(q)
      /\ \A m \in Path(p)' : m \in Path(p) \/ m \in In(out)
  BY <1>5, <1>8, AnswersStep DEF PairingInv, q
<1>10. conns[q] # <<>> =>
           /\ conns[q][1] \in Conn /\ Shaped(conns[q][1])
           /\ conns[q][1].status = "handshake" /\ conns[q][1].pending = <<>>
  BY <1>1, <1>3 DEF PairingInv, PairInv
<1>11. PairInv'
  <2>1. conns' \in [Peer -> {<<>>} \cup {<<d>> : d \in Conn}]
    BY <1>2, <1>3 DEF c
  <2>2. conns[q] # <<>> => conns[q][1].sendCounter = 0 /\ conns[q][1].last = -1
    BY <1>10 DEF Shaped
  <2>3. ~refused' /\ pairs' # 0 /\ pairs' \in Nat /\ mounted' \in [Peer -> BOOLEAN]
    BY DEF PairingInv, PairInv
  <2>4. ASSUME NEW r \in Peer, conns'[r] # <<>>
        PROVE  /\ Shaped(conns'[r][1])
               /\ conns'[Other(r)] = <<>> =>
                      conns'[r][1].status = "handshake" /\ conns'[r][1].pending = <<>>
               /\ conns'[Other(r)] # <<>> => conns'[r][1].last < conns'[Other(r)][1].sendCounter
    <3>1. CASE r = p
      BY <1>1, <1>2, <1>4, <2>2, <3>1 DEF q
    <3>2. CASE r = q
      BY <1>1, <1>2, <1>4, <1>10, <2>2, <2>4, <3>2
    <3> QED
      BY <1>1, <3>1, <3>2
  <2> QED
    BY <2>1, <2>3, <2>4 DEF PairInv
<1>12. ASSUME NEW m, m \in Path(q)' PROVE FromOk(q, m)'
  <2>1. m \in Path(q) /\ FromOk(q, m) /\ m.kind # "PAIR_REQUEST"
    BY <1>1, <1>6, <1>9, <1>12
  <2>2. m.kind = "ENCRYPTED" => m.counter \in Nat
    BY <1>1, <2>1, BoxFacts, MsgKinds DEF PairingInv
  <2> QED
    BY <1>1, <1>2, <1>4, <2>1, <2>2 DEF FromOk
<1>13. ASSUME NEW m, m \in Path(p)' PROVE FromOk(p, m)'
  <2>1. m.kind # "PAIR_REQUEST"
    BY <1>13
  <2>2. CASE m \in Path(p)
    BY <1>7, <2>1, <2>2 DEF FromOk
  <2>3. CASE m = KeyExchange(p, 1)
    <3>1. m.kind = "KEY_EXCHANGE" /\ m.key = <<p, 1>>
      BY <2>3 DEF KeyExchange
    <3> QED
      BY <1>1, <1>4, <1>10, <3>1 DEF FromOk, q
  <2>4. CASE m.kind = "PAIR_ACCEPT"
    BY <1>4, <2>4 DEF FromOk
  <2> QED
    BY <1>5, <1>9, <1>13, <2>2, <2>3, <2>4
<1> QED
  BY <1>1, <1>9, <1>11, <1>12, <1>13 DEF TrafficInv

(* An encrypted message, the n-th of its sender.                           *)
Encrypted(n, payload) ==
    [kind |-> "ENCRYPTED", cipher |-> Secret, counter |-> n, payload |-> payload]

(* What a handler makes of connection c and sends: nothing, or a message   *)
(* with the next counter.                                                  *)
Talks(c, d, out) ==
    \/ out = <<>> /\ d.sendCounter = c.sendCounter
    \/ /\ d.status = "encrypted" /\ d.sendCounter = c.sendCounter + 1
       /\ \E x \in {"SYNC_SESSIONS", "PTY_RESIZE", "PTY_DATA"} :
              out = <<Encrypted(c.sendCounter, x)>>

(* p hears or says something, while both peers have a connection.          *)
LEMMA TalkStep ==
    ASSUME IInv, PairingInv, NEW p \in Peer, NEW out,
           conns[p] # <<>>, conns[Other(p)] # <<>>,
           NEW d \in Conn, Shaped(d), conns' = [conns EXCEPT ![p] = <<d>>],
           Talks(conns[p][1], d, out), Answers(p, out),
           d.last < conns[Other(p)][1].sendCounter,
           \A m \in Path(Other(p))' :
               /\ m.kind = "KEY_EXCHANGE" => d.status = "handshake" /\ d.pending = <<>>
               /\ m.kind = "ENCRYPTED" => d.last < m.counter,
           mounted' \in [Peer -> BOOLEAN], UNCHANGED pairs, ~refused'
    PROVE  PairInv' /\ TrafficInv'
<1> DEFINE q == Other(p)
           c == conns[p][1]
           e == conns[q][1]
<1>1. q \in Peer /\ q # p /\ Other(q) = p /\ Peer = {p, q}
  BY OtherFacts
<1>2. conns \in [Peer -> {<<>>} \cup {<<x>> : x \in Conn}] /\ ~refused /\ pairs \in Nat
  BY DEF PairingInv, PairInv
<1>3. /\ c \in Conn /\ Shaped(c) /\ conns[p] = <<c>>
      /\ e \in Conn /\ Shaped(e) /\ conns[q] = <<e>>
      /\ c.last < e.sendCounter /\ e.last < c.sendCounter /\ pairs # 0
  BY <1>1, <1>2 DEF PairingInv, PairInv
<1>4. /\ c.sendCounter \in Nat /\ c.last \in Nat \cup {-1} /\ e.sendCounter \in Nat
      /\ e.last \in Nat \cup {-1} /\ d.sendCounter \in Nat /\ d.last \in Nat \cup {-1}
  BY <1>3 DEF Conn
<1> HIDE DEF c, q, e
<1>5. conns'[p] = <<d>> /\ conns'[p][1] = d /\ conns'[p] # <<>> /\ conns'[q] = conns[q]
      /\ conns'[q][1] = e /\ conns'[q] # <<>>
  BY <1>1, <1>2, <1>3
<1>6. /\ d.sendCounter \in {c.sendCounter, c.sendCounter + 1} /\ out \in Seq(Msg) /\ Sorted(out)
      /\ \A m \in In(out) :
             m.kind = "ENCRYPTED" /\ m.cipher = Secret /\ m.counter = c.sendCounter
                 /\ d.sendCounter = c.sendCounter + 1
  <2>1. CASE out = <<>> /\ d.sendCounter = c.sendCounter
    BY <2>1 DEF In, Sorted
  <2>2. CASE ~(out = <<>> /\ d.sendCounter = c.sendCounter)
    <3>1. PICK x \in {"SYNC_SESSIONS", "PTY_RESIZE", "PTY_DATA"} :
              out = <<Encrypted(c.sendCounter, x)>> /\ d.sendCounter = c.sendCounter + 1
      BY <2>2 DEF Talks, c
    <3> DEFINE m == Encrypted(c.sendCounter, x)
    <3>2. m \in Msg /\ m.kind = "ENCRYPTED" /\ m.cipher = Secret /\ m.counter = c.sendCounter
      BY <1>4, MsgFacts DEF Encrypted
    <3> HIDE DEF m
    <3>3. out = <<m>>
      BY <3>1 DEF m
    <3> QED
      BY <3>1, <3>2, <3>3, OneMessage
  <2> QED
    BY <2>1, <2>2
<1>7. \A r \in Peer : \A m \in Path(r) : FromOk(r, m) /\ m \in Msg
  BY BoxFacts DEF PairingInv, TrafficInv
<1>8. \A m \in Path(p), n \in In(out) : Ok(m, n)
  BY <1>3, <1>6, <1>7 DEF Ok, FromOk, c
<1>9. /\ \A r \in Peer : Ordered(Inbox(Other(r)), Outbox(r))'
      /\ Path(q)' \subseteq Path(q)
      /\ \A m \in Path(p)' : m \in Path(p) \/ m \in In(out)
  BY <1>6, <1>8, AnswersStep DEF PairingInv, q
<1>10. PairInv'
  <2>1. conns' \in [Peer -> {<<>>} \cup {<<x>> : x \in Conn}]
    BY <1>2
  <2>2. ASSUME NEW r \in Peer, conns'[r] # <<>>
        PROVE  /\ Shaped(conns'[r][1])
               /\ conns'[Other(r)] # <<>>
               /\ conns'[r][1].last < conns'[Other(r)][1].sendCounter
    <3>1. CASE r = p
      BY <1>1, <1>3, <1>5, <3>1 DEF q, e
    <3>2. CASE r = q
      BY <1>1, <1>3, <1>4, <1>5, <1>6, <3>2
    <3> QED
      BY <1>1, <3>1, <3>2
  <2> QED
    BY <1>2, <1>3, <2>1, <2>2 DEF PairInv
<1>11. ASSUME NEW m, m \in Path(q)' PROVE FromOk(q, m)'
  <2>1. m \in Path(q) /\ FromOk(q, m)
    BY <1>1, <1>7, <1>9, <1>11
  <2>2. /\ m.kind = "KEY_EXCHANGE" => d.status = "handshake" /\ d.pending = <<>>
        /\ m.kind = "ENCRYPTED" => d.last < m.counter
    BY <1>11 DEF q
  <2> QED
    BY <1>1, <1>3, <1>5, <2>1, <2>2 DEF FromOk
<1>12. ASSUME NEW m, m \in Path(p)' PROVE FromOk(p, m)'
  <2>1. CASE m \in Path(p)
    <3>1. FromOk(p, m) /\ (m.kind = "ENCRYPTED" => m.counter \in Nat)
      BY <1>7, <2>1, MsgKinds
    <3>2. m.kind = "ENCRYPTED" => m.counter < c.sendCounter
      BY <3>1 DEF FromOk, c
    <3> QED
      BY <1>1, <1>3, <1>4, <1>5, <1>6, <3>1, <3>2 DEF FromOk, q, e
  <2>2. CASE m \in In(out)
    BY <1>1, <1>3, <1>4, <1>5, <1>6, <2>2 DEF FromOk, q
  <2> QED
    BY <1>9, <1>12, <2>1, <2>2
<1> QED
  BY <1>1, <1>9, <1>10, <1>11, <1>12 DEF TrafficInv

-----------------------------------------------------------------------------
(* What the handlers of a PeerConnection do to its only connection.        *)

(* A peer with connection c that has sent out.                             *)
State(c, out, mt) == [conns |-> <<c>>, out |-> out, mounted |-> mt, thrown |-> FALSE]

(* The parts of it.                                                        *)
LEMMA StateParts ==
    ASSUME NEW c, NEW out, NEW mt
    PROVE  /\ State(c, out, mt).conns = <<c>> /\ State(c, out, mt).conns[1] = c
           /\ State(c, out, mt).out = out /\ State(c, out, mt).mounted = mt
BY DEF State

(* Nothing was thrown.                                                     *)
LEMMA StateSilent ==
    ASSUME NEW c, NEW out, NEW mt
    PROVE  ~State(c, out, mt).thrown
BY DEF State

(* A handler changes a part of it.                                         *)
LEMMA StateChanged ==
    ASSUME NEW c, NEW out, NEW mt, NEW x
    PROVE  /\ [State(c, out, mt) EXCEPT !.conns = <<x>>] = State(x, out, mt)
           /\ [State(c, out, mt) EXCEPT !.out = x] = State(c, x, mt)
           /\ [State(c, out, mt) EXCEPT !.mounted = x] = State(c, out, x)
<1> DEFINE no == FALSE
           a == <<c>>
           b == <<x>>
<1>1. /\ \A o, m : State(c, o, m) = [conns |-> a, out |-> o, mounted |-> m, thrown |-> no]
      /\ \A o, m : State(x, o, m) = [conns |-> b, out |-> o, mounted |-> m, thrown |-> no]
  BY DEF State
<1> HIDE DEF no, a, b
<1>2. [State(c, out, mt) EXCEPT !.conns = b] = State(x, out, mt)
  BY <1>1
<1> QED
  BY <1>1, <1>2 DEF b

(* A sequence of one, changed.                                             *)
LEMMA OneChanged ==
    ASSUME NEW c, NEW d
    PROVE  <<c>>[1] = c /\ Len(<<c>>) = 1 /\ [<<c>> EXCEPT ![1] = d] = <<d>>
OBVIOUS

(* Its only connection, changed.                                           *)
LEMMA ConnChanged ==
    ASSUME NEW c, NEW out, NEW mt, NEW d
    PROVE  [State(c, out, mt) EXCEPT !.conns[1] = d] = State(d, out, mt)
<1>1. [State(c, out, mt) EXCEPT !.conns[1] = d] = [State(c, out, mt) EXCEPT !.conns = <<d>>]
  BY StateParts, OneChanged
<1> QED
  BY <1>1, StateChanged

(* A message to one connection.                                            *)
LEMMA OneHandles ==
    ASSUME NEW c, NEW out, NEW mt, NEW p, NEW m
    PROVE  HandledByAll(State(c, out, mt), p, m) = Handled(State(c, out, mt), p, 1, m)
<1> DEFINE st == State(c, out, mt)
           F(f) == [i \in 0 .. Len(st.conns) |->
                       IF i = 0 THEN st ELSE Handled(f[i - 1], p, i, m)]
           A == CHOOSE f : f = F(f)
           B == [i \in {0, 1} |-> IF i = 0 THEN st ELSE Handled(st, p, 1, m)]
<1>1. Len(st.conns) = 1
  BY StateParts, StateSilent
<1>2. HandledByAll(st, p, m) = A[Len(st.conns)]
  BY DEF HandledByAll
<1> HIDE DEF st
<1>3. F(B) = B
  BY <1>1
<1>4. A = F(A)
  BY <1>3
<1> HIDE DEF A
<1>5. A[0] = st /\ A[1] = Handled(A[0], p, 1, m)
  BY <1>1, <1>4
<1> QED
  BY <1>1, <1>2, <1>5 DEF st

(* A message to none.                                                      *)
LEMMA NoneHandles ==
    ASSUME NEW st, st.conns = <<>>, NEW p, NEW m
    PROVE  HandledByAll(st, p, m) = st
<1> DEFINE F(f) == [i \in 0 .. Len(st.conns) |->
                       IF i = 0 THEN st ELSE Handled(f[i - 1], p, i, m)]
           A == CHOOSE f : f = F(f)
<1>1. HandledByAll(st, p, m) = A[Len(st.conns)] /\ Len(st.conns) = 0
  BY DEF HandledByAll
<1>2. F([i \in {0} |-> st]) = [i \in {0} |-> st]
  BY <1>1
<1>3. A = F(A)
  BY <1>2
<1> HIDE DEF A
<1> QED
  BY <1>1, <1>3

(* Nothing came too early.                                                 *)
LEMMA NothingFlushed ==
    ASSUME NEW st, NEW i
    PROVE  Flushed(st, i, <<>>) = st
<1> DEFINE F(f) == [k \in 0 .. Len(<<>>) |->
                       IF k = 0 THEN st ELSE Decrypted(f[k - 1], i, <<>>[k])]
           A == CHOOSE f : f = F(f)
<1>1. Flushed(st, i, <<>>) = A[Len(<<>>)] /\ Len(<<>>) = 0
  BY DEF Flushed
<1>2. F([k \in {0} |-> st]) = [k \in {0} |-> st]
  OBVIOUS
<1>3. A = F(A)
  BY <1>2
<1> HIDE DEF A
<1> QED
  BY <1>1, <1>3

(* send of the connection.                                                 *)
LEMMA SentIs ==
    ASSUME NEW c \in Conn, c.cipher = Secret, NEW mt, NEW payload
    PROVE  Sent(State(c, <<>>, mt), 1, payload)
               = State([c EXCEPT !.sendCounter = @ + 1], <<Encrypted(c.sendCounter, payload)>>, mt)
<1> DEFINE m == [kind |-> "ENCRYPTED", cipher |-> c.cipher, counter |-> c.sendCounter,
                 payload |-> payload]
           st == State(c, <<>>, mt)
           d == [c EXCEPT !.sendCounter = @ + 1]
<1>1. m = Encrypted(c.sendCounter, payload)
  BY DEF Encrypted
<1>2. st.conns[1] = c /\ st.out = <<>>
  BY StateParts, StateSilent
<1>3. Sent(st, 1, payload) = [st EXCEPT !.conns[1].sendCounter = @ + 1, !.out = Append(@, m)]
  BY <1>2 DEF Sent
<1> DEFINE o == Append(<<>>, m)
<1>4. o = <<Encrypted(c.sendCounter, payload)>>
  <2> HIDE DEF m
  <2>1. \A x : Append(<<>>, x) = <<x>>
    OBVIOUS
  <2> QED
    BY <1>1, <2>1
<1> HIDE DEF o, m
<1>5. Append(st.out, m) = o
  BY <1>2 DEF o
<1>6. [st EXCEPT !.conns[1].sendCounter = @ + 1, !.out = Append(@, m)]
          = [[st EXCEPT !.conns[1] = d] EXCEPT !.out = o]
  <2>1. [st EXCEPT !.conns[1].sendCounter = @ + 1] = [st EXCEPT !.conns[1] = d]
    BY <1>2
  <2>2. [st EXCEPT !.conns[1].sendCounter = @ + 1, !.out = Append(@, m)]
            = [[st EXCEPT !.conns[1].sendCounter = @ + 1] EXCEPT !.out = Append(st.out, m)]
    BY DEF State
  <2> HIDE DEF st, d
  <2> QED
    BY <1>5, <2>1, <2>2
<1> HIDE DEF d
<1>7. [st EXCEPT !.conns[1] = d] = State(d, <<>>, mt)
  BY ConnChanged
<1>8. [State(d, <<>>, mt) EXCEPT !.out = o] = State(d, o, mt)
  BY StateChanged
<1> QED
  BY <1>3, <1>4, <1>6, <1>7, <1>8 DEF d

(* What a connection c has become: d, which has sent out.                  *)
Becomes(st, c, d, out) ==
    \E mt \in BOOLEAN : st = State(d, out, mt) /\ d \in Conn /\ Talks(c, d, out)

(* App hears a message: a guest may answer.                                *)
LEMMA DeliveredIs ==
    ASSUME NEW c \in Conn, c.cipher = Secret, c.status = "encrypted", NEW mt \in BOOLEAN,
           NEW payload \in {"SYNC_SESSIONS", "PTY_RESIZE", "PTY_DATA"}
    PROVE  \E d, out : /\ Becomes(Delivered(State(c, <<>>, mt), 1, payload), c, d, out)
                       /\ d.status = c.status /\ d.cipher = c.cipher /\ d.last = c.last
<1> DEFINE st == State(c, <<>>, mt)
           d == [c EXCEPT !.sendCounter = @ + 1]
<1>1. st.conns[1] = c /\ st.mounted = mt
  BY StateParts, StateSilent
<1>2. d \in Conn /\ d.status = c.status /\ d.cipher = c.cipher /\ d.last = c.last
      /\ d.sendCounter = c.sendCounter + 1
  BY DEF Conn
<1>3. ASSUME NEW x \in {"SYNC_SESSIONS", "PTY_RESIZE", "PTY_DATA"}, NEW nt \in BOOLEAN
      PROVE  Becomes(Sent(State(c, <<>>, nt), 1, x), c, d, <<Encrypted(c.sendCounter, x)>>)
  <2>1. Sent(State(c, <<>>, nt), 1, x) = State(d, <<Encrypted(c.sendCounter, x)>>, nt)
    BY SentIs
  <2> HIDE DEF d
  <2> QED
    BY <1>2, <2>1 DEF Becomes, Talks
<1>4. Becomes(st, c, c, <<>>)
  BY DEF Becomes, Talks
<1>5. PICK nt \in BOOLEAN : nt = TRUE
  OBVIOUS
<1>6. [st EXCEPT !.mounted = TRUE] = State(c, <<>>, nt)
  <2>1. [st EXCEPT !.mounted = nt] = State(c, <<>>, nt)
    BY StateChanged
  <2> QED
    BY <1>5, <2>1
<1> HIDE DEF d, st
<1>7. \/ Delivered(st, 1, payload) = st
      \/ Delivered(st, 1, payload) = Sent([st EXCEPT !.mounted = TRUE], 1, "PTY_RESIZE")
      \/ Delivered(st, 1, payload) = Sent(st, 1, "PTY_DATA")
  BY DEF Delivered
<1> QED
  BY <1>2, <1>3, <1>4, <1>6, <1>7 DEF st

(* decryptAndEmit of a message of the same keys, with a new counter.       *)
LEMMA DecryptedIs ==
    ASSUME NEW c \in Conn, c.cipher = Secret, c.status = "encrypted", NEW mt \in BOOLEAN,
           NEW m \in Msg, m.kind = "ENCRYPTED", m.cipher = Secret, c.last < m.counter
    PROVE  \E d, out : /\ Becomes(Decrypted(State(c, <<>>, mt), 1, m), c, d, out)
                       /\ d.status = "encrypted" /\ d.cipher = Secret /\ d.last = m.counter
<1> DEFINE st == State(c, <<>>, mt)
           b == [c EXCEPT !.last = m.counter]
<1>1. st.conns[1] = c /\ st.conns = <<c>> /\ ~st.thrown
  BY StateParts, StateSilent
<1>2. m.counter \in Nat /\ m.payload \in {"SYNC_SESSIONS", "PTY_RESIZE", "PTY_DATA"}
      /\ c.last \in Nat \cup {-1}
  BY MsgKinds DEF Conn
<1>3. b \in Conn /\ b.status = "encrypted" /\ b.cipher = Secret /\ b.last = m.counter
      /\ b.sendCounter = c.sendCounter
  BY <1>2 DEF Conn
<1>4. [st EXCEPT !.conns[1].last = m.counter] = State(b, <<>>, mt)
  <2>1. [st EXCEPT !.conns[1].last = m.counter] = [st EXCEPT !.conns[1] = b]
    BY <1>1
  <2> HIDE DEF b
  <2> QED
    BY <2>1, ConnChanged
<1> HIDE DEF b, st
<1>5. Decrypted(st, 1, m) = Delivered(State(b, <<>>, mt), 1, m.payload)
  BY <1>1, <1>2, <1>4 DEF Decrypted
<1>6. PICK d, out : /\ Becomes(Decrypted(st, 1, m), b, d, out)
                    /\ d.status = b.status /\ d.cipher = b.cipher /\ d.last = b.last
  BY <1>2, <1>3, <1>5, DeliveredIs
<1>7. Becomes(Decrypted(st, 1, m), c, d, out)
  BY <1>3, <1>6 DEF Becomes, Talks
<1> QED
  BY <1>3, <1>6, <1>7 DEF st

(* finalizeHandshake, when nothing came too early.                         *)
LEMMA FinalizedIs ==
    ASSUME NEW c \in Conn, Shaped(c), c.status = "handshake", c.pending = <<>>,
           NEW mt \in BOOLEAN, NEW p \in Peer
    PROVE  \E d, out :
               /\ Becomes(Finalized(State(c, <<>>, mt), p, 1, <<Other(p), 1>>), c, d, out)
               /\ d.status = "encrypted" /\ d.cipher = Secret /\ d.last = -1
<1> DEFINE st == State(c, <<>>, mt)
           b == [c EXCEPT !.cipher = Secret, !.status = "encrypted"]
           synced == IF c.role = "host" THEN Sent(State(b, <<>>, mt), 1, "SYNC_SESSIONS")
                                        ELSE State(b, <<>>, mt)
<1>1. SharedSecret(p, 1, <<Other(p), 1>>) = Secret
  BY OtherFacts DEF Secret, SharedSecret
<1>2. c.sendCounter = 0 /\ c.last = -1
  BY DEF Shaped
<1>3. st.conns[1] = c /\ st.conns = <<c>> /\ ~st.thrown
  BY StateParts, StateSilent
<1>4. b \in Conn /\ b.status = "encrypted" /\ b.cipher = Secret /\ b.last = -1
      /\ b.sendCounter = c.sendCounter /\ b.pending = <<>> /\ b.role = c.role
  BY <1>2 DEF Conn
<1>5. [st EXCEPT !.conns[1] = Ready(@, Secret)] = State(b, <<>>, mt)
  <2>1. Ready(c, Secret) = b
    BY <1>2 DEF Conn, Ready
  <2> HIDE DEF b
  <2>2. [st EXCEPT !.conns[1] = Ready(@, Secret)] = [st EXCEPT !.conns[1] = b]
    <3> HIDE DEF st
    <3> QED
      BY <1>3, <2>1
  <2> QED
    BY <2>2, ConnChanged
<1>6. \E d, out : /\ Becomes(synced, c, d, out)
                  /\ d.status = "encrypted" /\ d.cipher = Secret /\ d.last = -1 /\ d.pending = <<>>
  <2>1. CASE c.role = "host"
    <3> DEFINE d == [b EXCEPT !.sendCounter = @ + 1]
               out == <<Encrypted(c.sendCounter, "SYNC_SESSIONS")>>
    <3>1. synced = State(d, out, mt)
      BY <1>4, <2>1, SentIs
    <3>2. /\ d \in Conn /\ d.status = "encrypted" /\ d.cipher = Secret /\ d.last = -1
          /\ d.pending = <<>> /\ d.sendCounter = c.sendCounter + 1
      <4> HIDE DEF b
      <4> QED
        BY <1>4 DEF Conn
    <3> HIDE DEF d, b, synced
    <3>3. Talks(c, d, out)
      BY <3>2 DEF Talks
    <3> QED
      BY <3>1, <3>2, <3>3 DEF Becomes
  <2>2. CASE c.role # "host"
    <3> HIDE DEF b
    <3>1. Talks(c, b, <<>>)
      BY <1>4 DEF Talks
    <3> QED
      BY <1>4, <2>2, <3>1 DEF Becomes
  <2> QED
    BY <2>1, <2>2
<1> HIDE DEF b, synced
<1>7. PICK d, out : /\ Becomes(synced, c, d, out)
                    /\ d.status = "encrypted" /\ d.cipher = Secret /\ d.last = -1
                    /\ d.pending = <<>>
  BY <1>6
<1>8. PICK nt \in BOOLEAN : synced = State(d, out, nt)
  BY <1>7 DEF Becomes
<1>9. [synced EXCEPT !.conns[1].pending = <<>>] = synced /\ ~synced.thrown
  <2>1. d \in Conn /\ ~synced.thrown /\ synced.conns[1] = d
    BY <1>7, <1>8, StateParts, StateSilent DEF Becomes
  <2>2. [d EXCEPT !.pending = <<>>] = d
    BY <1>7, <2>1 DEF Conn
  <2>3. [synced EXCEPT !.conns[1].pending = <<>>] = [synced EXCEPT !.conns[1] = d]
    BY <2>1, <2>2
  <2> QED
    BY <1>8, <2>1, <2>3, ConnChanged
<1>10. Finalized(st, p, 1, <<Other(p), 1>>) = synced
  <2> DEFINE key == <<Other(p), 1>>
             ready == [st EXCEPT !.conns[1] = Ready(@, SharedSecret(p, 1, key))]
             next == IF st.conns[1].role = "host" THEN Sent(ready, 1, "SYNC_SESSIONS") ELSE ready
             flushed == Flushed([next EXCEPT !.conns[1].pending = <<>>], 1, st.conns[1].pending)
  <2>1. st.conns[1].role = c.role /\ st.conns[1].pending = <<>>
    BY <1>3
  <2>2. ready = State(b, <<>>, mt)
    BY <1>1, <1>5
  <2>3. next = synced
    <3> HIDE DEF ready, st
    <3> QED
      BY <2>1, <2>2 DEF synced
  <2>4. Finalized(st, p, 1, key)
            = IF flushed.thrown THEN [flushed EXCEPT !.conns[1].status = "disconnected"]
              ELSE flushed
    <3> HIDE DEF st, key
    <3> QED
      BY Zenon DEF Finalized
  <2> HIDE DEF next, key, st
  <2>5. flushed = synced
    BY <1>9, <2>1, <2>3, NothingFlushed
  <2> HIDE DEF flushed
  <2> QED
    BY <1>9, <2>4, <2>5 DEF key
<1> QED
  BY <1>7, <1>10

-----------------------------------------------------------------------------
(* NetworkManager reads a message.                                         *)

(* Sockets of two peers differ.                                            *)
LEMMA OwnSocket ==
    ASSUME IInv, NEW p \in Peer, ws[p] # None
    PROVE  ws[p] \in Socket /\ owner[ws[p]] = p /\ ws[Other(p)] # ws[p]
BY OtherFacts DEF IInv, OwnerInv

(* Messages are lost or read, and nothing else happens.                    *)
LEMMA RestStep ==
    ASSUME IInv, PairingInv, UNCHANGED <<conns, mounted, pairs>>, ~refused',
           \A r \in Peer : Rest(Inbox(r)', Inbox(r)) /\ Rest(Outbox(r)', Outbox(r))
    PROVE  PairInv' /\ TrafficInv'
<1>1. \A r \in Peer : Other(r) \in Peer
  BY OtherFacts
<1>2. ASSUME NEW r \in Peer
      PROVE  /\ Ordered(Inbox(Other(r)), Outbox(r))'
             /\ In(Inbox(r)') \subseteq In(Inbox(r)) /\ In(Outbox(r)') \subseteq In(Outbox(r))
  <2>1. /\ Inbox(Other(r)) \in Seq(Msg) /\ Inbox(r) \in Seq(Msg) /\ Outbox(r) \in Seq(Msg)
        /\ Ordered(Inbox(Other(r)), Outbox(r))
    BY <1>1, BoxFacts DEF PairingInv, TrafficInv
  <2>2. Ordered(Inbox(Other(r))', Outbox(r)')
    BY <1>1, <2>1, RestOrdered
  <2>3. In(Inbox(r)') \subseteq In(Inbox(r)) /\ In(Outbox(r)') \subseteq In(Outbox(r))
    BY <2>1, RestIn
  <2> QED
    BY <2>2, <2>3
<1>3. \A r \in Peer : Path(r)' \subseteq Path(r)
  BY <1>1, <1>2 DEF Path
<1> QED
  BY <1>2, <1>3, CarryStep DEF PairingInv

(* The first message under way comes before all the others.                *)
LEMMA HeadBefore ==
    ASSUME NEW S, NEW q \in Seq(S), NEW r \in Seq(S), Ordered(q, r), q # <<>>
    PROVE  \A n \in In(Tail(q)) \cup In(r) : Ok(Head(q), n)
<1>1. \A i \in 1 .. Len(Tail(q)) :
          Tail(q)[i] = q[i + 1] /\ i + 1 \in 1 .. Len(q) /\ 1 \in 1 .. Len(q) /\ 1 < i + 1
  OBVIOUS
<1>2. Head(q) = q[1] /\ 1 \in 1 .. Len(q)
  OBVIOUS
<1>3. ASSUME NEW i \in 1 .. Len(Tail(q)) PROVE Ok(q[1], Tail(q)[i])
  BY <1>1 DEF Ordered, Sorted
<1>4. ASSUME NEW i \in 1 .. Len(r) PROVE Ok(q[1], r[i])
  BY <1>2 DEF Ordered, Before
<1> QED
  BY <1>2, <1>3, <1>4 DEF In

(* A handler of p reads a message and sends out, with these effects.       *)
LEMMA ReadsParts ==
    ASSUME IInv, LinkInv, NEW p \in Peer, Reads(p),
           NEW done, done = Received(Start(p), p, Head(Inbox(p)))
    PROVE  /\ Inbox(p) # <<>> /\ Inbox(p)' = Tail(Inbox(p)) /\ Answers(p, done.out)
           /\ conns' = [conns EXCEPT ![p] = done.conns]
           /\ mounted' = [mounted EXCEPT ![p] = done.mounted]
           /\ refused' = (refused \/ done.thrown) /\ pairs' = pairs
<1> DEFINE q == Other(p)
<1>1. ws[p] \in Socket /\ ws[p] # None /\ ws[q] # ws[p] /\ ws' = ws /\ ws[p] \notin {None}
  BY OwnSocket, SocketFacts DEF Reads, IInv, OwnerInv
<1>2. down[ws[p]] # <<>> /\ down' = [down EXCEPT ![ws[p]] = Tail(@)]
  BY DEF Reads
<1>3. /\ down \in [Socket -> Seq(Msg)] /\ up \in [Socket -> Seq(Msg)]
      /\ q \in Peer /\ ws[q] \in Socket \cup {None}
  BY OtherFacts DEF LinkInv, SocketInv, IInv, OwnerInv
<1>4. Inbox(p) = down[ws[p]]
  BY <1>1 DEF Inbox
<1>5. /\ conns' = [conns EXCEPT ![p] = done.conns]
      /\ mounted' = [mounted EXCEPT ![p] = done.mounted]
      /\ refused' = (refused \/ done.thrown) /\ pairs' = pairs
      /\ Sends(p, done.out)
  BY <1>4 DEF Reads, counters
<1> HIDE DEF q
<1>6. Inbox(p)' = Tail(Inbox(p)) /\ Inbox(q)' = Inbox(q)
  BY <1>1, <1>2, <1>3 DEF Inbox
<1>7. (Outbox(p)' = Outbox(p) \/ Outbox(p)' = Outbox(p) \o done.out) /\ Outbox(q)' = Outbox(q)
  BY <1>1, <1>3, <1>5 DEF Outbox, Sends
<1> QED
  BY <1>2, <1>4, <1>5, <1>6, <1>7 DEF Answers, Rest, q

(* What p reads was first under way from the other peer.                   *)
LEMMA HeadFacts ==
    ASSUME IInv, PairingInv, NEW p \in Peer, Inbox(p) # <<>>, Inbox(p)' = Tail(Inbox(p)),
           NEW out, Answers(p, out), NEW m, m = Head(Inbox(p))
    PROVE  /\ m \in Msg /\ m \in Path(Other(p)) /\ FromOk(Other(p), m) /\ m.kind # "HELLO"
           /\ m.kind = "HELLO_ACK" => owner[m.code] = p
           /\ \A n \in Path(Other(p))' : n \in Path(Other(p)) /\ Ok(m, n)
<1> DEFINE q == Other(p)
<1>1. q \in Peer /\ Other(q) = p
  BY OtherFacts
<1>2. Inbox(p) \in Seq(Msg) /\ Outbox(q) \in Seq(Msg)
  BY <1>1, BoxFacts DEF PairingInv
<1>3. m \in In(Inbox(p)) /\ m \in Msg
  BY <1>2, HeadIn
<1>4. Ordered(Inbox(p), Outbox(q))
  BY <1>1 DEF PairingInv, TrafficInv
<1>5. \A n \in In(Tail(Inbox(p))) \cup In(Outbox(q)) : Ok(m, n)
  BY <1>2, <1>4, HeadBefore
<1>6. In(Tail(Inbox(p))) \subseteq In(Inbox(p))
  BY <1>2, RestIn DEF Rest
<1>7. Path(q) = In(Inbox(p)) \cup In(Outbox(q))
  BY <1>1 DEF Path
<1>8. Path(q)' = In(Tail(Inbox(p))) \cup In(Outbox(q))
  BY <1>1 DEF Path, Answers
<1>9. FromOk(q, m)
  BY <1>1, <1>3, <1>7 DEF PairingInv, TrafficInv
<1>10. m.kind # "HELLO" /\ (m.kind = "HELLO_ACK" => owner[m.code] = p)
  BY <1>3 DEF PairingInv, LinkInv, CodesInv
<1> HIDE DEF q
<1>11. m \in Path(q) /\ \A n \in Path(q)' : n \in Path(q) /\ Ok(m, n)
  BY <1>3, <1>5, <1>6, <1>7, <1>8
<1> QED
  BY <1>3, <1>9, <1>10, <1>11 DEF q

(* What p has before it reads.                                             *)
LEMMA StartFacts ==
    ASSUME NEW p \in Peer
    PROVE  /\ Start(p).conns = conns[p] /\ Start(p).out = <<>> /\ Start(p).mounted = mounted[p]
           /\ ~Start(p).thrown
           /\ \A c : conns[p] = <<c>> => Start(p) = State(c, <<>>, mounted[p])
BY DEF Start, State

(* p sends messages of the handshake or encrypted ones.                    *)
Fine(out) ==
    /\ out \in Seq(Msg)
    /\ \A m \in In(out) : m.kind \notin {"HELLO_ACK", "PAIR_REJECT", "PAIR_REQUEST"}

(* Whatever p reads, the invariant stays.                                  *)
Replied(p) == PairInv' /\ TrafficInv' /\ Fine(Received(Start(p), p, Head(Inbox(p))).out)

(* p reads and does nothing.                                               *)
LEMMA ReadsNothing ==
    ASSUME IInv, PairingInv, NEW p \in Peer, Reads(p),
           Received(Start(p), p, Head(Inbox(p))) = Start(p)
    PROVE  Replied(p)
<1> DEFINE done == Start(p)
<1>1. /\ Inbox(p) # <<>> /\ Inbox(p)' = Tail(Inbox(p)) /\ Answers(p, done.out)
      /\ conns' = [conns EXCEPT ![p] = done.conns]
      /\ mounted' = [mounted EXCEPT ![p] = done.mounted]
      /\ refused' = (refused \/ done.thrown) /\ pairs' = pairs
  BY ReadsParts DEF PairingInv
<1>2. done.conns = conns[p] /\ done.mounted = mounted[p] /\ done.out = <<>> /\ ~done.thrown
  BY StartFacts
<1> HIDE DEF done
<1>3. conns \in [Peer -> {<<>>} \cup {<<c>> : c \in Conn}] /\ mounted \in [Peer -> BOOLEAN]
      /\ ~refused
  BY DEF PairingInv, PairInv
<1>4. UNCHANGED <<conns, mounted>>
  BY <1>1, <1>2, <1>3
<1>5. ~refused'
  BY <1>1, <1>2, <1>3
<1>6. Outbox(p) \in Seq(Msg) /\ Outbox(p) \o <<>> = Outbox(p)
  BY BoxFacts DEF PairingInv
<1>7. \A r \in Peer : Rest(Inbox(r)', Inbox(r)) /\ Rest(Outbox(r)', Outbox(r))
  <2>1. Answers(p, <<>>)
    BY <1>1, <1>2
  <2> QED
    BY <1>6, <2>1, OtherFacts DEF Answers, Rest
<1>8. PairInv' /\ TrafficInv'
  BY <1>1, <1>4, <1>5, <1>7, RestStep
<1>9. Fine(<<>>)
  BY DEF Fine, In
<1> QED
  BY <1>2, <1>8, <1>9 DEF Replied, done

(* What a connection says.                                                 *)
LEMMA TalksFine ==
    ASSUME NEW c \in Conn, NEW d, NEW out, Talks(c, d, out)
    PROVE  Fine(out)
<1>1. CASE out = <<>>
  BY <1>1 DEF Fine, In
<1>2. CASE out # <<>>
  <2>1. PICK x \in {"SYNC_SESSIONS", "PTY_RESIZE", "PTY_DATA"} :
            out = <<Encrypted(c.sendCounter, x)>>
    BY <1>2 DEF Talks
  <2> DEFINE m == Encrypted(c.sendCounter, x)
  <2>2. m \in Msg /\ m.kind = "ENCRYPTED"
    BY MsgFacts DEF Encrypted, Conn
  <2> HIDE DEF m
  <2>3. out = <<m>> /\ In(<<m>>) = {m}
    BY <2>1, OneMessage DEF m
  <2> QED
    BY <2>2, <2>3 DEF Fine
<1> QED
  BY <1>1, <1>2

(* p reads on its connection.                                              *)
LEMMA ReadsTalk ==
    ASSUME IInv, PairingInv, NEW p \in Peer, Reads(p), NEW c, conns[p] = <<c>>,
           NEW m, m = Head(Inbox(p)), m.kind \in {"KEY_EXCHANGE", "ENCRYPTED"},
           NEW d, NEW out, Becomes(Received(Start(p), p, m), c, d, out), Shaped(d),
           m.kind = "KEY_EXCHANGE" => d.last = -1,
           m.kind = "ENCRYPTED" => d.last \in {m.counter, c.last}
    PROVE  Replied(p)
<1> DEFINE q == Other(p)
           done == Received(Start(p), p, m)
<1>1. q \in Peer /\ Other(q) = p
  BY OtherFacts
<1>2. PICK mt \in BOOLEAN : done = State(d, out, mt) /\ d \in Conn /\ Talks(c, d, out)
  BY DEF Becomes
<1>3. done.conns = <<d>> /\ done.out = out /\ done.mounted = mt /\ ~done.thrown
  BY <1>2, StateParts, StateSilent
<1>4. /\ Inbox(p) # <<>> /\ Inbox(p)' = Tail(Inbox(p)) /\ Answers(p, done.out)
      /\ conns' = [conns EXCEPT ![p] = done.conns]
      /\ mounted' = [mounted EXCEPT ![p] = done.mounted]
      /\ refused' = (refused \/ done.thrown) /\ pairs' = pairs
  BY ReadsParts DEF PairingInv
<1> HIDE DEF done, q
<1>5. /\ m \in Msg /\ FromOk(q, m)
      /\ \A n \in Path(q)' : n \in Path(q) /\ Ok(m, n)
  BY <1>4, HeadFacts DEF q
<1>6. mounted \in [Peer -> BOOLEAN] /\ ~refused /\ conns[p] # <<>> /\ c = conns[p][1]
  BY DEF PairingInv, PairInv
<1>7. conns[q] # <<>> /\ (m.kind = "ENCRYPTED" => m.counter < conns[q][1].sendCounter)
  BY <1>5 DEF FromOk
<1>8. c.last < conns[q][1].sendCounter /\ conns[q][1].sendCounter \in Nat
  <2>1. conns[q] \in {<<>>} \cup {<<x>> : x \in Conn}
    BY <1>1 DEF PairingInv, PairInv
  <2>2. conns[q][1] \in Conn
    BY <1>7, <2>1
  <2> QED
    BY <1>1, <1>6, <1>7, <2>2 DEF PairingInv, PairInv, Conn, q
<1>9. d.last < conns[q][1].sendCounter
  BY <1>7, <1>8
<1>10. ASSUME NEW n \in Path(q)'
       PROVE  /\ n.kind = "KEY_EXCHANGE" => d.status = "handshake" /\ d.pending = <<>>
              /\ n.kind = "ENCRYPTED" => d.last < n.counter
  <2>1. n \in Path(q) /\ FromOk(q, n) /\ Ok(m, n) /\ n \in Msg
    BY <1>1, <1>5, <1>10, BoxFacts DEF PairingInv, TrafficInv
  <2>2. n.kind # "KEY_EXCHANGE"
    BY <2>1 DEF Ok
  <2>3. n.kind = "ENCRYPTED" => n.counter \in Nat
    BY <2>1, MsgKinds
  <2>4. n.kind = "ENCRYPTED" => c.last < n.counter
    BY <1>1, <1>6, <2>1 DEF FromOk
  <2>5. n.kind = "ENCRYPTED" /\ m.kind = "ENCRYPTED" => m.counter < n.counter
    BY <2>1 DEF Ok
  <2> QED
    BY <2>2, <2>3, <2>4, <2>5
<1>11. mounted' \in [Peer -> BOOLEAN] /\ ~refused'
  BY <1>3, <1>4, <1>6
<1>12. conns' = [conns EXCEPT ![p] = <<d>>] /\ Answers(p, out) /\ Talks(conns[p][1], d, out)
  BY <1>2, <1>3, <1>4, <1>6
<1>13. PairInv' /\ TrafficInv'
  BY <1>2, <1>4, <1>6, <1>7, <1>9, <1>10, <1>11, <1>12, TalkStep DEF q
<1>14. c \in Conn
  <2>1. conns[p] \in {<<>>} \cup {<<x>> : x \in Conn}
    BY DEF PairingInv, PairInv
  <2> QED
    BY <1>6, <2>1
<1>15. Fine(out)
  BY <1>2, <1>14, TalksFine
<1> QED
  BY <1>3, <1>13, <1>15 DEF Replied, done

(* p makes its connection when it reads.                                   *)
LEMMA ReadsBirth ==
    ASSUME IInv, PairingInv, NEW p \in Peer, Reads(p), conns[p] = <<>>, pairs # 0,
           NEW role \in {"host", "guest"},
           NEW out \in {<<[kind |-> "PAIR_ACCEPT"], KeyExchange(p, 1)>>, <<KeyExchange(p, 1)>>},
           NEW done, done = Received(Start(p), p, Head(Inbox(p))),
           done.conns = <<NewConn(role, "handshake")>>, done.out = out,
           done.mounted = mounted[p], ~done.thrown,
           \A n \in Path(p) : n.kind # "PAIR_REQUEST",
           \A n \in Path(Other(p))' : n.kind # "PAIR_REQUEST"
    PROVE  Replied(p)
<1> DEFINE q == Other(p)
           b == NewConn(role, "handshake")
<1>1. q \in Peer /\ Other(q) = p /\ Peer = {p, q}
  BY OtherFacts
<1>2. Fine(out) /\ out \in Seq(Msg) /\ \A n \in In(out) : n.kind # "PAIR_REQUEST"
  <2> DEFINE a == [kind |-> "PAIR_ACCEPT"]
             k == KeyExchange(p, 1)
  <2>1. a \in Msg /\ k \in Msg /\ a.kind = "PAIR_ACCEPT" /\ k.kind = "KEY_EXCHANGE"
    BY MsgFacts DEF KeyExchange
  <2> HIDE DEF a, k
  <2>2. out = <<a, k>> \/ out = <<k>>
    BY DEF a, k
  <2>3. CASE out = <<a, k>>
    BY <2>1, <2>3 DEF In, Fine
  <2>4. CASE out = <<k>>
    BY <2>1, <2>4 DEF In, Fine
  <2> QED
    BY <2>2, <2>3, <2>4
<1> HIDE DEF q, b
<1>3. /\ Answers(p, done.out) /\ conns' = [conns EXCEPT ![p] = done.conns]
      /\ mounted' = [mounted EXCEPT ![p] = done.mounted]
      /\ refused' = (refused \/ done.thrown) /\ pairs' = pairs
  BY ReadsParts DEF PairingInv
<1>4. mounted \in [Peer -> BOOLEAN] /\ ~refused
  BY DEF PairingInv, PairInv
<1>5. mounted' = mounted /\ ~refused'
  BY <1>3, <1>4
<1>6. Answers(p, out) /\ conns' = [conns EXCEPT ![p] = <<b>>]
  BY <1>3 DEF b
<1>7. Inbox(q) \in Seq(Msg) /\ Outbox(p) \in Seq(Msg)
  BY <1>1, BoxFacts DEF PairingInv
<1>8. \A n \in Path(p)' : n \in Path(p) \/ n \in In(out)
  <2>1. Path(p) = In(Inbox(q)) \cup In(Outbox(p)) /\ Path(p)' = In(Inbox(q)') \cup In(Outbox(p)')
    BY DEF Path, q
  <2>2. In(Outbox(p) \o out) \subseteq In(Outbox(p)) \cup In(out)
    BY <1>2, <1>7, ConcatIn
  <2> QED
    BY <1>6, <2>1, <2>2 DEF Answers, q
<1>9. \A r \in Peer : \A n \in Path(r)' : n.kind # "PAIR_REQUEST"
  BY <1>1, <1>2, <1>8 DEF q
<1>10. PairInv' /\ TrafficInv'
  BY <1>2, <1>3, <1>5, <1>6, <1>9, BirthStep DEF b
<1> QED
  BY <1>2, <1>10 DEF Replied

(* PAIR_REQUEST: p becomes the host.                                       *)
LEMMA ReadsRequest ==
    ASSUME IInv, PairingInv, NEW p \in Peer, Reads(p), Head(Inbox(p)).kind = "PAIR_REQUEST"
    PROVE  Replied(p)
<1> DEFINE m == Head(Inbox(p))
           st == Start(p)
           b == NewConn("host", "handshake")
           out == <<[kind |-> "PAIR_ACCEPT"], KeyExchange(p, 1)>>
           done == [st EXCEPT !.conns = <<b>>, !.out = out]
<1>1. Inbox(p) # <<>> /\ Inbox(p)' = Tail(Inbox(p)) /\ \E o : Answers(p, o)
  BY ReadsParts DEF PairingInv
<1>2. Other(p) \in Peer /\ Other(Other(p)) = p
  BY OtherFacts
<1>3. /\ FromOk(Other(p), m) /\ \A n \in Path(Other(p))' : n \in Path(Other(p)) /\ Ok(m, n)
  <2> HIDE DEF m
  <2> QED
    BY <1>1, HeadFacts DEF m
<1>4. pairs # 0 /\ conns[p] = <<>> /\ \A n \in Path(p) : n.kind # "PAIR_REQUEST"
  BY <1>2, <1>3 DEF FromOk
<1>5. \A n \in Path(Other(p))' : n.kind # "PAIR_REQUEST"
  BY <1>3 DEF Ok
<1>6. Len(st.conns) + 1 = 1 /\ Append(st.conns, b) = <<b>>
  <2>1. st.conns = <<>>
    BY <1>4, StartFacts
  <2> HIDE DEF b, st
  <2> QED
    BY <2>1
<1>7. Received(st, p, m) = done
  <2>1. Received(st, p, m) = PairRequested(st, p)
    BY DEF Received
  <2> DEFINE k == KeyExchange(p, Len(st.conns) + 1)
             a == Append(st.conns, b)
             o == <<[kind |-> "PAIR_ACCEPT"], k>>
  <2>2. PairRequested(st, p) = [st EXCEPT !.conns = a, !.out = o]
    BY DEF PairRequested
  <2>3. k = KeyExchange(p, 1)
    BY <1>6
  <2>4. o = out /\ a = <<b>>
    BY <1>6, <2>3
  <2> HIDE DEF o, a, k, out, b, st
  <2> QED
    BY <2>1, <2>2, <2>4
<1>8. done.conns = <<b>> /\ done.out = out /\ done.mounted = mounted[p] /\ ~done.thrown
  BY DEF Start
<1> HIDE DEF out, st, done, m
<1> QED
  BY <1>4, <1>5, <1>7, <1>8, ReadsBirth DEF b, out, st, m

(* p has a first connection.                                               *)
LEMMA StartConns ==
    ASSUME NEW p \in Peer, NEW c
    PROVE  [Start(p) EXCEPT !.conns = <<c>>] = State(c, <<>>, mounted[p])
<1> DEFINE no == FALSE
           a == <<c>>
<1>1. /\ State(c, <<>>, mounted[p])
             = [conns |-> a, out |-> <<>>, mounted |-> mounted[p], thrown |-> no]
      /\ Start(p) = [conns |-> conns[p], out |-> <<>>, mounted |-> mounted[p], thrown |-> no]
  BY DEF State, Start
<1> HIDE DEF no, a
<1>2. [Start(p) EXCEPT !.conns = a] = State(c, <<>>, mounted[p])
  BY <1>1
<1> QED
  BY <1>2 DEF a

(* startHandshake of its connection.                                       *)
LEMMA StartedIs ==
    ASSUME NEW c, NEW mt, NEW p
    PROVE  Started(State(c, <<>>, mt), p, 1) = State(KeySent(c), <<KeyExchange(p, 1)>>, mt)
<1> DEFINE st == State(c, <<>>, mt)
           k == KeyExchange(p, 1)
           d == KeySent(c)
           o == Append(<<>>, k)
<1>1. st.conns[1] = c /\ st.out = <<>>
  BY StateParts
<1>2. o = <<k>>
  <2> HIDE DEF k
  <2> QED
    OBVIOUS
<1>3. Started(st, p, 1) = [st EXCEPT !.conns[1] = d, !.out = o]
  <2> HIDE DEF st
  <2> QED
    BY <1>1 DEF Started
<1> HIDE DEF o, d, k
<1>4. [st EXCEPT !.conns[1] = d, !.out = o] = [[st EXCEPT !.conns[1] = d] EXCEPT !.out = o]
  BY DEF State
<1>5. [st EXCEPT !.conns[1] = d] = State(d, <<>>, mt)
  BY ConnChanged
<1>6. \A e, y, x : [State(e, y, mt) EXCEPT !.out = x] = State(e, x, mt)
  BY StateChanged
<1>7. [st EXCEPT !.conns[1] = d, !.out = o] = State(d, o, mt)
  <2> HIDE DEF st
  <2>1. [[st EXCEPT !.conns[1] = d] EXCEPT !.out = o] = [State(d, <<>>, mt) EXCEPT !.out = o]
    BY <1>5
  <2> QED
    BY <1>4, <1>6, <2>1
<1> QED
  BY <1>2, <1>3, <1>7 DEF d, k

(* PAIR_ACCEPT: p becomes the guest, if it has no connection yet.          *)
LEMMA ReadsAccept ==
    ASSUME IInv, PairingInv, NEW p \in Peer, Reads(p), Head(Inbox(p)).kind = "PAIR_ACCEPT"
    PROVE  Replied(p)
<1> DEFINE m == Head(Inbox(p))
           q == Other(p)
           st == Start(p)
<1>1. Inbox(p) # <<>> /\ Inbox(p)' = Tail(Inbox(p)) /\ \E o : Answers(p, o)
  BY ReadsParts DEF PairingInv
<1>2. q \in Peer /\ Other(q) = p /\ Peer = {p, q}
  BY OtherFacts
<1>3. FromOk(q, m) /\ \A n \in Path(q)' : n \in Path(q)
  <2> HIDE DEF m
  <2> QED
    BY <1>1, HeadFacts DEF m
<1>4. conns[q] # <<>> /\ pairs # 0
  BY <1>2, <1>3 DEF FromOk, PairingInv, PairInv
<1>5. \A r \in Peer : \A n \in Path(r) : n.kind # "PAIR_REQUEST"
  BY <1>2, <1>4 DEF FromOk, PairingInv, TrafficInv
<1>6. Received(st, p, m) = PairAccepted(st, p)
  BY DEF Received
<1>7. CASE conns[p] = <<>>
  <2> DEFINE b == NewConn("guest", "handshake")
             a == NewConn("guest", "connecting")
             out == <<KeyExchange(p, 1)>>
             known == [st EXCEPT !.conns = <<a>>]
             done == Started(known, p, 1)
  <2>1. st.conns = <<>>
    BY <1>7, StartFacts
  <2>2. known = State(a, <<>>, mounted[p])
    BY StartConns
  <2>3. known.conns = <<a>>
    BY <2>2, StateParts
  <2>4. Last(<<a>>).status = "connecting" /\ Len(<<a>>) = 1
    <3>1. a.status = "connecting"
      BY DEF NewConn
    <3> HIDE DEF a
    <3> QED
      BY <3>1 DEF Last
  <2>5. PairAccepted(st, p) = done
    <3>1. PairAccepted(st, p)
              = IF Last(known.conns).status = "connecting" THEN Started(known, p, Len(known.conns))
                                                           ELSE known
      <4> HIDE DEF st
      <4> QED
        BY <2>1 DEF PairAccepted
    <3> HIDE DEF known, a
    <3> QED
      BY <2>3, <2>4, <3>1
  <2>6. KeySent(a) = b
    <3> DEFINE e == {}
               n == -1
               f == <<>>
               zero == 0
               one == 1
               r == [role |-> "guest", status |-> "handshake", cipher |-> e, sendCounter |-> zero,
                     last |-> n, pending |-> f, keysSent |-> zero]
    <3>1. a = [role |-> "guest", status |-> "connecting", cipher |-> e, sendCounter |-> zero,
               last |-> n, pending |-> f, keysSent |-> zero]
      BY DEF NewConn
    <3>2. b = [role |-> "guest", status |-> "handshake", cipher |-> e, sendCounter |-> zero,
               last |-> n, pending |-> f, keysSent |-> one]
      BY DEF NewConn
    <3>3. zero + 1 = one
      OBVIOUS
    <3> HIDE DEF a, b, e, n, f, zero, one
    <3>4. [a EXCEPT !.status = "handshake"] = r
      BY <3>1
    <3>5. [r EXCEPT !.keysSent = one] = b
      BY <3>2
    <3>6. a.keysSent + 1 = one
      BY <3>1, <3>3
    <3> HIDE DEF r
    <3> QED
      BY <3>4, <3>5, <3>6 DEF KeySent
  <2>7. done = State(b, out, mounted[p])
    <3> HIDE DEF known, a, b
    <3> QED
      BY <2>2, <2>6, StartedIs
  <2>8. done.conns = <<b>> /\ done.out = out /\ done.mounted = mounted[p] /\ ~done.thrown
    BY <2>7, StateParts, StateSilent
  <2> HIDE DEF b, a, done, out, st, m
  <2> QED
    BY <1>2, <1>3, <1>4, <1>5, <1>6, <1>7, <2>5, <2>8, ReadsBirth DEF b, out, st, m
<1>8. CASE conns[p] # <<>>
  <2>1. conns[p] \in {<<>>} \cup {<<x>> : x \in Conn}
    BY DEF PairingInv, PairInv
  <2>2. PICK c \in Conn : conns[p] = <<c>>
    BY <1>8, <2>1
  <2>3. Last(st.conns).status # "connecting" /\ st.conns # <<>>
    <3>1. st.conns = <<c>> /\ c.status # "connecting"
      BY <2>2, StartFacts DEF Conn
    <3> HIDE DEF st
    <3> QED
      BY <3>1 DEF Last
  <2> HIDE DEF st
  <2>4. PairAccepted(st, p) = st
    BY <2>3 DEF PairAccepted
  <2> QED
    BY <1>6, <2>4, ReadsNothing DEF st
<1> QED
  BY <1>7, <1>8

(* What came too early is kept.                                            *)
LEMMA KeptIs ==
    ASSUME NEW c \in Conn, NEW mt \in BOOLEAN, NEW m \in Msg
    PROVE  \E d : /\ Becomes([State(c, <<>>, mt) EXCEPT !.conns[1].pending = Append(@, m)],
                             c, d, <<>>)
                  /\ d.status = c.status /\ d.cipher = c.cipher /\ d.last = c.last
                  /\ d.sendCounter = c.sendCounter
<1> DEFINE st == State(c, <<>>, mt)
           d == [c EXCEPT !.pending = Append(@, m)]
<1>1. st.conns[1] = c
  BY StateParts
<1>2. /\ d \in Conn /\ d.status = c.status /\ d.cipher = c.cipher /\ d.last = c.last
      /\ d.sendCounter = c.sendCounter
  <2>1. Append(c.pending, m) \in Seq(Msg)
    BY DEF Conn
  <2> QED
    BY <2>1 DEF Conn
<1>3. [st EXCEPT !.conns[1].pending = Append(@, m)] = [st EXCEPT !.conns[1] = d]
  BY <1>1
<1> HIDE DEF d
<1>4. [st EXCEPT !.conns[1] = d] = State(d, <<>>, mt)
  BY ConnChanged
<1>5. Becomes([st EXCEPT !.conns[1].pending = Append(@, m)], c, d, <<>>)
  BY <1>2, <1>3, <1>4 DEF Becomes, Talks
<1> QED
  BY <1>2, <1>5

(* KEY_EXCHANGE or something encrypted, on a connection.                   *)
LEMMA ReadsOnConn ==
    ASSUME IInv, PairingInv, NEW p \in Peer, Reads(p), conns[p] # <<>>,
           Head(Inbox(p)).kind \in {"KEY_EXCHANGE", "ENCRYPTED"}
    PROVE  Replied(p)
<1> DEFINE q == Other(p)
           m == Head(Inbox(p))
           mt == mounted[p]
<1>1. Inbox(p) # <<>> /\ Inbox(p)' = Tail(Inbox(p)) /\ \E o : Answers(p, o)
  BY ReadsParts DEF PairingInv
<1>2. q \in Peer /\ q # p /\ Other(q) = p /\ Peer = {p, q}
  BY OtherFacts
<1>3. FromOk(q, m) /\ m \in Msg
  <2> HIDE DEF m
  <2> QED
    BY <1>1, HeadFacts DEF m
<1>4. mt \in BOOLEAN /\ conns[p] \in {<<>>} \cup {<<x>> : x \in Conn}
  BY DEF PairingInv, PairInv
<1>5. PICK c \in Conn : conns[p] = <<c>>
  BY <1>4
<1>6. c = conns[p][1] /\ Shaped(c) /\ c.status \in {"handshake", "encrypted"}
  <2>1. c = conns[p][1]
    BY <1>5
  <2>2. Shaped(conns[p][1])
    BY DEF PairingInv, PairInv
  <2> QED
    BY <2>1, <2>2 DEF Conn
<1> DEFINE st == State(c, <<>>, mt)
<1>7. /\ m.kind = "KEY_EXCHANGE" =>
             m.key = <<q, 1>> /\ c.status = "handshake" /\ c.pending = <<>>
      /\ m.kind = "ENCRYPTED" => m.cipher = Secret /\ c.last < m.counter
  BY <1>2, <1>3, <1>5, <1>6 DEF FromOk
<1> HIDE DEF m, mt
<1>8. Received(Start(p), p, m) = Handled(st, p, 1, m)
  <2>1. Start(p) = st
    BY <1>5, StartFacts DEF mt
  <2>2. Received(st, p, m) = HandledByAll(st, p, m)
    <3> HIDE DEF st
    <3> QED
      BY DEF Received, m
  <2> QED
    BY <2>1, <2>2, OneHandles
<1>9. st.conns[1] = c /\ ~st.thrown
  BY StateParts, StateSilent
<1>10. ASSUME NEW d, NEW out, Becomes(Handled(st, p, 1, m), c, d, out), Shaped(d),
              m.kind = "KEY_EXCHANGE" => d.last = -1,
              m.kind = "ENCRYPTED" => d.last \in {m.counter, c.last}
       PROVE  Replied(p)
  BY <1>5, <1>8, <1>10, ReadsTalk DEF m
<1>11. CASE m.kind = "KEY_EXCHANGE"
  <2>1. Handled(st, p, 1, m) = Finalized(st, p, 1, <<q, 1>>)
    <3> HIDE DEF st, q
    <3> QED
      BY <1>7, <1>9, <1>11 DEF Handled, KeyExchanged
  <2>2. PICK d, out : /\ Becomes(Finalized(st, p, 1, <<q, 1>>), c, d, out)
                      /\ d.status = "encrypted" /\ d.cipher = Secret /\ d.last = -1
    BY <1>4, <1>6, <1>7, <1>11, FinalizedIs DEF mt
  <2>3. Shaped(d)
    BY <2>2 DEF Shaped
  <2> QED
    BY <1>10, <1>11, <2>1, <2>2, <2>3
<1>12. CASE m.kind = "ENCRYPTED" /\ c.status = "handshake"
  <2>1. c.cipher = {}
    BY <1>6, <1>12 DEF Shaped
  <2>2. Handled(st, p, 1, m) = [st EXCEPT !.conns[1].pending = Append(@, m)]
    <3> HIDE DEF st
    <3> QED
      BY <1>9, <1>12, <2>1 DEF Handled
  <2>3. PICK d : /\ Becomes(Handled(st, p, 1, m), c, d, <<>>)
                 /\ d.status = c.status /\ d.cipher = c.cipher /\ d.last = c.last
                 /\ d.sendCounter = c.sendCounter
    BY <1>3, <1>4, <2>2, KeptIs DEF m, mt
  <2>4. Shaped(d)
    BY <1>6, <2>3 DEF Shaped
  <2> QED
    BY <1>10, <1>12, <2>3, <2>4
<1>13. CASE m.kind = "ENCRYPTED" /\ c.status = "encrypted"
  <2>1. c.cipher = Secret /\ c.cipher # {}
    BY <1>6, <1>13 DEF Shaped, Secret
  <2>2. Handled(st, p, 1, m) = Decrypted(st, 1, m)
    <3> HIDE DEF st
    <3> QED
      BY <1>9, <1>13, <2>1 DEF Handled
  <2>3. PICK d, out : /\ Becomes(Decrypted(st, 1, m), c, d, out)
                      /\ d.status = "encrypted" /\ d.cipher = Secret /\ d.last = m.counter
    BY <1>3, <1>4, <1>7, <1>13, <2>1, DecryptedIs DEF m, mt
  <2>4. Shaped(d)
    BY <2>3 DEF Shaped
  <2> QED
    BY <1>10, <1>13, <2>2, <2>3, <2>4
<1> QED
  BY <1>6, <1>11, <1>12, <1>13 DEF m

(* Whatever p reads.                                                       *)
LEMMA ReadsStep ==
    ASSUME IInv, PairingInv, NEW p \in Peer, Reads(p)
    PROVE  Replied(p)
<1> DEFINE m == Head(Inbox(p))
<1>1. Inbox(p) # <<>> /\ Inbox(p)' = Tail(Inbox(p)) /\ \E o : Answers(p, o)
  BY ReadsParts DEF PairingInv
<1>2. m \in Msg /\ m.kind # "HELLO"
  <2> HIDE DEF m
  <2> QED
    BY <1>1, HeadFacts DEF m
<1>3. m.kind \in {"PAIR_ACCEPT", "PAIR_REJECT", "HELLO_ACK", "PAIR_REQUEST", "KEY_EXCHANGE",
                  "ENCRYPTED"}
  BY <1>2, MsgKinds
<1>4. CASE m.kind \in {"HELLO_ACK", "PAIR_REJECT"}
  BY <1>4, ReadsNothing DEF Received
<1>5. CASE m.kind \in {"KEY_EXCHANGE", "ENCRYPTED"} /\ conns[p] = <<>>
  <2>1. Received(Start(p), p, m) = HandledByAll(Start(p), p, m)
    BY <1>5 DEF Received
  <2>2. HandledByAll(Start(p), p, m) = Start(p)
    BY <1>5, StartFacts, NoneHandles
  <2> QED
    BY <2>1, <2>2, ReadsNothing
<1> QED
  BY <1>3, <1>4, <1>5, ReadsRequest, ReadsAccept, ReadsOnConn

-----------------------------------------------------------------------------
(* Sockets and codes.                                                      *)

(* A queue is replaced.                                                    *)
LEMMA QueueChanged ==
    ASSUME NEW f \in [Socket -> Seq(Msg)], NEW s, NEW q \in Seq(Msg)
    PROVE  /\ [f EXCEPT ![s] = q] \in [Socket -> Seq(Msg)]
           /\ \A t \in Socket : [f EXCEPT ![s] = q][t] = IF t = s THEN q ELSE f[t]
OBVIOUS

(* Owners of sockets do not change.                                        *)
Owned == \A s \in Socket : owner[s] # None => owner'[s] = owner[s]

(* What is left, or new messages that are as they should be.               *)
LEMMA CodesStep ==
    ASSUME IInv, LinkInv, Owned, sessionCode' \in [Peer -> Socket \cup {None}],
           \A r \in Peer : sessionCode'[r] = sessionCode[r] \/ owner[sessionCode'[r]] = r,
           \A r \in Peer : \A m \in In(Inbox(r)') :
               \/ m \in In(Inbox(r))
               \/ /\ m.kind # "HELLO"
                  /\ m.kind = "HELLO_ACK" => owner[m.code] = r /\ m.code \in Socket,
           \A r \in Peer : \A m \in In(Outbox(r)') :
               \/ m \in In(Outbox(r))
               \/ /\ m.kind \notin {"HELLO_ACK", "PAIR_REJECT"}
                  /\ m.kind = "PAIR_REQUEST" => owner[m.code] = Other(r) /\ m.code \in Socket
    PROVE  CodesInv'
<1>1. \A r \in Peer : In(Inbox(r)) \subseteq Msg /\ In(Outbox(r)) \subseteq Msg
  BY BoxFacts
<1>2. \A s \in Socket, r \in Peer : owner[s] = r => owner'[s] = r
  BY SocketFacts DEF Owned
<1>3. \A r \in Peer : sessionCode'[r] # None => owner'[sessionCode'[r]] = r
  BY <1>2 DEF LinkInv, CodesInv
<1>4. ASSUME NEW r \in Peer, NEW m \in In(Inbox(r)')
      PROVE  m.kind # "HELLO" /\ (m.kind = "HELLO_ACK" => owner'[m.code] = r)
  <2>1. CASE m \in In(Inbox(r))
    BY <1>1, <1>2, <2>1, MsgKinds DEF LinkInv, CodesInv
  <2>2. CASE m \notin In(Inbox(r))
    BY <1>2, <1>4, <2>2
  <2> QED
    BY <2>1, <2>2
<1>5. ASSUME NEW r \in Peer, NEW m \in In(Outbox(r)')
      PROVE  /\ m.kind \notin {"HELLO_ACK", "PAIR_REJECT"}
             /\ m.kind = "PAIR_REQUEST" => owner'[m.code] = Other(r)
  <2>1. Other(r) \in Peer
    BY OtherFacts
  <2>2. CASE m \in In(Outbox(r))
    BY <1>1, <1>2, <2>1, <2>2, MsgKinds DEF LinkInv, CodesInv
  <2>3. CASE m \notin In(Outbox(r))
    BY <1>2, <1>5, <2>1, <2>3
  <2> QED
    BY <2>2, <2>3
<1> QED
  BY <1>3, <1>4, <1>5 DEF CodesInv

(* Messages are lost, and perhaps a socket is made or fails.               *)
LEMMA LossStep ==
    ASSUME IInv, PairingInv, SocketInv', Owned,
           UNCHANGED <<sessionCode, conns, mounted, pairs>>, ~refused',
           \A r \in Peer : Rest(Inbox(r)', Inbox(r)) /\ Rest(Outbox(r)', Outbox(r))
    PROVE  PairingInv'
<1>1. \A r \in Peer : In(Inbox(r)') \subseteq In(Inbox(r)) /\ In(Outbox(r)') \subseteq In(Outbox(r))
  BY BoxFacts, RestIn DEF PairingInv
<1>2. CodesInv'
  <2>1. sessionCode \in [Peer -> Socket \cup {None}]
    BY DEF PairingInv, LinkInv, CodesInv
  <2> QED
    BY <1>1, <2>1, CodesStep DEF PairingInv
<1>3. PairInv' /\ TrafficInv'
  BY RestStep
<1> QED
  BY <1>2, <1>3 DEF PairingInv, LinkInv

(* connect                                                                 *)
LEMMA ConnectPairing ==
    ASSUME IInv, PairingInv, NEW p \in Peer, Connect(p)
    PROVE  PairingInv'
<1>1. PICK s \in Socket : /\ owner[s] = None
                          /\ owner' = [owner EXCEPT ![s] = p]
                          /\ ws' = [ws EXCEPT ![p] = s]
  BY DEF Connect
<1>2. /\ up' = [t \in Socket |-> IF owner[t] = p THEN <<>> ELSE up[t]]
      /\ down' = down /\ dead' = dead
      /\ UNCHANGED <<sessionCode, conns, mounted, pairs>>
      /\ status' = [status EXCEPT ![p] = "connecting"] /\ status[p] = "disconnected"
  BY DEF Connect, pairVars, counters
<1>3. ~refused'
  BY DEF Connect, pairVars, PairingInv, PairInv
<1>4. SocketInv
  BY DEF PairingInv, LinkInv
<1>5. /\ owner \in [Socket -> Peer \cup {None}] /\ ws \in [Peer -> Socket \cup {None}]
      /\ status \in [Peer -> {"disconnected", "connecting", "connected"}]
      /\ \A r \in Peer : ws[r] # None => owner[ws[r]] = r
  BY DEF IInv, OwnerInv
<1>6. Owned
  BY <1>1, <1>5 DEF Owned
<1>7. SocketInv'
  <2>1. up' \in [Socket -> Seq(Msg)] /\ down' \in [Socket -> Seq(Msg)] /\ dead' \subseteq Socket
    BY <1>2, <1>4 DEF SocketInv
  <2>2. \A t \in Socket : owner'[t] = None => up'[t] = <<>> /\ down'[t] = <<>>
    BY <1>1, <1>2, <1>4, <1>5, SocketFacts DEF SocketInv
  <2>3. ASSUME NEW r \in Peer, NEW t \in Socket, owner'[t] = r, t # ws'[r]
        PROVE  up'[t] = <<>> /\ t \in dead'
    <3>1. t # s /\ owner[t] = r
      BY <1>1, <1>5, <2>3
    <3>2. CASE r = p
      BY <1>2, <1>4, <1>5, <2>3, <3>1, <3>2, SocketFacts DEF SocketInv
    <3>3. CASE r # p
      BY <1>1, <1>2, <1>4, <1>5, <2>3, <3>1, <3>3 DEF SocketInv
    <3> QED
      BY <3>2, <3>3
  <2>4. \A r \in Peer : status'[r] = "disconnected" /\ ws'[r] # None => ws'[r] \in dead'
    BY <1>1, <1>2, <1>4, <1>5 DEF SocketInv
  <2> QED
    BY <2>1, <2>2, <2>3, <2>4 DEF SocketInv
<1>8. ASSUME NEW r \in Peer PROVE Rest(Inbox(r)', Inbox(r)) /\ Rest(Outbox(r)', Outbox(r))
  <2>1. CASE r = p
    <3>1. ws'[p] = s /\ s # None /\ down[s] = <<>> /\ up'[s] = <<>>
      BY <1>1, <1>2, <1>4, <1>5, SocketFacts DEF SocketInv
    <3>2. Inbox(p)' = <<>> /\ Outbox(p)' = <<>>
      BY <1>2, <3>1 DEF Inbox, Outbox
    <3> QED
      BY <2>1, <3>2 DEF Rest
  <2>2. CASE r # p
    <3>1. ws'[r] = ws[r] /\ (ws[r] # None => ws[r] \in Socket /\ owner[ws[r]] # p)
      BY <1>1, <1>5, <2>2
    <3>2. Inbox(r)' = Inbox(r) /\ Outbox(r)' = Outbox(r)
      BY <1>2, <3>1 DEF Inbox, Outbox
    <3> QED
      BY <3>2 DEF Rest
  <2> QED
    BY <2>1, <2>2
<1> QED
  BY <1>2, <1>3, <1>6, <1>7, <1>8, LossStep

(* The close of a socket, seen by its peer.                                *)
LEMMA ClosedPairing ==
    ASSUME IInv, PairingInv, NEW p \in Peer, Closed(p)
    PROVE  PairingInv'
<1>1. /\ status' = [status EXCEPT ![p] = "disconnected"] /\ dead' = dead \cup {ws[p]}
      /\ down' = [down EXCEPT ![ws[p]] = <<>>] /\ up' = up
      /\ UNCHANGED <<ws, sessionCode, conns, mounted, pairs, owner>>
  BY DEF Closed, pairVars, counters
<1>2. ~refused'
  BY DEF Closed, pairVars, PairingInv, PairInv
<1>3. SocketInv
  BY DEF PairingInv, LinkInv
<1>4. ws[p] \in Socket /\ ws[p] # None /\ ws[Other(p)] # ws[p]
  BY OwnSocket, SocketFacts DEF Closed, IInv, OwnerInv
<1>5. /\ status \in [Peer -> {"disconnected", "connecting", "connected"}]
      /\ ws \in [Peer -> Socket \cup {None}]
  BY DEF IInv, OwnerInv
<1>6. SocketInv'
  <2>1. down' \in [Socket -> Seq(Msg)] /\ \A s \in Socket : down[s] = <<>> => down'[s] = <<>>
    <3>1. down \in [Socket -> Seq(Msg)] /\ down' = [down EXCEPT ![ws[p]] = <<>>]
      BY <1>1, <1>3 DEF SocketInv
    <3>2. <<>> \in Seq(Msg)
      OBVIOUS
    <3> QED
      BY <3>1, <3>2, QueueChanged
  <2>2. \A r \in Peer : status'[r] = "disconnected" /\ ws'[r] # None => ws'[r] \in dead'
    BY <1>1, <1>3, <1>5 DEF SocketInv
  <2> QED
    BY <1>1, <1>3, <1>4, <2>1, <2>2 DEF SocketInv
<1>7. Owned
  BY <1>1 DEF Owned
<1>8. ASSUME NEW r \in Peer PROVE Rest(Inbox(r)', Inbox(r)) /\ Rest(Outbox(r)', Outbox(r))
  <2>1. Outbox(r)' = Outbox(r)
    BY <1>1 DEF Outbox
  <2>2. Inbox(r)' \in {Inbox(r), <<>>}
    BY <1>1, <1>3, <1>4, <1>5 DEF Inbox, SocketInv
  <2> QED
    BY <2>1, <2>2 DEF Rest
<1> QED
  BY <1>1, <1>2, <1>6, <1>7, <1>8, LossStep

(* A message goes up, or what is under way is lost.                        *)
LEMMA UpLoss ==
    ASSUME IInv, PairingInv, NEW s \in Socket, NEW q, Rest(q, up[s]),
           up' = [up EXCEPT ![s] = q], down' = down, dead \subseteq dead', dead' \subseteq Socket,
           UNCHANGED <<status, ws, sessionCode, owner, conns, mounted, pairs, refused>>
    PROVE  PairingInv'
<1>1. SocketInv
  BY DEF PairingInv, LinkInv
<1>2. up[s] \in Seq(Msg) /\ q \in Seq(Msg) /\ (up[s] = <<>> => q = <<>>)
  <2>1. up[s] \in Seq(Msg)
    BY <1>1 DEF SocketInv
  <2> QED
    BY <2>1, RestElements DEF Rest
<1>3. SocketInv'
  <2>1. up' \in [Socket -> Seq(Msg)] /\ \A t \in Socket : up[t] = <<>> => up'[t] = <<>>
    BY <1>1, <1>2 DEF SocketInv
  <2> QED
    BY <1>1, <2>1 DEF SocketInv
<1>4. Owned
  BY DEF Owned
<1>5. ASSUME NEW r \in Peer PROVE Rest(Inbox(r)', Inbox(r)) /\ Rest(Outbox(r)', Outbox(r))
  <2>1. Inbox(r)' = Inbox(r)
    BY DEF Inbox
  <2>2. ws[r] # None => ws[r] \in Socket
    BY DEF IInv, OwnerInv
  <2>3. Rest(Outbox(r)', Outbox(r))
    BY <1>1, <2>2 DEF Outbox, SocketInv, Rest
  <2> QED
    BY <2>1, <2>3 DEF Rest
<1>6. ~refused'
  BY DEF PairingInv, PairInv
<1> QED
  BY <1>3, <1>4, <1>5, <1>6, LossStep

(* The rate limiter and the close event of the relay; a ping.              *)
LEMMA RelayLosses ==
    ASSUME IInv, PairingInv, NEW s \in Socket,
           RelayDiscards(s) \/ RelayCloses(s) \/ \E p \in Peer : Ping(p)
    PROVE  PairingInv'
<1>1. UNCHANGED <<status, ws, sessionCode, owner, conns, mounted, pairs, refused, down>>
  BY DEF RelayDiscards, RelayCloses, Ping, peerVars, pairVars, linkVars, counters
<1>2. dead \subseteq dead' /\ dead' \subseteq Socket
  BY DEF RelayDiscards, RelayCloses, Ping, linkVars, PairingInv, LinkInv, SocketInv
<1>3. up \in [Socket -> Seq(Msg)]
  BY DEF PairingInv, LinkInv, SocketInv
<1>4. \E q : Rest(q, up[s]) /\ up' = [up EXCEPT ![s] = q]
  <2>1. CASE RelayDiscards(s)
    BY <2>1 DEF RelayDiscards, Rest
  <2>2. CASE RelayCloses(s)
    BY <2>2 DEF RelayCloses, Rest
  <2>3. CASE \E p \in Peer : Ping(p)
    <3>1. up' = up
      BY <2>3 DEF Ping
    <3> QED
      BY <1>3, <3>1 DEF Rest
  <2> QED
    BY <2>1, <2>2, <2>3
<1> QED
  BY <1>1, <1>2, <1>4, UpLoss

(* A peer sends on its own socket.                                         *)
LEMMA SendsSocket ==
    ASSUME IInv, LinkInv, NEW p \in Peer, NEW out \in Seq(Msg), Sends(p, out),
           UNCHANGED <<status, ws, owner, dead>>,
           down' \in [Socket -> Seq(Msg)], \A s \in Socket : down[s] = <<>> => down'[s] = <<>>
    PROVE  SocketInv'
<1>1. SocketInv
  BY DEF LinkInv
<1>2. CASE up' = up
  BY <1>1, <1>2 DEF SocketInv
<1>3. CASE up' # up
  <2>1. up' = [up EXCEPT ![ws[p]] = @ \o out] /\ ws[p] \in Socket /\ owner[ws[p]] = p
        /\ ws[p] # None
    BY <1>3, SocketFacts DEF Sends, IInv, OwnerInv
  <2>2. \A s \in Socket : up'[s] = IF s = ws[p] THEN up[s] \o out ELSE up[s]
    BY <1>1, <2>1 DEF SocketInv
  <2>3. up' \in [Socket -> Seq(Msg)]
    <3>1. up \in [Socket -> Seq(Msg)] /\ up[ws[p]] \in Seq(Msg)
      BY <1>1, <2>1 DEF SocketInv
    <3>2. up[ws[p]] \o out \in Seq(Msg)
      BY <3>1, ConcatIn
    <3> QED
      BY <2>1, <3>1, <3>2, QueueChanged
  <2>4. \A s \in Socket : owner[s] = None => up'[s] = <<>>
    BY <1>1, <2>1, <2>2, SocketFacts DEF SocketInv
  <2>5. \A r \in Peer, s \in Socket : owner[s] = r /\ s # ws[r] => up'[s] = <<>>
    BY <1>1, <2>1, <2>2 DEF SocketInv
  <2> QED
    BY <1>1, <2>3, <2>4, <2>5 DEF SocketInv
<1> QED
  BY <1>2, <1>3

(* What a peer that only sends does to the queues.                         *)
LEMMA SendsAnswers ==
    ASSUME IInv, LinkInv, NEW p \in Peer, NEW out \in Seq(Msg), Sends(p, out),
           UNCHANGED <<ws, down>>
    PROVE  Answers(p, out)
<1> DEFINE q == Other(p)
<1>1. q \in Peer /\ ws[q] \in Socket \cup {None} /\ up \in [Socket -> Seq(Msg)]
      /\ ws[p] \in Socket \cup {None}
  BY OtherFacts DEF LinkInv, SocketInv, IInv, OwnerInv
<1>2. ws[p] # None => ws[q] # ws[p]
  BY OwnSocket
<1>3. Inbox(p)' = Inbox(p) /\ Inbox(q)' = Inbox(q)
  BY DEF Inbox
<1>4. ws[p] = None => up' = up
  BY SocketFacts DEF Sends, IInv, OwnerInv
<1> HIDE DEF q
<1>5. (Outbox(p)' = Outbox(p) \/ Outbox(p)' = Outbox(p) \o out) /\ Outbox(q)' = Outbox(q)
  BY <1>1, <1>2, <1>4 DEF Outbox, Sends
<1> QED
  BY <1>3, <1>5 DEF Answers, Rest, q

(* Codes, when a peer reads a message or none and sends out.               *)
LEMMA AnswersCodes ==
    ASSUME IInv, LinkInv, NEW p \in Peer, NEW out \in Seq(Msg), Answers(p, out),
           UNCHANGED owner, sessionCode' \in [Peer -> Socket \cup {None}],
           \A r \in Peer : sessionCode'[r] = sessionCode[r] \/ owner[sessionCode'[r]] = r,
           \A m \in In(out) : /\ m.kind \notin {"HELLO_ACK", "PAIR_REJECT"}
                              /\ m.kind = "PAIR_REQUEST" => owner[m.code] = Other(p)
    PROVE  CodesInv'
<1>1. \A r \in Peer : Inbox(r) \in Seq(Msg) /\ Outbox(r) \in Seq(Msg)
  BY BoxFacts
<1>2. Peer = {p, Other(p)}
  BY OtherFacts
<1>3. ASSUME NEW r \in Peer, NEW m \in In(Inbox(r)') PROVE m \in In(Inbox(r))
  BY <1>1, <1>2, <1>3, RestIn DEF Answers
<1>4. ASSUME NEW r \in Peer, NEW m \in In(Outbox(r)')
      PROVE  m \in In(Outbox(r)) \/ (r = p /\ m \in In(out) /\ m \in Msg)
  <2>1. In(Outbox(p) \o out) \subseteq In(Outbox(p)) \cup In(out)
    BY <1>1, ConcatIn
  <2>2. In(out) \subseteq Msg
    BY DEF In
  <2> QED
    BY <1>2, <1>4, <2>1, <2>2 DEF Answers
<1>5. \A m \in Msg : m.kind = "PAIR_REQUEST" => m.code \in Socket
  BY MsgKinds
<1>6. Owned
  BY DEF Owned
<1> QED
  BY <1>3, <1>4, <1>5, <1>6, CodesStep

(* "message"                                                               *)
LEMMA ReadsPairing ==
    ASSUME IInv, PairingInv, NEW p \in Peer, Reads(p)
    PROVE  PairingInv'
<1> DEFINE m == Head(Inbox(p))
           done == Received(Start(p), p, m)
<1>1. PairInv' /\ TrafficInv' /\ Fine(done.out)
  BY ReadsStep DEF Replied
<1>2. Inbox(p) # <<>> /\ Inbox(p)' = Tail(Inbox(p)) /\ Answers(p, done.out)
  BY ReadsParts DEF PairingInv
<1>3. m \in Msg /\ (m.kind = "HELLO_ACK" => owner[m.code] = p)
  <2> HIDE DEF m
  <2> QED
    BY <1>2, HeadFacts DEF m, done
<1>4. ws[p] \in Socket /\ ws[p] # None
  BY SocketFacts DEF Reads, IInv, OwnerInv
<1>5. /\ Inbox(p) = down[ws[p]] /\ down' = [down EXCEPT ![ws[p]] = Tail(@)]
      /\ UNCHANGED <<status, ws, owner, dead>> /\ Sends(p, done.out)
      /\ sessionCode' = IF m.kind = "HELLO_ACK" THEN [sessionCode EXCEPT ![p] = m.code]
                                                ELSE sessionCode
  <2>1. Inbox(p) = down[ws[p]]
    BY <1>4 DEF Inbox
  <2> QED
    BY <2>1 DEF Reads, linkVars
<1> HIDE DEF m, done
<1>6. /\ sessionCode' \in [Peer -> Socket \cup {None}]
      /\ \A r \in Peer : sessionCode'[r] = sessionCode[r] \/ owner[sessionCode'[r]] = r
  <2>1. m.kind = "HELLO_ACK" => m.code \in Socket
    BY <1>3, MsgKinds
  <2>2. sessionCode \in [Peer -> Socket \cup {None}]
    BY DEF PairingInv, LinkInv, CodesInv
  <2> QED
    BY <1>3, <1>5, <2>1, <2>2
<1>7. SocketInv'
  <2>1. down \in [Socket -> Seq(Msg)] /\ Tail(Inbox(p)) \in Seq(Msg)
    BY <1>2, <1>5, BoxFacts DEF PairingInv, LinkInv, SocketInv
  <2>2. down' = [down EXCEPT ![ws[p]] = Tail(Inbox(p))]
    BY <1>5
  <2>3. /\ down' \in [Socket -> Seq(Msg)]
        /\ \A s \in Socket : down[s] = <<>> => down'[s] = <<>>
    BY <1>2, <1>5, <2>1, <2>2, QueueChanged
  <2> QED
    BY <1>1, <1>5, <2>3, SendsSocket DEF Fine, PairingInv
<1>8. CodesInv'
  BY <1>1, <1>2, <1>5, <1>6, AnswersCodes DEF Fine, PairingInv
<1> QED
  BY <1>1, <1>7, <1>8 DEF PairingInv, LinkInv

(* A peer sends something that is neither noise nor wrongly addressed.     *)
LEMMA SendsLink ==
    ASSUME IInv, LinkInv, NEW p \in Peer, NEW out \in Seq(Msg), Sends(p, out),
           UNCHANGED <<status, ws, owner, dead, down, sessionCode>>,
           \A m \in In(out) : /\ m.kind \notin {"HELLO_ACK", "PAIR_REJECT"}
                              /\ m.kind = "PAIR_REQUEST" => owner[m.code] = Other(p)
    PROVE  LinkInv' /\ Answers(p, out)
<1>1. down \in [Socket -> Seq(Msg)] /\ sessionCode \in [Peer -> Socket \cup {None}]
  BY DEF LinkInv, SocketInv, CodesInv
<1>2. SocketInv'
  BY <1>1, SendsSocket
<1>3. Answers(p, out)
  BY SendsAnswers
<1>4. CodesInv'
  BY <1>1, <1>3, AnswersCodes
<1> QED
  BY <1>2, <1>3, <1>4 DEF LinkInv

(* The user asks for the only pairing there is.                            *)
LEMMA RequestPairing ==
    ASSUME MaxPairs <= 1, IInv, PairingInv, NEW p \in Peer, RequestPair(p)
    PROVE  PairingInv'
<1> DEFINE s == sessionCode[Other(p)]
           m == [kind |-> "PAIR_REQUEST", code |-> s]
<1>1. s \in Socket /\ owner[s] = Other(p)
  BY OtherFacts DEF RequestPair, PairingInv, LinkInv, CodesInv
<1>2. pairs = 0 /\ pairs' = 1
  <2>1. pairs < MaxPairs /\ pairs' = pairs + 1
    BY DEF RequestPair
  <2>2. pairs \in Nat
    BY DEF PairingInv, PairInv
  <2>3. pairs = 0
    <3> HIDE DEF s, m
    <3>1. MaxPairs \in Nat
      BY NetworkAssumption
    <3> QED
      BY <2>1, <2>2, <3>1
  <2> QED
    BY <2>1, <2>3
<1>3. /\ Sends(p, <<m>>)
      /\ UNCHANGED <<status, ws, owner, dead, down, sessionCode, conns, mounted, refused>>
  BY DEF RequestPair, peerVars, pairVars, linkVars
<1>4. m \in Msg /\ m.kind = "PAIR_REQUEST" /\ m.code = s
  BY <1>1, MsgFacts
<1>5. ~refused'
  BY <1>3 DEF PairingInv, PairInv
<1>6. LinkInv' /\ Answers(p, <<m>>)
  <2> HIDE DEF m, s
  <2>1. <<m>> \in Seq(Msg) /\ In(<<m>>) = {m}
    BY <1>4, OneMessage
  <2> QED
    BY <1>1, <1>3, <1>4, <2>1, SendsLink DEF PairingInv
<1>7. PairInv' /\ TrafficInv'
  BY <1>1, <1>2, <1>3, <1>5, <1>6, AskStep
<1> QED
  BY <1>6, <1>7 DEF PairingInv

(* Something is sent on the connection.                                    *)
LEMMA SendDataPairing ==
    ASSUME IInv, PairingInv, NEW p \in Peer, SendData(p)
    PROVE  PairingInv'
<1> DEFINE q == Other(p)
           st == Start(p)
           x == "PTY_DATA"
<1>1. q \in Peer /\ Other(q) = p
  BY OtherFacts
<1>2. conns \in [Peer -> {<<>>} \cup {<<c>> : c \in Conn}] /\ conns[p] # <<>>
  BY DEF SendData, PairingInv, PairInv
<1>3. PICK c \in Conn : conns[p] = <<c>>
  BY <1>2
<1>4. c = conns[p][1] /\ Len(conns[p]) = 1 /\ Last(conns[p]) = c
  BY <1>3 DEF Last
<1>5. c.status = "encrypted"
  BY <1>4 DEF SendData
<1>6. Shaped(c) /\ c.cipher = Secret
  <2>1. Shaped(conns[p][1])
    BY <1>2 DEF PairingInv, PairInv
  <2> QED
    BY <1>4, <1>5, <2>1 DEF Shaped
<1> DEFINE d == [c EXCEPT !.sendCounter = @ + 1]
           m == Encrypted(c.sendCounter, x)
<1>7. /\ d \in Conn /\ d.status = "encrypted" /\ d.sendCounter = c.sendCounter + 1
      /\ d.last = c.last /\ d.pending = c.pending /\ d.cipher = Secret
  BY <1>5, <1>6 DEF Conn
<1>8. Sent(st, 1, x).conns = <<d>> /\ Sent(st, 1, x).out = <<m>>
  <2>1. st = State(c, <<>>, mounted[p])
    BY <1>3, StartFacts
  <2>2. Sent(st, 1, x) = State(d, <<m>>, mounted[p])
    BY <1>6, <2>1, SentIs
  <2> HIDE DEF d, m, st
  <2> QED
    BY <2>2, StateParts
<1>9. /\ conns' = [conns EXCEPT ![p] = <<d>>] /\ Sends(p, <<m>>)
      /\ UNCHANGED <<status, ws, owner, dead, down, sessionCode, mounted, refused, pairs>>
  <2> HIDE DEF d, m
  <2> QED
    BY <1>4, <1>8 DEF SendData, peerVars, linkVars
<1>10. m \in Msg /\ m.kind = "ENCRYPTED"
  BY MsgFacts DEF Encrypted, Conn
<1>11. Talks(c, d, <<m>>)
  <2> HIDE DEF d
  <2> QED
    BY <1>7 DEF Talks
<1>12. Shaped(d)
  <2> HIDE DEF d
  <2> QED
    BY <1>7 DEF Shaped
<1> HIDE DEF d, m, q
<1>13. LinkInv' /\ Answers(p, <<m>>)
  <2>1. <<m>> \in Seq(Msg) /\ In(<<m>>) = {m}
    BY <1>10, OneMessage
  <2> QED
    BY <1>9, <1>10, <2>1, SendsLink DEF PairingInv
<1>14. conns[q] # <<>> /\ c.last < conns[q][1].sendCounter
  BY <1>2, <1>4, <1>5 DEF PairingInv, PairInv, q
<1>15. Path(q)' \subseteq Path(q)
  <2>1. Inbox(p) \in Seq(Msg)
    BY BoxFacts DEF PairingInv
  <2>2. In(Inbox(p)') \subseteq In(Inbox(p))
    BY <1>13, <2>1, RestIn DEF Answers
  <2> QED
    BY <1>1, <1>13, <2>2 DEF Path, Answers, q
<1>16. ASSUME NEW n \in Path(q)'
       PROVE  /\ n.kind = "KEY_EXCHANGE" => d.status = "handshake" /\ d.pending = <<>>
              /\ n.kind = "ENCRYPTED" => d.last < n.counter
  <2>1. FromOk(q, n)
    BY <1>1, <1>15, <1>16 DEF PairingInv, TrafficInv
  <2> QED
    BY <1>1, <1>2, <1>4, <1>5, <1>7, <2>1 DEF FromOk
<1>17. mounted' \in [Peer -> BOOLEAN] /\ ~refused'
  BY <1>9 DEF PairingInv, PairInv
<1>18. PairInv' /\ TrafficInv'
  BY <1>2, <1>4, <1>7, <1>9, <1>11, <1>12, <1>13, <1>14, <1>16, <1>17, TalkStep DEF q
<1> QED
  BY <1>13, <1>18 DEF PairingInv

-----------------------------------------------------------------------------
(* The relay.                                                              *)

(* "open"                                                                  *)
LEMMA OpensPairing ==
    ASSUME IInv, PairingInv, NEW p \in Peer, Opens(p)
    PROVE  PairingInv'
<1> DEFINE m == [kind |-> "HELLO"]
           s == ws[p]
           q == Other(p)
<1>1. /\ status' = [status EXCEPT ![p] = "connected"] /\ up' = [up EXCEPT ![s] = <<m>>]
      /\ UNCHANGED <<ws, sessionCode, conns, mounted, refused, owner, dead, down, pairs>>
  BY DEF Opens, pairVars, counters
<1>2. s \in Socket /\ s # None /\ owner[s] = p /\ ws[q] # s /\ q \in Peer /\ Other(q) = p
      /\ Peer = {p, q} /\ ws[q] \in Socket \cup {None}
  BY OwnSocket, OtherFacts, SocketFacts DEF Opens, IInv, OwnerInv
<1>3. SocketInv /\ status \in [Peer -> {"disconnected", "connecting", "connected"}]
  BY DEF PairingInv, LinkInv, IInv, OwnerInv
<1>4. m \in Msg /\ m.kind = "HELLO" /\ IsNoise(m)
  BY MsgFacts DEF IsNoise
<1> HIDE DEF m, s, q
<1>5. <<m>> \in Seq(Msg) /\ In(<<m>>) = {m} /\ Sorted(<<m>>) /\ <<>> \o <<m>> = <<m>>
  BY <1>4, OneMessage
<1>6. SocketInv'
  <2>1. /\ up' \in [Socket -> Seq(Msg)]
        /\ \A t \in Socket : up'[t] = IF t = s THEN <<m>> ELSE up[t]
    BY <1>1, <1>3, <1>5, QueueChanged DEF SocketInv
  <2>2. \A r \in Peer, t \in Socket : owner[t] = r /\ t # ws[r] => t # s
    BY <1>2 DEF s
  <2> QED
    BY <1>1, <1>2, <1>3, <2>1, <2>2, SocketFacts DEF SocketInv
<1>7. /\ Outbox(p)' = <<m>> /\ Outbox(q)' = Outbox(q)
      /\ Inbox(p)' = Inbox(p) /\ Inbox(q)' = Inbox(q)
  BY <1>1, <1>2, <1>3 DEF Inbox, Outbox, SocketInv, s
<1>8. \A r \in Peer : Inbox(r) \in Seq(Msg) /\ Outbox(r) \in Seq(Msg)
                      /\ Ordered(Inbox(Other(r)), Outbox(r))
  BY BoxFacts DEF PairingInv, TrafficInv
<1>9. Ordered(Inbox(q), <<m>>)
  <2>1. Ordered(Inbox(q), <<>>) /\ <<>> \in Seq(Msg)
    BY <1>2, <1>8, RestOrdered DEF Rest, q
  <2>2. \A x \in In(Inbox(q)) \cup In(<<>>), n \in In(<<m>>) : Ok(x, n)
    BY <1>4, <1>5, OkNoise
  <2> QED
    BY <1>2, <1>5, <1>8, <2>1, <2>2, SendOrdered
<1>10. \A r \in Peer : Ordered(Inbox(Other(r)), Outbox(r))'
  BY <1>2, <1>7, <1>8, <1>9 DEF q
<1>11. \A r \in Peer : \A n \in Path(r)' : n \in Path(r) \/ IsNoise(n)
  BY <1>2, <1>4, <1>5, <1>7 DEF Path, q
<1>12. PairInv' /\ TrafficInv'
  <2>1. ~refused'
    BY <1>1 DEF PairingInv, PairInv
  <2> QED
    BY <1>1, <1>10, <1>11, <2>1, CarryStep DEF PairingInv
<1>13. CodesInv'
  <2>1. sessionCode \in [Peer -> Socket \cup {None}]
    BY DEF PairingInv, LinkInv, CodesInv
  <2>2. \A r \in Peer : \A n \in In(Outbox(r)') : n \in In(Outbox(r)) \/ n = m
    BY <1>2, <1>5, <1>7
  <2>3. \A r \in Peer : Inbox(r)' = Inbox(r)
    BY <1>2, <1>7
  <2>4. Owned
    BY <1>1 DEF Owned
  <2> QED
    BY <1>1, <1>4, <2>1, <2>2, <2>3, <2>4, CodesStep DEF PairingInv
<1> QED
  BY <1>6, <1>12, <1>13 DEF PairingInv, LinkInv

(* The relay sends only to a peer's newest socket.                         *)
LEMMA RelayTarget ==
    ASSUME IInv, SocketInv, MapsInv', UNCHANGED <<owner, ws>>, NEW r \in Peer,
           clients'[r] \in relayOpen \ dead
    PROVE  clients'[r] = ws[r]
<1> DEFINE t == clients'[r]
<1>1. t \in Socket
  BY DEF IInv, OwnerInv
<1>2. socketIds'[t] = r
  BY <1>1 DEF MapsInv, RegistryAgrees
<1>3. owner[t] = r
  BY <1>1, <1>2, SocketFacts DEF MapsInv
<1> QED
  BY <1>1, <1>3 DEF SocketInv

(* handleEnvelope of the relay: it answers r, or sends the other peer what *)
(* r has sent, or drops it.                                                *)
Carries(r) ==
    /\ Outbox(r) # <<>> /\ Outbox(r)' = Tail(Outbox(r)) /\ Outbox(Other(r))' = Outbox(Other(r))
    /\ \/ Inbox(r)' = Inbox(r) /\ Inbox(Other(r))' = Inbox(Other(r))
       \/ /\ \E n \in Msg : /\ n.kind \in {"HELLO_ACK", "PAIR_REJECT"}
                            /\ n.kind = "HELLO_ACK" => owner[n.code] = r
                            /\ Inbox(r)' = Append(Inbox(r), n)
          /\ Inbox(Other(r))' = Inbox(Other(r))
       \/ /\ Head(Outbox(r)).kind # "HELLO" /\ Inbox(r)' = Inbox(r)
          /\ Inbox(Other(r))' = Append(Inbox(Other(r)), Head(Outbox(r)))

(* These are the outcomes of handleEnvelope, to newest sockets only.       *)
LEMMA RelayCarries ==
    ASSUME IInv, LinkInv, NEW s \in Socket, RelayHandles(s)
    PROVE  SocketInv' /\ \E r \in Peer : Carries(r)
<1>0. PICK r \in Peer : owner[s] = r
  BY DEF RelayHandles, IInv, OwnerInv
<1> DEFINE q == Other(r)
           m == Head(up[s])
<1>1. r \in Peer /\ q \in Peer /\ Other(q) = r /\ r # q /\ Peer = {r, q}
  BY OtherFacts
<1>2. up[s] # <<>> /\ up' = [up EXCEPT ![s] = Tail(@)]
      /\ UNCHANGED <<status, ws, owner, relayOpen, dead>>
  BY DEF RelayHandles, peerVars, linkVars
<1>3. SocketInv
  BY DEF LinkInv
<1>4. s = ws[r] /\ ws[q] # s /\ s # None /\ ws[q] \in Socket \cup {None}
  BY <1>0, <1>1, <1>2, <1>3, SocketFacts DEF SocketInv, IInv, OwnerInv
<1>5. up[s] \in Seq(Msg) /\ m \in Msg /\ Tail(up[s]) \in Seq(Msg) /\ up[s] = Outbox(r)
      /\ m \in In(Outbox(r))
  <2>1. up[s] \in Seq(Msg)
    BY <1>3 DEF SocketInv
  <2>2. up[s] = Outbox(r)
    BY <1>4 DEF Outbox
  <2> QED
    BY <1>2, <2>1, <2>2, HeadIn
<1>6. MapsInv'
  BY <1>0, <1>1, <1>2, RegisterStep, SocketFacts DEF RelayHandles
<1> HIDE DEF m, q
<1>7. m.kind = "PAIR_REQUEST" => owner[m.code] = q
  BY <1>1, <1>5 DEF LinkInv, CodesInv, q
<1>8. \/ RelaySends(s, [kind |-> "HELLO_ACK", code |-> s])
      \/ RelaySends(s, [kind |-> "PAIR_REJECT"])
      \/ m.kind # "HELLO" /\ RelaySends(clients'[q], m)
  <2>1. CASE m.kind = "HELLO"
    BY <2>1 DEF RelayHandles, m
  <2>2. CASE m.kind = "PAIR_REQUEST"
    BY <1>7, <2>2 DEF RelayHandles, m
  <2>3. CASE m.kind \notin {"HELLO", "PAIR_REQUEST"}
    BY <1>0, <2>3 DEF RelayHandles, m, q
  <2> QED
    BY <2>1, <2>2, <2>3
<1>9. Outbox(r)' = Tail(Outbox(r)) /\ Outbox(q)' = Outbox(q)
  BY <1>2, <1>3, <1>4, <1>5 DEF Outbox, SocketInv
<1>10. \/ down' = down
       \/ \E n \in Msg : /\ n.kind \in {"HELLO_ACK", "PAIR_REJECT"}
                         /\ n.kind = "HELLO_ACK" => owner[n.code] = r
                         /\ down' = [down EXCEPT ![ws[r]] = Append(@, n)]
       \/ /\ m.kind # "HELLO" /\ ws[q] # None
          /\ down' = [down EXCEPT ![ws[q]] = Append(@, m)]
  <2>1. CASE RelaySends(s, [kind |-> "HELLO_ACK", code |-> s])
    <3> DEFINE n == [kind |-> "HELLO_ACK", code |-> s]
    <3>1. n \in Msg /\ n.kind = "HELLO_ACK" /\ owner[n.code] = r
      BY <1>0, MsgFacts
    <3> HIDE DEF n
    <3> QED
      BY <1>4, <2>1, <3>1 DEF RelaySends, n
  <2>2. CASE RelaySends(s, [kind |-> "PAIR_REJECT"])
    <3> DEFINE n == [kind |-> "PAIR_REJECT"]
    <3>1. n \in Msg /\ n.kind = "PAIR_REJECT"
      BY MsgFacts
    <3> HIDE DEF n
    <3> QED
      BY <1>4, <2>2, <3>1 DEF RelaySends, n
  <2>3. CASE m.kind # "HELLO" /\ RelaySends(clients'[q], m)
    <3>1. CASE clients'[q] \in relayOpen \ dead
      <4>1. clients'[q] = ws[q]
        BY <1>1, <1>2, <1>3, <1>6, <3>1, RelayTarget
      <4>2. ws[q] # None
        BY <3>1, <4>1, SocketFacts DEF IInv, OwnerInv
      <4> QED
        BY <2>3, <3>1, <4>1, <4>2 DEF RelaySends
    <3>2. CASE clients'[q] \notin relayOpen \ dead
      BY <2>3, <3>2 DEF RelaySends
    <3> QED
      BY <3>1, <3>2
  <2> QED
    BY <1>8, <2>1, <2>2, <2>3
<1>11. SocketInv'
  <2>1. up' \in [Socket -> Seq(Msg)] /\ \A t \in Socket : up[t] = <<>> => up'[t] = <<>>
    BY <1>2, <1>3, <1>5, QueueChanged DEF SocketInv
  <2>2. down' \in [Socket -> Seq(Msg)]
        /\ \A t \in Socket : down'[t] = down[t] \/ \E x \in Peer : t = ws[x]
    <3>1. CASE down' = down
      BY <1>3, <3>1 DEF SocketInv
    <3>2. CASE \E x \in Peer, n \in Msg :
                   ws[x] # None /\ down' = [down EXCEPT ![ws[x]] = Append(@, n)]
      <4>1. PICK x \in Peer, n \in Msg :
                ws[x] # None /\ down' = [down EXCEPT ![ws[x]] = Append(@, n)]
        BY <3>2
      <4>2. ws[x] \in Socket /\ down \in [Socket -> Seq(Msg)]
        BY <1>3, <4>1 DEF SocketInv, IInv, OwnerInv
      <4>3. Append(down[ws[x]], n) \in Seq(Msg)
        BY <4>2
      <4> QED
        BY <4>1, <4>2, <4>3, QueueChanged
    <3> QED
      BY <1>1, <1>4, <1>5, <1>10, <3>1, <3>2
  <2>3. ASSUME NEW t \in Socket, owner[t] = None PROVE down'[t] = <<>>
    <3>1. \A x \in Peer : t # ws[x]
      BY <2>3, SocketFacts DEF IInv, OwnerInv
    <3>2. down'[t] = down[t]
      BY <2>2, <3>1
    <3>3. down[t] = <<>>
      BY <1>3, <2>3 DEF SocketInv
    <3> QED
      BY <3>2, <3>3
  <2> QED
    BY <1>2, <1>3, <2>1, <2>2, <2>3 DEF SocketInv
<1>12. Carries(r)
  <2>1. down \in [Socket -> Seq(Msg)] /\ ws[r] \in Socket /\ ws[r] # None /\ ws[q] # ws[r]
    BY <1>3, <1>4 DEF SocketInv
  <2>2. CASE down' = down
    BY <1>2, <1>5, <1>9, <2>2 DEF Carries, Inbox, q
  <2>3. CASE \E n \in Msg : /\ n.kind \in {"HELLO_ACK", "PAIR_REJECT"}
                            /\ n.kind = "HELLO_ACK" => owner[n.code] = r
                            /\ down' = [down EXCEPT ![ws[r]] = Append(@, n)]
    <3>1. PICK n \in Msg : /\ n.kind \in {"HELLO_ACK", "PAIR_REJECT"}
                           /\ n.kind = "HELLO_ACK" => owner[n.code] = r
                           /\ down' = [down EXCEPT ![ws[r]] = Append(@, n)]
      BY <2>3
    <3>2. Inbox(r)' = Append(Inbox(r), n) /\ Inbox(q)' = Inbox(q)
      BY <1>2, <1>4, <2>1, <3>1 DEF Inbox
    <3> QED
      BY <1>2, <1>5, <1>9, <3>1, <3>2 DEF Carries, q
  <2>4. CASE /\ m.kind # "HELLO" /\ ws[q] # None
             /\ down' = [down EXCEPT ![ws[q]] = Append(@, m)]
    <3>1. Inbox(q)' = Append(Inbox(q), m) /\ Inbox(r)' = Inbox(r)
      BY <1>2, <1>4, <2>1, <2>4 DEF Inbox
    <3> QED
      BY <1>2, <1>5, <1>9, <2>4, <3>1 DEF Carries, q, m
  <2> QED
    BY <1>10, <2>2, <2>3, <2>4
<1> QED
  BY <1>11, <1>12

(* handleEnvelope of the relay.                                            *)
LEMMA CarriesStep ==
    ASSUME IInv, PairingInv, NEW r \in Peer, Carries(r),
           UNCHANGED <<owner, sessionCode, conns, mounted, pairs>>, ~refused'
    PROVE  PairInv' /\ TrafficInv' /\ CodesInv'
<1> DEFINE q == Other(r)
           m == Head(Outbox(r))
<1>1. q \in Peer /\ Other(q) = r /\ Peer = {r, q}
  BY OtherFacts
<1>2. \A x \in Peer : Inbox(x) \in Seq(Msg) /\ Outbox(x) \in Seq(Msg)
                      /\ Ordered(Inbox(Other(x)), Outbox(x))
  BY BoxFacts DEF PairingInv, TrafficInv
<1>3. /\ Outbox(r) # <<>> /\ Outbox(r)' = Tail(Outbox(r)) /\ Outbox(q)' = Outbox(q)
      /\ m \in Msg /\ m \in In(Outbox(r)) /\ In(Outbox(r)') \subseteq In(Outbox(r))
  BY <1>2, HeadIn, RestIn DEF Carries, Rest
<1> HIDE DEF m, q
<1>4. Ordered(Inbox(q), Outbox(r)) /\ Ordered(Inbox(r), Outbox(q))
  BY <1>1, <1>2 DEF q
<1>5. Ordered(Inbox(q), Tail(Outbox(r)))
  BY <1>1, <1>2, <1>3, <1>4, RestOrdered DEF Rest
<1> DEFINE Kept ==
               /\ Ordered(Inbox(q)', Outbox(r)') /\ Ordered(Inbox(r)', Outbox(q)')
               /\ \A n \in In(Inbox(r)') :
                      \/ n \in In(Inbox(r))
                      \/ /\ IsNoise(n) /\ n.kind # "HELLO"
                         /\ n.kind = "HELLO_ACK" => owner[n.code] = r /\ n.code \in Socket
               /\ \A n \in In(Inbox(q)') : n \in In(Inbox(q)) \/ (n = m /\ m.kind # "HELLO")
<1>6. ASSUME Inbox(r)' = Inbox(r) /\ Inbox(q)' = Inbox(q) PROVE Kept
  BY <1>3, <1>4, <1>5, <1>6
<1>7. ASSUME /\ \E n \in Msg : /\ n.kind \in {"HELLO_ACK", "PAIR_REJECT"}
                               /\ n.kind = "HELLO_ACK" => owner[n.code] = r
                               /\ Inbox(r)' = Append(Inbox(r), n)
             /\ Inbox(q)' = Inbox(q)
      PROVE  Kept
  <2>1. PICK n \in Msg : /\ n.kind \in {"HELLO_ACK", "PAIR_REJECT"}
                         /\ n.kind = "HELLO_ACK" => owner[n.code] = r
                         /\ Inbox(r)' = Append(Inbox(r), n)
    BY <1>7
  <2>2. IsNoise(n) /\ (n.kind = "HELLO_ACK" => n.code \in Socket)
    BY <2>1, MsgKinds DEF IsNoise
  <2>3. Ordered(Append(Inbox(r), n), Outbox(q))
    <3>1. \A x : Ok(x, n) /\ Ok(n, x)
      BY <2>2, OkNoise
    <3> QED
      BY <1>1, <1>2, <1>4, <3>1, AppendOrdered
  <2>4. In(Inbox(r)') = In(Inbox(r)) \cup {n}
    BY <1>2, <2>1, AppendIn
  <2> QED
    BY <1>3, <1>5, <1>7, <2>1, <2>2, <2>3, <2>4
<1>8. ASSUME m.kind # "HELLO" /\ Inbox(r)' = Inbox(r) /\ Inbox(q)' = Append(Inbox(q), m)
      PROVE  Kept
  <2>1. Ordered(Append(Inbox(q), m), Tail(Outbox(r)))
    BY <1>1, <1>2, <1>3, <1>4, MoveOrdered DEF m
  <2>2. In(Inbox(q)') = In(Inbox(q)) \cup {m}
    BY <1>1, <1>2, <1>3, <1>8, AppendIn
  <2> QED
    BY <1>3, <1>4, <1>8, <2>1, <2>2
<1>9. Kept
  BY <1>6, <1>7, <1>8 DEF Carries, q, m
<1> HIDE DEF Kept
<1>10. \A x \in Peer : Ordered(Inbox(Other(x)), Outbox(x))'
  BY <1>1, <1>9 DEF Kept, q
<1>11. /\ Path(r) = In(Inbox(q)) \cup In(Outbox(r)) /\ Path(q) = In(Inbox(r)) \cup In(Outbox(q))
       /\ Path(r)' = In(Inbox(q)') \cup In(Outbox(r)')
       /\ Path(q)' = In(Inbox(r)') \cup In(Outbox(q)')
  BY <1>1 DEF Path, q
<1>12. \A x \in Peer : \A n \in Path(x)' : n \in Path(x) \/ IsNoise(n)
  BY <1>1, <1>3, <1>9, <1>11 DEF Kept
<1>13. PairInv' /\ TrafficInv'
  BY <1>10, <1>12, CarryStep DEF PairingInv
<1>14. m.kind # "HELLO_ACK"
  BY <1>3 DEF PairingInv, LinkInv, CodesInv
<1>15. Owned
  BY DEF Owned
<1>16. \A x \in Peer : \A n \in In(Inbox(x)') :
           \/ n \in In(Inbox(x))
           \/ n.kind # "HELLO" /\ (n.kind = "HELLO_ACK" => owner[n.code] = x /\ n.code \in Socket)
  BY <1>1, <1>9, <1>14 DEF Kept
<1>17. \A x \in Peer : \A n \in In(Outbox(x)') : n \in In(Outbox(x))
  BY <1>1, <1>3
<1>18. sessionCode' \in [Peer -> Socket \cup {None}] /\ sessionCode' = sessionCode
  BY DEF PairingInv, LinkInv, CodesInv
<1>19. CodesInv'
  BY <1>15, <1>16, <1>17, <1>18, CodesStep DEF PairingInv
<1> QED
  BY <1>13, <1>19

(* So the relay keeps the invariant.                                       *)
LEMMA RelayPairing ==
    ASSUME IInv, PairingInv, NEW s \in Socket, RelayHandles(s)
    PROVE  PairingInv'
<1>1. SocketInv' /\ \E r \in Peer : Carries(r)
  BY RelayCarries DEF PairingInv
<1>2. UNCHANGED <<owner, sessionCode, conns, mounted, pairs>> /\ ~refused'
  BY DEF RelayHandles, peerVars, pairVars, linkVars, counters, PairingInv, PairInv
<1>3. PairInv' /\ TrafficInv' /\ CodesInv'
  BY <1>1, <1>2, CarriesStep
<1> QED
  BY <1>1, <1>3 DEF PairingInv, LinkInv

(* The program starts with nothing under way.                              *)
LEMMA InitPairing == Init => PairingInv
<1> SUFFICES ASSUME Init PROVE PairingInv
  OBVIOUS
<1>1. /\ status = [p \in Peer |-> "disconnected"] /\ ws = [p \in Peer |-> None]
      /\ sessionCode = [p \in Peer |-> None] /\ conns = [p \in Peer |-> <<>>]
      /\ mounted = [p \in Peer |-> FALSE] /\ owner = [s \in Socket |-> None] /\ dead = {}
      /\ up = [s \in Socket |-> <<>>] /\ down = [s \in Socket |-> <<>>]
      /\ pairs = 0 /\ refused = FALSE
  BY DEF Init
<1>2. \A p \in Peer : Inbox(p) = <<>> /\ Outbox(p) = <<>>
  BY <1>1 DEF Inbox, Outbox
<1>3. In(<<>>) = {} /\ Ordered(<<>>, <<>>)
  BY DEF In, Ordered, Sorted, Before
<1>4. SocketInv
  BY <1>1, SocketFacts DEF SocketInv
<1>5. CodesInv
  BY <1>1, <1>2, <1>3 DEF CodesInv
<1>6. PairInv
  BY <1>1 DEF PairInv
<1>7. TrafficInv
  BY <1>2, <1>3, OtherFacts DEF TrafficInv, Path
<1> QED
  BY <1>4, <1>5, <1>6, <1>7 DEF PairingInv, LinkInv

(* Every step keeps what is said of a single pairing.                      *)
LEMMA NextPairing ==
    ASSUME MaxPairs <= 1, IInv, PairingInv, [Next]_vars
    PROVE  PairingInv'
<1>1. ASSUME NEW p \in Peer,
             \/ Connect(p) \/ Opens(p) \/ Closed(p) \/ Ping(p)
             \/ Reads(p) \/ RequestPair(p) \/ SendData(p)
      PROVE  PairingInv'
  <2>1. CASE Ping(p)
    <3>1. ws[p] \in Socket
      BY <2>1, SocketFacts DEF Ping, IInv, OwnerInv
    <3> QED
      BY <2>1, <3>1, RelayLosses
  <2> QED
    BY <1>1, <2>1, ConnectPairing, OpensPairing, ClosedPairing, ReadsPairing, RequestPairing,
       SendDataPairing
<1>2. ASSUME NEW s \in Socket, RelayHandles(s) \/ RelayDiscards(s) \/ RelayCloses(s)
      PROVE  PairingInv'
  BY <1>2, RelayPairing, RelayLosses
<1>3. CASE UNCHANGED vars
  <2>1. UNCHANGED <<status, ws, sessionCode, conns, mounted, refused, owner, dead, up, down, pairs>>
    BY <1>3 DEF vars, peerVars, pairVars, linkVars, counters
  <2> QED
    BY <2>1 DEF PairingInv, LinkInv, SocketInv, CodesInv, PairInv, TrafficInv, FromOk, Path,
                Inbox, Outbox
<1> QED
  BY <1>1, <1>2, <1>3 DEF Next

(* While the peers pair once, no cipher refuses what the other sent.       *)
THEOREM NeverRefuses ==
    ASSUME MaxPairs <= 1
    PROVE  Spec => []NothingRefused
<1>1. Init => IInv /\ PairingInv
  BY InitInv, InitPairing
<1>2. IInv /\ PairingInv /\ [Next]_vars => (IInv /\ PairingInv)'
  BY NextInv, NextPairing
<1>3. PairingInv => NothingRefused
  BY DEF PairingInv, PairInv, NothingRefused
<1> QED
  BY <1>1, <1>2, <1>3, PTL DEF Spec

(* A connection sends its key once.                                        *)
THEOREM KeySentOnce ==
    ASSUME MaxPairs <= 1
    PROVE  Spec => []HandshakeOnce
<1>1. Init => IInv /\ PairingInv
  BY InitInv, InitPairing
<1>2. IInv /\ PairingInv /\ [Next]_vars => (IInv /\ PairingInv)'
  BY NextInv, NextPairing
<1>3. PairingInv => HandshakeOnce
  <2> SUFFICES ASSUME PairingInv, NEW p \in Peer, NEW i \in DOMAIN conns[p]
               PROVE  conns[p][i].keysSent <= 1
    BY DEF HandshakeOnce
  <2>1. conns[p] \in {<<>>} \cup {<<c>> : c \in Conn}
    BY DEF PairingInv, PairInv
  <2>2. PICK c \in Conn : conns[p] = <<c>>
    BY <2>1
  <2>3. conns[p][i] = c
    BY <2>2
  <2> QED
    BY <2>3 DEF Conn
<1> QED
  BY <1>1, <1>2, <1>3, PTL DEF Spec
=============================================================================
