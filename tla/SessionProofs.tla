----------------------------- MODULE SessionProofs -----------------------------
(***************************************************************************)
(* Proofs about Session, for every number of connections, losses and       *)
(* chunks: what the shell reads and what the guest sees are in order, and  *)
(* without a loss nothing of it is missing; and the session's relay is     *)
(* Relay's (ImplementsRelay), of every behaviour.                          *)
(*                                                                         *)
(* The order does not hold of every behaviour.  The relay takes a          *)
(* RECONNECT for the latest whenever it comes, so that a connection that   *)
(* was lost may take the seat back from its successor; and a connection    *)
(* that cannot be made is followed by two others, which may live side by   *)
(* side.  The theorem is about the behaviours without either:              *)
(* OneConnection is an invariant of them and SeatsAdvance holds of their   *)
(* steps.  When no peer connects more than twice both hold by themselves,  *)
(* and nothing is assumed.                                                 *)
(***************************************************************************)
EXTENDS Session, TLAPS

(* A connection that may still be used by its peer. *)
Alive == {"connecting", "open", "closing"}

(* No two connections of a peer at a time. *)
OneConnection ==
    \A c, d \in Connection :
        Owner(c) = Owner(d) /\ readyState[c] \in Alive /\ readyState[d] \in Alive => c = d

(* As long as the session lasts, a seat is taken by later connections only. *)
SeatsAdvance ==
    state' = "active" => \A p \in Peer : seat'[p] = seat[p] \/ seat'[p][2] > seat[p][2]

-----------------------------------------------------------------------------
(* Terminal traffic in a queue.                                            *)

(* Messages, with chunks and counters without a bound. *)
Msg == [type : Forwarded \cup Ends \cup {"SESSION_READY", "RECONNECT", "RECONNECT_OK", "ERROR",
                                         "CLOSE"},
        n : Nat, counter : Nat]

(* A chunk of terminal traffic. *)
IsData(m) == m.type \in {"ENCRYPTED_DATA", "PTY_INPUT"}

(* Chunk a was made before chunk b. *)
Precedes(a, b) == a.n < b.n /\ (b.type = "ENCRYPTED_DATA" => a.counter < b.counter)

(* The chunks of q are in the order in which they were made. *)
Sorted(q) ==
    \A i, j \in 1 .. Len(q) : i < j /\ IsData(q[i]) /\ IsData(q[j]) => Precedes(q[i], q[j])

(* Every chunk of q was made before every chunk of r. *)
Before(q, r) ==
    \A i \in 1 .. Len(q), j \in 1 .. Len(r) :
        IsData(q[i]) /\ IsData(r[j]) => Precedes(q[i], r[j])

(* The chunks of q are newer than those that were heard, and their         *)
(* counters are above the last one, counter.                               *)
Above(q, heard, counter) ==
    \A i \in 1 .. Len(q) : IsData(q[i]) =>
        /\ \A j \in 1 .. Len(heard) : heard[j] < q[i].n
        /\ q[i].type = "ENCRYPTED_DATA" => counter < q[i].counter

(* No chunk of q is newer than the n-th, no counter above counter. *)
Within(q, n, counter) ==
    \A i \in 1 .. Len(q) : IsData(q[i]) => q[i].n <= n /\ q[i].counter <= counter

(* q carries no chunk. *)
NoData(q) == \A i \in 1 .. Len(q) : ~IsData(q[i])

-----------------------------------------------------------------------------
(* The inductive invariant.                                                *)

(* Connections are made one after the other.                               *)
ReadyInv ==
    /\ readyState \in [Connection -> {"absent", "connecting", "open", "closing", "closed"}]
    /\ \A c, d \in Connection :
           Owner(c) = Owner(d) /\ c[2] < d[2] /\ readyState[c] # "closed" =>
               readyState[d] = "absent"

(* A connection that has not opened carries nothing.                       *)
QueueInv ==
    /\ up \in [Connection -> Seq(Msg)] /\ down \in [Connection -> Seq(Msg)]
    /\ serverState \in [Connection -> {"absent", "open", "closing", "closed"}]
    /\ \A c \in Connection : readyState[c] \in {"absent", "connecting"} =>
           serverState[c] = "absent" /\ up[c] = <<>> /\ down[c] = <<>>

(* The relay listens to the connections that have the seats.               *)
SeatInv ==
    /\ state \in {"active", "ended"}
    /\ seat \in [Peer -> Connection \cup {None}]
    /\ seat["host"] \in Connection /\ Owner(seat["host"]) = "host"
    /\ \/ seat["guest"] \in Connection /\ Owner(seat["guest"]) = "guest"
       \/ seat["guest"] = None /\ state = "ended"
    /\ roomsBySocket \subseteq Connection
    /\ \A c \in roomsBySocket : c = seat[Owner(c)]

(* What the peers have made and heard, and where they send it. *)
TerminalInv ==
    /\ typed \in Nat /\ printed \in Nat
    /\ shellRead \in Seq(Nat) /\ shown \in Seq(Nat)
    /\ sendCounter \in [Peer -> Nat] /\ recvCounter \in [Peer -> Nat]
    /\ currentSocket \in Connection /\ Owner(currentSocket) = "guest"
    /\ child \in {"none", "running", "killed", "exited"}
    /\ child # "none" => childSocket \in Connection /\ Owner(childSocket) = "host"

(* Of the chunks p makes: how many there are, and which were heard. *)
Made(p) == IF p = "guest" THEN typed ELSE printed
Heard(p) == IF p = "guest" THEN shellRead ELSE shown

(* The connections on which the relay may yet hear chunks of p, and those  *)
(* on which the other peer may.                                            *)
Sending(p) == {c \in Connection : Owner(c) = p /\ state = "active" /\ seat[p][2] <= c[2]}
Receiving(p) == {c \in Connection : Owner(c) = Other(p) /\ readyState[c] \in {"open", "closing"}}

(* The chunks of p that may yet be heard are newer than those that were    *)
(* and will be heard in order.                                             *)
PathInv(p) ==
    /\ \A c \in Sending(p) : Sorted(up[c]) /\ Above(up[c], Heard(p), recvCounter[Other(p)])
    /\ \A c \in Receiving(p) : Sorted(down[c]) /\ Above(down[c], Heard(p), recvCounter[Other(p)])
    /\ \A c, d \in Sending(p) : c[2] < d[2] => Before(up[c], up[d])
    /\ \A c \in Receiving(p), d \in Sending(p) : Before(down[c], up[d])
    /\ \A c \in Connection : Owner(c) = p => Within(up[c], Made(p), sendCounter[p])
    /\ \A c \in Connection : Owner(c) = Other(p) => Within(down[c], Made(p), sendCounter[p])
    /\ \A i \in 1 .. Len(Heard(p)) : Heard(p)[i] <= Made(p)
    /\ recvCounter[Other(p)] <= sendCounter[p]
    /\ Ascending(Heard(p))

(* The inductive invariant. *)
IInv ==
    /\ ReadyInv /\ QueueInv /\ SeatInv /\ TerminalInv
    /\ PathInv("guest") /\ PathInv("host") /\ ~refused

-----------------------------------------------------------------------------
(* What happens to a queue.                                                *)

(* a is q, without its first message, with messages added that carry no    *)
(* chunk, or has no chunk at all.                                          *)
Shrinks(a, q) ==
    \/ a = q
    \/ NoData(a)
    \/ q # <<>> /\ a = Tail(q)
    \/ \E out \in Seq(Msg) : NoData(out) /\ a = q \o out

(* The chunk at i of a is the one at place[i] of q, in the same order.     *)
Embeds(place, a, q) ==
    \A i \in 1 .. Len(a) : IsData(a[i]) =>
        /\ place[i] \in 1 .. Len(q) /\ q[place[i]] = a[i]
        /\ \A j \in 1 .. Len(a) : IsData(a[j]) /\ i < j => place[i] < place[j]

(* What shrinks keeps the chunks it has in order.                          *)
LEMMA ShrinkEmbeds ==
    ASSUME NEW q \in Seq(Msg), NEW a \in Seq(Msg), Shrinks(a, q)
    PROVE  \E place : Embeds(place, a, q)
<1> DEFINE same == [i \in 1 .. Len(a) |-> i]
           next == [i \in 1 .. Len(a) |-> i + 1]
<1>1. CASE a = q \/ NoData(a)
    <2>1. Embeds(same, a, q)
        BY <1>1 DEF Embeds, NoData
    <2> QED  BY <2>1
<1>2. CASE q # <<>> /\ a = Tail(q)
    <2>1. Len(a) = Len(q) - 1 /\ \A i \in 1 .. Len(a) : a[i] = q[i + 1]
        BY <1>2
    <2>2. Embeds(next, a, q)
        BY <2>1 DEF Embeds
    <2> QED  BY <2>2
<1>3. CASE \E out \in Seq(Msg) : NoData(out) /\ a = q \o out
    <2> PICK out \in Seq(Msg) : NoData(out) /\ a = q \o out
        BY <1>3
    <2>1. Len(a) = Len(q) + Len(out) /\ \A i \in 1 .. Len(q) : a[i] = q[i]
        OBVIOUS
    <2>2. ASSUME NEW i \in 1 .. Len(a), IsData(a[i])
          PROVE  i \in 1 .. Len(q)
        <3>1. CASE i > Len(q)
            <4>1. i - Len(q) \in 1 .. Len(out) /\ a[i] = out[i - Len(q)]
                BY <2>1, <3>1
            <4> QED  BY <2>2, <4>1 DEF NoData
        <3> QED  BY <3>1
    <2>3. Embeds(same, a, q)
        BY <2>1, <2>2 DEF Embeds
    <2> QED  BY <2>3
<1> QED  BY <1>1, <1>2, <1>3 DEF Shrinks

(* All that is said of the chunks of a queue stays true when it shrinks.   *)
LEMMA ShrinkKeeps ==
    ASSUME NEW q \in Seq(Msg), NEW a \in Seq(Msg), Shrinks(a, q)
    PROVE  /\ Sorted(q) => Sorted(a)
           /\ \A heard, counter : Above(q, heard, counter) => Above(a, heard, counter)
           /\ \A n, counter : Within(q, n, counter) => Within(a, n, counter)
           /\ \A r : Before(q, r) => Before(a, r)
           /\ \A r : Before(r, q) => Before(r, a)
<1> PICK place : Embeds(place, a, q)
    BY ShrinkEmbeds
<1>1. Sorted(q) => Sorted(a)
    BY DEF Sorted, Embeds
<1>2. \A heard, counter : Above(q, heard, counter) => Above(a, heard, counter)
    BY DEF Above, Embeds
<1>3. \A n, counter : Within(q, n, counter) => Within(a, n, counter)
    BY DEF Within, Embeds
<1>4. \A r : Before(q, r) => Before(a, r)
    BY DEF Before, Embeds
<1>5. \A r : Before(r, q) => Before(r, a)
    BY DEF Before, Embeds
<1> QED  BY <1>1, <1>2, <1>3, <1>4, <1>5

(* Of a queue without chunks all of it is true.                            *)
LEMMA NoDataFacts ==
    ASSUME NEW a, NoData(a)
    PROVE  /\ Sorted(a)
           /\ \A heard, counter : Above(a, heard, counter)
           /\ \A n, counter : Within(a, n, counter)
           /\ \A r : Before(a, r) /\ Before(r, a)
BY DEF NoData, Sorted, Above, Within, Before

(* What is in a queue is a message.                                        *)
LEMMA MsgFacts ==
    ASSUME NEW q \in Seq(Msg), NEW i \in 1 .. Len(q)
    PROVE  q[i] \in Msg /\ q[i].n \in Nat /\ q[i].counter \in Nat
<1>1. q[i] \in Msg
    OBVIOUS
<1> QED  BY <1>1 DEF Msg

(* The first message comes before the others, and where the queue comes.   *)
LEMMA HeadFacts ==
    ASSUME NEW q \in Seq(Msg), q # <<>>
    PROVE  /\ Head(q) \in Msg /\ Tail(q) \in Seq(Msg) /\ Shrinks(Tail(q), q)
           /\ Sorted(q) => Before(<<Head(q)>>, Tail(q))
           /\ \A heard, counter : Above(q, heard, counter) => Above(<<Head(q)>>, heard, counter)
           /\ \A n, counter : Within(q, n, counter) => Within(<<Head(q)>>, n, counter)
           /\ \A r : Before(q, r) => Before(<<Head(q)>>, r)
           /\ \A r : Before(r, q) => Before(r, <<Head(q)>>)
<1>1. /\ Head(q) = q[1] /\ 1 \in 1 .. Len(q) /\ Tail(q) \in Seq(Msg)
      /\ Len(Tail(q)) = Len(q) - 1 /\ \A i \in 1 .. Len(q) - 1 : Tail(q)[i] = q[i + 1]
    OBVIOUS
<1> DEFINE h == Head(q)
           t == Tail(q)
<1>2. Head(q) \in Msg /\ Shrinks(t, q)
    <2>1. Head(q) \in Msg
        OBVIOUS
    <2>2. Shrinks(t, q)
        BY DEF Shrinks
    <2> QED  BY <2>1, <2>2
<1>3. Len(<<h>>) = 1 /\ \A i \in 1 .. Len(<<h>>) : i = 1 /\ <<h>>[i] = q[1]
    BY <1>1
<1>4. Len(q) \in Nat
    OBVIOUS
<1>5. Len(t) = Len(q) - 1 /\ \A i \in 1 .. Len(q) - 1 : t[i] = q[i + 1]
    BY <1>1
<1> HIDE DEF h, t
<1>6. Sorted(q) => Before(<<h>>, t)
    <2> SUFFICES ASSUME Sorted(q), NEW j \in 1 .. Len(t), IsData(q[1]), IsData(t[j])
                 PROVE  Precedes(q[1], t[j])
        BY <1>3 DEF Before
    <2>1. j + 1 \in 1 .. Len(q) /\ t[j] = q[j + 1] /\ 1 < j + 1
        BY <1>4, <1>5
    <2> QED  BY <1>1, <2>1 DEF Sorted
<1>7. \A heard, counter : Above(q, heard, counter) => Above(<<h>>, heard, counter)
    BY <1>1, <1>3 DEF Above
<1>8. \A n, counter : Within(q, n, counter) => Within(<<h>>, n, counter)
    BY <1>1, <1>3 DEF Within
<1>9. \A r : Before(q, r) => Before(<<h>>, r)
    BY <1>1, <1>3 DEF Before
<1>10. \A r : Before(r, q) => Before(r, <<h>>)
    BY <1>1, <1>3 DEF Before
<1> QED  BY <1>1, <1>2, <1>6, <1>7, <1>8, <1>9, <1>10 DEF h, t

(* a has the chunks of q and then those of b.                              *)
Joins(a, q, b) ==
    /\ Sorted(q) /\ Before(q, b) => Sorted(a)
    /\ \A heard, counter : Above(q, heard, counter) /\ Above(b, heard, counter) =>
                                Above(a, heard, counter)
    /\ \A n, counter : Within(q, n, counter) /\ Within(b, n, counter) => Within(a, n, counter)
    /\ \A r : Before(q, r) /\ Before(b, r) => Before(a, r)
    /\ \A r : Before(r, q) /\ Before(r, b) => Before(r, a)

(* A message may be added to a queue that it comes after.                  *)
LEMMA AddFacts ==
    ASSUME NEW q \in Seq(Msg), NEW m \in Msg
    PROVE  q \o <<m>> \in Seq(Msg) /\ Joins(q \o <<m>>, q, <<m>>)
<1> DEFINE a == q \o <<m>>
           s == <<m>>
<1>1. /\ Len(q) \in Nat /\ a \in Seq(Msg) /\ Len(a) = Len(q) + 1
      /\ \A i \in 1 .. Len(q) : a[i] = q[i]
      /\ a[Len(q) + 1] = m
      /\ Len(s) = 1 /\ s[1] = m
    OBVIOUS
<1> HIDE DEF a, s
<1>2. \A i \in 1 .. Len(a) : \/ i \in 1 .. Len(q) /\ a[i] = q[i]
                             \/ i = Len(q) + 1 /\ a[i] = s[1]
    BY <1>1
<1>3. 1 \in 1 .. Len(s) /\ \A i \in 1 .. Len(s) : i = 1
    BY <1>1
<1>4. Sorted(q) /\ Before(q, s) => Sorted(a)
    <2> SUFFICES ASSUME Sorted(q), Before(q, s), NEW i \in 1 .. Len(a), NEW j \in 1 .. Len(a),
                        i < j, IsData(a[i]), IsData(a[j])
                 PROVE  Precedes(a[i], a[j])
        BY DEF Sorted
    <2>1. i \in 1 .. Len(q) /\ a[i] = q[i]
        BY <1>1
    <2>2. CASE j \in 1 .. Len(q) /\ a[j] = q[j]
        BY <2>1, <2>2 DEF Sorted
    <2>3. CASE a[j] = s[1]
        BY <1>3, <2>1, <2>3 DEF Before
    <2> QED  BY <1>2, <2>2, <2>3
<1>5. \A heard, counter : Above(q, heard, counter) /\ Above(s, heard, counter) =>
                              Above(a, heard, counter)
    BY <1>2, <1>3 DEF Above
<1>6. \A n, counter : Within(q, n, counter) /\ Within(s, n, counter) => Within(a, n, counter)
    BY <1>2, <1>3 DEF Within
<1>7. \A r : Before(q, r) /\ Before(s, r) => Before(a, r)
    BY <1>2, <1>3 DEF Before
<1>8. \A r : Before(r, q) /\ Before(r, s) => Before(r, a)
    BY <1>2, <1>3 DEF Before
<1> QED  BY <1>1, <1>4, <1>5, <1>6, <1>7, <1>8 DEF a, s, Joins

-----------------------------------------------------------------------------
(* What happens to the path of a peer's chunks.                            *)

(* Nobody makes or hears a chunk of p, and none is forwarded.              *)
QuietStep(p) ==
    /\ \A c \in Connection : Owner(c) = p => Shrinks(up'[c], up[c])
    /\ \A c \in Connection : Owner(c) = Other(p) => Shrinks(down'[c], down[c])
    /\ Sending(p)' \subseteq Sending(p)
    /\ \A c \in Receiving(p)' : c \in Receiving(p) \/ NoData(down'[c])
    /\ Heard(p)' = Heard(p) /\ Made(p)' = Made(p)
    /\ recvCounter'[Other(p)] = recvCounter[Other(p)]
    /\ sendCounter'[p] = sendCounter[p]

(* Such a step keeps the path in order. *)
LEMMA QuietKeeps ==
    ASSUME NEW p \in Peer, QueueInv, QueueInv', PathInv(p), QuietStep(p)
    PROVE  PathInv(p)'
<1> DEFINE h == Heard(p)
           k == recvCounter[Other(p)]
<1>1. \A c \in Connection : up[c] \in Seq(Msg) /\ up'[c] \in Seq(Msg)
                          /\ down[c] \in Seq(Msg) /\ down'[c] \in Seq(Msg)
    BY DEF QueueInv
<1>2. /\ \A c \in Sending(p) : c \in Connection /\ Owner(c) = p
      /\ \A c \in Sending(p)' : c \in Connection /\ Owner(c) = p
      /\ \A c \in Receiving(p) : c \in Connection /\ Owner(c) = Other(p)
      /\ \A c \in Receiving(p)' : c \in Connection /\ Owner(c) = Other(p)
    BY DEF Sending, Receiving
<1>3. h' = h /\ k' = k /\ Made(p)' = Made(p) /\ sendCounter'[p] = sendCounter[p]
    BY DEF QuietStep
<1>4. \A c \in Sending(p)' : Sorted(up'[c]) /\ Above(up'[c], h, k)
    BY <1>1, <1>2, ShrinkKeeps DEF QuietStep, PathInv
<1>5. \A c \in Receiving(p)' : Sorted(down'[c]) /\ Above(down'[c], h, k)
    BY <1>1, <1>2, ShrinkKeeps, NoDataFacts DEF QuietStep, PathInv
<1>6. \A c, d \in Sending(p)' : c[2] < d[2] => Before(up'[c], up'[d])
    <2> SUFFICES ASSUME NEW c \in Sending(p)', NEW d \in Sending(p)', c[2] < d[2]
                 PROVE  Before(up'[c], up'[d])
        OBVIOUS
    <2>1. Before(up[c], up[d])
        BY DEF QuietStep, PathInv
    <2>2. Before(up'[c], up[d])
        BY <1>1, <1>2, <2>1, ShrinkKeeps DEF QuietStep
    <2> QED  BY <1>1, <1>2, <2>2, ShrinkKeeps DEF QuietStep
<1>7. \A c \in Receiving(p)', d \in Sending(p)' : Before(down'[c], up'[d])
    <2> SUFFICES ASSUME NEW c \in Receiving(p)', NEW d \in Sending(p)'
                 PROVE  Before(down'[c], up'[d])
        OBVIOUS
    <2>1. CASE NoData(down'[c])
        BY <2>1, NoDataFacts
    <2>2. CASE c \in Receiving(p)
        <3>1. Before(down[c], up[d])
            BY <2>2 DEF QuietStep, PathInv
        <3>2. Before(down'[c], up[d])
            BY <1>1, <1>2, <3>1, ShrinkKeeps DEF QuietStep
        <3> QED  BY <1>1, <1>2, <3>2, ShrinkKeeps DEF QuietStep
    <2> QED  BY <2>1, <2>2 DEF QuietStep
<1>8. \A c \in Connection : Owner(c) = p => Within(up'[c], Made(p), sendCounter[p])
    BY <1>1, ShrinkKeeps DEF QuietStep, PathInv
<1>9. \A c \in Connection : Owner(c) = Other(p) => Within(down'[c], Made(p), sendCounter[p])
    BY <1>1, ShrinkKeeps DEF QuietStep, PathInv
<1> QED  BY <1>3, <1>4, <1>5, <1>6, <1>7, <1>8, <1>9 DEF PathInv

(* p makes the chunk m, which goes out on c if it is open.                 *)
MakeStep(p, c, m) ==
    /\ c \in Connection /\ Owner(c) = p
    /\ m \in Msg /\ m.n = Made(p) + 1
    /\ \/ m.type = "PTY_INPUT" /\ m.counter = 0
       \/ m.type = "ENCRYPTED_DATA" /\ m.counter = sendCounter[p] + 1
    /\ \/ up' = up
       \/ /\ readyState[c] = "open" /\ up' = [up EXCEPT ![c] = @ \o <<m>>]
          /\ m.counter <= sendCounter'[p]
    /\ Made(p)' = Made(p) + 1
    /\ sendCounter'[p] \in {sendCounter[p], sendCounter[p] + 1}
    /\ UNCHANGED <<down, readyState, state, seat, recvCounter>>
    /\ Heard(p)' = Heard(p)

(* A new chunk comes after all the others. *)
LEMMA MakeKeeps ==
    ASSUME NEW p \in Peer, NEW c, NEW m, ReadyInv, QueueInv, QueueInv', TerminalInv, PathInv(p),
           MakeStep(p, c, m)
    PROVE  PathInv(p)'
<1> DEFINE h == Heard(p)
           k == recvCounter[Other(p)]
           n == Made(p)
           s == sendCounter[p]
<1>1. \A d \in Connection : up[d] \in Seq(Msg) /\ up'[d] \in Seq(Msg) /\ down[d] \in Seq(Msg)
    BY DEF QueueInv
<1>2. Sending(p)' = Sending(p) /\ Receiving(p)' = Receiving(p)
    BY DEF MakeStep, Sending, Receiving
<1>3. /\ \A d \in Sending(p) : d \in Connection /\ Owner(d) = p
      /\ \A d \in Receiving(p) : d \in Connection /\ Owner(d) = Other(p)
    BY DEF Sending, Receiving
<1>4. h' = h /\ k' = k /\ down' = down /\ n' = n + 1 /\ s' \in {s, s + 1}
    BY DEF MakeStep
<1>5. n \in Nat /\ s \in Nat /\ k \in Nat /\ h \in Seq(Nat)
    BY DEF TerminalInv, Made, Heard, Peer, Other
<1>6. /\ \A d \in Connection : Owner(d) = Other(p) => Within(down[d], n, s)
      /\ \A d \in Connection : Owner(d) = p => Within(up[d], n, s)
      /\ \A i \in 1 .. Len(h) : h[i] <= n
      /\ k <= s
    BY DEF PathInv
<1>7. /\ m.n = n + 1 /\ IsData(m) /\ m \in Msg /\ m.n \in Nat /\ m.counter \in Nat
      /\ m.type = "ENCRYPTED_DATA" => m.counter = s + 1
      /\ c \in Connection /\ Owner(c) = p
    BY DEF MakeStep, IsData, Msg
<1>8. \A q \in Seq(Msg) : Within(q, n, s) => Within(q, n + 1, s')
    <2> SUFFICES ASSUME NEW q \in Seq(Msg), Within(q, n, s), NEW i \in 1 .. Len(q), IsData(q[i])
                 PROVE  q[i].n <= n + 1 /\ q[i].counter <= s'
        BY DEF Within
    <2>1. q[i].n \in Nat /\ q[i].counter \in Nat /\ q[i].n <= n /\ q[i].counter <= s
        BY MsgFacts DEF Within
    <2> HIDE DEF n, s
    <2> QED  BY <1>4, <1>5, <2>1
<1>9. \A q \in Seq(Msg) : Within(q, n, s) => Before(q, <<m>>)
    <2> SUFFICES ASSUME NEW q \in Seq(Msg), Within(q, n, s), NEW i \in 1 .. Len(q), IsData(q[i])
                 PROVE  Precedes(q[i], m)
        BY DEF Before
    <2>1. q[i].n \in Nat /\ q[i].counter \in Nat /\ q[i].n <= n /\ q[i].counter <= s
        BY MsgFacts DEF Within
    <2> HIDE DEF n, s
    <2> QED  BY <1>5, <1>7, <2>1 DEF Precedes
<1>10. Above(<<m>>, h, k)
    <2>1. \A i \in 1 .. Len(h) : h[i] \in Nat
        BY <1>5
    <2> HIDE DEF n, s, h, k
    <2>2. \A j \in 1 .. Len(h) : h[j] < m.n
        BY <1>5, <1>6, <1>7, <2>1
    <2>3. m.type = "ENCRYPTED_DATA" => k < m.counter
        BY <1>5, <1>6, <1>7
    <2> QED  BY <2>2, <2>3 DEF Above
<1>11. /\ \A i \in 1 .. Len(h) : h[i] <= n + 1
       /\ k <= s'
    <2>1. \A i \in 1 .. Len(h) : h[i] \in Nat
        BY <1>5
    <2> HIDE DEF n, s, h, k
    <2> QED  BY <1>4, <1>5, <1>6, <2>1
<1>12. \A d \in Connection : Owner(d) = Other(p) => Within(down[d], n + 1, s')
    BY <1>1, <1>6, <1>8
<1>13. CASE up' = up
    <2>1. \A d \in Connection : Owner(d) = p => Within(up[d], n + 1, s')
        BY <1>1, <1>6, <1>8
    <2> QED  BY <1>2, <1>4, <1>11, <1>12, <1>13, <2>1 DEF PathInv
<1>14. CASE /\ readyState[c] = "open" /\ up' = [up EXCEPT ![c] = @ \o <<m>>]
            /\ m.counter <= sendCounter'[p]
    <2>1. Joins(up'[c], up[c], <<m>>) /\ \A d \in Connection \ {c} : up'[d] = up[d]
        <3>1. up'[c] = up[c] \o <<m>> /\ \A d \in Connection \ {c} : up'[d] = up[d]
            BY <1>7, <1>14 DEF QueueInv
        <3> QED  BY <1>1, <1>7, <3>1, AddFacts
    <2>2. \A d \in Connection : Owner(d) = p /\ c[2] < d[2] => NoData(up[d])
        <3> SUFFICES ASSUME NEW d \in Connection, Owner(d) = p, c[2] < d[2]  PROVE NoData(up[d])
            OBVIOUS
        <3>1. readyState[d] = "absent"
            BY <1>7, <1>14 DEF ReadyInv
        <3>2. up[d] = <<>>
            BY <3>1 DEF QueueInv
        <3> QED  BY <3>2 DEF NoData
    <2>3. \A d \in Sending(p) : Sorted(up'[d]) /\ Above(up'[d], h, k)
        BY <1>1, <1>3, <1>6, <1>9, <1>10, <2>1 DEF PathInv, Joins
    <2>4. \A d, e \in Sending(p) : d[2] < e[2] => Before(up'[d], up'[e])
        <3> SUFFICES ASSUME NEW d \in Sending(p), NEW e \in Sending(p), d[2] < e[2]
                     PROVE  Before(up'[d], up'[e])
            OBVIOUS
        <3>1. Before(up[d], up[e]) /\ d \in Connection /\ e \in Connection
            BY <1>3 DEF PathInv
        <3>2. CASE d = c
            <4>1. e # c /\ NoData(up[e])
                BY <1>3, <2>2, <3>2 DEF Connection
            <4> QED  BY <1>3, <2>1, <4>1, NoDataFacts
        <3>3. CASE d # c /\ e = c
            <4>1. Before(up[d], <<m>>)
                BY <1>1, <1>3, <1>6, <1>9
            <4> QED  BY <2>1, <3>1, <3>3, <4>1 DEF Joins
        <3>4. CASE d # c /\ e # c
            BY <2>1, <3>1, <3>4
        <3> QED  BY <3>2, <3>3, <3>4
    <2>5. \A d \in Receiving(p), e \in Sending(p) : Before(down[d], up'[e])
        <3> SUFFICES ASSUME NEW d \in Receiving(p), NEW e \in Sending(p)
                     PROVE  Before(down[d], up'[e])
            OBVIOUS
        <3>1. Before(down[d], up[e]) /\ Before(down[d], <<m>>) /\ e \in Connection
            BY <1>1, <1>3, <1>6, <1>9 DEF PathInv
        <3> QED  BY <2>1, <3>1 DEF Joins
    <2>6. \A d \in Connection : Owner(d) = p => Within(up'[d], n + 1, s')
        <3>1. Within(<<m>>, n + 1, s')
            BY <1>4, <1>5, <1>7, <1>14 DEF Within
        <3> QED  BY <1>1, <1>6, <1>8, <2>1, <3>1 DEF Joins
    <2> QED  BY <1>2, <1>4, <1>11, <1>12, <2>3, <2>4, <2>5, <2>6 DEF PathInv
<1> QED  BY <1>13, <1>14 DEF MakeStep

(* The relay forwards the first message of c to the other peer.            *)
MoveStep(p, c) ==
    /\ c \in Sending(p) /\ up[c] # <<>>
    /\ up' = [up EXCEPT ![c] = Tail(@)]
    /\ \A d \in Connection :
           \/ down'[d] = down[d]
           \/ d = seat[Other(p)] /\ down'[d] = down[d] \o <<Head(up[c])>>
    /\ UNCHANGED <<readyState, state, seat, recvCounter, sendCounter>>
    /\ Heard(p)' = Heard(p) /\ Made(p)' = Made(p)

(* What is forwarded comes after all that the other peer may yet hear. *)
LEMMA MoveKeeps ==
    ASSUME NEW p \in Peer, NEW c, QueueInv, QueueInv', PathInv(p), seat[p] = c, MoveStep(p, c)
    PROVE  PathInv(p)'
<1> DEFINE h == Heard(p)
           k == recvCounter[Other(p)]
           n == Made(p)
           s == sendCounter[p]
           m == Head(up[c])
<1>1. \A d \in Connection : up[d] \in Seq(Msg) /\ up'[d] \in Seq(Msg) /\ down[d] \in Seq(Msg)
    BY DEF QueueInv
<1>2. Sending(p)' = Sending(p) /\ Receiving(p)' = Receiving(p)
    BY DEF MoveStep, Sending, Receiving
<1>3. /\ \A d \in Sending(p) : d \in Connection /\ Owner(d) = p /\ c[2] <= d[2]
      /\ \A d \in Receiving(p) : d \in Connection /\ Owner(d) = Other(p)
    BY DEF Sending, Receiving
<1>4. h' = h /\ k' = k /\ n' = n /\ s' = s /\ c \in Sending(p) /\ c \in Connection /\ Owner(c) = p
    BY <1>3 DEF MoveStep
<1>5. /\ up'[c] = Tail(up[c]) /\ up[c] # <<>>
      /\ \A d \in Connection \ {c} : up'[d] = up[d]
    BY <1>4 DEF MoveStep, QueueInv
<1>6. m \in Msg /\ \A d \in Connection : Shrinks(up'[d], up[d])
    BY <1>1, <1>4, <1>5, HeadFacts DEF Shrinks
<1>7. \A d \in Connection : \/ down'[d] = down[d]
                            \/ d = seat[Other(p)] /\ Joins(down'[d], down[d], <<m>>)
    BY <1>1, <1>6, AddFacts DEF MoveStep
<1>8. /\ Above(<<m>>, h, k) /\ Within(<<m>>, n, s)
      /\ Before(<<m>>, up'[c])
      /\ \A d \in Receiving(p) : Before(down[d], <<m>>)
    BY <1>1, <1>4, <1>5, HeadFacts DEF PathInv
<1>9. \A d \in Sending(p) : Before(<<m>>, up'[d])
    <2> SUFFICES ASSUME NEW d \in Sending(p), d # c  PROVE Before(<<m>>, up'[d])
        BY <1>8
    <2>1. c[2] < d[2]
        BY <1>3, <1>4 DEF Connection, Owner, Peer
    <2>2. Before(up[c], up[d])
        BY <1>4, <2>1 DEF PathInv
    <2> QED  BY <1>1, <1>3, <1>4, <1>5, <2>2, HeadFacts
<1> HIDE DEF m
<1>10. \A d \in Sending(p) : Sorted(up'[d]) /\ Above(up'[d], h, k)
    BY <1>1, <1>3, <1>6, ShrinkKeeps DEF PathInv
<1>11. \A d \in Receiving(p) : Sorted(down'[d]) /\ Above(down'[d], h, k)
    BY <1>3, <1>7, <1>8 DEF PathInv, Joins
<1>12. \A d, e \in Sending(p) : d[2] < e[2] => Before(up'[d], up'[e])
    <2> SUFFICES ASSUME NEW d \in Sending(p), NEW e \in Sending(p), d[2] < e[2]
                 PROVE  Before(up'[d], up'[e])
        OBVIOUS
    <2>1. Before(up[d], up[e])
        BY DEF PathInv
    <2>2. Before(up'[d], up[e])
        BY <1>1, <1>3, <1>6, <2>1, ShrinkKeeps
    <2> QED  BY <1>1, <1>3, <1>6, <2>2, ShrinkKeeps
<1>13. \A d \in Receiving(p), e \in Sending(p) : Before(down'[d], up'[e])
    <2> SUFFICES ASSUME NEW d \in Receiving(p), NEW e \in Sending(p)
                 PROVE  Before(down'[d], up'[e])
        OBVIOUS
    <2>1. Before(down[d], up[e])
        BY DEF PathInv
    <2>2. Before(down[d], up'[e])
        BY <1>1, <1>3, <1>6, <2>1, ShrinkKeeps
    <2> QED  BY <1>3, <1>7, <1>9, <2>2 DEF Joins
<1>14. \A d \in Connection : Owner(d) = p => Within(up'[d], n, s)
    BY <1>1, <1>6, ShrinkKeeps DEF PathInv
<1>15. \A d \in Connection : Owner(d) = Other(p) => Within(down'[d], n, s)
    BY <1>7, <1>8 DEF PathInv, Joins
<1> QED  BY <1>2, <1>4, <1>10, <1>11, <1>12, <1>13, <1>14, <1>15 DEF PathInv

(* The other peer hears the first chunk of c, or drops it.                 *)
HearStep(p, c) ==
    /\ c \in Receiving(p) /\ down[c] # <<>> /\ IsData(Head(down[c]))
    /\ down' = [down EXCEPT ![c] = Tail(@)]
    /\ UNCHANGED <<up, readyState, state, seat, sendCounter>>
    /\ Made(p)' = Made(p)
    /\ Heard(p)' \in {Heard(p), Append(Heard(p), Head(down[c]).n)}
    /\ \/ recvCounter'[Other(p)] = recvCounter[Other(p)]
       \/ /\ Head(down[c]).type = "ENCRYPTED_DATA"
          /\ recvCounter'[Other(p)] = Head(down[c]).counter

(* What comes after a chunk is above it when it has been heard.            *)
LEMMA AboveHeard ==
    ASSUME NEW q, NEW h \in Seq(Nat), NEW k, NEW m \in Msg, IsData(m),
           Above(q, h, k), Before(<<m>>, q),
           NEW hh, hh \in {h, Append(h, m.n)},
           NEW kk, kk = k \/ (m.type = "ENCRYPTED_DATA" /\ kk = m.counter)
    PROVE  Above(q, hh, kk)
<1> SUFFICES ASSUME NEW i \in 1 .. Len(q), IsData(q[i])
             PROVE  /\ \A j \in 1 .. Len(hh) : hh[j] < q[i].n
                    /\ q[i].type = "ENCRYPTED_DATA" => kk < q[i].counter
    BY DEF Above
<1>1. Precedes(m, q[i])
    <2>1. 1 \in 1 .. Len(<<m>>) /\ <<m>>[1] = m
        OBVIOUS
    <2> QED  BY <2>1 DEF Before
<1>2. /\ \A j \in 1 .. Len(h) : h[j] < q[i].n
      /\ q[i].type = "ENCRYPTED_DATA" => k < q[i].counter
    BY DEF Above
<1>3. \A j \in 1 .. Len(hh) : hh[j] < q[i].n
    <2>1. CASE hh = h
        BY <1>2, <2>1
    <2>2. CASE hh = Append(h, m.n)
        <3>1. \A j \in 1 .. Len(hh) : (j \in 1 .. Len(h) /\ hh[j] = h[j]) \/ hh[j] = m.n
            BY <2>2
        <3> QED  BY <1>1, <1>2, <3>1 DEF Precedes
    <2> QED  BY <2>1, <2>2
<1> QED  BY <1>1, <1>2, <1>3 DEF Precedes

(* What is heard comes before all that is under way. *)
LEMMA HearKeeps ==
    ASSUME NEW p \in Peer, NEW c, ReadyInv, QueueInv, QueueInv', TerminalInv, TerminalInv',
           PathInv(p), HearStep(p, c)
    PROVE  PathInv(p)'
<1> DEFINE h == Heard(p)
           k == recvCounter[Other(p)]
           n == Made(p)
           s == sendCounter[p]
           m == Head(down[c])
<1>1. \A d \in Connection : up[d] \in Seq(Msg) /\ down[d] \in Seq(Msg) /\ down'[d] \in Seq(Msg)
    BY DEF QueueInv
<1>2. Sending(p)' = Sending(p) /\ Receiving(p)' = Receiving(p)
    BY DEF HearStep, Sending, Receiving
<1>3. /\ \A d \in Sending(p) : d \in Connection /\ Owner(d) = p
      /\ \A d \in Receiving(p) : d \in Connection /\ Owner(d) = Other(p)
    BY DEF Sending, Receiving
<1>4. n' = n /\ s' = s /\ up' = up /\ c \in Receiving(p) /\ c \in Connection /\ Owner(c) = Other(p)
    BY <1>3 DEF HearStep
<1>5. /\ down'[c] = Tail(down[c]) /\ down[c] # <<>>
      /\ \A d \in Connection \ {c} : down'[d] = down[d]
    BY <1>4 DEF HearStep, QueueInv
<1>6. \A d \in Receiving(p) : d = c
    <2> SUFFICES ASSUME NEW d \in Receiving(p), d # c  PROVE FALSE
        OBVIOUS
    <2>1. c[2] < d[2] \/ d[2] < c[2]
        BY <1>3, <1>4 DEF Connection, Owner, Peer
    <2> QED  BY <1>3, <1>4, <2>1 DEF ReadyInv, Receiving
<1>7. m \in Msg /\ IsData(m) /\ \A d \in Connection : Shrinks(down'[d], down[d])
    BY <1>1, <1>4, <1>5, HeadFacts DEF Shrinks, HearStep
<1>8. /\ Above(<<m>>, h, k) /\ Within(<<m>>, n, s)
      /\ Before(<<m>>, down'[c])
      /\ \A d \in Sending(p) : Before(<<m>>, up[d])
    BY <1>1, <1>4, <1>5, HeadFacts DEF PathInv
<1>9. /\ h \in Seq(Nat) /\ h' \in {h, Append(h, m.n)}
      /\ k' = k \/ (m.type = "ENCRYPTED_DATA" /\ k' = m.counter)
      /\ n \in Nat /\ k \in Nat /\ s \in Nat
    <2>1. h' \in {h, Append(h, m.n)}
        BY DEF HearStep
    <2>2. k' = k \/ (m.type = "ENCRYPTED_DATA" /\ k' = m.counter)
        BY DEF HearStep
    <2>3. h \in Seq(Nat) /\ n \in Nat /\ k \in Nat /\ s \in Nat
        BY DEF TerminalInv, Heard, Made, Peer, Other
    <2> QED  BY <2>1, <2>2, <2>3
<1> HIDE DEF m, h, k
<1>10. \A d \in Sending(p) : Sorted(up[d]) /\ Above(up[d], h', k')
    BY <1>7, <1>8, <1>9, AboveHeard DEF PathInv, h, k
<1>11. Sorted(down'[c]) /\ Above(down'[c], h', k')
    <2>1. Sorted(down'[c]) /\ Above(down'[c], h, k)
        BY <1>1, <1>4, <1>7, ShrinkKeeps DEF PathInv, h, k
    <2> DEFINE t == down'[c]
    <2>2. Above(t, h, k) /\ Before(<<m>>, t)
        BY <1>8, <2>1
    <2> HIDE DEF t
    <2>3. Above(t, h', k')
        BY <1>7, <1>9, <2>2, AboveHeard
    <2> QED  BY <2>1, <2>3 DEF t
<1>12. \A d \in Receiving(p), e \in Sending(p) : Before(down'[d], up[e])
    BY <1>1, <1>3, <1>7, ShrinkKeeps DEF PathInv
<1>13. \A d \in Connection : Owner(d) = Other(p) => Within(down'[d], n, s)
    BY <1>1, <1>7, ShrinkKeeps DEF PathInv
<1>14. /\ m.n <= n /\ m.n \in Nat
       /\ \A j \in 1 .. Len(h) : h[j] < m.n
       /\ m.type = "ENCRYPTED_DATA" => m.counter <= s
    <2>1. 1 \in 1 .. Len(<<m>>) /\ <<m>>[1] = m
        OBVIOUS
    <2> QED  BY <1>7, <1>8, <2>1 DEF Within, Above, Msg
<1>15. /\ \A i \in 1 .. Len(h) : h[i] <= n
       /\ k <= s /\ Ascending(h)
    BY DEF PathInv, h, k
<1>16. k' <= s
    BY <1>9, <1>14, <1>15
<1>17. (\A i \in 1 .. Len(h') : h'[i] <= n) /\ Ascending(h')
    <2>1. CASE h' = h
        BY <1>15, <2>1
    <2>2. CASE h' = Append(h, m.n)
        <3>1. /\ Len(h) \in Nat /\ Len(h') = Len(h) + 1 /\ h'[Len(h) + 1] = m.n
              /\ \A i \in 1 .. Len(h) : h'[i] = h[i]
            BY <1>9, <1>14, <2>2
        <3>2. \A i \in 1 .. Len(h') : h'[i] <= n
            BY <1>14, <1>15, <3>1
        <3>3. ASSUME NEW i \in 1 .. Len(h') - 1
              PROVE  h'[i] < h'[i + 1]
            <4>1. CASE i < Len(h)
                BY <1>15, <3>1, <4>1 DEF Ascending
            <4>2. CASE i = Len(h)
                BY <1>14, <3>1, <4>2
            <4> QED  BY <3>1, <4>1, <4>2
        <3> QED  BY <3>2, <3>3 DEF Ascending
    <2> QED  BY <1>9, <2>1, <2>2
<1>18. \A d, e \in Sending(p) : d[2] < e[2] => Before(up[d], up[e])
    BY DEF PathInv
<1>19. \A d \in Connection : Owner(d) = p => Within(up[d], n, s)
    BY DEF PathInv
<1>20. \A d \in Receiving(p) : Sorted(down'[d]) /\ Above(down'[d], h', k')
    BY <1>6, <1>11
<1> QED  BY <1>2, <1>4, <1>10, <1>12, <1>13, <1>16, <1>17, <1>18, <1>19, <1>20 DEF PathInv, h, k

-----------------------------------------------------------------------------
(* What wires and handlers do to the queues.                               *)

(* No chunk is added to a queue, and those it has stay in order. *)
UpQuiet == \A c \in Connection : Shrinks(up'[c], up[c])
DownQuiet == \A c \in Connection : Shrinks(down'[c], down[c])

(* What handlers say without a chunk.                                      *)
LEMMA MessageFacts ==
    ASSUME NEW type \in {"KEY_EXCHANGE", "PTY_RESIZE", "PTY_EXIT", "SESSION_TERMINATE",
                         "TERMINATED", "SESSION_READY", "RECONNECT", "RECONNECT_OK", "ERROR",
                         "CLOSE"}
    PROVE  Message(type) \in Msg /\ ~IsData(Message(type))
BY DEF Message, Msg, IsData, Forwarded, Ends

(* Queues without a chunk, put together. *)
LEMMA OneMessage ==
    ASSUME NEW m \in Msg, ~IsData(m)
    PROVE  <<m>> \in Seq(Msg) /\ NoData(<<m>>)
BY DEF NoData

(* Queues without a chunk, put together: nothing. *)
LEMMA NoMessage ==
    <<>> \in Seq(Msg) /\ NoData(<<>>)
BY DEF NoData

(* Queues without a chunk, put together: one after the other. *)
LEMMA MoreMessages ==
    ASSUME NEW q \in Seq(Msg), NEW r \in Seq(Msg), NoData(q), NoData(r)
    PROVE  q \o r \in Seq(Msg) /\ NoData(q \o r)
<1>1. /\ q \o r \in Seq(Msg) /\ Len(q) \in Nat /\ Len(r) \in Nat /\ Len(q \o r) = Len(q) + Len(r)
      /\ \A i \in 1 .. Len(q) : (q \o r)[i] = q[i]
      /\ \A i \in 1 .. Len(r) : (q \o r)[Len(q) + i] = r[i]
    OBVIOUS
<1>2. ASSUME NEW i \in 1 .. Len(q \o r), ~(i \in 1 .. Len(q))
      PROVE  i - Len(q) \in 1 .. Len(r) /\ (q \o r)[i] = r[i - Len(q)]
    <2>1. i - Len(q) \in 1 .. Len(r) /\ Len(q) + (i - Len(q)) = i
        BY <1>1, <1>2
    <2> QED  BY <1>1, <2>1
<1> QED  BY <1>1, <1>2 DEF NoData

(* Queues without a chunk, put together: one more message. *)
LEMMA AppendMessage ==
    ASSUME NEW q \in Seq(Msg), NoData(q), NEW m \in Msg, ~IsData(m)
    PROVE  Append(q, m) \in Seq(Msg) /\ NoData(Append(q, m))
<1>1. Append(q, m) = q \o <<m>>
    OBVIOUS
<1> QED  BY <1>1, OneMessage, MoreMessages

(* A queue to which messages without a chunk are added. *)
LEMMA ConcatShrinks ==
    ASSUME NEW q \in Seq(Msg), NEW out \in Seq(Msg), NoData(out)
    PROVE  q \o out \in Seq(Msg) /\ Shrinks(q \o out, q) /\ Shrinks(q, q)
BY DEF Shrinks

(* A peer sends messages without a chunk.                                  *)
LEMMA PeerSendsQuiet ==
    ASSUME QueueInv, NEW c, NEW out \in Seq(Msg), NoData(out), PeerSends(c, out)
    PROVE  /\ up' \in [Connection -> Seq(Msg)] /\ UpQuiet
           /\ \A d \in Connection : readyState[d] # "open" => up'[d] = up[d]
<1>1. up' = [up EXCEPT ![c] = Carried(c, out)] /\ up \in [Connection -> Seq(Msg)]
    BY DEF PeerSends, QueueInv
<1>2. \A d \in Connection : up'[d] = IF d = c THEN Carried(c, out) ELSE up[d]
    BY <1>1
<1>3. ASSUME c \in Connection
      PROVE  /\ Carried(c, out) \in Seq(Msg) /\ Shrinks(Carried(c, out), up[c])
             /\ readyState[c] # "open" => Carried(c, out) = up[c]
    <2>1. up[c] \in Seq(Msg)
        BY <1>1, <1>3
    <2> QED  BY <2>1, ConcatShrinks DEF Carried
<1>4. \A d \in Connection : Shrinks(up[d], up[d])
    BY DEF Shrinks
<1> QED  BY <1>1, <1>2, <1>3, <1>4 DEF UpQuiet

(* A message comes out of a wire.                                          *)
LEMMA PeerTakesQuiet ==
    ASSUME QueueInv, NEW c \in Connection, NEW type, PeerTakes(c, type)
    PROVE  /\ down' \in [Connection -> Seq(Msg)] /\ DownQuiet
           /\ \A d \in Connection : down[d] = <<>> => down'[d] = <<>>
<1>1. /\ down' = [down EXCEPT ![c] = Tail(@)] /\ down \in [Connection -> Seq(Msg)]
      /\ down[c] \in Seq(Msg) /\ down[c] # <<>>
    BY DEF PeerTakes, QueueInv
<1>2. Tail(down[c]) \in Seq(Msg) /\ Shrinks(Tail(down[c]), down[c])
    BY <1>1, HeadFacts
<1>3. \A d \in Connection : Shrinks(down[d], down[d])
    BY DEF Shrinks
<1> QED  BY <1>1, <1>2, <1>3 DEF DownQuiet

(* The relay takes a message from a connection. *)
LEMMA RelayTakesQuiet ==
    ASSUME QueueInv, NEW c \in Connection, NEW types, RelayTakes(c, types)
    PROVE  /\ up' \in [Connection -> Seq(Msg)] /\ UpQuiet
           /\ \A d \in Connection : up[d] = <<>> => up'[d] = <<>>
           /\ serverState[c] \in {"open", "closing"}
<1>1. /\ up' = [up EXCEPT ![c] = Tail(@)] /\ up \in [Connection -> Seq(Msg)]
      /\ up[c] \in Seq(Msg) /\ up[c] # <<>> /\ serverState[c] \in {"open", "closing"}
    BY DEF RelayTakes, QueueInv
<1>2. Tail(up[c]) \in Seq(Msg) /\ Shrinks(Tail(up[c]), up[c])
    BY <1>1, HeadFacts
<1>3. \A d \in Connection : Shrinks(up[d], up[d])
    BY DEF Shrinks
<1> QED  BY <1>1, <1>2, <1>3 DEF UpQuiet

(* Messages without a chunk for some connections.                          *)
IsReply(out) ==
    out \in [Connection -> Seq(Msg)] /\ \A c \in Connection : NoData(out[c])

(* One message of the relay is a reply. *)
LEMMA ToIsReply ==
    ASSUME NEW c, NEW type \in {"TERMINATED", "RECONNECT_OK", "ERROR", "CLOSE"}
    PROVE  IsReply(To(c, type))
BY MessageFacts, OneMessage, NoMessage DEF To, IsReply

(* Replies, one after the other, are a reply. *)
LEMMA ThenIsReply ==
    ASSUME NEW out, NEW more, IsReply(out), IsReply(more)
    PROVE  IsReply(Then(out, more))
BY MoreMessages DEF Then, IsReply

(* What is sent arrives on the connections that are open.                  *)
LEMMA Arrives ==
    ASSUME NEW out, RelaySends(out)
    PROVE  \A d \in Connection :
               \/ down'[d] = down[d]
               \/ serverState[d] = "open" /\ down'[d] = down[d] \o out[d]
<1> SUFFICES ASSUME NEW d \in Connection
             PROVE  \/ down'[d] = down[d]
                    \/ serverState[d] = "open" /\ down'[d] = down[d] \o out[d]
    OBVIOUS
<1>1. down'[d] = IF serverState[d] = "open" /\ d \notin cut THEN down[d] \o out[d] ELSE down[d]
    BY DEF RelaySends
<1> QED  BY <1>1

(* The relay sends messages without a chunk.                               *)
LEMMA RelaySendsQuiet ==
    ASSUME QueueInv, NEW out, IsReply(out), RelaySends(out)
    PROVE  /\ down' \in [Connection -> Seq(Msg)] /\ DownQuiet
           /\ \A d \in Connection : serverState[d] # "open" => down'[d] = down[d]
<1>1. /\ down' = [c \in Connection |-> IF serverState[c] = "open" /\ c \notin cut
                                      THEN down[c] \o out[c] ELSE down[c]]
      /\ \A c \in Connection : down[c] \in Seq(Msg) /\ out[c] \in Seq(Msg) /\ NoData(out[c])
    BY DEF RelaySends, QueueInv, IsReply
<1>2. \A c \in Connection : /\ Shrinks(down[c], down[c])
                            /\ Shrinks(down[c] \o out[c], down[c])
                            /\ down[c] \o out[c] \in Seq(Msg)
    BY <1>1, ConcatShrinks
<1> QED  BY <1>1, <1>2 DEF DownQuiet

-----------------------------------------------------------------------------
(* Steps in which nobody makes, forwards or hears a chunk.                 *)

(* What the peers have made and heard stays as it is.                      *)
Silent == UNCHANGED <<typed, printed, shellRead, shown, sendCounter, recvCounter, refused>>

(* A silent step keeps the invariant if no connection gets to send again   *)
(* and none with chunks gets to receive.                                   *)
LEMMA SilentKeeps ==
    ASSUME IInv, ReadyInv', QueueInv', SeatInv', TerminalInv', UpQuiet, DownQuiet, Silent,
           \A p \in Peer : Sending(p)' \subseteq Sending(p),
           \A p \in Peer : \A c \in Receiving(p)' : c \in Receiving(p) \/ NoData(down'[c])
    PROVE  IInv'
<1>1. ASSUME NEW p \in Peer
      PROVE  QuietStep(p)
    <2>1. Heard(p)' = Heard(p) /\ Made(p)' = Made(p)
        BY DEF Silent, Heard, Made
    <2> QED  BY <2>1 DEF QuietStep, UpQuiet, DownQuiet, Silent
<1>2. PathInv("guest")' /\ PathInv("host")'
    BY <1>1, QuietKeeps DEF IInv, Peer
<1>3. ~refused'
    BY DEF IInv, Silent
<1> QED  BY <1>2, <1>3 DEF IInv

(* A connection changes, and the ones before it were closed.               *)
LEMMA ReadyStep ==
    ASSUME ReadyInv, NEW c \in Connection,
           NEW v \in {"absent", "connecting", "open", "closing", "closed"},
           readyState' = [readyState EXCEPT ![c] = v],
           \/ readyState[c] # "absent"
           \/ \A d \in Connection : Owner(d) = Owner(c) /\ d[2] < c[2] => readyState[d] = "closed",
           readyState[c] = "closed" => v = "closed"
    PROVE  ReadyInv'
<1>1. \A d \in Connection : readyState'[d] = IF d = c THEN v ELSE readyState[d]
    BY DEF ReadyInv
<1>2. ASSUME NEW d \in Connection, NEW e \in Connection, Owner(d) = Owner(e), d[2] < e[2],
             readyState'[d] # "closed"
      PROVE  readyState'[e] = "absent"
    <2>0. d[2] \in Nat /\ e[2] \in Nat
        BY DEF Connection
    <2>1. CASE e = c
        <3>1. d # c /\ readyState[d] # "closed"
            BY <1>1, <1>2, <2>0, <2>1
        <3> QED  BY <1>2, <2>1, <3>1 DEF ReadyInv
    <2>2. CASE e # c
        <3>1. readyState[d] # "closed"
            BY <1>1, <1>2
        <3> QED  BY <1>1, <1>2, <2>2, <3>1 DEF ReadyInv
    <2> QED  BY <2>1, <2>2
<1>3. readyState' \in [Connection -> {"absent", "connecting", "open", "closing", "closed"}]
    BY DEF ReadyInv
<1> QED  BY <1>2, <1>3 DEF ReadyInv

(* While the seats stay as they are the same connections send.             *)
LEMMA SameSeats ==
    ASSUME SeatInv, UNCHANGED <<state, seat, roomsBySocket>>
    PROVE  SeatInv' /\ \A p \in Peer : Sending(p)' = Sending(p)
BY DEF SeatInv, Sending

(* While nothing is said the terminals stay as they are. *)
LEMMA SameTerminal ==
    ASSUME TerminalInv, Silent, UNCHANGED <<child, childSocket, currentSocket>>
    PROVE  TerminalInv'
BY DEF TerminalInv, Silent

-----------------------------------------------------------------------------
(* The peers.                                                              *)

(* A step of a peer in which nobody opens a connection.                    *)
PeerStep(c) ==
    /\ up' \in [Connection -> Seq(Msg)] /\ UpQuiet
    /\ \A d \in Connection : readyState[d] # "open" => up'[d] = up[d]
    /\ down' \in [Connection -> Seq(Msg)] /\ DownQuiet
    /\ \A d \in Connection : down[d] = <<>> => down'[d] = <<>>
    /\ \/ readyState' = readyState
       \/ \E v \in {"closing", "closed"} :
              /\ readyState[c] \in {"open", "closing"}
              /\ readyState' = [readyState EXCEPT ![c] = v]
    /\ UNCHANGED <<serverState, state, seat, roomsBySocket, currentSocket>> /\ Silent
    /\ \/ UNCHANGED <<child, childSocket>>
       \/ child # "none" /\ child' \in {"killed", "exited"} /\ UNCHANGED childSocket
       \/ child' = "running" /\ childSocket' = c /\ Owner(c) = "host"

(* Such a step keeps the invariant. *)
LEMMA PeerKeeps ==
    ASSUME IInv, NEW c \in Connection, PeerStep(c)
    PROVE  IInv'
<1>1. ReadyInv'
    <2>1. CASE readyState' = readyState
        BY <2>1 DEF IInv, ReadyInv
    <2>2. ASSUME NEW v \in {"closing", "closed"}, readyState[c] \in {"open", "closing"},
                 readyState' = [readyState EXCEPT ![c] = v]
          PROVE  ReadyInv'
        BY <2>2, ReadyStep DEF IInv
    <2> QED  BY <2>1, <2>2 DEF PeerStep
<1>2. \A d \in Connection :
          /\ readyState'[d] \in {"open", "closing"} => readyState[d] \in {"open", "closing"}
          /\ readyState'[d] \in {"absent", "connecting"} => readyState'[d] = readyState[d]
    BY DEF PeerStep, IInv, ReadyInv
<1>3. QueueInv'
    BY <1>2 DEF PeerStep, IInv, QueueInv
<1>4. SeatInv' /\ \A p \in Peer : Sending(p)' = Sending(p)
    BY SameSeats DEF PeerStep, IInv
<1>5. TerminalInv'
    BY DEF PeerStep, IInv, TerminalInv, Silent
<1>6. \A p \in Peer : Receiving(p)' \subseteq Receiving(p)
    BY <1>2 DEF Receiving
<1> QED  BY <1>1, <1>3, <1>4, <1>5, <1>6, SilentKeeps DEF PeerStep

(* A peer sends and closes.                                                *)
LEMMA CloseQuiet ==
    ASSUME QueueInv, ReadyInv, NEW c \in Connection, NEW out \in Seq(Msg), NoData(out),
           PeerSendsAndCloses(c, out)
    PROVE  /\ up' \in [Connection -> Seq(Msg)] /\ UpQuiet
           /\ \A d \in Connection : readyState[d] # "open" => up'[d] = up[d]
           /\ \/ readyState' = readyState
              \/ /\ readyState[c] \in {"open", "closing"}
                 /\ readyState' = [readyState EXCEPT ![c] = "closing"]
<1>1. /\ Append(out, Message("CLOSE")) \in Seq(Msg) /\ NoData(Append(out, Message("CLOSE")))
      /\ PeerSends(c, Append(out, Message("CLOSE")))
    BY MessageFacts, AppendMessage DEF PeerSendsAndCloses
<1>2. \/ readyState' = readyState
      \/ /\ readyState[c] \in {"open", "closing"}
         /\ readyState' = [readyState EXCEPT ![c] = "closing"]
    BY DEF PeerSendsAndCloses, ReadyInv
<1> QED  BY <1>1, <1>2, PeerSendsQuiet

(* What stays in the queues when nothing is sent.                          *)
LEMMA SameUp ==
    ASSUME QueueInv, up' = up
    PROVE  /\ up' \in [Connection -> Seq(Msg)] /\ UpQuiet
           /\ \A d \in Connection : readyState[d] # "open" => up'[d] = up[d]
BY DEF QueueInv, UpQuiet, Shrinks

(* The same of the queues of the relay. *)
LEMMA SameDown ==
    ASSUME QueueInv, down' = down
    PROVE  /\ down' \in [Connection -> Seq(Msg)] /\ DownQuiet
           /\ \A d \in Connection : down[d] = <<>> => down'[d] = <<>>
BY DEF QueueInv, DownQuiet, Shrinks

(* Closing a connection, whoever closes it.                                *)
LEMMA ClosedKeeps ==
    ASSUME IInv, NEW c \in Connection, PeerReadsClose(c) \/ PeerSeesCut(c)
    PROVE  IInv'
<1>1. CASE PeerReadsClose(c)
    <2>1. /\ up' \in [Connection -> Seq(Msg)] /\ UpQuiet
          /\ \A d \in Connection : readyState[d] # "open" => up'[d] = up[d]
        BY <1>1, MessageFacts, OneMessage, PeerSendsQuiet DEF PeerReadsClose, IInv
    <2>2. /\ down' \in [Connection -> Seq(Msg)] /\ DownQuiet
          /\ \A d \in Connection : down[d] = <<>> => down'[d] = <<>>
        BY <1>1, PeerTakesQuiet DEF PeerReadsClose, IInv
    <2>3. PeerStep(c)
        BY <1>1, <2>1, <2>2
        DEF PeerReadsClose, PeerTakes, SocketClosed, PeerStep, Silent, terminalVars, roomVars
    <2> QED  BY <2>3, PeerKeeps
<1>2. CASE PeerSeesCut(c)
    <2>1. /\ down' \in [Connection -> Seq(Msg)] /\ DownQuiet
          /\ \A d \in Connection : down[d] = <<>> => down'[d] = <<>>
        <3>1. down' = [down EXCEPT ![c] = <<>>] /\ down \in [Connection -> Seq(Msg)]
            BY <1>2 DEF PeerSeesCut, IInv, QueueInv
        <3> QED  BY <3>1, NoMessage DEF DownQuiet, Shrinks
    <2>2. PeerStep(c)
        BY <1>2, <2>1, SameUp
        DEF PeerSeesCut, SocketClosed, PeerStep, Silent, terminalVars, roomVars, IInv
    <2> QED  BY <2>2, PeerKeeps
<1> QED  BY <1>1, <1>2

(* The handlers of both peers for messages without a chunk.                *)
LEMMA HandlersKeep ==
    ASSUME IInv, NEW c \in Connection,
           \/ SessionReady(c) \/ Terminated(c) \/ ReconnectOk(c) \/ Error(c)
           \/ HostKeyExchange(c) \/ HostPtyResize(c) \/ GuestKeyExchange(c)
    PROVE  IInv'
<1>1. ASSUME NEW type, PeerTakes(c, type)
      PROVE  /\ down' \in [Connection -> Seq(Msg)] /\ DownQuiet
             /\ \A d \in Connection : down[d] = <<>> => down'[d] = <<>>
    BY <1>1, PeerTakesQuiet DEF IInv
<1>2. ASSUME NEW out \in Seq(Msg), NoData(out), PeerSends(c, out)
      PROVE  /\ up' \in [Connection -> Seq(Msg)] /\ UpQuiet
             /\ \A d \in Connection : readyState[d] # "open" => up'[d] = up[d]
    BY <1>2, PeerSendsQuiet DEF IInv
<1>3. /\ <<Message("PTY_RESIZE")>> \in Seq(Msg) /\ NoData(<<Message("PTY_RESIZE")>>)
      /\ <<Message("KEY_EXCHANGE")>> \in Seq(Msg) /\ NoData(<<Message("KEY_EXCHANGE")>>)
      /\ <<>> \in Seq(Msg) /\ NoData(<<>>)
    BY MessageFacts, OneMessage, NoMessage
<1>4. CASE SessionReady(c)
    <2> DEFINE size == IF Owner(c) = "guest" THEN <<Message("PTY_RESIZE")>> ELSE <<>>
               out == <<Message("KEY_EXCHANGE")>> \o size
    <2>1. size \in Seq(Msg) /\ NoData(size)
        BY <1>3
    <2> HIDE DEF size
    <2>2. out \in Seq(Msg) /\ NoData(out)
        BY <1>3, <2>1, MoreMessages
    <2>3. PeerSends(c, out) /\ PeerTakes(c, "SESSION_READY")
        BY <1>4 DEF SessionReady, size
    <2> HIDE DEF out
    <2>4. PeerStep(c)
        BY <1>1, <1>2, <1>4, <2>2, <2>3
        DEF SessionReady, OnMessage, PeerStep, Silent, terminalVars, roomVars
    <2> QED  BY <2>4, PeerKeeps
<1>5. CASE Terminated(c)
    <2>1. /\ up' \in [Connection -> Seq(Msg)] /\ UpQuiet
          /\ \A d \in Connection : readyState[d] # "open" => up'[d] = up[d]
          /\ \/ readyState' = readyState
             \/ /\ readyState[c] \in {"open", "closing"}
                /\ readyState' = [readyState EXCEPT ![c] = "closing"]
        BY <1>3, <1>5, CloseQuiet DEF Terminated, IInv
    <2>2. PICK type : PeerTakes(c, type)
        BY <1>5 DEF Terminated
    <2>3. PeerStep(c)
        BY <1>1, <1>5, <2>1, <2>2 DEF Terminated, OnMessage, Killed, PeerStep, Silent, roomVars
    <2> QED  BY <2>3, PeerKeeps
<1>6. CASE ReconnectOk(c)
    <2> DEFINE out == IF Owner(c) = "guest" THEN <<Message("PTY_RESIZE")>> ELSE <<>>
    <2>1. out \in Seq(Msg) /\ NoData(out) /\ PeerSends(c, out) /\ PeerTakes(c, "RECONNECT_OK")
        BY <1>3, <1>6 DEF ReconnectOk
    <2> HIDE DEF out
    <2>2. PeerStep(c)
        BY <1>1, <1>2, <1>6, <2>1
        DEF ReconnectOk, OnMessage, PeerStep, Silent, terminalVars, roomVars
    <2> QED  BY <2>2, PeerKeeps
<1>7. CASE Error(c)
    <2>1. /\ up' \in [Connection -> Seq(Msg)] /\ UpQuiet
          /\ \A d \in Connection : readyState[d] # "open" => up'[d] = up[d]
          /\ \/ readyState' = readyState
             \/ /\ readyState[c] \in {"open", "closing"}
                /\ readyState' = [readyState EXCEPT ![c] = "closing"]
        BY <1>3, <1>7, CloseQuiet DEF Error, IInv
    <2>2. PeerStep(c)
        BY <1>1, <1>7, <2>1 DEF Error, OnMessage, PeerStep, Silent, terminalVars, roomVars
    <2> QED  BY <2>2, PeerKeeps
<1>8. CASE HostKeyExchange(c) \/ GuestKeyExchange(c)
    <2>1. PeerStep(c)
        BY <1>1, <1>8, SameUp
        DEF HostKeyExchange, GuestKeyExchange, OnMessage, PeerStep, Silent, roomVars, IInv
    <2> QED  BY <2>1, PeerKeeps
<1>9. CASE HostPtyResize(c)
    <2>1. PeerStep(c)
        BY <1>1, <1>9, SameUp
        DEF HostPtyResize, OnMessage, PeerStep, Silent, terminalVars, roomVars, IInv
    <2> QED  BY <2>1, PeerKeeps
<1> QED  BY <1>4, <1>5, <1>6, <1>7, <1>8, <1>9

(* The shell exits; the guest leaves.                                      *)
LEMMA EndingsKeep ==
    ASSUME IInv, ShellExits \/ Detach
    PROVE  IInv'
<1>1. CASE ShellExits
    <2>1. childSocket \in Connection /\ child # "none"
        BY <1>1 DEF ShellExits, IInv, TerminalInv
    <2>2. CASE PeerSendsAndCloses(childSocket, <<Message("PTY_EXIT")>>)
        <3>1. /\ up' \in [Connection -> Seq(Msg)] /\ UpQuiet
              /\ \A d \in Connection : readyState[d] # "open" => up'[d] = up[d]
              /\ \/ readyState' = readyState
                 \/ /\ readyState[childSocket] \in {"open", "closing"}
                    /\ readyState' = [readyState EXCEPT ![childSocket] = "closing"]
            BY <2>1, <2>2, MessageFacts, OneMessage, CloseQuiet DEF IInv
        <3>2. PeerStep(childSocket)
            BY <1>1, <2>1, <3>1, SameDown DEF ShellExits, PeerStep, Silent, roomVars, IInv
        <3> QED  BY <2>1, <3>2, PeerKeeps
    <2>3. CASE UNCHANGED <<isClosed, up, readyState>>
        <3>1. PeerStep(childSocket)
            BY <1>1, <2>1, <2>3, SameUp, SameDown
            DEF ShellExits, PeerStep, Silent, roomVars, IInv
        <3> QED  BY <2>1, <3>1, PeerKeeps
    <2> QED  BY <1>1, <2>2, <2>3 DEF ShellExits
<1>2. CASE Detach
    <2>1. currentSocket \in Connection
        BY DEF IInv, TerminalInv
    <2>2. /\ up' \in [Connection -> Seq(Msg)] /\ UpQuiet
          /\ \A d \in Connection : readyState[d] # "open" => up'[d] = up[d]
          /\ \/ readyState' = readyState
             \/ /\ readyState[currentSocket] \in {"open", "closing"}
                /\ readyState' = [readyState EXCEPT ![currentSocket] = "closing"]
        BY <1>2, <2>1, MessageFacts, OneMessage, CloseQuiet DEF Detach, IInv
    <2>3. PeerStep(currentSocket)
        BY <1>2, <2>1, <2>2, SameDown DEF Detach, PeerStep, Silent, terminalVars, roomVars, IInv
    <2> QED  BY <2>1, <2>3, PeerKeeps
<1> QED  BY <1>1, <1>2

-----------------------------------------------------------------------------
(* Connections.                                                            *)

(* A connection is lost: nobody knows yet. *)
LEMMA CutKeeps ==
    ASSUME IInv, NEW c \in Connection, Cut(c)
    PROVE  IInv'
<1>1. PeerStep(c)
    BY SameUp, SameDown DEF Cut, PeerStep, Silent, terminalVars, roomVars, IInv
<1> QED  BY <1>1, PeerKeeps

(* A connection that cannot be made was never used.                        *)
LEMMA ConnectFailsKeeps ==
    ASSUME IInv, NEW c \in Connection, ConnectFails(c)
    PROVE  IInv'
<1>1. /\ readyState[c] = "connecting" /\ readyState' = [readyState EXCEPT ![c] = "absent"]
      /\ UNCHANGED <<serverState, up, down, currentSocket, childSocket, roomVars>> /\ Silent
    BY DEF ConnectFails, Silent
<1>2. ReadyInv'
    BY <1>1, ReadyStep DEF IInv
<1>3. \A d \in Connection : readyState'[d] = IF d = c THEN "absent" ELSE readyState[d]
    BY <1>1 DEF IInv, ReadyInv
<1>4. QueueInv'
    BY <1>1, <1>3 DEF IInv, QueueInv
<1>5. SeatInv' /\ \A p \in Peer : Sending(p)' = Sending(p)
    BY <1>1, SameSeats DEF IInv, roomVars
<1>6. TerminalInv'
    <2>1. child' = child \/ (child # "none" /\ child' = "killed")
        BY DEF ConnectFails, Killed
    <2> QED  BY <1>1, <2>1 DEF IInv, TerminalInv, Silent
<1>7. \A p \in Peer : Receiving(p)' \subseteq Receiving(p)
    BY <1>3 DEF Receiving
<1> QED  BY <1>1, <1>2, <1>4, <1>5, <1>6, <1>7, SameUp, SameDown, SilentKeeps DEF IInv

(* The next connection is made when the ones before it are closed.         *)
LEMMA TimerFiresKeeps ==
    ASSUME IInv, OneConnection', NEW p \in Peer, NEW n \in Attempt, TimerFires(p, n)
    PROVE  IInv'
<1>1. CASE UNCHANGED readyState
    <2>1. PeerStep(First(p))
        BY <1>1, SameUp, SameDown
        DEF TimerFires, PeerStep, Silent, terminalVars, roomVars, IInv
    <2>2. First(p) \in Connection
        BY SessionAssumption DEF First, Connection
    <2> QED  BY <2>1, <2>2, PeerKeeps
<1>2. ASSUME NEW i \in 1 .. MaxConnections, readyState[<<p, i>>] = "absent",
             \A j \in 1 .. i - 1 : readyState[<<p, j>>] # "absent",
             readyState' = [readyState EXCEPT ![<<p, i>>] = "connecting"]
      PROVE  IInv'
    <2> DEFINE c == <<p, i>>
    <2>1. c \in Connection /\ Owner(c) = p /\ c[2] = i
        BY DEF Connection, Owner
    <2>2. \A d \in Connection : readyState'[d] = IF d = c THEN "connecting" ELSE readyState[d]
        BY <1>2, <2>1 DEF IInv, ReadyInv
    <2>3. ASSUME NEW d \in Connection, Owner(d) = p, d[2] < i
          PROVE  readyState[d] = "closed"
        <3>1. d = <<p, d[2]>> /\ d[2] \in 1 .. i - 1 /\ d # c
            BY <2>3 DEF Connection, Owner
        <3>2. readyState[d] # "absent" /\ readyState'[d] = readyState[d]
            BY <1>2, <2>2, <3>1
        <3>3. readyState'[d] \notin Alive
            <4>1. readyState'[c] \in Alive
                BY <2>1, <2>2 DEF Alive
            <4> QED  BY <2>1, <2>3, <3>1, <4>1 DEF OneConnection
        <3> QED  BY <3>2, <3>3 DEF IInv, ReadyInv, Alive
    <2>4. UNCHANGED <<serverState, up, down, terminalVars, roomVars>> /\ Silent
        BY DEF TimerFires, Silent, terminalVars
    <2>5. ReadyInv'
        BY <1>2, <2>1, <2>3, ReadyStep DEF IInv
    <2>6. QueueInv'
        BY <1>2, <2>2, <2>4 DEF IInv, QueueInv
    <2>7. SeatInv' /\ \A q \in Peer : Sending(q)' = Sending(q)
        BY <2>4, SameSeats DEF IInv, roomVars
    <2>8. TerminalInv'
        BY <2>4, SameTerminal DEF IInv, terminalVars
    <2>9. \A q \in Peer : Receiving(q)' \subseteq Receiving(q)
        BY <2>2 DEF Receiving
    <2> QED  BY <2>4, <2>5, <2>6, <2>7, <2>8, <2>9, SameUp, SameDown, SilentKeeps DEF IInv
<1> QED  BY <1>1, <1>2 DEF TimerFires

(* A connection that opens has received nothing, and sends RECONNECT.      *)
LEMMA SocketOpensKeeps ==
    ASSUME IInv, NEW c \in Connection, SocketOpens(c)
    PROVE  IInv'
<1>1. /\ readyState[c] = "connecting" /\ readyState' = [readyState EXCEPT ![c] = "open"]
      /\ serverState' = [serverState EXCEPT ![c] = "open"]
      /\ up' = [up EXCEPT ![c] = <<Message("RECONNECT")>>]
      /\ currentSocket' = IF Owner(c) = "guest" THEN c ELSE currentSocket
      /\ UNCHANGED <<down, child, childSocket, roomVars>> /\ Silent
    BY DEF SocketOpens, Silent
<1>2. ReadyInv'
    BY <1>1, ReadyStep DEF IInv
<1>3. \A d \in Connection : readyState'[d] = IF d = c THEN "open" ELSE readyState[d]
    BY <1>1 DEF IInv, ReadyInv
<1>4. <<Message("RECONNECT")>> \in Seq(Msg) /\ NoData(<<Message("RECONNECT")>>)
    BY MessageFacts, OneMessage
<1>5. QueueInv' /\ UpQuiet
    <2>1. /\ up \in [Connection -> Seq(Msg)] /\ up' \in [Connection -> Seq(Msg)]
          /\ \A d \in Connection :
                 up'[d] = IF d = c THEN <<Message("RECONNECT")>> ELSE up[d]
        BY <1>1, <1>4 DEF IInv, QueueInv
    <2>2. UpQuiet
        BY <1>4, <2>1 DEF UpQuiet, Shrinks
    <2>3. /\ serverState' \in [Connection -> {"absent", "open", "closing", "closed"}]
          /\ \A d \in Connection \ {c} : serverState'[d] = serverState[d]
        BY <1>1 DEF IInv, QueueInv
    <2> QED  BY <1>1, <1>3, <2>1, <2>2, <2>3 DEF IInv, QueueInv
<1>6. SeatInv' /\ \A p \in Peer : Sending(p)' = Sending(p)
    BY <1>1, SameSeats DEF IInv, roomVars
<1>7. TerminalInv'
    BY <1>1 DEF IInv, TerminalInv, Silent
<1>8. NoData(down'[c])
    <2>1. down'[c] = <<>>
        BY <1>1 DEF IInv, QueueInv
    <2> QED  BY <2>1, NoMessage
<1>9. \A p \in Peer : \A d \in Receiving(p)' : d \in Receiving(p) \/ NoData(down'[d])
    BY <1>3, <1>8 DEF Receiving
<1> QED  BY <1>1, <1>2, <1>5, <1>6, <1>7, <1>9, SameDown, SilentKeeps DEF IInv

-----------------------------------------------------------------------------
(* The relay.                                                              *)

(* A step of the relay that forwards no chunk.                             *)
RelayStep ==
    /\ down' \in [Connection -> Seq(Msg)] /\ DownQuiet
    /\ \A d \in Connection : serverState[d] # "open" => down'[d] = down[d]
    /\ serverState' \in [Connection -> {"absent", "open", "closing", "closed"}]
    /\ \A d \in Connection : serverState[d] = "absent" => serverState'[d] = "absent"
    /\ SeatInv'
    /\ state' = "active" => state = "active"

(* Such a step keeps the invariant if it gives no seat to an earlier       *)
(* connection.                                                             *)
LEMMA RelayKeeps ==
    ASSUME IInv, SeatsAdvance, RelayStep, UpQuiet, up' \in [Connection -> Seq(Msg)],
           \A d \in Connection : up[d] = <<>> => up'[d] = <<>>,
           UNCHANGED <<readyState, terminalVars>>
    PROVE  IInv'
<1>1. ReadyInv' /\ TerminalInv' /\ Silent
    <2>1. Silent
        BY DEF Silent, terminalVars
    <2> QED  BY <2>1, SameTerminal DEF IInv, ReadyInv, terminalVars
<1>2. QueueInv'
    BY DEF IInv, QueueInv, RelayStep
<1>3. \A p \in Peer : Receiving(p)' = Receiving(p)
    BY DEF Receiving
<1>4. ASSUME NEW p \in Peer
      PROVE  Sending(p)' \subseteq Sending(p)
    <2> SUFFICES ASSUME NEW c \in Connection, Owner(c) = p, state' = "active", seat'[p][2] <= c[2]
                 PROVE  c \in Sending(p)
        BY DEF Sending
    <2>1. state = "active" /\ seat[p] \in Connection /\ seat'[p] \in Connection
        BY DEF RelayStep, SeatInv, IInv, Peer
    <2>2. seat[p][2] \in Nat /\ seat'[p][2] \in Nat /\ c[2] \in Nat
        BY <2>1 DEF Connection
    <2>3. seat[p][2] <= seat'[p][2]
        BY <2>1, <2>2 DEF SeatsAdvance
    <2> QED  BY <2>1, <2>2, <2>3 DEF Sending
<1> QED  BY <1>1, <1>2, <1>3, <1>4, SilentKeeps DEF RelayStep

(* Closing connections that the relay has accepted.                        *)
LEMMA ClosesFacts ==
    ASSUME QueueInv, NEW closed, NEW closing, RelayCloses(closed, closing),
           \A c \in closed : serverState[c] # "absent"
    PROVE  /\ serverState' \in [Connection -> {"absent", "open", "closing", "closed"}]
           /\ \A d \in Connection : serverState[d] = "absent" => serverState'[d] = "absent"
<1>1. /\ serverState' = [c \in Connection |->
                            IF c \in closed THEN "closed"
                            ELSE IF c \in closing /\ serverState[c] = "open" THEN "closing"
                            ELSE serverState[c]]
      /\ serverState \in [Connection -> {"absent", "open", "closing", "closed"}]
    BY DEF RelayCloses, QueueInv
<1>2. \A d \in Connection : serverState[d] = "absent" => d \notin closed
    OBVIOUS
<1> QED  BY <1>1, <1>2

(* cleanupRoom ends the session.                                           *)
LEMMA CleanupFacts ==
    ASSUME QueueInv, SeatInv, NEW c \in roomsBySocket, NEW closed, NEW reply, IsReply(reply),
           \A d \in closed : serverState[d] # "absent", CleanupRoom(c, closed, reply)
    PROVE  RelayStep
<1> DEFINE guest == IF c = seat["host"] THEN seat["guest"] ELSE None
           out == Then(Then(reply, To(PeerOf(c), "TERMINATED")), To(guest, "CLOSE"))
<1>1. IsReply(out) /\ RelaySends(out)
    BY ToIsReply, ThenIsReply DEF CleanupRoom
<1>2. RelayCloses(closed, {guest}) /\ state' = "ended"
    BY DEF CleanupRoom
<1>3. SeatInv'
    <2>1. /\ roomsBySocket' = roomsBySocket \ {c, guest}
          /\ c \in Connection /\ c = seat[Owner(c)] /\ Owner(c) \in Peer
        BY DEF CleanupRoom, SeatInv, Connection, Owner
    <2>2. CASE c = seat["host"]
        <3>1. seat' = seat
            BY <2>2 DEF CleanupRoom
        <3> QED  BY <1>2, <2>1, <3>1 DEF SeatInv
    <2>3. CASE c # seat["host"]
        <3>1. /\ c = seat["guest"] /\ seat' = [seat EXCEPT !["guest"] = None]
            BY <2>1, <2>3 DEF CleanupRoom, Peer
        <3>2. /\ seat'["host"] = seat["host"] /\ seat'["guest"] = None
              /\ seat' \in [Peer -> Connection \cup {None}]
            BY <3>1 DEF SeatInv, Peer
        <3>3. ASSUME NEW d \in roomsBySocket'  PROVE d = seat'[Owner(d)]
            <4>1. d \in Connection /\ d # c /\ d = seat[Owner(d)] /\ Owner(d) \in Peer
                BY <2>1, <3>3 DEF SeatInv, Connection, Owner
            <4>2. Owner(d) = "host"
                BY <3>1, <4>1 DEF Peer
            <4> QED  BY <3>2, <4>1, <4>2
        <3> QED  BY <1>2, <2>1, <3>2, <3>3 DEF SeatInv
    <2> QED  BY <2>2, <2>3
<1> HIDE DEF out, guest
<1> QED  BY <1>1, <1>2, <1>3, RelaySendsQuiet, ClosesFacts DEF RelayStep

(* The relay notices that a connection is closed.                          *)
LEMMA DisconnectFacts ==
    ASSUME QueueInv, SeatInv, NEW c \in Connection, serverState[c] \in {"open", "closing"},
           NEW reply, IsReply(reply), HandleDisconnect(c, reply)
    PROVE  RelayStep
<1>1. \A d \in {c} : serverState[d] # "absent"
    OBVIOUS
<1>2. CASE c \notin roomsBySocket /\ RelaySends(reply) /\ RelayCloses({c}, {}) /\ UNCHANGED roomVars
    BY <1>1, <1>2, RelaySendsQuiet, ClosesFacts, SameSeats DEF RelayStep, roomVars
<1>3. CASE /\ RelaySends(Then(reply, To(PeerOf(c), "TERMINATED")))
           /\ RelayCloses({c}, {})
           /\ UNCHANGED <<state, seat, roomsBySocket>>
    <2> DEFINE out == Then(reply, To(PeerOf(c), "TERMINATED"))
    <2>1. IsReply(out) /\ RelaySends(out)
        BY <1>3, ToIsReply, ThenIsReply
    <2> HIDE DEF out
    <2> QED  BY <1>1, <1>3, <2>1, RelaySendsQuiet, ClosesFacts, SameSeats DEF RelayStep
<1>4. CASE c \in roomsBySocket /\ CleanupRoom(c, {c}, reply)
    BY <1>1, <1>4, CleanupFacts
<1> QED  BY <1>2, <1>3, <1>4 DEF HandleDisconnect

(* The relay learns that a connection is closed, or waits no more for its  *)
(* successor.                                                              *)
LEMMA LossKeeps ==
    ASSUME IInv, SeatsAdvance, NEW c \in Connection,
           RelayReadsClose(c) \/ RelaySeesCut(c) \/ GraceTimerFires(c)
    PROVE  IInv'
<1>1. CASE RelayReadsClose(c)
    <2>1. /\ UpQuiet /\ up' \in [Connection -> Seq(Msg)]
          /\ \A d \in Connection : up[d] = <<>> => up'[d] = <<>>
          /\ serverState[c] \in {"open", "closing"}
        BY <1>1, RelayTakesQuiet DEF RelayReadsClose, IInv
    <2>2. RelayStep
        BY <1>1, <2>1, ToIsReply, DisconnectFacts DEF RelayReadsClose, IInv
    <2> QED  BY <1>1, <2>1, <2>2, RelayKeeps DEF RelayReadsClose
<1>2. CASE RelaySeesCut(c)
    <2>1. up' = [up EXCEPT ![c] = <<>>] /\ up \in [Connection -> Seq(Msg)]
        BY <1>2 DEF RelaySeesCut, IInv, QueueInv
    <2>2. /\ UpQuiet /\ up' \in [Connection -> Seq(Msg)]
          /\ \A d \in Connection : up[d] = <<>> => up'[d] = <<>>
        BY <2>1, NoMessage DEF UpQuiet, Shrinks
    <2>3. RelayStep
        BY <1>2, ToIsReply, DisconnectFacts DEF RelaySeesCut, NoReply, IInv
    <2> QED  BY <1>2, <2>2, <2>3, RelayKeeps DEF RelaySeesCut
<1>3. CASE GraceTimerFires(c)
    <2>1. /\ UpQuiet /\ up' \in [Connection -> Seq(Msg)]
          /\ \A d \in Connection : up[d] = <<>> => up'[d] = <<>>
        BY <1>3, SameUp DEF GraceTimerFires, IInv
    <2>2. CASE c \in roomsBySocket /\ CleanupRoom(c, {}, NoReply)
        <3>1. IsReply(NoReply)
            BY ToIsReply DEF NoReply
        <3>2. RelayStep
            BY <2>2, <3>1, CleanupFacts DEF IInv
        <3> QED  BY <1>3, <2>1, <3>2, RelayKeeps DEF GraceTimerFires
    <2>3. CASE UNCHANGED <<down, inbox, serverState, state, seat, roomsBySocket>>
        <3>1. RelayStep
            BY <2>3, SameDown, SameSeats DEF RelayStep, IInv, QueueInv
        <3> QED  BY <1>3, <2>1, <3>1, RelayKeeps DEF GraceTimerFires
    <2> QED  BY <1>3, <2>2, <2>3 DEF GraceTimerFires
<1> QED  BY <1>1, <1>2, <1>3

(* A peer is back.                                                         *)
LEMMA ReconnectKeeps ==
    ASSUME IInv, SeatsAdvance, NEW c \in Connection, HandleReconnect(c)
    PROVE  IInv'
<1>1. /\ UpQuiet /\ up' \in [Connection -> Seq(Msg)]
      /\ \A d \in Connection : up[d] = <<>> => up'[d] = <<>>
    BY RelayTakesQuiet DEF HandleReconnect, IInv
<1>2. CASE state = "active" /\ TakeSeat(c) /\ RelaySends(To(c, "RECONNECT_OK"))
           /\ UNCHANGED <<serverState, state>>
    <2>1. SeatInv'
        <3>1. /\ Owner(c) \in Peer /\ seat' = [seat EXCEPT ![Owner(c)] = c]
              /\ roomsBySocket' = (roomsBySocket \ {seat[Owner(c)]}) \cup {c}
            BY <1>2 DEF TakeSeat, Owner, Connection
        <3>2. \A p \in Peer : seat'[p] = IF p = Owner(c) THEN c ELSE seat[p]
            BY <3>1 DEF IInv, SeatInv
        <3>3. \A d \in roomsBySocket' : d = seat'[Owner(d)] /\ d \in Connection
            BY <3>1, <3>2 DEF IInv, SeatInv, Owner, Connection
        <3>4. seat' \in [Peer -> Connection \cup {None}]
            BY <3>1 DEF IInv, SeatInv
        <3> QED  BY <1>2, <3>2, <3>3, <3>4 DEF IInv, SeatInv, Peer
    <2>2. RelayStep
        BY <1>2, <2>1, ToIsReply, RelaySendsQuiet DEF RelayStep, IInv, QueueInv
    <2> QED  BY <1>1, <2>2, RelayKeeps DEF HandleReconnect
<1>3. CASE /\ RelaySends(Then(To(c, "ERROR"), To(c, "CLOSE")))
           /\ RelayCloses({}, {c})
           /\ UNCHANGED roomVars
    <2> DEFINE out == Then(To(c, "ERROR"), To(c, "CLOSE"))
    <2>1. IsReply(out) /\ RelaySends(out)
        BY <1>3, ToIsReply, ThenIsReply
    <2> HIDE DEF out
    <2>2. \A d \in {} : serverState[d] # "absent"
        OBVIOUS
    <2>3. RelayStep
        BY <1>3, <2>1, <2>2, RelaySendsQuiet, ClosesFacts, SameSeats DEF RelayStep, roomVars, IInv
    <2> QED  BY <1>1, <2>3, RelayKeeps DEF HandleReconnect
<1> QED  BY <1>2, <1>3 DEF HandleReconnect

(* What the relay forwards it forwards from the seat of one peer to that   *)
(* of the other.                                                           *)
LEMMA ForwardKeeps ==
    ASSUME IInv, SeatsAdvance, NEW c \in Connection, ForwardToPeer(c)
    PROVE  IInv'
<1> DEFINE m == Head(up[c])
           p == Owner(c)
           known == c \in roomsBySocket /\ state = "active"
           out == IF known THEN [d \in Connection |-> IF d = PeerOf(c) THEN <<m>> ELSE <<>>]
                  ELSE To(c, "ERROR")
<1>1. /\ UpQuiet /\ up' \in [Connection -> Seq(Msg)]
      /\ \A d \in Connection : up[d] = <<>> => up'[d] = <<>>
    BY RelayTakesQuiet DEF ForwardToPeer, IInv
<1>2. /\ up' = [up EXCEPT ![c] = Tail(@)] /\ up[c] # <<>> /\ RelaySends(out)
      /\ UNCHANGED <<readyState, serverState, cut, failures, linkVars, terminalVars, roomVars>>
    BY DEF ForwardToPeer, RelayTakes
<1>3. p \in Peer /\ m \in Msg
    BY <1>2, HeadFacts DEF IInv, QueueInv, Connection, Owner
<1>4. CASE known /\ IsData(m)
    <2>1. c = seat[p] /\ PeerOf(c) = seat[Other(p)]
        BY <1>4 DEF IInv, SeatInv, PeerOf, Other, Owner, Connection
    <2>2. \A d \in Connection :
              \/ down'[d] = down[d]
              \/ /\ d = seat[Other(p)] /\ down'[d] = down[d] \o <<m>>
                 /\ serverState[d] = "open"
        <3>1. \A d \in Connection : down[d] \in Seq(Msg) /\ down[d] \o <<>> = down[d]
            BY DEF IInv, QueueInv
        <3>2. \A d \in Connection : out[d] = IF d = seat[Other(p)] THEN <<m>> ELSE <<>>
            BY <1>4, <2>1
        <3> HIDE DEF out, m, p
        <3>3. \A d \in Connection : \/ down'[d] = down[d]
                                    \/ serverState[d] = "open" /\ down'[d] = down[d] \o out[d]
            BY <1>2, Arrives
        <3> QED  BY <3>1, <3>2, <3>3
    <2>3. QueueInv'
        <3>1. \A d \in Connection : down'[d] \in Seq(Msg)
            <4> HIDE DEF m
            <4>1. \A d \in Connection : down[d] \in Seq(Msg) /\ down[d] \o <<m>> \in Seq(Msg)
                BY <1>3, AddFacts DEF IInv, QueueInv
            <4> QED  BY <2>2, <4>1
        <3>2. down' = [d \in Connection |-> down'[d]]
            BY <1>2 DEF RelaySends
        <3> HIDE DEF m, p, known, out
        <3>3. down' \in [Connection -> Seq(Msg)]
            BY <3>1, <3>2
        <3>4. \A d \in Connection : serverState[d] = "absent" => down'[d] = down[d]
            BY <2>2
        <3> QED  BY <1>1, <1>2, <3>3, <3>4 DEF IInv, QueueInv
    <2>4. UNCHANGED <<state, seat, roomsBySocket, typed, printed, shellRead, shown, sendCounter,
                      recvCounter, refused, child, childSocket, currentSocket>>
        BY <1>2 DEF terminalVars, roomVars
    <2>5. MoveStep(p, c)
        <3>1. c \in Sending(p)
            BY <1>4, <2>1 DEF Sending, Connection
        <3> QED  BY <1>2, <2>2, <2>4, <3>1 DEF MoveStep, Heard, Made
    <2>6. PathInv(p)'
        BY <1>3, <2>1, <2>3, <2>5, MoveKeeps DEF IInv, Peer
    <2>7. PathInv(Other(p))'
        <3>1. Other(p) \in Peer /\ Other(Other(p)) = p /\ Other(p) # p
            BY <1>3 DEF Peer, Other
        <3>2. Owner(seat[Other(p)]) = Other(p)
            BY <1>3, <1>4 DEF IInv, SeatInv, Peer, Other
        <3>3. \A d \in Connection : Owner(d) = p => down'[d] = down[d]
            BY <2>2, <3>1, <3>2
        <3>4. QuietStep(Other(p))
            BY <1>1, <1>2, <2>4, <3>1, <3>3
            DEF QuietStep, UpQuiet, Sending, Receiving, Heard, Made, Shrinks
        <3> QED  BY <2>3, <3>1, <3>4, QuietKeeps DEF IInv, Peer, Other
    <2>8. PathInv("guest")' /\ PathInv("host")'
        BY <1>3, <2>6, <2>7 DEF Peer, Other
    <2>9. ReadyInv' /\ SeatInv' /\ TerminalInv' /\ ~refused'
        BY <1>2, <2>4, SameSeats, SameTerminal DEF IInv, ReadyInv, Silent
    <2> QED  BY <2>3, <2>8, <2>9 DEF IInv
<1>5. CASE ~(known /\ IsData(m))
    <2>1. IsReply(out)
        <3>1. CASE known
            <4>1. \A d \in Connection : out[d] \in {<<m>>, <<>>}
                BY <3>1
            <4>2. <<m>> \in Seq(Msg) /\ NoData(<<m>>)
                BY <1>3, <1>5, <3>1, OneMessage
            <4>3. out = [d \in Connection |-> out[d]]
                BY <3>1
            <4> HIDE DEF out, m
            <4> QED  BY <4>1, <4>2, <4>3, NoMessage DEF IsReply
        <3>2. CASE ~known
            BY <3>2, ToIsReply
        <3> QED  BY <3>1, <3>2
    <2> HIDE DEF out
    <2>2. RelayStep
        BY <1>2, <2>1, RelaySendsQuiet, SameSeats DEF RelayStep, IInv, QueueInv, roomVars
    <2> QED  BY <1>1, <1>2, <2>2, RelayKeeps
<1> QED  BY <1>4, <1>5

-----------------------------------------------------------------------------
(* Chunks are made.                                                        *)

(* A peer makes a chunk, and nothing else changes.                         *)
LEMMA MakerKeeps ==
    ASSUME IInv, NEW p \in Peer, NEW c, NEW m, MakeStep(p, c, m), QueueInv', TerminalInv',
           Heard(Other(p))' = Heard(Other(p)), Made(Other(p))' = Made(Other(p)),
           sendCounter'[Other(p)] = sendCounter[Other(p)], UNCHANGED <<roomsBySocket, refused>>
    PROVE  IInv'
<1>1. Other(p) \in Peer /\ Other(Other(p)) = p /\ Other(p) # p
    BY DEF Peer, Other
<1>2. PathInv(p)'
    BY MakeKeeps DEF IInv, Peer
<1>3. PathInv(Other(p))'
    <2>1. \A d \in Connection : Owner(d) = Other(p) => up'[d] = up[d]
        BY <1>1 DEF MakeStep, IInv, QueueInv
    <2>2. QuietStep(Other(p))
        BY <1>1, <2>1 DEF MakeStep, QuietStep, Sending, Receiving, Shrinks
    <2> QED  BY <1>1, <2>2, QuietKeeps DEF IInv, Peer, Other
<1>4. ReadyInv' /\ SeatInv'
    BY SameSeats DEF MakeStep, IInv, ReadyInv
<1> QED  BY <1>2, <1>3, <1>4 DEF IInv, Peer, Other

(* What a peer sends is in the queue, or lost.                             *)
LEMMA ChunkSent ==
    ASSUME QueueInv, NEW c \in Connection, NEW m \in Msg, PeerSends(c, <<m>>)
    PROVE  /\ \/ up' = up
              \/ readyState[c] = "open" /\ up' = [up EXCEPT ![c] = @ \o <<m>>]
           /\ up' \in [Connection -> Seq(Msg)]
           /\ \A d \in Connection : readyState[d] \in {"absent", "connecting"} => up'[d] = up[d]
<1>1. up \in [Connection -> Seq(Msg)] /\ up' = [up EXCEPT ![c] = Carried(c, <<m>>)]
    BY DEF QueueInv, PeerSends
<1>2. CASE Carried(c, <<m>>) = up[c]
    BY <1>1, <1>2
<1>3. CASE readyState[c] = "open" /\ Carried(c, <<m>>) = up[c] \o <<m>>
    <2>1. up[c] \o <<m>> \in Seq(Msg) /\ up' = [up EXCEPT ![c] = @ \o <<m>>]
        BY <1>1, <1>3, AddFacts
    <2> QED  BY <1>1, <1>3, <2>1
<1> QED  BY <1>2, <1>3 DEF Carried

(* The guest types. *)
LEMMA TypeKeeps ==
    ASSUME IInv, Type
    PROVE  IInv'
<1> DEFINE s == sendCounter["guest"]
           e == Chunk("ENCRYPTED_DATA", typed + 1, s + 1)
           i == Chunk("PTY_INPUT", typed + 1, 0)
<1>1. /\ typed \in Nat /\ typed' = typed + 1 /\ s \in Nat
      /\ sendCounter \in [Peer -> Nat] /\ currentSocket \in Connection
      /\ Owner(currentSocket) = "guest"
    BY DEF Type, IInv, TerminalInv, Peer
<1>2. /\ UNCHANGED <<readyState, serverState, down, child, childSocket, currentSocket, recvCounter,
                     printed, shellRead, shown, refused, state, seat, roomsBySocket>>
    BY DEF Type, roomVars
<1>3. e \in Msg /\ i \in Msg
    BY <1>1 DEF Chunk, Msg, Forwarded
<1>4. \/ sendCounter' = [sendCounter EXCEPT !["guest"] = s + 1] /\ PeerSends(currentSocket, <<e>>)
      \/ sendCounter' = sendCounter /\ PeerSends(currentSocket, <<i>>)
    <2>1. CASE cipher
        <3>1. /\ sendCounter' = [sendCounter EXCEPT !["guest"] = @ + 1]
              /\ PeerSends(currentSocket,
                           <<Chunk("ENCRYPTED_DATA", typed', sendCounter'["guest"])>>)
            BY <2>1 DEF Type
        <3>2. sendCounter'["guest"] = s + 1
            BY <1>1, <3>1 DEF Peer
        <3> QED  BY <1>1, <3>1, <3>2
    <2>2. CASE ~cipher
        BY <1>1, <2>2 DEF Type
    <2> QED  BY <2>1, <2>2
<1>5. PICK m \in {e, i} :
          /\ PeerSends(currentSocket, <<m>>)
          /\ \/ m = e /\ sendCounter' = [sendCounter EXCEPT !["guest"] = s + 1]
             \/ m = i /\ sendCounter' = sendCounter
    BY <1>4
<1>6. /\ m \in Msg /\ m.n = typed + 1 /\ m.counter <= sendCounter'["guest"]
      /\ \/ m.type = "PTY_INPUT" /\ m.counter = 0
         \/ m.type = "ENCRYPTED_DATA" /\ m.counter = s + 1
      /\ sendCounter' \in [Peer -> Nat] /\ sendCounter'["host"] = sendCounter["host"]
      /\ sendCounter'["guest"] \in {s, s + 1}
    <2>1. CASE m = e /\ sendCounter' = [sendCounter EXCEPT !["guest"] = s + 1]
        BY <1>1, <1>3, <2>1 DEF Chunk, Peer
    <2>2. CASE m = i /\ sendCounter' = sendCounter
        BY <1>1, <1>3, <2>2 DEF Chunk, Peer
    <2> QED  BY <1>5, <2>1, <2>2
<1> HIDE DEF e, i
<1>7. QueueInv'
    BY <1>1, <1>2, <1>5, <1>6, ChunkSent DEF IInv, QueueInv
<1>8. TerminalInv'
    BY <1>1, <1>2, <1>6 DEF IInv, TerminalInv
<1>9. MakeStep("guest", currentSocket, m)
    BY <1>1, <1>2, <1>5, <1>6, ChunkSent DEF MakeStep, Made, Heard, IInv
<1> QED  BY <1>2, <1>6, <1>7, <1>8, <1>9, MakerKeeps DEF Peer, Other, Heard, Made

(* The shell prints. *)
LEMMA OutputKeeps ==
    ASSUME IInv, Output
    PROVE  IInv'
<1> DEFINE s == sendCounter["host"]
           m == Chunk("ENCRYPTED_DATA", printed + 1, s + 1)
<1>1. /\ printed \in Nat /\ printed' = printed + 1 /\ s \in Nat
      /\ sendCounter \in [Peer -> Nat] /\ childSocket \in Connection
      /\ Owner(childSocket) = "host"
    BY DEF Output, IInv, TerminalInv, Peer
<1>2. /\ UNCHANGED <<readyState, serverState, down, child, childSocket, currentSocket, recvCounter,
                     typed, shellRead, shown, refused, state, seat, roomsBySocket>>
    BY DEF Output, roomVars
<1>3. m \in Msg /\ m.n = printed + 1 /\ m.type = "ENCRYPTED_DATA" /\ m.counter = s + 1
    BY <1>1 DEF Chunk, Msg, Forwarded
<1>4. \/ sendCounter' = [sendCounter EXCEPT !["host"] = s + 1] /\ PeerSends(childSocket, <<m>>)
      \/ sendCounter' = sendCounter /\ up' = up
    <2>1. CASE readyState[childSocket] = "open"
        <3>1. /\ sendCounter' = [sendCounter EXCEPT !["host"] = @ + 1]
              /\ PeerSends(childSocket, <<Chunk("ENCRYPTED_DATA", printed', sendCounter'["host"])>>)
            BY <2>1 DEF Output
        <3>2. sendCounter'["host"] = s + 1
            BY <1>1, <3>1 DEF Peer
        <3> QED  BY <1>1, <3>1, <3>2
    <2>2. CASE readyState[childSocket] # "open"
        BY <2>2 DEF Output
    <2> QED  BY <2>1, <2>2
<1> HIDE DEF m
<1>5. /\ up' \in [Connection -> Seq(Msg)]
      /\ \A d \in Connection : readyState[d] \in {"absent", "connecting"} => up'[d] = up[d]
      /\ \/ up' = up
         \/ /\ readyState[childSocket] = "open" /\ up' = [up EXCEPT ![childSocket] = @ \o <<m>>]
            /\ m.counter <= sendCounter'["host"]
    <2>1. CASE sendCounter' = sendCounter /\ up' = up
        BY <2>1 DEF IInv, QueueInv
    <2>2. CASE /\ sendCounter' = [sendCounter EXCEPT !["host"] = s + 1]
               /\ PeerSends(childSocket, <<m>>)
        <3>1. m.counter <= sendCounter'["host"]
            BY <1>1, <1>3, <2>2 DEF Peer
        <3> QED  BY <1>1, <1>3, <2>2, <3>1, ChunkSent DEF IInv
    <2> QED  BY <1>4, <2>1, <2>2
<1>6. /\ sendCounter' \in [Peer -> Nat] /\ sendCounter'["guest"] = sendCounter["guest"]
      /\ sendCounter'["host"] \in {s, s + 1}
    BY <1>1, <1>4 DEF Peer
<1>7. QueueInv'
    BY <1>2, <1>5 DEF IInv, QueueInv
<1>8. TerminalInv'
    BY <1>1, <1>2, <1>6 DEF IInv, TerminalInv
<1>9. MakeStep("host", childSocket, m)
    BY <1>1, <1>2, <1>3, <1>5, <1>6 DEF MakeStep, Made, Heard, IInv
<1> QED  BY <1>2, <1>6, <1>7, <1>8, <1>9, MakerKeeps DEF Peer, Other, Heard, Made

-----------------------------------------------------------------------------
(* Chunks are heard.                                                       *)

(* A peer hears a chunk, and nothing else changes.                         *)
LEMMA HearerKeeps ==
    ASSUME IInv, NEW p \in Peer, NEW c \in Connection, HearStep(p, c), TerminalInv', ~refused',
           Heard(Other(p))' = Heard(Other(p)), Made(Other(p))' = Made(Other(p)),
           recvCounter'[p] = recvCounter[p], UNCHANGED <<serverState, roomsBySocket>>
    PROVE  IInv'
<1>1. Other(p) \in Peer /\ Other(Other(p)) = p /\ Other(p) # p
    BY DEF Peer, Other
<1>2. /\ down \in [Connection -> Seq(Msg)] /\ down[c] # <<>>
      /\ down' = [down EXCEPT ![c] = Tail(@)] /\ Owner(c) = Other(p)
    BY DEF HearStep, Receiving, IInv, QueueInv
<1>3. QueueInv'
    <2>1. down' \in [Connection -> Seq(Msg)]
        <3>1. Tail(down[c]) \in Seq(Msg)
            BY <1>2, HeadFacts
        <3> QED  BY <1>2, <3>1
    <2>2. \A d \in Connection : down[d] = <<>> => down'[d] = <<>>
        BY <1>2
    <2> QED  BY <2>1, <2>2 DEF HearStep, IInv, QueueInv
<1>4. PathInv(p)'
    BY <1>3, HearKeeps DEF IInv, Peer
<1>5. PathInv(Other(p))'
    <2>1. \A d \in Connection : Owner(d) = p => down'[d] = down[d]
        BY <1>1, <1>2
    <2>2. QuietStep(Other(p))
        BY <1>1, <2>1 DEF HearStep, QuietStep, Sending, Receiving, Shrinks
    <2> QED  BY <1>1, <1>3, <2>2, QuietKeeps DEF IInv, Peer, Other
<1>6. ReadyInv' /\ SeatInv'
    BY SameSeats DEF HearStep, IInv, ReadyInv
<1> QED  BY <1>3, <1>4, <1>5, <1>6 DEF IInv, Peer, Other

(* A chunk that arrives is above what was heard.                           *)
LEMMA HeadIsAbove ==
    ASSUME IInv, NEW p \in Peer, NEW c \in Receiving(p), down[c] # <<>>, IsData(Head(down[c]))
    PROVE  /\ Head(down[c]) \in Msg /\ Head(down[c]).n \in Nat /\ Head(down[c]).counter \in Nat
           /\ Head(down[c]).type = "ENCRYPTED_DATA" =>
                  recvCounter[Other(p)] < Head(down[c]).counter
<1>1. down[c] \in Seq(Msg) /\ Above(down[c], Heard(p), recvCounter[Other(p)])
    BY DEF IInv, QueueInv, Receiving, PathInv, Peer
<1>2. 1 \in 1 .. Len(down[c]) /\ Head(down[c]) = down[c][1]
    BY <1>1
<1> QED  BY <1>1, <1>2, MsgFacts DEF Above

(* One more number. *)
LEMMA AppendNat ==
    ASSUME NEW s \in Seq(Nat), NEW n \in Nat
    PROVE  Append(s, n) \in Seq(Nat)
OBVIOUS

(* The shell reads what was typed. *)
LEMMA HostHearsKeeps ==
    ASSUME IInv, NEW c \in Connection, HostEncryptedData(c) \/ HostPtyInput(c)
    PROVE  IInv'
<1> DEFINE m == Head(down[c])
           k == recvCounter["host"]
<1>1. /\ Owner(c) = "host" /\ readyState[c] \in {"open", "closing"} /\ down[c] # <<>>
      /\ down' = [down EXCEPT ![c] = Tail(@)] /\ m.type \in {"ENCRYPTED_DATA", "PTY_INPUT"}
    BY DEF HostEncryptedData, HostPtyInput, PeerTakes
<1>2. c \in Receiving("guest") /\ IsData(m)
    BY <1>1 DEF Receiving, Other, IsData
<1>3. /\ m \in Msg /\ m.n \in Nat /\ m.counter \in Nat
      /\ m.type = "ENCRYPTED_DATA" => k < m.counter
    BY <1>1, <1>2, HeadIsAbove DEF Peer, Other
<1>4. /\ UNCHANGED <<up, readyState, serverState, state, seat, roomsBySocket, sendCounter, typed,
                     printed, shown, child, childSocket, currentSocket>>
    BY DEF HostEncryptedData, HostPtyInput, OnMessage, roomVars
<1>5. /\ recvCounter \in [Peer -> Nat] /\ k \in Nat /\ shellRead \in Seq(Nat) /\ ~refused
    BY DEF IInv, TerminalInv, Peer
<1>6. /\ shellRead' \in {shellRead, Append(shellRead, m.n)} /\ ~refused'
      /\ \/ recvCounter' = recvCounter
         \/ m.type = "ENCRYPTED_DATA" /\ recvCounter' = [recvCounter EXCEPT !["host"] = m.counter]
    <2>1. CASE HostPtyInput(c)
        BY <1>5, <2>1 DEF HostPtyInput, ShellReads
    <2>2. CASE HostEncryptedData(c)
        <3>1. m.type = "ENCRYPTED_DATA" /\ ~(m.counter <= k)
            BY <1>3, <1>5, <2>2 DEF HostEncryptedData, PeerTakes
        <3> QED  BY <1>3, <1>5, <2>2, <3>1 DEF HostEncryptedData, Decrypts, ShellReads
    <2> QED  BY <2>1, <2>2
<1> HIDE DEF m
<1>7. /\ shellRead' \in Seq(Nat) /\ recvCounter' \in [Peer -> Nat]
      /\ recvCounter'["guest"] = recvCounter["guest"]
      /\ recvCounter'["host"] = k \/ (m.type = "ENCRYPTED_DATA" /\ recvCounter'["host"] = m.counter)
    <2>1. shellRead' \in Seq(Nat)
        BY <1>3, <1>5, <1>6, AppendNat
    <2>2. CASE recvCounter' = recvCounter
        BY <1>5, <2>1, <2>2
    <2>3. CASE /\ m.type = "ENCRYPTED_DATA"
               /\ recvCounter' = [recvCounter EXCEPT !["host"] = m.counter]
        BY <1>3, <1>5, <2>1, <2>3 DEF Peer
    <2> QED  BY <1>6, <2>2, <2>3
<1>8. TerminalInv'
    BY <1>4, <1>7 DEF IInv, TerminalInv
<1>9. HearStep("guest", c)
    BY <1>1, <1>2, <1>4, <1>6, <1>7 DEF HearStep, Heard, Made, Other, m
<1> QED  BY <1>4, <1>6, <1>7, <1>8, <1>9, HearerKeeps DEF Peer, Other, Heard, Made

(* The guest sees what was printed. *)
LEMMA GuestHearsKeeps ==
    ASSUME IInv, NEW c \in Connection, GuestEncryptedData(c)
    PROVE  IInv'
<1> DEFINE m == Head(down[c])
           k == recvCounter["guest"]
<1>1. /\ Owner(c) = "guest" /\ readyState[c] \in {"open", "closing"} /\ down[c] # <<>>
      /\ down' = [down EXCEPT ![c] = Tail(@)] /\ m.type = "ENCRYPTED_DATA"
    BY DEF GuestEncryptedData, PeerTakes
<1>2. c \in Receiving("host") /\ IsData(m)
    BY <1>1 DEF Receiving, Other, IsData
<1>3. m \in Msg /\ m.n \in Nat /\ m.counter \in Nat /\ k < m.counter
    BY <1>1, <1>2, HeadIsAbove DEF Peer, Other
<1>4. /\ UNCHANGED <<up, readyState, serverState, state, seat, roomsBySocket, sendCounter, typed,
                     printed, shellRead, child, childSocket, currentSocket>>
    BY DEF GuestEncryptedData, OnMessage, roomVars
<1>5. /\ recvCounter \in [Peer -> Nat] /\ k \in Nat /\ shown \in Seq(Nat) /\ ~refused
    BY DEF IInv, TerminalInv, Peer
<1>6. /\ shown' \in {shown, Append(shown, m.n)} /\ ~refused'
      /\ \/ recvCounter' = recvCounter
         \/ recvCounter' = [recvCounter EXCEPT !["guest"] = m.counter]
    <2>1. ~(m.counter <= k)
        BY <1>3, <1>5
    <2> QED  BY <1>5, <2>1 DEF GuestEncryptedData, Decrypts
<1> HIDE DEF m
<1>7. /\ shown' \in Seq(Nat) /\ recvCounter' \in [Peer -> Nat]
      /\ recvCounter'["host"] = recvCounter["host"]
      /\ recvCounter'["guest"] = k \/ recvCounter'["guest"] = m.counter
    <2>1. shown' \in Seq(Nat)
        BY <1>3, <1>5, <1>6, AppendNat
    <2>2. CASE recvCounter' = recvCounter
        BY <1>5, <2>1, <2>2
    <2>3. CASE recvCounter' = [recvCounter EXCEPT !["guest"] = m.counter]
        BY <1>3, <1>5, <2>1, <2>3 DEF Peer
    <2> QED  BY <1>6, <2>2, <2>3
<1>8. TerminalInv'
    BY <1>4, <1>7 DEF IInv, TerminalInv
<1>9. HearStep("host", c)
    BY <1>1, <1>2, <1>4, <1>6, <1>7 DEF HearStep, Heard, Made, Other, m
<1> QED  BY <1>4, <1>6, <1>7, <1>8, <1>9, HearerKeeps DEF Peer, Other, Heard, Made

-----------------------------------------------------------------------------
(* The invariant is inductive.                                             *)

(* The invariant holds when the session is ready. *)
LEMMA InitInv ==
    ASSUME Init
    PROVE  IInv
<1>1. \A p \in Peer : First(p) \in Connection /\ Owner(First(p)) = p /\ First(p)[2] = 1
    BY SessionAssumption DEF First, Connection, Owner
<1>2. ReadyInv
    <2>1. \A c, d \in Connection : Owner(c) = Owner(d) /\ c[2] < d[2] => d # First(Owner(d))
        BY DEF First, Connection, Owner
    <2> QED  BY <2>1 DEF Init, ReadyInv
<1>3. \A c \in Connection : up[c] = <<>> /\ down[c] \in Seq(Msg) /\ NoData(down[c]) /\ NoData(up[c])
    BY MessageFacts, OneMessage, NoMessage DEF Init
<1>4. QueueInv
    <2>1. down \in [Connection -> Seq(Msg)]
        BY <1>3 DEF Init
    <2>2. up \in [Connection -> Seq(Msg)]
        BY NoMessage DEF Init
    <2> QED  BY <1>3, <2>1, <2>2 DEF Init, QueueInv
<1>5. SeatInv
    BY <1>1 DEF Init, SeatInv, Peer
<1>6. TerminalInv
    BY <1>1 DEF Init, TerminalInv, Peer
<1>7. ASSUME NEW p \in Peer
      PROVE  PathInv(p)
    <2>1. Len(Heard(p)) = 0 /\ recvCounter[Other(p)] <= sendCounter[p]
        BY DEF Init, Heard, Other, Peer
    <2>2. Ascending(Heard(p)) /\ \A i \in 1 .. Len(Heard(p)) : Heard(p)[i] <= Made(p)
        BY <2>1 DEF Ascending
    <2> QED  BY <1>3, <2>1, <2>2, NoDataFacts DEF PathInv, Sending, Receiving
<1> QED  BY <1>2, <1>4, <1>5, <1>6, <1>7 DEF Init, IInv, Peer

(* Every step keeps it that leaves a peer with one connection and the      *)
(* seats to later ones.                                                    *)
LEMMA NextInv ==
    ASSUME IInv, OneConnection', [Next /\ SeatsAdvance]_vars
    PROVE  IInv'
<1>1. ASSUME NEW c \in Connection, PeerHandles(c)
      PROVE  IInv'
    BY <1>1, ClosedKeeps, HandlersKeep, HostHearsKeeps, GuestHearsKeeps DEF PeerHandles
<1>2. ASSUME NEW c \in Connection, RelayHandles(c), SeatsAdvance
      PROVE  IInv'
    BY <1>2, ForwardKeeps, ReconnectKeeps, LossKeeps DEF RelayHandles
<1>3. ASSUME NEW c \in Connection, SeatsAdvance,
             \/ Cut(c) \/ PeerSeesCut(c) \/ RelaySeesCut(c)
             \/ SocketOpens(c) \/ ConnectFails(c)
             \/ GraceTimerFires(c)
      PROVE  IInv'
    BY <1>3, CutKeeps, ClosedKeeps, LossKeeps, SocketOpensKeeps, ConnectFailsKeeps
<1>4. ASSUME NEW p \in Peer, NEW n \in Attempt, TimerFires(p, n)
      PROVE  IInv'
    BY <1>4, TimerFiresKeeps
<1>5. CASE Output \/ ShellExits \/ Type \/ Detach
    BY <1>5, OutputKeeps, TypeKeeps, EndingsKeep
<1>6. CASE UNCHANGED vars
    <2>1. PeerStep(First("host"))
        BY <1>6, SameUp, SameDown
        DEF vars, wireVars, linkVars, terminalVars, roomVars, PeerStep, Silent, IInv
    <2>2. First("host") \in Connection
        BY SessionAssumption DEF First, Connection, Peer
    <2> QED  BY <2>1, <2>2, PeerKeeps
<1> QED  BY <1>1, <1>2, <1>3, <1>4, <1>5, <1>6 DEF Next

(* The invariant implies the property. *)
LEMMA InvInOrder ==
    ASSUME IInv
    PROVE  StreamsInOrder
BY DEF IInv, PathInv, Heard, StreamsInOrder

(* Terminal traffic is read and shown in order, and nothing twice, whatever*)
(* is lost and however often the peers reconnect, as long as no lost       *)
(* connection takes a seat back and no peer has two connections at a time. *)
THEOREM OrderWhileSeatsAdvance ==
    Spec /\ []OneConnection /\ [][SeatsAdvance]_vars => []StreamsInOrder
<1>1. IInv /\ OneConnection' /\ [Next]_vars /\ [SeatsAdvance]_vars => IInv'
    BY NextInv
<1> QED  BY <1>1, InitInv, InvInOrder, PTL DEF Spec

-----------------------------------------------------------------------------
(* When no peer connects more than twice the seats advance by themselves.  *)

(* q carries no RECONNECT. *)
NoReconnect(q) == \A i \in 1 .. Len(q) : q[i].type # "RECONNECT"

(* A peer connects again when its first connection is closed, on which it  *)
(* does not send RECONNECT.                                                *)
FirstInv ==
    /\ DOMAIN timers = Peer
    /\ \A p \in Peer :
           /\ readyState[First(p)] \in {"open", "closing", "closed"}
           /\ NoReconnect(up[First(p)])
           /\ readyState[First(p)] # "closed" => \A n \in Attempt : timers[p][n] = 0
    /\ \A c \in Connection :
           c # First(Owner(c)) /\ readyState[c] # "absent" =>
               readyState[First(Owner(c))] = "closed"

(* What a step does to the connections of a peer: the first is closed, or  *)
(* nothing happens to the others.                                          *)
FirstStep ==
    /\ DOMAIN timers' = Peer
    /\ \A p \in Peer : NoReconnect(up'[First(p)])
    /\ \A p \in Peer : timers'[p] = timers[p] \/ readyState'[First(p)] = "closed"
    /\ \A c \in Connection :
           \/ readyState'[c] = readyState[c]
           \/ readyState[c] \in {"open", "closing"} /\ readyState'[c] \in {"closing", "closed"}
           \/ /\ c # First(Owner(c)) /\ readyState[First(Owner(c))] = "closed"
              /\ readyState'[First(Owner(c))] = "closed"

(* Such a step keeps FirstInv. *)
LEMMA FirstKeeps ==
    ASSUME FirstInv, FirstStep
    PROVE  FirstInv'
<1>1. \A p \in Peer : First(p) \in Connection /\ Owner(First(p)) = p
    BY SessionAssumption DEF First, Connection, Owner
<1>2. \A c \in Connection : Owner(c) \in Peer
    BY DEF Connection, Owner
<1>3. \A p \in Peer : /\ readyState'[First(p)] \in {"open", "closing", "closed"}
                      /\ readyState[First(p)] = "closed" => readyState'[First(p)] = "closed"
    BY <1>1 DEF FirstInv, FirstStep
<1>4. \A p \in Peer : readyState'[First(p)] # "closed" => \A n \in Attempt : timers'[p][n] = 0
    BY <1>3 DEF FirstInv, FirstStep
<1>5. ASSUME NEW c \in Connection, c # First(Owner(c)), readyState'[c] # "absent"
      PROVE  readyState'[First(Owner(c))] = "closed"
    BY <1>2, <1>3, <1>5 DEF FirstInv, FirstStep
<1> QED  BY <1>3, <1>4, <1>5 DEF FirstInv, FirstStep

(* Taking a message out brings no RECONNECT. *)
LEMMA TailNoReconnect ==
    ASSUME NEW q \in Seq(Msg), q # <<>>, NoReconnect(q)
    PROVE  NoReconnect(Tail(q))
<1>1. Len(Tail(q)) = Len(q) - 1 /\ \A i \in 1 .. Len(Tail(q)) : Tail(q)[i] = q[i + 1]
    OBVIOUS
<1> QED  BY <1>1 DEF NoReconnect

(* Nor does adding others. *)
LEMMA ConcatNoReconnect ==
    ASSUME NEW q \in Seq(Msg), NEW r \in Seq(Msg), NoReconnect(q), NoReconnect(r)
    PROVE  NoReconnect(q \o r)
<1>1. /\ Len(q) \in Nat /\ Len(r) \in Nat /\ Len(q \o r) = Len(q) + Len(r)
      /\ \A i \in 1 .. Len(q) : (q \o r)[i] = q[i]
      /\ \A i \in 1 .. Len(r) : (q \o r)[Len(q) + i] = r[i]
    OBVIOUS
<1>2. ASSUME NEW i \in 1 .. Len(q \o r), ~(i \in 1 .. Len(q))
      PROVE  i - Len(q) \in 1 .. Len(r) /\ (q \o r)[i] = r[i - Len(q)]
    <2>1. i - Len(q) \in 1 .. Len(r) /\ Len(q) + (i - Len(q)) = i
        BY <1>1, <1>2
    <2> QED  BY <1>1, <2>1
<1> QED  BY <1>1, <1>2 DEF NoReconnect

(* What a peer says on a connection that is open already.                  *)
IsSaid(out) == out \in Seq(Msg) /\ NoReconnect(out)

(* Messages that are said, alone and together. *)
LEMMA SaidFacts ==
    /\ \A m \in Msg : m.type # "RECONNECT" => IsSaid(<<m>>)
    /\ \A out, more : IsSaid(out) /\ IsSaid(more) => IsSaid(out \o more)
    /\ IsSaid(<<>>)
<1>1. \A m \in Msg : m.type # "RECONNECT" => IsSaid(<<m>>)
    BY DEF IsSaid, NoReconnect
<1>2. ASSUME NEW out, NEW more, IsSaid(out), IsSaid(more)
      PROVE  IsSaid(out \o more)
    <2>1. out \in Seq(Msg) /\ more \in Seq(Msg) /\ NoReconnect(out) /\ NoReconnect(more)
        BY <1>2 DEF IsSaid
    <2>2. out \o more \in Seq(Msg)
        BY <2>1
    <2> QED  BY <2>1, <2>2, ConcatNoReconnect DEF IsSaid
<1>3. IsSaid(<<>>)
    BY DEF IsSaid, NoReconnect
<1> QED  BY <1>1, <1>2, <1>3

(* What goes into the messages. *)
CountersInv ==
    /\ typed \in Nat /\ printed \in Nat
    /\ sendCounter \in [Peer -> Nat]

(* What the peers say in a step has no RECONNECT, unless they open a       *)
(* connection.                                                             *)
LEMMA PeerSays ==
    ASSUME CountersInv, NEW c,
           \/ PeerHandles(c) \/ PeerSeesCut(c) \/ ConnectFails(c) \/ Cut(c)
           \/ \E p \in Peer, n \in Attempt : TimerFires(p, n)
           \/ Output \/ ShellExits \/ Type \/ Detach
    PROVE  up' = up \/ \E d, out : IsSaid(out) /\ PeerSends(d, out)
<1>1. /\ IsSaid(<<Message("KEY_EXCHANGE")>>) /\ IsSaid(<<Message("PTY_RESIZE")>>) /\ IsSaid(<<>>)
      /\ IsSaid(<<Message("PTY_EXIT")>>) /\ IsSaid(<<Message("SESSION_TERMINATE")>>)
      /\ IsSaid(<<Message("CLOSE")>>)
    BY MessageFacts, SaidFacts DEF Message
<1>2. ASSUME NEW d, NEW out, IsSaid(out), PeerSendsAndCloses(d, out)
      PROVE  \E e, s : IsSaid(s) /\ PeerSends(e, s)
    <2>1. Append(out, Message("CLOSE")) = out \o <<Message("CLOSE")>>
        BY <1>2 DEF IsSaid
    <2>2. IsSaid(Append(out, Message("CLOSE")))
        BY <1>1, <1>2, <2>1, SaidFacts
    <2> QED  BY <1>2, <2>2 DEF PeerSendsAndCloses
<1>3. CASE PeerHandles(c)
    <2>1. CASE PeerReadsClose(c)
        BY <1>1, <2>1 DEF PeerReadsClose
    <2>2. CASE SessionReady(c)
        <3>1. PICK size \in {<<Message("PTY_RESIZE")>>, <<>>} :
                  PeerSends(c, <<Message("KEY_EXCHANGE")>> \o size)
            BY <2>2 DEF SessionReady
        <3> QED  BY <1>1, <3>1, SaidFacts
    <2>3. CASE ReconnectOk(c)
        <3>1. PICK size \in {<<Message("PTY_RESIZE")>>, <<>>} : PeerSends(c, size)
            BY <2>3 DEF ReconnectOk
        <3> QED  BY <1>1, <3>1
    <2>4. CASE Terminated(c) \/ Error(c)
        BY <1>1, <1>2, <2>4 DEF Terminated, Error
    <2>5. CASE \/ HostKeyExchange(c) \/ HostEncryptedData(c) \/ HostPtyInput(c) \/ HostPtyResize(c)
               \/ GuestKeyExchange(c) \/ GuestEncryptedData(c)
        BY <2>5 DEF HostKeyExchange, HostEncryptedData, HostPtyInput, HostPtyResize,
                    GuestKeyExchange, GuestEncryptedData
    <2> QED  BY <1>3, <2>1, <2>2, <2>3, <2>4, <2>5 DEF PeerHandles
<1>4. CASE \/ PeerSeesCut(c) \/ ConnectFails(c) \/ Cut(c)
           \/ \E p \in Peer, n \in Attempt : TimerFires(p, n)
    BY <1>4 DEF PeerSeesCut, ConnectFails, Cut, TimerFires
<1>5. CASE ShellExits
    BY <1>1, <1>2, <1>5 DEF ShellExits
<1>6. CASE Detach
    BY <1>1, <1>2, <1>6 DEF Detach
<1>7. CASE Output \/ Type
    <2>1. up' = up \/ \E d, n, k :
             /\ n \in Nat /\ k \in Nat
             /\ \/ PeerSends(d, <<Chunk("ENCRYPTED_DATA", n, k)>>)
                \/ PeerSends(d, <<Chunk("PTY_INPUT", n, k)>>)
        <3>1. CASE Output
            <4>1. /\ printed' \in Nat
                  /\ readyState[childSocket] = "open" => sendCounter'["host"] \in Nat
                BY <3>1 DEF Output, CountersInv, Peer
            <4> QED  BY <3>1, <4>1 DEF Output
        <3>2. CASE Type
            <4>1. /\ typed' \in Nat
                  /\ cipher => sendCounter'["guest"] \in Nat
                BY <3>2 DEF Type, CountersInv, Peer
            <4> QED  BY <3>2, <4>1 DEF Type
        <3> QED  BY <1>7, <3>1, <3>2
    <2>2. \A n, k \in Nat : /\ IsSaid(<<Chunk("ENCRYPTED_DATA", n, k)>>)
                            /\ IsSaid(<<Chunk("PTY_INPUT", n, k)>>)
        <3>1. \A n, k \in Nat : /\ Chunk("ENCRYPTED_DATA", n, k) \in Msg
                                /\ Chunk("ENCRYPTED_DATA", n, k).type # "RECONNECT"
                                /\ Chunk("PTY_INPUT", n, k) \in Msg
                                /\ Chunk("PTY_INPUT", n, k).type # "RECONNECT"
            BY DEF Chunk, Msg, Forwarded
        <3> QED  BY <3>1, SaidFacts
    <2> QED  BY <2>1, <2>2
<1> QED  BY <1>3, <1>4, <1>5, <1>6, <1>7

(* The queues of the first connections.                                    *)
FirstUp == \A p \in Peer : NoReconnect(up[First(p)])

(* A peer speaks. *)
LEMMA SaysFirst ==
    ASSUME QueueInv, FirstInv, NEW c, NEW out, IsSaid(out), PeerSends(c, out)
    PROVE  FirstUp'
<1> SUFFICES ASSUME NEW p \in Peer  PROVE NoReconnect(up'[First(p)])
    BY DEF FirstUp
<1>1. First(p) \in Connection /\ up[First(p)] \in Seq(Msg) /\ NoReconnect(up[First(p)])
    BY SessionAssumption DEF First, Connection, QueueInv, FirstInv
<1>2. NoReconnect(up[First(p)] \o out)
    BY <1>1, ConcatNoReconnect DEF IsSaid
<1>3. up'[First(p)] \in {up[First(p)], up[First(p)] \o out}
    BY <1>1 DEF PeerSends, Carried, QueueInv
<1> QED  BY <1>1, <1>2, <1>3

(* The relay takes a message from a connection. *)
LEMMA TakesFirst ==
    ASSUME QueueInv, FirstInv, NEW c \in Connection, NEW types, RelayTakes(c, types)
    PROVE  FirstUp'
<1> SUFFICES ASSUME NEW p \in Peer  PROVE NoReconnect(up'[First(p)])
    BY DEF FirstUp
<1>1. First(p) \in Connection /\ up[First(p)] \in Seq(Msg) /\ NoReconnect(up[First(p)])
    BY SessionAssumption DEF First, Connection, QueueInv, FirstInv
<1>2. \/ up'[First(p)] = up[First(p)]
      \/ up[First(p)] # <<>> /\ up'[First(p)] = Tail(up[First(p)])
    BY <1>1 DEF RelayTakes, QueueInv
<1> QED  BY <1>1, <1>2, TailNoReconnect

(* What the relay does.                                                    *)
LEMMA RelayFirst ==
    ASSUME IInv, FirstInv, NEW c \in Connection,
           \/ ForwardToPeer(c) \/ HandleReconnect(c) \/ RelayReadsClose(c)
           \/ RelaySeesCut(c) \/ GraceTimerFires(c) \/ Cut(c)
    PROVE  FirstInv'
<1>1. UNCHANGED <<readyState, timers>>
    BY DEF ForwardToPeer, HandleReconnect, RelayReadsClose, RelaySeesCut, GraceTimerFires, Cut,
           linkVars
<1>2. FirstUp'
    <2>1. CASE ForwardToPeer(c) \/ HandleReconnect(c) \/ RelayReadsClose(c)
        BY <2>1, TakesFirst DEF ForwardToPeer, HandleReconnect, RelayReadsClose, IInv
    <2>2. CASE RelaySeesCut(c)
        <3>1. \A d \in Connection : up'[d] \in {<<>>, up[d]}
            BY <2>2 DEF RelaySeesCut, IInv, QueueInv
        <3>2. \A p \in Peer : First(p) \in Connection
            BY SessionAssumption DEF First, Connection
        <3> QED  BY <3>1, <3>2 DEF FirstUp, FirstInv, NoReconnect
    <2>3. CASE GraceTimerFires(c) \/ Cut(c)
        BY <2>3 DEF GraceTimerFires, Cut, FirstUp, FirstInv
    <2> QED  BY <2>1, <2>2, <2>3
<1>3. FirstStep
    BY <1>1, <1>2 DEF FirstStep, FirstUp, FirstInv
<1> QED  BY <1>3, FirstKeeps

(* What the peers say, and how they close.                                 *)
LEMMA PeerFirst ==
    ASSUME IInv, FirstInv, NEW c \in Connection,
           \/ SessionReady(c) \/ Terminated(c) \/ ReconnectOk(c) \/ Error(c)
           \/ HostKeyExchange(c) \/ HostEncryptedData(c) \/ HostPtyInput(c) \/ HostPtyResize(c)
           \/ GuestKeyExchange(c) \/ GuestEncryptedData(c)
           \/ Output \/ ShellExits \/ Type \/ Detach
    PROVE  FirstInv'
<1>2. timers' = timers
    BY DEF SessionReady, Terminated, ReconnectOk, Error, HostKeyExchange, HostEncryptedData,
           HostPtyInput, HostPtyResize, GuestKeyExchange, GuestEncryptedData, Output, ShellExits,
           Type, Detach, OnMessage, linkVars
<1>3. \A d \in Connection :
          \/ readyState'[d] = readyState[d]
          \/ readyState[d] = "open" /\ readyState'[d] = "closing"
    <2>1. \/ readyState' = readyState
          \/ \E d, out : PeerSendsAndCloses(d, out)
        BY DEF SessionReady, Terminated, ReconnectOk, Error, HostKeyExchange, HostEncryptedData,
               HostPtyInput, HostPtyResize, GuestKeyExchange, GuestEncryptedData, Output,
               ShellExits, Type, Detach
    <2> QED  BY <2>1 DEF PeerSendsAndCloses, IInv, ReadyInv
<1>4. FirstUp'
    <2>1. up' = up \/ \E d, out : IsSaid(out) /\ PeerSends(d, out)
        BY PeerSays DEF PeerHandles, CountersInv, IInv, TerminalInv
    <2> QED  BY <2>1, SaysFirst DEF IInv, FirstUp, FirstInv
<1>5. FirstStep
    BY <1>2, <1>3, <1>4 DEF FirstStep, FirstUp, FirstInv
<1> QED  BY <1>5, FirstKeeps

(* A connection is closed, and its successor made.                         *)
LEMMA LinkFirst ==
    ASSUME IInv, FirstInv, NEW c \in Connection,
           \/ PeerReadsClose(c) \/ PeerSeesCut(c) \/ ConnectFails(c) \/ SocketOpens(c)
    PROVE  FirstInv'
<1>1. /\ Owner(c) \in Peer /\ First(Owner(c)) \in Connection
      /\ \A p \in Peer : First(p) \in Connection /\ Owner(First(p)) = p
    BY SessionAssumption DEF First, Connection, Owner
<1>2. CASE PeerReadsClose(c) \/ PeerSeesCut(c)
    <2>1. /\ readyState[c] \in {"open", "closing"}
          /\ \A d \in Connection : readyState'[d] = IF d = c THEN "closed" ELSE readyState[d]
          /\ timers' = timers \/ timers' = Scheduled(Owner(c), 0)
        BY <1>2 DEF PeerReadsClose, PeerSeesCut, PeerTakes, SocketClosed, IInv, ReadyInv
    <2>2. readyState'[First(Owner(c))] = "closed"
        BY <1>1, <2>1 DEF FirstInv
    <2>3. /\ DOMAIN timers' = Peer
          /\ \A p \in Peer : timers'[p] = timers[p] \/ readyState'[First(p)] = "closed"
        BY <2>1, <2>2 DEF Scheduled, FirstInv
    <2>4. FirstUp'
        <3>1. CASE PeerReadsClose(c)
            <4>1. IsSaid(<<Message("CLOSE")>>)
                BY MessageFacts, SaidFacts DEF Message
            <4> QED  BY <3>1, <4>1, SaysFirst DEF PeerReadsClose, IInv
        <3>2. CASE PeerSeesCut(c)
            BY <3>2 DEF PeerSeesCut, FirstUp, FirstInv
        <3> QED  BY <1>2, <3>1, <3>2
    <2>5. FirstStep
        BY <2>1, <2>3, <2>4 DEF FirstStep, FirstUp
    <2> QED  BY <2>5, FirstKeeps
<1>3. CASE ConnectFails(c) \/ SocketOpens(c)
    <2>1. /\ readyState[c] = "connecting" /\ c # First(Owner(c))
          /\ readyState[First(Owner(c))] = "closed"
        BY <1>1, <1>3 DEF ConnectFails, SocketOpens, FirstInv
    <2>2. \A d \in Connection \ {c} : readyState'[d] = readyState[d] /\ up'[d] = up[d]
        BY <1>3 DEF ConnectFails, SocketOpens, IInv, ReadyInv, QueueInv
    <2>3. readyState'[First(Owner(c))] = "closed"
        BY <1>1, <2>1, <2>2
    <2>4. \A p \in Peer : First(p) # c
        BY <1>1, <2>1
    <2>5. /\ DOMAIN timers' = Peer
          /\ \A p \in Peer \ {Owner(c)} : timers'[p] = timers[p]
        <3>1. CASE SocketOpens(c)
            BY <3>1 DEF SocketOpens, linkVars, FirstInv
        <3>2. CASE ConnectFails(c)
            <4>1. PICK onError \in {timers, Scheduled(Owner(c), attempt[c] + 1)} :
                      timers' \in {onError, [onError EXCEPT ![Owner(c)][0] = @ + 1]}
                BY <3>2 DEF ConnectFails
            <4> QED  BY <4>1 DEF Scheduled, FirstInv
        <3> QED  BY <1>3, <3>1, <3>2
    <2>6. FirstStep
        BY <1>1, <2>1, <2>2, <2>3, <2>4, <2>5 DEF FirstStep, FirstInv
    <2> QED  BY <2>6, FirstKeeps
<1> QED  BY <1>2, <1>3

(* A peer tries again. *)
LEMMA TimerFirst ==
    ASSUME IInv, FirstInv, NEW p \in Peer, NEW n \in Attempt, TimerFires(p, n)
    PROVE  FirstInv'
<1>1. /\ \A q \in Peer : First(q) \in Connection /\ Owner(First(q)) = q
    BY SessionAssumption DEF First, Connection, Owner
<1>2. readyState[First(p)] = "closed"
    BY DEF TimerFires, FirstInv
<1>3. \A c \in Connection :
          \/ readyState'[c] = readyState[c]
          \/ Owner(c) = p /\ c # First(p)
    <2>1. CASE UNCHANGED readyState
        BY <2>1
    <2>2. ASSUME NEW i \in 1 .. MaxConnections, readyState[<<p, i>>] = "absent",
                 readyState' = [readyState EXCEPT ![<<p, i>>] = "connecting"]
          PROVE  \A c \in Connection : \/ readyState'[c] = readyState[c]
                                       \/ Owner(c) = p /\ c # First(p)
        BY <1>2, <2>2 DEF Owner, IInv, ReadyInv
    <2> QED  BY <2>1, <2>2 DEF TimerFires
<1>4. /\ readyState'[First(p)] = "closed"
      /\ \A q \in Peer : readyState'[First(q)] = readyState[First(q)]
    BY <1>1, <1>2, <1>3
<1>5. /\ DOMAIN timers' = Peer
      /\ \A q \in Peer \ {p} : timers'[q] = timers[q]
      /\ up' = up
    BY DEF TimerFires, FirstInv
<1>6. FirstStep
    BY <1>1, <1>2, <1>3, <1>4, <1>5 DEF FirstStep, FirstInv
<1> QED  BY <1>6, FirstKeeps

(* Every step keeps FirstInv. *)
LEMMA FirstInvKeeps ==
    ASSUME IInv, FirstInv, [Next]_vars
    PROVE  FirstInv'
<1>1. ASSUME NEW c \in Connection, PeerHandles(c) \/ RelayHandles(c)
      PROVE  FirstInv'
    BY <1>1, LinkFirst, PeerFirst, RelayFirst DEF PeerHandles, RelayHandles
<1>2. ASSUME NEW c \in Connection,
             \/ Cut(c) \/ PeerSeesCut(c) \/ RelaySeesCut(c)
             \/ SocketOpens(c) \/ ConnectFails(c)
             \/ GraceTimerFires(c)
      PROVE  FirstInv'
    BY <1>2, LinkFirst, RelayFirst
<1>3. ASSUME NEW p \in Peer, NEW n \in Attempt, TimerFires(p, n)
      PROVE  FirstInv'
    BY <1>3, TimerFirst
<1>4. CASE Output \/ ShellExits \/ Type \/ Detach
    <2>1. First("host") \in Connection
        BY SessionAssumption DEF First, Connection, Peer
    <2> QED  BY <1>4, <2>1, PeerFirst
<1>5. CASE UNCHANGED vars
    BY <1>5 DEF vars, wireVars, linkVars, FirstInv
<1> QED  BY <1>1, <1>2, <1>3, <1>4, <1>5 DEF Next

(* FirstInv holds when the session is ready. *)
LEMMA InitFirst ==
    ASSUME Init
    PROVE  FirstInv
<1>1. \A p \in Peer : First(p) \in Connection /\ Owner(First(p)) = p
    BY SessionAssumption DEF First, Connection, Owner
<1>2. \A c \in Connection : c # First(Owner(c)) => readyState[c] = "absent"
    BY DEF Init
<1>3. \A p \in Peer : readyState[First(p)] = "open" /\ NoReconnect(up[First(p)])
    BY <1>1 DEF Init, NoReconnect
<1>4. DOMAIN timers = Peer /\ \A p \in Peer : \A n \in Attempt : timers[p][n] = 0
    BY DEF Init
<1> QED  BY <1>2, <1>3, <1>4 DEF FirstInv

(* With two connections the second is the only one that can come after.    *)
LEMMA TwoAdvance ==
    ASSUME MaxConnections <= 2, IInv, FirstInv, [Next]_vars, FirstInv'
    PROVE  OneConnection' /\ [Next /\ SeatsAdvance]_vars
<1>1. \A c \in Connection : c = First(Owner(c)) \/ (c = <<Owner(c), 2>> /\ c[2] = 2)
    BY SessionAssumption DEF Connection, First, Owner
<1>2. OneConnection'
    BY <1>1 DEF OneConnection, FirstInv, Alive
<1>3. ASSUME Next
      PROVE  SeatsAdvance
    <2> SUFFICES ASSUME state' = "active", NEW p \in Peer, seat'[p] # seat[p]
                 PROVE  seat'[p][2] > seat[p][2]
        BY DEF SeatsAdvance
    <2>1. PICK c \in Connection : HandleReconnect(c)
        <3>1. ASSUME NEW c \in Connection, \/ RelayReadsClose(c) \/ RelaySeesCut(c)
                                           \/ GraceTimerFires(c)
              PROVE  seat' = seat
            BY <3>1 DEF RelayReadsClose, RelaySeesCut, GraceTimerFires, HandleDisconnect,
                        CleanupRoom, roomVars
        <3>2. ASSUME NEW c \in Connection, PeerHandles(c) \/ ForwardToPeer(c)
              PROVE  seat' = seat
            BY <3>2 DEF PeerHandles, PeerReadsClose, SocketClosed, SessionReady, Terminated,
                        ReconnectOk, Error, HostKeyExchange, HostEncryptedData, HostPtyInput,
                        HostPtyResize, GuestKeyExchange, GuestEncryptedData, ForwardToPeer,
                        OnMessage, roomVars
        <3>3. ASSUME NEW c \in Connection,
                     \/ Cut(c) \/ PeerSeesCut(c) \/ SocketOpens(c) \/ ConnectFails(c)
              PROVE  seat' = seat
            BY <3>3 DEF Cut, PeerSeesCut, SocketClosed, SocketOpens, ConnectFails, roomVars
        <3>4. ASSUME \/ \E q \in Peer, n \in Attempt : TimerFires(q, n)
                     \/ Output \/ ShellExits \/ Type \/ Detach
              PROVE  seat' = seat
            BY <3>4 DEF TimerFires, Output, ShellExits, Type, Detach, roomVars
        <3> QED  BY <1>3, <3>1, <3>2, <3>3, <3>4 DEF Next, RelayHandles
    <2>2. /\ state = "active" /\ seat' = [seat EXCEPT ![Owner(c)] = c]
          /\ up[c] # <<>> /\ Head(up[c]).type = "RECONNECT"
        BY <2>1 DEF HandleReconnect, RelayTakes, TakeSeat, roomVars
    <2>3. c # First(Owner(c))
        <3>1. up[c] \in Seq(Msg) /\ 1 \in 1 .. Len(up[c]) /\ Head(up[c]) = up[c][1]
            BY <2>2 DEF IInv, QueueInv
        <3>2. Owner(c) \in Peer
            BY DEF Connection, Owner
        <3> QED  BY <2>2, <3>1, <3>2 DEF FirstInv, NoReconnect
    <2>4. p = Owner(c) /\ seat'[p] = c /\ seat[p] \in Connection /\ Owner(seat[p]) = p
        BY <2>2 DEF IInv, SeatInv, Peer
    <2>5. seat[p] = First(p) /\ c[2] = 2
        BY <1>1, <2>3, <2>4
    <2> QED  BY <2>4, <2>5 DEF First
<1> QED  BY <1>2, <1>3

(* A peer that connects no more than twice, as in the run of Session, sends*)
(* RECONNECT on its second connection only: then terminal traffic is read  *)
(* and shown in order in every behaviour, however many chunks there are.   *)
THEOREM InOrder ==
    ASSUME MaxConnections <= 2
    PROVE  Spec => []StreamsInOrder
<1>1. IInv /\ FirstInv /\ [Next]_vars => (IInv /\ FirstInv)'
    <2> SUFFICES ASSUME IInv, FirstInv, [Next]_vars
                 PROVE  IInv' /\ FirstInv'
        OBVIOUS
    <2>1. FirstInv'
        BY FirstInvKeeps
    <2>2. OneConnection' /\ [Next /\ SeatsAdvance]_vars
        BY <2>1, TwoAdvance
    <2> QED  BY <2>1, <2>2, NextInv
<1>2. Init => IInv /\ FirstInv
    BY InitInv, InitFirst
<1> QED  BY <1>1, <1>2, InvInOrder, PTL DEF Spec

-----------------------------------------------------------------------------
(* Without a lost connection nothing is missing: what each peer sends on   *)
(* its first connection, its key and then its chunks, is numbered from 0,  *)
(* and the numbers under way are those from the next one the other waits   *)
(* for to the last one that was made.                                      *)

(* A key, which is number 0, or a chunk. *)
IsItem(m) == m.type \in {"KEY_EXCHANGE", "ENCRYPTED_DATA", "PTY_INPUT"}

(* Where the items of q are. *)
Items(q) == {i \in 1 .. Len(q) : IsItem(q[i])}

(* The items of q are those numbered from a to b - 1, in that order. *)
Run(q, a, b) ==
    /\ a <= b
    /\ \A i \in Items(q) : q[i].n \in a .. b - 1
    /\ \A n \in a .. b - 1 : \E i \in Items(q) : q[i].n = n
    /\ \A i, j \in Items(q) : i < j => q[i].n < q[j].n

(* q has no message of these types. *)
NoneOf(q, types) == \A i \in 1 .. Len(q) : q[i].type \notin types

ItemTypes == {"KEY_EXCHANGE", "ENCRYPTED_DATA", "PTY_INPUT"}

(* The positions of a queue without its first message. *)
LEMMA TailPlaces ==
    ASSUME NEW q \in Seq(Msg), q # <<>>
    PROVE  /\ Tail(q) \in Seq(Msg) /\ Head(q) \in Msg /\ Head(q) = q[1] /\ 1 \in 1 .. Len(q)
           /\ \A i \in 1 .. Len(Tail(q)) : i + 1 \in 1 .. Len(q) /\ Tail(q)[i] = q[i + 1]
           /\ \A i \in 1 .. Len(q) : i # 1 => i - 1 \in 1 .. Len(Tail(q)) /\ Tail(q)[i - 1] = q[i]
           /\ Len(q) \in Nat
<1>1. /\ Tail(q) \in Seq(Msg) /\ Head(q) \in Msg /\ Head(q) = q[1] /\ 1 \in 1 .. Len(q)
      /\ Len(Tail(q)) = Len(q) - 1 /\ Len(q) \in Nat
      /\ \A i \in 1 .. Len(q) - 1 : Tail(q)[i] = q[i + 1]
    OBVIOUS
<1> DEFINE t == Tail(q)
<1>2. Len(t) = Len(q) - 1 /\ \A i \in 1 .. Len(q) - 1 : t[i] = q[i + 1]
    BY <1>1
<1> HIDE DEF t
<1>3. \A i \in 1 .. Len(t) : i + 1 \in 1 .. Len(q) /\ t[i] = q[i + 1]
    BY <1>1, <1>2
<1>4. ASSUME NEW i \in 1 .. Len(q), i # 1
      PROVE  i - 1 \in 1 .. Len(t) /\ t[i - 1] = q[i]
    <2>1. i - 1 \in 1 .. Len(q) - 1 /\ (i - 1) + 1 = i
        BY <1>1, <1>4
    <2> QED  BY <1>2, <2>1
<1> QED  BY <1>1, <1>3, <1>4 DEF t

(* The positions of two queues, one after the other. *)
LEMMA ConcatPlaces ==
    ASSUME NEW q \in Seq(Msg), NEW r \in Seq(Msg)
    PROVE  /\ q \o r \in Seq(Msg) /\ Len(q) \in Nat /\ Len(r) \in Nat
           /\ \A i \in 1 .. Len(q) : i \in 1 .. Len(q \o r) /\ (q \o r)[i] = q[i]
           /\ \A j \in 1 .. Len(r) : Len(q) + j \in 1 .. Len(q \o r) /\ (q \o r)[Len(q) + j] = r[j]
           /\ \A i \in 1 .. Len(q \o r) :
                  \/ i \in 1 .. Len(q)
                  \/ i - Len(q) \in 1 .. Len(r) /\ (q \o r)[i] = r[i - Len(q)]
<1> DEFINE a == q \o r
<1>1. /\ a \in Seq(Msg) /\ Len(q) \in Nat /\ Len(r) \in Nat /\ Len(a) = Len(q) + Len(r)
      /\ \A i \in 1 .. Len(q) : a[i] = q[i]
      /\ \A j \in 1 .. Len(r) : a[Len(q) + j] = r[j]
    OBVIOUS
<1> HIDE DEF a
<1>2. \A i \in 1 .. Len(q) : i \in 1 .. Len(a) /\ a[i] = q[i]
    BY <1>1
<1>3. \A j \in 1 .. Len(r) : Len(q) + j \in 1 .. Len(a) /\ a[Len(q) + j] = r[j]
    BY <1>1
<1>4. ASSUME NEW i \in 1 .. Len(a), ~(i \in 1 .. Len(q))
      PROVE  i - Len(q) \in 1 .. Len(r) /\ a[i] = r[i - Len(q)]
    <2>1. i - Len(q) \in 1 .. Len(r) /\ Len(q) + (i - Len(q)) = i
        BY <1>1, <1>4
    <2> QED  BY <1>1, <2>1
<1> QED  BY <1>1, <1>2, <1>3, <1>4 DEF a

(* No message of some types: the first is taken, others are added. *)
LEMMA NoneOfFacts ==
    ASSUME NEW q \in Seq(Msg), NEW types
    PROVE  /\ q # <<>> /\ NoneOf(q, types) => NoneOf(Tail(q), types)
           /\ q # <<>> /\ NoneOf(Tail(q), types) /\ Head(q).type \notin types => NoneOf(q, types)
           /\ q # <<>> /\ NoneOf(q, types) => Head(q).type \notin types
           /\ NoneOf(<<>>, types)
<1>1. NoneOf(<<>>, types)
    BY DEF NoneOf
<1>2. ASSUME q # <<>>, NoneOf(q, types) PROVE NoneOf(Tail(q), types) /\ Head(q).type \notin types
    BY <1>2, TailPlaces DEF NoneOf
<1>3. ASSUME q # <<>>, NoneOf(Tail(q), types), Head(q).type \notin types PROVE NoneOf(q, types)
    <2>1. ASSUME NEW i \in 1 .. Len(q) PROVE q[i].type \notin types
        <3>1. CASE i = 1
            BY <1>3, <3>1, TailPlaces
        <3>2. CASE i # 1
            <4>1. i - 1 \in 1 .. Len(Tail(q)) /\ Tail(q)[i - 1] = q[i]
                BY <1>3, <3>2, TailPlaces
            <4> QED  BY <1>3, <4>1 DEF NoneOf
        <3> QED  BY <3>1, <3>2
    <2> QED  BY <2>1 DEF NoneOf
<1> QED  BY <1>1, <1>2, <1>3

(* No message of some types: others are added. *)
LEMMA NoneOfConcat ==
    ASSUME NEW q \in Seq(Msg), NEW r \in Seq(Msg), NEW types, NoneOf(q, types), NoneOf(r, types)
    PROVE  NoneOf(q \o r, types)
BY ConcatPlaces DEF NoneOf

(* No message of some types: one message is. *)
LEMMA NoneOfOne ==
    ASSUME NEW m \in Msg, NEW types, m.type \notin types
    PROVE  <<m>> \in Seq(Msg) /\ NoneOf(<<m>>, types)
BY DEF NoneOf

(* A message that is no item is taken. *)
LEMMA RunSkips ==
    ASSUME NEW q \in Seq(Msg), q # <<>>, ~IsItem(Head(q)),
           NEW a \in Nat, NEW b \in Nat, Run(q, a, b)
    PROVE  Run(Tail(q), a, b)
<1> DEFINE t == Tail(q)
<1>1. /\ \A i \in Items(t) : i + 1 \in Items(q) /\ t[i] = q[i + 1]
      /\ \A i \in Items(q) : i - 1 \in Items(t) /\ t[i - 1] = q[i]
      /\ Len(q) \in Nat /\ Len(t) \in Nat
    BY TailPlaces DEF Items
<1> HIDE DEF t
<1>2. \A i \in Items(t) : t[i].n \in a .. b - 1
    BY <1>1 DEF Run
<1>3. ASSUME NEW n \in a .. b - 1  PROVE \E i \in Items(t) : t[i].n = n
    <2>1. PICK i \in Items(q) : q[i].n = n
        BY DEF Run
    <2>2. i - 1 \in Items(t) /\ t[i - 1] = q[i]
        BY <1>1
    <2> QED  BY <2>1, <2>2
<1>4. ASSUME NEW i \in Items(t), NEW j \in Items(t), i < j PROVE t[i].n < t[j].n
    <2>1. i + 1 < j + 1
        BY <1>1, <1>4 DEF Items
    <2> QED  BY <1>1, <2>1 DEF Run
<1>5. a <= b
    BY DEF Run
<1> QED  BY <1>2, <1>3, <1>4, <1>5 DEF Run, t

(* Messages that are no items are added. *)
LEMMA RunExtends ==
    ASSUME NEW q \in Seq(Msg), NEW r \in Seq(Msg), NoneOf(r, ItemTypes),
           NEW a \in Nat, NEW b \in Nat, Run(q, a, b)
    PROVE  Run(q \o r, a, b)
<1> DEFINE t == q \o r
<1>1. ASSUME NEW i PROVE i \in Items(t) <=> i \in Items(q)
    BY <1>1, ConcatPlaces DEF Items, NoneOf, IsItem, ItemTypes
<1>2. \A i \in Items(q) : t[i] = q[i]
    BY ConcatPlaces DEF Items
<1> HIDE DEF t
<1> QED  BY <1>1, <1>2 DEF Run, t

(* The next item is added. *)
LEMMA RunGrows ==
    ASSUME NEW q \in Seq(Msg), NEW m \in Msg, IsItem(m),
           NEW a \in Nat, NEW b \in Nat, Run(q, a, b), m.n = b
    PROVE  Run(q \o <<m>>, a, b + 1)
<1> DEFINE t == q \o <<m>>
           s == <<m>>
<1>1. s \in Seq(Msg) /\ Len(s) = 1 /\ s[1] = m
    OBVIOUS
<1> HIDE DEF s
<1>2. /\ t \in Seq(Msg) /\ Len(q) \in Nat
      /\ \A i \in 1 .. Len(q) : i \in 1 .. Len(t) /\ t[i] = q[i]
      /\ Len(q) + 1 \in 1 .. Len(t) /\ t[Len(q) + 1] = m
      /\ \A i \in 1 .. Len(t) : i \in 1 .. Len(q) \/ i = Len(q) + 1
    <2>1. t = q \o s
        BY DEF s
    <2> HIDE DEF t
    <2>2. 1 \in 1 .. Len(s)
        BY <1>1
    <2>3. /\ t \in Seq(Msg) /\ Len(q) \in Nat
          /\ \A i \in 1 .. Len(q) : i \in 1 .. Len(t) /\ t[i] = q[i]
          /\ Len(q) + 1 \in 1 .. Len(t) /\ t[Len(q) + 1] = s[1]
          /\ \A i \in 1 .. Len(t) : i \in 1 .. Len(q) \/ i - Len(q) \in 1 .. Len(s)
        BY <1>1, <2>1, <2>2, ConcatPlaces
    <2> QED  BY <1>1, <2>3
<1> HIDE DEF t
<1>3. /\ \A i \in Items(q) : i \in Items(t) /\ t[i] = q[i]
      /\ Len(q) + 1 \in Items(t) /\ t[Len(q) + 1].n = b
      /\ \A i \in Items(t) : (i \in Items(q) /\ t[i] = q[i]) \/ i = Len(q) + 1
    BY <1>2 DEF Items
<1>4. \A i \in Items(t) : t[i].n \in a .. (b + 1) - 1
    <2>1. \A i \in Items(q) : q[i].n \in a .. b - 1 /\ a <= b
        BY DEF Run
    <2> QED  BY <1>3, <2>1 DEF Run
<1>5. ASSUME NEW n \in a .. (b + 1) - 1 PROVE \E i \in Items(t) : t[i].n = n
    <2>1. CASE n = b
        BY <1>3, <2>1
    <2>2. CASE n # b
        <3>1. n \in a .. b - 1
            BY <2>2
        <3> QED  BY <1>3, <3>1 DEF Run
    <2> QED  BY <2>1, <2>2
<1>6. ASSUME NEW i \in Items(t), NEW j \in Items(t), i < j PROVE t[i].n < t[j].n
    <2>1. i \in Items(q) /\ t[i] = q[i]
        <3>1. CASE i = Len(q) + 1
            BY <1>2, <1>6, <3>1 DEF Items
        <3> QED  BY <1>3, <3>1
    <2>2. CASE j \in Items(q) /\ t[j] = q[j]
        BY <1>6, <2>1, <2>2 DEF Run
    <2>3. CASE j = Len(q) + 1
        <3>1. q[i].n \in a .. b - 1
            BY <2>1 DEF Run
        <3> QED  BY <1>3, <2>1, <2>3, <3>1
    <2> QED  BY <1>3, <2>2, <2>3
<1>7. a <= b + 1
    BY DEF Run
<1> QED  BY <1>4, <1>5, <1>6, <1>7 DEF Run, t

(* The first item is taken: it is the first number. *)
LEMMA RunPops ==
    ASSUME NEW q \in Seq(Msg), q # <<>>, IsItem(Head(q)), NEW a \in Nat, NEW b \in Nat, Run(q, a, b)
    PROVE  Head(q).n = a /\ a + 1 <= b /\ Run(Tail(q), a + 1, b)
<1> DEFINE t == Tail(q)
<1>1. /\ 1 \in Items(q) /\ Head(q) = q[1]
      /\ \A i \in Items(t) : i + 1 \in Items(q) /\ t[i] = q[i + 1]
      /\ \A i \in Items(q) : i # 1 => i - 1 \in Items(t) /\ t[i - 1] = q[i]
      /\ Len(q) \in Nat /\ Len(t) \in Nat
    BY TailPlaces DEF Items
<1> HIDE DEF t
<1>2. q[1].n \in a .. b - 1
    BY <1>1 DEF Run
<1>3. \A i \in Items(q) : i # 1 => q[1].n < q[i].n /\ q[i].n \in a .. b - 1
    <2>1. \A i \in Items(q) : i # 1 => 1 < i
        BY <1>1 DEF Items
    <2> QED  BY <1>1, <2>1 DEF Run
<1>4. q[1].n = a
    <2>1. PICK i \in Items(q) : q[i].n = a
        BY <1>2 DEF Run
    <2> QED  BY <1>2, <1>3, <2>1
<1>5. \A i \in Items(t) : t[i].n \in a + 1 .. b - 1
    <2> TAKE i \in Items(t)
    <2>1. i + 1 \in Items(q) /\ t[i] = q[i + 1] /\ i + 1 # 1
        BY <1>1 DEF Items
    <2> QED  BY <1>3, <1>4, <2>1
<1>6. ASSUME NEW n \in a + 1 .. b - 1 PROVE \E i \in Items(t) : t[i].n = n
    <2>1. n \in a .. b - 1 /\ n # a
        OBVIOUS
    <2>2. PICK i \in Items(q) : q[i].n = n
        BY <2>1 DEF Run
    <2> QED  BY <1>1, <1>4, <2>1, <2>2
<1>7. ASSUME NEW i \in Items(t), NEW j \in Items(t), i < j PROVE t[i].n < t[j].n
    <2>1. i + 1 < j + 1
        BY <1>1, <1>7 DEF Items
    <2> QED  BY <1>1, <2>1, <1>7 DEF Run
<1>8. a + 1 <= b
    BY <1>2
<1> QED  BY <1>1, <1>4, <1>5, <1>6, <1>7, <1>8 DEF Run, t

-----------------------------------------------------------------------------
(* What is under way of a peer's items.                                    *)

(* The other peer has the key of p. *)
Holds(p) == IF p = "guest" THEN child # "none" ELSE cipher

(* What it is told goes somewhere, or will. *)
Listening(p) == p = "guest" => child \in {"none", "running"}

(* The number of the item it waits for, and of the next one p makes. *)
Awaited(p) == IF Holds(p) THEN Len(Heard(p)) + 1 ELSE 0
Due(p) == IF sessionId[p] THEN Made(p) + 1 ELSE 0

(* How many chunks p has made in plain text. *)
Plain(p) == IF p = "guest" THEN typed - sendCounter["guest"] ELSE 0

Out(p) == up[First(p)]
In(p) == down[First(Other(p))]

(* What the relay forwards arrives. *)
Flows(p) == state = "active" /\ serverState[First(Other(p))] = "open"

(* The chunks in plain text come first, then those with counters 1, 2... *)
Numbered(p, m) ==
    IsItem(m) =>
        /\ m.n <= Made(p)
        /\ m.type = "KEY_EXCHANGE" <=> m.n = 0
        /\ m.type = "PTY_INPUT" => m.n <= Plain(p)
        /\ m.type = "ENCRYPTED_DATA" =>
               Plain(p) < m.n /\ m.counter = m.n - Plain(p) /\ m.counter <= sendCounter[p]

AllNumbered(p, q) == \A i \in 1 .. Len(q) : Numbered(p, q[i])

(* What p sends is the next item, as long as its connection is open. *)
Tells(p, mid) ==
    /\ AllNumbered(p, Out(p))
    /\ \E end \in 0 .. Made(p) + 1 : /\ Run(Out(p), mid, end)
                                     /\ readyState[First(p)] = "open" => end = Due(p)

(* In(p) begins with the number awaited, and Out(p) where In(p) ends. *)
Passing(p, start, mid) ==
    /\ Run(In(p), start, mid)
    /\ Flows(p) => Tells(p, mid)
    /\ Listening(p) => start = Awaited(p)
    /\ Holds(p) => start # 0

PassInv(p) ==
    /\ AllNumbered(p, In(p))
    /\ \E start, mid \in 0 .. Made(p) + 1 : Passing(p, start, mid)

(* What was heard is all there was before it. *)
HeardInv(p) ==
    /\ \A i \in 1 .. Len(Heard(p)) : Heard(p)[i] = i
    /\ Len(Heard(p)) <= Made(p)
    /\ ~Holds(p) => Heard(p) = <<>>
    /\ Listening(p) =>
           recvCounter[Other(p)] = IF Len(Heard(p)) <= Plain(p) THEN 0
                                                                ELSE Len(Heard(p)) - Plain(p)

(* The queues and the terminals are well typed. *)
WaysTypeOK ==
    /\ up \in [Connection -> Seq(Msg)] /\ down \in [Connection -> Seq(Msg)]
    /\ readyState \in [Connection -> {"absent", "connecting", "open", "closing", "closed"}]
    /\ serverState \in [Connection -> {"absent", "open", "closing", "closed"}]
    /\ timers \in [Peer -> [Attempt -> Nat]]
    /\ isClosed \in [Peer -> BOOLEAN] /\ sessionId \in [Peer -> BOOLEAN]
    /\ child \in {"none", "running", "killed", "exited"}
    /\ cipher \in BOOLEAN /\ currentSocket \in Connection /\ Owner(currentSocket) = "guest"
    /\ sendCounter \in [Peer -> Nat] /\ recvCounter \in [Peer -> Nat]
    /\ typed \in Nat /\ printed \in Nat
    /\ shellRead \in Seq(Nat) /\ shown \in Seq(Nat)
    /\ state \in {"active", "ended"}

(* a has the items of q. *)
SameItems(a, q) ==
    \/ a = q
    \/ q # <<>> /\ ~IsItem(Head(q)) /\ a = Tail(q)
    \/ \E out \in Seq(Msg) : NoneOf(out, ItemTypes) /\ a = q \o out

(* The first connections are connections. *)
LEMMA FirstIn ==
    ASSUME NEW p \in Peer
    PROVE  First(p) \in Connection /\ Owner(First(p)) = p /\ Other(p) \in Peer
           /\ First(Other(p)) \in Connection /\ First(Other(p)) # First(p)
BY SessionAssumption DEF First, Connection, Owner, Other, Peer

(* The numbers of the items stay. *)
LEMMA SameItemsFacts ==
    ASSUME NEW q \in Seq(Msg), NEW a, SameItems(a, q)
    PROVE  /\ a \in Seq(Msg)
           /\ \A s, e \in Nat : Run(q, s, e) => Run(a, s, e)
           /\ \A p \in Peer : AllNumbered(p, q) => AllNumbered(p, a)
<1>1. CASE a = q
    BY <1>1
<1>2. CASE q # <<>> /\ ~IsItem(Head(q)) /\ a = Tail(q)
    <2>1. \A p \in Peer : AllNumbered(p, q) => AllNumbered(p, a)
        BY <1>2, TailPlaces DEF AllNumbered
    <2> QED  BY <1>2, <2>1, RunSkips, TailPlaces
<1>3. ASSUME NEW out \in Seq(Msg), NoneOf(out, ItemTypes), a = q \o out
      PROVE  /\ a \in Seq(Msg)
             /\ \A s, e \in Nat : Run(q, s, e) => Run(a, s, e)
             /\ \A p \in Peer : AllNumbered(p, q) => AllNumbered(p, a)
    <2>1. a \in Seq(Msg) /\ \A s, e \in Nat : Run(q, s, e) => Run(a, s, e)
        BY <1>3, RunExtends, ConcatPlaces
    <2>2. \A i \in 1 .. Len(a) : (i \in 1 .. Len(q) /\ a[i] = q[i]) \/ ~IsItem(a[i])
        BY <1>3, ConcatPlaces DEF NoneOf, ItemTypes, IsItem
    <2>3. \A p \in Peer : AllNumbered(p, q) => AllNumbered(p, a)
        BY <2>2 DEF AllNumbered, Numbered
    <2> QED  BY <2>1, <2>3
<1> QED  BY <1>1, <1>2, <1>3 DEF SameItems

(* Nothing p made becomes anything else. *)
KeepsNumbers(p) == /\ Made(p) <= Made(p)' /\ Made(p)' \in Nat
                   /\ \A m \in Msg : Numbered(p, m) => Numbered(p, m)'

(* p tells nothing new. *)
TellsSame(p) ==
    Flows(p)' => /\ Flows(p) /\ SameItems(Out(p)', Out(p))
                 /\ readyState'[First(p)] = "open" =>
                        readyState[First(p)] = "open" /\ Due(p)' = Due(p)

(* A step that neither makes nor moves an item. *)
LEMMA TellsKept ==
    ASSUME NEW p \in Peer, WaysTypeOK, KeepsNumbers(p), TellsSame(p), Flows(p)',
           NEW mid \in Nat, Flows(p) => Tells(p, mid)
    PROVE  Tells(p, mid)'
<1>1. Out(p) \in Seq(Msg)
    BY FirstIn DEF WaysTypeOK, Out
<1>2. Flows(p) /\ SameItems(Out(p)', Out(p))
    BY DEF TellsSame
<1>3. PICK end \in 0 .. Made(p) + 1 : /\ Run(Out(p), mid, end)
                                      /\ readyState[First(p)] = "open" => end = Due(p)
    BY <1>2 DEF Tells
<1>4. Made(p) \in Nat
    BY DEF WaysTypeOK, Made
<1>5. PICK q : q = Out(p)'
    OBVIOUS
<1>6. Run(q, mid, end) /\ q \in Seq(Msg) /\ AllNumbered(p, q)
    BY <1>1, <1>2, <1>3, <1>5, SameItemsFacts DEF Tells
<1>7. AllNumbered(p, Out(p))'
    <2>1. \A i \in 1 .. Len(q) : q[i] \in Msg /\ Numbered(p, q[i])
        BY <1>6 DEF AllNumbered
    <2>2. \A i \in 1 .. Len(q) : Numbered(p, q[i])'
        BY <2>1 DEF KeepsNumbers
    <2> QED  BY <1>5, <2>2 DEF AllNumbered
<1>8. end \in 0 .. Made(p)' + 1
    BY <1>4 DEF KeepsNumbers
<1>9. readyState'[First(p)] = "open" => end = Due(p)'
    BY <1>2, <1>3 DEF TellsSame
<1> QED  BY <1>5, <1>6, <1>7, <1>8, <1>9 DEF Tells

(* The items of a queue keep their numbers. *)
LEMMA NumbersKept ==
    ASSUME NEW p \in Peer, KeepsNumbers(p), NEW q \in Seq(Msg), AllNumbered(p, q)
    PROVE  \A i \in 1 .. Len(q) : Numbered(p, q[i])'
<1>1. \A i \in 1 .. Len(q) : q[i] \in Msg /\ Numbered(p, q[i])
    BY DEF AllNumbered
<1> QED  BY <1>1 DEF KeepsNumbers

(* The other peer waits for the same item. *)
HearsNothing(p) ==
    /\ SameItems(In(p)', In(p))
    /\ Listening(p)' => Listening(p) /\ Awaited(p)' = Awaited(p)
    /\ Holds(p)' => Holds(p)

(* Nothing is made, moved or heard. *)
LEMMA PassQuiet ==
    ASSUME NEW p \in Peer, WaysTypeOK, PassInv(p), KeepsNumbers(p), TellsSame(p), HearsNothing(p)
    PROVE  PassInv(p)'
<1>1. In(p) \in Seq(Msg) /\ Made(p) \in Nat
    BY FirstIn DEF WaysTypeOK, In, Made
<1>2. PICK start \in 0 .. Made(p) + 1, mid \in 0 .. Made(p) + 1 : Passing(p, start, mid)
    BY DEF PassInv
<1>3. PICK q : q = In(p)'
    OBVIOUS
<1>4. q \in Seq(Msg) /\ Run(q, start, mid) /\ AllNumbered(p, q)
    BY <1>1, <1>2, <1>3, SameItemsFacts DEF Passing, HearsNothing, PassInv
<1>5. AllNumbered(p, In(p))'
    BY <1>3, <1>4, NumbersKept DEF AllNumbered
<1>6. Flows(p)' => Tells(p, mid)'
    BY <1>1, <1>2, TellsKept DEF Passing
<1>7. Passing(p, start, mid)'
    BY <1>2, <1>3, <1>4, <1>6 DEF Passing, HearsNothing
<1>8. start \in 0 .. Made(p)' + 1 /\ mid \in 0 .. Made(p)' + 1
    BY <1>1 DEF KeepsNumbers
<1> QED  BY <1>5, <1>7, <1>8 DEF PassInv

(* The next item under way is the one that is awaited. *)
LEMMA HeadDue ==
    ASSUME NEW p \in Peer, WaysTypeOK, PassInv(p), In(p) # <<>>, IsItem(Head(In(p)))
    PROVE  /\ Numbered(p, Head(In(p))) /\ Head(In(p)) \in Msg
           /\ Listening(p) => Head(In(p)).n = Awaited(p)
           /\ Holds(p) => Head(In(p)).n # 0
<1>1. In(p) \in Seq(Msg) /\ Made(p) \in Nat
    BY FirstIn DEF WaysTypeOK, In, Made
<1>2. PICK start \in 0 .. Made(p) + 1, mid \in 0 .. Made(p) + 1 : Passing(p, start, mid)
    BY DEF PassInv
<1>3. Head(In(p)).n = start
    BY <1>1, <1>2, RunPops DEF Passing
<1>4. Numbered(p, Head(In(p))) /\ Head(In(p)) \in Msg
    BY <1>1, TailPlaces DEF PassInv, AllNumbered
<1> QED  BY <1>2, <1>3, <1>4 DEF Passing

(* The next item is heard, or the shell that would hear it is gone. *)
LEMMA PassHears ==
    ASSUME NEW p \in Peer, WaysTypeOK, PassInv(p), KeepsNumbers(p), TellsSame(p),
           In(p) # <<>>, IsItem(Head(In(p))), In(p)' = Tail(In(p)),
           Listening(p)' => Listening(p) /\ Awaited(p)' = Awaited(p) + 1
    PROVE  PassInv(p)'
<1>1. In(p) \in Seq(Msg) /\ Made(p) \in Nat
    BY FirstIn DEF WaysTypeOK, In, Made
<1>2. PICK start \in 0 .. Made(p) + 1, mid \in 0 .. Made(p) + 1 : Passing(p, start, mid)
    BY DEF PassInv
<1>3. PICK q : q = In(p)'
    OBVIOUS
<1>4. q \in Seq(Msg) /\ Run(q, start + 1, mid) /\ start + 1 <= mid /\ AllNumbered(p, q)
    <2>1. Run(In(p), start, mid) /\ AllNumbered(p, In(p))
        BY <1>2 DEF Passing, PassInv
    <2>2. q \in Seq(Msg) /\ Run(q, start + 1, mid) /\ start + 1 <= mid
        BY <1>1, <1>3, <2>1, RunPops, TailPlaces
    <2>3. AllNumbered(p, q)
        BY <1>1, <1>3, <2>1, TailPlaces DEF AllNumbered
    <2> QED  BY <2>2, <2>3
<1>5. AllNumbered(p, In(p))'
    BY <1>3, <1>4, NumbersKept DEF AllNumbered
<1>6. Flows(p)' => Tells(p, mid)'
    BY <1>1, <1>2, TellsKept DEF Passing
<1>7. start + 1 # 0 /\ (Listening(p)' => start + 1 = Awaited(p)')
    BY <1>2 DEF Passing
<1>8. Passing(p, start + 1, mid)'
    BY <1>3, <1>4, <1>6, <1>7 DEF Passing
<1>9. start + 1 \in 0 .. Made(p)' + 1 /\ mid \in 0 .. Made(p)' + 1
    BY <1>1, <1>4 DEF KeepsNumbers
<1> QED  BY <1>5, <1>8, <1>9 DEF PassInv

(* The relay moves an item from one queue to the other. *)
LEMMA PassForwards ==
    ASSUME NEW p \in Peer, WaysTypeOK, PassInv(p), KeepsNumbers(p), Flows(p), Flows(p)',
           Made(p)' = Made(p), Due(p)' = Due(p), readyState' = readyState,
           Out(p) # <<>>, IsItem(Head(Out(p))),
           Out(p)' = Tail(Out(p)), In(p)' = In(p) \o <<Head(Out(p))>>,
           Listening(p)' => Listening(p) /\ Awaited(p)' = Awaited(p), Holds(p)' => Holds(p)
    PROVE  PassInv(p)'
<1>1. In(p) \in Seq(Msg) /\ Out(p) \in Seq(Msg) /\ Made(p) \in Nat
    BY FirstIn DEF WaysTypeOK, In, Out, Made
<1>2. PICK start \in 0 .. Made(p) + 1, mid \in 0 .. Made(p) + 1 : Passing(p, start, mid)
    BY DEF PassInv
<1>3. PICK end \in 0 .. Made(p) + 1 : /\ Run(Out(p), mid, end)
                                      /\ readyState[First(p)] = "open" => end = Due(p)
    BY <1>2 DEF Passing, Tells
<1>4. PICK m \in Msg : m = Head(Out(p))
    BY <1>1, TailPlaces
<1>5. PICK q : q = In(p)'
    OBVIOUS
<1>6. PICK r : r = Out(p)'
    OBVIOUS
<1>7. m.n = mid /\ mid + 1 <= end /\ Run(r, mid + 1, end) /\ r \in Seq(Msg)
    BY <1>1, <1>3, <1>4, <1>6, RunPops, TailPlaces
<1>8. /\ \A i \in 1 .. Len(Out(p)) : Numbered(p, Out(p)[i])
      /\ \A i \in 1 .. Len(In(p)) : Numbered(p, In(p)[i])
    BY <1>2 DEF Passing, Tells, PassInv, AllNumbered
<1>9. /\ q \in Seq(Msg) /\ Run(q, start, mid + 1)
      /\ AllNumbered(p, q)
    <2>1. q = In(p) \o <<m>> /\ <<m>> \in Seq(Msg) /\ IsItem(m)
        BY <1>4, <1>5
    <2>2. Run(q, start, mid + 1)
        BY <1>1, <1>2, <1>7, <2>1, RunGrows DEF Passing
    <2>3. Numbered(p, m)
        BY <1>1, <1>4, <1>8, TailPlaces
    <2>4. Len(<<m>>) = 1 /\ <<m>>[1] = m
        OBVIOUS
    <2>5. AllNumbered(p, q)
        BY <1>1, <1>8, <2>1, <2>3, <2>4, ConcatPlaces DEF AllNumbered
    <2> QED  BY <1>1, <2>1, <2>2, <2>5, ConcatPlaces
<1>10. AllNumbered(p, r)
    BY <1>1, <1>6, <1>8, TailPlaces DEF AllNumbered
<1>11. AllNumbered(p, In(p))' /\ AllNumbered(p, Out(p))'
    BY <1>5, <1>6, <1>7, <1>9, <1>10, NumbersKept DEF AllNumbered
<1>12. Tells(p, mid + 1)'
    BY <1>3, <1>6, <1>7, <1>11 DEF Tells
<1>13. Passing(p, start, mid + 1)'
    BY <1>2, <1>5, <1>9, <1>12 DEF Passing
<1>14. start \in 0 .. Made(p)' + 1 /\ mid + 1 \in 0 .. Made(p)' + 1
    BY <1>1, <1>7
<1> QED  BY <1>11, <1>13, <1>14 DEF PassInv

(* p makes an item and sends it, with messages that are none. *)
LEMMA PassMakes ==
    ASSUME NEW p \in Peer, WaysTypeOK, PassInv(p), KeepsNumbers(p),
           readyState[First(p)] = "open", Flows(p)' => Flows(p),
           NEW m \in Msg, NEW rest \in Seq(Msg), IsItem(m), NoneOf(rest, ItemTypes),
           m.n = Due(p), Due(p)' = Due(p) + 1, Numbered(p, m)',
           Out(p)' = (Out(p) \o <<m>>) \o rest, In(p)' = In(p),
           Listening(p)' => Listening(p) /\ Awaited(p)' = Awaited(p), Holds(p)' => Holds(p)
    PROVE  PassInv(p)'
<1>1. In(p) \in Seq(Msg) /\ Out(p) \in Seq(Msg) /\ Made(p) \in Nat
    BY FirstIn DEF WaysTypeOK, In, Out, Made
<1>2. PICK start \in 0 .. Made(p) + 1, mid \in 0 .. Made(p) + 1 : Passing(p, start, mid)
    BY DEF PassInv
<1>3. PICK r : r = Out(p)'
    OBVIOUS
<1>4. AllNumbered(p, In(p))'
    BY <1>1, NumbersKept DEF AllNumbered, PassInv
<1>5. ASSUME Flows(p)'
      PROVE  Tells(p, mid)'
    <2>1. PICK end \in 0 .. Made(p) + 1 : Run(Out(p), mid, end) /\ end = Due(p)
        BY <1>2, <1>5 DEF Passing, Tells
    <2>2. AllNumbered(p, Out(p))
        BY <1>2, <1>5 DEF Passing, Tells
    <2>3. PICK s : s = Out(p) \o <<m>> /\ s \in Seq(Msg)
        <3>1. Out(p) \o <<m>> \in Seq(Msg)
            BY <1>1
        <3> QED  BY <3>1
    <2>4. Run(s, mid, end + 1) /\ r = s \o rest
        BY <1>1, <1>3, <2>1, <2>3, RunGrows
    <2>5. Run(r, mid, end + 1) /\ r \in Seq(Msg)
        <3>1. mid \in Nat /\ end + 1 \in Nat
            BY <1>1
        <3>2. Run(s \o rest, mid, end + 1)
            BY <2>3, <2>4, <3>1, RunExtends
        <3>3. s \o rest \in Seq(Msg)
            BY <2>3, ConcatPlaces
        <3> QED  BY <2>4, <3>2, <3>3
    <2>6. \A i \in 1 .. Len(Out(p)) : Numbered(p, Out(p)[i])'
        BY <1>1, <2>2, NumbersKept
    <2>7. Len(<<m>>) = 1 /\ <<m>>[1] = m /\ <<m>> \in Seq(Msg)
        OBVIOUS
    <2>8. \A i \in 1 .. Len(s) : Numbered(p, s[i])'
        <3> TAKE i \in 1 .. Len(s)
        <3>1. CASE i \in 1 .. Len(Out(p))
            <4>1. s[i] = Out(p)[i]
                BY <1>1, <2>3, <2>7, <3>1, ConcatPlaces
            <4> QED  BY <2>6, <3>1, <4>1
        <3>2. CASE i \notin 1 .. Len(Out(p))
            <4>1. s[i] = m
                BY <1>1, <2>3, <2>7, <3>2, ConcatPlaces
            <4> QED  BY <4>1
        <3> QED  BY <3>1, <3>2
    <2>9. \A i \in 1 .. Len(r) : Numbered(p, r[i])'
        <3> TAKE i \in 1 .. Len(r)
        <3>1. CASE i \in 1 .. Len(s)
            BY <2>4, <2>8, <3>1, ConcatPlaces
        <3>2. CASE i \notin 1 .. Len(s)
            <4>1. ~IsItem(r[i])
                BY <2>4, <3>2, ConcatPlaces DEF NoneOf, ItemTypes, IsItem
            <4> QED  BY <4>1 DEF Numbered
        <3> QED  BY <3>1, <3>2
    <2>10. AllNumbered(p, Out(p))'
        BY <1>3, <2>9 DEF AllNumbered
    <2>11. end + 1 \in 0 .. Made(p)' + 1 /\ end + 1 = Due(p)'
        <3>1. m.n <= Made(p)'
            BY DEF Numbered
        <3> QED  BY <2>1, <3>1 DEF KeepsNumbers
    <2> QED  BY <1>3, <2>5, <2>10, <2>11 DEF Tells
<1>6. Passing(p, start, mid)'
    BY <1>2, <1>5 DEF Passing
<1>7. start \in 0 .. Made(p)' + 1 /\ mid \in 0 .. Made(p)' + 1
    BY <1>1 DEF KeepsNumbers
<1> QED  BY <1>4, <1>6, <1>7 DEF PassInv

-----------------------------------------------------------------------------
(* What else holds without a lost connection.                              *)

(* While the session lasts each peer has its first connection, closes it   *)
(* only to end, and is neither refused anything nor disconnected.          *)
LastsInv ==
    state = "active" =>
        /\ \A c \in Connection : c # First(Owner(c)) => readyState[c] = "absent"
        /\ currentSocket = First("guest")
        /\ \A p \in Peer :
               /\ seat[p] = First(p) /\ First(p) \in roomsBySocket
               /\ \A n \in Attempt : timers[p][n] = 0
               /\ NoneOf(down[First(p)], {"ERROR"})
               /\ \/ isClosed[p]
                  \/ /\ readyState[First(p)] = "open"
                     /\ NoneOf(down[First(p)], {"CLOSE"}) /\ NoneOf(up[First(p)], {"CLOSE"})

(* Other connections carry no items, and SESSION_READY comes once, first.  *)
LineInv ==
    /\ \A c \in Connection : c # First(Owner(c)) =>
           /\ readyState[c] \in {"absent", "connecting"} => up[c] = <<>>
           /\ NoneOf(down[c], ItemTypes \cup {"SESSION_READY"})
    /\ \A p \in Peer :
           /\ readyState[First(p)] \in {"open", "closing", "closed"}
           /\ sessionId[p] => NoneOf(down[First(p)], {"SESSION_READY"})
           /\ ~sessionId[p] => /\ down[First(p)] # <<>>
                               /\ Head(down[First(p)]).type = "SESSION_READY"
                               /\ NoneOf(Tail(down[First(p)]), {"SESSION_READY"})

(* The shell is on the host's first connection; chunks are made and        *)
(* counted when there are keys.                                            *)
ChunksInv ==
    /\ child = "none" => printed = 0
    /\ child # "none" => sessionId["host"] /\ childSocket = First("host")
    /\ ~sessionId["guest"] => typed = 0
    /\ ~cipher => sendCounter["guest"] = 0
    /\ sendCounter["guest"] <= typed
    /\ readyState[First("host")] = "open" => sendCounter["host"] = printed

WholeInv ==
    /\ WaysTypeOK /\ LastsInv /\ LineInv /\ ChunksInv
    /\ \A p \in Peer : PassInv(p) /\ HeardInv(p)

(* The shell runs as before, or no more. *)
ShellStops == child' = child \/ (child # "none" /\ child' \in {"killed", "exited"})

(* No chunk is made or heard, and no key. *)
NothingHeard ==
    UNCHANGED <<typed, printed, shellRead, shown, sendCounter, recvCounter, cipher>> /\ ShellStops

(* Then the other peer waits for the same item, if it still does. *)
LEMMA NothingHeardFacts ==
    ASSUME WaysTypeOK, NEW p \in Peer, NothingHeard
    PROVE  /\ KeepsNumbers(p) /\ Made(p)' = Made(p) /\ Heard(p)' = Heard(p)
           /\ Listening(p)' => Listening(p) /\ Awaited(p)' = Awaited(p)
           /\ Holds(p)' = Holds(p) /\ Plain(p)' = Plain(p)
           /\ HeardInv(p) => HeardInv(p)'
<1>1. Made(p)' = Made(p) /\ Heard(p)' = Heard(p) /\ Plain(p)' = Plain(p) /\ Made(p) \in Nat
    BY DEF NothingHeard, Made, Heard, Plain, WaysTypeOK
<1>2. KeepsNumbers(p)
    <2>1. sendCounter' = sendCounter
        BY DEF NothingHeard
    <2> QED  BY <1>1, <2>1 DEF KeepsNumbers, Numbered
<1>3. /\ Listening(p)' => Listening(p)
      /\ Holds(p)' = Holds(p)
    BY DEF NothingHeard, ShellStops, Listening, Holds, WaysTypeOK
<1>4. Awaited(p)' = Awaited(p)
    BY <1>1, <1>3 DEF Awaited
<1>5. recvCounter' = recvCounter
    BY DEF NothingHeard
<1>6. HeardInv(p) => HeardInv(p)'
    BY <1>1, <1>3, <1>5 DEF HeardInv
<1> QED  BY <1>1, <1>2, <1>3, <1>4, <1>6

(* The message at the head of a queue is handled. *)
Handles(c, types) ==
    /\ down[c] # <<>> /\ Head(down[c]).type \in types
    /\ down' = [down EXCEPT ![c] = Tail(@)]

QuietTypes == (Forwarded \cup Ends \cup {"RECONNECT", "RECONNECT_OK", "ERROR", "CLOSE"}) \ ItemTypes

(* A step of a peer that moves no item. *)
PeerActs(c) ==
    /\ down' = down \/ Handles(c, QuietTypes)
    /\ \E out \in Seq(Msg) :
           /\ NoneOf(out, ItemTypes) /\ PeerSends(c, out)
           /\ NoneOf(out, {"CLOSE"}) \/ isClosed'[Owner(c)] \/ state = "ended"
    /\ \/ readyState' = readyState
       \/ /\ readyState[c] \in {"open", "closing"}
          /\ \E v \in {"closing", "closed"} : readyState' = [readyState EXCEPT ![c] = v]
          /\ isClosed'[Owner(c)] \/ state = "ended"
    /\ isClosed' \in [Peer -> BOOLEAN] /\ \A p \in Peer : isClosed[p] => isClosed'[p]
    /\ timers' \in [Peer -> [Attempt -> Nat]] /\ (timers' = timers \/ state = "ended")
    /\ NothingHeard
    /\ UNCHANGED <<serverState, sessionId, childSocket, currentSocket, state, seat, roomsBySocket>>

(* What a peer sends is added to its queue, or not. *)
LEMMA SendsFacts ==
    ASSUME WaysTypeOK, cut = {}, NEW c \in Connection, NEW out \in Seq(Msg), PeerSends(c, out)
    PROVE  /\ up' \in [Connection -> Seq(Msg)]
           /\ readyState[c] = "open" => up'[c] = up[c] \o out
           /\ readyState[c] # "open" => up'[c] = up[c]
           /\ \A d \in Connection : d # c => up'[d] = up[d]
<1>1. /\ up' = [up EXCEPT ![c] = Carried(c, out)] /\ up \in [Connection -> Seq(Msg)]
    BY DEF PeerSends, WaysTypeOK
<1>2. Carried(c, out) \in Seq(Msg)
    BY <1>1 DEF Carried
<1> QED  BY <1>1, <1>2 DEF Carried

(* What a handler takes is gone from its queue. *)
LEMMA HandlesFacts ==
    ASSUME WaysTypeOK, NEW c \in Connection, NEW types, Handles(c, types)
    PROVE  /\ down' \in [Connection -> Seq(Msg)]
           /\ down'[c] = Tail(down[c]) /\ down[c] # <<>> /\ Head(down[c]).type \in types
           /\ \A d \in Connection : d # c => down'[d] = down[d]
<1>1. down \in [Connection -> Seq(Msg)] /\ down[c] \in Seq(Msg) /\ down[c] # <<>>
    BY DEF Handles, WaysTypeOK
<1>2. Tail(down[c]) \in Seq(Msg)
    BY <1>1
<1> QED  BY <1>1, <1>2 DEF Handles

(* After such a step the connections are as they should be. *)
LEMMA PeerActsLine ==
    ASSUME WholeInv, cut = {}, NEW c \in Connection, PeerActs(c)
    PROVE  WaysTypeOK' /\ LastsInv' /\ LineInv'
<1> DEFINE RS == {"absent", "connecting", "open", "closing", "closed"}
<1>1. WaysTypeOK
    BY DEF WholeInv
<1>2. PICK out \in Seq(Msg) : /\ NoneOf(out, ItemTypes) /\ PeerSends(c, out)
                              /\ NoneOf(out, {"CLOSE"}) \/ isClosed'[Owner(c)] \/ state = "ended"
    BY DEF PeerActs
<1>3. /\ up' \in [Connection -> Seq(Msg)]
      /\ readyState[c] = "open" => up'[c] = up[c] \o out
      /\ readyState[c] # "open" => up'[c] = up[c]
      /\ \A d \in Connection : d # c => up'[d] = up[d]
    BY <1>1, <1>2, SendsFacts
<1>4. \A d \in Connection : up[d] \in Seq(Msg) /\ down[d] \in Seq(Msg) /\ Owner(d) \in Peer
    BY <1>1 DEF WaysTypeOK, Connection, Owner
<1>5. /\ down' \in [Connection -> Seq(Msg)]
      /\ \A d \in Connection : \/ down'[d] = down[d]
                               \/ /\ d = c /\ down'[d] = Tail(down[d]) /\ down[d] # <<>>
                                  /\ Head(down[d]).type \in QuietTypes
    <2>1. CASE down' = down
        BY <1>1, <2>1 DEF WaysTypeOK
    <2>2. CASE Handles(c, QuietTypes)
        BY <1>1, <2>2, HandlesFacts
    <2> QED  BY <2>1, <2>2 DEF PeerActs
<1>6. /\ readyState' \in [Connection -> RS]
      /\ \A d \in Connection :
             \/ readyState'[d] = readyState[d]
             \/ /\ d = c /\ readyState[d] \in {"open", "closing"}
                /\ readyState'[d] \in {"closing", "closed"}
                /\ isClosed'[Owner(d)] \/ state = "ended"
    <2>1. readyState \in [Connection -> RS]
        BY <1>1 DEF WaysTypeOK
    <2>2. CASE readyState' = readyState
        BY <2>1, <2>2
    <2>3. ASSUME NEW v \in {"closing", "closed"}, readyState' = [readyState EXCEPT ![c] = v],
                 readyState[c] \in {"open", "closing"}, isClosed'[Owner(c)] \/ state = "ended"
          PROVE  /\ readyState' \in [Connection -> RS]
                 /\ \A d \in Connection :
                        \/ readyState'[d] = readyState[d]
                        \/ /\ d = c /\ readyState[d] \in {"open", "closing"}
                           /\ readyState'[d] \in {"closing", "closed"}
                           /\ isClosed'[Owner(d)] \/ state = "ended"
        BY <2>1, <2>3
    <2> QED  BY <2>2, <2>3 DEF PeerActs
<1>7. WaysTypeOK'
    BY <1>1, <1>3, <1>5, <1>6 DEF WaysTypeOK, PeerActs, NothingHeard, ShellStops
<1>8. ASSUME NEW d \in Connection, NEW types, NoneOf(down[d], types)
      PROVE  NoneOf(down'[d], types)
    BY <1>4, <1>5, <1>8, NoneOfFacts
<1>9. LineInv'
    <2>1. ASSUME NEW d \in Connection, d # First(Owner(d))
          PROVE  /\ readyState'[d] \in {"absent", "connecting"} => up'[d] = <<>>
                 /\ NoneOf(down'[d], ItemTypes \cup {"SESSION_READY"})
        <3>1. NoneOf(down'[d], ItemTypes \cup {"SESSION_READY"})
            BY <1>8, <2>1 DEF WholeInv, LineInv
        <3>2. ASSUME readyState'[d] \in {"absent", "connecting"}
              PROVE  up'[d] = <<>>
            <4>1. readyState[d] \in {"absent", "connecting"}
                BY <1>6, <3>2
            <4>2. up'[d] = up[d]
                BY <1>3, <4>1
            <4> QED  BY <2>1, <4>1, <4>2 DEF WholeInv, LineInv
        <3> QED  BY <3>1, <3>2
    <2>2. ASSUME NEW p \in Peer
          PROVE  /\ readyState'[First(p)] \in {"open", "closing", "closed"}
                 /\ sessionId'[p] => NoneOf(down'[First(p)], {"SESSION_READY"})
                 /\ ~sessionId'[p] => /\ down'[First(p)] # <<>>
                                      /\ Head(down'[First(p)]).type = "SESSION_READY"
                                      /\ NoneOf(Tail(down'[First(p)]), {"SESSION_READY"})
        <3>1. First(p) \in Connection
            BY FirstIn
        <3>2. readyState'[First(p)] \in {"open", "closing", "closed"}
            BY <1>6, <3>1 DEF WholeInv, LineInv
        <3>3. sessionId'[p] => NoneOf(down'[First(p)], {"SESSION_READY"})
            BY <1>8, <3>1 DEF PeerActs, WholeInv, LineInv
        <3>4. ASSUME ~sessionId'[p]
              PROVE  down'[First(p)] = down[First(p)]
            <4>1. Head(down[First(p)]).type = "SESSION_READY"
                BY <3>4 DEF PeerActs, WholeInv, LineInv
            <4>2. "SESSION_READY" \notin QuietTypes
                BY DEF QuietTypes, Forwarded, Ends
            <4> QED  BY <1>5, <3>1, <4>1, <4>2
        <3> QED  BY <3>2, <3>3, <3>4 DEF PeerActs, WholeInv, LineInv
    <2> QED  BY <2>1, <2>2 DEF LineInv
<1>10. ASSUME state' = "active"
       PROVE  LastsInv'
    <2>1. state = "active"
        BY <1>10 DEF PeerActs
    <2>2. \A d \in Connection : d # First(Owner(d)) => readyState'[d] = "absent"
        BY <1>6, <2>1 DEF WholeInv, LastsInv
    <2>3. currentSocket' = First("guest")
        BY <2>1 DEF PeerActs, WholeInv, LastsInv
    <2>4. ASSUME NEW p \in Peer
          PROVE  /\ seat'[p] = First(p) /\ First(p) \in roomsBySocket'
                 /\ \A n \in Attempt : timers'[p][n] = 0
                 /\ NoneOf(down'[First(p)], {"ERROR"})
                 /\ \/ isClosed'[p]
                    \/ /\ readyState'[First(p)] = "open"
                       /\ NoneOf(down'[First(p)], {"CLOSE"}) /\ NoneOf(up'[First(p)], {"CLOSE"})
        <3>1. First(p) \in Connection /\ Owner(First(p)) = p
            BY FirstIn
        <3>2. /\ seat'[p] = First(p) /\ First(p) \in roomsBySocket'
              /\ \A n \in Attempt : timers'[p][n] = 0
            BY <2>1 DEF PeerActs, WholeInv, LastsInv
        <3>3. NoneOf(down'[First(p)], {"ERROR"})
            BY <1>8, <2>1, <3>1 DEF WholeInv, LastsInv
        <3>4. ASSUME ~isClosed'[p]
              PROVE  /\ readyState'[First(p)] = "open"
                     /\ NoneOf(down'[First(p)], {"CLOSE"}) /\ NoneOf(up'[First(p)], {"CLOSE"})
            <4>1. /\ readyState[First(p)] = "open"
                  /\ NoneOf(down[First(p)], {"CLOSE"}) /\ NoneOf(up[First(p)], {"CLOSE"})
                BY <2>1, <3>4 DEF PeerActs, WholeInv, LastsInv
            <4>2. readyState'[First(p)] = "open"
                BY <1>6, <2>1, <3>1, <3>4, <4>1
            <4>3. NoneOf(up'[First(p)], {"CLOSE"})
                <5>1. CASE First(p) = c
                    <6>1. NoneOf(out, {"CLOSE"}) /\ up'[c] = up[c] \o out
                        BY <1>2, <1>3, <2>1, <3>1, <3>4, <4>1, <5>1
                    <6> QED  BY <1>4, <4>1, <5>1, <6>1, NoneOfConcat
                <5>2. CASE First(p) # c
                    BY <1>3, <3>1, <4>1, <5>2
                <5> QED  BY <5>1, <5>2
            <4> QED  BY <1>8, <3>1, <4>1, <4>2, <4>3
        <3> QED  BY <3>2, <3>3, <3>4
    <2> QED  BY <2>2, <2>3, <2>4 DEF LastsInv
<1> QED  BY <1>7, <1>9, <1>10 DEF LastsInv

(* What such a step leaves of a connection and of its queues. *)
LEMMA PeerActsFacts ==
    ASSUME WholeInv, cut = {}, NEW c \in Connection, PeerActs(c), NEW d \in Connection
    PROVE  /\ SameItems(up'[d], up[d]) /\ SameItems(down'[d], down[d])
           /\ readyState'[d] = "open" => readyState[d] = "open"
<1>1. WaysTypeOK
    BY DEF WholeInv
<1>2. PICK out \in Seq(Msg) : NoneOf(out, ItemTypes) /\ PeerSends(c, out)
    BY DEF PeerActs
<1>3. SameItems(up'[d], up[d])
    <2>1. up'[d] = up[d] \/ up'[d] = up[d] \o out
        BY <1>1, <1>2, SendsFacts
    <2> QED  BY <1>2, <2>1 DEF SameItems
<1>4. SameItems(down'[d], down[d])
    <2>1. CASE down' = down
        BY <2>1 DEF SameItems
    <2>2. CASE Handles(c, QuietTypes)
        <3>1. CASE d = c
            <4>1. down'[d] = Tail(down[d]) /\ down[d] # <<>> /\ Head(down[d]).type \in QuietTypes
                BY <1>1, <2>2, <3>1, HandlesFacts
            <4>2. ~IsItem(Head(down[d]))
                BY <4>1 DEF QuietTypes, IsItem, ItemTypes
            <4> QED  BY <4>1, <4>2 DEF SameItems
        <3>2. CASE d # c
            BY <1>1, <2>2, <3>2, HandlesFacts DEF SameItems
        <3> QED  BY <3>1, <3>2
    <2> QED  BY <2>1, <2>2 DEF PeerActs
<1>5. readyState'[d] = "open" => readyState[d] = "open"
    <2>1. readyState \in [Connection -> {"absent", "connecting", "open", "closing", "closed"}]
        BY <1>1 DEF WaysTypeOK
    <2>2. CASE readyState' = readyState
        BY <2>2
    <2>3. ASSUME NEW v \in {"closing", "closed"}, readyState' = [readyState EXCEPT ![c] = v]
          PROVE  readyState'[d] = "open" => readyState[d] = "open"
        BY <2>1, <2>3
    <2> QED  BY <2>2, <2>3 DEF PeerActs
<1> QED  BY <1>3, <1>4, <1>5

(* Nothing goes missing by it. *)
LEMMA PeerActsWhole ==
    ASSUME WholeInv, cut = {}, NEW c \in Connection, PeerActs(c)
    PROVE  WholeInv'
<1>1. WaysTypeOK' /\ LastsInv' /\ LineInv'
    BY PeerActsLine
<1>2. WaysTypeOK /\ NothingHeard
    BY DEF WholeInv, PeerActs
<1>3. ChunksInv'
    <2>1. ChunksInv /\ First("host") \in Connection
        BY FirstIn DEF WholeInv, Peer
    <2>2. readyState'[First("host")] = "open" => readyState[First("host")] = "open"
        BY <2>1, PeerActsFacts
    <2>3. /\ (child' = "none") = (child = "none")
          /\ UNCHANGED <<printed, typed, cipher, sendCounter, sessionId, childSocket>>
        BY <1>2 DEF PeerActs, NothingHeard, ShellStops
    <2> QED  BY <2>1, <2>2, <2>3 DEF ChunksInv
<1>4. ASSUME NEW p \in Peer
      PROVE  PassInv(p)' /\ HeardInv(p)'
    <2>1. PassInv(p) /\ HeardInv(p)
        BY DEF WholeInv
    <2>2. /\ KeepsNumbers(p) /\ Made(p)' = Made(p)
          /\ Listening(p)' => Listening(p) /\ Awaited(p)' = Awaited(p)
          /\ Holds(p)' = Holds(p)
          /\ HeardInv(p)'
        BY <1>2, <2>1, NothingHeardFacts
    <2>3. First(p) \in Connection /\ First(Other(p)) \in Connection
        BY FirstIn
    <2>4. TellsSame(p)
        <3>1. Flows(p)' = Flows(p)
            BY DEF Flows, PeerActs
        <3>2. Due(p)' = Due(p)
            BY <2>2 DEF Due, PeerActs
        <3> QED  BY <2>3, <3>1, <3>2, PeerActsFacts DEF TellsSame, Out
    <2>5. HearsNothing(p)
        BY <2>2, <2>3, PeerActsFacts DEF HearsNothing, In
    <2> QED  BY <1>2, <2>1, <2>2, <2>4, <2>5, PassQuiet
<1> QED  BY <1>1, <1>3, <1>4 DEF WholeInv

(* A message that is no item, by itself. *)
LEMMA OneWord ==
    ASSUME NEW type \in QuietTypes
    PROVE  /\ Message(type) \in Msg /\ Message(type).type = type
           /\ <<Message(type)>> \in Seq(Msg) /\ NoneOf(<<Message(type)>>, ItemTypes)
           /\ type # "CLOSE" => NoneOf(<<Message(type)>>, {"CLOSE"})
           /\ Append(<<>>, Message(type)) = <<Message(type)>>
<1>1. Message(type) \in Msg /\ Message(type).type = type
    BY DEF Message, Msg, QuietTypes, Forwarded, Ends
<1>2. type \notin ItemTypes
    BY DEF QuietTypes
<1>3. /\ <<Message(type)>> \in Seq(Msg) /\ NoneOf(<<Message(type)>>, ItemTypes)
      /\ type # "CLOSE" => NoneOf(<<Message(type)>>, {"CLOSE"})
    BY <1>1, <1>2, NoneOfOne
<1>4. Append(<<>>, Message(type)) = <<Message(type)>>
    BY <1>1
<1> QED  BY <1>1, <1>3, <1>4

(* No message at all. *)
LEMMA NoWord ==
    <<>> \in Seq(Msg) /\ NoneOf(<<>>, ItemTypes) /\ NoneOf(<<>>, {"CLOSE"})
BY DEF NoneOf

(* While the session lasts only first connections are in use. *)
LEMMA InUse ==
    ASSUME WholeInv, NEW c \in Connection
    PROVE  /\ Owner(c) \in Peer /\ state \in {"active", "ended"}
           /\ state = "active" /\ readyState[c] # "absent" => c = First(Owner(c))
BY DEF WholeInv, WaysTypeOK, LastsInv, Connection, Owner

(* A peer that has not ended a session that lasts is not told to close. *)
LEMMA ToldNothing ==
    ASSUME WholeInv, NEW c \in Connection, NEW type \in {"CLOSE", "ERROR"}, PeerTakes(c, type),
           state = "active"
    PROVE  type = "CLOSE" /\ isClosed[Owner(c)]
<1>1. c = First(Owner(c)) /\ Owner(c) \in Peer
    BY InUse DEF PeerTakes
<1>2. down[c] \in Seq(Msg) /\ down[c] # <<>> /\ Head(down[c]).type = type
    BY DEF WholeInv, WaysTypeOK, PeerTakes
<1>3. ~NoneOf(down[c], {type})
    BY <1>2, NoneOfFacts
<1> QED  BY <1>1, <1>3 DEF WholeInv, LastsInv

(* "close". *)
LEMMA ReadsCloseActs ==
    ASSUME WholeInv, NEW c \in Connection, PeerReadsClose(c)
    PROVE  PeerActs(c)
<1>1. Handles(c, QuietTypes) /\ readyState[c] \in {"open", "closing"}
    BY DEF PeerReadsClose, PeerTakes, Handles, QuietTypes, Forwarded, Ends, ItemTypes
<1>2. "CLOSE" \in QuietTypes
    BY DEF QuietTypes, Forwarded, Ends, ItemTypes
<1>3. /\ NoneOf(<<Message("CLOSE")>>, ItemTypes) /\ <<Message("CLOSE")>> \in Seq(Msg)
      /\ PeerSends(c, <<Message("CLOSE")>>)
    BY <1>2, OneWord DEF PeerReadsClose
<1>4. Owner(c) \in Peer /\ state \in {"active", "ended"}
    BY InUse
<1>5. /\ isClosed \in [Peer -> BOOLEAN] /\ sessionId \in [Peer -> BOOLEAN]
      /\ timers \in [Peer -> [Attempt -> Nat]]
    BY DEF WholeInv, WaysTypeOK
<1>6. isClosed' = [isClosed EXCEPT ![Owner(c)] = isClosed[Owner(c)] \/ ~sessionId[Owner(c)]]
    BY DEF PeerReadsClose, SocketClosed
<1>7. /\ isClosed' \in [Peer -> BOOLEAN] /\ \A p \in Peer : isClosed[p] => isClosed'[p]
    BY <1>4, <1>5, <1>6
<1>8. state = "active" => isClosed[Owner(c)]
    BY ToldNothing DEF PeerReadsClose
<1>9. isClosed'[Owner(c)] \/ state = "ended"
    BY <1>4, <1>7, <1>8
<1>10. timers' \in [Peer -> [Attempt -> Nat]] /\ (timers' = timers \/ state = "ended")
    <2>1. timers' = IF isClosed'[Owner(c)] THEN timers ELSE Scheduled(Owner(c), 0)
        BY DEF PeerReadsClose, SocketClosed
    <2>2. Scheduled(Owner(c), 0) \in [Peer -> [Attempt -> Nat]]
        BY <1>4, <1>5, SessionAssumption DEF Scheduled, Attempt
    <2> QED  BY <1>5, <1>9, <2>1, <2>2
<1>11. readyState' = [readyState EXCEPT ![c] = "closed"]
    BY DEF PeerReadsClose, SocketClosed
<1>12. /\ NothingHeard
       /\ UNCHANGED <<serverState, sessionId, childSocket, currentSocket, state, seat,
                      roomsBySocket>>
    BY DEF PeerReadsClose, SocketClosed, terminalVars, roomVars, NothingHeard, ShellStops
<1> QED  BY <1>1, <1>3, <1>7, <1>9, <1>10, <1>11, <1>12 DEF PeerActs

(* What closing the connection says, and does to it. *)
LEMMA ClosingActs ==
    ASSUME WholeInv, NEW c \in Connection, NEW out \in Seq(Msg), NoneOf(out, ItemTypes),
           PeerSendsAndCloses(c, out)
    PROVE  /\ \E more \in Seq(Msg) : NoneOf(more, ItemTypes) /\ PeerSends(c, more)
           /\ \/ readyState' = readyState
              \/ /\ readyState[c] \in {"open", "closing"}
                 /\ \E v \in {"closing", "closed"} : readyState' = [readyState EXCEPT ![c] = v]
<1>1. "CLOSE" \in QuietTypes
    BY DEF QuietTypes, Forwarded, Ends, ItemTypes
<1>2. /\ <<Message("CLOSE")>> \in Seq(Msg) /\ NoneOf(<<Message("CLOSE")>>, ItemTypes)
      /\ Message("CLOSE") \in Msg
    BY <1>1, OneWord
<1>3. Append(out, Message("CLOSE")) = out \o <<Message("CLOSE")>>
    BY <1>2
<1>4. out \o <<Message("CLOSE")>> \in Seq(Msg) /\ NoneOf(out \o <<Message("CLOSE")>>, ItemTypes)
    BY <1>2, ConcatPlaces, NoneOfConcat
<1>5. \/ readyState' = readyState
      \/ readyState[c] = "open" /\ readyState' = [readyState EXCEPT ![c] = "closing"]
    BY DEF PeerSendsAndCloses, WholeInv, WaysTypeOK
<1> QED  BY <1>3, <1>4, <1>5 DEF PeerSendsAndCloses

(* SESSION_TERMINATE, and PTY_EXIT at the guest. *)
LEMMA TerminatedActs ==
    ASSUME WholeInv, NEW c \in Connection, Terminated(c)
    PROVE  PeerActs(c)
<1>1. Handles(c, QuietTypes)
    BY DEF Terminated, PeerTakes, Handles, QuietTypes, Forwarded, Ends, ItemTypes
<1>2. Owner(c) \in Peer /\ isClosed \in [Peer -> BOOLEAN] /\ timers \in [Peer -> [Attempt -> Nat]]
    BY InUse DEF WholeInv, WaysTypeOK
<1>3. /\ isClosed' \in [Peer -> BOOLEAN] /\ \A p \in Peer : isClosed[p] => isClosed'[p]
      /\ isClosed'[Owner(c)]
    BY <1>2 DEF Terminated
<1>4. /\ \E more \in Seq(Msg) : NoneOf(more, ItemTypes) /\ PeerSends(c, more)
      /\ \/ readyState' = readyState
         \/ /\ readyState[c] \in {"open", "closing"}
            /\ \E v \in {"closing", "closed"} : readyState' = [readyState EXCEPT ![c] = v]
    BY NoWord, ClosingActs DEF Terminated
<1>5. child' = child \/ (child # "none" /\ child' \in {"killed", "exited"})
    BY DEF Terminated, Killed
<1>6. /\ NothingHeard /\ timers' = timers
      /\ UNCHANGED <<serverState, sessionId, childSocket, currentSocket, state, seat,
                     roomsBySocket>>
    BY <1>5 DEF Terminated, OnMessage, roomVars, NothingHeard, ShellStops
<1> QED  BY <1>1, <1>2, <1>3, <1>4, <1>6 DEF PeerActs

(* RECONNECT_OK. *)
LEMMA ReconnectOkActs ==
    ASSUME WholeInv, NEW c \in Connection, ReconnectOk(c)
    PROVE  PeerActs(c)
<1>1. Handles(c, QuietTypes)
    BY DEF ReconnectOk, PeerTakes, Handles, QuietTypes, Forwarded, Ends, ItemTypes
<1>2. isClosed \in [Peer -> BOOLEAN] /\ timers \in [Peer -> [Attempt -> Nat]]
    BY DEF WholeInv, WaysTypeOK
<1>3. "PTY_RESIZE" \in QuietTypes
    BY DEF QuietTypes, Forwarded, Ends, ItemTypes
<1>4. \E out \in Seq(Msg) : /\ NoneOf(out, ItemTypes) /\ PeerSends(c, out)
                            /\ NoneOf(out, {"CLOSE"})
    BY <1>3, OneWord, NoWord DEF ReconnectOk
<1>5. /\ NothingHeard /\ timers' = timers /\ readyState' = readyState /\ isClosed' = isClosed
      /\ UNCHANGED <<serverState, sessionId, childSocket, currentSocket, state, seat,
                     roomsBySocket>>
    BY DEF ReconnectOk, OnMessage, roomVars, terminalVars, NothingHeard, ShellStops
<1> QED  BY <1>1, <1>2, <1>4, <1>5 DEF PeerActs

(* ERROR. *)
LEMMA ErrorActs ==
    ASSUME WholeInv, NEW c \in Connection, Error(c)
    PROVE  PeerActs(c)
<1>1. Handles(c, QuietTypes)
    BY DEF Error, PeerTakes, Handles, QuietTypes, Forwarded, Ends, ItemTypes
<1>2. isClosed \in [Peer -> BOOLEAN] /\ timers \in [Peer -> [Attempt -> Nat]]
    BY DEF WholeInv, WaysTypeOK
<1>3. /\ \E more \in Seq(Msg) : NoneOf(more, ItemTypes) /\ PeerSends(c, more)
      /\ \/ readyState' = readyState
         \/ /\ readyState[c] \in {"open", "closing"}
            /\ \E v \in {"closing", "closed"} : readyState' = [readyState EXCEPT ![c] = v]
    BY NoWord, ClosingActs DEF Error
<1>4. state = "ended"
    BY InUse, ToldNothing DEF Error
<1>5. /\ NothingHeard /\ timers' = timers /\ isClosed' = isClosed
      /\ UNCHANGED <<serverState, sessionId, childSocket, currentSocket, state, seat,
                     roomsBySocket>>
    BY DEF Error, OnMessage, roomVars, terminalVars, NothingHeard, ShellStops
<1> QED  BY <1>1, <1>2, <1>3, <1>4, <1>5 DEF PeerActs

(* PTY_RESIZE. *)
LEMMA ResizeActs ==
    ASSUME WholeInv, NEW c \in Connection, HostPtyResize(c)
    PROVE  PeerActs(c)
<1>1. Handles(c, QuietTypes)
    BY DEF HostPtyResize, PeerTakes, Handles, QuietTypes, Forwarded, Ends, ItemTypes
<1>2. /\ isClosed \in [Peer -> BOOLEAN] /\ timers \in [Peer -> [Attempt -> Nat]]
      /\ up \in [Connection -> Seq(Msg)]
    BY DEF WholeInv, WaysTypeOK
<1>3. PeerSends(c, <<>>)
    <2>1. up[c] \o <<>> = up[c]
        BY <1>2
    <2>2. up' = up
        BY DEF HostPtyResize
    <2> QED  BY <1>2, <2>1, <2>2 DEF PeerSends, Carried
<1>4. /\ NothingHeard /\ timers' = timers /\ readyState' = readyState /\ isClosed' = isClosed
      /\ UNCHANGED <<serverState, sessionId, childSocket, currentSocket, state, seat,
                     roomsBySocket>>
    BY DEF HostPtyResize, OnMessage, roomVars, terminalVars, NothingHeard, ShellStops
<1> QED  BY <1>1, <1>2, <1>3, <1>4, NoWord DEF PeerActs

(* onExit. *)
LEMMA ShellExitsActs ==
    ASSUME WholeInv, ShellExits
    PROVE  \E c \in Connection : PeerActs(c)
<1> DEFINE c == childSocket
<1>1. c = First("host") /\ c \in Connection /\ Owner(c) = "host"
    BY FirstIn DEF WholeInv, ChunksInv, ShellExits, Peer
<1>2. /\ isClosed \in [Peer -> BOOLEAN] /\ timers \in [Peer -> [Attempt -> Nat]]
      /\ up \in [Connection -> Seq(Msg)]
    BY DEF WholeInv, WaysTypeOK
<1>3. /\ NothingHeard /\ timers' = timers /\ down' = down
      /\ UNCHANGED <<serverState, sessionId, childSocket, currentSocket, state, seat,
                     roomsBySocket>>
    BY DEF ShellExits, roomVars, terminalVars, NothingHeard, ShellStops
<1>4. CASE isClosed' = [isClosed EXCEPT !["host"] = TRUE]
           /\ PeerSendsAndCloses(childSocket, <<Message("PTY_EXIT")>>)
    <2>1. "PTY_EXIT" \in QuietTypes
        BY DEF QuietTypes, Forwarded, Ends, ItemTypes
    <2>2. /\ \E more \in Seq(Msg) : NoneOf(more, ItemTypes) /\ PeerSends(c, more)
          /\ \/ readyState' = readyState
             \/ /\ readyState[c] \in {"open", "closing"}
                /\ \E v \in {"closing", "closed"} : readyState' = [readyState EXCEPT ![c] = v]
        BY <1>1, <1>4, <2>1, OneWord, ClosingActs
    <2>3. /\ isClosed' \in [Peer -> BOOLEAN] /\ \A p \in Peer : isClosed[p] => isClosed'[p]
          /\ isClosed'[Owner(c)]
        BY <1>1, <1>2, <1>4 DEF Peer
    <2> HIDE DEF c
    <2> QED  BY <1>1, <1>2, <1>3, <2>2, <2>3 DEF PeerActs
<1>5. CASE UNCHANGED <<isClosed, up, readyState>>
    <2>1. PeerSends(c, <<>>)
        <3>1. up[c] \o <<>> = up[c]
            BY <1>1, <1>2
        <3> QED  BY <1>1, <1>2, <1>5, <3>1 DEF PeerSends, Carried
    <2> HIDE DEF c
    <2> QED  BY <1>1, <1>2, <1>3, <1>5, <2>1, NoWord DEF PeerActs
<1> QED  BY <1>4, <1>5 DEF ShellExits

(* Ctrl+]. *)
LEMMA DetachActs ==
    ASSUME WholeInv, Detach
    PROVE  PeerActs(currentSocket) /\ currentSocket \in Connection
<1> DEFINE c == currentSocket
<1>1. c \in Connection /\ Owner(c) = "guest"
    BY DEF WholeInv, WaysTypeOK
<1>2. isClosed \in [Peer -> BOOLEAN] /\ timers \in [Peer -> [Attempt -> Nat]]
    BY DEF WholeInv, WaysTypeOK
<1>3. /\ NothingHeard /\ timers' = timers /\ down' = down
      /\ UNCHANGED <<serverState, sessionId, childSocket, currentSocket, state, seat,
                     roomsBySocket>>
    BY DEF Detach, roomVars, terminalVars, NothingHeard, ShellStops
<1>4. "SESSION_TERMINATE" \in QuietTypes
    BY DEF QuietTypes, Forwarded, Ends, ItemTypes
<1>5. /\ \E more \in Seq(Msg) : NoneOf(more, ItemTypes) /\ PeerSends(c, more)
      /\ \/ readyState' = readyState
         \/ /\ readyState[c] \in {"open", "closing"}
            /\ \E v \in {"closing", "closed"} : readyState' = [readyState EXCEPT ![c] = v]
    BY <1>1, <1>4, OneWord, ClosingActs DEF Detach
<1>6. /\ isClosed' \in [Peer -> BOOLEAN] /\ \A p \in Peer : isClosed[p] => isClosed'[p]
      /\ isClosed'[Owner(c)]
    BY <1>1, <1>2 DEF Detach, Peer
<1> HIDE DEF c
<1> QED  BY <1>1, <1>2, <1>3, <1>5, <1>6 DEF PeerActs, c

(* A message is taken, SESSION_READY or another. *)
TakesOne(c) ==
    /\ readyState[c] \in {"open", "closing"} /\ Handles(c, {Head(down[c]).type})
    /\ sessionId' = IF Head(down[c]).type = "SESSION_READY"
                    THEN [sessionId EXCEPT ![Owner(c)] = TRUE] ELSE sessionId

(* A step of a peer that may move an item, and leaves its connections.     *)
ItemActs(c) ==
    /\ TakesOne(c) \/ UNCHANGED <<down, sessionId>>
    /\ \E out \in Seq(Msg) : NoneOf(out, {"CLOSE"}) /\ PeerSends(c, out)
    /\ UNCHANGED <<readyState, serverState, isClosed, timers, currentSocket, state, seat,
                   roomsBySocket>>

(* SESSION_READY and items come on the first connection. *)
LEMMA OnFirst ==
    ASSUME WholeInv, NEW c \in Connection, down[c] # <<>>,
           Head(down[c]).type \in ItemTypes \cup {"SESSION_READY"}
    PROVE  /\ c = First(Owner(c)) /\ Owner(c) \in Peer
           /\ sessionId[Owner(c)] <=> Head(down[c]).type # "SESSION_READY"
<1>1. down[c] \in Seq(Msg) /\ Owner(c) \in Peer /\ sessionId \in [Peer -> BOOLEAN]
    BY InUse DEF WholeInv, WaysTypeOK
<1>2. c = First(Owner(c))
    <2>1. ~NoneOf(down[c], ItemTypes \cup {"SESSION_READY"})
        BY <1>1, NoneOfFacts
    <2> QED  BY <1>1, <2>1 DEF WholeInv, LineInv
<1>3. sessionId[Owner(c)] => Head(down[c]).type # "SESSION_READY"
    <2>1. ASSUME NoneOf(down[c], {"SESSION_READY"}) PROVE Head(down[c]).type # "SESSION_READY"
        BY <1>1, <2>1, NoneOfFacts
    <2> QED  BY <1>1, <1>2, <2>1 DEF WholeInv, LineInv
<1>4. ~sessionId[Owner(c)] => Head(down[c]).type = "SESSION_READY"
    BY <1>1, <1>2 DEF WholeInv, LineInv
<1> QED  BY <1>1, <1>2, <1>3, <1>4

(* What such a step does to the queues and to the sessions. *)
LEMMA ItemActsFacts ==
    ASSUME WholeInv, cut = {}, NEW c \in Connection, ItemActs(c)
    PROVE  /\ up' \in [Connection -> Seq(Msg)] /\ down' \in [Connection -> Seq(Msg)]
           /\ sessionId' \in [Peer -> BOOLEAN]
           /\ \A d \in Connection : down'[d] = down[d] \/ (d = c /\ down'[d] = Tail(down[d])
                                                                 /\ down[d] # <<>>)
           /\ \A d \in Connection : \A types : NoneOf(down[d], types) => NoneOf(down'[d], types)
           /\ \A d \in Connection : d # c => up'[d] = up[d]
           /\ readyState[c] # "open" => up'[c] = up[c]
           /\ NoneOf(up[c], {"CLOSE"}) => NoneOf(up'[c], {"CLOSE"})
<1>1. WaysTypeOK
    BY DEF WholeInv
<1>2. PICK out \in Seq(Msg) : NoneOf(out, {"CLOSE"}) /\ PeerSends(c, out)
    BY DEF ItemActs
<1>3. /\ up' \in [Connection -> Seq(Msg)]
      /\ readyState[c] = "open" => up'[c] = up[c] \o out
      /\ readyState[c] # "open" => up'[c] = up[c]
      /\ \A d \in Connection : d # c => up'[d] = up[d]
    BY <1>1, <1>2, SendsFacts
<1>4. \A d \in Connection : up[d] \in Seq(Msg) /\ down[d] \in Seq(Msg)
    BY <1>1 DEF WaysTypeOK
<1>5. NoneOf(up[c], {"CLOSE"}) => NoneOf(up'[c], {"CLOSE"})
    BY <1>2, <1>3, <1>4, NoneOfConcat
<1>6. /\ down' \in [Connection -> Seq(Msg)]
      /\ \A d \in Connection : down'[d] = down[d] \/ (d = c /\ down'[d] = Tail(down[d])
                                                            /\ down[d] # <<>>)
    <2>1. CASE down' = down
        BY <1>1, <2>1 DEF WaysTypeOK
    <2>2. CASE TakesOne(c)
        <3>1. Handles(c, {Head(down[c]).type})
            BY <2>2 DEF TakesOne
        <3> QED  BY <1>1, <3>1, HandlesFacts
    <2> QED  BY <2>1, <2>2 DEF ItemActs
<1>7. ASSUME NEW d \in Connection, NEW types, NoneOf(down[d], types)
      PROVE  NoneOf(down'[d], types)
    BY <1>4, <1>6, <1>7, NoneOfFacts
<1>8. sessionId' \in [Peer -> BOOLEAN]
    <2>1. Owner(c) \in Peer /\ sessionId \in [Peer -> BOOLEAN]
        BY <1>1, InUse DEF WaysTypeOK
    <2> QED  BY <2>1 DEF ItemActs, TakesOne
<1> QED  BY <1>3, <1>5, <1>6, <1>7, <1>8

(* After such a step the connections are as they should be. *)
LEMMA ItemActsLine ==
    ASSUME WholeInv, cut = {}, NEW c \in Connection, ItemActs(c)
    PROVE  LastsInv' /\ LineInv'
<1>1. \A d \in Connection : \A types : NoneOf(down[d], types) => NoneOf(down'[d], types)
    BY ItemActsFacts
<1>2. /\ \A d \in Connection : down'[d] = down[d] \/ (d = c /\ down'[d] = Tail(down[d])
                                                            /\ down[d] # <<>>)
      /\ \A d \in Connection : d # c => up'[d] = up[d]
      /\ readyState[c] # "open" => up'[c] = up[c]
      /\ NoneOf(up[c], {"CLOSE"}) => NoneOf(up'[c], {"CLOSE"})
    BY ItemActsFacts
<1>3. /\ \A d \in Connection : down[d] \in Seq(Msg)
      /\ UNCHANGED <<readyState, isClosed, timers, currentSocket, state, seat, roomsBySocket>>
    BY DEF WholeInv, WaysTypeOK, ItemActs
<1>4. LineInv'
    <2>1. ASSUME NEW d \in Connection, d # First(Owner(d))
          PROVE  /\ readyState'[d] \in {"absent", "connecting"} => up'[d] = <<>>
                 /\ NoneOf(down'[d], ItemTypes \cup {"SESSION_READY"})
        <3>1. NoneOf(down[d], ItemTypes \cup {"SESSION_READY"})
              /\ (readyState[d] \in {"absent", "connecting"} => up[d] = <<>>)
            BY <2>1 DEF WholeInv, LineInv
        <3> QED  BY <1>1, <1>2, <1>3, <3>1
    <2>2. ASSUME NEW p \in Peer
          PROVE  /\ readyState'[First(p)] \in {"open", "closing", "closed"}
                 /\ sessionId'[p] => NoneOf(down'[First(p)], {"SESSION_READY"})
                 /\ ~sessionId'[p] => /\ down'[First(p)] # <<>>
                                      /\ Head(down'[First(p)]).type = "SESSION_READY"
                                      /\ NoneOf(Tail(down'[First(p)]), {"SESSION_READY"})
        <3>1. First(p) \in Connection /\ Owner(First(p)) = p
            BY FirstIn
        <3>2. /\ readyState[First(p)] \in {"open", "closing", "closed"}
              /\ sessionId[p] => NoneOf(down[First(p)], {"SESSION_READY"})
              /\ ~sessionId[p] => /\ down[First(p)] # <<>>
                                  /\ Head(down[First(p)]).type = "SESSION_READY"
                                  /\ NoneOf(Tail(down[First(p)]), {"SESSION_READY"})
            BY DEF WholeInv, LineInv
        <3>3. CASE UNCHANGED <<down, sessionId>>
            BY <1>3, <3>2, <3>3
        <3>4. CASE TakesOne(c) /\ First(p) = c
            <4>1. c = First(Owner(c)) /\ Owner(c) = p /\ down'[c] = Tail(down[c])
                  /\ sessionId \in [Peer -> BOOLEAN]
                BY <3>1, <3>4, HandlesFacts DEF TakesOne, WholeInv, WaysTypeOK
            <4>2. CASE Head(down[c]).type = "SESSION_READY"
                <5>1. sessionId'[p] /\ ~sessionId[p]
                    <6>1. ~sessionId[p]
                        BY <3>4, <4>1, <4>2, OnFirst DEF TakesOne, Handles
                    <6>2. sessionId'[p]
                        BY <3>4, <4>1, <4>2 DEF TakesOne
                    <6> QED  BY <6>1, <6>2
                <5> QED  BY <1>3, <3>2, <3>4, <4>1, <5>1
            <4>3. CASE Head(down[c]).type # "SESSION_READY"
                <5>1. sessionId' = sessionId
                    BY <3>4, <4>3 DEF TakesOne
                <5>2. sessionId[p]
                    BY <3>2, <3>4, <4>3
                <5>3. NoneOf(down'[First(p)], {"SESSION_READY"})
                    BY <1>1, <3>1, <3>2, <5>2
                <5> QED  BY <1>3, <3>2, <5>1, <5>2, <5>3
            <4> QED  BY <4>2, <4>3
        <3>5. CASE TakesOne(c) /\ First(p) # c
            <4>1. down'[First(p)] = down[First(p)]
                BY <1>2, <3>1, <3>5
            <4>2. sessionId'[p] = sessionId[p]
                <5>1. CASE Head(down[c]).type = "SESSION_READY"
                    <6>1. c = First(Owner(c)) /\ Owner(c) \in Peer
                        BY <3>5, <5>1, OnFirst DEF TakesOne, Handles
                    <6>2. Owner(c) # p
                        BY <3>5, <6>1
                    <6>3. /\ sessionId' = [sessionId EXCEPT ![Owner(c)] = TRUE]
                          /\ sessionId \in [Peer -> BOOLEAN]
                        BY <3>5, <5>1 DEF TakesOne, WholeInv, WaysTypeOK
                    <6> QED  BY <6>2, <6>3
                <5>2. CASE Head(down[c]).type # "SESSION_READY"
                    BY <3>5, <5>2 DEF TakesOne
                <5> QED  BY <5>1, <5>2
            <4> QED  BY <1>3, <3>2, <4>1, <4>2
        <3> QED  BY <3>3, <3>4, <3>5 DEF ItemActs
    <2> QED  BY <2>1, <2>2 DEF LineInv
<1>5. ASSUME state' = "active"
      PROVE  LastsInv'
    <2>1. LastsInv /\ state = "active"
        BY <1>3, <1>5 DEF WholeInv
    <2>2. ASSUME NEW p \in Peer
          PROVE  /\ NoneOf(down'[First(p)], {"ERROR"})
                 /\ \/ isClosed'[p]
                    \/ /\ readyState'[First(p)] = "open"
                       /\ NoneOf(down'[First(p)], {"CLOSE"}) /\ NoneOf(up'[First(p)], {"CLOSE"})
        <3>1. First(p) \in Connection
            BY FirstIn
        <3>2. NoneOf(down'[First(p)], {"ERROR"})
            BY <1>1, <2>1, <3>1 DEF LastsInv
        <3>3. ASSUME ~isClosed[p]
              PROVE  NoneOf(down'[First(p)], {"CLOSE"}) /\ NoneOf(up'[First(p)], {"CLOSE"})
            <4>1. NoneOf(down[First(p)], {"CLOSE"}) /\ NoneOf(up[First(p)], {"CLOSE"})
                BY <2>1, <3>3 DEF LastsInv
            <4>2. NoneOf(down'[First(p)], {"CLOSE"})
                BY <1>1, <3>1, <4>1
            <4>3. NoneOf(up'[First(p)], {"CLOSE"})
                BY <1>2, <3>1, <4>1
            <4> QED  BY <4>2, <4>3
        <3> QED  BY <1>3, <2>1, <3>2, <3>3 DEF LastsInv
    <2> QED  BY <1>3, <2>1, <2>2 DEF LastsInv
<1> QED  BY <1>4, <1>5 DEF LastsInv

(* What p made stays as it is. *)
MakesNothing(p) ==
    /\ Made(p)' = Made(p) /\ Plain(p)' = Plain(p) /\ sendCounter'[p] = sendCounter[p]
    /\ sessionId'[p] = sessionId[p]

(* And what the other heard of it. *)
OtherHearsNothing(p) ==
    /\ Heard(p)' = Heard(p) /\ recvCounter'[Other(p)] = recvCounter[Other(p)]
    /\ Holds(p)' = Holds(p) /\ (Listening(p)' => Listening(p))

(* Made is a number, and so is what is sent. *)
LEMMA MakesNothingFacts ==
    ASSUME NEW p \in Peer, WaysTypeOK, MakesNothing(p)
    PROVE  KeepsNumbers(p) /\ Due(p)' = Due(p)
<1>1. Made(p) \in Nat
    BY DEF WaysTypeOK, Made
<1>2. KeepsNumbers(p)
    BY <1>1 DEF KeepsNumbers, MakesNothing, Numbered
<1> QED  BY <1>2 DEF MakesNothing, Due

(* The way of the other peer's items, in a step that moves none of them.   *)
LEMMA OtherWay ==
    ASSUME WholeInv, NEW p \in Peer, MakesNothing(p), OtherHearsNothing(p),
           UNCHANGED <<readyState, serverState, state>>,
           SameItems(Out(p)', Out(p)), SameItems(In(p)', In(p))
    PROVE  PassInv(p)' /\ HeardInv(p)'
<1>1. WaysTypeOK /\ PassInv(p) /\ HeardInv(p)
    BY DEF WholeInv
<1>2. KeepsNumbers(p) /\ Due(p)' = Due(p)
    BY <1>1, MakesNothingFacts
<1>3. TellsSame(p)
    BY <1>2 DEF TellsSame, Flows
<1>4. HearsNothing(p)
    BY DEF HearsNothing, OtherHearsNothing, Awaited
<1>5. HeardInv(p)'
    BY <1>1 DEF HeardInv, OtherHearsNothing, MakesNothing
<1> QED  BY <1>1, <1>2, <1>3, <1>4, <1>5, PassQuiet

(* The other peer hears the next chunk of p. *)
LEMMA HearsNext ==
    ASSUME NEW p \in Peer, WaysTypeOK, HeardInv(p), NEW n \in Nat, n = Len(Heard(p)) + 1,
           n <= Made(p), Holds(p)', Made(p)' = Made(p), Plain(p)' = Plain(p),
           Heard(p)' = Append(Heard(p), n),
           recvCounter'[Other(p)] = IF n <= Plain(p) THEN 0 ELSE n - Plain(p)
    PROVE  HeardInv(p)' /\ Len(Heard(p)') = Len(Heard(p)) + 1
<1> DEFINE h == Heard(p)
<1>1. h \in Seq(Nat)
    BY DEF WaysTypeOK, Heard
<1>2. PICK k : k = Append(h, n)
    OBVIOUS
<1>3. Heard(p)' = k
    BY <1>2
<1> HIDE DEF h
<1>4. /\ Len(k) = Len(h) + 1 /\ Len(h) \in Nat
      /\ \A i \in 1 .. Len(h) : k[i] = h[i]
      /\ k[Len(h) + 1] = n
    BY <1>1, <1>2
<1>5. \A i \in 1 .. Len(h) : h[i] = i
    BY DEF HeardInv, h
<1>6. n = Len(h) + 1
    BY DEF h
<1>7. \A i \in 1 .. Len(k) : k[i] = i
    BY <1>4, <1>5, <1>6
<1>8. Len(k) = n
    BY <1>4, <1>6
<1>9. HeardInv(p)'
    BY <1>3, <1>7, <1>8 DEF HeardInv
<1> QED  BY <1>3, <1>4, <1>9 DEF h

(* A message is taken from the first connection of the other peer. *)
LEMMA TakesFacts ==
    ASSUME WholeInv, NEW c \in Connection, NEW type, PeerTakes(c, type)
    PROVE  /\ down[c] # <<>> /\ Head(down[c]).type = type
           /\ down'[c] = Tail(down[c]) /\ \A d \in Connection : d # c => down'[d] = down[d]
           /\ readyState[c] \in {"open", "closing"} /\ Handles(c, {Head(down[c]).type})
<1>1. down \in [Connection -> Seq(Msg)]
    BY DEF WholeInv, WaysTypeOK
<1> QED  BY <1>1 DEF PeerTakes, Handles

(* A queue has its own items. *)
LEMMA SameIsSame ==
    ASSUME NEW q
    PROVE  SameItems(q, q)
BY DEF SameItems

(* Sending nothing. *)
LEMMA SendsNothing ==
    ASSUME WholeInv, NEW c \in Connection, up' = up
    PROVE  \E out \in Seq(Msg) : NoneOf(out, {"CLOSE"}) /\ PeerSends(c, out)
<1>1. up \in [Connection -> Seq(Msg)]
    BY DEF WholeInv, WaysTypeOK
<1>2. up[c] \o <<>> = up[c]
    BY <1>1
<1>3. PeerSends(c, <<>>)
    BY <1>1, <1>2 DEF PeerSends, Carried
<1> QED  BY <1>3, NoWord

(* The item at the head of a queue is the one that is awaited. *)
LEMMA HeadIsDue ==
    ASSUME WholeInv, NEW c \in Connection, NEW p \in Peer, Owner(c) = Other(p),
           NEW type \in ItemTypes, PeerTakes(c, type)
    PROVE  /\ c = First(Other(p)) /\ In(p) = down[c] /\ sessionId[Other(p)]
           /\ Numbered(p, Head(down[c])) /\ Head(down[c]) \in Msg /\ IsItem(Head(down[c]))
           /\ Listening(p) => Head(down[c]).n = Awaited(p)
           /\ Holds(p) => Head(down[c]).n # 0
<1>1. down[c] # <<>> /\ Head(down[c]).type = type
    BY TakesFacts
<1>2. c = First(Other(p)) /\ sessionId[Other(p)]
    BY <1>1, OnFirst DEF ItemTypes
<1>3. In(p) = down[c] /\ IsItem(Head(down[c]))
    BY <1>1, <1>2 DEF In, IsItem, ItemTypes
<1>4. WaysTypeOK /\ PassInv(p)
    BY DEF WholeInv
<1> QED  BY <1>1, <1>2, <1>3, <1>4, HeadDue

(* What the terminals have heard, and the shell. *)
HeardTypeOK ==
    /\ child \in {"none", "running", "killed", "exited"} /\ cipher \in BOOLEAN
    /\ recvCounter \in [Peer -> Nat] /\ shellRead \in Seq(Nat) /\ shown \in Seq(Nat)

(* An item of p is taken, and nothing is sent. *)
Hears(p, c) ==
    /\ \E type \in ItemTypes : PeerTakes(c, type)
    /\ UNCHANGED <<serverState, timers, state, seat, roomsBySocket, readyState, up, isClosed,
                   sessionId, currentSocket, sendCounter, typed, printed>>
    /\ OtherHearsNothing(Other(p))

(* Nothing goes missing by it, if it was the one awaited that was heard. *)
LEMMA HearsWhole ==
    ASSUME WholeInv, cut = {}, NEW c \in Connection, NEW p \in Peer, Owner(c) = Other(p),
           Hears(p, c), HeardTypeOK', ChunksInv', HeardInv(p)',
           Listening(p)' => Listening(p) /\ Awaited(p)' = Awaited(p) + 1
    PROVE  WholeInv'
<1>1. PICK type \in ItemTypes : PeerTakes(c, type)
    BY DEF Hears
<1>2. /\ down[c] # <<>> /\ Head(down[c]).type = type
      /\ down'[c] = Tail(down[c]) /\ \A d \in Connection : d # c => down'[d] = down[d]
      /\ readyState[c] \in {"open", "closing"} /\ Handles(c, {Head(down[c]).type})
    BY <1>1, TakesFacts
<1>3. c = First(Other(p)) /\ In(p) = down[c] /\ IsItem(Head(down[c]))
    BY <1>1, HeadIsDue
<1>4. UNCHANGED <<serverState, timers, state, seat, roomsBySocket, readyState, up, isClosed,
                  sessionId, currentSocket, sendCounter, typed, printed>>
    BY DEF Hears
<1>5. ItemActs(c)
    <2>1. Head(down[c]).type # "SESSION_READY"
        BY <1>2 DEF ItemTypes
    <2> QED  BY <1>2, <1>4, <2>1, SendsNothing DEF ItemActs, TakesOne
<1>6. LastsInv' /\ LineInv'
    BY <1>5, ItemActsLine
<1>7. WaysTypeOK /\ PassInv(p)
    BY DEF WholeInv
<1>8. WaysTypeOK'
    <2>1. down' \in [Connection -> Seq(Msg)]
        BY <1>5, ItemActsFacts
    <2> QED  BY <1>4, <1>7, <2>1 DEF WaysTypeOK, HeardTypeOK
<1>9. \A q \in Peer : MakesNothing(q)
    BY <1>4 DEF MakesNothing, Made, Plain
<1>10. PassInv(p)'
    <2>1. KeepsNumbers(p) /\ Due(p)' = Due(p)
        BY <1>7, <1>9, MakesNothingFacts
    <2>2. Out(p)' = Out(p) /\ Flows(p)' = Flows(p)
        BY <1>4 DEF Out, Flows
    <2>3. SameItems(Out(p)', Out(p))
        BY <2>2, SameIsSame
    <2>4. TellsSame(p)
        BY <1>4, <2>1, <2>2, <2>3 DEF TellsSame
    <2>5. In(p) # <<>> /\ IsItem(Head(In(p))) /\ In(p)' = Tail(In(p))
        BY <1>2, <1>3 DEF In
    <2> QED  BY <1>7, <2>1, <2>4, <2>5, PassHears
<1>11. ASSUME NEW q \in Peer, q # p
       PROVE  PassInv(q)' /\ HeardInv(q)'
    <2>1. q = Other(p) /\ p = Other(q)
        BY <1>11 DEF Peer, Other
    <2>2. First(p) \in Connection /\ c # First(p)
        BY <1>3, FirstIn
    <2>3. Out(q)' = Out(q) /\ In(q)' = In(q)
        BY <1>2, <1>4, <2>1, <2>2 DEF Out, In
    <2>4. SameItems(Out(q)', Out(q)) /\ SameItems(In(q)', In(q))
        BY <2>3, SameIsSame
    <2> QED  BY <1>4, <1>9, <2>1, <2>4, OtherWay DEF Hears
<1> QED  BY <1>6, <1>8, <1>10, <1>11 DEF WholeInv

(* With the key, the first chunk is awaited. *)
LEMMA KeyHeard ==
    ASSUME WaysTypeOK, NEW p \in Peer, HeardInv(p), MakesNothing(p), ~Holds(p), Holds(p)',
           Listening(p), Heard(p)' = Heard(p), recvCounter' = recvCounter
    PROVE  HeardInv(p)' /\ Awaited(p)' = Awaited(p) + 1
<1>1. Heard(p) = <<>> /\ Heard(p)' = <<>>
    BY DEF HeardInv
<1>2. Len(Heard(p)) = 0 /\ Len(Heard(p)') = 0
    BY <1>1
<1>3. HeardInv(p)'
    BY DEF HeardInv, MakesNothing
<1> QED  BY <1>2, <1>3 DEF Awaited

(* The guest's key. *)
LEMMA HostKeyWhole ==
    ASSUME WholeInv, cut = {}, NEW c \in Connection, HostKeyExchange(c)
    PROVE  WholeInv'
<1> DEFINE p == "guest"
<1>1. /\ p \in Peer /\ Owner(c) = Other(p) /\ PeerTakes(c, "KEY_EXCHANGE")
      /\ "KEY_EXCHANGE" \in ItemTypes
    BY DEF HostKeyExchange, Peer, Other, ItemTypes
<1>2. /\ UNCHANGED <<serverState, timers, state, seat, roomsBySocket, readyState, up, isClosed,
                     sessionId, cipher, currentSocket, sendCounter, recvCounter, typed, printed,
                     shellRead, shown>>
      /\ child' = "running" /\ childSocket' = c
    BY DEF HostKeyExchange, OnMessage, roomVars
<1>3. WaysTypeOK /\ HeardInv(p) /\ ChunksInv
    BY <1>1 DEF WholeInv
<1>4. c = First("host") /\ sessionId["host"]
    BY <1>1, HeadIsDue DEF Other
<1>5. HeardTypeOK' /\ ChunksInv'
    BY <1>2, <1>3, <1>4 DEF HeardTypeOK, WaysTypeOK, ChunksInv
<1>6. ~Holds(p)
    <2>1. Head(down[c]).type = "KEY_EXCHANGE"
        BY <1>1, TakesFacts
    <2>2. Numbered(p, Head(down[c])) /\ IsItem(Head(down[c])) /\ (Holds(p) => Head(down[c]).n # 0)
        BY <1>1, HeadIsDue
    <2> QED  BY <2>1, <2>2 DEF Numbered
<1>7. Holds(p)' /\ Listening(p) /\ Heard(p)' = Heard(p) /\ MakesNothing(p)
    BY <1>2, <1>6 DEF Holds, Listening, Heard, MakesNothing, Made, Plain
<1>8. HeardInv(p)' /\ Awaited(p)' = Awaited(p) + 1
    BY <1>1, <1>2, <1>3, <1>6, <1>7, KeyHeard
<1>9. Hears(p, c)
    BY <1>1, <1>2 DEF Hears, OtherHearsNothing, Heard, Holds, Listening, Other
<1> HIDE DEF p
<1> QED  BY <1>1, <1>5, <1>7, <1>8, <1>9, HearsWhole

(* The host's key. *)
LEMMA GuestKeyWhole ==
    ASSUME WholeInv, cut = {}, NEW c \in Connection, GuestKeyExchange(c)
    PROVE  WholeInv'
<1> DEFINE p == "host"
<1>1. /\ p \in Peer /\ Owner(c) = Other(p) /\ PeerTakes(c, "KEY_EXCHANGE")
      /\ "KEY_EXCHANGE" \in ItemTypes
    BY DEF GuestKeyExchange, Peer, Other, ItemTypes
<1>2. /\ UNCHANGED <<serverState, timers, state, seat, roomsBySocket, readyState, up, isClosed,
                     sessionId, child, childSocket, currentSocket, sendCounter, recvCounter, typed,
                     printed, shellRead, shown>>
      /\ cipher' = TRUE
    BY DEF GuestKeyExchange, OnMessage, roomVars
<1>3. WaysTypeOK /\ HeardInv(p) /\ ChunksInv
    BY <1>1 DEF WholeInv
<1>5. HeardTypeOK' /\ ChunksInv'
    BY <1>2, <1>3 DEF HeardTypeOK, WaysTypeOK, ChunksInv
<1>6. ~Holds(p)
    <2>1. Head(down[c]).type = "KEY_EXCHANGE"
        BY <1>1, TakesFacts
    <2>2. Numbered(p, Head(down[c])) /\ IsItem(Head(down[c])) /\ (Holds(p) => Head(down[c]).n # 0)
        BY <1>1, HeadIsDue
    <2> QED  BY <2>1, <2>2 DEF Numbered
<1>7. Holds(p)' /\ Listening(p) /\ Heard(p)' = Heard(p) /\ MakesNothing(p)
    BY <1>2 DEF Holds, Listening, Heard, MakesNothing, Made, Plain
<1>8. HeardInv(p)' /\ Awaited(p)' = Awaited(p) + 1
    BY <1>1, <1>2, <1>3, <1>6, <1>7, KeyHeard
<1>9. Hears(p, c)
    BY <1>1, <1>2 DEF Hears, OtherHearsNothing, Heard, Holds, Listening, Other
<1> HIDE DEF p
<1> QED  BY <1>1, <1>5, <1>7, <1>8, <1>9, HearsWhole

(* The chunk that comes is the next one, and its counter is not refused. *)
LEMMA ChunkIsNext ==
    ASSUME WholeInv, NEW c \in Connection, NEW p \in Peer, Owner(c) = Other(p),
           NEW type \in {"ENCRYPTED_DATA", "PTY_INPUT"}, PeerTakes(c, type)
    PROVE  /\ Holds(p) \/ ~Listening(p)
           /\ Head(down[c]).n \in Nat /\ Head(down[c]).counter \in Nat
           /\ Listening(p) =>
                  /\ Head(down[c]).n = Len(Heard(p)) + 1 /\ Head(down[c]).n <= Made(p)
                  /\ type = "PTY_INPUT" => /\ Head(down[c]).n <= Plain(p)
                                           /\ recvCounter[Other(p)] = 0
                  /\ type = "ENCRYPTED_DATA" => /\ Plain(p) < Head(down[c]).n
                                                /\ Head(down[c]).counter = Head(down[c]).n - Plain(p)
                                                /\ recvCounter[Other(p)] < Head(down[c]).counter
<1> DEFINE m == Head(down[c])
<1>1. type \in ItemTypes
    BY DEF ItemTypes
<1>2. /\ Numbered(p, m) /\ m \in Msg /\ IsItem(m)
      /\ Listening(p) => m.n = Awaited(p)
    BY <1>1, HeadIsDue
<1>3. m.type = type
    BY TakesFacts
<1> HIDE DEF m
<1>4. m.n \in Nat /\ m.counter \in Nat
    BY <1>2 DEF Msg
<1>5. m.n # 0 /\ m.n <= Made(p)
      /\ (type = "PTY_INPUT" => m.n <= Plain(p))
      /\ (type = "ENCRYPTED_DATA" => Plain(p) < m.n /\ m.counter = m.n - Plain(p))
    BY <1>2, <1>3 DEF Numbered
<1>6. Listening(p) => Holds(p) /\ m.n = Len(Heard(p)) + 1
    BY <1>2, <1>5 DEF Awaited
<1>7. Len(Heard(p)) \in Nat /\ Plain(p) \in Nat
    BY DEF WholeInv, WaysTypeOK, ChunksInv, Heard, Plain, Peer
<1>8. Listening(p) => recvCounter[Other(p)] = IF Len(Heard(p)) <= Plain(p) THEN 0
                                              ELSE Len(Heard(p)) - Plain(p)
    BY DEF WholeInv, HeardInv
<1> DEFINE k == Len(Heard(p))
           r == recvCounter[Other(p)]
           l == Plain(p)
<1>9. k \in Nat /\ l \in Nat /\ (Listening(p) => m.n = k + 1 /\ r = IF k <= l THEN 0 ELSE k - l)
    BY <1>6, <1>7, <1>8
<1>10. (type = "PTY_INPUT" => m.n <= l) /\ (type = "ENCRYPTED_DATA" => l < m.n /\ m.counter = m.n - l)
    BY <1>5
<1> HIDE DEF k, r, l
<1>11. Listening(p) /\ type = "PTY_INPUT" => r = 0
    BY <1>4, <1>9, <1>10
<1>12. Listening(p) /\ type = "ENCRYPTED_DATA" => r < m.counter
    BY <1>4, <1>9, <1>10
<1> QED  BY <1>4, <1>5, <1>6, <1>11, <1>12 DEF m, r

(* A chunk that is heard leaves nothing out. *)
LEMMA ChunkHeard ==
    ASSUME WholeInv, NEW c \in Connection, NEW p \in Peer, Owner(c) = Other(p),
           NEW type \in {"ENCRYPTED_DATA", "PTY_INPUT"}, PeerTakes(c, type), MakesNothing(p),
           Holds(p)' = Holds(p), Listening(p)' = Listening(p),
           Heard(p)' = IF Listening(p) THEN Append(Heard(p), Head(down[c]).n) ELSE Heard(p),
           Listening(p) =>
               recvCounter'[Other(p)] = IF type = "PTY_INPUT" THEN recvCounter[Other(p)]
                                        ELSE Head(down[c]).counter
    PROVE  HeardInv(p)' /\ (Listening(p)' => Awaited(p)' = Awaited(p) + 1)
<1> DEFINE m == Head(down[c])
<1>1. WaysTypeOK /\ HeardInv(p)
    BY DEF WholeInv
<1>2. CASE ~Listening(p)
    BY <1>1, <1>2 DEF HeardInv, MakesNothing
<1>3. CASE Listening(p)
    <2>1. /\ Holds(p) /\ m.n \in Nat /\ m.counter \in Nat
          /\ m.n = Len(Heard(p)) + 1 /\ m.n <= Made(p)
          /\ type = "PTY_INPUT" => m.n <= Plain(p) /\ recvCounter[Other(p)] = 0
          /\ type = "ENCRYPTED_DATA" => Plain(p) < m.n /\ m.counter = m.n - Plain(p)
        BY <1>3, ChunkIsNext
    <2>2. Heard(p)' = Append(Heard(p), m.n) /\ Holds(p)'
        BY <1>3, <2>1
    <2>3. recvCounter'[Other(p)] = IF m.n <= Plain(p) THEN 0 ELSE m.n - Plain(p)
        <3>1. Plain(p) \in Nat
            BY <1>1 DEF WholeInv, WaysTypeOK, ChunksInv, Plain, Peer
        <3>2. recvCounter'[Other(p)] = IF type = "PTY_INPUT" THEN recvCounter[Other(p)]
                                       ELSE m.counter
            BY <1>3
        <3> HIDE DEF m
        <3> QED  BY <2>1, <3>1, <3>2
    <2>4. HeardInv(p)' /\ Len(Heard(p)') = Len(Heard(p)) + 1
        <3> HIDE DEF m
        <3> QED  BY <1>1, <2>1, <2>2, <2>3, HearsNext DEF MakesNothing
    <2>5. Awaited(p) = Len(Heard(p)) + 1 /\ Awaited(p)' = Len(Heard(p)') + 1
        BY <2>1, <2>2 DEF Awaited
    <2>6. Len(Heard(p)) \in Nat
        BY <1>1 DEF WaysTypeOK, Heard
    <2> QED  BY <2>4, <2>5, <2>6
<1> QED  BY <1>2, <1>3

(* A chunk for the shell. *)
LEMMA HostDataWhole ==
    ASSUME WholeInv, cut = {}, NEW c \in Connection, HostEncryptedData(c)
    PROVE  WholeInv'
<1> DEFINE p == "guest"
           m == Head(down[c])
<1>1. /\ p \in Peer /\ Owner(c) = Other(p) /\ PeerTakes(c, "ENCRYPTED_DATA")
      /\ "ENCRYPTED_DATA" \in ItemTypes
    BY DEF HostEncryptedData, Peer, Other, ItemTypes
<1>2. UNCHANGED <<serverState, timers, state, seat, roomsBySocket, readyState, up, isClosed,
                  sessionId, child, childSocket, cipher, currentSocket, sendCounter, typed, printed,
                  shown>>
    BY DEF HostEncryptedData, OnMessage, roomVars
<1>3. WaysTypeOK /\ ChunksInv
    BY DEF WholeInv
<1>4. /\ Holds(p) \/ ~Listening(p)
      /\ m.n \in Nat /\ m.counter \in Nat
      /\ Listening(p) => recvCounter["host"] < m.counter
    BY <1>1, ChunkIsNext DEF Other
<1>5. child # "none" /\ (Listening(p) <=> child = "running")
    BY <1>3, <1>4 DEF Holds, Listening, WaysTypeOK
<1>6. /\ recvCounter' = IF m.counter > recvCounter["host"]
                        THEN [recvCounter EXCEPT !["host"] = m.counter] ELSE recvCounter
      /\ shellRead' = IF m.counter > recvCounter["host"] /\ child = "running"
                      THEN Append(shellRead, m.n) ELSE shellRead
    BY <1>5 DEF HostEncryptedData, Decrypts, ShellReads
<1> HIDE DEF m
<1>7. HeardTypeOK' /\ ChunksInv'
    <2>1. recvCounter' \in [Peer -> Nat]
        BY <1>3, <1>4, <1>6 DEF WaysTypeOK
    <2>2. shellRead' \in Seq(Nat)
        <3>1. shellRead \in Seq(Nat)
            BY <1>3 DEF WaysTypeOK
        <3> QED  BY <1>4, <1>6, <3>1, AppendNat
    <2> QED  BY <1>2, <1>3, <2>1, <2>2 DEF HeardTypeOK, WaysTypeOK, ChunksInv
<1>8. /\ MakesNothing(p) /\ Holds(p)' = Holds(p) /\ Listening(p)' = Listening(p)
    BY <1>2 DEF MakesNothing, Holds, Listening, Made, Plain
<1>9. Heard(p)' = IF Listening(p) THEN Append(Heard(p), m.n) ELSE Heard(p)
    <2>1. Heard(p)' = shellRead' /\ Heard(p) = shellRead
        BY DEF Heard
    <2>2. Listening(p) => m.counter > recvCounter["host"]
        BY <1>1, <1>3, <1>4 DEF WaysTypeOK, Peer
    <2> QED  BY <1>5, <1>6, <2>1, <2>2
<1>10. Listening(p) => recvCounter'[Other(p)] = m.counter
    BY <1>1, <1>3, <1>4, <1>6 DEF WaysTypeOK, Peer, Other
<1>11. HeardInv(p)' /\ (Listening(p)' => Awaited(p)' = Awaited(p) + 1)
    BY <1>1, <1>8, <1>9, <1>10, ChunkHeard DEF m
<1>12. Hears(p, c)
    <2>1. recvCounter'["guest"] = recvCounter["guest"]
        BY <1>3, <1>6 DEF WaysTypeOK, Peer
    <2> QED  BY <1>1, <1>2, <2>1 DEF Hears, OtherHearsNothing, Heard, Holds, Listening, Other
<1> HIDE DEF p
<1> QED  BY <1>1, <1>7, <1>8, <1>11, <1>12, HearsWhole

(* A chunk in plain text for the shell. *)
LEMMA HostInputWhole ==
    ASSUME WholeInv, cut = {}, NEW c \in Connection, HostPtyInput(c)
    PROVE  WholeInv'
<1> DEFINE p == "guest"
           m == Head(down[c])
<1>1. /\ p \in Peer /\ Owner(c) = Other(p) /\ PeerTakes(c, "PTY_INPUT")
      /\ "PTY_INPUT" \in ItemTypes
    BY DEF HostPtyInput, Peer, Other, ItemTypes
<1>2. UNCHANGED <<serverState, timers, state, seat, roomsBySocket, readyState, up, isClosed,
                  sessionId, child, childSocket, cipher, currentSocket, sendCounter, recvCounter,
                  typed, printed, shown>>
    BY DEF HostPtyInput, OnMessage, roomVars
<1>3. WaysTypeOK /\ ChunksInv
    BY DEF WholeInv
<1>4. (Holds(p) \/ ~Listening(p)) /\ m.n \in Nat
    BY <1>1, ChunkIsNext
<1>5. child # "none" /\ (Listening(p) <=> child = "running")
    BY <1>3, <1>4 DEF Holds, Listening, WaysTypeOK
<1>6. shellRead' = IF child = "running" THEN Append(shellRead, m.n) ELSE shellRead
    BY DEF HostPtyInput, ShellReads
<1> HIDE DEF m
<1>7. HeardTypeOK' /\ ChunksInv'
    <2>1. shellRead' \in Seq(Nat)
        BY <1>3, <1>4, <1>6 DEF WaysTypeOK
    <2> QED  BY <1>2, <1>3, <2>1 DEF HeardTypeOK, WaysTypeOK, ChunksInv
<1>8. MakesNothing(p) /\ Holds(p)' = Holds(p) /\ Listening(p)' = Listening(p)
    BY <1>2 DEF MakesNothing, Holds, Listening, Made, Plain
<1>9. Heard(p)' = IF Listening(p) THEN Append(Heard(p), m.n) ELSE Heard(p)
    <2>1. Heard(p)' = shellRead' /\ Heard(p) = shellRead
        BY DEF Heard
    <2> QED  BY <1>5, <1>6, <2>1
<1>10. HeardInv(p)' /\ (Listening(p)' => Awaited(p)' = Awaited(p) + 1)
    BY <1>1, <1>2, <1>8, <1>9, ChunkHeard DEF m
<1>11. Hears(p, c)
    BY <1>1, <1>2 DEF Hears, OtherHearsNothing, Heard, Holds, Listening, Other
<1> HIDE DEF p
<1> QED  BY <1>1, <1>7, <1>8, <1>10, <1>11, HearsWhole

(* A chunk for the guest. *)
LEMMA GuestDataWhole ==
    ASSUME WholeInv, cut = {}, NEW c \in Connection, GuestEncryptedData(c)
    PROVE  WholeInv'
<1> DEFINE p == "host"
           m == Head(down[c])
<1>1. /\ p \in Peer /\ Owner(c) = Other(p) /\ PeerTakes(c, "ENCRYPTED_DATA")
      /\ "ENCRYPTED_DATA" \in ItemTypes
    BY DEF GuestEncryptedData, Peer, Other, ItemTypes
<1>2. UNCHANGED <<serverState, timers, state, seat, roomsBySocket, readyState, up, isClosed,
                  sessionId, child, childSocket, cipher, currentSocket, sendCounter, typed, printed,
                  shellRead>>
    BY DEF GuestEncryptedData, OnMessage, roomVars
<1>3. WaysTypeOK /\ ChunksInv
    BY DEF WholeInv
<1>4. Listening(p)
    BY DEF Listening
<1>5. /\ Holds(p) /\ m.n \in Nat /\ m.counter \in Nat
      /\ recvCounter["guest"] < m.counter
    BY <1>1, <1>4, ChunkIsNext DEF Other
<1>6. cipher /\ m.counter > recvCounter["guest"]
    BY <1>3, <1>5 DEF Holds, WaysTypeOK, Peer
<1>7. /\ recvCounter' = [recvCounter EXCEPT !["guest"] = m.counter]
      /\ shown' = Append(shown, m.n)
    BY <1>6 DEF GuestEncryptedData, Decrypts
<1> HIDE DEF m
<1>8. HeardTypeOK' /\ ChunksInv'
    <2>1. recvCounter' \in [Peer -> Nat]
        BY <1>3, <1>5, <1>7 DEF WaysTypeOK
    <2>2. shown' \in Seq(Nat)
        <3>1. shown \in Seq(Nat)
            BY <1>3 DEF WaysTypeOK
        <3> QED  BY <1>5, <1>7, <3>1, AppendNat
    <2> QED  BY <1>2, <1>3, <2>1, <2>2 DEF HeardTypeOK, WaysTypeOK, ChunksInv
<1>9. MakesNothing(p) /\ Holds(p)' = Holds(p) /\ Listening(p)' = Listening(p)
    BY <1>2 DEF MakesNothing, Holds, Listening, Made, Plain
<1>10. Heard(p)' = IF Listening(p) THEN Append(Heard(p), m.n) ELSE Heard(p)
    BY <1>4, <1>7 DEF Heard
<1>11. recvCounter'[Other(p)] = m.counter
    BY <1>3, <1>7 DEF WaysTypeOK, Peer, Other
<1>12. HeardInv(p)' /\ (Listening(p)' => Awaited(p)' = Awaited(p) + 1)
    BY <1>1, <1>9, <1>10, <1>11, ChunkHeard DEF m
<1>13. Hears(p, c)
    <2>1. recvCounter'["host"] = recvCounter["host"]
        BY <1>3, <1>7 DEF WaysTypeOK, Peer
    <2> QED  BY <1>1, <1>2, <2>1 DEF Hears, OtherHearsNothing, Heard, Holds, Listening, Other
<1> HIDE DEF p
<1> QED  BY <1>1, <1>8, <1>9, <1>12, <1>13, HearsWhole

(* What p makes next has not been heard. *)
LEMMA MakerHeard ==
    ASSUME WholeInv, NEW p \in Peer, OtherHearsNothing(p), Listening(p)' = Listening(p),
           Made(p)' \in Nat, Made(p) <= Made(p)', Plain(p)' \in Nat,
           Plain(p)' = Plain(p) \/ (Plain(p) = Made(p) /\ Plain(p) <= Plain(p)')
    PROVE  HeardInv(p)'
<1>1. HeardInv(p) /\ Len(Heard(p)) \in Nat /\ Made(p) \in Nat
    BY DEF WholeInv, WaysTypeOK, Heard, Made
<1> DEFINE k == Len(Heard(p))
           r == recvCounter[Other(p)]
           l == Plain(p)
<1>2. Listening(p) => r = IF k <= l THEN 0 ELSE k - l
    BY <1>1 DEF HeardInv
<1>3. k <= Made(p) /\ k \in Nat
    BY <1>1 DEF HeardInv
<1>4. PICK l1 \in Nat : l1 = Plain(p)'
    OBVIOUS
<1>5. l1 = l \/ (l = Made(p) /\ l <= l1)
    BY <1>4
<1> HIDE DEF k, r, l
<1>6. Listening(p) => r = IF k <= l1 THEN 0 ELSE k - l1
    BY <1>1, <1>2, <1>3, <1>5
<1>7. k <= Made(p)'
    BY <1>1, <1>3
<1> QED  BY <1>1, <1>4, <1>6, <1>7 DEF HeardInv, OtherHearsNothing, k, r

(* The next item is sent on an open connection. *)
LEMMA MakerPasses ==
    ASSUME WholeInv, cut = {}, NEW p \in Peer, KeepsNumbers(p), OtherHearsNothing(p),
           UNCHANGED <<serverState, state>>, readyState[First(p)] = "open",
           NEW m \in Msg, NEW rest \in Seq(Msg), IsItem(m), NoneOf(rest, ItemTypes),
           m.n = Due(p), Due(p)' = Due(p) + 1, Numbered(p, m)',
           PeerSends(First(p), <<m>> \o rest), In(p)' = In(p)
    PROVE  PassInv(p)'
<1>1. WaysTypeOK /\ PassInv(p)
    BY DEF WholeInv
<1>2. First(p) \in Connection /\ <<m>> \in Seq(Msg)
    BY FirstIn
<1>3. Out(p) \in Seq(Msg)
    BY <1>1, <1>2 DEF WaysTypeOK, Out
<1>4. <<m>> \o rest \in Seq(Msg)
    BY <1>2, ConcatPlaces
<1>5. Out(p)' = Out(p) \o (<<m>> \o rest)
    BY <1>1, <1>2, <1>4, SendsFacts DEF Out
<1>6. Out(p) \o (<<m>> \o rest) = (Out(p) \o <<m>>) \o rest
    <2> DEFINE q == Out(p)
               s == <<m>>
    <2>1. q \in Seq(Msg) /\ s \in Seq(Msg)
        BY <1>2, <1>3
    <2> HIDE DEF q, s
    <2>2. q \o (s \o rest) = (q \o s) \o rest
        BY <2>1
    <2> QED  BY <2>2 DEF q, s
<1>7. Out(p)' = (Out(p) \o <<m>>) \o rest
    BY <1>5, <1>6
<1>8. /\ Flows(p)' => Flows(p)
      /\ Listening(p)' => Listening(p) /\ Awaited(p)' = Awaited(p)
      /\ Holds(p)' => Holds(p)
    BY DEF Flows, OtherHearsNothing, Awaited
<1> QED  BY <1>1, <1>7, <1>8, PassMakes

(* The next item is lost, as the connection is no longer open. *)
LEMMA MakerIsMute ==
    ASSUME WholeInv, NEW p \in Peer, KeepsNumbers(p), OtherHearsNothing(p),
           UNCHANGED <<serverState, state, readyState>>, In(p)' = In(p),
           Flows(p) => Out(p)' = Out(p) /\ readyState[First(p)] # "open"
    PROVE  PassInv(p)'
<1>1. WaysTypeOK /\ PassInv(p)
    BY DEF WholeInv
<1>2. TellsSame(p)
    BY SameIsSame DEF TellsSame, Flows
<1>3. HearsNothing(p)
    <2>1. SameItems(In(p)', In(p))
        BY SameIsSame
    <2> QED  BY <2>1 DEF HearsNothing, OtherHearsNothing, Awaited
<1> QED  BY <1>1, <1>2, <1>3, PassQuiet

(* SESSION_READY, after which the key goes out. *)
LEMMA ReadyWhole ==
    ASSUME WholeInv, cut = {}, NEW c \in Connection, SessionReady(c)
    PROVE  WholeInv'
<1> DEFINE p == Owner(c)
           size == IF p = "guest" THEN <<Message("PTY_RESIZE")>> ELSE <<>>
           key == Message("KEY_EXCHANGE")
<1>1. /\ down[c] # <<>> /\ Head(down[c]).type = "SESSION_READY"
      /\ down'[c] = Tail(down[c]) /\ \A d \in Connection : d # c => down'[d] = down[d]
      /\ readyState[c] \in {"open", "closing"} /\ Handles(c, {Head(down[c]).type})
    BY TakesFacts DEF SessionReady
<1>2. c = First(p) /\ p \in Peer /\ ~sessionId[p] /\ First(Other(p)) # c /\ Other(p) \in Peer
      /\ First(Other(p)) \in Connection
    BY <1>1, OnFirst, FirstIn
<1>3. /\ UNCHANGED <<serverState, timers, state, seat, roomsBySocket, readyState, isClosed,
                     child, childSocket, cipher, currentSocket, sendCounter, recvCounter,
                     typed, printed, shellRead, shown>>
      /\ sessionId' = [sessionId EXCEPT ![p] = TRUE]
      /\ PeerSends(c, <<key>> \o size)
    BY DEF SessionReady, OnMessage, roomVars, terminalVars
<1>4. /\ key \in Msg /\ key.n = 0 /\ key.type = "KEY_EXCHANGE" /\ IsItem(key)
    BY DEF Message, Msg, Forwarded, IsItem
<1>5. size \in Seq(Msg) /\ NoneOf(size, ItemTypes) /\ NoneOf(size, {"CLOSE"})
    <2>1. "PTY_RESIZE" \in QuietTypes
        BY DEF QuietTypes, Forwarded, Ends, ItemTypes
    <2> QED  BY <2>1, OneWord, NoWord
<1> HIDE DEF size, key
<1>6. <<key>> \o size \in Seq(Msg) /\ NoneOf(<<key>> \o size, {"CLOSE"})
    <2>1. <<key>> \in Seq(Msg) /\ NoneOf(<<key>>, {"CLOSE"})
        BY <1>4, NoneOfOne
    <2> QED  BY <1>5, <2>1, ConcatPlaces, NoneOfConcat
<1>7. ItemActs(c)
    BY <1>1, <1>3, <1>6 DEF ItemActs, TakesOne
<1>8. /\ LastsInv' /\ LineInv'
      /\ up' \in [Connection -> Seq(Msg)] /\ down' \in [Connection -> Seq(Msg)]
      /\ sessionId' \in [Peer -> BOOLEAN] /\ \A d \in Connection : d # c => up'[d] = up[d]
      /\ readyState[c] # "open" => up'[c] = up[c]
    BY <1>7, ItemActsLine, ItemActsFacts
<1>9. WaysTypeOK /\ ChunksInv
    BY DEF WholeInv
<1>10. WaysTypeOK'
    BY <1>3, <1>8, <1>9 DEF WaysTypeOK
<1>11. /\ sessionId'[p] /\ \A q \in Peer : q # p => sessionId'[q] = sessionId[q]
       /\ \A q \in Peer : sessionId[q] => sessionId'[q]
    BY <1>2, <1>3, <1>9 DEF WaysTypeOK
<1>12. ChunksInv'
    BY <1>3, <1>9, <1>11 DEF ChunksInv, Peer
<1>13. \A q \in Peer : OtherHearsNothing(q)
    BY <1>3 DEF OtherHearsNothing, Heard, Holds, Listening
<1>14. Made(p) = 0
    BY <1>2, <1>9 DEF ChunksInv, Made, Peer
<1>15. KeepsNumbers(p) /\ Made(p)' = Made(p) /\ Plain(p)' = Plain(p)
    BY <1>3, <1>14 DEF KeepsNumbers, Made, Plain, Numbered
<1>16. Due(p) = 0 /\ Due(p)' = Due(p) + 1
    BY <1>2, <1>11, <1>14, <1>15 DEF Due
<1>17. Numbered(p, key)'
    BY <1>4, <1>14, <1>15 DEF Numbered
<1>18. In(p)' = In(p)
    BY <1>1, <1>2 DEF In
<1>19. PassInv(p)'
    <2>1. CASE readyState[c] = "open"
        <3> HIDE DEF p
        <3> QED  BY <1>2, <1>3, <1>4, <1>5, <1>13, <1>15, <1>16, <1>17, <1>18, <2>1, MakerPasses
    <2>2. CASE readyState[c] # "open"
        <3>1. Out(p)' = Out(p)
            BY <1>2, <1>8, <2>2 DEF Out
        <3> HIDE DEF p
        <3> QED  BY <1>2, <1>3, <1>13, <1>15, <1>18, <2>2, <3>1, MakerIsMute
    <2> QED  BY <2>1, <2>2
<1>20. HeardInv(p)'
    <2>1. HeardInv(p)
        BY <1>2 DEF WholeInv
    <2>2. Listening(p)' = Listening(p)
        BY <1>3 DEF Listening
    <2> HIDE DEF p
    <2> QED  BY <1>2, <1>3, <1>13, <1>15, <2>1, <2>2 DEF HeardInv, OtherHearsNothing
<1>21. ASSUME NEW q \in Peer, q # p
       PROVE  PassInv(q)' /\ HeardInv(q)'
    <2>1. q = Other(p) /\ p = Other(q)
        BY <1>2, <1>21 DEF Peer, Other
    <2>2. MakesNothing(q)
        BY <1>3, <1>11, <1>21 DEF MakesNothing, Made, Plain
    <2>3. Out(q)' = Out(q)
        BY <1>2, <1>8, <2>1 DEF Out
    <2>4. SameItems(In(q)', In(q))
        <3>1. In(q) = down[c] /\ In(q)' = down'[c]
            BY <1>2, <2>1 DEF In
        <3>2. ~IsItem(Head(down[c]))
            BY <1>1 DEF IsItem
        <3> QED  BY <1>1, <3>1, <3>2 DEF SameItems
    <2>5. SameItems(Out(q)', Out(q))
        BY <2>3, SameIsSame
    <2> QED  BY <1>3, <1>13, <2>2, <2>4, <2>5, OtherWay
<1> QED  BY <1>8, <1>10, <1>12, <1>19, <1>20, <1>21 DEF WholeInv

(* A step of a peer that takes nothing. *)
LEMMA OnlySends ==
    ASSUME WholeInv, NEW c \in Connection, NEW m \in Msg, m.type # "CLOSE",
           up' = up \/ PeerSends(c, <<m>>),
           UNCHANGED <<readyState, serverState, isClosed, timers, currentSocket, state, seat,
                       roomsBySocket, down, sessionId>>
    PROVE  ItemActs(c)
<1>1. <<m>> \in Seq(Msg) /\ NoneOf(<<m>>, {"CLOSE"})
    BY NoneOfOne
<1>2. \E out \in Seq(Msg) : NoneOf(out, {"CLOSE"}) /\ PeerSends(c, out)
    BY <1>1, SendsNothing
<1> QED  BY <1>2 DEF ItemActs

(* A chunk of output. *)
LEMMA OutputWhole ==
    ASSUME WholeInv, cut = {}, Output
    PROVE  WholeInv'
<1> DEFINE p == "host"
           c == First("host")
<1>0. PICK m : m = Chunk("ENCRYPTED_DATA", printed + 1, sendCounter["host"] + 1)
    OBVIOUS
<1>1. WaysTypeOK /\ ChunksInv /\ p \in Peer /\ c \in Connection
    BY FirstIn DEF WholeInv, Peer
<1>2. /\ child = "running" /\ childSocket = c /\ sessionId["host"] /\ printed' = printed + 1
      /\ UNCHANGED <<readyState, serverState, down, cut, timers, isClosed, sessionId, child,
                     childSocket, cipher, currentSocket, recvCounter, typed, shellRead, shown,
                     state, seat, roomsBySocket>>
    BY <1>1 DEF Output, ChunksInv, linkVars, roomVars
<1>3. \/ /\ readyState[c] = "open"
         /\ sendCounter' = [sendCounter EXCEPT !["host"] = sendCounter["host"] + 1]
         /\ PeerSends(c, <<m>>)
      \/ readyState[c] # "open" /\ sendCounter' = sendCounter /\ up' = up
    <2>1. CASE UNCHANGED <<sendCounter, up>> /\ readyState[c] # "open"
        BY <2>1
    <2>2. ASSUME readyState[c] = "open",
                 sendCounter' = [sendCounter EXCEPT !["host"] = sendCounter["host"] + 1],
                 PeerSends(c, <<Chunk("ENCRYPTED_DATA", printed', sendCounter'["host"])>>)
          PROVE  PeerSends(c, <<m>>)
        <3>1. sendCounter'["host"] = sendCounter["host"] + 1
            BY <1>1, <2>2 DEF WaysTypeOK, Peer
        <3> QED  BY <1>0, <1>2, <2>2, <3>1
    <2> QED  BY <1>2, <2>1, <2>2 DEF Output
<1>4. /\ printed \in Nat /\ sendCounter["host"] \in Nat
      /\ m.n = printed + 1 /\ m.counter = sendCounter["host"] + 1 /\ m.type = "ENCRYPTED_DATA"
    BY <1>0, <1>1 DEF WaysTypeOK, Chunk, Peer
<1>5. m \in Msg /\ IsItem(m)
    BY <1>0, <1>4 DEF Chunk, Msg, Forwarded, IsItem
<1>6. ItemActs(c)
    <2>1. up' = up \/ PeerSends(c, <<m>>)
        BY <1>3
    <2> QED  BY <1>1, <1>2, <1>4, <1>5, <2>1, OnlySends
<1>7. LastsInv' /\ LineInv' /\ up' \in [Connection -> Seq(Msg)]
    BY <1>1, <1>6, ItemActsLine, ItemActsFacts
<1>8. sendCounter' \in [Peer -> Nat] /\ sendCounter'["guest"] = sendCounter["guest"]
      /\ (readyState[c] = "open" => sendCounter'["host"] = sendCounter["host"] + 1)
      /\ sendCounter["host"] <= sendCounter'["host"]
    BY <1>1, <1>3, <1>4 DEF WaysTypeOK, Peer
<1>9. WaysTypeOK'
    BY <1>1, <1>2, <1>4, <1>7, <1>8 DEF WaysTypeOK
<1>10. ChunksInv'
    BY <1>1, <1>2, <1>4, <1>8 DEF ChunksInv
<1>11. \A q \in Peer : OtherHearsNothing(q) /\ Listening(q)' = Listening(q)
    BY <1>2 DEF OtherHearsNothing, Heard, Holds, Listening
<1>12. Made(p) = printed /\ Made(p)' = printed + 1 /\ Plain(p) = 0 /\ Plain(p)' = 0
    BY <1>2 DEF Made, Plain
<1>13. KeepsNumbers(p)
    <2>1. Made(p) <= Made(p)' /\ Made(p)' \in Nat
        BY <1>4, <1>12
    <2>2. ASSUME NEW k \in Msg, Numbered(p, k)
          PROVE  Numbered(p, k)'
        <3>1. k.n \in Nat /\ k.counter \in Nat
            BY DEF Msg
        <3> HIDE DEF p
        <3> QED  BY <1>1, <1>4, <1>8, <1>12, <2>2, <3>1 DEF Numbered, WaysTypeOK, p, Peer
    <2> QED  BY <2>1, <2>2 DEF KeepsNumbers
<1>14. HeardInv(p)'
    <2> HIDE DEF p
    <2> QED  BY <1>1, <1>4, <1>11, <1>12, MakerHeard
<1>15. In(p)' = In(p)
    BY <1>2 DEF In
<1>16. PassInv(p)'
    <2>1. CASE readyState[c] = "open"
        <3>1. Due(p) = m.n /\ Due(p)' = Due(p) + 1
            BY <1>2, <1>4, <1>12 DEF Due
        <3>2. sendCounter["host"] = printed
            BY <1>1, <2>1 DEF ChunksInv
        <3>3. Numbered(p, m)'
            BY <1>4, <1>8, <1>12, <2>1, <3>2 DEF Numbered
        <3>4. PeerSends(c, <<m>> \o <<>>)
            <4>1. <<m>> \o <<>> = <<m>>
                BY <1>5
            <4> QED  BY <1>3, <2>1, <4>1
        <3> HIDE DEF p
        <3> QED  BY <1>1, <1>2, <1>5, <1>11, <1>13, <1>15, <2>1, <3>1, <3>3, <3>4, NoWord,
                    MakerPasses DEF p
    <2>2. CASE readyState[c] # "open"
        <3>1. Out(p)' = Out(p)
            BY <1>3, <2>2 DEF Out
        <3> QED  BY <1>1, <1>2, <1>11, <1>13, <1>15, <2>2, <3>1, MakerIsMute
    <2> QED  BY <2>1, <2>2
<1>17. PassInv("guest")' /\ HeardInv("guest")'
    <2>1. MakesNothing("guest")
        BY <1>2, <1>8 DEF MakesNothing, Made, Plain
    <2>2. Out("guest")' = Out("guest") /\ In("guest")' = In("guest")
        <3>1. First("guest") \in Connection /\ First("guest") # c
            BY FirstIn DEF Peer, Other
        <3> QED  BY <1>1, <1>2, <1>6, <3>1, ItemActsFacts DEF Out, In
    <2>3. SameItems(Out("guest")', Out("guest")) /\ SameItems(In("guest")', In("guest"))
        BY <2>2, SameIsSame
    <2> QED  BY <1>2, <1>11, <2>1, <2>3, OtherWay DEF Peer
<1> QED  BY <1>7, <1>9, <1>10, <1>14, <1>16, <1>17 DEF WholeInv, Peer

(* A chunk of input. *)
LEMMA TypeWhole ==
    ASSUME WholeInv, cut = {}, Type
    PROVE  WholeInv'
<1> DEFINE p == "guest"
           c == currentSocket
<1>0. PICK m : m = IF cipher THEN Chunk("ENCRYPTED_DATA", typed + 1, sendCounter["guest"] + 1)
                             ELSE Chunk("PTY_INPUT", typed + 1, 0)
    OBVIOUS
<1>1. WaysTypeOK /\ ChunksInv /\ p \in Peer /\ c \in Connection /\ Owner(c) = "guest"
    BY DEF WholeInv, WaysTypeOK, Peer
<1>2. /\ sessionId["guest"] /\ ~isClosed["guest"] /\ typed' = typed + 1
      /\ UNCHANGED <<readyState, serverState, down, cut, timers, isClosed, sessionId, child,
                     childSocket, cipher, currentSocket, recvCounter, printed, shellRead, shown,
                     state, seat, roomsBySocket>>
    BY DEF Type, AtTerminal, linkVars, roomVars
<1>3. /\ PeerSends(c, <<m>>)
      /\ sendCounter' = IF cipher THEN [sendCounter EXCEPT !["guest"] = sendCounter["guest"] + 1]
                        ELSE sendCounter
    <2>1. CASE ~cipher
        BY <1>0, <1>2, <2>1 DEF Type
    <2>2. CASE cipher
        <3>1. sendCounter' = [sendCounter EXCEPT !["guest"] = sendCounter["guest"] + 1]
              /\ PeerSends(c, <<Chunk("ENCRYPTED_DATA", typed', sendCounter'["guest"])>>)
            BY <2>2 DEF Type
        <3>2. sendCounter'["guest"] = sendCounter["guest"] + 1
            BY <1>1, <3>1 DEF WaysTypeOK
        <3> QED  BY <1>0, <1>2, <2>2, <3>1, <3>2
    <2> QED  BY <2>1, <2>2
<1>4. /\ typed \in Nat /\ sendCounter["guest"] \in Nat /\ sendCounter["guest"] <= typed
      /\ m.n = typed + 1
      /\ cipher => m.counter = sendCounter["guest"] + 1 /\ m.type = "ENCRYPTED_DATA"
      /\ ~cipher => m.type = "PTY_INPUT" /\ sendCounter["guest"] = 0
    BY <1>0, <1>1 DEF WaysTypeOK, ChunksInv, Chunk
<1>5. m \in Msg /\ IsItem(m) /\ m.type # "CLOSE"
    BY <1>0, <1>4 DEF Chunk, Msg, Forwarded, IsItem
<1>6. ItemActs(c)
    BY <1>1, <1>2, <1>3, <1>5, OnlySends
<1>7. LastsInv' /\ LineInv' /\ up' \in [Connection -> Seq(Msg)]
      /\ \A d \in Connection : d # c => up'[d] = up[d]
    BY <1>1, <1>6, ItemActsLine, ItemActsFacts
<1>8. /\ sendCounter' \in [Peer -> Nat] /\ sendCounter'["host"] = sendCounter["host"]
      /\ cipher => sendCounter'["guest"] = sendCounter["guest"] + 1
      /\ ~cipher => sendCounter'["guest"] = 0
      /\ sendCounter["guest"] <= sendCounter'["guest"] /\ sendCounter'["guest"] <= typed'
    BY <1>1, <1>2, <1>3, <1>4 DEF WaysTypeOK, Peer
<1>9. WaysTypeOK'
    BY <1>1, <1>2, <1>4, <1>7, <1>8 DEF WaysTypeOK
<1>10. ChunksInv'
    BY <1>1, <1>2, <1>4, <1>8 DEF ChunksInv
<1>11. \A q \in Peer : OtherHearsNothing(q) /\ Listening(q)' = Listening(q)
    BY <1>2 DEF OtherHearsNothing, Heard, Holds, Listening
<1>12. /\ Made(p) = typed /\ Made(p)' = typed + 1
       /\ Plain(p) = typed - sendCounter["guest"] /\ Plain(p) \in Nat /\ Plain(p)' \in Nat
       /\ cipher => Plain(p)' = Plain(p)
       /\ ~cipher => Plain(p) = typed /\ Plain(p)' = typed + 1
    <2>1. Plain(p)' = typed' - sendCounter'["guest"]
        BY DEF Plain
    <2>2. Made(p) = typed /\ Made(p)' = typed' /\ Plain(p) = typed - sendCounter["guest"]
        BY DEF Made, Plain
    <2> HIDE DEF p
    <2>3. typed' - sendCounter'["guest"] = IF cipher THEN typed - sendCounter["guest"] ELSE typed + 1
        BY <1>2, <1>4, <1>8
    <2> QED  BY <1>2, <1>4, <2>1, <2>2, <2>3
<1>13. KeepsNumbers(p)
    <2>1. Made(p) <= Made(p)' /\ Made(p)' \in Nat
        BY <1>4, <1>12
    <2>2. ASSUME NEW k \in Msg, Numbered(p, k)
          PROVE  Numbered(p, k)'
        <3>1. k.n \in Nat /\ k.counter \in Nat
            BY DEF Msg
        <3>2. IsItem(k) => /\ k.n <= Made(p) /\ (k.type = "KEY_EXCHANGE" <=> k.n = 0)
                           /\ (k.type = "PTY_INPUT" => k.n <= Plain(p))
                           /\ (k.type = "ENCRYPTED_DATA" => Plain(p) < k.n /\ k.counter = k.n - Plain(p)
                                                            /\ k.counter <= sendCounter["guest"])
            BY <2>2 DEF Numbered
        <3> DEFINE l == Plain(p)
        <3>3. PICK l1 : l1 = Plain(p)'
            OBVIOUS
        <3>4. l \in Nat /\ l1 \in Nat /\ (cipher => l1 = l) /\ (~cipher => l = typed /\ l1 = typed + 1)
            BY <1>12, <3>3
        <3> HIDE DEF l
        <3>5. IsItem(k) /\ k.type = "ENCRYPTED_DATA" => cipher
            BY <1>4, <3>1, <3>2, <3>4 DEF l
        <3>6. IsItem(k) => /\ k.n <= typed + 1 /\ (k.type = "KEY_EXCHANGE" <=> k.n = 0)
                           /\ (k.type = "PTY_INPUT" => k.n <= l1)
                           /\ (k.type = "ENCRYPTED_DATA" => l1 < k.n /\ k.counter = k.n - l1
                                                            /\ k.counter <= sendCounter'["guest"])
            <4>1. sendCounter'["guest"] \in Nat
                BY <1>8 DEF Peer
            <4>2. IsItem(k) => k.n <= typed + 1 /\ (k.type = "KEY_EXCHANGE" <=> k.n = 0)
                BY <1>4, <1>12, <3>1, <3>2
            <4>3. IsItem(k) /\ k.type = "PTY_INPUT" => k.n <= l1
                BY <1>4, <3>1, <3>2, <3>4 DEF l
            <4>4. IsItem(k) /\ k.type = "ENCRYPTED_DATA" =>
                      l1 < k.n /\ k.counter = k.n - l1 /\ k.counter <= sendCounter'["guest"]
                BY <1>4, <1>8, <3>1, <3>2, <3>4, <3>5, <4>1 DEF l
            <4> QED  BY <4>2, <4>3, <4>4
        <3> QED  BY <1>12, <3>3, <3>6 DEF Numbered
    <2> QED  BY <2>1, <2>2 DEF KeepsNumbers
<1>14. HeardInv(p)'
    <2>1. Plain(p)' = Plain(p) \/ (Plain(p) = Made(p) /\ Plain(p) <= Plain(p)')
        BY <1>4, <1>12
    <2>2. Made(p)' \in Nat /\ Made(p) <= Made(p)' /\ Plain(p)' \in Nat
        BY <1>4, <1>12
    <2> QED  BY <1>1, <1>11, <2>1, <2>2, MakerHeard
<1>15. In(p)' = In(p)
    BY <1>2 DEF In
<1>16. PassInv(p)'
    <2>1. CASE state = "active"
        <3>1. c = First(p) /\ readyState[First(p)] = "open"
            BY <1>1, <1>2, <2>1 DEF WholeInv, LastsInv
        <3>2. Due(p) = m.n /\ Due(p)' = Due(p) + 1
            BY <1>2, <1>4, <1>12 DEF Due
        <3>3. Numbered(p, m)'
            <4>1. sendCounter'["guest"] \in Nat
                BY <1>8 DEF Peer
            <4> DEFINE s == sendCounter["guest"]
            <4>2. s \in Nat /\ s <= typed /\ typed \in Nat
                BY <1>4
            <4>3. CASE cipher
                <5>1. Made(p)' = typed + 1 /\ Plain(p)' = typed - s /\ sendCounter'["guest"] = s + 1
                      /\ m.n = typed + 1 /\ m.counter = s + 1 /\ m.type = "ENCRYPTED_DATA"
                    BY <1>4, <1>8, <1>12, <4>3
                <5> HIDE DEF s
                <5>2. typed - s < typed + 1 /\ s + 1 = (typed + 1) - (typed - s) /\ typed + 1 # 0
                    BY <4>2
                <5> QED  BY <4>2, <5>1, <5>2 DEF Numbered
            <4>4. CASE ~cipher
                <5>1. Made(p)' = typed + 1 /\ Plain(p)' = typed + 1
                      /\ m.n = typed + 1 /\ m.type = "PTY_INPUT"
                    BY <1>4, <1>12, <4>4
                <5> QED  BY <4>2, <5>1 DEF Numbered
            <4> QED  BY <4>3, <4>4
        <3>4. PeerSends(First(p), <<m>> \o <<>>)
            <4>1. <<m>> \o <<>> = <<m>>
                BY <1>5
            <4> QED  BY <1>3, <3>1, <4>1
        <3> HIDE DEF p, c
        <3> QED  BY <1>1, <1>2, <1>5, <1>11, <1>13, <1>15, <3>1, <3>2, <3>3, <3>4, NoWord,
                    MakerPasses
    <2>2. CASE state # "active"
        <3>1. ~Flows(p)
            BY <2>2 DEF Flows
        <3> QED  BY <1>1, <1>2, <1>11, <1>13, <1>15, <3>1, MakerIsMute
    <2> QED  BY <2>1, <2>2
<1>17. PassInv("host")' /\ HeardInv("host")'
    <2>1. MakesNothing("host")
        BY <1>2, <1>8 DEF MakesNothing, Made, Plain
    <2>2. Out("host")' = Out("host") /\ In("host")' = In("host")
        <3>1. First("host") \in Connection /\ First("host") # c
            BY <1>1, FirstIn DEF Peer
        <3> QED  BY <1>2, <1>7, <3>1 DEF Out, In
    <2>3. SameItems(Out("host")', Out("host")) /\ SameItems(In("host")', In("host"))
        BY <2>2, SameIsSame
    <2> QED  BY <1>2, <1>11, <2>1, <2>3, OtherWay DEF Peer
<1> QED  BY <1>7, <1>9, <1>10, <1>14, <1>16, <1>17 DEF WholeInv, Peer

(* After the end nothing more is forwarded; what has arrived is still read. *)
LEMMA EndedWhole ==
    ASSUME WholeInv, state' = "ended", NothingHeard, WaysTypeOK', LineInv',
           UNCHANGED <<sessionId, childSocket>>, \A p \in Peer : SameItems(In(p)', In(p)),
           readyState'[First("host")] = "open" => readyState[First("host")] = "open"
    PROVE  WholeInv'
<1>1. WaysTypeOK /\ ChunksInv
    BY DEF WholeInv
<1>2. LastsInv'
    BY DEF LastsInv
<1>3. ChunksInv'
    <2>1. /\ (child' = "none") = (child = "none")
          /\ UNCHANGED <<printed, typed, cipher, sendCounter>>
        BY DEF NothingHeard, ShellStops
    <2> QED  BY <1>1, <2>1 DEF ChunksInv
<1>4. ASSUME NEW p \in Peer
      PROVE  PassInv(p)' /\ HeardInv(p)'
    <2>1. PassInv(p) /\ HeardInv(p)
        BY DEF WholeInv
    <2>2. /\ KeepsNumbers(p) /\ HeardInv(p)'
          /\ Listening(p)' => Listening(p) /\ Awaited(p)' = Awaited(p)
          /\ Holds(p)' = Holds(p)
        BY <1>1, <2>1, NothingHeardFacts
    <2>3. TellsSame(p) /\ HearsNothing(p)
        BY <2>2 DEF TellsSame, Flows, HearsNothing
    <2> QED  BY <1>1, <2>1, <2>2, <2>3, PassQuiet
<1> QED  BY <1>2, <1>3, <1>4 DEF WholeInv

(* Only after the end are there timers and other connections. *)
LEMMA EndedLinks ==
    ASSUME WholeInv
    PROVE  /\ \A c \in Connection : readyState[c] = "connecting" =>
                  state = "ended" /\ c # First(Owner(c)) /\ Owner(c) \in Peer
           /\ \A c \in Connection : readyState[c] = "absent" => c # First(Owner(c))
           /\ \A p \in Peer, n \in Attempt : timers[p][n] > 0 => state = "ended"
<1>1. \A c \in Connection : Owner(c) \in Peer
    BY DEF Connection, Owner
<1>2. \A c \in Connection : readyState[c] \in {"absent", "connecting"} => c # First(Owner(c))
    BY <1>1 DEF WholeInv, LineInv
<1>3. \A c \in Connection : readyState[c] = "connecting" => state = "ended"
    BY <1>2 DEF WholeInv, LastsInv, WaysTypeOK
<1>4. \A p \in Peer, n \in Attempt : timers[p][n] > 0 => state = "ended"
    BY DEF WholeInv, LastsInv, WaysTypeOK
<1> QED  BY <1>1, <1>2, <1>3, <1>4

(* "open". *)
LEMMA SocketOpensWhole ==
    ASSUME WholeInv, NEW c \in Connection, SocketOpens(c)
    PROVE  WholeInv'
<1>1. WaysTypeOK /\ state = "ended" /\ c # First(Owner(c))
    BY EndedLinks DEF WholeInv, SocketOpens
<1>2. /\ readyState' = [readyState EXCEPT ![c] = "open"]
      /\ serverState' = [serverState EXCEPT ![c] = "open"]
      /\ up' = [up EXCEPT ![c] = <<Message("RECONNECT")>>]
      /\ currentSocket' = IF Owner(c) = "guest" THEN c ELSE currentSocket
      /\ UNCHANGED <<down, timers, isClosed, sessionId, child, childSocket, cipher, sendCounter,
                     recvCounter, typed, printed, shellRead, shown, state>>
    BY DEF SocketOpens, linkVars, roomVars
<1>3. <<Message("RECONNECT")>> \in Seq(Msg)
    <2>1. "RECONNECT" \in QuietTypes
        BY DEF QuietTypes, Forwarded, Ends, ItemTypes
    <2> QED  BY <2>1, OneWord
<1>4. WaysTypeOK'
    BY <1>1, <1>2, <1>3 DEF WaysTypeOK
<1>5. \A p \in Peer : First(p) \in Connection /\ First(p) # c /\ Other(p) \in Peer
    BY <1>1, FirstIn
<1>6. LineInv'
    <2>1. ASSUME NEW d \in Connection, d # First(Owner(d))
          PROVE  /\ readyState'[d] \in {"absent", "connecting"} => up'[d] = <<>>
                 /\ NoneOf(down'[d], ItemTypes \cup {"SESSION_READY"})
        BY <1>1, <1>2, <2>1 DEF WholeInv, LineInv, WaysTypeOK
    <2>2. \A p \in Peer : readyState'[First(p)] = readyState[First(p)]
        BY <1>1, <1>2, <1>5 DEF WaysTypeOK
    <2> QED  BY <1>2, <2>1, <2>2 DEF WholeInv, LineInv
<1>7. NothingHeard
    BY <1>2 DEF NothingHeard, ShellStops
<1>8. \A p \in Peer : SameItems(In(p)', In(p))
    <2>1. \A p \in Peer : In(p)' = In(p)
        BY <1>2 DEF In
    <2> QED  BY <2>1, SameIsSame
<1>9. readyState'[First("host")] = "open" => readyState[First("host")] = "open"
    BY <1>1, <1>2, <1>5 DEF WaysTypeOK, Peer
<1> QED  BY <1>1, <1>2, <1>4, <1>6, <1>7, <1>8, <1>9, EndedWhole

(* "error" and "close" of a connection that cannot be made. *)
LEMMA ConnectFailsWhole ==
    ASSUME WholeInv, NEW c \in Connection, ConnectFails(c)
    PROVE  WholeInv'
<1>1. WaysTypeOK /\ state = "ended" /\ c # First(Owner(c)) /\ Owner(c) \in Peer
      /\ readyState[c] = "connecting"
    BY EndedLinks DEF WholeInv, ConnectFails
<1> DEFINE p == Owner(c)
           onError == IF GivesUp(c) THEN timers ELSE Scheduled(p, attempt[c] + 1)
<1>2. /\ readyState' = [readyState EXCEPT ![c] = "absent"]
      /\ isClosed' = [isClosed EXCEPT ![p] = isClosed[p] \/ GivesUp(c)]
      /\ timers' = IF isClosed'[p] THEN onError
                   ELSE [onError EXCEPT ![p][0] = onError[p][0] + 1]
      /\ UNCHANGED <<serverState, up, down, sessionId, childSocket, cipher,
                     currentSocket, sendCounter, recvCounter, typed, printed, shellRead, shown,
                     state>>
      /\ child' = IF p = "host" /\ GivesUp(c) THEN Killed ELSE child
    BY DEF ConnectFails, roomVars
<1>3. timers' \in [Peer -> [Attempt -> Nat]]
    <2>1. timers \in [Peer -> [Attempt -> Nat]] /\ 0 \in Attempt
        BY <1>1, SessionAssumption DEF WaysTypeOK, Attempt
    <2>2. ASSUME NEW t \in [Peer -> [Attempt -> Nat]], NEW n
          PROVE  [t EXCEPT ![p][n] = t[p][n] + 1] \in [Peer -> [Attempt -> Nat]]
        <3>1. CASE n \in Attempt
            <4>1. t[p][n] \in Nat
                BY <1>1, <2>2, <3>1
            <4>2. t[p][n] + 1 \in Nat
                BY <4>1
            <4> DEFINE x == t[p][n] + 1
            <4> HIDE DEF x, p
            <4>3. [t EXCEPT ![p][n] = x] \in [Peer -> [Attempt -> Nat]]
                BY <1>1, <2>2, <4>2 DEF x
            <4> QED  BY <4>3 DEF x
        <3>2. CASE n \notin Attempt
            BY <1>1, <2>2, <3>2
        <3> QED  BY <3>1, <3>2
    <2>3. onError \in [Peer -> [Attempt -> Nat]]
        BY <2>1, <2>2 DEF Scheduled
    <2> HIDE DEF onError
    <2> QED  BY <1>2, <2>1, <2>2, <2>3
<1>4. ShellStops
    BY <1>2 DEF ShellStops, Killed
<1>5. child' \in {"none", "running", "killed", "exited"} /\ isClosed' \in [Peer -> BOOLEAN]
    BY <1>1, <1>2, <1>4 DEF WaysTypeOK, ShellStops
<1>6. WaysTypeOK'
    BY <1>1, <1>2, <1>3, <1>5 DEF WaysTypeOK
<1>7. \A q \in Peer : First(q) \in Connection /\ First(q) # c /\ Other(q) \in Peer
    BY <1>1, FirstIn
<1>8. LineInv'
    <2>1. ASSUME NEW d \in Connection, d # First(Owner(d))
          PROVE  /\ readyState'[d] \in {"absent", "connecting"} => up'[d] = <<>>
                 /\ NoneOf(down'[d], ItemTypes \cup {"SESSION_READY"})
        BY <1>1, <1>2, <2>1 DEF WholeInv, LineInv, WaysTypeOK
    <2>2. \A q \in Peer : readyState'[First(q)] = readyState[First(q)]
        BY <1>1, <1>2, <1>7 DEF WaysTypeOK
    <2> QED  BY <1>2, <2>1, <2>2 DEF WholeInv, LineInv
<1>9. NothingHeard
    BY <1>2, <1>4 DEF NothingHeard
<1>10. \A q \in Peer : SameItems(In(q)', In(q))
    <2>1. \A q \in Peer : In(q)' = In(q)
        BY <1>2 DEF In
    <2> QED  BY <2>1, SameIsSame
<1>11. readyState'[First("host")] = "open" => readyState[First("host")] = "open"
    BY <1>1, <1>2, <1>7 DEF WaysTypeOK, Peer
<1> QED  BY <1>1, <1>2, <1>6, <1>8, <1>9, <1>10, <1>11, EndedWhole

(* A reconnection, after the end. *)
LEMMA TimerFiresWhole ==
    ASSUME WholeInv, NEW p \in Peer, NEW n \in Attempt, TimerFires(p, n)
    PROVE  WholeInv'
<1>1. WaysTypeOK /\ state = "ended"
    BY EndedLinks DEF WholeInv, TimerFires
<1>2. /\ timers' = [timers EXCEPT ![p][n] = timers[p][n] - 1] /\ timers[p][n] > 0
      /\ UNCHANGED <<serverState, up, down, isClosed, sessionId, child, childSocket, cipher,
                     currentSocket, sendCounter, recvCounter, typed, printed, shellRead, shown,
                     state>>
    BY DEF TimerFires, terminalVars, roomVars
<1>3. /\ readyState' \in [Connection -> {"absent", "connecting", "open", "closing", "closed"}]
      /\ \A d \in Connection : \/ readyState'[d] = readyState[d]
                               \/ readyState[d] = "absent" /\ readyState'[d] = "connecting"
    <2>1. CASE readyState' = readyState
        BY <1>1, <2>1 DEF WaysTypeOK
    <2>2. ASSUME NEW i \in 1 .. MaxConnections, readyState[<<p, i>>] = "absent",
                 readyState' = [readyState EXCEPT ![<<p, i>>] = "connecting"]
          PROVE  /\ readyState' \in [Connection -> {"absent", "connecting", "open", "closing",
                                                    "closed"}]
                 /\ \A d \in Connection :
                        \/ readyState'[d] = readyState[d]
                        \/ readyState[d] = "absent" /\ readyState'[d] = "connecting"
        BY <1>1, <2>2 DEF WaysTypeOK
    <2> QED  BY <2>1, <2>2 DEF TimerFires
<1>4. timers' \in [Peer -> [Attempt -> Nat]]
    <2>1. timers \in [Peer -> [Attempt -> Nat]]
        BY <1>1 DEF WaysTypeOK
    <2>2. timers[p][n] - 1 \in Nat
        <3>1. timers[p][n] \in Nat
            BY <2>1
        <3> QED  BY <1>2, <3>1
    <2> QED  BY <1>2, <2>1, <2>2
<1>5. WaysTypeOK'
    BY <1>1, <1>2, <1>3, <1>4 DEF WaysTypeOK
<1>6. \A q \in Peer : First(q) \in Connection /\ Other(q) \in Peer /\ Owner(First(q)) = q
    BY FirstIn
<1>7. \A q \in Peer : readyState'[First(q)] = readyState[First(q)]
    BY <1>3, <1>6, EndedLinks
<1>8. LineInv'
    <2>1. ASSUME NEW d \in Connection, d # First(Owner(d))
          PROVE  /\ readyState'[d] \in {"absent", "connecting"} => up'[d] = <<>>
                 /\ NoneOf(down'[d], ItemTypes \cup {"SESSION_READY"})
        BY <1>2, <1>3, <2>1 DEF WholeInv, LineInv
    <2> QED  BY <1>2, <1>7, <2>1 DEF WholeInv, LineInv
<1>9. NothingHeard
    BY <1>2 DEF NothingHeard, ShellStops
<1>10. \A q \in Peer : SameItems(In(q)', In(q))
    <2>1. \A q \in Peer : In(q)' = In(q)
        BY <1>2 DEF In
    <2> QED  BY <2>1, SameIsSame
<1>11. readyState'[First("host")] = "open" => readyState[First("host")] = "open"
    BY <1>7 DEF Peer
<1> QED  BY <1>1, <1>2, <1>5, <1>8, <1>9, <1>10, <1>11, EndedWhole

(* Every message of s is of one of these types. *)
AllOf(s, types) == s \in Seq(Msg) /\ \A i \in 1 .. Len(s) : s[i].type \in types

(* A reply of the relay: one message to one connection. *)
LEMMA ToAll ==
    ASSUME NEW c, NEW type \in QuietTypes, NEW d \in Connection
    PROVE  /\ AllOf(To(c, type)[d], {type})
           /\ d # c => AllOf(To(c, type)[d], {})
<1>1. <<Message(type)>> \in Seq(Msg) /\ Message(type).type = type
    BY OneWord
<1>2. To(c, type)[d] = IF d = c THEN <<Message(type)>> ELSE <<>>
    BY DEF To
<1> QED  BY <1>1, <1>2 DEF AllOf

(* One reply after the other. *)
LEMMA ThenAll ==
    ASSUME NEW out, NEW more, NEW d \in Connection, NEW S, NEW T,
           AllOf(out[d], S), AllOf(more[d], T)
    PROVE  AllOf(Then(out, more)[d], S \cup T)
<1>1. Then(out, more)[d] = out[d] \o more[d]
    BY DEF Then
<1> DEFINE a == out[d]
           b == more[d]
<1>2. a \in Seq(Msg) /\ b \in Seq(Msg) /\ (\A i \in 1 .. Len(a) : a[i].type \in S)
      /\ (\A i \in 1 .. Len(b) : b[i].type \in T)
    BY DEF AllOf
<1> HIDE DEF a, b
<1>3. AllOf(a \o b, S \cup T)
    BY <1>2, ConcatPlaces DEF AllOf
<1> QED  BY <1>1, <1>3 DEF a, b

(* Then there is none of the others. *)
LEMMA AllNone ==
    ASSUME NEW S, NEW T, NEW s, AllOf(s, S), S \cap T = {}
    PROVE  s \in Seq(Msg) /\ NoneOf(s, T)
BY DEF AllOf, NoneOf

(* What the relay may say to a connection. *)
Says(d, s) ==
    /\ s \in Seq(Msg) /\ NoneOf(s, {"SESSION_READY"})
    /\ d # First(Owner(d)) => NoneOf(s, ItemTypes)
    /\ state' = "active" => /\ NoneOf(s, {"ERROR"})
                            /\ isClosed[Owner(d)] \/ NoneOf(s, {"CLOSE"})

(* A step of the relay. *)
RelayActs ==
    /\ up' \in [Connection -> Seq(Msg)] /\ down' \in [Connection -> Seq(Msg)]
    /\ \A d \in Connection : up'[d] = up[d] \/ (up[d] # <<>> /\ up'[d] = Tail(up[d]))
    /\ \A d \in Connection : \E s : Says(d, s) /\ down'[d] = down[d] \o s
    /\ UNCHANGED <<readyState, timers, isClosed, sessionId, terminalVars>>
    /\ serverState' \in [Connection -> {"absent", "open", "closing", "closed"}]
    /\ \A d \in Connection : serverState'[d] = "open" => serverState[d] = "open"
    /\ state' \in {"active", "ended"}
    /\ state' = "active" =>
           /\ state = "active"
           /\ \A p \in Peer : seat'[p] = First(p) /\ First(p) \in roomsBySocket'

(* After such a step all is as it should be, but for what is under way. *)
LEMMA RelayActsLine ==
    ASSUME WholeInv, RelayActs
    PROVE  /\ WaysTypeOK' /\ LastsInv' /\ LineInv' /\ ChunksInv'
           /\ \A p \in Peer : HeardInv(p)' /\ KeepsNumbers(p) /\ MakesNothing(p)
                              /\ OtherHearsNothing(p)
<1>1. WaysTypeOK /\ ChunksInv
    BY DEF WholeInv
<1>2. UNCHANGED <<readyState, timers, isClosed, sessionId, child, childSocket, cipher,
                  currentSocket, sendCounter, recvCounter, typed, printed, shellRead, shown>>
    BY DEF RelayActs, terminalVars
<1>3. WaysTypeOK'
    BY <1>1, <1>2 DEF WaysTypeOK, RelayActs
<1>4. ChunksInv'
    BY <1>1, <1>2 DEF ChunksInv
<1>5. ASSUME NEW p \in Peer
      PROVE  HeardInv(p)' /\ KeepsNumbers(p) /\ MakesNothing(p) /\ OtherHearsNothing(p)
    <2>1. NothingHeard
        BY <1>2 DEF NothingHeard, ShellStops
    <2>2. HeardInv(p)' /\ KeepsNumbers(p)
        BY <1>1, <2>1, NothingHeardFacts DEF WholeInv
    <2>3. MakesNothing(p) /\ OtherHearsNothing(p)
        BY <1>2 DEF MakesNothing, OtherHearsNothing, Made, Plain, Heard, Holds, Listening
    <2> QED  BY <2>2, <2>3
<1>6. \A d \in Connection : up[d] \in Seq(Msg) /\ down[d] \in Seq(Msg)
    BY <1>1 DEF WaysTypeOK
<1>7. ASSUME NEW d \in Connection, NEW types, NoneOf(up[d], types)
      PROVE  NoneOf(up'[d], types)
    BY <1>6, <1>7, NoneOfFacts DEF RelayActs
<1>8. LineInv'
    <2>1. ASSUME NEW d \in Connection, d # First(Owner(d))
          PROVE  /\ readyState'[d] \in {"absent", "connecting"} => up'[d] = <<>>
                 /\ NoneOf(down'[d], ItemTypes \cup {"SESSION_READY"})
        <3>1. NoneOf(down[d], ItemTypes \cup {"SESSION_READY"})
              /\ (readyState[d] \in {"absent", "connecting"} => up[d] = <<>>)
            BY <2>1 DEF WholeInv, LineInv
        <3>2. readyState'[d] \in {"absent", "connecting"} => up'[d] = <<>>
            BY <1>2, <3>1 DEF RelayActs
        <3>3. PICK s : Says(d, s) /\ down'[d] = down[d] \o s
            BY DEF RelayActs
        <3>4. s \in Seq(Msg) /\ NoneOf(s, ItemTypes \cup {"SESSION_READY"})
            BY <2>1, <3>3 DEF Says, NoneOf
        <3> QED  BY <1>6, <3>1, <3>2, <3>3, <3>4, NoneOfConcat
    <2>2. ASSUME NEW p \in Peer
          PROVE  /\ readyState'[First(p)] \in {"open", "closing", "closed"}
                 /\ sessionId'[p] => NoneOf(down'[First(p)], {"SESSION_READY"})
                 /\ ~sessionId'[p] => /\ down'[First(p)] # <<>>
                                      /\ Head(down'[First(p)]).type = "SESSION_READY"
                                      /\ NoneOf(Tail(down'[First(p)]), {"SESSION_READY"})
        <3>1. First(p) \in Connection
            BY FirstIn
        <3>2. PICK s : Says(First(p), s) /\ down'[First(p)] = down[First(p)] \o s
            BY <3>1 DEF RelayActs
        <3> DEFINE q == down[First(p)]
        <3>3. s \in Seq(Msg) /\ q \in Seq(Msg) /\ NoneOf(s, {"SESSION_READY"})
            BY <1>6, <3>1, <3>2 DEF Says
        <3>4. /\ readyState[First(p)] \in {"open", "closing", "closed"}
              /\ sessionId[p] => NoneOf(q, {"SESSION_READY"})
              /\ ~sessionId[p] => /\ q # <<>> /\ Head(q).type = "SESSION_READY"
                                  /\ NoneOf(Tail(q), {"SESSION_READY"})
            BY DEF WholeInv, LineInv
        <3>5. down'[First(p)] = q \o s
            BY <3>2
        <3> HIDE DEF q
        <3>6. q # <<>> => /\ q \o s # <<>> /\ Head(q \o s) = Head(q)
                          /\ Tail(q \o s) = Tail(q) \o s /\ Tail(q) \in Seq(Msg)
            BY <3>3
        <3>7. sessionId[p] => NoneOf(q \o s, {"SESSION_READY"})
            BY <3>3, <3>4, NoneOfConcat
        <3>8. ~sessionId[p] => NoneOf(Tail(q \o s), {"SESSION_READY"})
            BY <3>3, <3>4, <3>6, NoneOfConcat
        <3> QED  BY <1>2, <3>4, <3>5, <3>6, <3>7, <3>8
    <2> QED  BY <2>1, <2>2 DEF LineInv
<1>9. ASSUME state' = "active"
      PROVE  LastsInv'
    <2>1. state = "active" /\ LastsInv
        BY <1>9 DEF RelayActs, WholeInv
    <2>2. ASSUME NEW p \in Peer
          PROVE  /\ NoneOf(down'[First(p)], {"ERROR"})
                 /\ \/ isClosed[p]
                    \/ NoneOf(down'[First(p)], {"CLOSE"}) /\ NoneOf(up'[First(p)], {"CLOSE"})
        <3>1. First(p) \in Connection /\ Owner(First(p)) = p
            BY FirstIn
        <3>2. PICK s : Says(First(p), s) /\ down'[First(p)] = down[First(p)] \o s
            BY <3>1 DEF RelayActs
        <3>3. s \in Seq(Msg) /\ NoneOf(s, {"ERROR"}) /\ (isClosed[p] \/ NoneOf(s, {"CLOSE"}))
            BY <1>9, <3>1, <3>2 DEF Says
        <3>4. NoneOf(down'[First(p)], {"ERROR"})
            BY <1>6, <2>1, <3>1, <3>2, <3>3, NoneOfConcat DEF LastsInv
        <3>5. ASSUME ~isClosed[p]
              PROVE  NoneOf(down'[First(p)], {"CLOSE"}) /\ NoneOf(up'[First(p)], {"CLOSE"})
            <4>1. NoneOf(down[First(p)], {"CLOSE"}) /\ NoneOf(up[First(p)], {"CLOSE"})
                BY <2>1, <3>5 DEF LastsInv
            <4>2. NoneOf(up'[First(p)], {"CLOSE"})
                BY <1>7, <3>1, <4>1
            <4>3. NoneOf(s, {"CLOSE"}) /\ down[First(p)] \in Seq(Msg)
                BY <1>6, <3>1, <3>3, <3>5
            <4>4. NoneOf(down[First(p)] \o s, {"CLOSE"})
                BY <3>3, <4>1, <4>3, NoneOfConcat
            <4> QED  BY <3>2, <4>2, <4>4
        <3> QED  BY <3>4, <3>5
    <2> QED  BY <1>2, <1>9, <2>1, <2>2 DEF LastsInv, RelayActs
<1> QED  BY <1>3, <1>4, <1>5, <1>8, <1>9 DEF LastsInv

(* Nothing goes missing by a step that moves no item. *)
LEMMA RelayActsWhole ==
    ASSUME WholeInv, RelayActs, \A p \in Peer : SameItems(In(p)', In(p)),
           \A p \in Peer : state' = "active" => SameItems(Out(p)', Out(p))
    PROVE  WholeInv'
<1>1. /\ WaysTypeOK' /\ LastsInv' /\ LineInv' /\ ChunksInv'
      /\ \A p \in Peer : HeardInv(p)' /\ KeepsNumbers(p) /\ MakesNothing(p) /\ OtherHearsNothing(p)
    BY RelayActsLine
<1>2. ASSUME NEW p \in Peer
      PROVE  PassInv(p)'
    <2>1. WaysTypeOK /\ PassInv(p)
        BY DEF WholeInv
    <2>2. First(Other(p)) \in Connection
        BY FirstIn
    <2>3. Flows(p)' => Flows(p) /\ state' = "active"
        BY <2>2 DEF Flows, RelayActs
    <2>4. readyState' = readyState /\ Due(p)' = Due(p)
        BY <1>1, <2>1, MakesNothingFacts DEF RelayActs
    <2>5. TellsSame(p)
        BY <2>3, <2>4 DEF TellsSame
    <2>6. HearsNothing(p)
        BY <1>1 DEF HearsNothing, OtherHearsNothing, Awaited
    <2> QED  BY <1>1, <2>1, <2>5, <2>6, PassQuiet
<1> QED  BY <1>1, <1>2 DEF WholeInv

(* What the relay sends arrives, if the connection is open. *)
LEMMA RelaySendsFacts ==
    ASSUME WholeInv, cut = {}, NEW out, RelaySends(out), \A d \in Connection : Says(d, out[d])
    PROVE  /\ down' \in [Connection -> Seq(Msg)]
           /\ \A d \in Connection : /\ serverState[d] = "open" => down'[d] = down[d] \o out[d]
                                    /\ serverState[d] # "open" => down'[d] = down[d]
           /\ \A d \in Connection : \E s : Says(d, s) /\ down'[d] = down[d] \o s
<1>1. down \in [Connection -> Seq(Msg)] /\ \A d \in Connection : out[d] \in Seq(Msg)
    BY DEF WholeInv, WaysTypeOK, Says
<1>2. \A d \in Connection : down'[d] = IF serverState[d] = "open" THEN down[d] \o out[d] ELSE down[d]
    BY DEF RelaySends
<1>3. \A d \in Connection : down[d] \o out[d] \in Seq(Msg)
    BY <1>1, ConcatPlaces
<1>4. down' \in [Connection -> Seq(Msg)]
    BY <1>1, <1>3 DEF RelaySends
<1>5. \A d \in Connection : Says(d, <<>>) /\ down[d] \o <<>> = down[d]
    BY <1>1 DEF Says, NoneOf
<1> QED  BY <1>2, <1>4, <1>5

(* What the relay takes. *)
LEMMA RelayTakesFacts ==
    ASSUME WholeInv, NEW c \in Connection, NEW types, RelayTakes(c, types)
    PROVE  /\ up' \in [Connection -> Seq(Msg)] /\ up[c] # <<>> /\ Head(up[c]).type \in types
           /\ up'[c] = Tail(up[c]) /\ \A d \in Connection : d # c => up'[d] = up[d]
           /\ \A d \in Connection : up'[d] = up[d] \/ (up[d] # <<>> /\ up'[d] = Tail(up[d]))
           /\ state = "active" => c = First(Owner(c)) /\ Owner(c) \in Peer
<1>1. up \in [Connection -> Seq(Msg)] /\ up[c] # <<>> /\ Head(up[c]).type \in types
      /\ up' = [up EXCEPT ![c] = Tail(up[c])]
    BY DEF WholeInv, WaysTypeOK, RelayTakes
<1>2. Tail(up[c]) \in Seq(Msg)
    BY <1>1
<1>3. state = "active" => c = First(Owner(c)) /\ Owner(c) \in Peer
    BY <1>1, InUse DEF WholeInv, LastsInv, LineInv
<1> QED  BY <1>1, <1>2, <1>3

(* What the relay says by itself has no item. *)
LEMMA SaysQuiet ==
    ASSUME NEW d \in Connection, NEW s, NEW S \in SUBSET QuietTypes, AllOf(s, S),
           state' = "active" => "ERROR" \notin S /\ (isClosed[Owner(d)] \/ "CLOSE" \notin S)
    PROVE  Says(d, s) /\ s \in Seq(Msg) /\ NoneOf(s, ItemTypes)
<1>1. S \cap {"SESSION_READY"} = {} /\ S \cap ItemTypes = {}
    BY DEF QuietTypes, Forwarded, Ends, ItemTypes
<1>2. s \in Seq(Msg) /\ NoneOf(s, ItemTypes) /\ NoneOf(s, {"SESSION_READY"})
    BY <1>1, AllNone
<1>3. ASSUME state' = "active"
      PROVE  NoneOf(s, {"ERROR"}) /\ (isClosed[Owner(d)] \/ NoneOf(s, {"CLOSE"}))
    <2>1. S \cap {"ERROR"} = {} /\ (isClosed[Owner(d)] \/ S \cap {"CLOSE"} = {})
        BY <1>3
    <2>2. NoneOf(s, {"ERROR"})
        BY <2>1, AllNone
    <2>3. S \cap {"CLOSE"} = {} => NoneOf(s, {"CLOSE"})
        BY AllNone
    <2> QED  BY <2>1, <2>2, <2>3
<1> QED  BY <1>2, <1>3 DEF Says

(* Nor does it move one. *)
LEMMA RepliesMoveNothing ==
    ASSUME WholeInv, cut = {}, NEW out, RelaySends(out),
           \A d \in Connection : Says(d, out[d]) /\ NoneOf(out[d], ItemTypes)
    PROVE  \A p \in Peer : SameItems(In(p)', In(p))
<1> SUFFICES ASSUME NEW p \in Peer PROVE SameItems(In(p)', In(p))
    OBVIOUS
<1> DEFINE d == First(Other(p))
<1>1. d \in Connection
    BY FirstIn
<1>2. down'[d] = down[d] \o out[d] \/ down'[d] = down[d]
    BY <1>1, RelaySendsFacts
<1>3. out[d] \in Seq(Msg) /\ NoneOf(out[d], ItemTypes)
    BY <1>1 DEF Says
<1>4. In(p) = down[d] /\ In(p)' = down'[d]
    BY DEF In
<1> QED  BY <1>2, <1>3, <1>4 DEF SameItems

(* A message that is no item is taken by the relay. *)
LEMMA TakesQuiet ==
    ASSUME WholeInv, NEW c \in Connection, NEW types \in SUBSET QuietTypes, RelayTakes(c, types)
    PROVE  \A p \in Peer : SameItems(Out(p)', Out(p))
<1> SUFFICES ASSUME NEW p \in Peer PROVE SameItems(Out(p)', Out(p))
    OBVIOUS
<1> DEFINE d == First(p)
<1>1. d \in Connection
    BY FirstIn
<1>2. Out(p) = up[d] /\ Out(p)' = up'[d]
    BY DEF Out
<1>3. up'[d] = up[d] \/ (up[d] # <<>> /\ up'[d] = Tail(up[d]) /\ ~IsItem(Head(up[d])))
    <2>1. up'[c] = Tail(up[c]) /\ up[c] # <<>> /\ Head(up[c]).type \in types
          /\ \A e \in Connection : e # c => up'[e] = up[e]
        BY RelayTakesFacts
    <2>2. ~IsItem(Head(up[c]))
        BY <2>1 DEF QuietTypes, ItemTypes, IsItem
    <2> QED  BY <1>1, <2>1, <2>2
<1> QED  BY <1>2, <1>3 DEF SameItems

(* A connection takes its seat again, or is refused. *)
LEMMA ReconnectWhole ==
    ASSUME WholeInv, cut = {}, NEW c \in Connection, HandleReconnect(c)
    PROVE  WholeInv'
<1>1. {"RECONNECT"} \in SUBSET QuietTypes /\ "RECONNECT_OK" \in QuietTypes /\ "ERROR" \in QuietTypes
      /\ "CLOSE" \in QuietTypes
    BY DEF QuietTypes, Forwarded, Ends, ItemTypes
<1>2. RelayTakes(c, {"RECONNECT"})
    BY DEF HandleReconnect
<1>3. /\ up' \in [Connection -> Seq(Msg)]
      /\ \A d \in Connection : up'[d] = up[d] \/ (up[d] # <<>> /\ up'[d] = Tail(up[d]))
      /\ state = "active" => c = First(Owner(c)) /\ Owner(c) \in Peer
    BY <1>2, RelayTakesFacts
<1>4. \A p \in Peer : SameItems(Out(p)', Out(p))
    BY <1>1, <1>2, TakesQuiet
<1>5. UNCHANGED <<readyState, timers, isClosed, sessionId, terminalVars>>
    BY DEF HandleReconnect, linkVars
<1>6. WaysTypeOK
    BY DEF WholeInv
<1>7. CASE /\ state = "active" /\ TakeSeat(c) /\ RelaySends(To(c, "RECONNECT_OK"))
           /\ UNCHANGED <<serverState, state>>
    <2> DEFINE out == To(c, "RECONNECT_OK")
    <2>1. \A d \in Connection : Says(d, out[d]) /\ NoneOf(out[d], ItemTypes)
        <3> SUFFICES ASSUME NEW d \in Connection
                     PROVE  Says(d, out[d]) /\ NoneOf(out[d], ItemTypes)
            OBVIOUS
        <3>1. AllOf(out[d], {"RECONNECT_OK"}) /\ {"RECONNECT_OK"} \in SUBSET QuietTypes
            BY <1>1, ToAll
        <3> HIDE DEF out
        <3> QED  BY <3>1, SaysQuiet
    <2> HIDE DEF out
    <2>2. RelaySends(out)
        BY <1>7 DEF out
    <2>3. \A p \in Peer : SameItems(In(p)', In(p))
        BY <2>1, <2>2, RepliesMoveNothing
    <2>4. /\ down' \in [Connection -> Seq(Msg)]
          /\ \A d \in Connection : \E s : Says(d, s) /\ down'[d] = down[d] \o s
        BY <2>1, <2>2, RelaySendsFacts
    <2>5. \A p \in Peer : seat'[p] = First(p) /\ First(p) \in roomsBySocket'
        <3>1. c = First(Owner(c)) /\ Owner(c) \in Peer
            BY <1>3, <1>7
        <3>2. \A p \in Peer : seat[p] = First(p) /\ First(p) \in roomsBySocket
            BY <1>7 DEF WholeInv, LastsInv
        <3>3. /\ seat' = [seat EXCEPT ![Owner(c)] = c]
              /\ roomsBySocket' = (roomsBySocket \ {seat[Owner(c)]}) \cup {c}
            BY <1>7 DEF TakeSeat
        <3>4. roomsBySocket \subseteq roomsBySocket'
            BY <3>1, <3>2, <3>3
        <3>5. \A p \in Peer : seat'[p] = First(p)
            <4> SUFFICES ASSUME NEW p \in Peer PROVE seat'[p] = First(p)
                OBVIOUS
            <4>1. CASE p = Owner(c)
                <5>1. seat' = [seat EXCEPT ![p] = c] /\ c = First(p)
                    BY <3>1, <3>3, <4>1
                <5>2. seat'[p] = seat[p] \/ seat'[p] = c
                    BY <5>1
                <5> QED  BY <3>2, <5>1, <5>2
            <4>2. CASE p # Owner(c)
                BY <3>2, <3>3, <4>2
            <4> QED  BY <4>1, <4>2
        <3> QED  BY <3>2, <3>4, <3>5
    <2>6. RelayActs
        BY <1>3, <1>5, <1>6, <1>7, <2>4, <2>5 DEF RelayActs, WaysTypeOK
    <2> QED  BY <1>4, <2>3, <2>6, RelayActsWhole
<1>8. CASE /\ state = "ended" /\ RelaySends(Then(To(c, "ERROR"), To(c, "CLOSE")))
           /\ RelayCloses({}, {c}) /\ UNCHANGED roomVars
    <2> DEFINE out == Then(To(c, "ERROR"), To(c, "CLOSE"))
    <2>1. state' = "ended"
        BY <1>8 DEF roomVars
    <2>2. \A d \in Connection : Says(d, out[d]) /\ NoneOf(out[d], ItemTypes)
        <3> SUFFICES ASSUME NEW d \in Connection
                     PROVE  Says(d, out[d]) /\ NoneOf(out[d], ItemTypes)
            OBVIOUS
        <3>1. AllOf(To(c, "ERROR")[d], {"ERROR"}) /\ AllOf(To(c, "CLOSE")[d], {"CLOSE"})
            BY <1>1, ToAll
        <3>2. AllOf(out[d], {"ERROR"} \cup {"CLOSE"})
            BY <3>1, ThenAll
        <3>3. {"ERROR"} \cup {"CLOSE"} \in SUBSET QuietTypes
            BY <1>1
        <3> HIDE DEF out
        <3> QED  BY <2>1, <3>2, <3>3, SaysQuiet
    <2> HIDE DEF out
    <2>3. RelaySends(out)
        BY <1>8 DEF out
    <2>4. \A p \in Peer : SameItems(In(p)', In(p))
        BY <2>2, <2>3, RepliesMoveNothing
    <2>5. /\ down' \in [Connection -> Seq(Msg)]
          /\ \A d \in Connection : \E s : Says(d, s) /\ down'[d] = down[d] \o s
        BY <2>2, <2>3, RelaySendsFacts
    <2>6. /\ serverState' \in [Connection -> {"absent", "open", "closing", "closed"}]
          /\ \A d \in Connection : serverState'[d] = "open" => serverState[d] = "open"
        BY <1>6, <1>8 DEF RelayCloses, WaysTypeOK
    <2>7. RelayActs
        BY <1>3, <1>5, <2>1, <2>5, <2>6 DEF RelayActs
    <2> QED  BY <1>4, <2>4, <2>7, RelayActsWhole
<1> QED  BY <1>7, <1>8 DEF HandleReconnect

(* Replies of the relay that move no item. *)
LEMMA RepliesFacts ==
    ASSUME WholeInv, cut = {}, NEW out, RelaySends(out),
           \A d \in Connection : Says(d, out[d]) /\ NoneOf(out[d], ItemTypes)
    PROVE  /\ \A p \in Peer : SameItems(In(p)', In(p))
           /\ down' \in [Connection -> Seq(Msg)]
           /\ \A d \in Connection : \E s : Says(d, s) /\ down'[d] = down[d] \o s
BY RepliesMoveNothing, RelaySendsFacts

(* What becomes of the connections. *)
LEMMA ClosesOnly ==
    ASSUME WaysTypeOK, NEW closed, NEW closing, RelayCloses(closed, closing)
    PROVE  /\ serverState' \in [Connection -> {"absent", "open", "closing", "closed"}]
           /\ \A d \in Connection : serverState'[d] = "open" => serverState[d] = "open"
BY DEF RelayCloses, WaysTypeOK

(* The room is cleaned up, which ends the session. *)
LEMMA CleanupSays ==
    ASSUME WholeInv, cut = {}, NEW c, NEW closed, NEW reply, CleanupRoom(c, closed, reply),
           \A d \in Connection : AllOf(reply[d], QuietTypes)
    PROVE  /\ state' = "ended"
           /\ \A p \in Peer : SameItems(In(p)', In(p))
           /\ down' \in [Connection -> Seq(Msg)]
           /\ \A d \in Connection : \E s : Says(d, s) /\ down'[d] = down[d] \o s
           /\ serverState' \in [Connection -> {"absent", "open", "closing", "closed"}]
           /\ \A d \in Connection : serverState'[d] = "open" => serverState[d] = "open"
<1> DEFINE guest == IF c = seat["host"] THEN seat["guest"] ELSE None
           out == Then(Then(reply, To(PeerOf(c), "TERMINATED")), To(guest, "CLOSE"))
<1>1. RelaySends(out) /\ RelayCloses(closed, {guest}) /\ state' = "ended"
    BY DEF CleanupRoom
<1>2. {"TERMINATED", "CLOSE"} \subseteq QuietTypes
    BY DEF QuietTypes, Forwarded, Ends, ItemTypes
<1>3. \A d \in Connection : Says(d, out[d]) /\ NoneOf(out[d], ItemTypes)
    <2> SUFFICES ASSUME NEW d \in Connection
                 PROVE  Says(d, out[d]) /\ NoneOf(out[d], ItemTypes)
        OBVIOUS
    <2>1. /\ AllOf(To(PeerOf(c), "TERMINATED")[d], {"TERMINATED"})
          /\ AllOf(To(guest, "CLOSE")[d], {"CLOSE"})
        BY <1>2, ToAll
    <2>2. AllOf(Then(reply, To(PeerOf(c), "TERMINATED"))[d], QuietTypes \cup {"TERMINATED"})
        BY <2>1, ThenAll
    <2>3. AllOf(out[d], (QuietTypes \cup {"TERMINATED"}) \cup {"CLOSE"})
        BY <2>1, <2>2, ThenAll
    <2>4. (QuietTypes \cup {"TERMINATED"}) \cup {"CLOSE"} \in SUBSET QuietTypes
        BY <1>2
    <2> HIDE DEF out
    <2> QED  BY <1>1, <2>3, <2>4, SaysQuiet
<1> HIDE DEF out
<1>4. WaysTypeOK
    BY DEF WholeInv
<1> QED  BY <1>1, <1>3, <1>4, RepliesFacts, ClosesOnly

(* The relay reads the close of a connection. *)
LEMMA RelayReadsCloseWhole ==
    ASSUME WholeInv, cut = {}, NEW c \in Connection, RelayReadsClose(c)
    PROVE  WholeInv'
<1>1. /\ {"CLOSE"} \in SUBSET QuietTypes /\ {"TERMINATED"} \in SUBSET QuietTypes
      /\ {"CLOSE"} \cup {"TERMINATED"} \in SUBSET QuietTypes
      /\ "CLOSE" \in QuietTypes /\ "TERMINATED" \in QuietTypes
    BY DEF QuietTypes, Forwarded, Ends, ItemTypes
<1>2. RelayTakes(c, {"CLOSE"})
    BY DEF RelayReadsClose
<1>3. /\ up' \in [Connection -> Seq(Msg)] /\ up[c] # <<>> /\ Head(up[c]).type = "CLOSE"
      /\ \A d \in Connection : up'[d] = up[d] \/ (up[d] # <<>> /\ up'[d] = Tail(up[d]))
      /\ state = "active" => c = First(Owner(c)) /\ Owner(c) \in Peer
    BY <1>2, RelayTakesFacts
<1>4. \A p \in Peer : SameItems(Out(p)', Out(p))
    BY <1>1, <1>2, TakesQuiet
<1>5. UNCHANGED <<readyState, timers, isClosed, sessionId, terminalVars>>
    BY DEF RelayReadsClose, linkVars
<1>6. WaysTypeOK
    BY DEF WholeInv
<1>7. state = "active" => isClosed[Owner(c)] /\ c \in roomsBySocket
    <2>1. up[c] \in Seq(Msg)
        BY <1>6 DEF WaysTypeOK
    <2>2. ~NoneOf(up[c], {"CLOSE"})
        BY <1>3, <2>1, NoneOfFacts
    <2> QED  BY <1>3, <2>2 DEF WholeInv, LastsInv
<1> DEFINE reply == To(c, "CLOSE")
<1>8. CASE c \notin roomsBySocket /\ RelaySends(reply) /\ RelayCloses({c}, {}) /\ UNCHANGED roomVars
    <2>1. state' = "ended"
        BY <1>6, <1>7, <1>8 DEF roomVars, WaysTypeOK
    <2>2. \A d \in Connection : Says(d, reply[d]) /\ NoneOf(reply[d], ItemTypes)
        <3> SUFFICES ASSUME NEW d \in Connection
                     PROVE  Says(d, reply[d]) /\ NoneOf(reply[d], ItemTypes)
            OBVIOUS
        <3>1. AllOf(reply[d], {"CLOSE"})
            BY <1>1, ToAll
        <3> HIDE DEF reply
        <3> QED  BY <1>1, <2>1, <3>1, SaysQuiet
    <2> HIDE DEF reply
    <2>3. RelayActs /\ \A p \in Peer : SameItems(In(p)', In(p))
        BY <1>3, <1>5, <1>6, <1>8, <2>1, <2>2, RepliesFacts, ClosesOnly DEF RelayActs
    <2> QED  BY <1>4, <2>3, RelayActsWhole
<1>9. CASE /\ c \in roomsBySocket /\ state = "active"
           /\ RelaySends(Then(reply, To(PeerOf(c), "TERMINATED")))
           /\ RelayCloses({c}, {})
           /\ UNCHANGED <<state, seat, roomsBySocket>>
    <2> DEFINE out == Then(reply, To(PeerOf(c), "TERMINATED"))
    <2>1. \A d \in Connection : Says(d, out[d]) /\ NoneOf(out[d], ItemTypes)
        <3> SUFFICES ASSUME NEW d \in Connection
                     PROVE  Says(d, out[d]) /\ NoneOf(out[d], ItemTypes)
            OBVIOUS
        <3>1. AllOf(To(PeerOf(c), "TERMINATED")[d], {"TERMINATED"})
            BY <1>1, ToAll
        <3>2. CASE d = c
            <4>1. AllOf(reply[d], {"CLOSE"})
                BY <1>1, ToAll
            <4>2. AllOf(out[d], {"CLOSE"} \cup {"TERMINATED"})
                BY <3>1, <4>1, ThenAll
            <4>3. isClosed[Owner(d)]
                BY <1>7, <1>9, <3>2
            <4> HIDE DEF out
            <4> QED  BY <1>1, <4>2, <4>3, SaysQuiet
        <3>3. CASE d # c
            <4>1. AllOf(reply[d], {})
                BY <1>1, <3>3, ToAll
            <4>2. AllOf(out[d], {} \cup {"TERMINATED"})
                BY <3>1, <4>1, ThenAll
            <4>3. {} \cup {"TERMINATED"} \in SUBSET QuietTypes
                BY <1>1
            <4> HIDE DEF out
            <4> QED  BY <4>2, <4>3, SaysQuiet
        <3> QED  BY <3>2, <3>3
    <2>2. RelaySends(out)
        BY <1>9
    <2> HIDE DEF out
    <2>3. \A p \in Peer : seat'[p] = First(p) /\ First(p) \in roomsBySocket'
        BY <1>9 DEF WholeInv, LastsInv
    <2>4. RelayActs /\ \A p \in Peer : SameItems(In(p)', In(p))
        BY <1>3, <1>5, <1>6, <1>9, <2>1, <2>2, <2>3, RepliesFacts, ClosesOnly DEF RelayActs
    <2> QED  BY <1>4, <2>4, RelayActsWhole
<1>10. CASE CleanupRoom(c, {c}, reply)
    <2>1. \A d \in Connection : AllOf(reply[d], QuietTypes)
        <3>1. \A d \in Connection : AllOf(reply[d], {"CLOSE"})
            BY <1>1, ToAll
        <3> HIDE DEF reply
        <3> QED  BY <1>1, <3>1 DEF AllOf
    <2> HIDE DEF reply
    <2>2. RelayActs /\ \A p \in Peer : SameItems(In(p)', In(p))
        BY <1>3, <1>5, <1>10, <2>1, CleanupSays DEF RelayActs
    <2> QED  BY <1>4, <2>2, RelayActsWhole
<1> QED  BY <1>8, <1>9, <1>10 DEF RelayReadsClose, HandleDisconnect

(* The grace period of a connection is over. *)
LEMMA GraceTimerWhole ==
    ASSUME WholeInv, cut = {}, NEW c \in Connection, GraceTimerFires(c)
    PROVE  WholeInv'
<1>1. UNCHANGED <<readyState, up, timers, isClosed, sessionId, terminalVars>>
    BY DEF GraceTimerFires, linkVars
<1>2. WaysTypeOK
    BY DEF WholeInv
<1>3. \A p \in Peer : SameItems(Out(p)', Out(p))
    <2>1. \A p \in Peer : Out(p)' = Out(p)
        BY <1>1 DEF Out
    <2> QED  BY <2>1, SameIsSame
<1>4. CASE CleanupRoom(c, {}, NoReply)
    <2>1. \A d \in Connection : AllOf(NoReply[d], QuietTypes)
        <3>1. "ERROR" \in QuietTypes
            BY DEF QuietTypes, Forwarded, Ends, ItemTypes
        <3>2. \A d \in Connection : AllOf(NoReply[d], {"ERROR"})
            BY <3>1, ToAll DEF NoReply
        <3> QED  BY <3>1, <3>2 DEF AllOf
    <2>2. RelayActs /\ \A p \in Peer : SameItems(In(p)', In(p))
        BY <1>1, <1>2, <1>4, <2>1, CleanupSays DEF RelayActs, WaysTypeOK
    <2> QED  BY <1>3, <2>2, RelayActsWhole
<1>5. CASE UNCHANGED <<down, serverState, state, seat, roomsBySocket>>
    <2>1. \A p \in Peer : SameItems(In(p)', In(p))
        <3>1. \A p \in Peer : In(p)' = In(p)
            BY <1>5 DEF In
        <3> QED  BY <3>1, SameIsSame
    <2>2. \A d \in Connection : \E s : Says(d, s) /\ down'[d] = down[d] \o s
        <3> SUFFICES ASSUME NEW d \in Connection
                     PROVE  Says(d, <<>>) /\ down'[d] = down[d] \o <<>>
            OBVIOUS
        <3>1. down[d] \in Seq(Msg)
            BY <1>2 DEF WaysTypeOK
        <3> QED  BY <1>5, <3>1 DEF Says, NoneOf
    <2>3. state = "active" => \A p \in Peer : seat[p] = First(p) /\ First(p) \in roomsBySocket
        BY DEF WholeInv, LastsInv
    <2>4. RelayActs
        BY <1>1, <1>2, <1>5, <2>2, <2>3 DEF RelayActs, WaysTypeOK
    <2> QED  BY <1>3, <2>1, <2>4, RelayActsWhole
<1> QED  BY <1>4, <1>5 DEF GraceTimerFires

(* A message is forwarded: an item, or another. *)
LEMMA ForwardWhole ==
    ASSUME WholeInv, cut = {}, NEW c \in Connection, ForwardToPeer(c)
    PROVE  WholeInv'
<1>1. WaysTypeOK
    BY DEF WholeInv
<1>2. RelayTakes(c, Forwarded)
    BY DEF ForwardToPeer
<1>3. /\ up' \in [Connection -> Seq(Msg)] /\ up[c] # <<>> /\ Head(up[c]).type \in Forwarded
      /\ up'[c] = Tail(up[c]) /\ \A d \in Connection : d # c => up'[d] = up[d]
      /\ \A d \in Connection : up'[d] = up[d] \/ (up[d] # <<>> /\ up'[d] = Tail(up[d]))
      /\ state = "active" => c = First(Owner(c)) /\ Owner(c) \in Peer
    BY <1>2, RelayTakesFacts
<1>4. UNCHANGED <<readyState, serverState, timers, isClosed, sessionId, terminalVars, state, seat,
                  roomsBySocket>>
    BY DEF ForwardToPeer, linkVars, roomVars
<1>5. Head(up[c]) \in Msg
    BY <1>1, <1>3, TailPlaces DEF WaysTypeOK
<1>6. CASE ~(c \in roomsBySocket /\ state = "active")
    <2> DEFINE out == To(c, "ERROR")
    <2>1. state = "ended" /\ state' = "ended"
        BY <1>1, <1>3, <1>4, <1>6 DEF WholeInv, LastsInv, WaysTypeOK
    <2>2. RelaySends(out)
        BY <1>6 DEF ForwardToPeer
    <2>3. \A d \in Connection : Says(d, out[d]) /\ NoneOf(out[d], ItemTypes)
        <3> SUFFICES ASSUME NEW d \in Connection
                     PROVE  Says(d, out[d]) /\ NoneOf(out[d], ItemTypes)
            OBVIOUS
        <3>1. AllOf(out[d], {"ERROR"}) /\ {"ERROR"} \in SUBSET QuietTypes
            BY ToAll DEF QuietTypes, Forwarded, Ends, ItemTypes
        <3> HIDE DEF out
        <3> QED  BY <2>1, <3>1, SaysQuiet
    <2> HIDE DEF out
    <2>4. RelayActs /\ \A p \in Peer : SameItems(In(p)', In(p))
        BY <1>1, <1>3, <1>4, <2>1, <2>2, <2>3, RepliesFacts DEF RelayActs, WaysTypeOK
    <2> QED  BY <2>1, <2>4, RelayActsWhole
<1>7. CASE c \in roomsBySocket /\ state = "active"
    <2>1. PICK p \in Peer : p = Owner(c) /\ c = First(p)
        BY <1>3, <1>7
    <2>2. PICK o : o = First(Other(p))
        OBVIOUS
    <2>3. o \in Connection /\ Owner(o) = Other(p) /\ o # c /\ Other(p) \in Peer
        BY <2>1, <2>2, FirstIn
    <2>4. PeerOf(c) = o
        <3>1. seat["host"] = First("host") /\ seat["guest"] = First("guest")
            BY <1>7 DEF WholeInv, LastsInv, Peer
        <3>2. First("host") # First("guest")
            BY DEF First
        <3> QED  BY <2>1, <2>2, <3>1, <3>2 DEF PeerOf, Peer, Other
    <2>5. PICK m \in Msg : m = Head(up[c])
        BY <1>5
    <2> DEFINE out == [d \in Connection |-> IF d = o THEN <<m>> ELSE <<>>]
    <2>6. RelaySends(out)
        BY <1>7, <2>4, <2>5 DEF ForwardToPeer
    <2>7. \A d \in Connection : out[d] = IF d = o THEN <<m>> ELSE <<>>
        OBVIOUS
    <2>8. m.type \notin {"SESSION_READY", "ERROR", "CLOSE"}
        BY <1>3, <2>5 DEF Forwarded
    <2> HIDE DEF out
    <2>9. \A d \in Connection : Says(d, out[d]) /\ out[d] \in Seq(Msg)
        <3> SUFFICES ASSUME NEW d \in Connection PROVE Says(d, out[d]) /\ out[d] \in Seq(Msg)
            OBVIOUS
        <3>1. CASE d = o
            <4>1. out[d] = <<m>> /\ d = First(Owner(d))
                BY <2>2, <2>3, <2>7, <3>1
            <4>2. <<m>> \in Seq(Msg) /\ NoneOf(<<m>>, {"SESSION_READY"}) /\ NoneOf(<<m>>, {"ERROR"})
                  /\ NoneOf(<<m>>, {"CLOSE"})
                BY <2>8, NoneOfOne
            <4> QED  BY <4>1, <4>2 DEF Says
        <3>2. CASE d # o
            <4>1. Says(d, <<>>) /\ <<>> \in Seq(Msg)
                BY DEF Says, NoneOf
            <4> QED  BY <2>7, <3>2, <4>1
        <3> QED  BY <3>1, <3>2
    <2>10. /\ down' \in [Connection -> Seq(Msg)]
           /\ \A d \in Connection : /\ serverState[d] = "open" => down'[d] = down[d] \o out[d]
                                    /\ serverState[d] # "open" => down'[d] = down[d]
           /\ \A d \in Connection : \E s : Says(d, s) /\ down'[d] = down[d] \o s
        BY <2>6, <2>9, RelaySendsFacts
    <2>11. RelayActs
        <3>1. \A q \in Peer : seat'[q] = First(q) /\ First(q) \in roomsBySocket'
            BY <1>4, <1>7 DEF WholeInv, LastsInv
        <3> QED  BY <1>1, <1>3, <1>4, <2>10, <3>1 DEF RelayActs, WaysTypeOK
    <2>12. /\ WaysTypeOK' /\ LastsInv' /\ LineInv' /\ ChunksInv'
           /\ \A q \in Peer : HeardInv(q)' /\ KeepsNumbers(q) /\ MakesNothing(q)
                              /\ OtherHearsNothing(q)
        BY <2>11, RelayActsLine
    <2>13. \A d \in Connection : d # o => down'[d] = down[d]
        <3> SUFFICES ASSUME NEW d \in Connection, d # o PROVE down'[d] = down[d]
            OBVIOUS
        <3>1. out[d] = <<>> /\ down[d] \in Seq(Msg)
            BY <1>1, <2>7 DEF WaysTypeOK
        <3>2. down[d] \o <<>> = down[d]
            BY <3>1
        <3> QED  BY <2>10, <3>1, <3>2
    <2>14. ASSUME NEW q \in Peer, q # p
           PROVE  PassInv(q)'
        <3>1. q = Other(p) /\ p = Other(q)
            BY <2>14 DEF Peer, Other
        <3>2. Out(q)' = Out(q) /\ In(q)' = In(q)
            BY <1>3, <2>1, <2>2, <2>3, <2>13, <3>1 DEF Out, In
        <3>3. SameItems(Out(q)', Out(q)) /\ SameItems(In(q)', In(q))
            BY <3>2, SameIsSame
        <3> QED  BY <1>4, <2>12, <3>3, OtherWay
    <2>15. PassInv(p) /\ Due(p)' = Due(p)
        BY <1>1, <2>12, MakesNothingFacts DEF WholeInv
    <2>16. In(p) = down[o] /\ In(p)' = down'[o] /\ Out(p) = up[c] /\ Out(p)' = Tail(up[c])
        BY <1>3, <2>1, <2>2 DEF In, Out
    <2>17. CASE IsItem(m) /\ serverState[o] = "open"
        <3>1. In(p)' = In(p) \o <<Head(Out(p))>>
            BY <2>3, <2>5, <2>7, <2>10, <2>16, <2>17
        <3>2. Flows(p) /\ Flows(p)'
            BY <1>4, <1>7, <2>2, <2>17 DEF Flows
        <3>3. Listening(p)' => Listening(p) /\ Awaited(p)' = Awaited(p)
            BY <2>12 DEF OtherHearsNothing, Awaited
        <3>4. (Holds(p)' => Holds(p)) /\ Made(p)' = Made(p)
            BY <2>12 DEF OtherHearsNothing, MakesNothing
        <3>5. Out(p) # <<>> /\ IsItem(Head(Out(p))) /\ Out(p)' = Tail(Out(p))
            BY <1>3, <2>5, <2>16, <2>17
        <3>6. PassInv(p)'
            BY <1>1, <1>4, <2>12, <2>15, <3>1, <3>2, <3>3, <3>4, <3>5, PassForwards
        <3> QED  BY <2>12, <2>14, <3>6 DEF WholeInv
    <2>18. CASE serverState[o] # "open"
        <3>1. In(p)' = In(p)
            BY <2>3, <2>10, <2>16, <2>18
        <3>2. ~Flows(p)
            BY <2>2, <2>18 DEF Flows
        <3>3. PassInv(p)'
            BY <1>4, <2>12, <3>1, <3>2, MakerIsMute
        <3> QED  BY <2>12, <2>14, <3>3 DEF WholeInv
    <2>19. CASE ~IsItem(m)
        <3>1. SameItems(Out(p)', Out(p))
            BY <1>3, <2>5, <2>16, <2>19 DEF SameItems
        <3>2. SameItems(In(p)', In(p))
            <4>1. out[o] = <<m>> /\ NoneOf(<<m>>, ItemTypes) /\ <<m>> \in Seq(Msg)
                BY <2>3, <2>7, <2>19, NoneOfOne DEF IsItem, ItemTypes
            <4>2. down'[o] = down[o] \/ down'[o] = down[o] \o <<m>>
                BY <2>3, <2>10, <4>1
            <4> QED  BY <2>16, <4>1, <4>2 DEF SameItems
        <3>3. PassInv(p)'
            BY <1>4, <2>12, <3>1, <3>2, OtherWay
        <3> QED  BY <2>12, <2>14, <3>3 DEF WholeInv
    <2> QED  BY <2>17, <2>18, <2>19
<1> QED  BY <1>6, <1>7

(* At first SESSION_READY is under way to both. *)
LEMMA InitWhole ==
    ASSUME Init
    PROVE  WholeInv
<1>1. \A c \in Connection : Owner(c) \in Peer
    BY DEF Connection, Owner
<1>2. \A p \in Peer : First(p) \in Connection /\ Owner(First(p)) = p /\ Other(p) \in Peer
    BY FirstIn
<1>3. Message("SESSION_READY") \in Msg /\ Message("SESSION_READY").type = "SESSION_READY"
    BY DEF Message, Msg
<1> DEFINE ready == <<Message("SESSION_READY")>>
<1>4. ready \in Seq(Msg) /\ ready # <<>> /\ Head(ready).type = "SESSION_READY" /\ Tail(ready) = <<>>
      /\ NoneOf(ready, {"ERROR"}) /\ NoneOf(ready, {"CLOSE"}) /\ NoneOf(ready, ItemTypes)
    BY <1>3, NoneOfOne DEF ItemTypes
<1>5. /\ \A c \in Connection : up[c] = <<>>
      /\ \A c \in Connection : c # First(Owner(c)) => down[c] = <<>> /\ readyState[c] = "absent"
      /\ \A p \in Peer : down[First(p)] = ready /\ readyState[First(p)] = "open"
    BY <1>2 DEF Init
<1> HIDE DEF ready
<1>6. \A types : NoneOf(<<>>, types)
    BY DEF NoneOf
<1>7. WaysTypeOK
    <2>1. up \in [Connection -> Seq(Msg)]
        BY DEF Init
    <2>2. down \in [Connection -> Seq(Msg)]
        BY <1>4 DEF Init, ready
    <2>3. /\ readyState \in [Connection -> {"absent", "connecting", "open", "closing", "closed"}]
          /\ serverState \in [Connection -> {"absent", "open", "closing", "closed"}]
        BY DEF Init
    <2>4. timers \in [Peer -> [Attempt -> Nat]]
        <3>1. timers = [p \in Peer |-> [n \in Attempt |-> 0]]
            BY DEF Init
        <3> QED  BY <3>1
    <2>5. /\ isClosed \in [Peer -> BOOLEAN] /\ sessionId \in [Peer -> BOOLEAN]
          /\ sendCounter \in [Peer -> Nat] /\ recvCounter \in [Peer -> Nat]
          /\ child \in {"none", "running", "killed", "exited"} /\ cipher \in BOOLEAN
          /\ typed \in Nat /\ printed \in Nat /\ shellRead \in Seq(Nat) /\ shown \in Seq(Nat)
          /\ state \in {"active", "ended"}
        <3>1. /\ isClosed = [p \in Peer |-> FALSE] /\ sessionId = [p \in Peer |-> FALSE]
              /\ sendCounter = [p \in Peer |-> 0] /\ recvCounter = [p \in Peer |-> 0]
            BY DEF Init
        <3>2. isClosed \in [Peer -> BOOLEAN] /\ sessionId \in [Peer -> BOOLEAN]
            BY <3>1
        <3>3. sendCounter \in [Peer -> Nat] /\ recvCounter \in [Peer -> Nat]
            BY <3>1
        <3>4. /\ child = "none" /\ cipher = FALSE /\ typed = 0 /\ printed = 0
              /\ shellRead = <<>> /\ shown = <<>> /\ state = "active"
            BY DEF Init
        <3>5. shellRead \in Seq(Nat) /\ shown \in Seq(Nat)
            BY <3>4
        <3>6. cipher \in BOOLEAN
            BY <3>4
        <3>7. /\ child \in {"none", "running", "killed", "exited"}
              /\ typed \in Nat /\ printed \in Nat /\ state \in {"active", "ended"}
            BY <3>4
        <3> QED  BY <3>2, <3>3, <3>5, <3>6, <3>7
    <2>6. currentSocket \in Connection /\ Owner(currentSocket) = "guest"
        BY <1>2 DEF Init, Peer
    <2> QED  BY <2>1, <2>2, <2>3, <2>4, <2>5, <2>6 DEF WaysTypeOK
<1>8. LastsInv
    <2>1. /\ currentSocket = First("guest")
          /\ \A p \in Peer : seat[p] = First(p) /\ First(p) \in roomsBySocket
                             /\ \A n \in Attempt : timers[p][n] = 0
        BY DEF Init
    <2> QED  BY <1>2, <1>4, <1>5, <1>6, <2>1 DEF LastsInv
<1>9. LineInv
    <2>1. \A p \in Peer : sessionId[p] = FALSE
        BY DEF Init
    <2> QED  BY <1>4, <1>5, <1>6, <2>1 DEF LineInv
<1>10. ChunksInv
    BY DEF Init, ChunksInv, Peer
<1>11. ASSUME NEW p \in Peer
       PROVE  PassInv(p) /\ HeardInv(p)
    <2>1. /\ Made(p) = 0 /\ Heard(p) = <<>> /\ Plain(p) = 0 /\ Due(p) = 0 /\ ~Holds(p)
          /\ recvCounter[Other(p)] = 0
        BY <1>2, <1>11 DEF Init, Made, Heard, Plain, Due, Holds, Peer
    <2>2. HeardInv(p)
        BY <2>1 DEF HeardInv
    <2>3. In(p) = ready /\ Out(p) = <<>>
        BY <1>2, <1>5 DEF In, Out
    <2>4. ASSUME NEW q \in Seq(Msg), NoneOf(q, ItemTypes)
          PROVE  Run(q, 0, 0) /\ AllNumbered(p, q)
        <3>1. \A i \in 1 .. Len(q) : ~IsItem(q[i])
            BY <2>4 DEF NoneOf, ItemTypes, IsItem
        <3> QED  BY <3>1 DEF Run, Items, AllNumbered, Numbered
    <2>5. Run(In(p), 0, 0) /\ AllNumbered(p, In(p)) /\ Run(Out(p), 0, 0) /\ AllNumbered(p, Out(p))
        <3>1. <<>> \in Seq(Msg)
            OBVIOUS
        <3> QED  BY <1>4, <1>6, <2>3, <2>4, <3>1
    <2>6. Tells(p, 0)
        BY <2>1, <2>5 DEF Tells
    <2>7. Passing(p, 0, 0)
        BY <2>1, <2>5, <2>6 DEF Passing, Awaited
    <2> QED  BY <2>1, <2>2, <2>5, <2>7 DEF PassInv
<1> QED  BY <1>7, <1>8, <1>9, <1>10, <1>11 DEF WholeInv

(* Until a connection is lost every step keeps it so. *)
LEMMA NextWhole ==
    ASSUME cut = {} => WholeInv, [Next]_vars, cut' = {}
    PROVE  WholeInv'
<1>1. CASE UNCHANGED vars
    <2>1. /\ UNCHANGED <<readyState, serverState, up, down, cut>>
          /\ UNCHANGED <<timers, isClosed, sessionId>>
          /\ UNCHANGED <<child, childSocket, cipher, currentSocket, sendCounter, recvCounter,
                         typed, printed, shellRead, shown>>
          /\ UNCHANGED <<state, seat, roomsBySocket>>
        BY <1>1 DEF vars, wireVars, linkVars, terminalVars, roomVars
    <2>2. WholeInv
        BY <2>1
    <2>3. WaysTypeOK' /\ LastsInv' /\ LineInv' /\ ChunksInv'
        BY <2>1, <2>2 DEF WholeInv, WaysTypeOK, LastsInv, LineInv, ChunksInv
    <2>4. ASSUME NEW p \in Peer PROVE PassInv(p)' /\ HeardInv(p)'
        <3>1. MakesNothing(p) /\ OtherHearsNothing(p)
            BY <2>1 DEF MakesNothing, OtherHearsNothing, Made, Plain, Heard, Holds, Listening
        <3>2. SameItems(Out(p)', Out(p)) /\ SameItems(In(p)', In(p))
            <4>1. Out(p)' = Out(p) /\ In(p)' = In(p)
                BY <2>1 DEF Out, In
            <4> QED  BY <4>1, SameIsSame
        <3> QED  BY <2>1, <2>2, <3>1, <3>2, OtherWay
    <2> QED  BY <2>3, <2>4 DEF WholeInv
<1>2. ASSUME NEW c \in Connection, PeerHandles(c)
      PROVE  WholeInv'
    <2>1. cut' = cut
        BY <1>2 DEF PeerHandles, PeerReadsClose, SocketClosed, SessionReady, Terminated, ReconnectOk,
                    Error, HostKeyExchange, HostEncryptedData, HostPtyInput, HostPtyResize,
                    GuestKeyExchange, GuestEncryptedData, OnMessage
    <2>2. WholeInv /\ cut = {}
        BY <2>1
    <2>3. CASE PeerReadsClose(c) \/ Terminated(c) \/ ReconnectOk(c) \/ Error(c) \/ HostPtyResize(c)
        BY <2>2, <2>3, ReadsCloseActs, TerminatedActs, ReconnectOkActs, ErrorActs, ResizeActs,
           PeerActsWhole
    <2> QED  BY <1>2, <2>2, <2>3, ReadyWhole, HostKeyWhole, HostDataWhole, HostInputWhole,
                GuestKeyWhole, GuestDataWhole DEF PeerHandles
<1>3. ASSUME NEW c \in Connection, RelayHandles(c)
      PROVE  WholeInv'
    <2>1. cut' = cut
        BY <1>3 DEF RelayHandles, ForwardToPeer, HandleReconnect, RelayReadsClose
    <2> QED  BY <1>3, <2>1, ForwardWhole, ReconnectWhole, RelayReadsCloseWhole DEF RelayHandles
<1>4. ASSUME NEW c \in Connection, Cut(c) \/ PeerSeesCut(c) \/ RelaySeesCut(c)
      PROVE  FALSE
    BY <1>4 DEF Cut, PeerSeesCut, SocketClosed, RelaySeesCut
<1>5. ASSUME NEW c \in Connection, SocketOpens(c) \/ ConnectFails(c) \/ GraceTimerFires(c)
      PROVE  WholeInv'
    <2>1. cut' = cut
        BY <1>5 DEF SocketOpens, ConnectFails, GraceTimerFires
    <2> QED  BY <1>5, <2>1, SocketOpensWhole, ConnectFailsWhole, GraceTimerWhole
<1>6. ASSUME NEW p \in Peer, NEW n \in Attempt, TimerFires(p, n)
      PROVE  WholeInv'
    <2>1. cut' = cut
        BY <1>6 DEF TimerFires
    <2> QED  BY <1>6, <2>1, TimerFiresWhole
<1>7. CASE Output \/ ShellExits \/ Type \/ Detach
    <2>1. cut' = cut
        BY <1>7 DEF Output, ShellExits, Type, Detach
    <2>2. WholeInv /\ cut = {}
        BY <2>1
    <2>3. CASE ShellExits \/ Detach
        BY <2>2, <2>3, ShellExitsActs, DetachActs, PeerActsWhole
    <2> QED  BY <1>7, <2>2, <2>3, OutputWhole, TypeWhole
<1> QED  BY <1>1, <1>2, <1>3, <1>4, <1>5, <1>6, <1>7 DEF Next

(* Until a connection is lost nothing is missing in between of what the    *)
(* shell reads and of what the guest sees.                                 *)
THEOREM NothingIsMissing == Spec => []NothingMissing
<1>1. Init => (cut = {} => WholeInv)
    BY InitWhole
<1>2. (cut = {} => WholeInv) /\ [Next]_vars => (cut = {} => WholeInv)'
    BY NextWhole
<1>3. (cut = {} => WholeInv) => NothingMissing
    <2> SUFFICES ASSUME WholeInv
                 PROVE  /\ \A i \in DOMAIN shellRead : shellRead[i] = i
                        /\ \A i \in DOMAIN shown : shown[i] = i
        BY DEF NothingMissing
    <2>1. /\ \A i \in 1 .. Len(shellRead) : shellRead[i] = i
          /\ \A i \in 1 .. Len(shown) : shown[i] = i
        BY DEF WholeInv, HeardInv, Heard, Peer
    <2>2. DOMAIN shellRead = 1 .. Len(shellRead) /\ DOMAIN shown = 1 .. Len(shown)
        BY DEF WholeInv, WaysTypeOK
    <2> QED  BY <2>1, <2>2
<1> QED  BY <1>1, <1>2, <1>3, PTL DEF Spec

(***************************************************************************)
(* Every step of a session is one of the relay.                            *)
(***************************************************************************)

(* The variables of Relay, as in AtRelay. *)
relayClient ==
    [c \in Connection |->
        IF inbox[c] = {} THEN [role |-> None, device |-> None, session |-> None]
        ELSE [role |-> Owner(c), device |-> Owner(c), session |-> Room]]
relayRooms ==
    [r \in Connection |->
        IF r = Room THEN [state |-> state, code |-> "code", host |-> seat["host"],
                          guest |-> seat["guest"], sessionId |-> Room]
        ELSE [state |-> None, code |-> None, host |-> None, guest |-> None, sessionId |-> None]]
relayByCode == [c \in {"code"} |-> None]
relayBySocket == [c \in Connection |-> IF c \in roomsBySocket THEN Room ELSE None]
relaySessions == IF state = "active" THEN {Room} ELSE {}
relayTimers == [c \in Connection |-> IF c \in graceTimers THEN Room ELSE None]
relayGraceTimers == [r \in Connection |-> IF r = Room THEN graceTimer ELSE None]
relayIps == {c \in Connection : serverState[c] \in {"open", "closing"}}

(* What is proved about Relay, said of them. *)
R == INSTANCE RelayProofs WITH
    Socket <- Connection, Code <- {"code"}, HostDevice <- {"host"}, GuestDevice <- {"guest"},
    ReuseCodes <- FALSE,
    readyState <- serverState, client <- relayClient, rooms <- relayRooms, elapsed <- {},
    roomsByCode <- relayByCode, roomsBySocket <- relayBySocket,
    roomsBySessionId <- relaySessions, sessionStartTimes <- relaySessions,
    timers <- relayTimers, graceTimers <- relayGraceTimers, socketIps <- relayIps

(* The invariant of the relay is kept by its steps. *)
LEMMA RelayIInv == R!IInv /\ [R!Next]_(R!vars) => R!IInv'
BY NoneAssumption, R!NextIInv

-----------------------------------------------------------------------------
(* What the relay's clients keep to.                                       *)

(* A connection the relay has not accepted is not open to its peer, and    *)
(* nothing was sent there.                                                 *)
AcceptedInv ==
    /\ readyState \in [Connection -> {"absent", "connecting", "open", "closing", "closed"}]
    /\ serverState \in [Connection -> {"absent", "open", "closing", "closed"}]
    /\ up \in [Connection -> Seq(Msg)]
    /\ \A c \in Connection :
           /\ readyState[c] \in {"absent", "connecting"} => serverState[c] = "absent"
           /\ serverState[c] = "absent" => inbox[c] = {}

(* RECONNECT is the first message of a connection, and what the relay      *)
(* reads there before it has sent anything; the two connections the        *)
(* session starts with were sent something.                                *)
OpeningInv ==
    /\ \A c \in Connection :
           /\ \A i \in 1 .. Len(up[c]) : up[c][i].type = "RECONNECT" => i = 1 /\ inbox[c] = {}
           /\ serverState[c] \in {"open", "closing"} /\ inbox[c] = {} =>
                  serverState[c] = "open" /\ up[c] # <<>> /\ up[c][1].type = "RECONNECT"
    /\ \A p \in Peer : inbox[First(p)] # {}

(* A seat is held by a connection of its peer that has sent its opening    *)
(* message, and the relay listens to no others.                            *)
RoomInv ==
    /\ state \in {"active", "ended"}
    /\ seat \in [Peer -> Connection \cup {None}]
    /\ seat["host"] # None /\ (seat["guest"] = None => state = "ended")
    /\ \A p \in Peer : seat[p] # None => Owner(seat[p]) = p /\ inbox[seat[p]] # {}
    /\ roomsBySocket \subseteq {seat[p] : p \in Peer} \ {None}
    /\ graceTimers \subseteq Connection

ClientInv == CountersInv /\ AcceptedInv /\ OpeningInv /\ RoomInv

-----------------------------------------------------------------------------
(* What the relay sends, in the terms of Relay.                            *)

(* The kinds of message in q. *)
Kinds(q) == {Kind(q[i].type) : i \in {j \in 1 .. Len(q) : q[j].type # "CLOSE"}}

(* The kinds of nothing, of a message, and of messages one after the other. *)
LEMMA KindsFacts ==
    /\ Kinds(<<>>) = {}
    /\ \A m \in Msg : Kinds(<<m>>) = IF m.type = "CLOSE" THEN {} ELSE {Kind(m.type)}
    /\ \A a, b \in Seq(Msg) : Kinds(a \o b) = Kinds(a) \cup Kinds(b)
<1>1. Kinds(<<>>) = {}
    BY DEF Kinds
<1>2. ASSUME NEW m \in Msg
      PROVE  Kinds(<<m>>) = IF m.type = "CLOSE" THEN {} ELSE {Kind(m.type)}
    <2>1. Len(<<m>>) = 1 /\ <<m>>[1] = m
        OBVIOUS
    <2> QED  BY <2>1 DEF Kinds
<1>3. ASSUME NEW a \in Seq(Msg), NEW b \in Seq(Msg)
      PROVE  Kinds(a \o b) = Kinds(a) \cup Kinds(b)
    <2>1. /\ Len(a) \in Nat /\ Len(b) \in Nat /\ Len(a \o b) = Len(a) + Len(b)
          /\ \A i \in 1 .. Len(a) : (a \o b)[i] = a[i]
          /\ \A i \in 1 .. Len(b) : (a \o b)[Len(a) + i] = b[i]
        OBVIOUS
    <2>2. ASSUME NEW i \in 1 .. Len(a \o b), ~(i \in 1 .. Len(a))
          PROVE  i - Len(a) \in 1 .. Len(b) /\ (a \o b)[i] = b[i - Len(a)]
        <3>1. i - Len(a) \in 1 .. Len(b) /\ Len(a) + (i - Len(a)) = i
            BY <2>1, <2>2
        <3> QED  BY <2>1, <3>1
    <2>3. /\ \A i \in 1 .. Len(a) : i \in 1 .. Len(a \o b)
          /\ \A i \in 1 .. Len(b) : Len(a) + i \in 1 .. Len(a \o b)
        BY <2>1
    <2>4. Kinds(a \o b) \subseteq Kinds(a) \cup Kinds(b)
        <3> SUFFICES ASSUME NEW i \in 1 .. Len(a \o b), (a \o b)[i].type # "CLOSE"
                     PROVE  Kind((a \o b)[i].type) \in Kinds(a) \cup Kinds(b)
            BY DEF Kinds
        <3>1. CASE i \in 1 .. Len(a)
            BY <2>1, <3>1 DEF Kinds
        <3>2. CASE ~(i \in 1 .. Len(a))
            BY <2>2, <3>2 DEF Kinds
        <3> QED  BY <3>1, <3>2
    <2>5. Kinds(a) \subseteq Kinds(a \o b)
        BY <2>1, <2>3 DEF Kinds
    <2>6. Kinds(b) \subseteq Kinds(a \o b)
        <3> SUFFICES ASSUME NEW i \in 1 .. Len(b), b[i].type # "CLOSE"
                     PROVE  Kind(b[i].type) \in Kinds(a \o b)
            BY DEF Kinds
        <3>1. (a \o b)[Len(a) + i] = b[i] /\ Len(a) + i \in 1 .. Len(a \o b)
            BY <2>1, <2>3
        <3> QED  BY <3>1 DEF Kinds
    <2> QED  BY <2>4, <2>5, <2>6
<1> QED  BY <1>1, <1>2, <1>3

(* Messages for connections, and their kinds. *)
IsOut(out) == out \in [Connection -> Seq(Msg)]

(* One message of the relay. *)
LEMMA ToKinds ==
    ASSUME NEW c, NEW type \in {"TERMINATED", "RECONNECT_OK", "ERROR", "CLOSE"}
    PROVE  /\ IsOut(To(c, type))
           /\ \A d \in Connection :
                  Kinds(To(c, type)[d]) = IF d = c /\ type # "CLOSE" THEN {Kind(type)} ELSE {}
<1>1. Message(type) \in Msg /\ Message(type).type = type
    BY MessageFacts DEF Message
<1>2. \A d \in Connection : To(c, type)[d] = IF d = c THEN <<Message(type)>> ELSE <<>>
    BY DEF To
<1>3. Kinds(<<Message(type)>>) = IF type = "CLOSE" THEN {} ELSE {Kind(type)}
    BY <1>1, KindsFacts
<1>4. IsOut(To(c, type))
    BY <1>1 DEF IsOut, To
<1> QED  BY <1>2, <1>3, <1>4, KindsFacts

(* Messages that follow others. *)
LEMMA ThenKinds ==
    ASSUME NEW out, NEW more, IsOut(out), IsOut(more)
    PROVE  /\ IsOut(Then(out, more))
           /\ \A d \in Connection : Kinds(Then(out, more)[d]) = Kinds(out[d]) \cup Kinds(more[d])
<1>1. \A d \in Connection : out[d] \in Seq(Msg) /\ more[d] \in Seq(Msg)
    BY DEF IsOut
<1>2. \A d \in Connection : Then(out, more)[d] = out[d] \o more[d]
    BY DEF Then
<1>3. IsOut(Then(out, more))
    BY <1>1 DEF IsOut, Then
<1> QED  BY <1>1, <1>2, <1>3, KindsFacts

(* What the relay sends is sent in Relay. *)
LEMMA SendsInRelay ==
    ASSUME R!TypeOK, NEW out, RelaySends(out), NEW S,
           \A c \in Connection : Kinds(out[c]) = {m \in R!Message : <<c, m>> \in S}
    PROVE  R!Send(S)
<1>1. inbox' = [c \in Connection |-> IF serverState[c] = "open" THEN inbox[c] \cup Kinds(out[c])
                                                               ELSE inbox[c]]
    BY DEF RelaySends, Kinds
<1>2. \A c \in Connection :
          (IF serverState[c] = "open" THEN inbox[c] \cup Kinds(out[c]) ELSE inbox[c])
          = (inbox[c] \ {m \in R!Message : <<c, m>> \in {}})
                \cup {m \in R!Message : <<c, m>> \in S /\ serverState[c] = "open"}
    OBVIOUS
<1> QED  BY <1>1, <1>2 DEF R!Send, R!Deliver

-----------------------------------------------------------------------------
(* The relay's steps.                                                      *)

(* What a step leaves alone it leaves alone in Relay. *)
LEMMA SameInRelay ==
    /\ UNCHANGED <<state, seat>> => UNCHANGED relayRooms
    /\ UNCHANGED state => UNCHANGED relaySessions
    /\ UNCHANGED roomsBySocket => UNCHANGED relayBySocket
    /\ UNCHANGED graceTimers => UNCHANGED relayTimers
    /\ UNCHANGED graceTimer => UNCHANGED relayGraceTimers
    /\ UNCHANGED serverState => UNCHANGED relayIps
    /\ UNCHANGED relayByCode
    /\ (\A c \in Connection : inbox'[c] = {} <=> inbox[c] = {}) => UNCHANGED relayClient
BY DEF relayRooms, relaySessions, relayBySocket, relayTimers, relayGraceTimers, relayIps,
       relayByCode, relayClient, Room

(* Messages go to connections that were sent something before. *)
LEMMA SentBefore ==
    ASSUME NEW out, RelaySends(out), \A c \in Connection : inbox[c] = {} => Kinds(out[c]) = {}
    PROVE  /\ \A c \in Connection : inbox'[c] = {} <=> inbox[c] = {}
           /\ (\A c \in Connection : Kinds(out[c]) = {}) /\ R!TypeOK => UNCHANGED inbox
<1>1. inbox' = [c \in Connection |-> IF serverState[c] = "open" THEN inbox[c] \cup Kinds(out[c])
                                                               ELSE inbox[c]]
    BY DEF RelaySends, Kinds
<1>2. R!TypeOK => inbox = [c \in Connection |-> inbox[c]]
    BY DEF R!TypeOK
<1> QED  BY <1>1, <1>2

(* The relay takes messages from connections, and closes some.             *)
LEMMA ClientsKeep ==
    ASSUME AcceptedInv, OpeningInv, UNCHANGED readyState,
           \A c \in Connection : inbox'[c] = {} <=> inbox[c] = {},
           up' \in [Connection -> Seq(Msg)],
           \A c \in Connection :
               \/ up'[c] = up[c] \/ up'[c] = <<>>
               \/ up[c] # <<>> /\ up'[c] = Tail(up[c]),
           serverState' \in [Connection -> {"absent", "open", "closing", "closed"}],
           \A c \in Connection :
               \/ serverState'[c] = serverState[c]
               \/ serverState[c] # "absent" /\ serverState'[c] = "closed"
               \/ serverState[c] = "open" /\ serverState'[c] = "closing" /\ inbox[c] # {},
           \A c \in Connection :
               inbox[c] = {} => up'[c] = up[c] \/ serverState'[c] \notin {"open", "closing"}
    PROVE  AcceptedInv' /\ OpeningInv'
<1>1. AcceptedInv'
    BY DEF AcceptedInv
<1>2. ASSUME NEW c \in Connection, NEW i \in 1 .. Len(up'[c]), up'[c][i].type = "RECONNECT"
      PROVE  i = 1 /\ inbox'[c] = {}
    <2>1. up[c] \in Seq(Msg) /\ up'[c] # <<>>
        BY <1>2 DEF AcceptedInv
    <2>2. CASE up'[c] = up[c]
        BY <1>2, <2>2 DEF OpeningInv
    <2>3. CASE up[c] # <<>> /\ up'[c] = Tail(up[c])
        <3>1. Len(Tail(up[c])) = Len(up[c]) - 1 /\ Tail(up[c])[i] = up[c][i + 1]
              /\ i + 1 \in 1 .. Len(up[c]) /\ i + 1 # 1
            BY <1>2, <2>1, <2>3
        <3> QED  BY <1>2, <2>3, <3>1 DEF OpeningInv
    <2> QED  BY <2>1, <2>2, <2>3
<1>3. ASSUME NEW c \in Connection, serverState'[c] \in {"open", "closing"}, inbox'[c] = {}
      PROVE  serverState'[c] = "open" /\ up'[c] # <<>> /\ up'[c][1].type = "RECONNECT"
    <2>1. inbox[c] = {} /\ up'[c] = up[c] /\ serverState'[c] = serverState[c]
        BY <1>3
    <2> QED  BY <1>3, <2>1 DEF OpeningInv
<1>4. \A p \in Peer : First(p) \in Connection
    BY SessionAssumption DEF First, Connection
<1>5. \A p \in Peer : inbox'[First(p)] # {}
    BY <1>4 DEF OpeningInv
<1> QED  BY <1>1, <1>2, <1>3, <1>5 DEF OpeningInv

(* The relay takes a message of a connection that was sent something.      *)
LEMMA ReadsFacts ==
    ASSUME AcceptedInv, OpeningInv, NEW c \in Connection, NEW types, RelayTakes(c, types)
    PROVE  /\ up' \in [Connection -> Seq(Msg)]
           /\ \A d \in Connection : up'[d] = up[d] \/ (up[d] # <<>> /\ up'[d] = Tail(up[d]))
           /\ \A d \in Connection \ {c} : up'[d] = up[d]
           /\ up[c] # <<>> /\ up[c] \in Seq(Msg) /\ up[c][1] = Head(up[c]) /\ Head(up[c]) \in Msg
           /\ Head(up[c]).type \in types
           /\ serverState[c] \in {"open", "closing"}
           /\ "RECONNECT" \notin types => inbox[c] # {}
<1>1. /\ up' = [up EXCEPT ![c] = Tail(@)] /\ up \in [Connection -> Seq(Msg)]
      /\ up[c] \in Seq(Msg) /\ up[c] # <<>> /\ serverState[c] \in {"open", "closing"}
      /\ Head(up[c]).type \in types
    BY DEF RelayTakes, AcceptedInv
<1>2. Tail(up[c]) \in Seq(Msg) /\ Head(up[c]) \in Msg /\ up[c][1] = Head(up[c])
    BY <1>1
<1>3. "RECONNECT" \notin types => inbox[c] # {}
    BY <1>1, <1>2 DEF OpeningInv
<1>4. \A d \in Connection : up'[d] = IF d = c THEN Tail(up[c]) ELSE up[d]
    BY <1>1
<1>5. up' \in [Connection -> Seq(Msg)]
    BY <1>1, <1>2
<1> QED  BY <1>1, <1>2, <1>3, <1>4, <1>5

(* A new connection. *)
LEMMA ConnectInRelay ==
    ASSUME ClientInv, R!IInv, NEW c \in Connection, SocketOpens(c)
    PROVE  ClientInv' /\ R!Connect(c)
<1>1. /\ readyState[c] = "connecting" /\ serverState[c] = "absent" /\ inbox[c] = {}
      /\ serverState' = [serverState EXCEPT ![c] = "open"]
      /\ readyState' = [readyState EXCEPT ![c] = "open"]
      /\ up' = [up EXCEPT ![c] = <<Message("RECONNECT")>>]
      /\ UNCHANGED <<inbox, roomVars, typed, printed, sendCounter>>
    BY DEF SocketOpens, ClientInv, AcceptedInv
<1>2. Message("RECONNECT") \in Msg /\ Message("RECONNECT").type = "RECONNECT"
    BY MessageFacts DEF Message
<1>3. /\ CountersInv' /\ RoomInv'
    BY <1>1 DEF ClientInv, CountersInv, RoomInv, roomVars
<1>4. AcceptedInv'
    BY <1>1, <1>2 DEF ClientInv, AcceptedInv
<1>5. OpeningInv'
    <2>1. ASSUME NEW d \in Connection
          PROVE  /\ \A i \in 1 .. Len(up'[d]) :
                        up'[d][i].type = "RECONNECT" => i = 1 /\ inbox'[d] = {}
                 /\ serverState'[d] \in {"open", "closing"} /\ inbox'[d] = {} =>
                        serverState'[d] = "open" /\ up'[d] # <<>> /\ up'[d][1].type = "RECONNECT"
        <3>1. CASE d = c
            <4>1. up'[d] = <<Message("RECONNECT")>> /\ serverState'[d] = "open"
                BY <1>1, <3>1 DEF ClientInv, AcceptedInv
            <4> QED  BY <1>1, <1>2, <3>1, <4>1
        <3>2. CASE d # c
            BY <1>1, <3>2 DEF ClientInv, AcceptedInv, OpeningInv
        <3> QED  BY <3>1, <3>2
    <2> QED  BY <1>1, <2>1 DEF ClientInv, OpeningInv
<1>6. R!Connect(c)
    <2>1. /\ UNCHANGED <<relayRooms, relaySessions, relayBySocket, relayTimers, relayGraceTimers,
                         relayByCode, relayClient>>
        BY <1>1, SameInRelay DEF roomVars
    <2>2. relayIps' = relayIps \cup {c}
        BY <1>1 DEF relayIps, ClientInv, AcceptedInv
    <2> QED  BY <1>1, <2>1, <2>2 DEF R!Connect, R!managerVars, R!timerVars
<1> QED  BY <1>3, <1>4, <1>5, <1>6 DEF ClientInv

(* A message is forwarded, or refused. *)
LEMMA ForwardInRelay ==
    ASSUME ClientInv, R!IInv, NEW c \in Connection, ForwardToPeer(c)
    PROVE  ClientInv' /\ R!ForwardToPeer(c)
<1> DEFINE known == c \in roomsBySocket /\ state = "active"
           out == IF known
                  THEN [d \in Connection |-> IF d = PeerOf(c) THEN <<Head(up[c])>> ELSE <<>>]
                  ELSE To(c, "ERROR")
           S == IF known THEN {<<PeerOf(c), "DATA">>} ELSE {<<c, "ERROR">>}
<1>1. /\ RelayTakes(c, Forwarded) /\ RelaySends(out)
      /\ UNCHANGED <<readyState, serverState, typed, printed, sendCounter, roomVars>>
    BY DEF ForwardToPeer, terminalVars
<1>2. "RECONNECT" \notin Forwarded /\ "CLOSE" \notin Forwarded
    BY DEF Forwarded
<1>3. /\ up[c] # <<>> /\ Head(up[c]) \in Msg /\ Head(up[c]).type \in Forwarded /\ inbox[c] # {}
      /\ up' \in [Connection -> Seq(Msg)]
      /\ \A d \in Connection : up'[d] = up[d] \/ (up[d] # <<>> /\ up'[d] = Tail(up[d]))
      /\ \A d \in Connection \ {c} : up'[d] = up[d]
      /\ serverState[c] \in {"open", "closing"}
    BY <1>1, <1>2, ReadsFacts DEF ClientInv
<1>4. Kind(Head(up[c]).type) = "DATA" /\ Head(up[c]).type # "CLOSE"
    BY <1>2, <1>3 DEF Kind, Forwarded
<1>5. known => PeerOf(c) \in Connection /\ inbox[PeerOf(c)] # {} /\ PeerOf(c) # None
    BY NoneAssumption DEF PeerOf, ClientInv, RoomInv, Peer
<1>6. \A d \in Connection :
          /\ Kinds(out[d]) = {m \in R!Message : <<d, m>> \in S}
          /\ inbox[d] = {} => Kinds(out[d]) = {}
    <2>1. CASE known
        <3>1. Kinds(<<Head(up[c])>>) = {"DATA"} /\ Kinds(<<>>) = {}
            BY <1>3, <1>4, KindsFacts
        <3>2. \A d \in Connection : Kinds(out[d]) = IF d = PeerOf(c) THEN {"DATA"} ELSE {}
            BY <2>1, <3>1
        <3>3. S = {<<PeerOf(c), "DATA">>}
            BY <2>1
        <3> HIDE DEF out, S
        <3> QED  BY <1>5, <2>1, <3>2, <3>3 DEF R!Message
    <2>2. CASE ~known
        <3>1. \A d \in Connection : Kinds(out[d]) = IF d = c THEN {"ERROR"} ELSE {}
            BY <2>2, ToKinds DEF Kind, Forwarded
        <3>2. S = {<<c, "ERROR">>}
            BY <2>2
        <3> HIDE DEF out, S
        <3> QED  BY <1>3, <3>1, <3>2 DEF R!Message
    <2> QED  BY <2>1, <2>2
<1> HIDE DEF out
<1>7. /\ \A d \in Connection : inbox'[d] = {} <=> inbox[d] = {}
      /\ R!Send(S)
    BY <1>1, <1>6, SentBefore, SendsInRelay DEF R!IInv
<1>8. AcceptedInv' /\ OpeningInv'
    BY <1>1, <1>3, <1>7, ClientsKeep DEF ClientInv, AcceptedInv
<1>9. CountersInv'
    BY <1>1 DEF ClientInv, CountersInv
<1>10. RoomInv'
    BY <1>1, <1>7 DEF ClientInv, RoomInv, roomVars
<1>11. R!ForwardToPeer(c)
    <2>1. UNCHANGED <<serverState, relayRooms, relaySessions, relayBySocket, relayTimers,
                      relayGraceTimers, relayByCode, relayClient, relayIps>>
        BY <1>1, <1>7, SameInRelay DEF roomVars
    <2>2. /\ relayClient[c].role = Owner(c) /\ relayClient[c].session = Room
          /\ Owner(c) # "refused" /\ Room # None
        BY <1>3, NoneAssumption, SessionAssumption
        DEF relayClient, Owner, Connection, Peer, Room, First
    <2>3. /\ relayBySocket[c] = IF c \in roomsBySocket THEN Room ELSE None
          /\ relayRooms[Room].state = state
          /\ R!Peer(c, Room) = PeerOf(c)
        BY SessionAssumption
        DEF relayBySocket, relayRooms, R!Peer, PeerOf, Room, First, Connection, Peer
    <2>4. CASE known
        BY <1>3, <1>5, <1>7, <2>1, <2>2, <2>3, <2>4
        DEF R!ForwardToPeer, R!Receiving, R!managerVars, R!timerVars
    <2>5. CASE ~known
        BY <1>3, <1>7, <2>1, <2>2, <2>3, <2>5
        DEF R!ForwardToPeer, R!Receiving, R!managerVars, R!timerVars
    <2> QED  BY <2>4, <2>5
<1> QED  BY <1>8, <1>9, <1>10, <1>11 DEF ClientInv

(* A client is back, or comes too late. *)
LEMMA ReconnectInRelay ==
    ASSUME ClientInv, R!IInv, NEW c \in Connection, HandleReconnect(c)
    PROVE  ClientInv' /\ \E old \in Connection : R!Reconnect(c, old)
<1> DEFINE p == Owner(c)
           ok == To(c, "RECONNECT_OK")
           no == Then(To(c, "ERROR"), To(c, "CLOSE"))
<1>1. /\ p \in Peer /\ Room \in Connection /\ First(p) \in Connection /\ Owner(First(p)) = p
      /\ Room # None
    BY SessionAssumption, NoneAssumption DEF Owner, Connection, Room, First, Peer
<1>2. /\ RelayTakes(c, {"RECONNECT"})
      /\ UNCHANGED <<readyState, typed, printed, sendCounter>>
    BY DEF HandleReconnect, terminalVars
<1>3. /\ up[c] # <<>> /\ up[c] \in Seq(Msg) /\ up[c][1].type = "RECONNECT"
      /\ up' \in [Connection -> Seq(Msg)]
      /\ \A d \in Connection \ {c} : up'[d] = up[d]
      /\ serverState[c] \in {"open", "closing"}
    BY <1>2, ReadsFacts DEF ClientInv
<1>4. up'[c] = Tail(up[c])
    BY <1>2 DEF RelayTakes, ClientInv, AcceptedInv
<1>5. inbox[c] = {} /\ serverState[c] = "open"
    <2>1. 1 \in 1 .. Len(up[c])
        BY <1>3
    <2> QED  BY <1>3, <2>1 DEF ClientInv, OpeningInv
<1>6. /\ \A d \in Connection : Kinds(ok[d]) = IF d = c THEN {"RECONNECT_OK"} ELSE {}
      /\ \A d \in Connection : Kinds(no[d]) = IF d = c THEN {"ERROR"} ELSE {}
    <2>1. \A d \in Connection : Kinds(ok[d]) = IF d = c THEN {"RECONNECT_OK"} ELSE {}
        BY ToKinds DEF Kind, Forwarded
    <2>2. /\ \A d \in Connection : Kinds(To(c, "ERROR")[d]) = IF d = c THEN {"ERROR"} ELSE {}
          /\ \A d \in Connection : Kinds(To(c, "CLOSE")[d]) = {}
          /\ IsOut(To(c, "ERROR")) /\ IsOut(To(c, "CLOSE"))
        BY ToKinds DEF Kind, Forwarded
    <2>3. \A d \in Connection :
              Kinds(no[d]) = Kinds(To(c, "ERROR")[d]) \cup Kinds(To(c, "CLOSE")[d])
        BY <2>2, ThenKinds
    <2> HIDE DEF no, ok
    <2> QED  BY <2>1, <2>2, <2>3
<1>7. PICK out \in {ok, no}, kind \in {"RECONNECT_OK", "ERROR"} :
          /\ RelaySends(out)
          /\ \A d \in Connection : Kinds(out[d]) = IF d = c THEN {kind} ELSE {}
          /\ \/ /\ state = "active" /\ TakeSeat(c) /\ kind = "RECONNECT_OK"
                /\ UNCHANGED <<serverState, state>>
             \/ /\ state = "ended" /\ kind = "ERROR"
                /\ RelayCloses({}, {c})
                /\ UNCHANGED roomVars
    <2>1. CASE /\ state = "active" /\ TakeSeat(c) /\ RelaySends(ok)
               /\ UNCHANGED <<serverState, state>>
        <3> HIDE DEF ok
        <3> QED  BY <1>6, <2>1
    <2>2. CASE /\ state = "ended" /\ RelaySends(no)
               /\ RelayCloses({}, {c})
               /\ UNCHANGED roomVars
        <3> HIDE DEF no
        <3> QED  BY <1>6, <2>2
    <2> QED  BY <2>1, <2>2 DEF HandleReconnect
<1>8. R!Send({<<c, kind>>})
    <2>1. \A d \in Connection : Kinds(out[d]) = {m \in R!Message : <<d, m>> \in {<<c, kind>>}}
        BY <1>7 DEF R!Message
    <2> QED  BY <1>7, <2>1, SendsInRelay DEF R!IInv
<1>9. /\ \A d \in Connection \ {c} : inbox'[d] = inbox[d]
      /\ inbox'[c] = {kind}
    <2>1. \A d \in Connection : inbox'[d] = IF serverState[d] = "open"
                                            THEN inbox[d] \cup Kinds(out[d]) ELSE inbox[d]
        BY <1>7 DEF RelaySends, Kinds
    <2> QED  BY <1>5, <1>7, <2>1
<1>10. /\ serverState' \in [Connection -> {"absent", "open", "closing", "closed"}]
       /\ \A d \in Connection \ {c} : serverState'[d] = serverState[d]
       /\ serverState'[c] \in {"open", "closing"}
    <2>1. CASE UNCHANGED serverState
        BY <1>3, <2>1 DEF ClientInv, AcceptedInv
    <2>2. CASE RelayCloses({}, {c})
        BY <1>5, <2>2 DEF RelayCloses, ClientInv, AcceptedInv
    <2> QED  BY <1>7, <2>1, <2>2
<1>11. AcceptedInv'
    BY <1>2, <1>3, <1>5, <1>9, <1>10 DEF ClientInv, AcceptedInv
<1>12. OpeningInv'
    <2>1. \A i \in 1 .. Len(up'[c]) : up'[c][i].type # "RECONNECT"
        <3> SUFFICES ASSUME NEW i \in 1 .. Len(up'[c])  PROVE up'[c][i].type # "RECONNECT"
            OBVIOUS
        <3>1. up'[c][i] = up[c][i + 1] /\ i + 1 \in 1 .. Len(up[c]) /\ i + 1 # 1
            BY <1>3, <1>4
        <3> QED  BY <3>1 DEF ClientInv, OpeningInv
    <2>2. ASSUME NEW d \in Connection, d # c
          PROVE  inbox'[d] = inbox[d] /\ up'[d] = up[d] /\ serverState'[d] = serverState[d]
        BY <1>3, <1>9, <1>10, <2>2
    <2>3. \A q \in Peer : First(q) \in Connection
        BY SessionAssumption DEF First, Connection
    <2>4. \A q \in Peer : inbox'[First(q)] # {}
        BY <1>9, <2>3 DEF ClientInv, OpeningInv
    <2> QED  BY <1>9, <2>1, <2>2, <2>4 DEF ClientInv, OpeningInv
<1>13. CountersInv'
    BY <1>2 DEF ClientInv, CountersInv
<1>14. RoomInv'
    <2>1. CASE TakeSeat(c) /\ state = "active" /\ UNCHANGED state
        <3>1. /\ seat' = [seat EXCEPT ![p] = c]
              /\ roomsBySocket' = (roomsBySocket \ {seat[p]}) \cup {c}
              /\ graceTimers' = graceTimers \ {graceTimer}
            BY <2>1 DEF TakeSeat
        <3>2. /\ seat' \in [Peer -> Connection \cup {None}]
              /\ seat'[p] = c /\ c # None /\ \A q \in Peer \ {p} : seat'[q] = seat[q]
            BY <1>1, <3>1, NoneAssumption DEF ClientInv, RoomInv
        <3>3. \A q \in Peer : seat[q] # None /\ seat[q] \in Connection
            BY <2>1 DEF ClientInv, RoomInv, Peer
        <3>4. \A q \in Peer : seat'[q] # None => Owner(seat'[q]) = q /\ inbox'[seat'[q]] # {}
            BY <1>9, <3>2, <3>3 DEF ClientInv, RoomInv
        <3>5. roomsBySocket' \subseteq {seat'[q] : q \in Peer} \ {None}
            BY <1>1, <3>1, <3>2 DEF ClientInv, RoomInv
        <3>6. seat'["host"] # None /\ seat'["guest"] # None
            BY <3>2, <3>3 DEF Peer
        <3> QED  BY <2>1, <3>1, <3>2, <3>4, <3>5, <3>6 DEF ClientInv, RoomInv
    <2>2. CASE UNCHANGED roomVars
        BY <1>9, <2>2 DEF ClientInv, RoomInv, roomVars
    <2> QED  BY <1>7, <2>1, <2>2
<1>15. R!Reconnect(c, First(p))
    <2>1. /\ relayClient[First(p)] = [role |-> p, device |-> p, session |-> Room]
          /\ relayClient[c].role = None
        BY <1>1, <1>5 DEF relayClient, ClientInv, OpeningInv
    <2>2. R!Opening(c)
        BY <1>5, <2>1 DEF R!Opening
    <2>3. R!Identify(c, p, p, Room)
        BY <1>9, <1>1 DEF R!Identify, relayClient
    <2>4. UNCHANGED relayIps
        BY <1>3, <1>10 DEF relayIps
    <2>5. /\ R!ReconnectAccepted(c, Room, p) \/ R!ReconnectRefused(c, Room, p)
          /\ UNCHANGED relaySessions
        <3>1. CASE TakeSeat(c) /\ state = "active" /\ kind = "RECONNECT_OK"
                   /\ UNCHANGED <<serverState, state>>
            <4>1. /\ seat' = [seat EXCEPT ![p] = c]
                  /\ roomsBySocket' = (roomsBySocket \ {seat[p]}) \cup {c}
                  /\ graceTimers' = graceTimers \ {graceTimer}
                  /\ graceTimer' = None /\ state' = state /\ serverState' = serverState
                BY <3>1 DEF TakeSeat
            <4>2. \A q \in Peer : /\ seat[q] \in Connection /\ seat[q] # None
                                  /\ relayClient[seat[q]].device = q
                BY <3>1 DEF ClientInv, RoomInv, Peer, relayClient
            <4>3. /\ relayRooms[Room].host = seat["host"] /\ relayRooms[Room].guest = seat["guest"]
                  /\ relayRooms[Room].state = "active" /\ relaySessions = {Room}
                BY <1>1, <3>1 DEF relayRooms, relaySessions
            <4>4. R!Seat(Room, p) = p
                BY <1>1, <4>2, <4>3 DEF R!Seat, Peer
            <4>5. relayRooms' = IF p = "host" THEN [relayRooms EXCEPT ![Room].host = c]
                                              ELSE [relayRooms EXCEPT ![Room].guest = c]
                <5>1. relayRooms'[Room] = [state |-> state, code |-> "code", host |-> seat'["host"],
                                           guest |-> seat'["guest"], sessionId |-> Room]
                    BY <1>1, <4>1 DEF relayRooms, Room
                <5>2. /\ \A r \in Connection \ {Room} : relayRooms'[r] = relayRooms[r]
                      /\ relayRooms' = [r \in Connection |-> relayRooms'[r]]
                      /\ relayRooms = [r \in Connection |-> relayRooms[r]]
                    BY DEF relayRooms, Room
                <5>3. relayRooms[Room] = [state |-> state, code |-> "code", host |-> seat["host"],
                                          guest |-> seat["guest"], sessionId |-> Room]
                    BY <1>1 DEF relayRooms
                <5>4. CASE p = "host"
                    <6>1. seat'["host"] = c /\ seat'["guest"] = seat["guest"]
                        BY <4>1, <5>4 DEF ClientInv, RoomInv, Peer
                    <6> QED  BY <1>1, <5>1, <5>2, <5>3, <5>4, <6>1
                <5>5. CASE p = "guest"
                    <6>1. seat'["guest"] = c /\ seat'["host"] = seat["host"]
                        BY <4>1, <5>5 DEF ClientInv, RoomInv, Peer
                    <6> QED  BY <1>1, <5>1, <5>2, <5>3, <5>5, <6>1
                <5> QED  BY <1>1, <5>4, <5>5 DEF Peer
            <4>6. R!TakeSeat(c, seat[p], Room)
                <5>1. \A d \in Connection :
                          relayBySocket'[d] = IF d = c THEN Room
                                              ELSE IF d = seat[p] THEN None ELSE relayBySocket[d]
                    BY <1>1, <4>1 DEF relayBySocket, Room
                <5>2. /\ relayBySocket' = [d \in Connection |-> relayBySocket'[d]]
                      /\ relayBySocket = [d \in Connection |-> relayBySocket[d]]
                    BY DEF relayBySocket
                <5> HIDE DEF p
                <5> QED  BY <1>1, <4>2, <5>1, <5>2 DEF R!TakeSeat
            <4>7. R!ClearGraceTimer(Room)
                <5>1. relayGraceTimers[Room] = graceTimer
                    BY <1>1 DEF relayGraceTimers
                <5>2. graceTimer \in Connection \cup {None}
                    BY <1>1, <5>1 DEF R!IInv, R!TypeOK, R!Room
                <5>3. relayGraceTimers' = [relayGraceTimers EXCEPT ![Room] = None]
                    BY <1>1, <4>1 DEF relayGraceTimers, Room
                <5>4. relayTimers' = IF graceTimer # None
                                     THEN [relayTimers EXCEPT ![graceTimer] = None]
                                     ELSE relayTimers
                    BY <4>1, <5>2, NoneAssumption DEF relayTimers, Room, ClientInv, RoomInv
                <5> QED  BY <5>1, <5>3, <5>4 DEF R!ClearGraceTimer
            <4>8. R!Resume(c)
                BY <1>8, <3>1 DEF R!Resume
            <4>9. UNCHANGED <<serverState, relayByCode, relaySessions>>
                BY <4>1, SameInRelay
            <4>10. p # None
                BY <1>1, NoneAssumption DEF Peer
            <4>11. R!ReconnectAccepted(c, Room, p)
                <5> HIDE DEF p
                <5>1. seat[p] = IF R!Seat(Room, p) = "host" THEN relayRooms[Room].host
                                                            ELSE relayRooms[Room].guest
                    BY <1>1, <4>3, <4>4 DEF Peer
                <5>2. /\ Room \in relaySessions /\ relayRooms[Room].state = "active"
                    BY <4>3
                <5> QED  BY <4>4, <4>5, <4>6, <4>7, <4>8, <4>9, <4>10, <5>1, <5>2
                         DEF R!ReconnectAccepted
            <4> QED  BY <4>9, <4>11
        <3>2. CASE UNCHANGED roomVars /\ state = "ended" /\ kind = "ERROR" /\ RelayCloses({}, {c})
            <4>1. /\ UNCHANGED <<relayRooms, relaySessions, relayBySocket, relayTimers,
                                 relayGraceTimers, relayByCode>>
                BY <3>2, SameInRelay DEF roomVars
            <4>2. Room \notin relaySessions
                BY <3>2 DEF relaySessions
            <4>3. R!Close({c})
                BY <1>5, <3>2 DEF R!Close, RelayCloses
            <4>4. R!Send({<<c, "ERROR">>})
                BY <1>8, <3>2
            <4> QED  BY <4>1, <4>2, <4>3, <4>4
                     DEF R!ReconnectRefused, R!Refuse, R!managerVars, R!timerVars
        <3> QED  BY <1>7, <3>1, <3>2
    <2>6. /\ relayClient[First(p)].session = Room /\ relayClient[First(p)].device = p
          /\ relayClient[First(p)].role = p
        BY <2>1
    <2> QED  BY <1>1, <2>2, <2>3, <2>4, <2>5, <2>6 DEF R!Reconnect
<1> QED  BY <1>1, <1>11, <1>12, <1>13, <1>14, <1>15 DEF ClientInv

(* What the room is in Relay. *)
LEMMA RoomInRelay ==
    ASSUME ClientInv, R!IInv
    PROVE  /\ Room \in Connection /\ Room # None
           /\ relayRooms[Room] = [state |-> state, code |-> "code", host |-> seat["host"],
                                  guest |-> seat["guest"], sessionId |-> Room]
           /\ graceTimer \in Connection \cup {None}
           /\ \A c \in Connection : R!Peer(c, Room) = PeerOf(c)
           /\ \A c \in Connection : relayBySocket[c] = IF c \in roomsBySocket THEN Room ELSE None
           /\ \A c \in roomsBySocket : c \in Connection /\ c \in {seat["host"], seat["guest"]}
<1>1. Room \in Connection /\ Room # None
    BY SessionAssumption, NoneAssumption DEF Connection, Room, First, Peer
<1>2. relayRooms[Room] = [state |-> state, code |-> "code", host |-> seat["host"],
                          guest |-> seat["guest"], sessionId |-> Room]
    BY <1>1 DEF relayRooms
<1>3. graceTimer \in Connection \cup {None}
    <2>1. relayGraceTimers[Room] = graceTimer
        BY <1>1 DEF relayGraceTimers
    <2> QED  BY <1>1, <2>1 DEF R!IInv, R!TypeOK, R!Room
<1>4. \A c \in Connection : R!Peer(c, Room) = PeerOf(c)
    BY <1>2 DEF R!Peer, PeerOf
<1>5. \A c \in Connection : relayBySocket[c] = IF c \in roomsBySocket THEN Room ELSE None
    BY DEF relayBySocket
<1>6. \A c \in roomsBySocket : c \in Connection /\ c \in {seat["host"], seat["guest"]}
    BY DEF ClientInv, RoomInv, Peer
<1> QED  BY <1>1, <1>2, <1>3, <1>4, <1>5, <1>6

(* The end of the room is that of Relay, and tells connections that were   *)
(* sent something before.                                                  *)
LEMMA CleanupInRelay ==
    ASSUME ClientInv, R!IInv, NEW c \in roomsBySocket, NEW closed, NEW reply, IsOut(reply),
           \A d \in Connection : Kinds(reply[d]) = {},
           CleanupRoom(c, closed, reply)
    PROVE  /\ R!CleanupRoom(c, Room, Room)
           /\ serverState' = [d \in Connection |->
                 IF d \in closed THEN "closed"
                 ELSE IF d \in R!ClosedWithRoom(c, Room) /\ serverState[d] = "open" THEN "closing"
                 ELSE serverState[d]]
           /\ \A d \in Connection : inbox'[d] = {} <=> inbox[d] = {}
           /\ \A d \in R!ClosedWithRoom(c, Room) : d # None => inbox[d] # {}
<1> DEFINE isHost == c = seat["host"]
           guest == IF isHost THEN seat["guest"] ELSE None
           told == Then(reply, To(PeerOf(c), "TERMINATED"))
           out == Then(told, To(guest, "CLOSE"))
<1>1. /\ RelaySends(out) /\ RelayCloses(closed, {guest}) /\ state' = "ended"
      /\ seat' = IF isHost THEN seat ELSE [seat EXCEPT !["guest"] = None]
      /\ roomsBySocket' = roomsBySocket \ {c, guest}
    BY DEF CleanupRoom
<1>2. /\ c \in Connection /\ c \in {seat["host"], seat["guest"]}
      /\ Room \in Connection /\ Room # None
    BY RoomInRelay
<1>3. \A d \in Connection : Kinds(out[d]) = IF d = PeerOf(c) THEN {"SESSION_TERMINATE"} ELSE {}
    <2>1. /\ IsOut(To(PeerOf(c), "TERMINATED"))
          /\ \A d \in Connection : Kinds(To(PeerOf(c), "TERMINATED")[d])
                                   = IF d = PeerOf(c) THEN {"SESSION_TERMINATE"} ELSE {}
        BY ToKinds DEF Kind
    <2>2. IsOut(To(guest, "CLOSE")) /\ \A d \in Connection : Kinds(To(guest, "CLOSE")[d]) = {}
        BY ToKinds
    <2>3. IsOut(told) /\ \A d \in Connection :
              Kinds(told[d]) = Kinds(reply[d]) \cup Kinds(To(PeerOf(c), "TERMINATED")[d])
        BY <2>1, ThenKinds
    <2> HIDE DEF told, guest
    <2>4. \A d \in Connection : Kinds(out[d]) = Kinds(told[d]) \cup Kinds(To(guest, "CLOSE")[d])
        BY <2>2, <2>3, ThenKinds
    <2> HIDE DEF out
    <2> QED  BY <2>1, <2>2, <2>3, <2>4
<1>4. \A d \in Connection : inbox[d] = {} => Kinds(out[d]) = {}
    <2>1. PeerOf(c) \in Connection => inbox[PeerOf(c)] # {}
        BY NoneAssumption DEF PeerOf, ClientInv, RoomInv, Peer
    <2> HIDE DEF out
    <2> QED  BY <1>3, <2>1
<1>5. R!Send({<<PeerOf(c), "SESSION_TERMINATE">>})
    <2> HIDE DEF out
    <2>1. \A d \in Connection :
              Kinds(out[d]) = {m \in R!Message : <<d, m>> \in {<<PeerOf(c), "SESSION_TERMINATE">>}}
        BY <1>3 DEF R!Message
    <2> QED  BY <1>1, <2>1, SendsInRelay DEF R!IInv
<1>6. \A d \in Connection : inbox'[d] = {} <=> inbox[d] = {}
    <2> HIDE DEF out
    <2> QED  BY <1>1, <1>4, SentBefore
<1>7. R!ClosedWithRoom(c, Room) = IF isHost THEN {seat["guest"]} ELSE {}
    BY RoomInRelay DEF R!ClosedWithRoom
<1>8. serverState' = [d \in Connection |->
                 IF d \in closed THEN "closed"
                 ELSE IF d \in R!ClosedWithRoom(c, Room) /\ serverState[d] = "open" THEN "closing"
                 ELSE serverState[d]]
    BY <1>1, <1>7, NoneAssumption DEF RelayCloses
<1>9. \A d \in R!ClosedWithRoom(c, Room) : d # None => inbox[d] # {}
    BY <1>7 DEF ClientInv, RoomInv, Peer
<1>10. R!ReleaseSocket(c, Room)
    <2> DEFINE ends == isHost \/ (~isHost /\ c = seat["guest"] /\ state \in {"pending", "active"})
               old == relayRooms[Room]
    <2>1. /\ old.host = seat["host"] /\ old.guest = seat["guest"] /\ old.state = state
          /\ old.code = "code" /\ old.sessionId = Room
        BY RoomInRelay
    <2>2. relayRooms' = [relayRooms EXCEPT ![Room] = [@ EXCEPT
                            !.state = IF ends THEN "ended" ELSE state,
                            !.guest = IF ~isHost /\ c = seat["guest"] THEN None ELSE seat["guest"]]]
        <3>1. (IF ends THEN "ended" ELSE state) = "ended"
            BY <1>2 DEF ClientInv, RoomInv
        <3>2. relayRooms'[Room] = [state |-> "ended", code |-> "code", host |-> seat["host"],
                  guest |-> IF ~isHost /\ c = seat["guest"] THEN None ELSE seat["guest"],
                  sessionId |-> Room]
            <4>1. /\ seat'["host"] = seat["host"]
                  /\ seat'["guest"] = IF ~isHost /\ c = seat["guest"] THEN None ELSE seat["guest"]
                BY <1>1, <1>2 DEF ClientInv, RoomInv, Peer
            <4> QED  BY <1>1, <1>2, <4>1 DEF relayRooms, Room
        <3>3. /\ \A r \in Connection \ {Room} : relayRooms'[r] = relayRooms[r]
              /\ relayRooms' = [r \in Connection |-> relayRooms'[r]]
              /\ relayRooms = [r \in Connection |-> relayRooms[r]]
            BY DEF relayRooms, Room
        <3>4. PICK g : g = IF ~isHost /\ c = seat["guest"] THEN None ELSE seat["guest"]
            OBVIOUS
        <3>5. [relayRooms[Room] EXCEPT !.state = "ended", !.guest = g]
              = [state |-> "ended", code |-> "code", host |-> seat["host"], guest |-> g,
                 sessionId |-> Room]
            <4>1. PICK was : was = relayRooms[Room]
                OBVIOUS
            <4>2. was = [state |-> state, code |-> "code", host |-> seat["host"],
                         guest |-> seat["guest"], sessionId |-> Room]
                BY <4>1, RoomInRelay
            <4>3. PICK new : new = [was EXCEPT !.state = "ended", !.guest = g]
                OBVIOUS
            <4>4. new \in [state : {"ended"}, code : {"code"}, host : {seat["host"]}, guest : {g},
                           sessionId : {Room}]
                BY <4>2, <4>3
            <4>5. new = [state |-> "ended", code |-> "code", host |-> seat["host"], guest |-> g,
                         sessionId |-> Room]
                BY <4>4
            <4> QED  BY <4>1, <4>3, <4>5
        <3>6. relayRooms' = [relayRooms EXCEPT ![Room] =
                                 [relayRooms[Room] EXCEPT !.state = "ended", !.guest = g]]
            BY <1>2, <3>2, <3>3, <3>4, <3>5
        <3> HIDE DEF ends
        <3> QED  BY <3>1, <3>4, <3>6
    <2>3. relayByCode' = IF ends THEN [relayByCode EXCEPT !["code"] = None] ELSE relayByCode
        BY DEF relayByCode
    <2>4. relaySessions' = IF ends THEN relaySessions \ {Room} ELSE relaySessions
        BY <1>1, <1>2 DEF relaySessions, Room
    <2>5. relayBySocket' = [x \in Connection |->
              IF x = c \/ (isHost /\ x = seat["guest"]) THEN None ELSE relayBySocket[x]]
        BY <1>1, NoneAssumption DEF relayBySocket, Room
    <2> HIDE DEF ends, isHost
    <2> QED  BY <2>1, <2>2, <2>3, <2>4, <2>5 DEF R!ReleaseSocket, ends, isHost
<1>11. relaySessions' = relaySessions \ {Room}
    BY <1>1 DEF relaySessions, Room
<1> QED  BY <1>2, <1>5, <1>6, <1>8, <1>9, <1>10, <1>11, RoomInRelay DEF R!CleanupRoom

(* A seat is given up with the room. *)
LEMMA CleanupKeepsRoom ==
    ASSUME ClientInv, NEW c \in roomsBySocket, NEW closed, NEW reply, CleanupRoom(c, closed, reply),
           \A d \in Connection : inbox'[d] = {} <=> inbox[d] = {},
           graceTimers' \subseteq Connection
    PROVE  RoomInv'
<1>1. /\ state' = "ended"
      /\ seat' = IF c = seat["host"] THEN seat ELSE [seat EXCEPT !["guest"] = None]
      /\ roomsBySocket' = roomsBySocket \ {c, IF c = seat["host"] THEN seat["guest"] ELSE None}
      /\ c \in {seat["host"], seat["guest"]}
    BY DEF CleanupRoom, ClientInv, RoomInv, Peer
<1>2. CASE c = seat["host"]
    <2>1. seat' = seat /\ roomsBySocket' \subseteq roomsBySocket
        BY <1>1, <1>2
    <2>2. \A p \in Peer : seat'[p] # None => Owner(seat'[p]) = p /\ inbox'[seat'[p]] # {}
        BY <2>1 DEF ClientInv, RoomInv
    <2>3. roomsBySocket' \subseteq {seat'[p] : p \in Peer} \ {None}
        BY <2>1 DEF ClientInv, RoomInv
    <2>4. /\ seat' \in [Peer -> Connection \cup {None}]
          /\ seat'["host"] # None
        BY <2>1 DEF ClientInv, RoomInv
    <2> QED  BY <1>1, <2>2, <2>3, <2>4 DEF RoomInv
<1>3. CASE c # seat["host"]
    <2>1. /\ seat' \in [Peer -> Connection \cup {None}]
          /\ seat'["host"] = seat["host"] /\ seat'["guest"] = None
        BY <1>1, <1>3 DEF ClientInv, RoomInv, Peer
    <2>2. ASSUME NEW d \in roomsBySocket'
          PROVE  d = seat'["host"] /\ d # None
        <3>1. d \in roomsBySocket /\ d # seat["guest"]
            BY <1>1, <1>3
        <3>2. PICK p \in Peer : d = seat[p] /\ d # None
            BY <3>1 DEF ClientInv, RoomInv
        <3> QED  BY <2>1, <3>1, <3>2 DEF Peer
    <2>3. \A p \in Peer : seat'[p] # None => Owner(seat'[p]) = p /\ inbox'[seat'[p]] # {}
        BY <2>1 DEF ClientInv, RoomInv, Peer
    <2>4. roomsBySocket' \subseteq {seat'[p] : p \in Peer} \ {None}
        BY <2>2 DEF Peer
    <2> QED  BY <1>1, <2>1, <2>3, <2>4 DEF ClientInv, RoomInv
<1> QED  BY <1>2, <1>3

(* The relay notices that a connection is closed. *)
LEMMA DisconnectInRelay ==
    ASSUME ClientInv, R!IInv, NEW c \in Connection, serverState[c] \in {"open", "closing"},
           NEW reply, IsOut(reply), \A d \in Connection : Kinds(reply[d]) = {},
           HandleDisconnect(c, reply)
    PROVE  /\ R!SocketClosed(c) /\ RoomInv'
           /\ serverState'[c] = "closed"
           /\ serverState' \in [Connection -> {"absent", "open", "closing", "closed"}]
           /\ \A d \in Connection \ {c} :
                  \/ serverState'[d] = serverState[d]
                  \/ serverState[d] = "open" /\ serverState'[d] = "closing" /\ inbox[d] # {}
           /\ \A d \in Connection : inbox'[d] = {} <=> inbox[d] = {}
<1>1. /\ serverState \in [Connection -> {"absent", "open", "closing", "closed"}]
      /\ state \in {"active", "ended"}
    BY DEF ClientInv, AcceptedInv, RoomInv
<1>2. R!Receiving(c)
    <2>1. relayClient[c].role \in {"host", "guest", None}
        BY DEF relayClient, Owner, Connection, Peer
    <2> QED  BY <2>1, NoneAssumption DEF R!Receiving
<1>3. ASSUME NEW closing,
             serverState' = [d \in Connection |->
                                IF d = c THEN "closed"
                                ELSE IF d \in closing /\ serverState[d] = "open" THEN "closing"
                                ELSE serverState[d]],
             \A d \in Connection : d \in closing => inbox[d] # {}
      PROVE  /\ relayIps' = relayIps \ {c}
             /\ serverState'[c] = "closed"
             /\ serverState' \in [Connection -> {"absent", "open", "closing", "closed"}]
             /\ \A d \in Connection \ {c} :
                    \/ serverState'[d] = serverState[d]
                    \/ serverState[d] = "open" /\ serverState'[d] = "closing" /\ inbox[d] # {}
    BY <1>1, <1>3 DEF relayIps
<1>4. /\ relayRooms[Room].state = state /\ relayRooms[Room].sessionId = Room
      /\ relayBySocket[c] = IF c \in roomsBySocket THEN Room ELSE None
      /\ R!Peer(c, Room) = PeerOf(c) /\ Room # None /\ Room \in Connection
    BY RoomInRelay
<1>5. R!HandleDisconnect(c) /\ relayIps' = relayIps \ {c} /\ UNCHANGED relayClient =>
          R!SocketClosed(c)
    BY <1>2 DEF R!SocketClosed
<1>6. CASE /\ c \notin roomsBySocket
           /\ RelaySends(reply)
           /\ RelayCloses({c}, {})
           /\ UNCHANGED roomVars
    <2>1. /\ \A d \in Connection : inbox'[d] = {} <=> inbox[d] = {}
          /\ UNCHANGED inbox
        BY <1>6, SentBefore DEF R!IInv
    <2>2. serverState' = [d \in Connection |->
                             IF d = c THEN "closed"
                             ELSE IF d \in {} /\ serverState[d] = "open" THEN "closing"
                             ELSE serverState[d]]
        BY <1>6 DEF RelayCloses
    <2>3. UNCHANGED <<relayRooms, relaySessions, relayBySocket, relayTimers, relayGraceTimers,
                      relayByCode, relayClient>>
        BY <1>6, <2>1, SameInRelay DEF roomVars
    <2>4. R!HandleDisconnect(c)
        BY <1>4, <1>6, <2>1, <2>2, <2>3 DEF R!HandleDisconnect, R!managerVars, R!timerVars
    <2>5. RoomInv'
        BY <1>6, <2>1 DEF ClientInv, RoomInv, roomVars
    <2> QED  BY <1>3, <1>5, <2>1, <2>2, <2>3, <2>4, <2>5
<1>7. CASE /\ c \in roomsBySocket /\ state = "active"
           /\ RelaySends(Then(reply, To(PeerOf(c), "TERMINATED")))
           /\ RelayCloses({c}, {})
           /\ graceTimers' = graceTimers \cup {c}
           /\ graceTimer' = c
           /\ UNCHANGED <<state, seat, roomsBySocket>>
    <2>1. PICK out : /\ RelaySends(out)
                     /\ \A d \in Connection :
                            Kinds(out[d]) = IF d = PeerOf(c) THEN {"SESSION_TERMINATE"} ELSE {}
        <3>1. /\ IsOut(To(PeerOf(c), "TERMINATED"))
              /\ \A d \in Connection : Kinds(To(PeerOf(c), "TERMINATED")[d])
                                       = IF d = PeerOf(c) THEN {"SESSION_TERMINATE"} ELSE {}
            BY ToKinds DEF Kind
        <3> DEFINE told == Then(reply, To(PeerOf(c), "TERMINATED"))
        <3>2. /\ RelaySends(told)
              /\ \A d \in Connection :
                     Kinds(told[d]) = Kinds(reply[d]) \cup Kinds(To(PeerOf(c), "TERMINATED")[d])
            BY <1>7, <3>1, ThenKinds
        <3> HIDE DEF told
        <3> QED  BY <3>1, <3>2
    <2>2. PeerOf(c) \in Connection => inbox[PeerOf(c)] # {}
        BY NoneAssumption DEF PeerOf, ClientInv, RoomInv, Peer
    <2>3. \A d \in Connection : inbox'[d] = {} <=> inbox[d] = {}
        BY <2>1, <2>2, SentBefore
    <2>4. R!Send({<<PeerOf(c), "SESSION_TERMINATE">>})
        <3>1. \A d \in Connection :
                  Kinds(out[d]) =
                      {m \in R!Message : <<d, m>> \in {<<PeerOf(c), "SESSION_TERMINATE">>}}
            BY <2>1 DEF R!Message
        <3> QED  BY <2>1, <3>1, SendsInRelay DEF R!IInv
    <2>5. serverState' = [d \in Connection |->
                             IF d = c THEN "closed"
                             ELSE IF d \in {} /\ serverState[d] = "open" THEN "closing"
                             ELSE serverState[d]]
        BY <1>7 DEF RelayCloses
    <2>6. UNCHANGED <<relayRooms, relaySessions, relayBySocket, relayByCode, relayClient>>
        BY <1>7, <2>3, SameInRelay
    <2>7. R!StartGraceTimer(c, Room)
        <3>1. relayTimers' = [relayTimers EXCEPT ![c] = Room]
            BY <1>7 DEF relayTimers, Room
        <3>2. relayGraceTimers' = [relayGraceTimers EXCEPT ![Room] = c]
            BY <1>4, <1>7 DEF relayGraceTimers, Room
        <3> QED  BY <3>1, <3>2 DEF R!StartGraceTimer
    <2>8. R!HandleDisconnect(c)
        BY <1>4, <1>7, <2>4, <2>5, <2>6, <2>7 DEF R!HandleDisconnect, R!managerVars
    <2>9. RoomInv'
        BY <1>7, <2>3 DEF ClientInv, RoomInv
    <2> QED  BY <1>3, <1>5, <2>3, <2>5, <2>6, <2>8, <2>9
<1>8. CASE /\ c \in roomsBySocket /\ state = "ended"
           /\ CleanupRoom(c, {c}, reply)
           /\ UNCHANGED <<graceTimers, graceTimer>>
    <2>1. PICK closing : closing = R!ClosedWithRoom(c, Room)
        OBVIOUS
    <2>2. /\ R!CleanupRoom(c, Room, Room)
          /\ serverState' = [d \in Connection |->
                 IF d = c THEN "closed"
                 ELSE IF d \in closing /\ serverState[d] = "open" THEN "closing"
                 ELSE serverState[d]]
          /\ \A d \in Connection : inbox'[d] = {} <=> inbox[d] = {}
          /\ \A d \in Connection : d \in closing => inbox[d] # {}
        BY <1>8, <2>1, CleanupInRelay, NoneAssumption
    <2>3. UNCHANGED <<relayTimers, relayGraceTimers, relayClient>>
        BY <1>8, <2>2, SameInRelay
    <2>4. R!HandleDisconnect(c)
        BY <1>4, <1>8, <2>1, <2>2, <2>3 DEF R!HandleDisconnect, R!timerVars
    <2>5. RoomInv'
        <3>1. graceTimers' \subseteq Connection
            BY <1>8 DEF ClientInv, RoomInv
        <3> QED  BY <1>8, <2>2, <3>1, CleanupKeepsRoom
    <2> QED  BY <1>3, <1>5, <2>2, <2>3, <2>4, <2>5
<1> QED  BY <1>6, <1>7, <1>8 DEF HandleDisconnect

(* The relay reads a close() of a peer. *)
LEMMA ReadsCloseInRelay ==
    ASSUME ClientInv, R!IInv, NEW c \in Connection, RelayReadsClose(c)
    PROVE  ClientInv' /\ R!SocketClosed(c)
<1>1. /\ RelayTakes(c, {"CLOSE"}) /\ HandleDisconnect(c, To(c, "CLOSE"))
      /\ UNCHANGED <<readyState, typed, printed, sendCounter>>
    BY DEF RelayReadsClose, terminalVars
<1>2. /\ up' \in [Connection -> Seq(Msg)]
      /\ \A d \in Connection : up'[d] = up[d] \/ (up[d] # <<>> /\ up'[d] = Tail(up[d]))
      /\ \A d \in Connection \ {c} : up'[d] = up[d]
      /\ serverState[c] \in {"open", "closing"}
      /\ inbox[c] # {}
    BY <1>1, ReadsFacts DEF ClientInv
<1>3. IsOut(To(c, "CLOSE")) /\ \A d \in Connection : Kinds(To(c, "CLOSE")[d]) = {}
    BY ToKinds
<1>4. /\ R!SocketClosed(c) /\ RoomInv'
      /\ serverState'[c] = "closed"
      /\ serverState' \in [Connection -> {"absent", "open", "closing", "closed"}]
      /\ \A d \in Connection \ {c} :
             \/ serverState'[d] = serverState[d]
             \/ serverState[d] = "open" /\ serverState'[d] = "closing" /\ inbox[d] # {}
      /\ \A d \in Connection : inbox'[d] = {} <=> inbox[d] = {}
    BY <1>1, <1>2, <1>3, DisconnectInRelay
<1>5. AcceptedInv' /\ OpeningInv'
    BY <1>1, <1>2, <1>4, ClientsKeep DEF ClientInv
<1>6. CountersInv'
    BY <1>1 DEF ClientInv, CountersInv
<1> QED  BY <1>4, <1>5, <1>6 DEF ClientInv

(* The relay notices that a connection is lost. *)
LEMMA SeesCutInRelay ==
    ASSUME ClientInv, R!IInv, NEW c \in Connection, RelaySeesCut(c)
    PROVE  ClientInv' /\ R!SocketClosed(c)
<1>1. /\ serverState[c] \in {"open", "closing"} /\ HandleDisconnect(c, NoReply)
      /\ up' = [up EXCEPT ![c] = <<>>]
      /\ UNCHANGED <<readyState, typed, printed, sendCounter>>
    BY DEF RelaySeesCut, terminalVars
<1>2. /\ up' \in [Connection -> Seq(Msg)]
      /\ \A d \in Connection : up'[d] = up[d] \/ up'[d] = <<>>
      /\ \A d \in Connection \ {c} : up'[d] = up[d]
    BY <1>1 DEF ClientInv, AcceptedInv
<1>3. IsOut(NoReply) /\ \A d \in Connection : Kinds(NoReply[d]) = {}
    BY ToKinds, NoneAssumption DEF NoReply
<1>4. /\ R!SocketClosed(c) /\ RoomInv'
      /\ serverState'[c] = "closed"
      /\ serverState' \in [Connection -> {"absent", "open", "closing", "closed"}]
      /\ \A d \in Connection \ {c} :
             \/ serverState'[d] = serverState[d]
             \/ serverState[d] = "open" /\ serverState'[d] = "closing" /\ inbox[d] # {}
      /\ \A d \in Connection : inbox'[d] = {} <=> inbox[d] = {}
    BY <1>1, <1>3, DisconnectInRelay
<1>5. AcceptedInv' /\ OpeningInv'
    BY <1>1, <1>2, <1>4, ClientsKeep DEF ClientInv
<1>6. CountersInv'
    BY <1>1 DEF ClientInv, CountersInv
<1> QED  BY <1>4, <1>5, <1>6 DEF ClientInv

(* The grace timer of a connection fires. *)
LEMMA TimerInRelay ==
    ASSUME ClientInv, R!IInv, NEW c \in Connection, GraceTimerFires(c)
    PROVE  ClientInv' /\ R!GraceTimerFires(c)
<1>1. /\ c \in graceTimers /\ graceTimers' = graceTimers \ {c} /\ graceTimer' = None
      /\ UNCHANGED <<readyState, up, typed, printed, sendCounter>>
    BY DEF GraceTimerFires, terminalVars
<1>2. Room \in Connection /\ Room # None /\ relayTimers[c] = Room
      /\ relayBySocket[c] = IF c \in roomsBySocket THEN Room ELSE None
    BY <1>1, RoomInRelay DEF relayTimers
<1>3. /\ relayTimers' = [relayTimers EXCEPT ![c] = None]
      /\ relayGraceTimers' = [relayGraceTimers EXCEPT ![Room] = None]
    BY <1>1, <1>2 DEF relayTimers, relayGraceTimers, Room
<1>4. CountersInv' /\ graceTimers' \subseteq Connection
    BY <1>1 DEF ClientInv, CountersInv, RoomInv
<1>5. /\ up \in [Connection -> Seq(Msg)]
      /\ serverState \in [Connection -> {"absent", "open", "closing", "closed"}]
    BY DEF ClientInv, AcceptedInv
<1>6. CASE c \notin roomsBySocket
    <2>1. UNCHANGED <<inbox, serverState, state, seat, roomsBySocket>>
        BY <1>6 DEF GraceTimerFires
    <2>2. AcceptedInv' /\ OpeningInv'
        BY <1>1, <2>1 DEF ClientInv, AcceptedInv, OpeningInv
    <2>3. RoomInv'
        BY <1>4, <2>1 DEF ClientInv, RoomInv
    <2>4. UNCHANGED <<relayRooms, relaySessions, relayBySocket, relayByCode, relayClient, relayIps>>
        BY <2>1, SameInRelay
    <2>5. R!GraceTimerFires(c)
        BY <1>2, <1>3, <1>6, <2>1, <2>4 DEF R!GraceTimerFires, R!TimedRoom, R!managerVars
    <2> QED  BY <1>4, <2>2, <2>3, <2>5 DEF ClientInv
<1>7. CASE c \in roomsBySocket
    <2>1. CleanupRoom(c, {}, NoReply)
        BY <1>7 DEF GraceTimerFires
    <2>2. IsOut(NoReply) /\ \A d \in Connection : Kinds(NoReply[d]) = {}
        BY ToKinds, NoneAssumption DEF NoReply
    <2>3. PICK closing : closing = R!ClosedWithRoom(c, Room)
        OBVIOUS
    <2>4. /\ R!CleanupRoom(c, Room, Room)
          /\ serverState' = [d \in Connection |->
                 IF d \in {} THEN "closed"
                 ELSE IF d \in closing /\ serverState[d] = "open" THEN "closing"
                 ELSE serverState[d]]
          /\ \A d \in Connection : inbox'[d] = {} <=> inbox[d] = {}
          /\ \A d \in Connection : d \in closing => inbox[d] # {}
        BY <1>7, <2>1, <2>2, <2>3, CleanupInRelay, NoneAssumption
    <2>5. /\ R!Close(closing) /\ UNCHANGED relayIps
          /\ serverState' \in [Connection -> {"absent", "open", "closing", "closed"}]
          /\ \A d \in Connection :
                 \/ serverState'[d] = serverState[d]
                 \/ serverState[d] = "open" /\ serverState'[d] = "closing" /\ inbox[d] # {}
        BY <1>5, <2>4 DEF R!Close, relayIps
    <2>6. AcceptedInv' /\ OpeningInv'
        BY <1>1, <1>5, <2>4, <2>5, ClientsKeep DEF ClientInv
    <2>7. RoomInv'
        BY <1>4, <1>7, <2>1, <2>4, CleanupKeepsRoom
    <2>8. UNCHANGED relayClient
        BY <2>4, SameInRelay
    <2>9. R!GraceTimerFires(c)
        BY <1>2, <1>3, <1>7, <2>3, <2>4, <2>5, <2>8 DEF R!GraceTimerFires, R!TimedRoom
    <2> QED  BY <1>4, <2>6, <2>7, <2>9 DEF ClientInv
<1> QED  BY <1>6, <1>7

-----------------------------------------------------------------------------
(* The peers' steps.                                                       *)

(* Whatever a peer says after its opening message leaves the relay alone.  *)
LEMMA PeersKeep ==
    ASSUME ClientInv, CountersInv', UNCHANGED <<serverState, inbox, roomVars>>,
           readyState' \in [Connection -> {"absent", "connecting", "open", "closing", "closed"}],
           \A c \in Connection :
               readyState'[c] \in {"absent", "connecting"} =>
                   readyState[c] \in {"absent", "connecting"},
           up' = up \/ \E d, out : IsSaid(out) /\ PeerSends(d, out)
    PROVE  ClientInv' /\ UNCHANGED R!vars
<1>1. RoomInv'
    BY DEF ClientInv, RoomInv, roomVars
<1>2. /\ up' \in [Connection -> Seq(Msg)]
      /\ \A c \in Connection :
             up'[c] = up[c] \/ \E out \in Seq(Msg) : NoReconnect(out) /\ up'[c] = up[c] \o out
    <2>1. CASE up' = up
        BY <2>1 DEF ClientInv, AcceptedInv
    <2>2. ASSUME NEW d, NEW out, IsSaid(out), PeerSends(d, out)
          PROVE  /\ up' \in [Connection -> Seq(Msg)]
                 /\ \A c \in Connection : up'[c] = up[c] \/ up'[c] = up[c] \o out
        <3>1. out \in Seq(Msg) /\ up \in [Connection -> Seq(Msg)]
            BY <2>2 DEF IsSaid, ClientInv, AcceptedInv
        <3>2. \A c \in Connection : up[c] \o out \in Seq(Msg)
            BY <3>1
        <3>3. up' = up \/ up' = [up EXCEPT ![d] = up[d] \o out]
            BY <2>2, <3>1 DEF PeerSends, Carried
        <3> QED  BY <3>1, <3>2, <3>3
    <2> QED  BY <2>1, <2>2 DEF IsSaid
<1>3. AcceptedInv'
    BY <1>2 DEF ClientInv, AcceptedInv
<1>4. ASSUME NEW c \in Connection
      PROVE  /\ \A i \in 1 .. Len(up'[c]) :
                    up'[c][i].type = "RECONNECT" => i = 1 /\ inbox'[c] = {}
             /\ serverState'[c] \in {"open", "closing"} /\ inbox'[c] = {} =>
                    serverState'[c] = "open" /\ up'[c] # <<>> /\ up'[c][1].type = "RECONNECT"
    <2>1. CASE up'[c] = up[c]
        BY <2>1 DEF ClientInv, OpeningInv
    <2>2. ASSUME NEW out \in Seq(Msg), NoReconnect(out), up'[c] = up[c] \o out
          PROVE  /\ \A i \in 1 .. Len(up'[c]) :
                        up'[c][i].type = "RECONNECT" => i = 1 /\ inbox'[c] = {}
                 /\ serverState'[c] \in {"open", "closing"} /\ inbox'[c] = {} =>
                        serverState'[c] = "open" /\ up'[c] # <<>> /\ up'[c][1].type = "RECONNECT"
        <3>1. PICK q : q = up[c]
            OBVIOUS
        <3>2. q \in Seq(Msg)
            BY <3>1 DEF ClientInv, AcceptedInv
        <3>3. /\ Len(q) \in Nat /\ Len(out) \in Nat /\ Len(q \o out) = Len(q) + Len(out)
              /\ \A i \in 1 .. Len(q) : (q \o out)[i] = q[i]
              /\ \A i \in 1 .. Len(out) : (q \o out)[Len(q) + i] = out[i]
            BY <3>2
        <3>4. ASSUME NEW i \in 1 .. Len(q \o out), (q \o out)[i].type = "RECONNECT"
              PROVE  i \in 1 .. Len(q) /\ (q \o out)[i] = q[i]
            <4>1. ASSUME ~(i \in 1 .. Len(q))  PROVE FALSE
                <5>1. i - Len(q) \in 1 .. Len(out) /\ Len(q) + (i - Len(q)) = i
                    BY <3>3, <4>1
                <5>2. out[i - Len(q)].type = "RECONNECT"
                    BY <3>3, <3>4, <5>1
                <5> QED  BY <2>2, <5>1, <5>2 DEF NoReconnect
            <4> QED  BY <3>3, <4>1
        <3>5. q # <<>> => q \o out # <<>> /\ (q \o out)[1] = q[1]
            BY <3>2, <3>3
        <3> QED  BY <2>2, <3>1, <3>4, <3>5 DEF ClientInv, OpeningInv
    <2> QED  BY <1>2, <2>1, <2>2
<1>5. OpeningInv'
    BY <1>4 DEF ClientInv, OpeningInv
<1>6. UNCHANGED R!vars
    BY SameInRelay DEF R!vars, roomVars
<1> QED  BY <1>1, <1>3, <1>5, <1>6 DEF ClientInv

(* A peer's step leaves the relay alone. *)
LEMMA PeerInRelay ==
    ASSUME ClientInv, NEW c,
           \/ PeerHandles(c) \/ PeerSeesCut(c) \/ ConnectFails(c) \/ Cut(c)
           \/ \E p \in Peer, n \in Attempt : TimerFires(p, n)
           \/ Output \/ ShellExits \/ Type \/ Detach
    PROVE  ClientInv' /\ UNCHANGED R!vars
<1>1. UNCHANGED <<serverState, inbox, roomVars>>
    <2>1. CASE PeerHandles(c)
        BY <2>1 DEF PeerHandles, PeerReadsClose, SocketClosed, SessionReady, Terminated,
               ReconnectOk, Error, HostKeyExchange, HostEncryptedData, HostPtyInput, HostPtyResize,
               GuestKeyExchange, GuestEncryptedData, OnMessage
    <2> QED  BY <2>1 DEF PeerSeesCut, SocketClosed, ConnectFails, Cut, TimerFires, Output,
                         ShellExits, Type, Detach
<1>2. CountersInv'
    <2>1. CASE Output
        BY <2>1 DEF Output, ClientInv, CountersInv, Peer
    <2>2. CASE Type
        BY <2>2 DEF Type, ClientInv, CountersInv, Peer
    <2>3. CASE ~Output /\ ~Type
        <3>1. UNCHANGED <<typed, printed, sendCounter>>
            <4>1. CASE PeerHandles(c)
                BY <4>1 DEF PeerHandles, PeerReadsClose, SocketClosed, SessionReady, Terminated,
                       ReconnectOk, Error, HostKeyExchange, HostEncryptedData, HostPtyInput,
                       HostPtyResize, GuestKeyExchange, GuestEncryptedData, OnMessage, terminalVars
            <4> QED  BY <2>3, <4>1 DEF PeerSeesCut, SocketClosed, ConnectFails, Cut, TimerFires,
                                       ShellExits, Detach, terminalVars
        <3> QED  BY <3>1 DEF ClientInv, CountersInv
    <2> QED  BY <2>1, <2>2, <2>3
<1>3. /\ readyState' \in [Connection -> {"absent", "connecting", "open", "closing", "closed"}]
      /\ \A d \in Connection :
             readyState'[d] \in {"absent", "connecting"} =>
                 readyState[d] \in {"absent", "connecting"}
    <2>1. readyState \in [Connection -> {"absent", "connecting", "open", "closing", "closed"}]
        BY DEF ClientInv, AcceptedInv
    <2>2. \/ readyState' = readyState
          \/ \E d, out : PeerSendsAndCloses(d, out)
          \/ readyState' = [readyState EXCEPT ![c] = "closed"]
          \/ readyState[c] = "connecting" /\ readyState' = [readyState EXCEPT ![c] = "absent"]
          \/ \E d \in Connection :
                 readyState[d] = "absent" /\ readyState' = [readyState EXCEPT ![d] = "connecting"]
        <3>1. CASE PeerHandles(c)
            BY <3>1 DEF PeerHandles, PeerReadsClose, SocketClosed, SessionReady, Terminated,
                   ReconnectOk, Error, HostKeyExchange, HostEncryptedData, HostPtyInput,
                   HostPtyResize, GuestKeyExchange, GuestEncryptedData
        <3>2. CASE \E p \in Peer, n \in Attempt : TimerFires(p, n)
            BY <3>2 DEF TimerFires, Connection
        <3>3. CASE PeerSeesCut(c) \/ ConnectFails(c) \/ Cut(c)
            BY <3>3 DEF PeerSeesCut, SocketClosed, ConnectFails, Cut
        <3>4. CASE Output \/ ShellExits \/ Type \/ Detach
            BY <3>4 DEF Output, ShellExits, Type, Detach
        <3> QED  BY <3>1, <3>2, <3>3, <3>4
    <2> QED  BY <2>1, <2>2 DEF PeerSendsAndCloses
<1>4. up' = up \/ \E d, out : IsSaid(out) /\ PeerSends(d, out)
    BY PeerSays DEF ClientInv
<1> QED  BY <1>1, <1>2, <1>3, <1>4, PeersKeep

-----------------------------------------------------------------------------
(* The theorem.                                                            *)

(* The relay is in a state of Relay when the session is ready. *)
LEMMA InitInRelay ==
    ASSUME Init
    PROVE  ClientInv /\ R!IInv
<1>1. /\ First("host") \in Connection /\ First("guest") \in Connection
      /\ First("host") # First("guest") /\ Room = First("host")
      /\ \A p \in Peer : First(p) \in Connection /\ Owner(First(p)) = p
      /\ None \notin Connection
    BY SessionAssumption, NoneAssumption DEF First, Connection, Owner, Peer, Room
<1>2. /\ readyState = [c \in Connection |-> IF c \in {First("host"), First("guest")}
                                            THEN "open" ELSE "absent"]
      /\ serverState = readyState
      /\ \A c \in Connection : Owner(c) \in Peer
    <2>1. \A c \in Connection : Owner(c) \in Peer
        BY DEF Connection, Owner
    <2>2. \A c \in Connection : c = First(Owner(c)) <=> c \in {First("host"), First("guest")}
        BY <1>1, <2>1 DEF Peer
    <2> QED  BY <2>1, <2>2 DEF Init
<1>3. /\ inbox[First("host")] = {"HOST_REGISTERED", "SESSION_READY", "SESSION_INFO"}
      /\ inbox[First("guest")] = {"SESSION_READY", "SESSION_INFO"}
      /\ \A c \in Connection \ {First("host"), First("guest")} : inbox[c] = {}
    BY <1>1 DEF Init
<1>4. /\ state = "active" /\ seat["host"] = First("host") /\ seat["guest"] = First("guest")
      /\ roomsBySocket = {First("host"), First("guest")}
      /\ graceTimers = {} /\ graceTimer = None
    BY DEF Init, Peer
<1>5. ClientInv
    <2>1. CountersInv
        BY DEF Init, CountersInv
    <2>2. AcceptedInv
        BY <1>1, <1>2, <1>3 DEF Init, AcceptedInv
    <2>3. OpeningInv
        <3>1. \A c \in Connection : Len(up[c]) = 0
            BY DEF Init
        <3>2. \A c \in Connection : serverState[c] \in {"open", "closing"} => inbox[c] # {}
            BY <1>2, <1>3
        <3>3. \A p \in Peer : inbox[First(p)] # {}
            BY <1>3 DEF Peer
        <3> QED  BY <3>1, <3>2, <3>3 DEF OpeningInv
    <2>4. RoomInv
        BY <1>1, <1>3, <1>4 DEF Init, RoomInv, Peer
    <2> QED  BY <2>1, <2>2, <2>3, <2>4 DEF ClientInv
<1>6. /\ relayRooms[Room] = [state |-> "active", code |-> "code", host |-> First("host"),
                             guest |-> First("guest"), sessionId |-> Room]
      /\ \A r \in Connection \ {Room} :
             relayRooms[r] = [state |-> None, code |-> None, host |-> None, guest |-> None,
                              sessionId |-> None]
    BY <1>1, <1>4 DEF relayRooms
<1>7. /\ relayClient[First("host")] = [role |-> "host", device |-> "host", session |-> Room]
      /\ relayClient[First("guest")] = [role |-> "guest", device |-> "guest", session |-> Room]
      /\ \A c \in Connection \ {First("host"), First("guest")} :
             relayClient[c] = [role |-> None, device |-> None, session |-> None]
    BY <1>1, <1>3 DEF relayClient, Peer
<1>8. /\ relayByCode = [c \in {"code"} |-> None]
      /\ relayBySocket = [c \in Connection |-> IF c \in {First("host"), First("guest")}
                                               THEN Room ELSE None]
      /\ relaySessions = {Room}
      /\ relayTimers = [c \in Connection |-> None]
      /\ relayGraceTimers = [r \in Connection |-> None]
      /\ relayIps \subseteq Connection
    BY <1>4 DEF relayByCode, relayBySocket, relaySessions, relayTimers, relayGraceTimers, relayIps
<1>9. R!TypeOK
    <2>1. serverState \in [Connection -> R!ReadyState]
        BY <1>2 DEF R!ReadyState
    <2>2. relayClient \in [Connection -> R!Client]
        <3>1. ASSUME NEW c \in Connection  PROVE relayClient[c] \in R!Client
            <4>1. CASE c = First("host")
                BY <1>1, <1>7, <4>1 DEF R!Client, R!Room
            <4>2. CASE c = First("guest")
                BY <1>1, <1>7, <4>2 DEF R!Client, R!Room
            <4>3. CASE c \notin {First("host"), First("guest")}
                BY <1>7, <4>3 DEF R!Client, R!Room
            <4> QED  BY <4>1, <4>2, <4>3
        <3>2. relayClient = [c \in Connection |-> relayClient[c]]
            BY DEF relayClient
        <3> QED  BY <3>1, <3>2
    <2>3. inbox \in [Connection -> SUBSET R!Message]
        BY DEF Init, R!Message
    <2>4. relayRooms \in [Connection -> R!RelayRoom]
        <3>1. ASSUME NEW r \in Connection  PROVE relayRooms[r] \in R!RelayRoom
            <4>1. CASE r = Room
                BY <1>1, <1>6, <4>1 DEF R!RelayRoom, R!RelayState, R!Room
            <4>2. CASE r # Room
                BY <1>6, <4>2 DEF R!RelayRoom, R!RelayState, R!Room
            <4> QED  BY <4>1, <4>2
        <3>2. relayRooms = [r \in Connection |-> relayRooms[r]]
            BY DEF relayRooms
        <3> QED  BY <3>1, <3>2
    <2>5. /\ relayByCode \in [{"code"} -> Connection \cup {None}]
          /\ relayBySocket \in [Connection -> Connection \cup {None}]
          /\ relaySessions \in SUBSET Connection
          /\ relayTimers \in [Connection -> Connection \cup {None}]
          /\ relayGraceTimers \in [Connection -> Connection \cup {None}]
          /\ relayIps \in SUBSET Connection
        BY <1>1, <1>8
    <2> QED  BY <2>1, <2>2, <2>3, <2>4, <2>5 DEF R!TypeOK, R!Room
<1>10. /\ R!Members(Room) = {First("host"), First("guest")}
       /\ \A r \in Connection \ {Room} : R!Members(r) = {}
       /\ R!Active(Room) /\ ~R!Unapproved(Room)
       /\ \A r \in Connection \ {Room} : ~R!Active(r) /\ ~R!Unapproved(r)
    BY <1>1, <1>6, NoneAssumption DEF R!Members, R!Active, R!Unapproved
<1>11. R!RegistryConsistent
    BY <1>1, <1>8, <1>10 DEF R!RegistryConsistent, R!Room
<1>12. R!SocketShape
    BY <1>1, <1>2, <1>6, <1>7, <1>10 DEF R!SocketShape, R!Room, R!NoClient
<1>13. R!RoomShape
    BY <1>1, <1>6, <1>10, NoneAssumption DEF R!RoomShape, R!Room, R!NoRoom
<1>14. R!OneRoomEach
    BY <1>10 DEF R!OneRoomEach, R!Room
<1>15. R!TimerShape
    BY <1>1, <1>8 DEF R!TimerShape, R!Room
<1>16. R!RequestShape
    BY <1>3 DEF R!RequestShape
<1>17. R!MembersReady
    BY <1>3, <1>10 DEF R!MembersReady, R!Room
<1>18. R!SeatDevices
    BY <1>1, <1>6, <1>7, <1>10, NoneAssumption DEF R!SeatDevices, R!Room
<1>19. R!AbandonedIsTimed
    BY <1>1, <1>2, <1>10 DEF R!AbandonedIsTimed, R!Room
<1>20. R!NoTrafficBeforeReady
    BY <1>3 DEF R!NoTrafficBeforeReady
<1>21. R!EndIsTold
    BY <1>6, NoneAssumption DEF R!EndIsTold, R!Room
<1> QED  BY <1>5, <1>9, <1>11, <1>12, <1>13, <1>14, <1>15, <1>16, <1>17, <1>18, <1>19, <1>20, <1>21
         DEF R!IInv

(* What the relay does during a session. *)
AtWork ==
    \E c \in Connection :
        \/ R!Connect(c) \/ R!ForwardToPeer(c) \/ R!SocketClosed(c) \/ R!GraceTimerFires(c)
        \/ \E old \in Connection : R!Reconnect(c, old)

(* Every step is one of them, or leaves the variables of Relay alone. *)
LEMMA NextInRelay ==
    ASSUME ClientInv, R!IInv, [Next]_vars
    PROVE  ClientInv' /\ (AtWork \/ UNCHANGED R!vars)
<1>1. ASSUME NEW c \in Connection, RelayHandles(c)
      PROVE  ClientInv' /\ AtWork
    BY <1>1, ForwardInRelay, ReconnectInRelay, ReadsCloseInRelay DEF RelayHandles, AtWork
<1>2. ASSUME NEW c \in Connection, RelaySeesCut(c) \/ SocketOpens(c) \/ GraceTimerFires(c)
      PROVE  ClientInv' /\ AtWork
    BY <1>2, SeesCutInRelay, ConnectInRelay, TimerInRelay DEF AtWork
<1>3. ASSUME NEW c \in Connection,
             PeerHandles(c) \/ PeerSeesCut(c) \/ ConnectFails(c) \/ Cut(c)
      PROVE  ClientInv' /\ UNCHANGED R!vars
    BY <1>3, PeerInRelay
<1>4. CASE \/ \E p \in Peer, n \in Attempt : TimerFires(p, n)
           \/ Output \/ ShellExits \/ Type \/ Detach
    BY <1>4, PeerInRelay
<1>5. CASE UNCHANGED vars
    <2>1. UNCHANGED R!vars
        BY <1>5, SameInRelay DEF vars, wireVars, roomVars, R!vars
    <2>2. ClientInv'
        <3>1. CountersInv'
            BY <1>5 DEF vars, terminalVars, ClientInv, CountersInv
        <3>2. AcceptedInv' /\ OpeningInv'
            BY <1>5 DEF vars, wireVars, ClientInv, AcceptedInv, OpeningInv
        <3>3. RoomInv'
            BY <1>5 DEF vars, roomVars, ClientInv, RoomInv
        <3> QED  BY <3>1, <3>2, <3>3 DEF ClientInv
    <2> QED  BY <2>1, <2>2
<1> QED  BY <1>1, <1>2, <1>3, <1>4, <1>5 DEF Next

(* R is AtRelay: the invariant. *)
LEMMA SameIInv ==
    R!IInv => AtRelay!IInv
<1> USE DEF relayClient, relayRooms, relayByCode, relayBySocket, relaySessions, relayTimers,
            relayGraceTimers, relayIps
<1> USE DEF R!Room, AtRelay!Room, R!Members, AtRelay!Members, R!Unapproved, AtRelay!Unapproved,
            R!Active, AtRelay!Active
<1>1. R!TypeOK => AtRelay!TypeOK
    BY DEF R!TypeOK, AtRelay!TypeOK, R!ReadyState, AtRelay!ReadyState, R!Client, AtRelay!Client,
           R!RelayRoom, AtRelay!RelayRoom, R!RelayState, AtRelay!RelayState, R!Message,
           AtRelay!Message
<1>2. R!RegistryConsistent => AtRelay!RegistryConsistent
    BY DEF R!RegistryConsistent, AtRelay!RegistryConsistent
<1>3. R!SocketShape => AtRelay!SocketShape
    BY DEF R!SocketShape, AtRelay!SocketShape, R!NoClient, AtRelay!NoClient
<1>4. R!RoomShape => AtRelay!RoomShape
    BY DEF R!RoomShape, AtRelay!RoomShape, R!NoRoom, AtRelay!NoRoom
<1>5. R!OneRoomEach => AtRelay!OneRoomEach
    BY DEF R!OneRoomEach, AtRelay!OneRoomEach
<1>6. R!TimerShape => AtRelay!TimerShape
    BY DEF R!TimerShape, AtRelay!TimerShape
<1>7. R!RequestShape => AtRelay!RequestShape
    BY DEF R!RequestShape, AtRelay!RequestShape
<1>8. R!MembersReady => AtRelay!MembersReady
    BY DEF R!MembersReady, AtRelay!MembersReady
<1>9. R!SeatDevices => AtRelay!SeatDevices
    BY DEF R!SeatDevices, AtRelay!SeatDevices
<1>10. R!AbandonedIsTimed => AtRelay!AbandonedIsTimed
    BY DEF R!AbandonedIsTimed, AtRelay!AbandonedIsTimed
<1>11. R!NoTrafficBeforeReady => AtRelay!NoTrafficBeforeReady
    BY DEF R!NoTrafficBeforeReady, AtRelay!NoTrafficBeforeReady
<1>12. R!EndIsTold => AtRelay!EndIsTold
    BY DEF R!EndIsTold, AtRelay!EndIsTold
<1> QED  BY <1>1, <1>2, <1>3, <1>4, <1>5, <1>6, <1>7, <1>8, <1>9, <1>10, <1>11, <1>12
         DEF R!IInv, AtRelay!IInv

(* R is AtRelay: what the relay does. *)
LEMMA SameNext ==
    /\ AtWork => R!Next /\ AtRelay!Next
    /\ UNCHANGED R!vars => UNCHANGED AtRelay!vars
<1>1. AtWork => R!Next
    BY DEF AtWork, R!Next
<1> USE DEF relayClient, relayRooms, relayByCode, relayBySocket, relaySessions, relayTimers,
            relayGraceTimers, relayIps
<1>2. UNCHANGED R!vars => UNCHANGED AtRelay!vars
    BY DEF R!vars, AtRelay!vars
<1> USE DEF R!Room, AtRelay!Room, R!managerVars, AtRelay!managerVars, R!timerVars,
            AtRelay!timerVars, R!Message, AtRelay!Message, R!Deliver, AtRelay!Deliver, R!Send,
            AtRelay!Send, R!Close, AtRelay!Close, R!Receiving, AtRelay!Receiving, R!Peer,
            AtRelay!Peer, R!ReleaseSocket, AtRelay!ReleaseSocket, R!CleanupRoom,
            AtRelay!CleanupRoom, R!ClosedWithRoom, AtRelay!ClosedWithRoom
<1>3. ASSUME NEW c \in Connection, R!Connect(c)
      PROVE  AtRelay!Connect(c)
    BY <1>3 DEF R!Connect, AtRelay!Connect
<1>4. ASSUME NEW c \in Connection, R!ForwardToPeer(c)
      PROVE  AtRelay!ForwardToPeer(c)
    BY <1>4 DEF R!ForwardToPeer, AtRelay!ForwardToPeer
<1>5. ASSUME NEW c \in Connection, NEW old \in Connection, R!Reconnect(c, old)
      PROVE  AtRelay!Reconnect(c, old)
    BY <1>5 DEF R!Reconnect, AtRelay!Reconnect, R!Opening, AtRelay!Opening, R!Identify,
                AtRelay!Identify, R!ReconnectAccepted, AtRelay!ReconnectAccepted,
                R!ReconnectRefused, AtRelay!ReconnectRefused, R!Seat, AtRelay!Seat, R!TakeSeat,
                AtRelay!TakeSeat, R!ClearGraceTimer, AtRelay!ClearGraceTimer, R!Resume,
                AtRelay!Resume, R!Refuse, AtRelay!Refuse
<1>6. ASSUME NEW c \in Connection, R!SocketClosed(c)
      PROVE  AtRelay!SocketClosed(c)
    BY <1>6 DEF R!SocketClosed, AtRelay!SocketClosed, R!HandleDisconnect,
                AtRelay!HandleDisconnect, R!StartGraceTimer, AtRelay!StartGraceTimer
<1>7. ASSUME NEW c \in Connection, R!GraceTimerFires(c)
      PROVE  AtRelay!GraceTimerFires(c)
    BY <1>7 DEF R!GraceTimerFires, AtRelay!GraceTimerFires, R!TimedRoom, AtRelay!TimedRoom
<1>8. AtWork => AtRelay!Next
    BY <1>3, <1>4, <1>5, <1>6, <1>7 DEF AtWork, AtRelay!Next
<1> QED  BY <1>1, <1>2, <1>8

(* What the two modules say of the relay agrees: a session starts in a     *)
(* state of Relay, what main.ts does in it is what it does there, and what *)
(* Relay takes for granted of its clients the peers keep to.               *)
THEOREM RelayImplemented == Spec => ImplementsRelay
<1>1. Init => ClientInv /\ R!IInv
    BY InitInRelay
<1>2. ClientInv /\ R!IInv /\ [Next]_vars =>
          (ClientInv /\ R!IInv)' /\ [AtRelay!Next]_(AtRelay!vars)
    BY NextInRelay, SameNext, RelayIInv
<1>3. R!IInv => AtRelay!IInv
    BY SameIInv
<1> QED  BY <1>1, <1>2, <1>3, PTL DEF Spec, ImplementsRelay

(* Hence what is proved about Relay holds of every session, however often  *)
(* its peers lose their connections.                                       *)
THEOREM RelayKept == Spec => []AtRelay!IInv
<1>1. Init => ClientInv /\ R!IInv
    BY InitInRelay
<1>2. ClientInv /\ R!IInv /\ [Next]_vars => (ClientInv /\ R!IInv)'
    BY NextInRelay, SameNext, RelayIInv
<1>3. R!IInv => AtRelay!IInv
    BY SameIInv
<1> QED  BY <1>1, <1>2, <1>3, PTL DEF Spec

=============================================================================
