----------------------------- MODULE WizardProofs -----------------------------
(***************************************************************************)
(* Proofs about Wizard, for any number of chunks of input and output: who  *)
(* may type, what is encrypted, and what is left when a session is over.   *)
(***************************************************************************)
EXTENDS Wizard, SequenceTheorems, TLAPS

(***************************************************************************)
(* What the proofs say of the order of the messages in a queue.            *)
(***************************************************************************)

(* SESSION_READY is sent to the host once. *)
ReadyOnce(q) ==
    \A i, j \in 1 .. Len(q) : i < j /\ q[i] = "SESSION_READY" => q[j] # "SESSION_READY"

(* To the guest it is sent before anything else. *)
ReadyFirst(q) == \A i \in 2 .. Len(q) : q[i] # "SESSION_READY"

(* What a peer may still be told once its session is over. *)
LastWord == {"SESSION_TERMINATE", "ERROR"}

(* The host is told nothing else. *)
OnlyLastWords(q) == \A i \in 1 .. Len(q) : q[i] \in LastWord

(* The end of the session is followed by nothing else. *)
LastWords(q) ==
    \A i, j \in 1 .. Len(q) : i < j /\ q[i] = "SESSION_TERMINATE" => q[j] \in LastWord

(* What the host sends encrypted. *)
Encrypted == Role \cup {"OUTPUT"}

(* What is encrypted comes after the key. *)
KeyFirst(q) ==
    \A j \in 1 .. Len(q) :
        q[j] \in Encrypted => \E i \in 1 .. Len(q) : i < j /\ q[i] = "KEY_EXCHANGE"

(***************************************************************************)
(* The inductive invariant.                                                *)
(***************************************************************************)

(* The host has not been let in by the relay yet, or never will be. *)
Outside == hostPhase \in {"start", "connecting", "registering", "failed"}

(* The host has read SESSION_READY. *)
Started == hostPhase \in {"ready", "choosing"} \/ role # "none"

(* The host's way into the session: one SESSION_READY, which the relay     *)
(* sends when the room becomes active, one menu of modes and one shell.    *)
HostInv ==
    /\ hostPhase \in {"start", "connecting"} =>
           hostSocket = "new" /\ toHost = <<>> /\ room = "none"
    /\ hostSocket = "closed" => toHost = <<>>
    /\ Outside => /\ role = "none"
                  /\ ~Contains(toHost, "SESSION_READY")
                  /\ ~Contains(toGuest, "OUTPUT")
    /\ hostPhase \in {"ready", "choosing"} => role = "none"
    /\ child # "none" => role # "none"
    /\ role # "none" \/ hostPhase = "choosing" => hostCipher
    /\ Started => ~Contains(toHost, "SESSION_READY")
    /\ Started \/ Contains(toHost, "SESSION_READY") =>
           room \in {"active", "ended"} /\ guestSocket # "new"
    /\ ReadyOnce(toHost)

(* The guest can say nothing to a host that is told of the end, so the     *)
(* menu that died with the session stays dead.                             *)
EndInv ==
    /\ hostEnd = "over" =>
           /\ child # "running"
           /\ hostPhase = "choosing" => ~hostTerminal.flowing
           /\ hostPhase # "asking" => ~hostTerminal.raw
           /\ OnlyLastWords(toHost)
    /\ hostSocket # "closed" /\ (hostEnd = "over" \/ Contains(toHost, "SESSION_TERMINATE")) =>
           guestSocket \in {"closing", "closed"} /\ room \in {"active", "ended"}
    /\ LastWords(toHost)

(* The guest acts on the mode that the host has chosen. *)
RoleInv ==
    /\ \A r \in Role : Contains(toGuest, r) => role = r
    /\ guestTerminal.listening \/ Contains(toHost, "INPUT") => role \in {"both", "peer"}

(* A guest that waits has been sent nothing; SESSION_READY is the first    *)
(* thing that it is sent when it is let in.                                *)
GuestInv ==
    /\ guestSocket = "new" \/ room = "pending" => toGuest = <<>> /\ ~guestEnd
    /\ guestSocket = "new" => ~guestTerminal.raw
    /\ room = "pending" => guestSocket = "open"
    /\ ReadyFirst(toGuest)
    /\ Contains(toGuest, "SESSION_READY") => ~guestEnd
    /\ guestEnd => ~guestTerminal.raw

(* The host is told, or about to be, that one of its messages was refused. *)
Excused == hostEnd # "no" \/ Contains(toHost, "ERROR")

(* The host can send nothing to the guest any more. *)
Cut == hostSocket \in {"closing", "closed"} \/ guestSocket \in {"closing", "closed"} \/ ~Up

(* Where the two KEY_EXCHANGEs and the keys they need may be. *)
CipherInv ==
    /\ Started \/ Contains(toHost, "SESSION_READY") =>
           guestReady \/ Contains(toGuest, "SESSION_READY") \/ guestSocket = "closed"
    /\ Contains(toGuest, "KEY_EXCHANGE") => guestReady \/ Contains(toGuest, "SESSION_READY")
    /\ Started => guestCipher \/ Excused \/ Contains(toGuest, "KEY_EXCHANGE") \/ Cut
    /\ guestCipher \/ Excused \/ KeyFirst(toGuest)

(* The inductive invariant. *)
IInv == TypeOK /\ HostInv /\ EndInv /\ RoleInv /\ GuestInv /\ CipherInv

(***************************************************************************)
(* Queues.                                                                 *)
(***************************************************************************)

(* r is q with some messages of S added. *)
Grown(r, q, S) == \E messages \in Seq(S) : r = q \o messages

(* Where a message of a longer queue comes from. *)
LEMMA GrownPlaces ==
    ASSUME NEW q \in Seq(Message), NEW S, S \subseteq Message, NEW r, Grown(r, q, S)
    PROVE  /\ r \in Seq(Message) /\ Len(r) >= Len(q)
           /\ \A i \in 1 .. Len(q) : r[i] = q[i]
           /\ \A i \in 1 .. Len(r) : i > Len(q) => r[i] \in S
<1>1. PICK ms \in Seq(S) : r = q \o ms
  BY DEF Grown
<1>2. ms \in Seq(Message)
  BY <1>1
<1>3. /\ r \in Seq(Message) /\ Len(r) = Len(q) + Len(ms) /\ Len(q) \in Nat /\ Len(ms) \in Nat
      /\ \A i \in 1 .. Len(q) : r[i] = q[i]
      /\ \A i \in 1 .. Len(r) : i > Len(q) => r[i] = ms[i - Len(q)]
  BY <1>1, <1>2
<1>4. \A i \in 1 .. Len(r) : i > Len(q) => i - Len(q) \in 1 .. Len(ms)
  BY <1>3
<1>5. \A k \in 1 .. Len(ms) : ms[k] \in S
  BY <1>1
<1> QED
  BY <1>3, <1>4, <1>5

(* What a queue keeps when messages are added, for each of the predicates. *)
Longer(q, r, S) ==
    /\ r \in Seq(Message)
    /\ \A m : Contains(q, m) => Contains(r, m)
    /\ \A m : Contains(r, m) => Contains(q, m) \/ m \in S
    /\ "SESSION_READY" \notin S /\ ReadyOnce(q) => ReadyOnce(r)
    /\ "SESSION_READY" \notin S /\ ReadyFirst(q) => ReadyFirst(r)
    /\ LastWords(q) /\ (Contains(q, "SESSION_TERMINATE") => S \subseteq LastWord)
           /\ ("SESSION_TERMINATE" \in S => S \subseteq LastWord) => LastWords(r)
    /\ OnlyLastWords(q) /\ S \subseteq LastWord => OnlyLastWords(r)
    /\ KeyFirst(q) /\ (Contains(q, "KEY_EXCHANGE") \/ S \cap Encrypted = {}) => KeyFirst(r)

(* It does. *)
LEMMA GrownFacts ==
    ASSUME NEW q \in Seq(Message), NEW S, S \subseteq Message, NEW r, Grown(r, q, S)
    PROVE  Longer(q, r, S)
<1> DEFINE n == Len(q)
           k == Len(r)
<1>1. /\ r \in Seq(Message) /\ n \in Nat /\ k \in Nat /\ k >= n
      /\ \A i \in 1 .. n : r[i] = q[i]
      /\ \A i \in 1 .. k : i > n => r[i] \in S
  <2>1. r \in Seq(Message)
    BY GrownPlaces
  <2>2. n \in Nat /\ k \in Nat
    BY <2>1
  <2>3. Len(r) >= Len(q) /\ \A i \in 1 .. Len(q) : r[i] = q[i]
    BY GrownPlaces
  <2>4. \A i \in 1 .. Len(r) : i > Len(q) => r[i] \in S
    BY GrownPlaces
  <2> QED
    BY <2>1, <2>2, <2>3, <2>4
<1>2. \A i : i \in 1 .. n => i \in 1 .. k
  BY <1>1
<1>3. \A i \in 1 .. k : i \in 1 .. n \/ r[i] \in S
  BY <1>1
<1>4. \A i, j \in 1 .. k : i < j /\ j \in 1 .. n => i \in 1 .. n
  BY <1>1
<1>5. \A i, j \in 1 .. k : i \in 1 .. n /\ j \notin 1 .. n => i < j
  BY <1>1
<1>6. \A m : Contains(q, m) => Contains(r, m)
  BY <1>1, <1>2 DEF Contains
<1>7. \A m : Contains(r, m) => Contains(q, m) \/ m \in S
  BY <1>1, <1>3 DEF Contains
<1>8. "SESSION_READY" \notin S /\ ReadyOnce(q) => ReadyOnce(r)
  BY <1>1, <1>3 DEF ReadyOnce
<1>9. "SESSION_READY" \notin S /\ ReadyFirst(q) => ReadyFirst(r)
  BY <1>1, <1>3 DEF ReadyFirst
<1>10. ASSUME LastWords(q), Contains(q, "SESSION_TERMINATE") => S \subseteq LastWord,
              "SESSION_TERMINATE" \in S => S \subseteq LastWord
       PROVE  LastWords(r)
  <2> SUFFICES ASSUME NEW i \in 1 .. k, NEW j \in 1 .. k, i < j, r[i] = "SESSION_TERMINATE"
               PROVE  r[j] \in LastWord
    BY DEF LastWords
  <2>1. CASE j \in 1 .. n
    BY <1>1, <1>4, <1>10, <2>1 DEF LastWords
  <2>2. CASE j \notin 1 .. n
    <3>1. r[j] \in S
      BY <1>3, <2>2
    <3>2. S \subseteq LastWord
      BY <1>1, <1>3, <1>10 DEF Contains
    <3> QED
      BY <3>1, <3>2
  <2> QED
    BY <2>1, <2>2
<1>11. OnlyLastWords(q) /\ S \subseteq LastWord => OnlyLastWords(r)
  BY <1>1, <1>3 DEF OnlyLastWords
<1>12. ASSUME KeyFirst(q), Contains(q, "KEY_EXCHANGE") \/ S \cap Encrypted = {}
       PROVE  KeyFirst(r)
  <2> SUFFICES ASSUME NEW j \in 1 .. k, r[j] \in Encrypted
               PROVE  \E i \in 1 .. k : i < j /\ r[i] = "KEY_EXCHANGE"
    BY DEF KeyFirst
  <2>1. CASE j \in 1 .. n
    <3>1. PICK i \in 1 .. n : i < j /\ q[i] = "KEY_EXCHANGE"
      BY <1>1, <1>12, <2>1 DEF KeyFirst
    <3> QED
      BY <1>1, <1>2, <3>1
  <2>2. CASE j \notin 1 .. n
    <3>1. PICK i \in 1 .. n : q[i] = "KEY_EXCHANGE"
      BY <1>3, <1>12, <2>2 DEF Contains
    <3> QED
      BY <1>1, <1>2, <1>5, <2>2, <3>1
  <2> QED
    BY <2>1, <2>2
<1> QED
  BY <1>1, <1>6, <1>7, <1>8, <1>9, <1>10, <1>11, <1>12 DEF Longer

(* What it keeps when its first message is read. *)
Shorter(q, t) ==
    /\ t \in Seq(Message)
    /\ Contains(q, Head(q))
    /\ \A m : Contains(t, m) => Contains(q, m)
    /\ \A m : Contains(q, m) => m = Head(q) \/ Contains(t, m)
    /\ ReadyOnce(q) => ReadyOnce(t)
    /\ ReadyOnce(q) /\ Head(q) = "SESSION_READY" => ~Contains(t, "SESSION_READY")
    /\ ReadyFirst(q) => ReadyFirst(t) /\ ~Contains(t, "SESSION_READY")
    /\ LastWords(q) => LastWords(t)
    /\ LastWords(q) /\ Head(q) = "SESSION_TERMINATE" => OnlyLastWords(t)
    /\ OnlyLastWords(q) => OnlyLastWords(t) /\ Head(q) \in LastWord
    /\ KeyFirst(q) => Head(q) \notin Encrypted
    /\ KeyFirst(q) /\ Head(q) # "KEY_EXCHANGE" => KeyFirst(t)

(* It does. *)
LEMMA TailFacts ==
    ASSUME NEW q \in Seq(Message), q # <<>>
    PROVE  Shorter(q, Tail(q))
<1> DEFINE n == Len(q)
           t == Tail(q)
<1>1. /\ n \in Nat /\ n >= 1 /\ t \in Seq(Message) /\ Len(t) = n - 1 /\ Head(q) = q[1]
      /\ \A i \in 1 .. n - 1 : t[i] = q[i + 1]
  OBVIOUS
<1> HIDE DEF t, n
<1>2. /\ \A i \in 1 .. n - 1 : i + 1 \in 1 .. n /\ i + 1 \in 2 .. n
      /\ \A i \in 1 .. n : i = 1 \/ (i - 1 \in 1 .. n - 1 /\ q[i] = t[i - 1])
      /\ 1 \in 1 .. n
      /\ \A i, j \in 1 .. n - 1 : i < j => i + 1 < j + 1
      /\ \A i \in 1 .. n - 1 : 1 < i + 1
  BY <1>1
<1>3. Contains(q, Head(q))
  BY <1>1, <1>2 DEF Contains, n
<1>4. \A m : Contains(t, m) => \E i \in 1 .. n - 1 : q[i + 1] = m
  BY <1>1 DEF Contains
<1>5. \A m : Contains(t, m) => Contains(q, m)
  BY <1>2, <1>4 DEF Contains, n
<1>6. \A m : Contains(q, m) => m = Head(q) \/ Contains(t, m)
  BY <1>1, <1>2 DEF Contains, n
<1>7. ReadyOnce(q) => ReadyOnce(t)
  BY <1>1, <1>2 DEF ReadyOnce, n
<1>8. ReadyOnce(q) /\ Head(q) = "SESSION_READY" => ~Contains(t, "SESSION_READY")
  BY <1>1, <1>2, <1>4 DEF ReadyOnce, n
<1>9. ReadyFirst(q) => ~Contains(t, "SESSION_READY")
  BY <1>2, <1>4 DEF ReadyFirst, n
<1>10. ReadyFirst(q) => ReadyFirst(t)
  <2>1. \A i \in 2 .. Len(t) : i \in 1 .. Len(t)
    BY <1>1
  <2> QED
    BY <1>9, <2>1 DEF ReadyFirst, Contains
<1>11. LastWords(q) => LastWords(t)
  BY <1>1, <1>2 DEF LastWords, n
<1>12. LastWords(q) /\ Head(q) = "SESSION_TERMINATE" => OnlyLastWords(t)
  BY <1>1, <1>2 DEF LastWords, OnlyLastWords, n
<1>13. OnlyLastWords(q) => OnlyLastWords(t) /\ Head(q) \in LastWord
  BY <1>1, <1>2 DEF OnlyLastWords, n
<1>14. KeyFirst(q) => Head(q) \notin Encrypted
  <2>1. \A i \in 1 .. n : ~(i < 1)
    BY <1>1
  <2> QED
    BY <1>1, <1>2, <2>1 DEF KeyFirst, n
<1>15. ASSUME KeyFirst(q), Head(q) # "KEY_EXCHANGE" PROVE KeyFirst(t)
  <2> SUFFICES ASSUME NEW j \in 1 .. n - 1, t[j] \in Encrypted
               PROVE  \E i \in 1 .. n - 1 : i < j /\ t[i] = "KEY_EXCHANGE"
    BY <1>1 DEF KeyFirst
  <2>1. PICK i \in 1 .. n : i < j + 1 /\ q[i] = "KEY_EXCHANGE"
    BY <1>1, <1>2, <1>15 DEF KeyFirst, n
  <2>2. i - 1 \in 1 .. n - 1 /\ t[i - 1] = "KEY_EXCHANGE"
    BY <1>1, <1>2, <1>15, <2>1
  <2>3. i - 1 < j
    BY <1>1, <2>1
  <2> QED
    BY <2>2, <2>3
<1> QED
  BY <1>1, <1>3, <1>5, <1>6, <1>7, <1>8, <1>9, <1>10, <1>11, <1>12, <1>13, <1>14, <1>15
  DEF t, Shorter

(* Queues of one message, and none. *)
LEMMA ShortQueues ==
    ASSUME NEW m \in Message
    PROVE  /\ <<>> \in Seq(Message) /\ <<m>> \in Seq(Message)
           /\ \A x : ~Contains(<<>>, x)
           /\ \A x : Contains(<<m>>, x) <=> x = m
           /\ ReadyOnce(<<>>) /\ ReadyOnce(<<m>>) /\ ReadyFirst(<<>>) /\ ReadyFirst(<<m>>)
           /\ LastWords(<<>>) /\ LastWords(<<m>>) /\ OnlyLastWords(<<>>) /\ KeyFirst(<<>>)
<1>1. Len(<<>>) = 0 /\ Len(<<m>>) = 1 /\ <<m>>[1] = m
  OBVIOUS
<1>2. 1 .. 0 = {} /\ 1 .. 1 = {1} /\ 2 .. 0 = {} /\ 2 .. 1 = {}
  OBVIOUS
<1> QED
  BY <1>1, <1>2
  DEF Contains, ReadyOnce, ReadyFirst, LastWords, OnlyLastWords, KeyFirst

(* SESSION_READY comes after everything else, if it is new. *)
LEMMA ReadyAdded ==
    ASSUME NEW q \in Seq(Message), ~Contains(q, "SESSION_READY")
    PROVE  ReadyOnce(q \o <<"SESSION_READY">>)
<1> DEFINE r == q \o <<"SESSION_READY">>
<1>1. Len(q) \in Nat /\ Len(r) = Len(q) + 1 /\ \A i \in 1 .. Len(q) : r[i] = q[i]
  BY DEF Message
<1>2. \A i, j \in 1 .. Len(r) : i < j => i \in 1 .. Len(q)
  BY <1>1
<1> HIDE DEF r
<1>3. \A i, j \in 1 .. Len(r) : i < j => r[i] # "SESSION_READY"
  BY <1>1, <1>2 DEF Contains
<1>4. ReadyOnce(r)
  BY <1>3 DEF ReadyOnce
<1> QED
  BY <1>4 DEF r


(* Nothing is added, or what is queued. *)
LEMMA QueuedFacts ==
    ASSUME NEW q \in Seq(Message), NEW socket, NEW S, NEW messages \in Seq(S)
    PROVE  /\ Grown(Queued(q, socket, messages), q, S)
           /\ socket = "open" /\ Up => Queued(q, socket, messages) = q \o messages
           /\ ~(socket = "open" /\ Up) => Queued(q, socket, messages) = q
<1>1. <<>> \in Seq(S) /\ q \o <<>> = q
  OBVIOUS
<1> QED
  BY <1>1 DEF Queued, Grown

(* A message that is dropped leaves the others. *)
LEMMA Removed ==
    ASSUME NEW S, NEW messages \in Seq(S), NEW i \in 1 .. Len(messages)
    PROVE  RemoveAt(messages, i) \in Seq(S)
<1>1. Len(messages) \in Nat
  OBVIOUS
<1>2. SubSeq(messages, 1, i - 1) \in Seq(S) /\ SubSeq(messages, i + 1, Len(messages)) \in Seq(S)
  <2>1. \A k \in 1 .. i - 1 : messages[k] \in S
    BY <1>1
  <2>2. \A k \in i + 1 .. Len(messages) : messages[k] \in S
    BY <1>1
  <2> QED
    BY <1>1, <2>1, <2>2, SubSeqProperties
<1> QED
  BY <1>2 DEF RemoveAt

(* What forwarding does to the queues: the host's message reaches the      *)
(* guest, or the host is told that it did not.                             *)
LEMMA HostForwardsFacts ==
    ASSUME TypeOK, NEW q \in Seq(Message), NEW S, S \subseteq Message, NEW messages \in Seq(S),
           HostForwards(q, messages)
    PROVE  /\ Longer(q, toHost', {"ERROR"}) /\ Longer(toGuest, toGuest', S)
           /\ hostSocket # "open" => toHost' = q
           /\ ~(hostSocket = "open" /\ guestSocket = "open" /\ room = "active" /\ Up) =>
                  toGuest' = toGuest
           /\ hostSocket = "open" /\ guestSocket = "open" /\ Up =>
                  Contains(toHost', "ERROR") \/ toGuest' = toGuest \o messages
<1> USE DEF TypeOK
<1>1. <<"ERROR">> \in Seq({"ERROR"}) /\ {"ERROR"} \subseteq Message
  BY DEF Message
<1>2. Grown(q, q, {"ERROR"}) /\ Grown(toGuest, toGuest, S)
  <2>1. <<>> \in Seq({"ERROR"}) /\ <<>> \in Seq(S) /\ q \o <<>> = q /\ toGuest \o <<>> = toGuest
    OBVIOUS
  <2> QED
    BY <2>1 DEF Grown
<1>3. /\ Grown(toHost', q, {"ERROR"}) /\ Grown(toGuest', toGuest, S)
      /\ hostSocket # "open" => toHost' = q
      /\ ~(hostSocket = "open" /\ guestSocket = "open" /\ room = "active" /\ Up) =>
             toGuest' = toGuest
  <2>1. \A m \in Seq(S) : /\ Grown(Queued(toGuest, guestSocket, m), toGuest, S)
                          /\ ~(guestSocket = "open" /\ Up) =>
                                 Queued(toGuest, guestSocket, m) = toGuest
    BY QueuedFacts
  <2>2. Grown(Queued(q, hostSocket, <<"ERROR">>), q, {"ERROR"})
    BY <1>1, QueuedFacts
  <2>3. \A i \in 1 .. Len(messages) : RemoveAt(messages, i) \in Seq(S)
    BY Removed
  <2>4. CASE /\ hostSocket = "open" => room = "active"
             /\ toHost' = q
             /\ toGuest' = IF hostSocket = "open" THEN Queued(toGuest, guestSocket, messages)
                                                ELSE toGuest
    BY <1>2, <2>1, <2>4
  <2>5. CASE /\ hostSocket = "open"
             /\ toHost' = Queued(q, hostSocket, <<"ERROR">>)
             /\ \E i \in 1 .. Len(messages) :
                    toGuest' = IF room = "active"
                             THEN Queued(toGuest, guestSocket, RemoveAt(messages, i)) ELSE toGuest
    BY <1>2, <2>1, <2>2, <2>3, <2>5
  <2> QED
    BY <2>4, <2>5 DEF HostForwards
<1>4. ASSUME hostSocket = "open", guestSocket = "open", Up
      PROVE  Contains(toHost', "ERROR") \/ toGuest' = toGuest \o messages
  <2>1. toGuest' = Queued(toGuest, guestSocket, messages) \/ toHost' = q \o <<"ERROR">>
    BY <1>1, <1>4, QueuedFacts DEF HostForwards
  <2>2. Contains(q \o <<"ERROR">>, "ERROR")
    <3>1. Len(q) \in Nat /\ Len(q \o <<"ERROR">>) = Len(q) + 1
          /\ (q \o <<"ERROR">>)[Len(q) + 1] = "ERROR"
      BY DEF Message
    <3> QED
      BY <3>1 DEF Contains
  <2> QED
    BY <1>4, <2>1, <2>2, QueuedFacts
<1> QED
  BY <1>1, <1>3, <1>4, GrownFacts

(* The same for the guest. *)
LEMMA GuestForwardsFacts ==
    ASSUME TypeOK, NEW q \in Seq(Message), NEW S, S \subseteq Message, NEW messages \in Seq(S),
           GuestForwards(q, messages)
    PROVE  /\ Longer(q, toGuest', {"ERROR"}) /\ Longer(toHost, toHost', S)
           /\ guestSocket # "open" => toGuest' = q
           /\ ~(hostSocket = "open" /\ guestSocket = "open" /\ room = "active" /\ Up) =>
                  toHost' = toHost
<1> USE DEF TypeOK
<1>1. <<"ERROR">> \in Seq({"ERROR"}) /\ {"ERROR"} \subseteq Message
  BY DEF Message
<1>2. Grown(q, q, {"ERROR"}) /\ Grown(toHost, toHost, S)
  <2>1. <<>> \in Seq({"ERROR"}) /\ <<>> \in Seq(S) /\ q \o <<>> = q /\ toHost \o <<>> = toHost
    OBVIOUS
  <2> QED
    BY <2>1 DEF Grown
<1>3. /\ Grown(toGuest', q, {"ERROR"}) /\ Grown(toHost', toHost, S)
      /\ guestSocket # "open" => toGuest' = q
      /\ ~(hostSocket = "open" /\ guestSocket = "open" /\ room = "active" /\ Up) =>
             toHost' = toHost
  <2>1. \A m \in Seq(S) : /\ Grown(Queued(toHost, hostSocket, m), toHost, S)
                          /\ ~(hostSocket = "open" /\ Up) => Queued(toHost, hostSocket, m) = toHost
    BY QueuedFacts
  <2>2. Grown(Queued(q, guestSocket, <<"ERROR">>), q, {"ERROR"})
    BY <1>1, QueuedFacts
  <2>3. \A i \in 1 .. Len(messages) : RemoveAt(messages, i) \in Seq(S)
    BY Removed
  <2>4. CASE /\ guestSocket = "open" => room = "active"
             /\ toGuest' = q
             /\ toHost' = IF guestSocket = "open" THEN Queued(toHost, hostSocket, messages)
                                                ELSE toHost
    BY <1>2, <2>1, <2>4
  <2>5. CASE /\ guestSocket = "open"
             /\ toGuest' = Queued(q, guestSocket, <<"ERROR">>)
             /\ \E i \in 1 .. Len(messages) :
                    toHost' = IF room = "active"
                             THEN Queued(toHost, hostSocket, RemoveAt(messages, i)) ELSE toHost
    BY <1>2, <2>1, <2>2, <2>3, <2>5
  <2> QED
    BY <2>4, <2>5 DEF GuestForwards
<1> QED
  BY <1>1, <1>3, GrownFacts

(* What the relay adds by itself. *)
LEMMA AddsFacts ==
    ASSUME NEW q \in Seq(Message), NEW m \in Message, NEW socket
    PROVE  /\ Longer(q, Queued(q, socket, <<m>>), {m})
           /\ ~(socket = "open" /\ Up) => Queued(q, socket, <<m>>) = q
<1>1. <<m>> \in Seq({m}) /\ {m} \subseteq Message
  OBVIOUS
<1> QED
  BY <1>1, QueuedFacts, GrownFacts


(* Terminals. *)
LEMMA TerminalFacts ==
    ASSUME NEW t \in Terminal
    PROVE  /\ Idle \in Terminal
           /\ \A raw, flowing \in BOOLEAN :
                  LET u == [t EXCEPT !.raw = raw, !.flowing = flowing]
                  IN  /\ u \in Terminal
                      /\ u.raw = raw /\ u.flowing = flowing /\ u.listening = t.listening
           /\ LET u == [t EXCEPT !.listening = TRUE]
              IN  /\ u \in Terminal
                  /\ u.raw = t.raw /\ u.flowing = t.flowing /\ u.listening = TRUE
BY DEF Terminal, Idle

(* The modes, from the two sides. *)
LEMMA Roles ==
    /\ "none" \notin Role
    /\ \A r \in Role : guestRole(r) # "peer" <=> r \in {"both", "peer"}
BY DEF Role, guestRole

(* Before the host is in the session nothing is encrypted.                 *)
LEMMA OutsideKeyFirst == ASSUME HostInv, RoleInv, Outside PROVE KeyFirst(toGuest)
<1>1. \A m \in Encrypted : ~Contains(toGuest, m)
  BY Roles DEF HostInv, RoleInv, Encrypted
<1> QED
  BY <1>1 DEF KeyFirst, Contains

(* A handler that only reads. *)
LEMMA ReadsStep ==
    ASSUME IInv,
           \/ HostRegistered \/ RegistrationRefused \/ AccessRequest \/ HostKeyExchange
           \/ HostInput \/ HostTerminate \/ HostError
           \/ GuestKeyExchange \/ (\E r \in Role : GuestRoleAssigned(r)) \/ GuestShows \/ GuestEnds
    PROVE  IInv'
<1> USE DEF IInv
<1>1. CASE HostRegistered
  <2>1. Shorter(toHost, toHost') /\ toHost # <<>> /\ hostSocket \in {"open", "closing"}
        /\ Head(toHost) = "HOST_REGISTERED" /\ toGuest' = toGuest
    BY <1>1, TailFacts DEF TypeOK, HostRegistered, HostReads
  <2>2. TypeOK'
    BY <1>1, <2>1 DEF TypeOK, HostRegistered, hostVars, guestVars, Shorter, Phase, Role
  <2>3. (HostInv /\ EndInv /\ RoleInv)'
    BY <1>1, <2>1
       DEF TypeOK, HostInv, EndInv, RoleInv, Outside, Started, HostRegistered, hostVars,
           guestVars, Shorter, LastWord, Role, Encrypted
  <2>4. (GuestInv /\ CipherInv)'
    BY <1>1, <2>1
       DEF TypeOK, GuestInv, CipherInv, HostInv, RoleInv, Outside, Started, Excused, Cut, Up,
           HostRegistered, hostVars, guestVars, Shorter, LastWord, Role, Encrypted
  <2> QED
    BY <2>2, <2>3, <2>4
<1>2. CASE RegistrationRefused
  <2>1. Shorter(toHost, toHost') /\ toHost # <<>> /\ hostSocket \in {"open", "closing"}
        /\ Head(toHost) = "ERROR" /\ hostPhase = "registering" /\ toGuest' = toGuest
    BY <1>2, TailFacts DEF TypeOK, RegistrationRefused, HostReads
  <2>2. TypeOK'
    BY <1>2, <2>1 DEF TypeOK, RegistrationRefused, hostVars, guestVars, Shorter, Phase, Role
  <2>3. (HostInv /\ EndInv /\ RoleInv)'
    BY <1>2, <2>1, OutsideKeyFirst
       DEF TypeOK, HostInv, EndInv, RoleInv, Outside, Started, RegistrationRefused, hostVars,
           guestVars, Shorter, LastWord, Role, Encrypted
  <2>4. (GuestInv /\ CipherInv)'
    BY <1>2, <2>1, OutsideKeyFirst
       DEF TypeOK, GuestInv, CipherInv, HostInv, RoleInv, Outside, Started, Excused, Cut, Up,
           RegistrationRefused, hostVars, guestVars, Shorter, LastWord, Role, Encrypted
  <2> QED
    BY <2>2, <2>3, <2>4
<1>3. CASE AccessRequest
  <2>1. Shorter(toHost, toHost') /\ toHost # <<>> /\ hostSocket \in {"open", "closing"}
        /\ Head(toHost) = "ACCESS_REQUEST" /\ toGuest' = toGuest
    BY <1>3, TailFacts DEF TypeOK, AccessRequest, HostReads
  <2>2. TypeOK'
    BY <1>3, <2>1 DEF TypeOK, AccessRequest, hostVars, guestVars, Shorter, Phase, Role
  <2>3. (HostInv /\ EndInv /\ RoleInv)'
    BY <1>3, <2>1
       DEF TypeOK, HostInv, EndInv, RoleInv, Outside, Started, AccessRequest, hostVars, guestVars,
           Shorter, LastWord, Role, Encrypted
  <2>4. (GuestInv /\ CipherInv)'
    BY <1>3, <2>1
       DEF TypeOK, GuestInv, CipherInv, HostInv, RoleInv, Outside, Started, Excused, Cut, Up,
           AccessRequest, hostVars, guestVars, Shorter, LastWord, Role, Encrypted
  <2> QED
    BY <2>2, <2>3, <2>4
<1>4. CASE HostKeyExchange
  <2>1. Shorter(toHost, toHost') /\ toHost # <<>> /\ hostSocket \in {"open", "closing"}
        /\ Head(toHost) = "KEY_EXCHANGE" /\ toGuest' = toGuest
    BY <1>4, TailFacts DEF TypeOK, HostKeyExchange, HostReads
  <2>2. hostTerminal' \in Terminal
    BY <1>4, TerminalFacts DEF TypeOK, HostKeyExchange, MenuOpen
  <2>3. TypeOK'
    BY <1>4, <2>1, <2>2 DEF TypeOK, HostKeyExchange, hostVars, guestVars, Shorter, Phase, Role
  <2>4. (HostInv /\ EndInv /\ RoleInv)'
    BY <1>4, <2>1, <2>2
       DEF TypeOK, HostInv, EndInv, RoleInv, Outside, Started, HostKeyExchange, hostVars,
           guestVars, Shorter, LastWord, Role, Encrypted
  <2>5. (GuestInv /\ CipherInv)'
    BY <1>4, <2>1, <2>2
       DEF TypeOK, GuestInv, CipherInv, HostInv, RoleInv, Outside, Started, Excused, Cut, Up,
           HostKeyExchange, hostVars, guestVars, Shorter, LastWord, Role, Encrypted
  <2> QED
    BY <2>3, <2>4, <2>5
<1>5. CASE HostInput
  <2>1. Shorter(toHost, toHost') /\ toHost # <<>> /\ hostSocket \in {"open", "closing"}
        /\ Head(toHost) \in {"INPUT", "PTY_RESIZE"} /\ toGuest' = toGuest
    BY <1>5, TailFacts DEF TypeOK, HostInput, HostReads
  <2>2. TypeOK'
    BY <1>5, <2>1 DEF TypeOK, HostInput, hostVars, guestVars, Shorter, Phase, Role
  <2>3. (HostInv /\ EndInv /\ RoleInv)'
    BY <1>5, <2>1
       DEF TypeOK, HostInv, EndInv, RoleInv, Outside, Started, HostInput, hostVars, guestVars,
           Shorter, LastWord, Role, Encrypted
  <2>4. (GuestInv /\ CipherInv)'
    BY <1>5, <2>1
       DEF TypeOK, GuestInv, CipherInv, HostInv, RoleInv, Outside, Started, Excused, Cut, Up,
           HostInput, hostVars, guestVars, Shorter, LastWord, Role, Encrypted
  <2> QED
    BY <2>2, <2>3, <2>4
<1>6. CASE HostTerminate
  <2>1. Shorter(toHost, toHost') /\ toHost # <<>> /\ hostSocket \in {"open", "closing"}
        /\ Head(toHost) = "SESSION_TERMINATE" /\ toGuest' = toGuest
    BY <1>6, TailFacts DEF TypeOK, HostTerminate, HostReads
  <2>2. hostTerminal' \in Terminal /\ ~hostTerminal'.raw /\ ~hostTerminal'.flowing
    BY <1>6, TerminalFacts DEF TypeOK, HostTerminate, HostCleanup
  <2>3. TypeOK'
    BY <1>6, <2>1, <2>2
       DEF TypeOK, HostTerminate, HostCleanup, hostVars, guestVars, Shorter, Phase, Role
  <2>4. (HostInv /\ EndInv /\ RoleInv)'
    BY <1>6, <2>1, <2>2
       DEF TypeOK, HostInv, EndInv, RoleInv, Outside, Started, HostTerminate, HostCleanup,
           hostVars, guestVars, Shorter, LastWord, Role, Encrypted
  <2>5. (GuestInv /\ CipherInv)'
    BY <1>6, <2>1, <2>2
       DEF TypeOK, GuestInv, CipherInv, HostInv, RoleInv, Outside, Started, Excused, Cut, Up,
           HostTerminate, HostCleanup, hostVars, guestVars, Shorter, LastWord, Role, Encrypted
  <2> QED
    BY <2>3, <2>4, <2>5
<1>7. CASE HostError
  <2>1. Shorter(toHost, toHost') /\ toHost # <<>> /\ hostSocket \in {"open", "closing"}
        /\ Head(toHost) = "ERROR" /\ toGuest' = toGuest
    BY <1>7, TailFacts DEF TypeOK, HostError, HostReads
  <2>2. hostTerminal' \in Terminal /\ ~hostTerminal'.raw /\ ~hostTerminal'.flowing
    BY <1>7, TerminalFacts DEF TypeOK, HostError, HostCleanup
  <2>3. TypeOK'
    BY <1>7, <2>1, <2>2
       DEF TypeOK, HostError, HostCleanup, hostVars, guestVars, Shorter, Phase, Role
  <2>4. (HostInv /\ EndInv /\ RoleInv)'
    BY <1>7, <2>1, <2>2
       DEF TypeOK, HostInv, EndInv, RoleInv, Outside, Started, HostError, HostCleanup, hostVars,
           guestVars, Shorter, LastWord, Role, Encrypted
  <2>5. (GuestInv /\ CipherInv)'
    BY <1>7, <2>1, <2>2
       DEF TypeOK, GuestInv, CipherInv, HostInv, RoleInv, Outside, Started, Excused, Cut, Up,
           HostError, HostCleanup, hostVars, guestVars, Shorter, LastWord, Role, Encrypted
  <2> QED
    BY <2>3, <2>4, <2>5
<1>8. CASE GuestKeyExchange
  <2>1. Shorter(toGuest, toGuest') /\ toGuest # <<>> /\ guestSocket \in {"open", "closing"}
        /\ Head(toGuest) = "KEY_EXCHANGE" /\ toHost' = toHost
    BY <1>8, TailFacts DEF TypeOK, GuestKeyExchange, GuestReads
  <2>2. TypeOK'
    BY <1>8, <2>1 DEF TypeOK, GuestKeyExchange, hostVars, guestVars, Shorter, Phase, Role
  <2>3. (HostInv /\ EndInv /\ RoleInv)'
    BY <1>8, <2>1
       DEF TypeOK, HostInv, EndInv, RoleInv, Outside, Started, GuestKeyExchange, hostVars,
           guestVars, Shorter, LastWord, Role, Encrypted
  <2>4. (GuestInv /\ CipherInv)'
    BY <1>8, <2>1
       DEF TypeOK, GuestInv, CipherInv, HostInv, RoleInv, Outside, Started, Excused, Cut, Up,
           GuestKeyExchange, hostVars, guestVars, Shorter, LastWord, Role, Encrypted
  <2> QED
    BY <2>2, <2>3, <2>4
<1>9. CASE \E r \in Role : GuestRoleAssigned(r)
  <2>1. PICK r \in Role : GuestRoleAssigned(r)
    BY <1>9
  <2>2. /\ Shorter(toGuest, toGuest') /\ toGuest # <<>> /\ guestSocket \in {"open", "closing"}
        /\ Head(toGuest) = r /\ toHost' = toHost
    BY <2>1, TailFacts DEF TypeOK, GuestRoleAssigned, GuestReads
  <2>3. /\ guestTerminal' \in Terminal /\ guestTerminal'.raw = guestTerminal.raw
        /\ guestTerminal'.listening => guestTerminal.listening \/ r \in {"both", "peer"}
    BY <2>1, TerminalFacts, Roles DEF TypeOK, GuestRoleAssigned
  <2>4. role = r
    BY <2>2 DEF RoleInv, Shorter
  <2>5. TypeOK'
    BY <2>1, <2>2, <2>3 DEF TypeOK, GuestRoleAssigned, hostVars, Shorter
  <2>6. (HostInv /\ EndInv /\ RoleInv)'
    BY <2>1, <2>2, <2>3, <2>4
    DEF TypeOK, HostInv, EndInv, RoleInv, Outside, Started, GuestRoleAssigned, hostVars, Shorter
  <2>7. (GuestInv /\ CipherInv)'
    BY <2>1, <2>2, <2>3
    DEF TypeOK, GuestInv, CipherInv, Started, Excused, Cut, Up, GuestRoleAssigned, hostVars,
        Shorter, Role, Encrypted
  <2> QED
    BY <2>5, <2>6, <2>7
<1>10. CASE GuestShows
  <2>1. Shorter(toGuest, toGuest') /\ toGuest # <<>> /\ guestSocket \in {"open", "closing"}
        /\ Head(toGuest) \in {"OUTPUT", "ACCESS_REJECTED"} /\ toHost' = toHost
    BY <1>10, TailFacts DEF TypeOK, GuestShows, GuestReads
  <2>2. TypeOK'
    BY <1>10, <2>1 DEF TypeOK, GuestShows, hostVars, guestVars, Shorter, Phase, Role
  <2>3. (HostInv /\ EndInv /\ RoleInv)'
    BY <1>10, <2>1
       DEF TypeOK, HostInv, EndInv, RoleInv, Outside, Started, GuestShows, hostVars, guestVars,
           Shorter, LastWord, Role, Encrypted
  <2>4. (GuestInv /\ CipherInv)'
    BY <1>10, <2>1
       DEF TypeOK, GuestInv, CipherInv, HostInv, RoleInv, Outside, Started, Excused, Cut, Up,
           GuestShows, hostVars, guestVars, Shorter, LastWord, Role, Encrypted
  <2> QED
    BY <2>2, <2>3, <2>4
<1>11. CASE GuestEnds
  <2>1. Shorter(toGuest, toGuest') /\ toGuest # <<>> /\ guestSocket \in {"open", "closing"}
        /\ Head(toGuest) \in {"PTY_EXIT", "SESSION_TERMINATE", "ERROR"} /\ toHost' = toHost
    BY <1>11, TailFacts DEF TypeOK, GuestEnds, GuestReads
  <2>2. /\ guestTerminal' \in Terminal /\ ~guestTerminal'.raw
        /\ guestTerminal'.listening = guestTerminal.listening
    BY <1>11, TerminalFacts DEF TypeOK, GuestEnds, GuestCleanup
  <2>3. TypeOK'
    BY <1>11, <2>1, <2>2
       DEF TypeOK, GuestEnds, GuestCleanup, hostVars, guestVars, Shorter, Phase, Role
  <2>4. (HostInv /\ EndInv /\ RoleInv)'
    BY <1>11, <2>1, <2>2
       DEF TypeOK, HostInv, EndInv, RoleInv, Outside, Started, GuestEnds, GuestCleanup, hostVars,
           guestVars, Shorter, LastWord, Role, Encrypted
  <2>5. (GuestInv /\ CipherInv)'
    BY <1>11, <2>1, <2>2
       DEF TypeOK, GuestInv, CipherInv, HostInv, RoleInv, Outside, Started, Excused, Cut, Up,
           GuestEnds, GuestCleanup, hostVars, guestVars, Shorter, LastWord, Role, Encrypted
  <2> QED
    BY <2>3, <2>4, <2>5
<1> QED
  BY <1>1, <1>2, <1>3, <1>4, <1>5, <1>6, <1>7, <1>8, <1>9, <1>10, <1>11


(* The host sends one message. *)
LEMMA HostSends ==
    ASSUME TypeOK, NEW q \in Seq(Message), NEW m \in Message, HostForwards(q, <<m>>)
    PROVE  /\ Longer(q, toHost', {"ERROR"}) /\ Longer(toGuest, toGuest', {m})
           /\ hostSocket # "open" => toHost' = q
           /\ ~(hostSocket = "open" /\ guestSocket = "open" /\ room = "active" /\ Up) =>
                  toGuest' = toGuest
           /\ hostSocket = "open" /\ guestSocket = "open" /\ Up =>
                  Contains(toHost', "ERROR") \/ Contains(toGuest', m)
<1>1. <<m>> \in Seq({m}) /\ {m} \subseteq Message
  OBVIOUS
<1>2. Contains(toGuest \o <<m>>, m)
  <2>1. toGuest \in Seq(Message) /\ <<m>> \in Seq(Message)
    BY DEF TypeOK
  <2>2. Len(toGuest) \in Nat /\ Len(toGuest \o <<m>>) = Len(toGuest) + 1
        /\ (toGuest \o <<m>>)[Len(toGuest) + 1] = m
    BY <2>1
  <2> QED
    BY <2>2 DEF Contains
<1> QED
  BY <1>1, <1>2, HostForwardsFacts

(* The guest sends one. *)
LEMMA GuestSends ==
    ASSUME TypeOK, NEW q \in Seq(Message), NEW m \in Message, GuestForwards(q, <<m>>)
    PROVE  /\ Longer(q, toGuest', {"ERROR"}) /\ Longer(toHost, toHost', {m})
           /\ guestSocket # "open" => toGuest' = q
           /\ ~(hostSocket = "open" /\ guestSocket = "open" /\ room = "active" /\ Up) =>
                  toHost' = toHost
<1>1. <<m>> \in Seq({m}) /\ {m} \subseteq Message
  OBVIOUS
<1> QED
  BY <1>1, GuestForwardsFacts

(* A handler of the host that sends. *)
LEMMA HostSendsStep ==
    ASSUME IInv, \/ HostSessionReady \/ (\E r \in Role : ChooseRole(r))
                 \/ ShellOutput \/ ShellExits \/ HostDetach
    PROVE  IInv'
<1> USE DEF IInv
<1>1. CASE HostSessionReady
  <2>1. /\ Shorter(toHost, Tail(toHost)) /\ Head(toHost) = "SESSION_READY"
        /\ hostSocket \in {"open", "closing"} /\ "KEY_EXCHANGE" \in Message
        /\ Tail(toHost) \in Seq(Message)
    BY <1>1, TailFacts DEF TypeOK, HostSessionReady, HostReads, Message, Shorter
  <2>2. /\ Longer(Tail(toHost), toHost', {"ERROR"}) /\ Longer(toGuest, toGuest', {"KEY_EXCHANGE"})
        /\ ~(hostSocket = "open" /\ guestSocket = "open" /\ room = "active" /\ Up) =>
               toGuest' = toGuest
        /\ hostSocket = "open" /\ guestSocket = "open" /\ Up =>
               Contains(toHost', "ERROR") \/ Contains(toGuest', "KEY_EXCHANGE")
    BY <1>1, <2>1, HostSends DEF HostSessionReady
  <2>3. TypeOK'
    BY <1>1, <2>2 DEF TypeOK, HostSessionReady, guestVars, Longer, Phase
  <2>4. (HostInv /\ EndInv /\ RoleInv)'
    BY <1>1, <2>1, <2>2
    DEF TypeOK, HostInv, EndInv, RoleInv, Outside, Started, HostSessionReady, guestVars, Shorter,
        Longer, LastWord, Role
  <2>5. (GuestInv /\ CipherInv)'
    BY <1>1, <2>1, <2>2
    DEF TypeOK, GuestInv, CipherInv, HostInv, Started, Excused, Cut, Up, HostSessionReady,
        guestVars, Shorter, Longer, Role, Encrypted, Socket
  <2> QED
    BY <2>3, <2>4, <2>5
<1>2. CASE \E r \in Role : ChooseRole(r)
  <2>1. PICK r \in Role : ChooseRole(r)
    BY <1>2
  <2>2. r \in Message /\ r \notin {"ERROR", "SESSION_READY", "KEY_EXCHANGE", "OUTPUT", "none"}
    BY DEF Message, Role
  <2>3. /\ Longer(toHost, toHost', {"ERROR"}) /\ Longer(toGuest, toGuest', {r})
        /\ hostSocket # "open" => toHost' = toHost
        /\ ~(hostSocket = "open" /\ guestSocket = "open" /\ room = "active" /\ Up) =>
               toGuest' = toGuest
    BY <2>1, <2>2, HostSends DEF ChooseRole, TypeOK
  <2>4. hostTerminal' \in Terminal /\ hostEnd # "over"
    BY <2>1 DEF ChooseRole, Terminal, EndInv
  <2>5. TypeOK'
    BY <2>1, <2>3, <2>4 DEF TypeOK, ChooseRole, guestVars, Longer, Phase
  <2>6. (HostInv /\ EndInv /\ RoleInv)'
    BY <2>1, <2>2, <2>3, <2>4, Roles
    DEF TypeOK, HostInv, EndInv, RoleInv, Outside, Started, ChooseRole, guestVars, Longer,
        LastWord
  <2>7. (GuestInv /\ CipherInv)'
    BY <2>1, <2>2, <2>3
    DEF TypeOK, GuestInv, CipherInv, HostInv, Started, Excused, Cut, Up, ChooseRole, guestVars,
        Longer, Socket
  <2> QED
    BY <2>5, <2>6, <2>7
<1>3. CASE ShellOutput
  <2>1. /\ Longer(toHost, toHost', {"ERROR"}) /\ Longer(toGuest, toGuest', {"OUTPUT"})
        /\ hostSocket # "open" => toHost' = toHost
        /\ ~(hostSocket = "open" /\ guestSocket = "open" /\ room = "active" /\ Up) =>
               toGuest' = toGuest
    BY <1>3, HostSends DEF ShellOutput, TypeOK, Message
  <2>2. TypeOK'
    <3>1. outputs' \in 0 .. MaxChunks
      BY <1>3, ChunksAssumption DEF TypeOK, ShellOutput
    <3> QED
      BY <1>3, <2>1, <3>1 DEF TypeOK, ShellOutput, guestVars, Longer, Socket
  <2>3. (HostInv /\ EndInv /\ RoleInv)'
    BY <1>3, <2>1
    DEF TypeOK, HostInv, EndInv, RoleInv, Outside, Started, ShellOutput, guestVars, Longer,
        LastWord, Role
  <2>4. (GuestInv /\ CipherInv)'
    BY <1>3, <2>1
    DEF TypeOK, GuestInv, CipherInv, HostInv, Started, Excused, Cut, Up, ShellOutput, guestVars,
        Longer, Role, Encrypted, Socket
  <2> QED
    BY <2>2, <2>3, <2>4
<1>4. CASE ShellExits
  <2>1. /\ Longer(toHost, toHost', {"ERROR"}) /\ Longer(toGuest, toGuest', {"PTY_EXIT"})
        /\ hostSocket # "open" => toHost' = toHost
        /\ ~(hostSocket = "open" /\ guestSocket = "open" /\ room = "active" /\ Up) =>
               toGuest' = toGuest
    BY <1>4, HostSends DEF ShellExits, TypeOK, Message
  <2>2. TypeOK'
    BY <1>4, <2>1 DEF TypeOK, ShellExits, guestVars, Longer, Socket
  <2>3. (HostInv /\ EndInv /\ RoleInv)'
    BY <1>4, <2>1
    DEF TypeOK, HostInv, EndInv, RoleInv, Outside, Started, ShellExits, guestVars, Longer,
        LastWord, Role
  <2>4. (GuestInv /\ CipherInv)'
    BY <1>4, <2>1
    DEF TypeOK, GuestInv, CipherInv, HostInv, Started, Excused, Cut, Up, ShellExits, guestVars,
        Longer, Role, Encrypted, Socket
  <2> QED
    BY <2>2, <2>3, <2>4
<1>5. CASE HostDetach
  <2>1. /\ Longer(toHost, toHost', {"ERROR"}) /\ Longer(toGuest, toGuest', {"SESSION_TERMINATE"})
        /\ hostSocket # "open" => toHost' = toHost
        /\ ~(hostSocket = "open" /\ guestSocket = "open" /\ room = "active" /\ Up) =>
               toGuest' = toGuest
    BY <1>5, HostSends DEF HostDetach, TypeOK, Message
  <2>2. TypeOK'
    BY <1>5, <2>1 DEF TypeOK, HostDetach, guestVars, Longer, hostVars, Closing, Socket
  <2>3. (HostInv /\ EndInv /\ RoleInv)'
    BY <1>5, <2>1
    DEF TypeOK, HostInv, EndInv, RoleInv, Outside, Started, HostDetach, guestVars, Longer,
        LastWord, Role, hostVars, Closing
  <2>4. (GuestInv /\ CipherInv)'
    BY <1>5, <2>1
    DEF TypeOK, GuestInv, CipherInv, HostInv, Started, Excused, Cut, Up, HostDetach, guestVars,
        Longer, Role, Encrypted, Socket, hostVars, Closing
  <2> QED
    BY <2>2, <2>3, <2>4
<1> QED
  BY <1>1, <1>2, <1>3, <1>4, <1>5

(* A handler of the guest that sends. *)
LEMMA GuestSendsStep ==
    ASSUME IInv, GuestSessionReady \/ GuestTypes \/ GuestDetach
    PROVE  IInv'
<1> USE DEF IInv
<1>1. CASE GuestSessionReady
  <2> DEFINE S == {"KEY_EXCHANGE", "PTY_RESIZE"}
  <2>1. /\ Shorter(toGuest, Tail(toGuest)) /\ Head(toGuest) = "SESSION_READY" /\ toGuest # <<>>
        /\ Tail(toGuest) \in Seq(Message) /\ guestSocket \in {"open", "closing"}
    BY <1>1, TailFacts DEF TypeOK, GuestSessionReady, GuestReads, Shorter
  <2>2. <<"KEY_EXCHANGE", "PTY_RESIZE">> \in Seq(S) /\ S \subseteq Message
    BY DEF Message
  <2>3. /\ Longer(Tail(toGuest), toGuest', {"ERROR"}) /\ Longer(toHost, toHost', S)
        /\ ~(hostSocket = "open" /\ guestSocket = "open" /\ room = "active" /\ Up) =>
               toHost' = toHost
    BY <1>1, <2>1, <2>2, GuestForwardsFacts DEF GuestSessionReady
  <2>4. /\ guestTerminal' \in Terminal /\ guestTerminal'.listening = guestTerminal.listening
    BY <1>1, TerminalFacts DEF TypeOK, GuestSessionReady
  <2>5. TypeOK'
    BY <1>1, <2>3, <2>4 DEF TypeOK, GuestSessionReady, hostVars, Longer
  <2>6. (HostInv /\ EndInv /\ RoleInv)'
    <3>1. ~Contains(toHost', "SESSION_READY") \/ Contains(toHost, "SESSION_READY")
      BY <2>3 DEF Longer
    <3>2. HostInv'
      BY <1>1, <2>1, <2>3, <3>1
      DEF HostInv, Outside, Started, GuestSessionReady, hostVars, Shorter, Longer
    <3>3. EndInv'
      BY <1>1, <2>3 DEF EndInv, GuestSessionReady, hostVars, Longer, LastWord
    <3>4. RoleInv'
      BY <1>1, <2>1, <2>3, <2>4 DEF RoleInv, GuestSessionReady, hostVars, Shorter, Longer, Role
    <3> QED
      BY <3>2, <3>3, <3>4
  <2>7. (GuestInv /\ CipherInv)'
    BY <1>1, <2>1, <2>3
    DEF TypeOK, GuestInv, CipherInv, HostInv, Started, Excused, Cut, Up, GuestSessionReady,
        hostVars, Shorter, Longer, Role, Encrypted
  <2> QED
    BY <2>5, <2>6, <2>7
<1>2. CASE GuestTypes
  <2>1. /\ Longer(toGuest, toGuest', {"ERROR"}) /\ Longer(toHost, toHost', {"INPUT"})
        /\ guestSocket # "open" => toGuest' = toGuest
        /\ ~(hostSocket = "open" /\ guestSocket = "open" /\ room = "active" /\ Up) =>
               toHost' = toHost
    BY <1>2, GuestSends DEF GuestTypes, TypeOK, Message
  <2>2. role \in {"both", "peer"} /\ room # "pending"
    BY <1>2 DEF GuestTypes, GuestListens, RoleInv, HostInv, Started
  <2>3. TypeOK'
    <3>1. inputs' \in 0 .. MaxChunks
      BY <1>2, ChunksAssumption DEF TypeOK, GuestTypes
    <3> QED
      BY <1>2, <2>1, <3>1 DEF TypeOK, GuestTypes, hostVars, Longer, Socket
  <2>4. (HostInv /\ EndInv /\ RoleInv)'
    BY <1>2, <2>1, <2>2
    DEF TypeOK, HostInv, EndInv, RoleInv, Outside, Started, GuestTypes, hostVars, Longer,
        LastWord, Role
  <2>5. (GuestInv /\ CipherInv)'
    BY <1>2, <2>1, <2>2
    DEF TypeOK, GuestInv, CipherInv, HostInv, Started, Excused, Cut, Up, GuestTypes, hostVars,
        Longer, Role, Encrypted, Socket
  <2> QED
    BY <2>3, <2>4, <2>5
<1>3. CASE GuestDetach
  <2>1. /\ Longer(toGuest, toGuest', {"ERROR"}) /\ Longer(toHost, toHost', {"SESSION_TERMINATE"})
        /\ guestSocket # "open" => toGuest' = toGuest
        /\ ~(hostSocket = "open" /\ guestSocket = "open" /\ room = "active" /\ Up) =>
               toHost' = toHost
    BY <1>3, GuestSends DEF GuestDetach, TypeOK, Message
  <2>2. role \in {"both", "peer"} /\ room # "pending"
    BY <1>3 DEF GuestDetach, GuestListens, RoleInv, HostInv, Started
  <2>3. TypeOK'
    BY <1>3, <2>1 DEF TypeOK, GuestDetach, hostVars, Longer, guestVars, Closing, Socket
  <2>4. (HostInv /\ EndInv /\ RoleInv)'
    BY <1>3, <2>1, <2>2
    DEF TypeOK, HostInv, EndInv, RoleInv, Outside, Started, GuestDetach, hostVars, Longer,
        LastWord, Role, guestVars, Closing
  <2>5. (GuestInv /\ CipherInv)'
    BY <1>3, <2>1, <2>2
    DEF TypeOK, GuestInv, CipherInv, HostInv, Started, Excused, Cut, Up, GuestDetach, hostVars,
        Longer, Role, Encrypted, Socket, guestVars, Closing
  <2> QED
    BY <2>3, <2>4, <2>5
<1> QED
  BY <1>1, <1>2, <1>3


(* The relay lets the guest in: SESSION_READY to both, if it still runs.   *)
LEMMA LetIn ==
    ASSUME IInv, room = "pending", hostSocket = "open",
           toHost' = Queued(toHost, hostSocket, <<"SESSION_READY">>),
           toGuest' = Queued(toGuest, guestSocket, <<"SESSION_READY">>)
    PROVE  /\ ~Up => toHost' = toHost /\ toGuest' = toGuest
           /\ Up => /\ Longer(toHost, toHost', {"SESSION_READY"}) /\ ReadyOnce(toHost')
                    /\ toGuest' = <<"SESSION_READY">>
<1>1. toGuest = <<>> /\ guestSocket = "open" /\ toHost \in Seq(Message)
  BY DEF IInv, GuestInv, TypeOK
<1>2. ~Contains(toHost, "SESSION_READY") /\ "SESSION_READY" \in Message
  BY DEF IInv, HostInv, Message
<1>3. ASSUME Up PROVE toHost' = toHost \o <<"SESSION_READY">> /\ toGuest' = <<"SESSION_READY">>
  BY <1>1, <1>3 DEF Queued
<1> QED
  BY <1>1, <1>2, <1>3, AddsFacts, ReadyAdded DEF Queued

(* The host answers a guest, from wherever the answer came. *)
LEMMA AnswerStep ==
    ASSUME IInv, NEW allowed \in BOOLEAN, SendAnswer(allowed),
           hostPhase \in {"deciding", "asking"},
           UNCHANGED <<relay, hostSocket, hostEnd, hostCipher, role, child, outputs, guestVars>>,
           hostTerminal' \in Terminal,
           \/ hostPhase = "deciding" /\ hostTerminal' = hostTerminal
           \/ ~hostTerminal'.raw
    PROVE  IInv'
<1> USE DEF IInv
<1>1. hostPhase' = "answered" /\ UNCHANGED guestVars
  BY DEF SendAnswer
<1>2. CASE /\ hostSocket = "open" /\ room = "pending" /\ room' = "active" /\ UNCHANGED guestSocket
           /\ toHost' = Queued(toHost, hostSocket, <<"SESSION_READY">>)
           /\ toGuest' = Queued(toGuest, guestSocket, <<"SESSION_READY">>)
  <2>1. CASE ~Up
    <3>1. toHost' = toHost /\ toGuest' = toGuest
      BY <1>2, <2>1, LetIn
    <3>2. TypeOK'
      BY <1>1, <1>2, <3>1 DEF TypeOK, guestVars, Phase
    <3>3. (HostInv /\ EndInv /\ RoleInv)'
      BY <1>1, <1>2, <3>1 DEF HostInv, EndInv, RoleInv, Outside, Started, guestVars
    <3>4. (GuestInv /\ CipherInv)'
      BY <1>1, <1>2, <3>1
      DEF GuestInv, CipherInv, HostInv, Started, Excused, Cut, Up, guestVars
    <3> QED
      BY <3>2, <3>3, <3>4
  <2>2. CASE Up
    <3>1. /\ Longer(toHost, toHost', {"SESSION_READY"}) /\ ReadyOnce(toHost')
          /\ toGuest' = <<"SESSION_READY">> /\ toGuest = <<>> /\ guestSocket = "open"
      BY <1>2, <2>2, LetIn DEF GuestInv
    <3>2. /\ toGuest' \in Seq(Message) /\ ReadyFirst(toGuest') /\ KeyFirst(toGuest')
          /\ \A x : Contains(toGuest', x) <=> x = "SESSION_READY"
      <4>1. "SESSION_READY" \in Message /\ "SESSION_READY" \notin Encrypted
        BY DEF Message, Role, Encrypted
      <4>2. toGuest' \in Seq(Message) /\ ReadyFirst(toGuest')
            /\ \A x : Contains(toGuest', x) <=> x = "SESSION_READY"
        BY <3>1, <4>1, ShortQueues
      <4> QED
        BY <4>1, <4>2 DEF KeyFirst, Contains
    <3>3. TypeOK'
      BY <1>1, <1>2, <3>1, <3>2 DEF TypeOK, guestVars, Phase, Longer
    <3>4. ~Started /\ ~Started'
      BY <1>1, <1>2 DEF HostInv, Started
    <3>5. (HostInv /\ EndInv /\ RoleInv)'
      BY <1>1, <1>2, <3>1, <3>2, <3>4
      DEF HostInv, EndInv, RoleInv, Outside, Started, guestVars, Longer, LastWord, Role
    <3>6. (GuestInv /\ CipherInv)'
      BY <1>1, <1>2, <3>1, <3>2, <3>4 DEF GuestInv, CipherInv, Excused, guestVars, Longer
    <3> QED
      BY <3>3, <3>5, <3>6
  <2> QED
    BY <2>1, <2>2
<1>3. CASE /\ hostSocket = "open" /\ room = "pending" /\ room' = "ended" /\ UNCHANGED toHost
           /\ toGuest' = Queued(toGuest, guestSocket, <<"ACCESS_REJECTED">>)
           /\ guestSocket' = Closing(guestSocket)
  <2>1. Longer(toGuest, toGuest', {"ACCESS_REJECTED"})
    BY <1>3, AddsFacts DEF TypeOK, Message
  <2>2. TypeOK'
    BY <1>1, <1>3, <2>1 DEF TypeOK, guestVars, Phase, Longer, Closing, Socket
  <2>3. (HostInv /\ EndInv /\ RoleInv)'
    BY <1>1, <1>3, <2>1
    DEF HostInv, EndInv, RoleInv, Outside, Started, guestVars, Longer, Role, Closing
  <2>4. (GuestInv /\ CipherInv)'
    BY <1>1, <1>3, <2>1
    DEF GuestInv, CipherInv, HostInv, Started, Excused, Cut, Up, guestVars, Longer, Closing,
        Encrypted, Role
  <2> QED
    BY <2>2, <2>3, <2>4
<1>4. CASE /\ toHost' = Queued(toHost, hostSocket, <<"ERROR">>)
           /\ UNCHANGED <<room, toGuest, guestSocket>>
  <2>1. /\ Longer(toHost, toHost', {"ERROR"})
        /\ hostSocket # "open" => toHost' = toHost
    BY <1>4, AddsFacts DEF TypeOK, Message
  <2>2. TypeOK'
    BY <1>1, <1>4, <2>1 DEF TypeOK, guestVars, Phase, Longer
  <2>3. (HostInv /\ EndInv /\ RoleInv)'
    BY <1>1, <1>4, <2>1
    DEF HostInv, EndInv, RoleInv, Outside, Started, guestVars, Longer, LastWord
  <2>4. (GuestInv /\ CipherInv)'
    BY <1>1, <1>4, <2>1
    DEF GuestInv, CipherInv, Started, Excused, Cut, Up, guestVars, Longer
  <2> QED
    BY <2>2, <2>3, <2>4
<1>5. CASE UNCHANGED <<room, toHost, toGuest, guestSocket>>
  <2>1. TypeOK'
    BY <1>1, <1>5 DEF TypeOK, guestVars, Phase
  <2>2. (HostInv /\ EndInv /\ RoleInv)'
    BY <1>1, <1>5 DEF HostInv, EndInv, RoleInv, Outside, Started, guestVars
  <2>3. (GuestInv /\ CipherInv)'
    BY <1>1, <1>5 DEF GuestInv, CipherInv, Started, Excused, Cut, Up, guestVars
  <2> QED
    BY <2>1, <2>2, <2>3
<1> QED
  BY <1>2, <1>3, <1>4, <1>5 DEF SendAnswer

(* The host decides about a guest. *)
LEMMA DecidesStep ==
    ASSUME IInv,
           \/ PolicyAsks \/ \E allowed \in BOOLEAN : PolicyAnswers(allowed) \/ UserAnswers(allowed)
    PROVE  IInv'
<1> USE DEF IInv
<1>1. CASE PolicyAsks
  <2>1. hostTerminal' \in Terminal
    BY <1>1, TerminalFacts DEF TypeOK, PolicyAsks, MenuOpen
  <2>2. TypeOK'
    BY <1>1, <2>1 DEF TypeOK, PolicyAsks, wires, guestVars, Phase
  <2>3. (HostInv /\ EndInv /\ RoleInv)'
    BY <1>1 DEF PolicyAsks, HostInv, EndInv, RoleInv, Outside, Started, wires, guestVars
  <2>4. (GuestInv /\ CipherInv)'
    BY <1>1
    DEF PolicyAsks, GuestInv, CipherInv, Started, Excused, Cut, Up, wires, guestVars
  <2> QED
    BY <2>2, <2>3, <2>4
<1>2. ASSUME NEW allowed \in BOOLEAN, PolicyAnswers(allowed) PROVE IInv'
  BY <1>2, AnswerStep DEF PolicyAnswers, TypeOK
<1>3. ASSUME NEW allowed \in BOOLEAN, UserAnswers(allowed) PROVE IInv'
  <2>1. hostTerminal' \in Terminal /\ ~hostTerminal'.raw
    BY <1>3, TerminalFacts DEF TypeOK, UserAnswers, MenuClosed
  <2> QED
    BY <1>3, <2>1, AnswerStep DEF UserAnswers
<1> QED
  BY <1>1, <1>2, <1>3


(* The host's connection begins. *)
LEMMA HostConnectsStep ==
    ASSUME IInv,
           \/ \E found \in {"external", "embedded", "unknown"} : StartRelay(found)
           \/ \E accepted \in BOOLEAN : HostOpens(accepted)
           \/ HostConnectFails
    PROVE  IInv'
<1> USE DEF IInv
<1>1. ASSUME NEW found \in {"external", "embedded", "unknown"}, StartRelay(found) PROVE IInv'
  <2>1. TypeOK'
    BY <1>1 DEF TypeOK, StartRelay, guestVars, Phase
  <2>2. (HostInv /\ EndInv /\ RoleInv)'
    BY <1>1 DEF StartRelay, HostInv, EndInv, RoleInv, Outside, Started, guestVars
  <2>3. (GuestInv /\ CipherInv)'
    BY <1>1
    DEF StartRelay, GuestInv, CipherInv, HostInv, Outside, Started, Excused, Cut, Up, guestVars
  <2> QED
    BY <2>1, <2>2, <2>3
<1>2. ASSUME NEW accepted \in BOOLEAN, HostOpens(accepted) PROVE IInv'
  <2>1. PICK m \in {"HOST_REGISTERED", "ERROR"} : toHost' = <<m>>
    BY <1>2 DEF HostOpens
  <2>2. /\ toHost' \in Seq(Message) /\ ReadyOnce(toHost') /\ LastWords(toHost')
        /\ \A x : Contains(toHost', x) <=> x = m
    BY <2>1, ShortQueues DEF Message
  <2>3. Outside /\ ~Started /\ hostPhase' = "registering" /\ KeyFirst(toGuest) /\ room = "none"
        /\ hostSocket' \in {"open", "closing"} /\ room' \in {"none", "waiting"} /\ hostEnd # "over"
        /\ toHost = <<>> /\ role = "none"
    BY <1>2, OutsideKeyFirst, Roles DEF HostOpens, HostInv, EndInv, Outside, Started
  <2>4. TypeOK'
    BY <1>2, <2>2 DEF TypeOK, HostOpens, guestVars, Phase, Socket
  <2>5. (HostInv /\ EndInv /\ RoleInv)'
    BY <1>2, <2>2, <2>3
    DEF HostOpens, HostInv, EndInv, RoleInv, Outside, Started, guestVars
  <2>6. (GuestInv /\ CipherInv)'
    BY <1>2, <2>2, <2>3
    DEF HostOpens, GuestInv, CipherInv, Started, Excused, Cut, Up, guestVars
  <2> QED
    BY <2>4, <2>5, <2>6
<1>3. CASE HostConnectFails
  <2>1. TypeOK'
    BY <1>3 DEF TypeOK, HostConnectFails, guestVars, Phase, Socket
  <2>2. (HostInv /\ EndInv /\ RoleInv)'
    BY <1>3 DEF HostConnectFails, HostInv, EndInv, RoleInv, Outside, Started, guestVars
  <2>3. (GuestInv /\ CipherInv)'
    BY <1>3
    DEF HostConnectFails, GuestInv, CipherInv, HostInv, Outside, Started, Excused, Cut, Up,
        guestVars
  <2> QED
    BY <2>1, <2>2, <2>3
<1> QED
  BY <1>1, <1>2, <1>3

(* The host's connection ends. *)
LEMMA HostClosedStep == ASSUME IInv, HostClosed PROVE IInv'
<1> USE DEF IInv
<1>1. /\ toHost' \in Seq(Message) /\ ReadyOnce(toHost') /\ LastWords(toHost')
      /\ OnlyLastWords(toHost') /\ \A x : ~Contains(toHost', x)
  BY ShortQueues DEF HostClosed, Message
<1>2. /\ Longer(toGuest, toGuest', {"SESSION_TERMINATE"})
      /\ guestSocket # "open" \/ room \notin {"pending", "active"} => toGuest' = toGuest
  <2>1. Longer(toGuest, toGuest, {"SESSION_TERMINATE"})
    <3>1. <<>> \in Seq({"SESSION_TERMINATE"}) /\ toGuest \o <<>> = toGuest
      BY DEF TypeOK
    <3> QED
      BY <3>1, GrownFacts DEF TypeOK, Grown, Message
  <2> QED
    BY <2>1, AddsFacts DEF HostClosed, HostDisconnected, TypeOK, Message
<1>3. ASSUME HostCleanup
      PROVE  hostTerminal' \in Terminal /\ ~hostTerminal'.raw /\ ~hostTerminal'.flowing
  <2>1. hostTerminal' = [hostTerminal EXCEPT !.raw = FALSE, !.flowing = FALSE]
    BY <1>3 DEF HostCleanup
  <2> QED
    BY <2>1, TerminalFacts DEF TypeOK
<1>4. /\ hostSocket' = "closed" /\ room' \in {room, "ended"}
      /\ room' # "pending" /\ guestSocket' \in {guestSocket, Closing(guestSocket)}
      /\ UNCHANGED <<hostPhase, hostCipher, role, outputs, guestVars>>
  BY DEF HostClosed, HostDisconnected
<1>5. \/ ~Outside \/ hostPhase \in {"start", "connecting"}
      \/ UNCHANGED <<relay, child, hostTerminal, hostEnd>>
  BY DEF HostClosed, Outside
<1>6. \/ hostEnd' = "over" /\ HostCleanup
      \/ Outside /\ UNCHANGED <<relay, child, hostTerminal, hostEnd>>
  BY DEF HostClosed, Outside
<1>7. KeyFirst(toGuest) \/ ~Outside
  BY OutsideKeyFirst
<1>8. TypeOK'
  BY <1>1, <1>2, <1>3, <1>4, <1>6
  DEF TypeOK, HostCleanup, guestVars, Longer, Closing, Socket
<1>9. HostInv'
  BY <1>1, <1>2, <1>4, <1>6
  DEF HostClosed, HostInv, Outside, Started, HostCleanup, Longer, Closing, Socket
<1>10. (EndInv /\ RoleInv)'
  <2>1. EndInv'
    <3>1. HostCleanup => child' # "running"
      BY DEF HostCleanup
    <3> QED
      BY <1>1, <1>3, <1>4, <1>6, <3>1 DEF EndInv
  <2>2. RoleInv'
    BY <1>1, <1>2, <1>4 DEF RoleInv, guestVars, Longer, Role
  <2> QED
    BY <2>1, <2>2
<1>11. GuestInv'
  BY <1>2, <1>4 DEF GuestInv, guestVars, Longer, Closing
<1>12. CipherInv'
  BY <1>1, <1>2, <1>4, <1>6, <1>7
  DEF CipherInv, HostInv, Started, Excused, Cut, guestVars, Longer, Closing, Encrypted, Role
<1> QED
  BY <1>8, <1>9, <1>10, <1>11, <1>12

(* The guest's connection, from its beginning to its end. *)
LEMMA GuestConnectsStep ==
    ASSUME IInv,
           \/ \E accepted \in BOOLEAN : GuestOpens(accepted)
           \/ GuestConnectFails \/ GuestClosed
    PROVE  IInv'
<1> USE DEF IInv
<1>1. ASSUME GuestOpens(TRUE) PROVE IInv'
  <2>1. /\ Longer(toHost, toHost', {"ACCESS_REQUEST"})
        /\ hostSocket # "open" => toHost' = toHost
    BY <1>1, AddsFacts DEF GuestOpens, TypeOK, Message
  <2>2. /\ room = "waiting" /\ room' = "pending" /\ guestSocket = "new" /\ guestSocket' = "open"
        /\ UNCHANGED <<relay, toGuest, hostSocket, hostVars, guestVars>>
        /\ hostPhase \notin {"start", "connecting"}
    BY <1>1 DEF GuestOpens, HostInv
  <2>3. TypeOK'
    BY <2>1, <2>2 DEF TypeOK, hostVars, guestVars, Longer, Socket
  <2>4. (HostInv /\ EndInv /\ RoleInv)'
    BY <2>1, <2>2
    DEF HostInv, EndInv, RoleInv, Outside, Started, hostVars, guestVars, Longer, LastWord
  <2>5. (GuestInv /\ CipherInv)'
    BY <2>1, <2>2
    DEF GuestInv, CipherInv, HostInv, Started, Excused, Cut, Up, hostVars, guestVars, Longer
  <2> QED
    BY <2>3, <2>4, <2>5
<1>2. ASSUME GuestOpens(FALSE) PROVE IInv'
  <2>1. /\ toGuest' \in Seq(Message) /\ ReadyFirst(toGuest') /\ KeyFirst(toGuest')
        /\ \A x : Contains(toGuest', x) <=> x = "ERROR"
    <3>1. toGuest' = <<"ERROR">> /\ "ERROR" \in Message /\ "ERROR" \notin Encrypted
      BY <1>2 DEF GuestOpens, Message, Encrypted, Role
    <3>2. /\ toGuest' \in Seq(Message) /\ ReadyFirst(toGuest')
          /\ \A x : Contains(toGuest', x) <=> x = "ERROR"
      BY <3>1, ShortQueues
    <3> QED
      BY <3>1, <3>2 DEF KeyFirst, Contains
  <2>2. /\ room # "pending" /\ guestSocket = "new" /\ guestSocket' = "closing"
        /\ UNCHANGED <<relay, room, toHost, hostSocket, hostVars, guestVars>>
    BY <1>2 DEF GuestOpens, GuestInv
  <2>3. TypeOK'
    BY <2>1, <2>2 DEF TypeOK, hostVars, guestVars, Socket
  <2>4. (HostInv /\ EndInv /\ RoleInv)'
    BY <2>1, <2>2
    DEF HostInv, EndInv, RoleInv, Outside, Started, hostVars, guestVars, Role
  <2>5. (GuestInv /\ CipherInv)'
    BY <2>1, <2>2
    DEF GuestInv, CipherInv, HostInv, Started, Excused, Cut, Up, hostVars, guestVars
  <2> QED
    BY <2>3, <2>4, <2>5
<1>3. CASE GuestConnectFails
  <2>1. /\ ~guestTerminal.raw /\ ~Started /\ ~Contains(toHost, "SESSION_READY")
        /\ toGuest = <<>> /\ room # "pending" /\ \A x : ~Contains(<<>>, x)
    BY <1>3, ShortQueues DEF GuestConnectFails, HostInv, GuestInv, Message
  <2>2. TypeOK'
    BY <1>3 DEF TypeOK, GuestConnectFails, hostVars, Socket
  <2>3. (HostInv /\ EndInv /\ RoleInv)'
    BY <1>3, <2>1
    DEF GuestConnectFails, HostInv, EndInv, RoleInv, Outside, Started, hostVars
  <2>4. (GuestInv /\ CipherInv)'
    BY <1>3, <2>1 DEF GuestConnectFails, GuestInv, CipherInv, Started, Excused, Cut, hostVars
  <2> QED
    BY <2>2, <2>3, <2>4
<1>4. CASE GuestClosed
  <2>1. /\ toGuest' \in Seq(Message) /\ ReadyFirst(toGuest') /\ KeyFirst(toGuest')
        /\ \A x : ~Contains(toGuest', x)
    BY <1>4, ShortQueues DEF GuestClosed, Message
  <2>2. /\ Longer(toHost, toHost', {"SESSION_TERMINATE"})
        /\ hostSocket # "open" \/ room \notin {"pending", "active"} => toHost' = toHost
    <3>1. Longer(toHost, toHost, {"SESSION_TERMINATE"})
      <4>1. <<>> \in Seq({"SESSION_TERMINATE"}) /\ toHost \o <<>> = toHost
        BY DEF TypeOK
      <4> QED
        BY <4>1, GrownFacts DEF TypeOK, Grown, Message
    <3> QED
      BY <1>4, <3>1, AddsFacts DEF GuestClosed, GuestDisconnected, TypeOK, Message
  <2>3. /\ guestTerminal' \in Terminal /\ ~guestTerminal'.raw
        /\ guestTerminal'.listening = guestTerminal.listening
    BY <1>4, TerminalFacts DEF TypeOK, GuestClosed, GuestCleanup
  <2>4. TypeOK'
    BY <1>4, <2>1, <2>2, <2>3 DEF TypeOK, GuestClosed, GuestDisconnected, hostVars, Longer, Socket
  <2>5. (HostInv /\ EndInv /\ RoleInv)'
    BY <1>4, <2>1, <2>2, <2>3
    DEF GuestClosed, GuestDisconnected, HostInv, EndInv, RoleInv, Outside, Started, hostVars,
        Longer,
        LastWord
  <2>6. (GuestInv /\ CipherInv)'
    BY <1>4, <2>1, <2>2, <2>3
    DEF GuestClosed, GuestDisconnected, GuestInv, CipherInv, Started, Excused, Cut, hostVars,
        Longer
  <2> QED
    BY <2>4, <2>5, <2>6
<1> QED
  BY <1>1, <1>2, <1>3, <1>4

(* The room ends by a timer of the relay. *)
LEMMA TimersStep ==
    ASSUME IInv, GraceEnds \/ \E swept \in BOOLEAN : CodeExpires(swept)
    PROVE  IInv'
<1> USE DEF IInv
<1>1. CASE GraceEnds
  <2>1. /\ Longer(toHost, toHost', {"SESSION_TERMINATE"})
        /\ Longer(toGuest, toGuest', {"SESSION_TERMINATE"})
        /\ hostSocket # "open" => toHost' = toHost
        /\ guestSocket # "open" => toGuest' = toGuest
    BY <1>1, AddsFacts DEF GraceEnds, TypeOK, Message
  <2>2. /\ room = "active" /\ room' = "ended"
        /\ guestSocket' \in {guestSocket, Closing(guestSocket)}
        /\ hostSocket = "open" => guestSocket = "closed"
        /\ UNCHANGED <<relay, hostSocket, hostVars, guestVars>>
    BY <1>1 DEF GraceEnds
  <2>3. TypeOK'
    BY <2>1, <2>2 DEF TypeOK, hostVars, guestVars, Longer, Closing, Socket
  <2>4. (HostInv /\ EndInv /\ RoleInv)'
    BY <2>1, <2>2
    DEF TypeOK, HostInv, EndInv, RoleInv, Outside, Started, hostVars, guestVars, Longer, LastWord,
        Closing, Socket, Role
  <2>5. (GuestInv /\ CipherInv)'
    BY <2>1, <2>2
    DEF TypeOK, GuestInv, CipherInv, Started, Excused, Cut, Up, hostVars, guestVars, Longer,
        Closing,
        Encrypted, Role
  <2> QED
    BY <2>3, <2>4, <2>5
<1>2. ASSUME NEW swept \in BOOLEAN, CodeExpires(swept) PROVE IInv'
  <2>1. /\ Longer(toHost, toHost', {"ERROR"})
        /\ hostSocket # "open" => toHost' = toHost
    <3>1. Longer(toHost, toHost, {"ERROR"})
      <4>1. <<>> \in Seq({"ERROR"}) /\ toHost \o <<>> = toHost
        BY DEF TypeOK
      <4> QED
        BY <4>1, GrownFacts DEF TypeOK, Grown, Message
    <3> QED
      BY <1>2, <3>1, AddsFacts DEF CodeExpires, TypeOK, Message
  <2>2. /\ room \in {"waiting", "pending"} /\ room' = "ended"
        /\ hostSocket' \in {hostSocket, Closing(hostSocket)}
        /\ guestSocket' \in {guestSocket, Closing(guestSocket)}
        /\ UNCHANGED <<relay, toGuest, hostVars, guestVars>>
        /\ hostPhase \notin {"start", "connecting"}
    BY <1>2 DEF CodeExpires, HostInv
  <2>3. TypeOK'
    BY <2>1, <2>2 DEF TypeOK, hostVars, guestVars, Longer, Closing, Socket
  <2>4. (HostInv /\ EndInv /\ RoleInv)'
    BY <2>1, <2>2
    DEF TypeOK, HostInv, EndInv, RoleInv, Outside, Started, hostVars, guestVars, Longer, LastWord,
        Closing, Socket
  <2>5. (GuestInv /\ CipherInv)'
    BY <2>1, <2>2
    DEF TypeOK, GuestInv, CipherInv, HostInv, Started, Excused, Cut, Up, hostVars, guestVars,
        Longer,
        Closing
  <2> QED
    BY <2>3, <2>4, <2>5
<1> QED
  BY <1>1, <1>2

(* The program starts in the invariant. *)
LEMMA InitInv == Init => IInv
<1> SUFFICES ASSUME Init PROVE IInv
  OBVIOUS
<1>1. /\ toHost = <<>> /\ toGuest = <<>> /\ <<>> \in Seq(Message)
      /\ \A x : ~Contains(<<>>, x)
      /\ ReadyOnce(<<>>) /\ ReadyFirst(<<>>) /\ LastWords(<<>>) /\ KeyFirst(<<>>)
  BY ShortQueues DEF Init, Message
<1>2. TypeOK
  <2>1. outputs \in 0 .. MaxChunks /\ inputs \in 0 .. MaxChunks
    BY ChunksAssumption DEF Init
  <2>2. hostTerminal \in Terminal /\ guestTerminal \in Terminal
    BY DEF Init, Terminal, Idle
  <2> QED
    BY <1>1, <2>1, <2>2 DEF Init, TypeOK, Phase, Socket
<1>3. HostInv /\ EndInv /\ RoleInv
  BY <1>1 DEF Init, HostInv, EndInv, RoleInv, Outside, Started, Idle
<1>4. GuestInv /\ CipherInv
  BY <1>1 DEF Init, GuestInv, CipherInv, Started, Idle
<1> QED
  BY <1>2, <1>3, <1>4 DEF IInv

(* Every step of the program keeps it. *)
LEMMA NextInv == IInv /\ [Next]_vars => IInv'
<1> SUFFICES ASSUME IInv, [Next]_vars PROVE IInv'
  OBVIOUS
<1>1. CASE Next
  BY <1>1, ReadsStep, HostSendsStep, GuestSendsStep, DecidesStep, HostConnectsStep,
     HostClosedStep,
     GuestConnectsStep, TimersStep
  DEF Next, HostHandles, GuestHandles
<1>2. CASE UNCHANGED vars
  BY <1>2
  DEF vars, wires, hostVars, guestVars, IInv, TypeOK, HostInv, EndInv, RoleInv, GuestInv,
      CipherInv,
      Outside, Started, Excused, Cut, Up
<1> QED
  BY <1>1, <1>2

(* The invariant holds of every behaviour of the program. *)
THEOREM Invariance == Spec => []IInv
BY InitInv, NextInv, PTL DEF Spec

(* The variables keep their types. *)
THEOREM TypeCorrect == Spec => []TypeOK
<1>1. IInv => TypeOK
  BY DEF IInv
<1> QED
  BY <1>1, Invariance, PTL

(* Nothing a guest types gets to the shell of a host that chose to be the  *)
(* only admin, whenever the messages about it arrive.                      *)
THEOREM ViewerIsSilent == Spec => []ViewerNeverTypes
<1>1. IInv => ViewerNeverTypes
  BY DEF IInv, RoleInv, ViewerNeverTypes
<1> QED
  BY <1>1, Invariance, PTL

(* No encrypted message arrives before the key it needs, unless a message  *)
(* was refused and its sender has been, or is about to be, told.           *)
THEOREM KeysComeFirst == Spec => []CipherFirst
<1>1. IInv => CipherFirst
  <2> SUFFICES ASSUME IInv PROVE CipherFirst
    OBVIOUS
  <2> USE DEF IInv, TypeOK
  <2>1. ASSUME HostReads("INPUT") PROVE hostCipher
    <3>1. Contains(toHost, "INPUT")
      BY <2>1, TailFacts DEF HostReads, Shorter
    <3> QED
      BY <3>1 DEF RoleInv, HostInv
  <2>2. ASSUME (\E r \in Role : GuestReads(r)) \/ GuestReads("OUTPUT")
        PROVE  guestCipher \/ hostEnd # "no" \/ Contains(toHost, "ERROR")
    BY <2>2, TailFacts DEF GuestReads, Shorter, CipherInv, Excused, Encrypted
  <2> QED
    BY <2>1, <2>2 DEF CipherFirst
<1> QED
  BY <1>1, Invariance, PTL

(* A session that is over never starts its shell, even when its host only  *)
(* answers the menu of modes afterwards.                                   *)
THEOREM EndHasNoShell == Spec => []NoShellAfterEnd
<1>1. IInv => NoShellAfterEnd
  BY DEF IInv, EndInv, NoShellAfterEnd
<1> QED
  BY <1>1, Invariance, PTL

(* However a session ends, neither terminal stays in raw mode.             *)
THEOREM EndRestoresTerminals == Spec => []TerminalsRestored
<1>1. IInv => TerminalsRestored
  BY DEF IInv, EndInv, GuestInv, TerminalsRestored
<1> QED
  BY <1>1, Invariance, PTL

=============================================================================
