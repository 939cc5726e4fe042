-------------------------- MODULE RateLimiterProofs --------------------------
(***************************************************************************)
(* Proofs about RateLimiter, for any set of keys, any limit and any        *)
(* window.  The bounds MaxTime and MaxEvents only restrict the actions:    *)
(* nothing here depends on their values.                                   *)
(***************************************************************************)
EXTENDS RateLimiter, FiniteSetTheorems, SequenceTheorems, WellFoundedInduction, TLAPS

(***************************************************************************)
(* The inductive invariant.                                                *)
(***************************************************************************)

(* The timestamps kept at time t are the latest events of the history all, *)
(* at most Limit of them, in order.  Those that were dropped have left the *)
(* window, and an event was in order Limit events later at the earliest    *)
(* when it had left it too.                                                *)
Recent(all, kept, t) ==
    LET dropped == Len(all) - Len(kept) IN
    /\ dropped \in Nat
    /\ Len(kept) <= Limit
    /\ \A i \in 1 .. Len(kept) : kept[i] = all[dropped + i]
    /\ \A i \in 1 .. dropped : all[i] <= t - WindowMs
    /\ \A i, j \in 1 .. Len(all) : i <= j => all[i] <= all[j]
    /\ \A i \in 1 .. Len(all) : all[i] <= t
    /\ \A i \in 1 .. Len(all) - Limit : all[i] + WindowMs <= all[i + Limit]

(* It is so for every key, now. *)
KeptIsRecent == \A k \in Key : Recent(admitted[k], GetOrCreate(k), now)

(* Until the next check, the window of a refused key is full, and          *)
(* retryAfterMs is when its oldest event leaves it.                        *)
RefusedIsFull ==
    ~result.allowed =>
        /\ result.key \in DOMAIN windows
        /\ Len(windows[result.key]) >= Limit
        /\ windows[result.key][1] > result.at - WindowMs
        /\ result.retryAfterMs = windows[result.key][1] + WindowMs - result.at

(* The inductive invariant. *)
IInv == TypeOK /\ KeptIsRecent /\ RefusedIsFull

(***************************************************************************)
(* The loop of prune.                                                      *)
(***************************************************************************)

(* A set of natural numbers has a least element. *)
LEMMA LeastElement ==
    ASSUME NEW S, S \subseteq Nat, S # {}
    PROVE  \E m \in S : \A n \in S : m <= n
<1> DEFINE Below == {p \in Nat \X Nat : p[1] < p[2]}
<1>1. IsWellFoundedOn(Below, Nat)
  BY NatLessThanWellFounded, Zenon DEF OpToRel
<1>2. \A x, y \in Nat : <<x, y>> \in Below <=> x < y
  OBVIOUS
<1> HIDE DEF Below
<1>3. PICK m \in S : \A y \in S : ~(<<y, m>> \in Below)
  BY <1>1, WFMin
<1>4. \A n \in S : ~(n < m)
  BY <1>2, <1>3
<1> QED
  BY <1>4

(* The loop stops at the first timestamp inside the window, or at the end. *)
LEMMA FirstValidFacts ==
    ASSUME NEW ts \in Seq(Nat), NEW cutoff \in Int
    PROVE  /\ FirstValid(ts, cutoff) \in 0 .. Len(ts)
           /\ \A i \in 1 .. FirstValid(ts, cutoff) : ts[i] <= cutoff
           /\ FirstValid(ts, cutoff) < Len(ts) => ts[FirstValid(ts, cutoff) + 1] > cutoff
<1> DEFINE Stops == {n \in Nat : n = Len(ts) \/ (n < Len(ts) /\ ts[n + 1] > cutoff)}
           Good(n) == /\ \A i \in 1 .. n : ts[i] <= cutoff
                      /\ n < Len(ts) => ts[n + 1] > cutoff
<1>1. Len(ts) \in Nat /\ \A i \in 1 .. Len(ts) : ts[i] \in Nat
  OBVIOUS
<1>2. PICK m \in Stops : \A n \in Stops : m <= n
  BY <1>1, LeastElement
<1>3. m \in 0 .. Len(ts)
  BY <1>1, <1>2
<1>4. ASSUME NEW i \in 1 .. m PROVE ts[i] <= cutoff
  <2>1. i - 1 \in Nat /\ i - 1 < m /\ i - 1 < Len(ts) /\ i \in 1 .. Len(ts)
    BY <1>1, <1>3
  <2>2. i - 1 \notin Stops
    BY <1>2, <2>1
  <2>3. ~(ts[(i - 1) + 1] > cutoff)
    BY <2>1, <2>2
  <2> QED
    BY <1>1, <2>1, <2>3
<1>5. Good(m)
  BY <1>1, <1>2, <1>4
<1>6. Good(CHOOSE n \in 0 .. Len(ts) : Good(n)) /\ (CHOOSE n \in 0 .. Len(ts) : Good(n)) \in 0 .. Len(ts)
  <2> HIDE DEF Good
  <2> QED
    BY <1>3, <1>5
<1> QED
  BY <1>6 DEF FirstValid

(* prune() drops the timestamps before that one. *)
LEMMA PruneFacts ==
    ASSUME NEW ts \in Seq(Nat), NEW t \in Nat
    PROVE  LET n == FirstValid(ts, t - WindowMs) IN
           /\ n \in 0 .. Len(ts)
           /\ \A i \in 1 .. n : ts[i] <= t - WindowMs
           /\ n < Len(ts) => ts[n + 1] > t - WindowMs
           /\ Prune(ts, t) \in Seq(Nat)
           /\ Len(Prune(ts, t)) = Len(ts) - n
           /\ \A i \in 1 .. Len(ts) - n : Prune(ts, t)[i] = ts[n + i]
<1> DEFINE n == FirstValid(ts, t - WindowMs)
<1>1. t - WindowMs \in Int /\ Len(ts) \in Nat
  BY WindowAssumption
<1>2. /\ n \in 0 .. Len(ts)
      /\ \A i \in 1 .. n : ts[i] <= t - WindowMs
      /\ n < Len(ts) => ts[n + 1] > t - WindowMs
  BY <1>1, FirstValidFacts
<1> HIDE DEF n
<1>3. \A i \in n + 1 .. Len(ts) : ts[i] \in Nat
  BY <1>1, <1>2
<1>4. /\ SubSeq(ts, n + 1, Len(ts)) \in Seq(Nat)
      /\ Len(SubSeq(ts, n + 1, Len(ts))) = Len(ts) - n
      /\ \A i \in 1 .. Len(ts) - n : SubSeq(ts, n + 1, Len(ts))[i] = ts[n + i]
  BY <1>1, <1>2, <1>3, SubSeqProperties
<1> QED
  BY <1>2, <1>4 DEF n, Prune

(***************************************************************************)
(* The kept timestamps and the history.                                    *)
(***************************************************************************)

(* They stay recent as time passes. *)
LEMMA RecentLater ==
    ASSUME NEW all \in Seq(Nat), NEW kept \in Seq(Nat), NEW t \in Nat, NEW u \in Nat, t <= u,
           Recent(all, kept, t)
    PROVE  Recent(all, kept, u)
<1>1. /\ Len(all) \in Nat /\ Len(kept) \in Nat
      /\ \A i \in 1 .. Len(all) : all[i] \in Nat
      /\ Len(all) - Len(kept) \in Nat
  BY DEF Recent
<1>2. \A i \in 1 .. Len(all) - Len(kept) : all[i] <= u - WindowMs
  <2>1. \A i \in 1 .. Len(all) - Len(kept) : all[i] \in Nat /\ all[i] <= t - WindowMs
    BY <1>1 DEF Recent
  <2> QED
    BY <2>1, WindowAssumption
<1>3. \A i \in 1 .. Len(all) : all[i] <= u
  <2>1. \A i \in 1 .. Len(all) : all[i] <= t
    BY DEF Recent
  <2> QED
    BY <1>1, <2>1
<1> QED
  BY <1>2, <1>3 DEF Recent

(* They stay recent when prune() drops those that have left the window. *)
LEMMA RecentPruned ==
    ASSUME NEW all \in Seq(Nat), NEW kept \in Seq(Nat), NEW t \in Nat, Recent(all, kept, t)
    PROVE  Recent(all, Prune(kept, t), t)
<1> DEFINE n == FirstValid(kept, t - WindowMs)
           d == Len(all) - Len(kept)
           p == Prune(kept, t)
<1>0. Len(kept) \in Nat /\ Len(all) \in Nat
  OBVIOUS
<1>1. /\ n \in 0 .. Len(kept)
      /\ \A i \in 1 .. n : kept[i] <= t - WindowMs
      /\ Len(p) = Len(kept) - n
      /\ \A i \in 1 .. Len(kept) - n : p[i] = kept[n + i]
  BY PruneFacts
<1>2. /\ d \in Nat /\ Len(kept) <= Limit
      /\ \A i \in 1 .. Len(kept) : kept[i] = all[d + i]
      /\ \A i \in 1 .. d : all[i] <= t - WindowMs
      /\ \A i, j \in 1 .. Len(all) : i <= j => all[i] <= all[j]
      /\ \A i \in 1 .. Len(all) : all[i] <= t
      /\ \A i \in 1 .. Len(all) - Limit : all[i] + WindowMs <= all[i + Limit]
  BY DEF Recent
<1> HIDE DEF n, p
<1>3. Len(all) - Len(p) = d + n /\ d + n \in Nat /\ Len(p) <= Limit
  BY <1>0, <1>1, <1>2, LimitAssumption
<1>4. ASSUME NEW i \in 1 .. Len(p) PROVE p[i] = all[(d + n) + i]
  <2>1. n + i \in 1 .. Len(kept) /\ d + (n + i) = (d + n) + i /\ i \in 1 .. Len(kept) - n
    BY <1>0, <1>1, <1>2
  <2>2. p[i] = kept[n + i] /\ kept[n + i] = all[d + (n + i)]
    BY <1>0, <1>1, <1>2, <2>1
  <2> QED
    BY <2>1, <2>2
<1>5. ASSUME NEW i \in 1 .. d + n PROVE all[i] <= t - WindowMs
  <2>1. CASE i <= d
    BY <1>2, <2>1
  <2>2. CASE i > d
    <3>1. i - d \in 1 .. n /\ i - d \in 1 .. Len(kept) /\ d + (i - d) = i
      <4>1. d \in Nat /\ n \in Nat /\ n <= Len(kept)
        BY <1>0, <1>1, <1>2
      <4> HIDE DEF d
      <4> QED
        BY <1>0, <2>2, <4>1
    <3>2. kept[i - d] <= t - WindowMs /\ kept[i - d] = all[d + (i - d)]
      BY <1>0, <1>1, <1>2, <3>1
    <3> QED
      BY <3>1, <3>2
  <2> QED
    BY <1>0, <1>1, <1>2, <2>1, <2>2
<1> HIDE DEF d
<1>6. Recent(all, p, t)
  BY <1>2, <1>3, <1>4, <1>5 DEF Recent
<1> QED
  BY <1>6 DEF p

(* They stay recent when an event is admitted below the limit. *)
LEMMA RecentAdmitted ==
    ASSUME NEW all \in Seq(Nat), NEW kept \in Seq(Nat), NEW t \in Nat, Recent(all, kept, t),
           Len(kept) < Limit
    PROVE  Recent(Append(all, t), Append(kept, t), t)
<1> DEFINE d == Len(all) - Len(kept)
           all2 == Append(all, t)
           kept2 == Append(kept, t)
<1>1. /\ Len(all) \in Nat /\ Len(kept) \in Nat
      /\ Len(all2) = Len(all) + 1 /\ Len(kept2) = Len(kept) + 1
      /\ \A i \in 1 .. Len(all) : all2[i] = all[i] /\ all[i] \in Nat
      /\ \A i \in 1 .. Len(kept) : kept2[i] = kept[i]
      /\ all2[Len(all) + 1] = t /\ kept2[Len(kept) + 1] = t
  BY AppendProperties
<1>2. /\ d \in Nat
      /\ \A i \in 1 .. Len(kept) : kept[i] = all[d + i]
      /\ \A i \in 1 .. d : all[i] <= t - WindowMs
      /\ \A i, j \in 1 .. Len(all) : i <= j => all[i] <= all[j]
      /\ \A i \in 1 .. Len(all) : all[i] <= t
      /\ \A i \in 1 .. Len(all) - Limit : all[i] + WindowMs <= all[i + Limit]
  BY DEF Recent
<1> HIDE DEF all2, kept2
<1>3. Len(all2) - Len(kept2) = d /\ Len(kept2) <= Limit
  BY <1>1, LimitAssumption
<1>4. ASSUME NEW i \in 1 .. Len(kept2) PROVE kept2[i] = all2[d + i]
  <2>1. CASE i = Len(kept) + 1
    <3>1. d + i = Len(all) + 1
      BY <1>1, <2>1
    <3> QED
      BY <1>1, <2>1, <3>1
  <2>2. CASE i # Len(kept) + 1
    <3>1. i \in 1 .. Len(kept) /\ d + i \in 1 .. Len(all)
      BY <1>1, <1>2, <2>2
    <3> QED
      BY <1>1, <1>2, <3>1
  <2> QED
    BY <2>1, <2>2
<1>5. /\ \A i \in 1 .. d : all2[i] <= t - WindowMs
      /\ \A i, j \in 1 .. Len(all2) : i <= j => all2[i] <= all2[j]
      /\ \A i \in 1 .. Len(all2) : all2[i] <= t
  <2>1. \A i \in 1 .. Len(all2) : i \in 1 .. Len(all) \/ i = Len(all) + 1
    BY <1>1
  <2>2. \A i \in 1 .. d : i \in 1 .. Len(all)
    BY <1>1, <1>2
  <2>3. \A i \in 1 .. d : all2[i] <= t - WindowMs
    BY <1>1, <1>2, <2>2
  <2>4. ASSUME NEW i \in 1 .. Len(all2) PROVE all2[i] <= t
    <3>1. CASE i = Len(all) + 1
      BY <1>1, <3>1
    <3>2. CASE i \in 1 .. Len(all)
      BY <1>1, <1>2, <3>2
    <3> QED
      BY <2>1, <3>1, <3>2
  <2>5. ASSUME NEW i \in 1 .. Len(all2), NEW j \in 1 .. Len(all2), i <= j
        PROVE  all2[i] <= all2[j]
    <3>1. CASE j = Len(all) + 1
      BY <1>1, <2>4, <3>1
    <3>2. CASE j # Len(all) + 1
      <4>0. Len(all) \in Nat /\ Len(all2) = Len(all) + 1
        BY <1>1
      <4>1. i \in 1 .. Len(all) /\ j \in 1 .. Len(all)
        BY <2>5, <3>2, <4>0
      <4> QED
        BY <1>1, <1>2, <2>5, <4>1
    <3> QED
      BY <3>1, <3>2
  <2> QED
    BY <2>3, <2>4, <2>5
<1>6. ASSUME NEW i \in 1 .. Len(all2) - Limit PROVE all2[i] + WindowMs <= all2[i + Limit]
  <2>1. CASE i + Limit = Len(all2)
    <3>1. i \in 1 .. d /\ i \in 1 .. Len(all)
      BY <1>1, <1>2, <2>1, LimitAssumption
    <3>2. all2[i] = all[i] /\ all[i] \in Nat /\ all[i] <= t - WindowMs /\ all2[i + Limit] = t
      BY <1>1, <1>2, <2>1, <3>1
    <3> QED
      BY <3>2, WindowAssumption
  <2>2. CASE i + Limit # Len(all2)
    <3>1. i \in 1 .. Len(all) - Limit /\ i \in 1 .. Len(all) /\ i + Limit \in 1 .. Len(all)
      BY <1>1, <2>2, LimitAssumption
    <3> QED
      BY <1>1, <1>2, <3>1
  <2> QED
    BY <2>1, <2>2
<1> HIDE DEF d
<1>7. Recent(all2, kept2, t)
  BY <1>2, <1>3, <1>4, <1>5, <1>6 DEF Recent
<1> QED
  BY <1>7 DEF all2, kept2

(* Pruned, they are as many as the events of the history in the window.    *)
LEMMA RecentCount ==
    ASSUME NEW all \in Seq(Nat), NEW kept \in Seq(Nat), NEW t \in Nat, Recent(all, kept, t)
    PROVE  Cardinality({i \in DOMAIN all : all[i] > t - WindowMs}) = Len(Prune(kept, t))
<1> DEFINE n == FirstValid(kept, t - WindowMs)
           d == Len(all) - Len(kept)
           p == Prune(kept, t)
<1>0. /\ Len(kept) \in Nat /\ Len(all) \in Nat
      /\ DOMAIN all = 1 .. Len(all) /\ \A i \in 1 .. Len(all) : all[i] \in Nat
  OBVIOUS
<1>1. /\ n \in 0 .. Len(kept)
      /\ n < Len(kept) => kept[n + 1] > t - WindowMs
      /\ Len(p) = Len(kept) - n
  BY PruneFacts
<1>2. /\ d \in Nat /\ Len(all) = d + Len(kept)
      /\ \A i \in 1 .. Len(kept) : kept[i] = all[d + i]
      /\ \A i, j \in 1 .. Len(all) : i <= j => all[i] <= all[j]
  BY <1>0 DEF Recent
<1>3. \A i \in 1 .. d + n : all[i] <= t - WindowMs
  <2>1. Recent(all, p, t)
    BY RecentPruned
  <2>2. Len(all) - Len(p) = d + n
    BY <1>1
  <2> QED
    BY <2>1, <2>2 DEF Recent
<1> HIDE DEF n, d, p
<1>4. ASSUME NEW i \in (d + n + 1) .. Len(all) PROVE all[i] > t - WindowMs
  <2>1. n < Len(kept) /\ n + 1 \in 1 .. Len(kept) /\ d + n + 1 \in 1 .. Len(all) /\ i \in 1 .. Len(all)
    <3>1. n \in Nat /\ d \in Nat /\ Len(kept) \in Nat /\ Len(all) = d + Len(kept)
      BY <1>0, <1>1, <1>2
    <3>2. i \in Int /\ d + n + 1 <= i /\ i <= Len(all)
      BY <1>0, <3>1
    <3> QED
      BY <3>1, <3>2
  <2>2. kept[n + 1] = all[d + (n + 1)] /\ d + (n + 1) = d + n + 1
    BY <1>0, <1>1, <1>2, <2>1
  <2>3. all[d + n + 1] > t - WindowMs
    BY <1>1, <2>1, <2>2
  <2>4. all[d + n + 1] <= all[i] /\ all[d + n + 1] \in Nat /\ all[i] \in Nat
    BY <1>0, <1>2, <2>1
  <2> QED
    BY <2>3, <2>4, WindowAssumption
<1>5. {i \in DOMAIN all : all[i] > t - WindowMs} = (d + n + 1) .. Len(all)
  <2>1. ASSUME NEW i \in 1 .. Len(all), all[i] > t - WindowMs PROVE i \in (d + n + 1) .. Len(all)
    <3>1. i \notin 1 .. d + n
      BY <1>0, <1>1, <1>3, <2>1, WindowAssumption
    <3> QED
      BY <1>0, <1>1, <1>2, <3>1
  <2>2. \A i \in (d + n + 1) .. Len(all) : i \in 1 .. Len(all)
    BY <1>0, <1>1, <1>2
  <2> QED
    BY <1>0, <1>1, <1>4, <2>1, <2>2
<1>6. Cardinality((d + n + 1) .. Len(all)) = Len(all) - (d + n)
  <2>1. d + n + 1 \in Int /\ Len(all) \in Int /\ d + n <= Len(all)
    BY <1>0, <1>1, <1>2
  <2>2. Cardinality((d + n + 1) .. Len(all)) =
            IF d + n + 1 > Len(all) THEN 0 ELSE Len(all) - (d + n + 1) + 1
    BY <2>1, FS_Interval
  <2> QED
    BY <1>0, <1>1, <1>2, <2>1, <2>2
<1>7. Len(all) - (d + n) = Len(p)
  BY <1>0, <1>1, <1>2
<1> QED
  BY <1>5, <1>6, <1>7 DEF p

(***************************************************************************)
(* The operations.                                                         *)
(***************************************************************************)

(* The entry of a key is a sequence of times, empty before its first check. *)
LEMMA EntryType == ASSUME TypeOK, NEW k PROVE GetOrCreate(k) \in Seq(Nat)
BY DEF TypeOK, GetOrCreate

(* check() replaces the entry of its key and no other. *)
LEMMA EntryFacts ==
    ASSUME TypeOK, NEW k \in Key, NEW ts \in Seq(Nat), SetEntry(k, ts)
    PROVE  /\ DOMAIN windows' \subseteq Key
           /\ \A x \in DOMAIN windows' : windows'[x] \in Seq(Nat)
           /\ k \in DOMAIN windows' /\ windows'[k] = ts
           /\ GetOrCreate(k)' = ts
           /\ \A x \in Key : x # k => GetOrCreate(x)' = GetOrCreate(x)
BY DEF TypeOK, SetEntry, GetOrCreate

(* An admitted event joins the window and the history. *)
LEMMA AllowedStep ==
    ASSUME IInv, NEW k \in Key, CheckAllowed(k)
    PROVE  IInv'
<1> DEFINE ts == Prune(GetOrCreate(k), now)
<1>1. /\ now \in Nat /\ GetOrCreate(k) \in Seq(Nat) /\ admitted \in [Key -> Seq(Nat)]
      /\ admitted[k] \in Seq(Nat)
  BY EntryType DEF IInv, TypeOK
<1>2. ts \in Seq(Nat) /\ Len(ts) \in Nat /\ Recent(admitted[k], ts, now)
  BY <1>1, PruneFacts, RecentPruned DEF IInv, KeptIsRecent
<1> HIDE DEF ts
<1>3. /\ Len(ts) < Limit /\ SetEntry(k, Append(ts, now))
      /\ admitted' = [admitted EXCEPT ![k] = Append(admitted[k], now)]
      /\ result' = [key |-> k, allowed |-> TRUE, remaining |-> Limit - (Len(ts) + 1),
                    retryAfterMs |-> 0, at |-> now]
      /\ now' = now
  BY DEF CheckAllowed, ts
<1>4. Append(ts, now) \in Seq(Nat) /\ Append(admitted[k], now) \in Seq(Nat)
  BY <1>1, <1>2, AppendProperties
<1>5. /\ DOMAIN windows' \subseteq Key
      /\ \A x \in DOMAIN windows' : windows'[x] \in Seq(Nat)
      /\ GetOrCreate(k)' = Append(ts, now)
      /\ \A x \in Key : x # k => GetOrCreate(x)' = GetOrCreate(x)
  BY <1>3, <1>4, EntryFacts DEF IInv
<1>6. Limit - (Len(ts) + 1) \in Nat
  BY <1>2, <1>3, LimitAssumption
<1>7. TypeOK'
  BY <1>1, <1>3, <1>4, <1>5, <1>6 DEF TypeOK
<1>8. KeptIsRecent'
  <2> SUFFICES ASSUME NEW x \in Key PROVE Recent(admitted'[x], GetOrCreate(x)', now')
    BY DEF KeptIsRecent
  <2>1. CASE x = k
    <3>1. Recent(Append(admitted[k], now), Append(ts, now), now)
      BY <1>1, <1>2, <1>3, RecentAdmitted
    <3> QED
      BY <1>1, <1>3, <1>5, <2>1, <3>1
  <2>2. CASE x # k
    BY <1>1, <1>3, <1>5, <2>2 DEF IInv, KeptIsRecent
  <2> QED
    BY <2>1, <2>2
<1>9. RefusedIsFull'
  BY <1>3 DEF RefusedIsFull
<1> QED
  BY <1>7, <1>8, <1>9 DEF IInv

(* A refused event only prunes the window. *)
LEMMA DeniedStep ==
    ASSUME IInv, NEW k \in Key, CheckDenied(k)
    PROVE  IInv'
<1> DEFINE ts == Prune(GetOrCreate(k), now)
           n == FirstValid(GetOrCreate(k), now - WindowMs)
<1>1. /\ now \in Nat /\ GetOrCreate(k) \in Seq(Nat) /\ admitted \in [Key -> Seq(Nat)]
      /\ admitted[k] \in Seq(Nat)
  BY EntryType DEF IInv, TypeOK
<1>2. ts \in Seq(Nat) /\ Len(ts) \in Nat /\ Recent(admitted[k], ts, now)
  BY <1>1, PruneFacts, RecentPruned DEF IInv, KeptIsRecent
<1>3. /\ Len(ts) >= Limit /\ SetEntry(k, ts)
      /\ admitted' = admitted /\ now' = now
      /\ result' = [key |-> k, allowed |-> FALSE, remaining |-> 0,
                    retryAfterMs |-> Positive(ts[1] + WindowMs - now), at |-> now]
  BY DEF CheckDenied
<1>4. ts[1] \in Nat /\ ts[1] > now - WindowMs
  <2>0. Len(GetOrCreate(k)) \in Nat
    BY <1>1
  <2>1. /\ n \in 0 .. Len(GetOrCreate(k))
        /\ n < Len(GetOrCreate(k)) => GetOrCreate(k)[n + 1] > now - WindowMs
        /\ Len(ts) = Len(GetOrCreate(k)) - n
        /\ \A i \in 1 .. Len(GetOrCreate(k)) - n : ts[i] = GetOrCreate(k)[n + i]
    BY <1>1, PruneFacts
  <2> HIDE DEF n, ts
  <2>2. n < Len(GetOrCreate(k)) /\ 1 \in 1 .. Len(GetOrCreate(k)) - n /\ 1 \in 1 .. Len(ts)
    BY <1>2, <1>3, <2>0, <2>1, LimitAssumption
  <2> QED
    BY <1>2, <2>1, <2>2
<1> HIDE DEF ts
<1>5. Positive(ts[1] + WindowMs - now) = ts[1] + WindowMs - now /\ ts[1] + WindowMs - now \in Nat
  BY <1>1, <1>4, WindowAssumption DEF Positive
<1>6. /\ DOMAIN windows' \subseteq Key
      /\ \A x \in DOMAIN windows' : windows'[x] \in Seq(Nat)
      /\ k \in DOMAIN windows' /\ windows'[k] = ts
      /\ GetOrCreate(k)' = ts
      /\ \A x \in Key : x # k => GetOrCreate(x)' = GetOrCreate(x)
  BY <1>2, <1>3, EntryFacts DEF IInv
<1>7. TypeOK'
  BY <1>1, <1>3, <1>5, <1>6 DEF TypeOK
<1>8. KeptIsRecent'
  <2> SUFFICES ASSUME NEW x \in Key PROVE Recent(admitted'[x], GetOrCreate(x)', now')
    BY DEF KeptIsRecent
  <2> QED
    BY <1>2, <1>3, <1>6 DEF IInv, KeptIsRecent
<1>9. RefusedIsFull'
  BY <1>3, <1>4, <1>5, <1>6 DEF RefusedIsFull
<1> QED
  BY <1>7, <1>8, <1>9 DEF IInv

(* With no event, nothing is kept and nothing refused. *)
LEMMA NothingAdmitted ==
    ASSUME NEW t \in Nat
    PROVE  Recent(<<>>, <<>>, t)
BY LimitAssumption DEF Recent

(* The invariant holds at the start. *)
LEMMA InitIInv == Init => IInv
<1> SUFFICES ASSUME Init PROVE IInv
  OBVIOUS
<1>1. TypeOK
  BY DEF Init, TypeOK, NoResult
<1>2. KeptIsRecent
  BY NothingAdmitted DEF Init, KeptIsRecent, GetOrCreate
<1>3. RefusedIsFull
  BY DEF Init, RefusedIsFull, NoResult
<1> QED
  BY <1>1, <1>2, <1>3 DEF IInv

(* Every operation keeps it. *)
LEMMA NextIInv == IInv /\ [Next]_vars => IInv'
<1> SUFFICES ASSUME IInv, [Next]_vars PROVE IInv'
  OBVIOUS
<1>1. ASSUME NEW k \in Key, Check(k) PROVE IInv'
  BY <1>1, AllowedStep, DeniedStep DEF Check
<1>2. CASE Reset
  <2>1. now' = now /\ now \in Nat
    BY <1>2 DEF Reset, IInv, TypeOK
  <2>2. TypeOK'
    BY <1>2, <2>1 DEF Reset, TypeOK, NoResult
  <2>3. KeptIsRecent'
    BY <1>2, <2>1, NothingAdmitted DEF Reset, KeptIsRecent, GetOrCreate
  <2>4. RefusedIsFull'
    BY <1>2 DEF Reset, RefusedIsFull, NoResult
  <2> QED
    BY <2>2, <2>3, <2>4 DEF IInv
<1>3. CASE Tick
  <2>1. now \in Nat /\ now' = now + 1 /\ now' \in Nat /\ UNCHANGED <<windows, result, admitted>>
    BY <1>3 DEF Tick, IInv, TypeOK
  <2>2. TypeOK'
    BY <2>1 DEF IInv, TypeOK
  <2>3. KeptIsRecent'
    <3> SUFFICES ASSUME NEW x \in Key PROVE Recent(admitted[x], GetOrCreate(x), now + 1)
      BY <2>1 DEF KeptIsRecent, GetOrCreate
    <3>1. admitted[x] \in Seq(Nat) /\ GetOrCreate(x) \in Seq(Nat) /\ now <= now + 1 /\ now + 1 \in Nat
      BY <2>1, EntryType DEF IInv, TypeOK
    <3> QED
      BY <2>1, <3>1, RecentLater DEF IInv, KeptIsRecent
  <2>4. RefusedIsFull'
    BY <2>1 DEF IInv, RefusedIsFull
  <2> QED
    BY <2>2, <2>3, <2>4 DEF IInv
<1>4. CASE UNCHANGED vars
  BY <1>4 DEF vars, IInv, TypeOK, KeptIsRecent, RefusedIsFull, GetOrCreate
<1> QED
  BY <1>1, <1>2, <1>3, <1>4 DEF Next

(***************************************************************************)
(* The theorems.                                                           *)
(***************************************************************************)

(* Every reachable state of the limiter satisfies the inductive invariant. *)
THEOREM Invariance == Spec => []IInv
BY InitIInv, NextIInv, PTL DEF Spec

(* Variables of the limiter keep their types. *)
THEOREM TypeCorrect == Spec => []TypeOK
<1>1. IInv => TypeOK
  BY DEF IInv
<1> QED
  BY <1>1, Invariance, PTL

(* check() bounds every window, not only the windows that end at a check:  *)
(* of any Limit + 1 consecutive events of a key, the last is at least      *)
(* WindowMs after the first.                                               *)
THEOREM WindowBounded == Spec => []SlidingWindowBound
<1>1. IInv => SlidingWindowBound
  <2> SUFFICES ASSUME IInv, NEW k \in Key, NEW end \in 0 .. now
               PROVE  Cardinality({i \in DOMAIN admitted[k] : admitted[k][i] > end - WindowMs
                                                              /\ admitted[k][i] <= end}) <= Limit
    BY DEF SlidingWindowBound
  <2> DEFINE all == admitted[k]
             S == {i \in DOMAIN all : all[i] > end - WindowMs /\ all[i] <= end}
  <2>1. /\ all \in Seq(Nat) /\ Len(all) \in Nat /\ DOMAIN all = 1 .. Len(all)
        /\ \A i \in 1 .. Len(all) : all[i] \in Nat
        /\ now \in Nat /\ end \in Int
    BY DEF IInv, TypeOK
  <2>2. /\ \A i, j \in 1 .. Len(all) : i <= j => all[i] <= all[j]
        /\ \A i \in 1 .. Len(all) - Limit : all[i] + WindowMs <= all[i + Limit]
    BY DEF IInv, KeptIsRecent, Recent
  <2> HIDE DEF all
  <2>3. CASE S = {}
    <3>1. Cardinality(S) = 0
      BY <2>3, FS_EmptySet
    <3> QED
      BY <3>1, LimitAssumption DEF all
  <2>4. CASE S # {}
    <3>1. PICK m \in S : \A i \in S : m <= i
      <4>1. S \subseteq Nat
        BY <2>1
      <4> QED
        BY <2>4, <4>1, LeastElement
    <3>2. m \in 1 .. Len(all) /\ all[m] > end - WindowMs
      BY <2>1
    <3>3. ASSUME NEW i \in S PROVE i \in m .. (m + Limit - 1)
      <4>1. i \in 1 .. Len(all) /\ m <= i /\ all[i] <= end
        BY <2>1, <3>1
      <4>2. CASE i >= m + Limit
        <5>1. m \in 1 .. Len(all) - Limit /\ m + Limit \in 1 .. Len(all) /\ m + Limit <= i
          BY <2>1, <3>2, <4>1, <4>2, LimitAssumption
        <5>2. all[m] + WindowMs <= all[m + Limit] /\ all[m + Limit] <= all[i]
          BY <2>2, <4>1, <5>1
        <5>3. all[m] \in Nat /\ all[m + Limit] \in Nat /\ all[i] \in Nat
          BY <2>1, <3>2, <4>1, <5>1
        <5> QED
          BY <2>1, <3>2, <4>1, <5>2, <5>3, WindowAssumption
      <4> QED
        BY <3>2, <4>1, <4>2, LimitAssumption
    <3>4. IsFiniteSet(m .. (m + Limit - 1)) /\ Cardinality(m .. (m + Limit - 1)) = Limit
      <4> HIDE DEF S
      <4>1. m \in Int /\ m + Limit - 1 \in Int /\ m <= m + Limit - 1
        BY <3>2, LimitAssumption
      <4>2. /\ IsFiniteSet(m .. (m + Limit - 1))
            /\ Cardinality(m .. (m + Limit - 1)) =
                   IF m > m + Limit - 1 THEN 0 ELSE (m + Limit - 1) - m + 1
        BY <4>1, FS_Interval
      <4>3. ~(m > m + Limit - 1) /\ (m + Limit - 1) - m + 1 = Limit
        BY <4>1, LimitAssumption
      <4> QED
        BY <4>2, <4>3
    <3>5. S \in SUBSET (m .. (m + Limit - 1))
      BY <3>3
    <3> HIDE DEF S
    <3>6. Cardinality(S) <= Limit
      BY <3>4, <3>5, FS_Subset
    <3> QED
      BY <3>6 DEF S, all
  <2> QED
    BY <2>3, <2>4 DEF all
<1> QED
  BY <1>1, Invariance, PTL

(* retryAfterMs is exact: pruned at any later time, the window of a        *)
(* refused key has room again from then on and not before.                 *)
THEOREM RetryExact == Spec => []RetryAfterExact
<1>1. IInv => RetryAfterExact
  <2> SUFFICES ASSUME IInv, ~result.allowed,
                      NEW t \in result.at .. result.at + WindowMs
               PROVE  Len(Prune(windows[result.key], t)) < Limit
                          <=> t >= result.at + result.retryAfterMs
    BY DEF RetryAfterExact
  <2> DEFINE ts == windows[result.key]
             n == FirstValid(ts, t - WindowMs)
  <2>1. /\ ts \in Seq(Nat) /\ Len(ts) \in Nat /\ result.at \in Nat
        /\ result.key \in Key /\ Len(ts) >= Limit
        /\ result.retryAfterMs = ts[1] + WindowMs - result.at
    BY DEF IInv, TypeOK, RefusedIsFull
  <2>2. t \in Nat
    BY <2>1, WindowAssumption
  <2>3. Len(ts) <= Limit
    BY <2>1 DEF IInv, KeptIsRecent, Recent, GetOrCreate, RefusedIsFull
  <2>4. /\ n \in 0 .. Len(ts)
        /\ \A i \in 1 .. n : ts[i] <= t - WindowMs
        /\ n < Len(ts) => ts[n + 1] > t - WindowMs
        /\ Len(Prune(ts, t)) = Len(ts) - n
    BY <2>1, <2>2, PruneFacts
  <2> HIDE DEF ts, n
  <2>5. Len(ts) = Limit /\ 1 \in 1 .. Len(ts) /\ ts[1] \in Nat
    BY <2>1, <2>3, LimitAssumption
  <2>6. n > 0 <=> ts[1] <= t - WindowMs
    <3>1. n > 0 => 1 \in 1 .. n
      BY <2>1, <2>4
    <3>2. n = 0 => ts[1] > t - WindowMs
      BY <2>4, <2>5, LimitAssumption
    <3> QED
      BY <2>1, <2>2, <2>4, <2>5, <3>1, <3>2, WindowAssumption
  <2>7. Len(Prune(ts, t)) < Limit <=> t >= result.at + result.retryAfterMs
    BY <2>1, <2>2, <2>4, <2>5, <2>6, LimitAssumption, WindowAssumption
  <2> QED
    BY <2>7 DEF ts
<1> QED
  BY <1>1, Invariance, PTL

(* Forgetting old events changes no decision: the limiter implements the   *)
(* one that keeps the whole log.                                           *)
THEOREM ImplementsSlidingWindow == Spec => FullSpec
<1>1. Init => Full!Init
  BY DEF Init, NoResult, Full!Init
<1>2. \A S : Full!Cardinality(S) = Cardinality(S)
  BY DEF Full!Cardinality, Cardinality
<1>3. IInv /\ [Next]_vars => [Full!Next]_(Full!vars)
  <2> SUFFICES ASSUME IInv, [Next]_vars PROVE [Full!Next]_(Full!vars)
    OBVIOUS
  <2>1. ASSUME NEW k \in Key
        PROVE  Cardinality(Full!InWindow(k)) = Len(Prune(GetOrCreate(k), now))
    <3>1. /\ now \in Nat /\ GetOrCreate(k) \in Seq(Nat) /\ admitted[k] \in Seq(Nat)
          /\ Recent(admitted[k], GetOrCreate(k), now)
      BY EntryType DEF IInv, TypeOK, KeptIsRecent
    <3> QED
      BY <3>1, RecentCount DEF Full!InWindow
  <2>2. ASSUME NEW k \in Key, CheckAllowed(k) PROVE Full!Admit(k)
    BY <1>2, <2>1, <2>2 DEF CheckAllowed, Full!Admit
  <2>3. ASSUME NEW k \in Key, CheckDenied(k) PROVE Full!Refuse(k)
    BY <1>2, <2>1, <2>3 DEF CheckDenied, Full!Refuse
  <2>4. CASE Reset
    BY <2>4 DEF Reset, NoResult, Full!Next, Full!Forget
  <2>5. CASE Tick
    BY <2>5 DEF Tick, Full!Next, Full!Tick
  <2>6. CASE UNCHANGED vars
    BY <2>6 DEF vars, Full!vars
  <2> QED
    BY <2>2, <2>3, <2>4, <2>5, <2>6 DEF Next, Check, Full!Next
<1> QED
  BY <1>1, <1>3, Invariance, PTL DEF Spec, FullSpec, Full!Spec

=============================================================================
