----------------------------- MODULE RateLimiter -----------------------------
(***************************************************************************)
(* The relay's in-memory sliding-window limiter (apps/server/src/          *)
(* rate-limiter.ts).  One instance per limited resource: connections,      *)
(* registrations and messages, each keyed by the remote IP.                *)
(*                                                                         *)
(* `now` is the value of Date.now(): a wall clock, assumed never to be set *)
(* back.                                                                   *)
(***************************************************************************)
EXTENDS Integers, Sequences, FiniteSets

CONSTANTS Key,        \* the keys (remote IPs)
          Limit,      \* events allowed within a window
          WindowMs,   \* length of the window
          MaxTime,    \* bound on the clock, for TLC
          MaxEvents   \* bound on the admitted events per key, for TLC

ASSUME LimitAssumption == Limit \in Nat \ {0}
ASSUME WindowAssumption == WindowMs \in Nat \ {0}
ASSUME BoundAssumption == MaxTime \in Nat /\ MaxEvents \in Nat

VARIABLES now,        \* the wall clock
          windows,    \* Map key -> entry.timestamps; only checked keys occur
          result,     \* what the last check returned, for which key, and when
          admitted    \* history: every event ever admitted, per key

vars == <<now, windows, result, admitted>>

NoResult == [key |-> "none", allowed |-> TRUE, remaining |-> 0, retryAfterMs |-> 0, at |-> 0]

TypeOK ==
    /\ now \in Nat
    /\ DOMAIN windows \subseteq Key
    /\ \A k \in DOMAIN windows : windows[k] \in Seq(Nat)
    /\ admitted \in [Key -> Seq(Nat)]
    /\ result.allowed \in BOOLEAN
    /\ result.remaining \in Nat
    /\ result.retryAfterMs \in Nat
    /\ result.at \in Nat

Init ==
    /\ now = 0
    /\ windows = [k \in {} |-> <<>>]
    /\ result = NoResult
    /\ admitted = [k \in Key |-> <<>>]

-----------------------------------------------------------------------------

(* Mutants of prune: one millisecond too many, and one too few. *)
FirstValidEarly(ts, cutoff) ==
    CHOOSE n \in 0 .. Len(ts) :
        /\ \A i \in 1 .. n : ts[i] <= cutoff + 1
        /\ n < Len(ts) => ts[n + 1] > cutoff + 1
FirstValidLate(ts, cutoff) ==
    CHOOSE n \in 0 .. Len(ts) :
        /\ \A i \in 1 .. n : ts[i] < cutoff
        /\ n < Len(ts) => ts[n + 1] >= cutoff

(* The loop of prune: the number of leading timestamps that have left the  *)
(* window.  It stops at the first valid one and never looks behind it.     *)
FirstValid(ts, cutoff) ==
    CHOOSE n \in 0 .. Len(ts) :
        /\ \A i \in 1 .. n : ts[i] <= cutoff
        /\ n < Len(ts) => ts[n + 1] > cutoff

Prune(ts, t) == SubSeq(ts, FirstValid(ts, t - WindowMs) + 1, Len(ts))

GetOrCreate(k) == IF k \in DOMAIN windows THEN windows[k] ELSE <<>>

SetEntry(k, ts) ==
    windows' = [x \in DOMAIN windows \cup {k} |-> IF x = k THEN ts ELSE windows[x]]

Positive(n) == IF n > 0 THEN n ELSE 0

CheckAllowed(k) ==
    LET ts == Prune(GetOrCreate(k), now) IN
    /\ Len(ts) < Limit
    /\ Len(admitted[k]) < MaxEvents
    /\ SetEntry(k, Append(ts, now))
    /\ admitted' = [admitted EXCEPT ![k] = Append(@, now)]
    /\ result' = [key |-> k, allowed |-> TRUE,
                  remaining |-> Limit - (Len(ts) + 1), retryAfterMs |-> 0,
                  at |-> now]
    /\ UNCHANGED now

(* Mutant: the newest event instead of the oldest. *)
CheckDeniedByNewest(k) ==
    LET ts == Prune(GetOrCreate(k), now) IN
    /\ Len(ts) >= Limit
    /\ SetEntry(k, ts)
    /\ result' = [key |-> k, allowed |-> FALSE, remaining |-> 0,
                  retryAfterMs |-> Positive(ts[Len(ts)] + WindowMs - now), at |-> now]
    /\ UNCHANGED <<now, admitted>>

CheckDenied(k) ==
    LET ts == Prune(GetOrCreate(k), now) IN
    /\ Len(ts) >= Limit
    /\ SetEntry(k, ts)
    /\ result' = [key |-> k, allowed |-> FALSE, remaining |-> 0,
                  retryAfterMs |-> Positive(ts[1] + WindowMs - now), at |-> now]
    /\ UNCHANGED <<now, admitted>>

Check(k) == CheckAllowed(k) \/ CheckDenied(k)

(* reset() forgets every event, so the history starts again.               *)
Reset ==
    /\ windows' = [k \in {} |-> <<>>]
    /\ admitted' = [k \in Key |-> <<>>]
    /\ result' = NoResult
    /\ UNCHANGED now

(* Date.now() between two calls. *)
Tick ==
    /\ now < MaxTime
    /\ now' = now + 1
    /\ UNCHANGED <<windows, result, admitted>>

Next == (\E k \in Key : Check(k)) \/ Reset \/ Tick

Spec == Init /\ [][Next]_vars

-----------------------------------------------------------------------------

(* The limit is a limit on every window, not only on the windows that end  *)
(* at a check: however the calls of check() fall, no half-open interval of *)
(* WindowMs milliseconds holds more than Limit admitted events of one key. *)
SlidingWindowBound ==
    \A k \in Key : \A end \in 0 .. now :
        Cardinality({i \in DOMAIN admitted[k] :
                        /\ admitted[k][i] > end - WindowMs
                        /\ admitted[k][i] <= end}) <= Limit

(* retryAfterMs, which the relay logs for a refused caller, is exact: a    *)
(* check of that key before it has passed is refused again, and a check    *)
(* once it has passed is admitted.                                         *)
RetryAfterExact ==
    ~result.allowed =>
        \A t \in result.at .. result.at + WindowMs :
            Len(Prune(windows[result.key], t)) < Limit
                <=> t >= result.at + result.retryAfterMs

(* What the limiter promises is the decision of a limiter that never       *)
(* forgets an event: pruning only drops what no later check would count.   *)
Full == INSTANCE SlidingWindow WITH log <- admitted, allowed <- result.allowed

FullSpec == Full!Spec

=============================================================================
