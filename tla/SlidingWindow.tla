---------------------------- MODULE SlidingWindow ----------------------------
(***************************************************************************)
(* What a sliding-window limiter promises: an event of a key is admitted   *)
(* exactly when fewer than Limit events of that key were admitted during   *)
(* the WindowMs milliseconds before it.  The whole log is kept.            *)
(***************************************************************************)
EXTENDS Integers, Sequences, FiniteSets

CONSTANTS Key, Limit, WindowMs

VARIABLES now, log, allowed

vars == <<now, log, allowed>>

InWindow(k) == {i \in DOMAIN log[k] : log[k][i] > now - WindowMs}

Init ==
    /\ now = 0
    /\ log = [k \in Key |-> <<>>]
    /\ allowed = TRUE

Admit(k) ==
    /\ Cardinality(InWindow(k)) < Limit
    /\ log' = [log EXCEPT ![k] = Append(@, now)]
    /\ allowed' = TRUE
    /\ UNCHANGED now

Refuse(k) ==
    /\ Cardinality(InWindow(k)) >= Limit
    /\ allowed' = FALSE
    /\ UNCHANGED <<now, log>>

Forget ==
    /\ log' = [k \in Key |-> <<>>]
    /\ allowed' = TRUE
    /\ UNCHANGED now

Tick == now' = now + 1 /\ UNCHANGED <<log, allowed>>

Next ==
    \/ \E k \in Key : Admit(k) \/ Refuse(k)
    \/ Forget
    \/ Tick

Spec == Init /\ [][Next]_vars

=============================================================================
