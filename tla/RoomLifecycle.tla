---------------------------- MODULE RoomLifecycle ----------------------------
(***************************************************************************)
(* What the relay promises about a shared terminal, as the documentation   *)
(* draws it: waiting -> pending -> active -> ended, one joiner per share,  *)
(* and nobody but the two devices of the approved request in it until it   *)
(* ends.  One step of the relay may move several rooms.                    *)
(***************************************************************************)
CONSTANTS Room, HostDevice, GuestDevice, None

VARIABLES state,    \* of every room; None before it is shared
          sharer,   \* device in the host's seat of a live room
          joiner    \* device in the guest's seat of a pending or active room

vars == <<state, sharer, joiner>>

TypeOK ==
    /\ state \in [Room -> {None, "waiting", "pending", "active", "ended"}]
    /\ sharer \in [Room -> HostDevice \cup {None}]
    /\ joiner \in [Room -> GuestDevice \cup {None}]

Init ==
    /\ state = [r \in Room |-> None]
    /\ sharer = [r \in Room |-> None]
    /\ joiner = [r \in Room |-> None]

Share(r) ==
    /\ state[r] = None /\ state'[r] = "waiting"
    /\ sharer'[r] \in HostDevice /\ joiner'[r] = None

Ask(r) ==
    /\ state[r] = "waiting" /\ state'[r] = "pending"
    /\ sharer'[r] = sharer[r] /\ joiner'[r] \in GuestDevice

Grant(r) ==
    /\ state[r] = "pending" /\ state'[r] = "active"
    /\ sharer'[r] = sharer[r] /\ joiner'[r] = joiner[r]

End(r) ==
    /\ state[r] \in {"waiting", "pending", "active"} /\ state'[r] = "ended"
    /\ sharer'[r] = None /\ joiner'[r] = None

Stay(r) ==
    /\ state'[r] = state[r]
    /\ sharer'[r] = sharer[r] /\ joiner'[r] = joiner[r]

Next ==
    /\ TypeOK'
    /\ \A r \in Room : Share(r) \/ Ask(r) \/ Grant(r) \/ End(r) \/ Stay(r)

Spec == Init /\ [][Next]_vars

=============================================================================
