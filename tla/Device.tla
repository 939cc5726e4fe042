-------------------------------- MODULE Device --------------------------------
(***************************************************************************)
(* A machine on which several commands of apps/cli/src/main.ts run at the  *)
(* same time, each in a process of its own: login, logout, allow, deny,    *)
(* forget, share, connect and the interactive program.  They meet in the   *)
(* files of ~/.tbridge and in the credential store (PolicyStore,           *)
(* IdentityStore).  `share` loads or makes an identity before it registers *)
(* its code, and asks the policy when a guest requests access.             *)
(***************************************************************************)
EXTENDS PolicyStore, IdentityStore

VARIABLE command    \* what each process runs; "dead" when it was interrupted

vars == <<policyVars, identityVars, command>>

Command == {"none", "policy", "identity", "share", "dead"}

TypeOK ==
    /\ command \in [Process -> Command]
    /\ PolicyTypeOK
    /\ IdentityTypeOK

Init ==
    /\ command = [p \in Process |-> "none"]
    /\ PolicyInit
    /\ IdentityInit

Starts(p, c) == command[p] = "none" /\ command' = [command EXCEPT ![p] = c]

StartPolicy(p) ==
    /\ Starts(p, "policy")
    /\ \E u \in User, access \in AccessMode : ChangeAccess(p, u, access)
    /\ UNCHANGED identityVars

StartIdentity(p) ==
    /\ Starts(p, "identity")
    /\ \/ \E user \in {OtherUser, None} : Login(p, user) \/ UseIdentity(p, user)
       \/ Logout(p)
    /\ UNCHANGED policyVars

StartShare(p) ==
    /\ Starts(p, "share")
    /\ UseIdentity(p, None)
    /\ UNCHANGED policyVars

(* A guest asks for access to what p shares. *)
GuestAsks(p, u) ==
    /\ command[p] = "share"
    /\ held[p] # None
    /\ AccessRequested(p, u)
    /\ UNCHANGED <<identityVars, command>>

Steps(p) ==
    /\ command[p] # "dead"
    /\ \/ PolicyStep(p) /\ UNCHANGED identityVars
       \/ IdentityStep(p) /\ UNCHANGED policyVars
    /\ UNCHANGED command

Ended(p) ==
    CASE command[p] = "policy" -> policyPc[p] \in {"done", "failed"}
      [] command[p] = "identity" -> identityPc[p] \in {"done", "failed"}
      [] command[p] = "share" -> identityPc[p] = "failed" \/ policyPc[p] = "failed"
      [] OTHER -> TRUE

Dies(p) ==
    /\ ~Ended(p)
    /\ command' = [command EXCEPT ![p] = "dead"]
    /\ PolicyDies(p)
    /\ IdentityDies(p)

Next ==
    \E p \in Process :
        \/ StartPolicy(p) \/ StartIdentity(p) \/ StartShare(p)
        \/ \E u \in User : GuestAsks(p, u)
        \/ Steps(p)
        \/ Dies(p)

Spec == Init /\ [][Next]_vars

=============================================================================
