------------------------------ MODULE PolicyStore ------------------------------
(***************************************************************************)
(* The access policy of a machine: apps/cli/src/permissions/policy.ts, as  *)
(* `tbridge allow`, `deny`, `forget`, `policy` and `share` use it.  All of *)
(* these are processes of their own on one JSON file, without a lock.      *)
(*                                                                         *)
(* An action is what a process does between two awaits, and a process may  *)
(* die at any point (an interrupt, a full disk, the end of the machine).   *)
(* The text is a function from users to access, "ask" standing for no      *)
(* entry; its length is its number of entries, as user ids are taken to be *)
(* equally long.                                                           *)
(***************************************************************************)
EXTENDS TextFile, FiniteSets

CONSTANT User

ASSUME PolicyAssumption == IsFiniteSet(User) /\ None \notin User

VARIABLES
    policy,     \* the file
    policyPc,   \* where each process is
    change,     \* what it was asked to do: the entry to set, or whom to judge
    loaded,     \* its copy of the policy, with the change made
    verdict,    \* what decideAccess told it
    completed,  \* history: the sum of the changes that were reported as made
    stale       \* history: processes whose copy lacks one of them

policyVars == <<policy, policyPc, change, loaded, verdict, completed, stale>>

AccessMode == {"ask", "trusted", "blocked"}

Users == [User -> AccessMode]

DefaultPolicy == [u \in User |-> "ask"]

Size(users) == Cardinality({u \in User : users[u] # "ask"})

NoChange == [user |-> None, access |-> "ask"]

PolicyTypeOK ==
    /\ policy \in File(Users, 0 .. Cardinality(User))
    /\ policyPc \in [Process -> {"idle", "load", "truncate", "write", "decide", "done",
                                 "failed"}]
    /\ change \in [Process -> [user : User \cup {None}, access : AccessMode]]
    /\ loaded \in [Process -> Users]
    /\ verdict \in [Process -> {"deny", "allow", "ask", None}]
    /\ completed \in Users
    /\ stale \subseteq Process

PolicyInit ==
    /\ policy = Absent(DefaultPolicy)
    /\ policyPc = [p \in Process |-> "idle"]
    /\ change = [p \in Process |-> NoChange]
    /\ loaded = [p \in Process |-> DefaultPolicy]
    /\ verdict = [p \in Process |-> None]
    /\ completed = DefaultPolicy
    /\ stale = {}

PolicyAt(p, from, to) ==
    policyPc[p] = from /\ policyPc' = [policyPc EXCEPT ![p] = to]

(* Mutant: whatever cannot be read is no policy yet. *)
LoadsOrDefaults(users) ==
    \/ policy.state = "whole" /\ users = policy.text
    \/ policy.state # "whole" /\ users = DefaultPolicy

(* loadPolicy returns users; it throws if the file is torn. *)
Loads(users) ==
    \/ policy.state = "whole" /\ users = policy.text
    \/ policy.state = "absent" /\ users = DefaultPolicy

-----------------------------------------------------------------------------
(* allow, deny and forget: setUserAccess and removeUserAccess.             *)

ChangeAccess(p, u, access) ==
    /\ PolicyAt(p, "idle", "load")
    /\ change' = [change EXCEPT ![p] = [user |-> u, access |-> access]]
    /\ UNCHANGED <<policy, loaded, verdict, completed, stale>>

LoadPolicy(p) ==
    /\ PolicyAt(p, "load", "truncate")
    /\ \E users \in Users :
        /\ Loads(users)
        /\ loaded' = [loaded EXCEPT ![p] = [users EXCEPT ![change[p].user] = change[p].access]]
    /\ UNCHANGED <<policy, change, verdict, completed, stale>>

(* The command prints the error and exits. *)
LoadFails(p) ==
    /\ PolicyAt(p, "load", "failed")
    /\ ~\E users \in Users : Loads(users)
    /\ UNCHANGED <<policy, change, loaded, verdict, completed, stale>>

(* savePolicy; mkdir before it creates no more than the directory. *)
TruncatePolicy(p) ==
    /\ PolicyAt(p, "truncate", "write")
    /\ policy' = Emptied(DefaultPolicy)
    /\ UNCHANGED <<change, loaded, verdict, completed, stale>>

(* The text goes to the start of the file.  If another process has written *)
(* a longer one in the meantime, the rest of that remains behind it.       *)
WritePolicy(p) ==
    /\ PolicyAt(p, "write", "done")
    /\ policy' = Overwritten(policy, loaded[p], Size(loaded[p]), DefaultPolicy)
    /\ completed' = IF p \in stale THEN loaded[p]
                    ELSE [completed EXCEPT ![change[p].user] = change[p].access]
    /\ stale' = {q \in Process : q # p /\ policyPc[q] \in {"truncate", "write"}}
    /\ UNCHANGED <<change, loaded, verdict>>

-----------------------------------------------------------------------------
(* share: decideAccess.                                                    *)

AccessRequested(p, u) ==
    /\ PolicyAt(p, "idle", "decide")
    /\ change' = [change EXCEPT ![p] = [user |-> u, access |-> "ask"]]
    /\ UNCHANGED <<policy, loaded, verdict, completed, stale>>

Verdict(access) ==
    CASE access = "blocked" -> "deny" [] access = "trusted" -> "allow" [] OTHER -> "ask"

DecideAccess(p) ==
    /\ PolicyAt(p, "decide", "done")
    /\ \E users \in Users :
        /\ Loads(users)
        /\ verdict' = [verdict EXCEPT ![p] = Verdict(users[change[p].user])]
    /\ UNCHANGED <<policy, change, loaded, completed, stale>>

(* The rejected promise of the message handler ends the process. *)
DecideFails(p) ==
    /\ PolicyAt(p, "decide", "failed")
    /\ ~\E users \in Users : Loads(users)
    /\ UNCHANGED <<policy, change, loaded, verdict, completed, stale>>

-----------------------------------------------------------------------------

(* The process dies. *)
PolicyDies(p) ==
    /\ policyPc' = [policyPc EXCEPT ![p] = IF @ = "done" THEN @ ELSE "failed"]
    /\ UNCHANGED <<policy, change, loaded, verdict, completed, stale>>

PolicyStep(p) ==
    \/ LoadPolicy(p) \/ LoadFails(p) \/ TruncatePolicy(p) \/ WritePolicy(p)
    \/ DecideAccess(p) \/ DecideFails(p)

-----------------------------------------------------------------------------

(* A policy that can be read is the sum of all the changes that were       *)
(* reported as made, wherever processes died in the midst of one: a torn   *)
(* file never turns into a policy without its blocks.  The one exception   *)
(* is a change written by a process whose copy lacked another, from which  *)
(* the sum then starts again.                                              *)
PolicyIsSum ==
    policy.state # "torn" => policy.text = completed

=============================================================================
