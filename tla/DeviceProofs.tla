----------------------------- MODULE DeviceProofs -----------------------------
(***************************************************************************)
(* Proofs about Device, for any finite set of users and any number of      *)
(* processes.  Each store has an inductive invariant of its own, kept by   *)
(* every action on the store, whatever happens to the other.               *)
(***************************************************************************)
EXTENDS Device, FiniteSetTheorems, TLAPS

(***************************************************************************)
(* The policy.                                                             *)
(***************************************************************************)

(* What a process does to the policy. *)
PolicyAction(p) ==
    \/ \E u \in User, access \in AccessMode : ChangeAccess(p, u, access)
    \/ \E u \in User : AccessRequested(p, u)
    \/ LoadPolicy(p) \/ LoadFails(p) \/ TruncatePolicy(p) \/ WritePolicy(p)
    \/ DecideAccess(p) \/ DecideFails(p) \/ PolicyDies(p)

(* A writer whose copy is not stale is about to write the sum so far and   *)
(* its own change.                                                         *)
CopyIsSum ==
    \A p \in Process : policyPc[p] \in {"truncate", "write"} /\ p \notin stale =>
        loaded[p] = [completed EXCEPT ![change[p].user] = change[p].access]

(* A file that is absent stands for the default policy. *)
AbsentIsDefault == policy.state = "absent" => policy.text = DefaultPolicy

(* The inductive invariant of the policy. *)
PolicyInv == PolicyTypeOK /\ PolicyIsSum /\ CopyIsSum /\ AbsentIsDefault

(* The length of a text is one a file can have. *)
LEMMA SizeType == ASSUME NEW users \in Users PROVE Size(users) \in 0 .. Cardinality(User)
<1> DEFINE S == {u \in User : users[u] # "ask"}
<1>1. IsFiniteSet(S) /\ Cardinality(S) <= Cardinality(User)
  BY PolicyAssumption, FS_Subset
<1>2. Cardinality(S) \in Nat /\ Cardinality(User) \in Nat
  BY <1>1, PolicyAssumption, FS_CardinalityType
<1> QED
  BY <1>1, <1>2 DEF Size

(* loadPolicy returns a policy: the sum so far. *)
LEMMA LoadsSum ==
    ASSUME PolicyInv, NEW users \in Users, Loads(users)
    PROVE  users = completed
BY DEF PolicyInv, PolicyIsSum, AbsentIsDefault, Loads

(* An entry that is set leaves a policy. *)
LEMMA SetType ==
    ASSUME PolicyTypeOK, NEW users \in Users, NEW p \in Process
    PROVE  [users EXCEPT ![change[p].user] = change[p].access] \in Users
BY DEF PolicyTypeOK, Users

(* Everything a process does to the policy keeps its invariant. *)
LEMMA PolicyStepInv ==
    ASSUME PolicyInv, NEW p \in Process, PolicyAction(p)
    PROVE  PolicyInv'
<1> USE DEF PolicyInv, PolicyAt
<1>1. ASSUME NEW u \in User, NEW access \in AccessMode, ChangeAccess(p, u, access)
      PROVE  PolicyInv'
  BY <1>1 DEF ChangeAccess, PolicyTypeOK, PolicyIsSum, CopyIsSum, AbsentIsDefault
<1>2. ASSUME NEW u \in User, AccessRequested(p, u) PROVE PolicyInv'
  BY <1>2 DEF AccessRequested, PolicyTypeOK, PolicyIsSum, CopyIsSum, AbsentIsDefault, AccessMode
<1>3. CASE LoadPolicy(p)
  <2>1. PICK users \in Users :
            /\ Loads(users)
            /\ loaded' = [loaded EXCEPT ![p] = [users EXCEPT ![change[p].user] = change[p].access]]
    BY <1>3 DEF LoadPolicy
  <2>2. users = completed
    BY <2>1, LoadsSum
  <2>3. PolicyTypeOK'
    BY <1>3, <2>1, SetType DEF LoadPolicy, PolicyTypeOK
  <2>4. CopyIsSum'
    BY <1>3, <2>1, <2>2 DEF LoadPolicy, CopyIsSum, PolicyTypeOK
  <2> QED
    BY <1>3, <2>3, <2>4 DEF LoadPolicy, PolicyIsSum, AbsentIsDefault
<1>4. CASE LoadFails(p)
  BY <1>4 DEF LoadFails, PolicyTypeOK, PolicyIsSum, CopyIsSum, AbsentIsDefault
<1>5. CASE TruncatePolicy(p)
  <2>1. policy' = [state |-> "torn", text |-> DefaultPolicy, size |-> 0]
    BY <1>5 DEF TruncatePolicy, Emptied, Torn
  <2>2. PolicyTypeOK'
    <3>1. policy' \in File(Users, 0 .. Cardinality(User))
      <4>1. 0 \in 0 .. Cardinality(User)
        BY PolicyAssumption, FS_CardinalityType
      <4> QED
        BY <2>1, <4>1 DEF File, DefaultPolicy, Users, AccessMode
    <3> QED
      BY <1>5, <3>1 DEF TruncatePolicy, PolicyTypeOK
  <2> QED
    BY <1>5, <2>1, <2>2 DEF TruncatePolicy, PolicyIsSum, CopyIsSum, AbsentIsDefault, PolicyTypeOK
<1>6. CASE WritePolicy(p)
  <2>1. /\ loaded[p] \in Users
        /\ Size(loaded[p]) \in 0 .. Cardinality(User)
    BY SizeType DEF PolicyTypeOK
  <2>2. /\ policy' \in {Torn(DefaultPolicy, policy.size), Whole(loaded[p], Size(loaded[p]))}
        /\ completed' = loaded[p]
    <3>1. loaded[p] = [completed EXCEPT ![change[p].user] = change[p].access] \/ p \in stale
      BY <1>6 DEF WritePolicy, CopyIsSum
    <3> QED
      BY <1>6, <3>1 DEF WritePolicy, Overwritten
  <2>3. PolicyTypeOK'
    <3>1. policy' \in File(Users, 0 .. Cardinality(User))
      BY <2>1, <2>2 DEF PolicyTypeOK, File, Torn, Whole, DefaultPolicy, Users, AccessMode
    <3> QED
      BY <1>6, <2>1, <2>2, <3>1 DEF WritePolicy, PolicyTypeOK
  <2>4. PolicyIsSum' /\ AbsentIsDefault'
    BY <2>2 DEF PolicyIsSum, AbsentIsDefault, Torn, Whole
  <2>5. CopyIsSum'
    BY <1>6 DEF WritePolicy, CopyIsSum, PolicyTypeOK
  <2> QED
    BY <2>3, <2>4, <2>5
<1>7. CASE DecideAccess(p)
  <2>1. PICK users \in Users : verdict' = [verdict EXCEPT ![p] = Verdict(users[change[p].user])]
    BY <1>7 DEF DecideAccess
  <2>2. \A access : Verdict(access) \in {"deny", "allow", "ask", None}
    BY DEF Verdict
  <2> QED
    BY <1>7, <2>1, <2>2 DEF DecideAccess, PolicyTypeOK, PolicyIsSum, CopyIsSum, AbsentIsDefault
<1>8. CASE DecideFails(p)
  BY <1>8 DEF DecideFails, PolicyTypeOK, PolicyIsSum, CopyIsSum, AbsentIsDefault
<1>9. CASE PolicyDies(p)
  BY <1>9 DEF PolicyDies, PolicyTypeOK, PolicyIsSum, CopyIsSum, AbsentIsDefault
<1> QED
  BY <1>1, <1>2, <1>3, <1>4, <1>5, <1>6, <1>7, <1>8, <1>9 DEF PolicyAction

(* A step of the machine is one on the policy, or leaves it alone. *)
LEMMA PolicyPart == [Next]_vars => UNCHANGED policyVars \/ \E p \in Process : PolicyAction(p)
BY DEF Next, vars, StartPolicy, StartIdentity, StartShare, GuestAsks, Steps, Dies, PolicyStep,
       PolicyAction

(* The inductive invariant of the policy holds in every reachable state. *)
THEOREM PolicyInvariance == Spec => []PolicyInv
<1>1. Init => PolicyInv
  <2>1. DefaultPolicy \in Users /\ 0 \in 0 .. Cardinality(User)
    BY PolicyAssumption, FS_CardinalityType DEF DefaultPolicy, Users, AccessMode
  <2> QED
    BY <2>1 DEF Init, PolicyInit, PolicyInv, PolicyTypeOK, PolicyIsSum, CopyIsSum,
                AbsentIsDefault, Absent, File, NoChange, AccessMode
<1>2. PolicyInv /\ [Next]_vars => PolicyInv'
  <2>1. PolicyInv /\ UNCHANGED policyVars => PolicyInv'
    BY DEF PolicyInv, policyVars, PolicyTypeOK, PolicyIsSum, CopyIsSum, AbsentIsDefault
  <2> QED
    BY <2>1, PolicyPart, PolicyStepInv
<1> QED
  BY <1>1, <1>2, PTL DEF Spec

(* allow, deny and forget, whatever overlaps and whatever dies: a policy   *)
(* that can be read is the sum of the changes that were reported as made.  *)
THEOREM PolicyKept == Spec => []PolicyIsSum
BY PolicyInvariance, PTL DEF PolicyInv

(***************************************************************************)
(* The identity.                                                           *)
(***************************************************************************)

(* What a process does to the identity. *)
IdentityAction(p) ==
    \/ \E user \in {OtherUser, None} : UseIdentity(p, user) \/ Login(p, user)
    \/ ReadIdentity(p) \/ LookUp(p) \/ ReadFails(p)
    \/ StorePrivateKey(p) \/ TruncateIdentity(p) \/ WriteIdentity(p)
    \/ Logout(p) \/ ReadForLogout(p) \/ LookUpForLogout(p)
    \/ DeletePrivateKey(p) \/ UnlinkIdentity(p) \/ IdentityDies(p)

(* A record that can be read is one some process has made. *)
WholeHasOwner == identity.state = "whole" => identity.text \in Process

(* Whoever looks a key up, or deletes one, has read whose it is. *)
FoundIsIdentity ==
    \A p \in Process : identityPc[p] \in {"lookup", "lookupOut", "delete"} => found[p] \in Process

(* Whoever keeps its key in the credential store has it there, whether or  *)
(* not its record has reached the file.                                    *)
KeyStored == \A p \in Process : backend[p] = "keychain" => p \in keychain \cup removed

(* The inductive invariant of the identity, disturbed or not. *)
IdentityInv == IdentityTypeOK /\ WholeHasOwner /\ FoundIsIdentity /\ KeyStored

(* Processes that are making an identity. *)
Creating == {p \in Process : identityPc[p] \in {"store", "truncate", "write"}}

(* While nothing disturbs the machine, a whole record stays: nobody is     *)
(* making another, its key can be found, and it is what everybody holds;   *)
(* and a file that is not whole has nothing in it.                         *)
Undisturbed ==
    /\ removed = {}
    /\ \A p \in Process :
        /\ wanted[p] = None
        /\ identityPc[p] \notin {"loadOut", "lookupOut", "delete", "unlink"}
        /\ identityPc[p] = "write" => p \in opened
        /\ identityPc[p] = "lookup" =>
            identity.state = "whole" /\ found[p] = identity.text /\ found[p] \in keychain
        /\ held[p] # None => identity.state = "whole" /\ held[p] = identity.text
    /\ IF identity.state = "whole" THEN Creating = {} ELSE identity.size = 0

(* The inductive invariant of the identity. *)
DeviceInv == IdentityInv /\ (~disturbed => Undisturbed)

(* The identity of a text, and the length of one, are of their types. *)
LEMMA WholeType == ASSUME NEW p \in Process, NEW store PROVE Whole(p, Length(store))
                            \in File(Process \cup {None}, 0 .. 2)
BY DEF Whole, Length, File

(* Everything a process does to the identity keeps its invariant. *)
LEMMA IdentityStepInv ==
    ASSUME IdentityInv, NEW p \in Process, IdentityAction(p)
    PROVE  IdentityInv'
<1> USE DEF IdentityInv, IdentityAt, IdentityPc
<1>1. ASSUME NEW user \in {OtherUser, None}, UseIdentity(p, user) \/ Login(p, user)
      PROVE  IdentityInv'
  <2>1. disturbed' \in BOOLEAN
    BY <1>1 DEF UseIdentity, Login
  <2>2. wanted' \in [Process -> {OtherUser, None}]
    BY <1>1 DEF UseIdentity, Login, IdentityTypeOK
  <2> QED
    BY <1>1, <2>1, <2>2 DEF UseIdentity, Login, IdentityTypeOK, WholeHasOwner, FoundIsIdentity,
                            KeyStored
<1>2. CASE ReadIdentity(p)
  <2>1. identity.text \in Process \cup {None}
    BY DEF IdentityTypeOK, File
  <2> QED
    BY <1>2, <2>1 DEF ReadIdentity, Holds, InKeychain, IdentityTypeOK, WholeHasOwner,
                      FoundIsIdentity, KeyStored
<1>3. CASE LookUp(p)
  BY <1>3 DEF LookUp, Holds, IdentityTypeOK, WholeHasOwner, FoundIsIdentity, KeyStored
<1>4. CASE ReadFails(p)
  BY <1>4 DEF ReadFails, IdentityTypeOK, WholeHasOwner, FoundIsIdentity, KeyStored
<1>5. CASE StorePrivateKey(p)
  BY <1>5 DEF StorePrivateKey, IdentityTypeOK, WholeHasOwner, FoundIsIdentity, KeyStored
<1>6. CASE TruncateIdentity(p)
  <2>1. identity' = [state |-> "torn", text |-> None, size |-> 0]
    BY <1>6 DEF TruncateIdentity, Emptied, Torn
  <2>2. identity' \in File(Process \cup {None}, 0 .. 2)
    BY <2>1 DEF File
  <2> QED
    BY <1>6, <2>1, <2>2 DEF TruncateIdentity, IdentityTypeOK, WholeHasOwner, FoundIsIdentity,
                            KeyStored
<1>7. CASE WriteIdentity(p)
  <2>1. identity' \in {identity, Torn(None, identity.size), Whole(p, Length(backend[p]))}
    BY <1>7 DEF WriteIdentity, Overwritten
  <2>2. identity' \in File(Process \cup {None}, 0 .. 2)
    <3>1. Torn(None, identity.size) \in File(Process \cup {None}, 0 .. 2)
      BY DEF IdentityTypeOK, Torn, File
    <3> QED
      BY <2>1, <3>1, WholeType DEF IdentityTypeOK
  <2>3. WholeHasOwner'
    BY <2>1 DEF WholeHasOwner, Torn, Whole
  <2> QED
    BY <1>7, <2>2, <2>3 DEF WriteIdentity, Holds, IdentityTypeOK, FoundIsIdentity, KeyStored
<1>8. CASE Logout(p)
  BY <1>8 DEF Logout, IdentityTypeOK, WholeHasOwner, FoundIsIdentity, KeyStored
<1>9. CASE ReadForLogout(p)
  <2>1. identity.text \in Process \cup {None}
    BY DEF IdentityTypeOK, File
  <2> QED
    BY <1>9, <2>1 DEF ReadForLogout, IdentityTypeOK, WholeHasOwner, FoundIsIdentity, KeyStored
<1>10. CASE LookUpForLogout(p)
  BY <1>10 DEF LookUpForLogout, IdentityTypeOK, WholeHasOwner, FoundIsIdentity, KeyStored
<1>11. CASE DeletePrivateKey(p)
  BY <1>11 DEF DeletePrivateKey, IdentityTypeOK, WholeHasOwner, FoundIsIdentity, KeyStored
<1>12. CASE UnlinkIdentity(p)
  BY <1>12 DEF UnlinkIdentity, Absent, File, IdentityTypeOK, WholeHasOwner, FoundIsIdentity,
               KeyStored
<1>13. CASE IdentityDies(p)
  BY <1>13 DEF IdentityDies, IdentityTypeOK, WholeHasOwner, FoundIsIdentity, KeyStored
<1> QED
  BY <1>1, <1>2, <1>3, <1>4, <1>5, <1>6, <1>7, <1>8, <1>9, <1>10, <1>11, <1>12, <1>13
     DEF IdentityAction

(* An undisturbed machine on which nothing disturbing happens stays so. *)
LEMMA UndisturbedStep ==
    ASSUME IdentityInv, Undisturbed, ~disturbed, NEW p \in Process, IdentityAction(p), ~disturbed'
    PROVE  Undisturbed'
<1> USE IdentityAssumption DEF IdentityInv, IdentityTypeOK, IdentityPc, IdentityAt, Undisturbed,
                               Creating
<1>1. ASSUME NEW user \in {OtherUser, None}, UseIdentity(p, user) PROVE Undisturbed'
  <2>1. user = None
    BY <1>1 DEF UseIdentity
  <2> QED
    BY <1>1, <2>1 DEF UseIdentity
<1>2. CASE ReadIdentity(p)
  <2>1. CASE identity.state = "absent"
    BY <1>2, <2>1 DEF ReadIdentity, InFile, InKeychain
  <2>2. CASE InFile
    BY <1>2, <2>2 DEF ReadIdentity, InFile, InKeychain, Holds, Suits, WholeHasOwner
  <2>3. CASE InKeychain
    <3>1. identity.text \in keychain
      BY <2>3 DEF InKeychain, WholeHasOwner, KeyStored
    <3> QED
      BY <1>2, <2>3, <3>1 DEF ReadIdentity, InFile, InKeychain
  <2> QED
    BY <1>2, <2>1, <2>2, <2>3 DEF ReadIdentity
<1>3. CASE LookUp(p)
  BY <1>3 DEF LookUp, Holds, Suits, FoundIsIdentity
<1>4. CASE ReadFails(p)
  BY <1>4 DEF ReadFails
<1>5. CASE StorePrivateKey(p)
  BY <1>5 DEF StorePrivateKey
<1>6. CASE TruncateIdentity(p)
  <2>1. identity' = [state |-> "torn", text |-> None, size |-> 0]
    BY <1>6 DEF TruncateIdentity, Emptied, Torn
  <2>2. identity.state # "whole"
    BY <1>6 DEF TruncateIdentity
  <2> QED
    BY <1>6, <2>1, <2>2 DEF TruncateIdentity
<1>7. CASE WriteIdentity(p)
  <2>1. identity.state # "whole" /\ identity.size = 0 /\ p \in opened
    BY <1>7 DEF WriteIdentity
  <2>2. identity' = Whole(p, Length(backend[p]))
    BY <1>7, <2>1 DEF WriteIdentity, Overwritten, Length
  <2>3. identity'.state = "whole" /\ identity'.text = p
    BY <2>2 DEF Whole
  <2>4. Creating' = {}
    BY <1>7 DEF WriteIdentity
  <2>5. held' = [held EXCEPT ![p] = p] /\ \A q \in Process : held[q] = None
    BY <1>7, <2>1 DEF WriteIdentity, Holds
  <2> QED
    BY <1>7, <2>1, <2>3, <2>4, <2>5 DEF WriteIdentity
<1>8. CASE IdentityDies(p)
  BY <1>8 DEF IdentityDies
<1> QED
  BY <1>1, <1>2, <1>3, <1>4, <1>5, <1>6, <1>7, <1>8
     DEF IdentityAction, Login, Logout, ReadForLogout, LookUpForLogout, DeletePrivateKey,
         UnlinkIdentity

(* Once disturbed, a machine remains so. *)
LEMMA DisturbedForGood ==
    ASSUME NEW p \in Process, IdentityAction(p), disturbed, disturbed \in BOOLEAN
    PROVE  disturbed'
BY DEF IdentityAction, UseIdentity, Login, ReadIdentity, LookUp, ReadFails, StorePrivateKey,
       TruncateIdentity, WriteIdentity, Logout, ReadForLogout, LookUpForLogout, DeletePrivateKey,
       UnlinkIdentity, IdentityDies

(* A step of the machine is one on the identity, or leaves it alone. *)
LEMMA IdentityPart ==
    [Next]_vars => UNCHANGED identityVars \/ \E p \in Process : IdentityAction(p)
BY DEF Next, vars, StartPolicy, StartIdentity, StartShare, GuestAsks, Steps, Dies, IdentityStep,
       IdentityAction

(* The inductive invariant of the identity holds in every reachable state. *)
THEOREM IdentityInvariance == Spec => []DeviceInv
<1>1. Init => DeviceInv
  <2> SUFFICES ASSUME IdentityInit PROVE DeviceInv
    BY DEF Init
  <2>1. IdentityTypeOK
    <3>1. identity \in File(Process \cup {None}, 0 .. 2)
      BY DEF IdentityInit, Absent, File
    <3>2. disturbed \in BOOLEAN
      BY DEF IdentityInit
    <3> QED
      BY <3>1, <3>2 DEF IdentityInit, IdentityTypeOK, IdentityPc
  <2>2. WholeHasOwner /\ FoundIsIdentity /\ KeyStored
    BY IdentityAssumption
       DEF IdentityInit, Absent, WholeHasOwner, FoundIsIdentity, KeyStored
  <2>3. Undisturbed
    BY DEF IdentityInit, Absent, Undisturbed, Creating
  <2> QED
    BY <2>1, <2>2, <2>3 DEF DeviceInv, IdentityInv
<1>2. DeviceInv /\ [Next]_vars => DeviceInv'
  <2>1. ASSUME DeviceInv, UNCHANGED identityVars PROVE DeviceInv'
    <3>1. IdentityInv'
      BY <2>1 DEF DeviceInv, identityVars, IdentityInv, IdentityTypeOK, WholeHasOwner,
                  FoundIsIdentity, KeyStored
    <3>2. Undisturbed => Undisturbed'
      BY <2>1 DEF identityVars, Undisturbed, Creating
    <3> QED
      BY <2>1, <3>1, <3>2 DEF DeviceInv, identityVars
  <2>2. ASSUME DeviceInv, NEW p \in Process, IdentityAction(p) PROVE DeviceInv'
    <3>1. disturbed \in BOOLEAN
      BY <2>2 DEF DeviceInv, IdentityInv, IdentityTypeOK
    <3> QED
      BY <2>2, <3>1, IdentityStepInv, UndisturbedStep, DisturbedForGood DEF DeviceInv
  <2> QED
    BY <2>1, <2>2, IdentityPart
<1> QED
  BY <1>1, <1>2, PTL DEF Spec

(* The record and the credential store: an identity whose record says that *)
(* its key is in the store has it there, wherever processes died.          *)
THEOREM KeyKept == Spec => []RecordedKeyKept
<1>1. DeviceInv => RecordedKeyKept
  BY DEF DeviceInv, IdentityInv, WholeHasOwner, KeyStored, RecordedKeyKept, InKeychain
<1> QED
  BY <1>1, IdentityInvariance, PTL

(* share, connect and the interactive program, any number of them at the   *)
(* same time: they act as one device while nothing disturbs the machine.   *)
THEOREM SameDevice == Spec => []OneDevice
<1>1. DeviceInv => OneDevice
  BY DEF DeviceInv, Undisturbed, OneDevice
<1> QED
  BY <1>1, IdentityInvariance, PTL

(***************************************************************************)
(* Both.                                                                   *)
(***************************************************************************)

(* Every command keeps the files and its own state well typed. *)
THEOREM DeviceTypeCorrect == Spec => []TypeOK
<1> DEFINE CommandOK == command \in [Process -> Command]
<1>1. Init => CommandOK
  BY DEF Init, Command
<1>2. CommandOK /\ [Next]_vars => CommandOK'
  BY DEF Next, vars, StartPolicy, StartIdentity, StartShare, GuestAsks, Steps, Dies, Starts,
         Command
<1>3. CommandOK /\ PolicyInv /\ DeviceInv => TypeOK
  BY DEF PolicyInv, DeviceInv, IdentityInv, TypeOK
<1> QED
  BY <1>1, <1>2, <1>3, PolicyInvariance, IdentityInvariance, PTL DEF Spec

=============================================================================
