----------------------------- MODULE IdentityStore -----------------------------
(***************************************************************************)
(* The identity of a machine: apps/cli/src/identity/identity-store.ts over *)
(* the credential store of the operating system (keychain.ts), as `login`, *)
(* `logout`, `share` and `connect` use it.  The device record is a JSON    *)
(* file; its private key is in the credential store, or in the file if     *)
(* that store refuses it.  Nothing locks the two.                          *)
(*                                                                         *)
(* An identity is named by the process that created it.  The credential    *)
(* store may refuse any request: it is locked, or not installed.  A        *)
(* process may die at any point.                                           *)
(***************************************************************************)
EXTENDS TextFile

CONSTANTS DefaultUser,      \* defaultUserId()
          OtherUser         \* what --user may say instead

ASSUME IdentityAssumption ==
    /\ None \notin Process \cup {DefaultUser, OtherUser}
    /\ None # "keychain"
    /\ DefaultUser # OtherUser

VARIABLES
    identity,   \* the file
    keychain,   \* the identities whose private key is in the credential store
    identityPc, \* where each process is
    wanted,     \* options.userId
    opened,     \* processes that write to the file the path leads to
    backend,    \* privateKeyStore of the identity a process created
    found,      \* the identity a process read from the file
    held,       \* the identity loadOrCreateIdentity or createIdentity returned
    removed,    \* history: identities whose key logout deleted
    disturbed   \* history: something gave the machine another identity

identityVars == <<identity, keychain, identityPc, wanted, opened, backend, found, held,
                  removed, disturbed>>

(* A text with the private key in it is longer. *)
Length(store) == IF store = "file" THEN 2 ELSE 1

IdentityPc == {"idle", "load", "lookup", "store", "truncate", "write",
               "loadOut", "lookupOut", "delete", "unlink", "done", "failed"}

IdentityTypeOK ==
    /\ identity \in File(Process \cup {None}, 0 .. 2)
    /\ keychain \subseteq Process
    /\ identityPc \in [Process -> IdentityPc]
    /\ wanted \in [Process -> {OtherUser, None}]
    /\ opened \subseteq Process
    /\ backend \in [Process -> {"keychain", "file", None}]
    /\ found \in [Process -> Process \cup {None}]
    /\ held \in [Process -> Process \cup {None}]
    /\ removed \subseteq Process
    /\ disturbed \in BOOLEAN

IdentityInit ==
    /\ identity = Absent(None)
    /\ keychain = {}
    /\ identityPc = [p \in Process |-> "idle"]
    /\ wanted = [p \in Process |-> None]
    /\ opened = {}
    /\ backend = [p \in Process |-> None]
    /\ found = [p \in Process |-> None]
    /\ held = [p \in Process |-> None]
    /\ removed = {}
    /\ disturbed = FALSE

IdentityAt(p, from, to) ==
    identityPc[p] = from /\ identityPc' = [identityPc EXCEPT ![p] = to]

(* userId of an identity. *)
Owner(id) == IF wanted[id] = None THEN DefaultUser ELSE wanted[id]

-----------------------------------------------------------------------------
(* loadIdentity                                                            *)

InFile == identity.state = "whole" /\ backend[identity.text] = "file"
InKeychain == identity.state = "whole" /\ backend[identity.text] = "keychain"

(* Mutant: `existing && existing.userId === options.userId`. *)
SuitsExactly(p, id) == Owner(id) = wanted[p]

(* loadOrCreateIdentity takes the existing identity. *)
Suits(p, id) == wanted[p] = None \/ Owner(id) = wanted[p]

(* share, connect, and the interactive program. *)
UseIdentity(p, user) ==
    /\ IdentityAt(p, "idle", "load")
    /\ wanted' = [wanted EXCEPT ![p] = user]
    /\ disturbed' = (disturbed \/ user # None)
    /\ UNCHANGED <<identity, keychain, opened, backend, found, held, removed>>

Holds(p, id) == held' = [held EXCEPT ![p] = id]

ReadIdentity(p) ==
    /\ \/ /\ identity.state = "absent"
          /\ IdentityAt(p, "load", "store")
          /\ UNCHANGED <<found, held>>
       \/ /\ InFile
          /\ Suits(p, identity.text)
          /\ IdentityAt(p, "load", "done")
          /\ Holds(p, identity.text)
          /\ UNCHANGED found
       \/ /\ InFile
          /\ ~Suits(p, identity.text)
          /\ IdentityAt(p, "load", "store")
          /\ UNCHANGED <<found, held>>
       \/ /\ InKeychain
          /\ IdentityAt(p, "load", "lookup")
          /\ found' = [found EXCEPT ![p] = identity.text]
          /\ UNCHANGED held
    /\ UNCHANGED <<identity, keychain, wanted, opened, backend, removed, disturbed>>

(* loadPrivateKey finds the key; or it does not, and another identity is   *)
(* made.                                                                   *)
LookUp(p) ==
    /\ \/ /\ found[p] \in keychain
          /\ Suits(p, found[p])
          /\ IdentityAt(p, "lookup", "done")
          /\ Holds(p, found[p])
          /\ UNCHANGED disturbed
       \/ /\ found[p] \in keychain => ~Suits(p, found[p])
          /\ IdentityAt(p, "lookup", "store")
          /\ UNCHANGED <<held, disturbed>>
       \/ /\ found[p] \in keychain      \* but the credential store refuses
          /\ IdentityAt(p, "lookup", "store")
          /\ disturbed' = TRUE
          /\ UNCHANGED held
    /\ UNCHANGED <<identity, keychain, wanted, opened, backend, found, removed>>

(* JSON.parse throws, and the command ends. *)
ReadFails(p) ==
    /\ identity.state = "torn"
    /\ IdentityAt(p, "load", "failed") \/ IdentityAt(p, "loadOut", "failed")
    /\ UNCHANGED <<identity, keychain, wanted, opened, backend, found, held, removed, disturbed>>

-----------------------------------------------------------------------------
(* createIdentity                                                          *)

Login(p, user) ==
    /\ IdentityAt(p, "idle", "store")
    /\ wanted' = [wanted EXCEPT ![p] = user]
    /\ disturbed' = TRUE
    /\ UNCHANGED <<identity, keychain, opened, backend, found, held, removed>>

(* Mutant: what the command that stores the key returns is not looked at. *)
StoreUnchecked(p) ==
    /\ IdentityAt(p, "store", "truncate")
    /\ keychain' \in {keychain, keychain \cup {p}}
    /\ backend' = [backend EXCEPT ![p] = "keychain"]
    /\ UNCHANGED <<identity, wanted, opened, found, held, removed, disturbed>>

StorePrivateKey(p) ==
    /\ IdentityAt(p, "store", "truncate")
    /\ \/ keychain' = keychain \cup {p} /\ backend' = [backend EXCEPT ![p] = "keychain"]
       \/ UNCHANGED keychain /\ backend' = [backend EXCEPT ![p] = "file"]
    /\ UNCHANGED <<identity, wanted, opened, found, held, removed, disturbed>>

TruncateIdentity(p) ==
    /\ IdentityAt(p, "truncate", "write")
    /\ identity' = Emptied(None)
    /\ opened' = opened \cup {p}
    /\ UNCHANGED <<keychain, wanted, backend, found, held, removed, disturbed>>

(* A file that logout has removed in the meantime takes the text with it.  *)
WriteIdentity(p) ==
    /\ IdentityAt(p, "write", "done")
    /\ \/ /\ p \in opened
          /\ identity' = Overwritten(identity, p, Length(backend[p]), None)
       \/ p \notin opened /\ UNCHANGED identity
    /\ opened' = opened \ {p}
    /\ Holds(p, p)
    /\ disturbed' = (disturbed \/ \E q \in Process \ {p} :
                                      identityPc[q] \in {"store", "truncate", "write"})
    /\ UNCHANGED <<keychain, wanted, backend, found, removed>>

-----------------------------------------------------------------------------
(* removeIdentity                                                          *)

Logout(p) ==
    /\ IdentityAt(p, "idle", "loadOut")
    /\ disturbed' = TRUE
    /\ UNCHANGED <<identity, keychain, wanted, opened, backend, found, held, removed>>

ReadForLogout(p) ==
    /\ \/ identity.state = "absent" /\ IdentityAt(p, "loadOut", "unlink") /\ UNCHANGED found
       \/ /\ identity.state = "whole"
          /\ IdentityAt(p, "loadOut", IF InKeychain THEN "lookupOut" ELSE "delete")
          /\ found' = [found EXCEPT ![p] = identity.text]
    /\ UNCHANGED <<identity, keychain, wanted, opened, backend, held, removed, disturbed>>

(* Without the key there is no identity, and nothing to delete. *)
LookUpForLogout(p) ==
    /\ \/ found[p] \in keychain /\ IdentityAt(p, "lookupOut", "delete")
       \/ IdentityAt(p, "lookupOut", "unlink")
    /\ UNCHANGED <<identity, keychain, wanted, opened, backend, found, held, removed, disturbed>>

DeletePrivateKey(p) ==
    /\ IdentityAt(p, "delete", "unlink")
    /\ keychain' \in {keychain, keychain \ {found[p]}}
    /\ removed' = removed \cup {found[p]}
    /\ UNCHANGED <<identity, wanted, opened, backend, found, held, disturbed>>

UnlinkIdentity(p) ==
    /\ IdentityAt(p, "unlink", "done")
    /\ identity' = Absent(None)
    /\ opened' = {}
    /\ UNCHANGED <<keychain, wanted, backend, found, held, removed, disturbed>>

-----------------------------------------------------------------------------

(* The process dies. *)
IdentityDies(p) ==
    /\ identityPc' = [identityPc EXCEPT ![p] = IF @ = "done" THEN @ ELSE "failed"]
    /\ opened' = opened \ {p}
    /\ UNCHANGED <<identity, keychain, wanted, backend, found, held, removed, disturbed>>

IdentityStep(p) ==
    \/ ReadIdentity(p) \/ LookUp(p) \/ ReadFails(p)
    \/ StorePrivateKey(p) \/ TruncateIdentity(p) \/ WriteIdentity(p)
    \/ ReadForLogout(p) \/ LookUpForLogout(p) \/ DeletePrivateKey(p) \/ UnlinkIdentity(p)

-----------------------------------------------------------------------------

(* "The key is loaded from the credential store at runtime": wherever a    *)
(* process died between the credential store and the file, and however     *)
(* logins and logouts overlap, an identity whose record says that its key  *)
(* is in the credential store has it there, unless a logout deleted it.    *)
RecordedKeyKept ==
    InKeychain => identity.text \in keychain \cup removed

(* "Random UUID generated per device": commands that neither log in nor    *)
(* out all act as one device, wherever some of them died.  Exceptions are  *)
(* a credential store that refuses to answer, --user, and two commands     *)
(* that make an identity at the same time.                                 *)
OneDevice ==
    ~disturbed => \A p, q \in Process :
                    held[p] # None /\ held[q] # None => held[p] = held[q]

=============================================================================
