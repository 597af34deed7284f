------------------------------ MODULE KeyHistory ------------------------------
(***************************************************************************)
(* What the DID service promises to whoever resolves a DID and checks a    *)
(* proof, with no word about calls, the reads they make or the conditions  *)
(* of their updates.  A DID has a history of keys in the order of their    *)
(* versions; the last one is in force.  A signature is made, in one step,  *)
(* by the key in force, and the proof names it.                            *)
(*                                                                         *)
(* DidKeys.tla is the detailed specification of this one.                  *)
(***************************************************************************)
EXTENDS Naturals, Sequences

CONSTANT Owner  \* organizations and holders

VARIABLES
    history,    \* the keys of each owner's DID, <<>> when there is none
    proofs      \* proofs returned: the version that is named, the version that signed

vars == <<history, proofs>>

Key == [status : {"ACTIVE", "RETIRED", "REVOKED"},
        custody : {"server", "client"},
        algorithm : {"Ed25519", "P-256"}]

NewKey == {key \in Key : key.status = "ACTIVE"}

Init ==
    /\ history = [o \in Owner |-> <<>>]
    /\ proofs = {}

\* The DID of an owner, made by the server or enrolled by its holder.
Begin(o, key) ==
    /\ history[o] = <<>>
    /\ history' = [history EXCEPT ![o] = <<key>>]
    /\ UNCHANGED proofs

\* A rotation retires the key in force, a recovery revokes it.  Only what the server holds
\* is replaced, and by a key that the server holds.
Replace(o, status, key) ==
    LET last == Len(history[o]) IN
    /\ history[o] # <<>>
    /\ history[o][1].custody = "server" /\ key.custody = "server"
    /\ history' = [history EXCEPT ![o] = Append([@ EXCEPT ![last].status = status], key)]
    /\ UNCHANGED proofs

\* A retired key is revoked after all.
Withdraw(o, version) ==
    /\ history[o][version].status = "RETIRED"
    /\ history' = [history EXCEPT ![o][version].status = "REVOKED"]
    /\ UNCHANGED proofs

Sign(o) ==
    LET last == Len(history[o]) IN
    /\ history[o] # <<>>
    /\ history[o][last].custody = "server" /\ history[o][last].algorithm = "Ed25519"
    /\ proofs' = proofs \cup {[owner |-> o, named |-> last, signer |-> last]}
    /\ UNCHANGED history

Next ==
    \E o \in Owner :
        \/ \E key \in NewKey :
            \/ Begin(o, key)
            \/ \E status \in {"RETIRED", "REVOKED"} : Replace(o, status, key)
        \/ \E version \in DOMAIN history[o] : Withdraw(o, version)
        \/ Sign(o)

Spec == Init /\ [][Next]_vars
=============================================================================
