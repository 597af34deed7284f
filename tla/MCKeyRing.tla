------------------------------- MODULE MCKeyRing -------------------------------
(* Two processes, two names of keys and three rows.  Between environments   *)
(* change the master key, the active DID key, the case and the blanks of a  *)
(* key, and the wallet key, which may take the bytes of a retired DID key.  *)
EXTENDS KeyRing, TLC

CONSTANTS A, B, C, M

Lower(bytes) == [bytes |-> bytes, form |-> "lower"]
Typed(bytes) == {[bytes |-> bytes, form |-> form] : form \in {"lower", "upper", "padded"}}

MCEnvironment ==
    [master : {Lower(M), Lower(A)},
     active : {[did |-> id, wallet |-> "v1"] : id \in KeyId},
     keys : [did : [v1 : Typed(A), v2 : {Lower(C), Lower(NotHex)}],
             wallet : [v1 : {Lower(B), Lower(A)}, v2 : {Lower(NoKey)}]]]

Symmetry == Permutations(Instance)
=============================================================================
