----------------------------- MODULE MCAccounts -----------------------------
(***************************************************************************)
(* Small instances of Accounts for TLC.                                    *)
(***************************************************************************)
EXTENDS Accounts, TLC

CONSTANTS a, b, long  \* the passwords; long is a with bytes past the 72nd

MCDigest == [p \in {a, b, long} |-> IF p = long THEN a ELSE p]

Symmetric == Permutations(Names) \cup Permutations(Slots)
=============================================================================
