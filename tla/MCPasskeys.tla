----------------------------- MODULE MCPasskeys -----------------------------
(***************************************************************************)
(* Small instances of Passkeys for TLC.                                    *)
(***************************************************************************)
EXTENDS Passkeys, TLC

Symmetric == Permutations(Accounts) \cup Permutations(Slots)
             \cup Permutations(Counting) \cup Permutations(Keys \ Counting)
=============================================================================
