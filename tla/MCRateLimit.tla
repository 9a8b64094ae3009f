---------------------------- MODULE MCRateLimit -----------------------------
(***************************************************************************)
(* Small instances of RateLimit for TLC.  Agents share nothing but the     *)
(* clock and the sweep, so that one is enough.                             *)
(***************************************************************************)
EXTENDS RateLimit, TLC

Symmetric == Permutations(Slots)
=============================================================================
