------------------------------ MODULE Upgrades ------------------------------
(***************************************************************************)
(* What applying migrations promises, whatever processes start, race, fail *)
(* and end: the migrations of a database file are applied one at a time,   *)
(* in their order, each once.                                              *)
(***************************************************************************)
EXTENDS Integers

CONSTANTS
  Paths,  \* the database files
  Count    \* the number of migrations there are

VARIABLE applied  \* path -> the migrations its schema_migrations names

UpTo(k) == 1 .. k

Init == \A f \in Paths : \E k \in 0 .. Count : applied[f] = UpTo(k)

Upgrade(f, k) ==
  /\ applied[f] = UpTo(k - 1)
  /\ applied' = [applied EXCEPT ![f] = UpTo(k)]

Next == \E f \in Paths, k \in 1 .. Count : Upgrade(f, k)

Spec == Init /\ [][Next]_applied
=============================================================================
