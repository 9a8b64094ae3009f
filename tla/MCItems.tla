------------------------------- MODULE MCItems ------------------------------
(***************************************************************************)
(* Small instances of Items for TLC.                                       *)
(***************************************************************************)
EXTENDS Items, TLC

\* Two slots are enough for a row to be deleted and its id issued again while
\* the other slot stands between its two statements: slots are reused, so the
\* number of requests is not bounded.
Symmetric == Permutations(Users) \cup Permutations(Slots)

WriteOps == {"CreateItem", "GetItem", "UpdateItem", "DeleteItem"}
AllOps == WriteOps \cup {"GetItems"}

\* A filter that matches the name v and not the zero value.
NoPatterns == {}
VPattern == {Vals \ {Zero}}
NoWindows == {}

\* Negative ones too: nothing validates them.
SomeLimits == {-1, 1}
SomeOffsets == {-1, 1}
=============================================================================
