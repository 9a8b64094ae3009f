------------------------------ MODULE MCServer ------------------------------
(***************************************************************************)
(* Small instances of Server for TLC.                                      *)
(***************************************************************************)
EXTENDS Server, TLC

\* A release with a good environment.
Good == [dev |-> FALSE, port |-> Unset, key |-> TRUE, url |-> "name",
         scheme |-> "sqlite", rooted |-> TRUE, dir |-> "work"]

\* Environments that keep a process from serving: no key; a database that is not
\* SQLite; a host webauthn refuses, found after a relative path is migrated, or
\* nothing is.
Relative == [Good EXCEPT !.rooted = FALSE]
Unfit ==
  {[Good EXCEPT !.key = FALSE], [Good EXCEPT !.scheme = "postgres"],
   [Relative EXCEPT !.dir = "root", !.url = "numeric"],
   [Good EXCEPT !.dev = TRUE, !.url = "numeric"]}

GoodOrUnfit == {Good} \cup Unfit
GoodOrRelative == {Good, [Relative EXCEPT !.port = "80"]}

InUse == [Migrated(Empty, 1) EXCEPT !.log = TRUE, !.rows = TRUE]

\* The file of the absolute path: new, or of the release before the passkeys and
\* in use.  The others come about.
SomeFound ==
  {("root" :> f) @@ ("work" :> Empty) @@ ("odd" :> Empty) :
     f \in {Empty, InUse}}
=============================================================================
