------------------------------ MODULE MCModels ------------------------------
(***************************************************************************)
(* Small instances of Models for TLC.                                      *)
(***************************************************************************)
EXTENDS Models

Only(rows) == [t \in Tables |-> IF t \in DOMAIN rows THEN rows[t] ELSE <<>>]

CONSTANT a   \* the value of the columns that are neither key nor link

UserRow(file) == ("username" :> a) @@ ("profile_picture_id" :> file)
OwnedRow(user) == ("name" :> a) @@ ("user_id" :> user)
KeyRow(user) == ("cred_public_key" :> a) @@ ("backup_eligible" :> a)
                  @@ ("backup_state" :> Null) @@ ("user_id" :> user)

\* Two users for one file, one of them without a picture; and one row of each
\* table that belongs to a user.
PictureTables ==
  Only([user |-> <<UserRow(1), UserRow(Null)>>, file |-> <<OwnedRow(1)>>])
OwnedTables ==
  Only([user |-> <<UserRow(Null)>>, item |-> <<OwnedRow(1)>>,
        credential |-> <<KeyRow(1)>>])

\* Two migrations that have run.
MigratedTables == Only([schema_migrations |-> <<<<>>, <<>>>>])

SmallTables == {PictureTables, OwnedTables, MigratedTables}

\* Setters that set the same columns, and setters that do not.
SomeInserts ==
  [user |-> {"username" :> a, ("id" :> 3) @@ ("username" :> a)},
   file |-> {"name" :> a},
   item |-> {"name" :> a, ("id" :> 2) @@ ("name" :> a)},
   credential |->
     {("cred_id" :> 2) @@ ("cred_public_key" :> a) @@ ("backup_eligible" :> a),
      ("cred_id" :> 3) @@ ("cred_public_key" :> a) @@ ("backup_state" :> a)},
   schema_migrations |-> {"version" :> 2, "version" :> 3}]

SomeUpdates ==
  [user |-> {"id" :> 2, "profile_picture_id" :> Null},
   file |-> {"user_id" :> 2},
   item |-> {"user_id" :> 2},
   credential |-> {<<>>, "backup_state" :> a},
   schema_migrations |-> {"version" :> 3}]

\* States that differ in the history alone are one: no guard reads it and the
\* properties read the one of the step they are about.
Seen == <<db, heap, half, calls>>
=============================================================================
