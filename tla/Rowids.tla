------------------------------- MODULE Rowids -------------------------------
(***************************************************************************)
(* How SQLite numbers the rows of a table whose key is declared            *)
(* INTEGER PRIMARY KEY and not AUTOINCREMENT, as every id column of        *)
(* db/schema.sql is: a new row gets one more than the largest id that is   *)
(* in the table at that moment.  An id is therefore issued again when the  *)
(* row that had the largest one has been deleted.                          *)
(*                                                                         *)
(* A table is a function whose domain is the set of ids in use.            *)
(***************************************************************************)
EXTENDS Integers, FiniteSetsExt

NextId(table) == Max(DOMAIN table \cup {0}) + 1

WithRow(table, id, row) ==
  [i \in DOMAIN table \cup {id} |-> IF i = id THEN row ELSE table[i]]

WithoutRow(table, id) == [i \in DOMAIN table \ {id} |-> table[i]]

=============================================================================
