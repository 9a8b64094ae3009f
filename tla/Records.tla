------------------------------- MODULE Records ------------------------------
(***************************************************************************)
(* The tables of internal/bob/models as its statements see them: the       *)
(* columns of each, the setters that say which of them a statement writes, *)
(* and what an INSERT or an UPDATE built from setters does to a table.     *)
(*                                                                         *)
(* A column stands here if it is the key or the link of a relation; one    *)
(* column stands for all the other NOT NULL columns of its table, which an *)
(* INSERT must give, and two for the columns of credential it may leave    *)
(* out.  A row is a function from the columns, without the key, to values. *)
(*                                                                         *)
(* A setter is a function from the columns it sets to their values: NULL   *)
(* is a value, a column that is not set is not in the domain.              *)
(***************************************************************************)
EXTENDS Rowids, SequencesExt

CONSTANTS
  Vals,   \* the values of the columns that are no key and no link
  Null,   \* SQL's NULL
  MaxId   \* bound: the largest row id

ASSUME RecordsConstants ==
  /\ MaxId \in Nat
  /\ Null \notin Vals \cup (1 .. MaxId)

RowIds == 1 .. MaxId

Tables == {"user", "file", "item", "credential", "schema_migrations"}

UserColumns == <<"id", "username", "profile_picture_id">>
FileColumns == <<"id", "name", "user_id">>
ItemColumns == <<"id", "name", "user_id">>
CredentialColumns ==
  <<"cred_id", "cred_public_key", "backup_eligible", "backup_state", "user_id">>
SchemaMigrationColumns == <<"version">>

Columns == [user |-> UserColumns, file |-> FileColumns,
            item |-> ItemColumns, credential |-> CredentialColumns,
            schema_migrations |-> SchemaMigrationColumns]

Key(t) == Columns[t][1]
\* A setter gives a text key.  (An INSERT into schema_migrations without one
\* would store NULL; dbmate gives the version.)
TextKeys == {"credential", "schema_migrations"}
Data(t) == Range(Columns[t]) \ {Key(t)}

Nullable == {"profile_picture_id", "backup_eligible", "backup_state"}
Links == {"profile_picture_id", "user_id"}

\* What a setter may give a column: the types of the generated struct.
Values(t, c) ==
  (IF c \in Links \cup {Key(t)} THEN RowIds ELSE Vals)
    \cup (IF c \in Nullable THEN {Null} ELSE {})

Row(t) == {r \in [Data(t) -> RowIds \cup Vals \cup {Null}] :
             \A c \in Data(t) : r[c] \in Values(t, c)}

SetterOf(t, S) == {s \in [S -> RowIds \cup Vals \cup {Null}] :
                     \A c \in S : s[c] \in Values(t, c)}

\* The columns of an INSERT are those its first setter sets, in the order of
\* the struct; the values of a setter fill them from the left.
Index(t, c) == CHOOSE i \in DOMAIN Columns[t] : Columns[t][i] = c
Place(t, s, c) == Cardinality({d \in DOMAIN s : Index(t, d) <= Index(t, c)})

Named(t, first, s) ==
  [c \in DOMAIN first |->
     s[CHOOSE d \in DOMAIN s : Place(t, s, d) = Place(t, first, c)]]

\* The key of row k of an INSERT: an INTEGER key that is not given is issued.
KeyOf(t, tab, named, k) ==
  IF Key(t) \in DOMAIN named THEN named[Key(t)] ELSE NextId(tab) + k - 1

RowOf(t, named) ==
  [c \in Data(t) |-> IF c \in DOMAIN named THEN named[c] ELSE Null]

InsertedKeys(t, tab, ss) ==
  [k \in DOMAIN ss |-> KeyOf(t, tab, Named(t, ss[1], ss[k]), k)]

Inserted(t, tab, ss) ==
  LET key == InsertedKeys(t, tab, ss)
  IN [i \in DOMAIN tab \cup Range(key) |->
        IF i \in Range(key)
        THEN RowOf(t, Named(t, ss[1], ss[CHOOSE k \in DOMAIN ss : key[k] = i]))
        ELSE tab[i]]

\* SQLite refuses an INSERT whose rows differ in length, that leaves a NOT
\* NULL column or a text key out, or that gives a key twice.
Insertable(t, tab, ss) ==
  LET required == (Data(t) \ Nullable)
                    \cup (IF t \in TextKeys THEN {Key(t)} ELSE {})
      key == InsertedKeys(t, tab, ss)
  IN /\ \A s \in Range(ss) : Cardinality(DOMAIN s) = Cardinality(DOMAIN ss[1])
     /\ required \subseteq DOMAIN ss[1]
     /\ IsInjective(key)
     /\ Range(key) \cap DOMAIN tab = {}

\* Fault: the key the setter gives becomes a column of the row.
OverwriteAll(row, s) == s @@ row

\* What a setter makes of a row, in memory and in the table.
Overwrite(row, s) == [c \in DOMAIN row |-> IF c \in DOMAIN s THEN s[c] ELSE row[c]]

\* UPDATE ... SET s WHERE the key is in ids: s may give a row another key.
UpdatedKeys(t, tab, ids, s) ==
  [i \in DOMAIN tab |-> IF i \in ids /\ Key(t) \in DOMAIN s THEN s[Key(t)] ELSE i]

Updated(t, tab, ids, s) ==
  LET key == UpdatedKeys(t, tab, ids, s)
      old(j) == CHOOSE i \in DOMAIN tab : key[i] = j
  IN [j \in Range(key) |->
        IF old(j) \in ids THEN Overwrite(tab[old(j)], s) ELSE tab[old(j)]]

\* An UPDATE with nothing to set is no SQL, and a key must stay unique.
Updatable(t, tab, ids, s) ==
  DOMAIN s # {} /\ IsInjective(UpdatedKeys(t, tab, ids, s))

(***************************************************************************)
(* The statements of each table, as its own setter builds them.            *)
(***************************************************************************)

UserSetter(S) == SetterOf("user", S)
FileSetter(S) == SetterOf("file", S)
ItemSetter(S) == SetterOf("item", S)
CredentialSetter(S) == SetterOf("credential", S)
SchemaMigrationSetter(S) == SetterOf("schema_migrations", S)

Setter(t, S) ==
  CASE t = "user" -> UserSetter(S)
    [] t = "file" -> FileSetter(S)
    [] t = "item" -> ItemSetter(S)
    [] t = "credential" -> CredentialSetter(S)
    [] t = "schema_migrations" -> SchemaMigrationSetter(S)

UserApply(tab, ss) == Inserted("user", tab, ss)
FileApply(tab, ss) == Inserted("file", tab, ss)
ItemApply(tab, ss) == Inserted("item", tab, ss)
CredentialApply(tab, ss) == Inserted("credential", tab, ss)
SchemaMigrationApply(tab, ss) == Inserted("schema_migrations", tab, ss)

Apply(t, tab, ss) ==
  CASE t = "user" -> UserApply(tab, ss)
    [] t = "file" -> FileApply(tab, ss)
    [] t = "item" -> ItemApply(tab, ss)
    [] t = "credential" -> CredentialApply(tab, ss)
    [] t = "schema_migrations" -> SchemaMigrationApply(tab, ss)

UserExpressions(tab, ids, s) == Updated("user", tab, ids, s)
FileExpressions(tab, ids, s) == Updated("file", tab, ids, s)
ItemExpressions(tab, ids, s) == Updated("item", tab, ids, s)
CredentialExpressions(tab, ids, s) == Updated("credential", tab, ids, s)
SchemaMigrationExpressions(tab, ids, s) == Updated("schema_migrations", tab, ids, s)

Expressions(t, tab, ids, s) ==
  CASE t = "user" -> UserExpressions(tab, ids, s)
    [] t = "file" -> FileExpressions(tab, ids, s)
    [] t = "item" -> ItemExpressions(tab, ids, s)
    [] t = "credential" -> CredentialExpressions(tab, ids, s)
    [] t = "schema_migrations" -> SchemaMigrationExpressions(tab, ids, s)

=============================================================================
