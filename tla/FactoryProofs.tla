---------------------------- MODULE FactoryProofs ----------------------------
(***************************************************************************)
(* Proofs about the factories, for any tables a caller finds, any base     *)
(* mods and any number of mods, of rows and of calls within one another.   *)
(***************************************************************************)
EXTENDS Factory, FiniteSetTheorems, SequenceTheorems, TLAPS

-----------------------------------------------------------------------------
(***************************************************************************)
(* The columns of the tables.                                              *)
(***************************************************************************)

LEMMA KeyNames ==
  /\ Key("user") = "id" /\ Key("file") = "id" /\ Key("item") = "id"
  /\ Key("credential") = "cred_id" /\ Key("schema_migrations") = "version"
  BY DEF Key, Columns, UserColumns, FileColumns, ItemColumns, CredentialColumns,
         SchemaMigrationColumns

LEMMA ColumnNames ==
  /\ Range(Columns["user"]) = {"id", "username", "profile_picture_id"}
  /\ Range(Columns["file"]) = {"id", "name", "user_id"}
  /\ Range(Columns["item"]) = {"id", "name", "user_id"}
  /\ Range(Columns["credential"]) =
       {"cred_id", "cred_public_key", "backup_eligible", "backup_state", "user_id"}
  /\ Range(Columns["schema_migrations"]) = {"version"}
<1>1. /\ Range(UserColumns) = {"id", "username", "profile_picture_id"}
      /\ Range(FileColumns) = {"id", "name", "user_id"}
      /\ Range(ItemColumns) = {"id", "name", "user_id"}
      /\ Range(SchemaMigrationColumns) = {"version"}
  BY DEF Range, UserColumns, FileColumns, ItemColumns, SchemaMigrationColumns
<1>2. Range(CredentialColumns) =
        {"cred_id", "cred_public_key", "backup_eligible", "backup_state", "user_id"}
  BY DEF Range, CredentialColumns
<1> QED
  BY <1>1, <1>2 DEF Columns

\* A key is a number, is not NULL, and is no column of a row.
LEMMA KeyFacts ==
  ASSUME NEW t \in Tables
  PROVE  /\ Values(t, Key(t)) = RowIds
         /\ Key(t) \notin Data(t)
         /\ Range(Columns[t]) = Data(t) \cup {Key(t)}
  BY KeyNames, ColumnNames DEF Tables, Values, Nullable, Data

\* A statement is the same whatever table it is built for.
LEMMA StatementFacts ==
  ASSUME NEW t \in Tables, NEW tab, NEW ss, NEW ids, NEW s, NEW S
  PROVE  /\ Setter(t, S) = SetterOf(t, S)
         /\ Apply(t, tab, ss) = Inserted(t, tab, ss)
         /\ Expressions(t, tab, ids, s) = Updated(t, tab, ids, s)
  BY DEF Tables, Setter, UserSetter, FileSetter, ItemSetter, CredentialSetter,
         SchemaMigrationSetter, Apply, UserApply, FileApply, ItemApply, CredentialApply,
         SchemaMigrationApply, Expressions, UserExpressions, FileExpressions,
         ItemExpressions, CredentialExpressions, SchemaMigrationExpressions

-----------------------------------------------------------------------------
(***************************************************************************)
(* What the statements do to a table.                                      *)
(***************************************************************************)

IsTable(t, tab) == DOMAIN tab \subseteq RowIds /\ tab \in [DOMAIN tab -> Row(t)]

\* What a setter makes of a row is a row.
LEMMA OverwriteTyped ==
  ASSUME NEW t \in Tables, NEW row \in Row(t), NEW S, NEW s \in SetterOf(t, S)
  PROVE  /\ Overwrite(row, s) \in Row(t)
         /\ \A c \in Data(t) : c \in S => Overwrite(row, s)[c] = s[c]
  BY DEF Overwrite, Row, SetterOf

\* An UPDATE that gives no key writes the rows it names and no other.
LEMMA UpdatedInPlace ==
  ASSUME NEW t \in Tables, NEW tab, NEW ids, NEW s, Key(t) \notin DOMAIN s
  PROVE  /\ DOMAIN Updated(t, tab, ids, s) = DOMAIN tab
         /\ \A i \in DOMAIN tab :
              Updated(t, tab, ids, s)[i] = IF i \in ids THEN Overwrite(tab[i], s) ELSE tab[i]
<1> DEFINE key == UpdatedKeys(t, tab, ids, s)
<1>1. DOMAIN key = DOMAIN tab /\ \A i \in DOMAIN tab : key[i] = i
  BY DEF UpdatedKeys
<1>2. Range(key) = DOMAIN tab
  <2> HIDE DEF key
  <2> QED BY <1>1 DEF Range
<1>3. \A j \in DOMAIN tab : (CHOOSE i \in DOMAIN tab : key[i] = j) = j
  <2> HIDE DEF key
  <2> QED BY <1>1
<1>4. Updated(t, tab, ids, s) =
        [j \in Range(key) |->
           IF (CHOOSE i \in DOMAIN tab : key[i] = j) \in ids
           THEN Overwrite(tab[CHOOSE i \in DOMAIN tab : key[i] = j], s)
           ELSE tab[CHOOSE i \in DOMAIN tab : key[i] = j]]
  BY DEF Updated
<1> HIDE DEF key
<1> QED
  BY <1>2, <1>3, <1>4

\* What one row of an INSERT gets is a row, if its values fit.
LEMMA RowOfTyped ==
  ASSUME NEW t \in Tables, NEW named, NEW S, named \in SetterOf(t, S),
         Data(t) \ Nullable \subseteq S
  PROVE  RowOf(t, named) \in Row(t)
<1>1. \A c \in Data(t) : RowOf(t, named)[c] \in Values(t, c)
  BY DEF RowOf, SetterOf, Values
<1>2. \A c \in Data(t) : RowOf(t, named)[c] \in RowIds \cup Vals \cup {Null}
  BY DEF RowOf, SetterOf
<1> QED
  BY <1>1, <1>2 DEF RowOf, Row

LEMMA ColumnsFinite ==
  ASSUME NEW t \in Tables, NEW S, S \subseteq Range(Columns[t])
  PROVE  IsFiniteSet(S) /\ Cardinality(S) \in Nat
<1>1. \E n \in Nat : DOMAIN Columns[t] = 1 .. n
  <2>1. /\ DOMAIN UserColumns = 1 .. 3 /\ DOMAIN FileColumns = 1 .. 3
        /\ DOMAIN ItemColumns = 1 .. 3 /\ DOMAIN CredentialColumns = 1 .. 5
        /\ DOMAIN SchemaMigrationColumns = 1 .. 1
    BY DEF UserColumns, FileColumns, ItemColumns, CredentialColumns, SchemaMigrationColumns
  <2>2. /\ DOMAIN Columns["user"] = 1 .. 3 /\ DOMAIN Columns["file"] = 1 .. 3
        /\ DOMAIN Columns["item"] = 1 .. 3 /\ DOMAIN Columns["credential"] = 1 .. 5
        /\ DOMAIN Columns["schema_migrations"] = 1 .. 1
    BY <2>1 DEF Columns
  <2> QED BY <2>2 DEF Tables
<1>2. PICK n \in Nat : DOMAIN Columns[t] = 1 .. n
  BY <1>1
<1> DEFINE f == [i \in 1 .. n |-> Columns[t][i]]
<1>3. f \in Surjection(1 .. n, Range(Columns[t]))
  BY <1>2 DEF Surjection, Range
<1>4. IsFiniteSet(1 .. n)
  BY FS_Interval
<1> HIDE DEF f
<1>5. IsFiniteSet(Range(Columns[t]))
  BY <1>3, <1>4, FS_Surjection
<1> QED
  BY <1>5, FS_Subset, FS_CardinalityType

\* A setter names its own values: no two of its columns have one place.
LEMMA NamedOwn ==
  ASSUME NEW t \in Tables, NEW s, DOMAIN s \subseteq Range(Columns[t])
  PROVE  /\ DOMAIN Named(t, s, s) = DOMAIN s
         /\ \A c \in DOMAIN s : Named(t, s, s)[c] = s[c]
<1> DEFINE upTo(c) == {d \in DOMAIN s : Index(t, d) <= Index(t, c)}
<1>1. ASSUME NEW c \in DOMAIN s
      PROVE  Index(t, c) \in Nat /\ Columns[t][Index(t, c)] = c
  <2>1. \E i \in DOMAIN Columns[t] : Columns[t][i] = c
    BY DEF Range
  <2>2. DOMAIN Columns[t] \subseteq Nat
    BY DEF Tables, Columns, UserColumns, FileColumns, ItemColumns, CredentialColumns,
           SchemaMigrationColumns
  <2> QED
    BY <2>1, <2>2 DEF Index
<1>2. ASSUME NEW c \in DOMAIN s  PROVE Place(t, s, c) = Cardinality(upTo(c))
  BY DEF Place
<1>3. ASSUME NEW c \in DOMAIN s, NEW d \in DOMAIN s, Index(t, d) < Index(t, c)
      PROVE  Place(t, s, d) # Place(t, s, c)
  <2>1. upTo(d) \in SUBSET upTo(c) /\ c \in upTo(c) /\ c \notin upTo(d)
    BY <1>1, <1>3
  <2>2. IsFiniteSet(upTo(c))
    <3>1. upTo(c) \subseteq Range(Columns[t])
      OBVIOUS
    <3> QED BY <3>1, ColumnsFinite
  <2> HIDE DEF upTo
  <2>3. Cardinality(upTo(d)) # Cardinality(upTo(c))
    BY <2>1, <2>2, FS_Subset
  <2> QED
    BY <1>2, <2>3
<1>4. ASSUME NEW c \in DOMAIN s, NEW d \in DOMAIN s, Place(t, s, d) = Place(t, s, c)
      PROVE  d = c
  <2>1. ~(Index(t, d) < Index(t, c)) /\ ~(Index(t, c) < Index(t, d))
    BY <1>3, <1>4
  <2>2. Index(t, d) = Index(t, c)
    BY <1>1, <2>1
  <2> QED
    BY <1>1, <2>2
<1>5. \A c \in DOMAIN s : (CHOOSE d \in DOMAIN s : Place(t, s, d) = Place(t, s, c)) = c
  BY <1>4
<1> QED
  BY <1>5 DEF Named

\* What an INSERT of one row that is not refused makes of a table.
AddsRow(t, tab, new, id, row) ==
  /\ id \notin DOMAIN tab
  /\ DOMAIN new = DOMAIN tab \cup {id}
  /\ \A i \in DOMAIN tab : new[i] = tab[i]
  /\ new[id] \in Row(t)
  /\ \A c \in Data(t) \cap DOMAIN row : new[id][c] = row[c]

LEMMA InsertedRow ==
  ASSUME NEW t \in Tables, NEW tab, NEW row, row \in SetterOf(t, DOMAIN row),
         DOMAIN row \subseteq Range(Columns[t]),
         Insertable(t, tab, <<row>>)
  PROVE  AddsRow(t, tab, Inserted(t, tab, <<row>>), KeyOf(t, tab, row, 1), row)
<1> DEFINE ss == <<row>>
           named == Named(t, row, row)
           id == KeyOf(t, tab, row, 1)
           key == InsertedKeys(t, tab, ss)
           new == Inserted(t, tab, ss)
<1>1. DOMAIN named = DOMAIN row /\ \A c \in DOMAIN row : named[c] = row[c]
  BY NamedOwn
<1>2. named \in SetterOf(t, DOMAIN row)
  <2>1. named = [c \in DOMAIN named |-> named[c]]
    BY DEF Named
  <2>2. row \in [DOMAIN row -> RowIds \cup Vals \cup {Null}]
        /\ \A c \in DOMAIN row : row[c] \in Values(t, c)
    BY DEF SetterOf
  <2> HIDE DEF named
  <2> QED BY <1>1, <2>1, <2>2 DEF SetterOf
<1>3. DOMAIN ss = {1} /\ ss[1] = row
  OBVIOUS
<1>4. DOMAIN key = {1} /\ key[1] = id
  <2>1. KeyOf(t, tab, named, 1) = id
    <3> HIDE DEF named
    <3> QED BY <1>1 DEF KeyOf
  <2>2. key = [k \in DOMAIN ss |-> KeyOf(t, tab, Named(t, ss[1], ss[k]), k)]
    BY DEF InsertedKeys
  <2> HIDE DEF ss, key, id
  <2> QED BY <1>3, <2>1, <2>2
<1>5. Range(key) = {id}
  <2> HIDE DEF key, id
  <2> QED BY <1>4 DEF Range
<1>6. new = [i \in DOMAIN tab \cup {id} |-> IF i \in {id} THEN RowOf(t, named) ELSE tab[i]]
  <2>1. new = [i \in DOMAIN tab \cup Range(key) |->
                 IF i \in Range(key)
                 THEN RowOf(t, Named(t, ss[1], ss[CHOOSE k \in DOMAIN ss : key[k] = i]))
                 ELSE tab[i]]
    BY DEF Inserted
  <2>2. (CHOOSE k \in DOMAIN ss : key[k] = id) = 1
    <3> HIDE DEF key, id, ss
    <3> QED BY <1>3, <1>4
  <2> HIDE DEF new, key, id, ss
  <2> QED BY <1>3, <1>5, <2>1, <2>2
<1>7. id \notin DOMAIN tab
  <2>1. Range(key) \cap DOMAIN tab = {}
    BY DEF Insertable
  <2> HIDE DEF key, id
  <2> QED BY <1>5, <2>1
<1>8. Data(t) \ Nullable \subseteq DOMAIN row
  <2>1. (Data(t) \ Nullable) \cup (IF t \in TextKeys THEN {Key(t)} ELSE {}) \subseteq DOMAIN ss[1]
    BY DEF Insertable
  <2> HIDE DEF ss
  <2> QED BY <1>3, <2>1
<1>9. RowOf(t, named) \in Row(t)
  BY <1>2, <1>8, RowOfTyped
<1>10. \A c \in Data(t) \cap DOMAIN row : RowOf(t, named)[c] = row[c]
  <2> HIDE DEF named
  <2> QED BY <1>1 DEF RowOf
<1> HIDE DEF ss, named, id, key, new
<1> QED
  BY <1>6, <1>7, <1>9, <1>10 DEF AddsRow, new, id, ss

\* Setters laid over each other are a setter.
LEMMA OverTyped ==
  ASSUME NEW t, NEW f, NEW g, f \in SetterOf(t, DOMAIN f), g \in SetterOf(t, DOMAIN g)
  PROVE  /\ DOMAIN Over(f, g) = DOMAIN f \cup DOMAIN g
         /\ Over(f, g) \in SetterOf(t, DOMAIN Over(f, g))
         /\ \A c \in DOMAIN f : Over(f, g)[c] = f[c]
<1> DEFINE h == Over(f, g)
<1>1. h = [c \in DOMAIN f \cup DOMAIN g |-> IF c \in DOMAIN f THEN f[c] ELSE g[c]]
  BY DEF Over
<1>2. /\ \A c \in DOMAIN f : f[c] \in RowIds \cup Vals \cup {Null} /\ f[c] \in Values(t, c)
      /\ \A c \in DOMAIN g : g[c] \in RowIds \cup Vals \cup {Null} /\ g[c] \in Values(t, c)
  BY DEF SetterOf
<1> HIDE DEF h
<1>3. h \in SetterOf(t, DOMAIN h)
  BY <1>1, <1>2 DEF SetterOf
<1> QED
  BY <1>1, <1>3 DEF h

LEMMA ColumnTyped ==
  ASSUME NEW t, NEW c, NEW v \in Values(t, c)
  PROVE  /\ DOMAIN Column(c, v) = {c} /\ Column(c, v)[c] = v
         /\ Column(c, v) \in SetterOf(t, DOMAIN Column(c, v))
  BY DEF Column, SetterOf, Values

\* What a setter of a table gives are columns of the table.
IsSetter(t, s) == s \in SetterOf(t, DOMAIN s) /\ DOMAIN s \subseteq Range(Columns[t])

LEMMA OverSetter ==
  ASSUME NEW t, NEW f, NEW g, IsSetter(t, f), IsSetter(t, g)
  PROVE  IsSetter(t, Over(f, g)) /\ \A c \in DOMAIN f : c \in DOMAIN Over(f, g) /\ Over(f, g)[c] = f[c]
<1>1. /\ f \in SetterOf(t, DOMAIN f) /\ g \in SetterOf(t, DOMAIN g)
      /\ DOMAIN f \subseteq Range(Columns[t]) /\ DOMAIN g \subseteq Range(Columns[t])
  BY DEF IsSetter
<1>2. /\ DOMAIN Over(f, g) = DOMAIN f \cup DOMAIN g
      /\ Over(f, g) \in SetterOf(t, DOMAIN Over(f, g))
      /\ \A c \in DOMAIN f : Over(f, g)[c] = f[c]
  BY <1>1, OverTyped
<1> QED
  BY <1>1, <1>2 DEF IsSetter

LEMMA SetterIs ==
  ASSUME NEW t \in Tables, NEW S, S \subseteq Range(Columns[t]), NEW s \in SetterOf(t, S)
  PROVE  IsSetter(t, s)
<1>1. DOMAIN s = S
  BY DEF SetterOf
<1> QED
  BY <1>1 DEF IsSetter

-----------------------------------------------------------------------------
(***************************************************************************)
(* Lists, by what is in them.                                              *)
(***************************************************************************)

IsList(l) == l \in Seq(Range(l))

LEMMA ListFacts ==
  ASSUME NEW l, IsList(l)
  PROVE  /\ Len(l) \in Nat /\ DOMAIN l = 1 .. Len(l)
         /\ l # <<>> => /\ Len(l) > 0 /\ l[1] \in Range(l)
                        /\ IsList(Tail(l)) /\ Range(Tail(l)) \subseteq Range(l)
                        /\ Len(Tail(l)) = Len(l) - 1
                        /\ DOMAIN Tail(l) = 1 .. Len(l) - 1
                        /\ \A k \in 1 .. Len(l) - 1 : Tail(l)[k] = l[k + 1]
<1>1. l \in Seq(Range(l))
  BY DEF IsList
<1>2. Len(l) \in Nat /\ DOMAIN l = 1 .. Len(l)
  BY <1>1, LenProperties
<1>3. ASSUME l # <<>>
      PROVE  /\ Len(l) > 0 /\ l[1] \in Range(l)
             /\ IsList(Tail(l)) /\ Range(Tail(l)) \subseteq Range(l)
             /\ Len(Tail(l)) = Len(l) - 1
             /\ DOMAIN Tail(l) = 1 .. Len(l) - 1
             /\ \A k \in 1 .. Len(l) - 1 : Tail(l)[k] = l[k + 1]
  <2>1. Len(l) > 0
    BY <1>1, <1>2, <1>3, EmptySeq
  <2>2. l[1] \in Range(l)
    BY <1>2, <2>1 DEF Range
  <2>3. /\ Tail(l) \in Seq(Range(l)) /\ Len(Tail(l)) = Len(l) - 1
        /\ \A k \in 1 .. Len(l) - 1 : Tail(l)[k] = l[k + 1]
    BY <1>1, <1>3, HeadTailProperties
  <2> DEFINE r == Tail(l)
  <2>4. DOMAIN r = 1 .. Len(l) - 1
    BY <2>3, LenProperties
  <2>5. r \in Seq(Range(l)) /\ \A k \in DOMAIN r : r[k] \in Range(r)
    BY <2>3 DEF Range
  <2> HIDE DEF r
  <2>6. r \in Seq(Range(r))
    <3>1. r \in [1 .. Len(r) -> Range(l)] /\ Len(r) \in Nat
      BY <2>5, LenProperties
    <3>2. r \in [1 .. Len(r) -> Range(r)]
      BY <2>5, <3>1
    <3> QED BY <3>1, <3>2, SeqDef
  <2>7. Range(r) \subseteq Range(l)
    BY <2>5, RangeOfSeq
  <2> QED
    BY <2>1, <2>2, <2>3, <2>4, <2>6, <2>7 DEF IsList, r
<1> QED
  BY <1>2, <1>3

LEMMA ListsJoined ==
  ASSUME NEW l, IsList(l), NEW m, IsList(m)
  PROVE  /\ IsList(l \o m) /\ Range(l \o m) = Range(l) \cup Range(m)
         /\ Len(l \o m) = Len(l) + Len(m)
         /\ \A k \in 1 .. Len(l) : (l \o m)[k] = l[k]
         /\ \A k \in 1 .. Len(m) : (l \o m)[Len(l) + k] = m[k]
<1> DEFINE S == Range(l) \cup Range(m)
<1>1. l \in Seq(S) /\ m \in Seq(S)
  BY SeqMonotonic DEF IsList
<1>2. l \o m \in Seq(S) /\ Range(l \o m) = Range(l) \cup Range(m)
  BY <1>1, ConcatProperties, RangeConcatenation
<1>3. l \o m \in Seq(Range(l \o m))
  BY <1>2
<1>4. /\ Len(l \o m) = Len(l) + Len(m)
      /\ \A i \in 1 .. Len(l) + Len(m) : (l \o m)[i] = IF i <= Len(l) THEN l[i] ELSE m[i - Len(l)]
  BY <1>1, ConcatProperties
<1>5. Len(l) \in Nat /\ Len(m) \in Nat
  BY ListFacts
<1>6. \A k \in 1 .. Len(l) : (l \o m)[k] = l[k]
  BY <1>4, <1>5
<1>7. \A k \in 1 .. Len(m) : (l \o m)[Len(l) + k] = m[k]
  <2>1. ASSUME NEW k \in 1 .. Len(m)  PROVE (l \o m)[Len(l) + k] = m[k]
    <3>1. Len(l) + k \in 1 .. Len(l) + Len(m) /\ ~(Len(l) + k <= Len(l)) /\ Len(l) + k - Len(l) = k
      BY <1>5
    <3> QED BY <1>4, <3>1
  <2> QED BY <2>1
<1> QED
  BY <1>2, <1>3, <1>4, <1>6, <1>7 DEF IsList

LEMMA ShortLists ==
  /\ IsList(<<>>) /\ Range(<<>>) = {} /\ Len(<<>>) = 0
  /\ \A x : IsList(<<x>>) /\ Range(<<x>>) = {x} /\ Len(<<x>>) = 1 /\ <<x>>[1] = x /\ <<x>> # <<>>
<1>1. Range(<<>>) = {} /\ \A x : Range(<<x>>) = {x}
  BY DEF Range
<1> QED
  BY <1>1 DEF IsList

LEMMA ListGrows ==
  ASSUME NEW l, IsList(l), NEW x
  PROVE  /\ IsList(Append(l, x)) /\ Range(Append(l, x)) = Range(l) \cup {x}
         /\ Len(Append(l, x)) = Len(l) + 1
<1>1. Append(l, x) = l \o <<x>>
  <2>1. l \in Seq(Range(l) \cup {x})
    BY SeqMonotonic DEF IsList
  <2> QED BY <2>1, AppendIsConcat
<1>2. /\ IsList(l \o <<x>>) /\ Range(l \o <<x>>) = Range(l) \cup Range(<<x>>)
      /\ Len(l \o <<x>>) = Len(l) + Len(<<x>>)
  BY ShortLists, ListsJoined
<1> QED
  BY <1>1, <1>2, ShortLists

\* A list with something in front.
LEMMA ListInFront ==
  ASSUME NEW x, NEW r, IsList(r)
  PROVE  /\ IsList(<<x>> \o r) /\ DOMAIN (<<x>> \o r) = 1 .. Len(r) + 1
         /\ (<<x>> \o r)[1] = x
         /\ \A k \in DOMAIN r : (<<x>> \o r)[k + 1] = r[k]
<1>1. /\ IsList(<<x>> \o r) /\ Len(<<x>> \o r) = Len(<<x>>) + Len(r)
      /\ \A k \in 1 .. Len(<<x>>) : (<<x>> \o r)[k] = <<x>>[k]
      /\ \A k \in 1 .. Len(r) : (<<x>> \o r)[Len(<<x>>) + k] = r[k]
  BY ListsJoined, ShortLists
<1>2. Len(<<x>>) = 1 /\ <<x>>[1] = x
  BY ShortLists
<1>3. Len(r) \in Nat /\ DOMAIN r = 1 .. Len(r)
  BY ListFacts
<1>4. DOMAIN (<<x>> \o r) = 1 .. Len(<<x>> \o r)
  BY <1>1, ListFacts
<1> DEFINE s == <<x>> \o r
<1>5. Len(s) = Len(r) + 1 /\ DOMAIN s = 1 .. Len(r) + 1
  BY <1>1, <1>2, <1>3, <1>4
<1>6. s[1] = x /\ \A k \in DOMAIN r : s[k + 1] = r[k]
  BY <1>1, <1>2, <1>3
<1> QED
  BY <1>1, <1>5, <1>6

-----------------------------------------------------------------------------
(***************************************************************************)
(* Templates.  They may be related to templates to any depth: what is said *)
(* of one holds of all the templates of a set that has with each one those *)
(* it is related to.                                                       *)
(***************************************************************************)

LEMMA RelationNames ==
  /\ Range(Relations("user")) = {"credential", "file", "item", "user"}
  /\ Range(Relations("file")) = {"user"}
  /\ Range(Relations("item")) = {} /\ Range(Relations("credential")) = {}
  /\ Range(Relations("schema_migrations")) = {}
<1>1. /\ Range(UserR) = {"credential", "file", "item", "user"}
      /\ Range(FileR) = {"user"} /\ Range(<<>>) = {}
  BY DEF Range, UserR, FileR
<1> QED
  BY <1>1 DEF Relations

\* A relation goes by a table with a link that may hold any key.  Only the
\* picture of a user is linked by the table that has the relation.
LEMMA RelationFacts ==
  ASSUME NEW t \in Tables, NEW c \in Range(Relations(t))
  PROVE  /\ c \in Tables /\ Other(t, c) \in Tables
         /\ t \notin Owned \/ Other(t, c) # t
         /\ Link(c) \in Data(c) /\ Link(c) # Key(c)
         /\ RowIds \subseteq Values(c, Link(c))
         /\ Other(t, c) # c => t = "user" /\ c = "user" /\ Other(t, c) = "file"
                               /\ Link(c) = "profile_picture_id"
         /\ Other(t, c) = c => c # t
         /\ Other(t, c) = c /\ c = "user" => t = "file"
  BY RelationNames, KeyNames, ColumnNames
     DEF Tables, Other, Owned, Link, Data, Values, Links, Nullable

LEMMA OwnedFacts ==
  ASSUME NEW t \in Owned
  PROVE  /\ t \in Tables /\ t # "user" /\ "user_id" \in Data(t)
         /\ "user_id" \in Range(Columns[t])
         /\ Values(t, "user_id") = RowIds
  BY KeyNames, ColumnNames DEF Owned, Tables, Data, Values, Links, Nullable

\* What relation c of table t may ask for.
AreEntries(t, c, l, S) ==
  /\ IsList(l)
  /\ \A e \in Range(l) : e.o \in S /\ e.o.table = Other(t, c)
  /\ Other(t, c) # c => Len(l) <= 1 /\ \A e \in Range(l) : e.o.persisted \/ e.n = 1

IsTemplate(o, S, d) ==
  /\ DOMAIN o = {"table", "given", "user", "persisted", "related"}
  /\ o.table \in Tables
  /\ o.given \in SetterOf(o.table, DOMAIN o.given)
  /\ DOMAIN o.given \subseteq Range(Columns[o.table])
  /\ o.persisted => IdOf(o) \in DOMAIN d[o.table]
  /\ o.user = <<>> \/ \E u \in S : o.user = <<u>> /\ u.table = "user"
  /\ DOMAIN o.related = Range(Relations(o.table))
  /\ \A c \in DOMAIN o.related : AreEntries(o.table, c, o.related[c], S)

AreTemplates(S, d) == \A o \in S : IsTemplate(o, S, d)

Sound(o, d) == \E S : o \in S /\ AreTemplates(S, d)

LEMMA TemplateStays ==
  ASSUME NEW o, NEW S, NEW T, S \subseteq T, NEW d, IsTemplate(o, S, d)
  PROVE  IsTemplate(o, T, d)
<1>1. \A c \in DOMAIN o.related : AreEntries(o.table, c, o.related[c], T)
  BY DEF IsTemplate, AreEntries
<1> QED
  BY <1>1 DEF IsTemplate

LEMMA SoundIf ==
  ASSUME NEW S, NEW d, AreTemplates(S, d), NEW p, IsTemplate(p, S, d)
  PROVE  Sound(p, d)
<1>1. AreTemplates(S \cup {p}, d)
  BY TemplateStays DEF AreTemplates
<1> QED
  BY <1>1 DEF Sound

\* Two templates may be related to each other.
LEMMA SoundTogether ==
  ASSUME NEW d, NEW o, Sound(o, d), NEW r, Sound(r, d)
  PROVE  \E S : o \in S /\ r \in S /\ AreTemplates(S, d)
<1>1. PICK S : o \in S /\ AreTemplates(S, d)
  BY DEF Sound
<1>2. PICK T : r \in T /\ AreTemplates(T, d)
  BY DEF Sound
<1>3. AreTemplates(S \cup T, d)
  BY <1>1, <1>2, TemplateStays DEF AreTemplates
<1> QED
  BY <1>1, <1>2, <1>3

\* Rows that are there stay there, under their key.
Grows(d, d2) == \A t \in Tables : DOMAIN d[t] \subseteq DOMAIN d2[t]

LEMMA SoundStays ==
  ASSUME NEW d, NEW d2, Grows(d, d2), NEW o, Sound(o, d)
  PROVE  Sound(o, d2)
<1>1. PICK S : o \in S /\ AreTemplates(S, d)
  BY DEF Sound
<1>2. \A p \in S : IsTemplate(p, S, d2)
  BY <1>1 DEF AreTemplates, IsTemplate, Grows
<1> QED
  BY <1>1, <1>2 DEF Sound, AreTemplates

\* What a call takes from its template.
LEMMA SoundFacts ==
  ASSUME NEW d, NEW o, Sound(o, d)
  PROVE  /\ o.table \in Tables
         /\ o.given \in SetterOf(o.table, DOMAIN o.given)
         /\ DOMAIN o.given \subseteq Range(Columns[o.table])
         /\ o.persisted => IdOf(o) \in DOMAIN d[o.table]
         /\ o.user # <<>> => Sound(o.user[1], d) /\ o.user[1].table = "user"
         /\ DOMAIN o.related = Range(Relations(o.table))
         /\ \A c \in DOMAIN o.related : IsList(o.related[c])
         /\ \A c \in DOMAIN o.related : \A e \in Range(o.related[c]) :
              Sound(e.o, d) /\ e.o.table = Other(o.table, c)
         /\ \A c \in DOMAIN o.related : Other(o.table, c) # c =>
              Len(o.related[c]) <= 1 /\ \A e \in Range(o.related[c]) : e.o.persisted \/ e.n = 1
<1>1. PICK S : o \in S /\ AreTemplates(S, d)
  BY DEF Sound
<1>2. IsTemplate(o, S, d) /\ \A p \in S : Sound(p, d)
  BY <1>1 DEF AreTemplates, Sound
<1>3. o.user # <<>> => Sound(o.user[1], d) /\ o.user[1].table = "user"
  BY <1>2 DEF IsTemplate
<1>4. /\ \A c \in DOMAIN o.related : IsList(o.related[c])
      /\ \A c \in DOMAIN o.related : \A e \in Range(o.related[c]) :
           Sound(e.o, d) /\ e.o.table = Other(o.table, c)
      /\ \A c \in DOMAIN o.related : Other(o.table, c) # c =>
           Len(o.related[c]) <= 1 /\ \A e \in Range(o.related[c]) : e.o.persisted \/ e.n = 1
  BY <1>2 DEF IsTemplate, AreEntries
<1> QED
  BY <1>2, <1>3, <1>4 DEF IsTemplate

LEMMA TemplateSound ==
  ASSUME NEW t \in Tables, NEW S, NEW d
  PROVE  /\ IsTemplate(Template(t), S, d)
         /\ Template(t).table = t /\ ~Template(t).persisted
<1> DEFINE o == Template(t)
<1>1. /\ DOMAIN o = {"table", "given", "user", "persisted", "related"}
      /\ o.table = t /\ o.given = <<>> /\ o.user = <<>> /\ o.persisted = FALSE
      /\ o.related = [c \in Range(Relations(t)) |-> <<>>]
  BY DEF Template
<1>2. /\ DOMAIN <<>> = {} /\ <<>> \in SetterOf(t, {})
  <2>1. <<>> \in [{} -> RowIds \cup Vals \cup {Null}] /\ DOMAIN <<>> = {}
    OBVIOUS
  <2> QED BY <2>1 DEF SetterOf
<1>3. \A c \in Range(Relations(t)) : AreEntries(t, c, <<>>, S)
  BY ShortLists DEF AreEntries
<1> HIDE DEF o
<1>4. DOMAIN o.related = Range(Relations(t)) /\ \A c \in DOMAIN o.related : o.related[c] = <<>>
  BY <1>1
<1> QED
  BY <1>1, <1>2, <1>3, <1>4 DEF IsTemplate, o

\* The number of what a list is made of, and what is in it.
LEMMA MadeOf ==
  ASSUME NEW X, NEW b \in Seq(X), NEW l, DOMAIN l = DOMAIN b, l = [k \in DOMAIN l |-> l[k]]
  PROVE  IsList(l) /\ Len(l) = Len(b)
<1>1. Len(b) \in Nat /\ DOMAIN b = 1 .. Len(b)
  BY LenProperties
<1>2. l \in [1 .. Len(b) -> Range(l)]
  BY <1>1 DEF Range
<1>3. l \in Seq(Range(l))
  BY <1>1, <1>2, SeqDef
<1>4. Len(l) \in Nat /\ DOMAIN l = 1 .. Len(l)
  BY <1>3, LenProperties
<1>5. Len(l) = Len(b)
  <2>1. \A k \in Nat : k \in 1 .. Len(b) <=> k \in 1 .. Len(l)
    BY <1>1, <1>4
  <2>2. (Len(b) \in 1 .. Len(b) \/ Len(b) = 0) /\ (Len(l) \in 1 .. Len(l) \/ Len(l) = 0)
    BY <1>1, <1>4
  <2> QED
    BY <1>1, <1>4, <2>1, <2>2
<1> QED
  BY <1>3, <1>5 DEF IsList

LEMMA NewSound ==
  ASSUME NEW t \in Tables, NEW d
  PROVE  Sound(New(t), d) /\ New(t).table = t /\ ~New(t).persisted
<1> DEFINE o == New(t)
           S == {Template(x) : x \in Tables}
           asked(c) == [k \in DOMAIN BaseMods[t][c] |->
                          Entry(BaseMods[t][c][k], Template(Other(t, c)))]
<1>1. AreTemplates(S, d)
  BY TemplateSound DEF AreTemplates
<1>2. IsTemplate(Template(t), S, d) /\ Template(t).table = t /\ ~Template(t).persisted
  BY TemplateSound
<1>3. /\ DOMAIN Template(t) = {"table", "given", "user", "persisted", "related"}
      /\ DOMAIN Template(t).related = Range(Relations(t))
  BY <1>2 DEF IsTemplate
<1>4. /\ DOMAIN o = DOMAIN Template(t)
      /\ o.table = t /\ o.given = Template(t).given /\ o.user = Template(t).user
      /\ o.persisted = Template(t).persisted
      /\ o.related = [c \in Range(Relations(t)) |-> asked(c)]
  BY <1>2, <1>3 DEF New
<1>5. ASSUME NEW c \in Range(Relations(t))
      PROVE  AreEntries(t, c, asked(c), S)
  <2> DEFINE b == BaseMods[t][c]
  <2>1. b \in Seq(Nat)
    BY FactoryConstants
  <2>2. DOMAIN asked(c) = DOMAIN b /\ asked(c) = [k \in DOMAIN asked(c) |-> asked(c)[k]]
    OBVIOUS
  <2>3. IsList(asked(c)) /\ Len(asked(c)) = Len(b)
    <3> HIDE DEF asked, b
    <3> QED BY <2>1, <2>2, MadeOf
  <2>4. Template(Other(t, c)) \in S /\ Template(Other(t, c)).table = Other(t, c)
    BY RelationFacts, TemplateSound
  <2>5. \A e \in Range(asked(c)) : \E k \in DOMAIN b : e = Entry(b[k], Template(Other(t, c)))
    BY DEF Range
  <2>6. \A e \in Range(asked(c)) :
          /\ e.o \in S /\ e.o.table = Other(t, c)
          /\ \E k \in DOMAIN b : e.n = b[k]
    <3> HIDE DEF asked, b, S
    <3> QED BY <2>4, <2>5 DEF Entry
  <2>7. Other(t, c) # c => b \in {<<>>, << 1 >>}
    BY RelationFacts, FactoryConstants
  <2>8. ASSUME b \in {<<>>, << 1 >>}
        PROVE  Len(b) <= 1 /\ \A k \in DOMAIN b : b[k] = 1
    <3> HIDE DEF b
    <3>1. CASE b = <<>>
      <4>1. Len(<<>>) <= 1 /\ \A k \in DOMAIN <<>> : <<>>[k] = 1
        OBVIOUS
      <4> QED BY Zenon, <3>1, <4>1
    <3>2. CASE b = << 1 >>
      <4>1. Len(<< 1 >>) <= 1 /\ \A k \in DOMAIN << 1 >> : << 1 >>[k] = 1
        OBVIOUS
      <4> QED BY Zenon, <3>2, <4>1
    <3> QED BY <2>8, <3>1, <3>2
  <2> HIDE DEF asked, b, S
  <2> QED
    BY <2>3, <2>6, <2>7, <2>8 DEF AreEntries
<1>6. IsTemplate(o, S, d)
  <2> HIDE DEF o, S, asked
  <2>1. DOMAIN o.related = Range(Relations(t)) /\ \A c \in DOMAIN o.related : o.related[c] = asked(c)
    BY <1>4
  <2> QED
    BY <1>2, <1>4, <1>5, <2>1 DEF IsTemplate, IdOf
<1> HIDE DEF o, S
<1> QED
  BY <1>1, <1>2, <1>4, <1>6, SoundIf DEF o

\* The mods leave a template a template.
Modded(o, p, d) == Sound(p, d) /\ p.table = o.table /\ p.persisted = o.persisted

LEMMA WithUserSound ==
  ASSUME NEW d, NEW o, Sound(o, d), NEW rel, Sound(rel, d), rel.table = "user"
  PROVE  Modded(o, WithUser(o, rel), d)
<1> DEFINE p == WithUser(o, rel)
<1>1. PICK S : o \in S /\ rel \in S /\ AreTemplates(S, d)
  BY SoundTogether
<1>2. IsTemplate(o, S, d)
  BY <1>1 DEF AreTemplates
<1>3. /\ DOMAIN p = DOMAIN o /\ p.table = o.table /\ p.given = o.given
      /\ p.persisted = o.persisted /\ p.related = o.related /\ p.user = <<rel>>
  BY <1>2 DEF WithUser, IsTemplate
<1>4. IsTemplate(p, S, d)
  <2> HIDE DEF p
  <2> QED BY <1>1, <1>2, <1>3 DEF IsTemplate, IdOf
<1> HIDE DEF p
<1> QED
  BY <1>1, <1>3, <1>4, SoundIf DEF p, Modded

LEMMA WithoutUserSound ==
  ASSUME NEW d, NEW o, Sound(o, d)
  PROVE  Modded(o, WithoutUser(o), d)
<1> DEFINE p == WithoutUser(o)
<1>1. PICK S : o \in S /\ AreTemplates(S, d)
  BY DEF Sound
<1>2. IsTemplate(o, S, d)
  BY <1>1 DEF AreTemplates
<1>3. /\ DOMAIN p = DOMAIN o /\ p.table = o.table /\ p.given = o.given
      /\ p.persisted = o.persisted /\ p.related = o.related /\ p.user = <<>>
  BY <1>2 DEF WithoutUser, IsTemplate
<1>4. IsTemplate(p, S, d)
  <2> HIDE DEF p
  <2> QED BY <1>1, <1>2, <1>3 DEF IsTemplate, IdOf
<1> HIDE DEF p
<1> QED
  BY <1>1, <1>3, <1>4, SoundIf DEF p, Modded

\* What a relation may be given instead of what it has.
LEMMA RelatedSound ==
  ASSUME NEW d, NEW S, AreTemplates(S, d), NEW o \in S,
         NEW c \in Range(Relations(o.table)), NEW l, AreEntries(o.table, c, l, S)
  PROVE  Modded(o, [o EXCEPT !.related[c] = l], d)
<1> DEFINE p == [o EXCEPT !.related[c] = l]
<1>1. IsTemplate(o, S, d)
  BY DEF AreTemplates
<1>2. /\ DOMAIN p = DOMAIN o /\ p.table = o.table /\ p.given = o.given
      /\ p.persisted = o.persisted /\ p.user = o.user
      /\ p.related = [o.related EXCEPT ![c] = l]
  BY <1>1 DEF IsTemplate
<1>3. /\ DOMAIN p.related = DOMAIN o.related
      /\ \A x \in DOMAIN o.related : p.related[x] = IF x = c THEN l ELSE o.related[x]
  <2> HIDE DEF p
  <2> QED BY <1>2
<1>4. IsTemplate(p, S, d)
  <2> HIDE DEF p
  <2> QED BY <1>1, <1>2, <1>3 DEF IsTemplate, IdOf
<1> HIDE DEF p
<1> QED
  BY <1>2, <1>4, SoundIf DEF p, Modded

LEMMA WithSound ==
  ASSUME NEW d, NEW o, Sound(o, d), NEW c \in Range(Relations(o.table)), NEW n,
         NEW rel, Sound(rel, d), rel.table = Other(o.table, c),
         Other(o.table, c) # c => n = 1
  PROVE  Modded(o, With(o, c, n, rel), d)
<1>1. PICK S : o \in S /\ rel \in S /\ AreTemplates(S, d)
  BY SoundTogether
<1> DEFINE e == Entry(n, rel)
<1>2. e.n = n /\ e.o = rel
  BY DEF Entry
<1>3. IsList(<<e>>) /\ Range(<<e>>) = {e} /\ Len(<<e>>) = 1
  BY ShortLists
<1> HIDE DEF e
<1>4. AreEntries(o.table, c, <<e>>, S)
  BY <1>1, <1>2, <1>3 DEF AreEntries
<1>5. With(o, c, n, rel) = [o EXCEPT !.related[c] = <<e>>]
  BY DEF With, e
<1> QED
  BY <1>1, <1>4, <1>5, RelatedSound

LEMMA AddSound ==
  ASSUME NEW d, NEW o, Sound(o, d), NEW c \in Range(Relations(o.table)), NEW n,
         NEW rel, Sound(rel, d), rel.table = c, Other(o.table, c) = c
  PROVE  Modded(o, Add(o, c, n, rel), d)
<1>1. PICK S : o \in S /\ rel \in S /\ AreTemplates(S, d)
  BY SoundTogether
<1>2. IsTemplate(o, S, d)
  BY <1>1 DEF AreTemplates
<1> DEFINE e == Entry(n, rel)
           l == Append(o.related[c], e)
<1>3. e.n = n /\ e.o = rel
  BY DEF Entry
<1>4. AreEntries(o.table, c, o.related[c], S)
  BY <1>2 DEF IsTemplate
<1>5. IsList(l) /\ Range(l) = Range(o.related[c]) \cup {e}
  BY <1>4, ListGrows DEF AreEntries
<1>6. Add(o, c, n, rel) = [o EXCEPT !.related[c] = l]
  <2>1. DOMAIN o.related = Range(Relations(o.table)) /\ DOMAIN o = {"table", "given", "user", "persisted", "related"}
    BY <1>2 DEF IsTemplate
  <2> QED BY <2>1 DEF Add
<1> HIDE DEF e, l
<1>7. AreEntries(o.table, c, l, S)
  BY <1>1, <1>3, <1>4, <1>5 DEF AreEntries
<1> QED
  BY <1>1, <1>6, <1>7, RelatedSound

LEMMA WithoutSound ==
  ASSUME NEW d, NEW o, Sound(o, d), NEW c \in Range(Relations(o.table))
  PROVE  Modded(o, Without(o, c), d)
<1>1. PICK S : o \in S /\ AreTemplates(S, d)
  BY DEF Sound
<1>2. AreEntries(o.table, c, <<>>, S)
  BY ShortLists DEF AreEntries
<1> QED
  BY <1>1, <1>2, RelatedSound DEF Without

\* A template for a new row may give any columns.
LEMMA GivenSound ==
  ASSUME NEW d, NEW o, Sound(o, d), ~o.persisted, NEW s, s \in SetterOf(o.table, DOMAIN s),
         DOMAIN s \subseteq Range(Columns[o.table])
  PROVE  Modded(o, [o EXCEPT !.given = s], d)
<1> DEFINE p == [o EXCEPT !.given = s]
<1>1. PICK S : o \in S /\ AreTemplates(S, d)
  BY DEF Sound
<1>2. IsTemplate(o, S, d)
  BY <1>1 DEF AreTemplates
<1>3. /\ DOMAIN p = DOMAIN o /\ p.table = o.table /\ p.given = s
      /\ p.persisted = o.persisted /\ p.related = o.related /\ p.user = o.user
  BY <1>2 DEF IsTemplate
<1>4. IsTemplate(p, S, d)
  <2> HIDE DEF p
  <2> QED BY <1>1, <1>2, <1>3 DEF IsTemplate
<1> HIDE DEF p
<1> QED
  BY <1>1, <1>3, <1>4, SoundIf DEF p, Modded

LEMMA SetColumnSound ==
  ASSUME NEW d, NEW o, Sound(o, d), ~o.persisted, NEW c \in Range(Columns[o.table]),
         NEW v \in Values(o.table, c)
  PROVE  Modded(o, SetColumn(o, c, v), d)
<1> DEFINE x == Column(c, v)
           s == Over(x, o.given)
<1>1. /\ DOMAIN o = {"table", "given", "user", "persisted", "related"}
      /\ o.given \in SetterOf(o.table, DOMAIN o.given)
      /\ DOMAIN o.given \subseteq Range(Columns[o.table])
  BY DEF Sound, AreTemplates, IsTemplate
<1>2. IsSetter(o.table, x)
  <2>1. \A t : v \in Values(t, c) => DOMAIN x = {c} /\ x \in SetterOf(t, DOMAIN x)
    BY ColumnTyped
  <2> HIDE DEF x
  <2> QED BY <2>1 DEF IsSetter
<1>3. IsSetter(o.table, s)
  <2>1. IsSetter(o.table, o.given)
    BY <1>1 DEF IsSetter
  <2> HIDE DEF x
  <2> QED BY <1>2, <2>1, OverSetter
<1>4. SetColumn(o, c, v) = [o EXCEPT !.given = s]
  BY <1>1 DEF SetColumn
<1> HIDE DEF s
<1> QED
  BY <1>1, <1>3, <1>4, GivenSound DEF IsSetter

LEMMA UnsetColumnSound ==
  ASSUME NEW d, NEW o, Sound(o, d), ~o.persisted, NEW c
  PROVE  Modded(o, UnsetColumn(o, c), d)
<1> DEFINE s == Restrict(o.given, DOMAIN o.given \ {c})
<1>1. /\ DOMAIN o = {"table", "given", "user", "persisted", "related"}
      /\ o.given \in SetterOf(o.table, DOMAIN o.given)
      /\ DOMAIN o.given \subseteq Range(Columns[o.table])
  BY DEF Sound, AreTemplates, IsTemplate
<1>2. s \in SetterOf(o.table, DOMAIN s) /\ DOMAIN s \subseteq DOMAIN o.given
  BY <1>1 DEF SetterOf, Restrict
<1>3. UnsetColumn(o, c) = [o EXCEPT !.given = s]
  BY <1>1 DEF UnsetColumn
<1> HIDE DEF s
<1> QED
  BY <1>1, <1>2, <1>3, GivenSound

LEMMA UnderParentSound ==
  ASSUME NEW d, NEW o, Sound(o, d), o.table \in DOMAIN Parent,
         NEW rel, Sound(rel, d), rel.table = Parent[o.table]
  PROVE  Modded(o, UnderParent(o, rel), d)
<1>1. CASE o.table = "user"
  <2>1. /\ UnderParent(o, rel) = With(o, "user", 1, rel)
        /\ "user" \in Range(Relations(o.table)) /\ rel.table = Other(o.table, "user")
    BY <1>1, RelationNames DEF UnderParent, Parent, Other
  <2> QED
    BY <2>1, WithSound
<1>2. CASE o.table # "user"
  <2>1. UnderParent(o, rel) = WithUser(o, rel) /\ rel.table = "user"
    BY <1>2 DEF UnderParent, Parent
  <2> QED
    BY <2>1, WithUserSound
<1> QED
  BY <1>1, <1>2

LEMMA WithParentsCascadingSound ==
  ASSUME NEW d, NEW o, Sound(o, d), o.table \in DOMAIN Parent
  PROVE  Modded(o, WithParentsCascading(o), d)
<1>1. /\ \A t \in DOMAIN Parent : t \in Tables /\ Parent[t] \in {"user", "file"}
      /\ Parent["user"] = "file" /\ Parent["file"] = "user"
      /\ {"user", "file"} \subseteq DOMAIN Parent
      /\ o.table \notin {"user", "file"} => Parent[o.table] = "user"
  BY DEF Parent, Tables
<1>2. \A t \in DOMAIN Parent : Sound(New(t), d) /\ New(t).table = t
  BY <1>1, NewSound
<1>3. \A t \in {"user", "file"} : Sound(NewUnderParent(t), d) /\ NewUnderParent(t).table = t
  BY <1>1, <1>2, UnderParentSound DEF NewUnderParent, Modded
<1> DEFINE rel == IF o.table \in {"user", "file"} THEN NewUnderParent(Parent[o.table])
                  ELSE UnderParent(New("user"), NewUnderParent("file"))
<1>4. Sound(rel, d) /\ rel.table = Parent[o.table]
  <2>1. CASE o.table \in {"user", "file"}
    BY <1>1, <1>3, <2>1
  <2>2. CASE o.table \notin {"user", "file"}
    <3>1. Modded(New("user"), UnderParent(New("user"), NewUnderParent("file")), d)
      BY <1>1, <1>2, <1>3, UnderParentSound
    <3> QED BY <1>1, <1>2, <2>2, <3>1 DEF Modded
  <2> QED BY <2>1, <2>2
<1> HIDE DEF rel
<1>5. Modded(o, UnderParent(o, rel), d)
  BY <1>4, UnderParentSound
<1> QED
  BY <1>5 DEF WithParentsCascading, rel

\* A row of a table with its key is what a template may give.
LEMMA FromExistingSound ==
  ASSUME NEW t \in Tables, IsTable(t, db[t]), NEW i \in DOMAIN db[t]
  PROVE  Sound(FromExisting(t, i), db) /\ FromExisting(t, i).table = t
<1> DEFINE o == Template(t)
           x == Column(Key(t), i)
           s == Over(x, db[t][i])
           p == FromExisting(t, i)
<1>1. AreTemplates({o}, db)
  BY TemplateSound DEF AreTemplates
<1>2. IsTemplate(o, {o}, db) /\ o.table = t
  BY TemplateSound
<1>3. i \in RowIds /\ db[t][i] \in Row(t)
  BY DEF IsTable
<1>4. DOMAIN db[t][i] = Data(t) /\ db[t][i] \in SetterOf(t, DOMAIN db[t][i])
  BY <1>3 DEF Row, SetterOf
<1>5. DOMAIN x = {Key(t)} /\ x[Key(t)] = i /\ x \in SetterOf(t, DOMAIN x)
  BY <1>3, KeyFacts, ColumnTyped
<1>6. /\ s \in SetterOf(t, DOMAIN s) /\ DOMAIN s = Data(t) \cup {Key(t)}
      /\ s[Key(t)] = i
  <2> DEFINE g == db[t][i]
  <2>1. g \in SetterOf(t, DOMAIN g)
    BY <1>4
  <2> HIDE DEF x, g
  <2>2. /\ DOMAIN Over(x, g) = DOMAIN x \cup DOMAIN g
        /\ Over(x, g) \in SetterOf(t, DOMAIN Over(x, g))
        /\ \A c \in DOMAIN x : Over(x, g)[c] = x[c]
    BY <1>5, <2>1, OverTyped
  <2> QED BY <1>4, <1>5, <2>2 DEF g
<1>7. DOMAIN s = Range(Columns[t])
  BY <1>6, KeyFacts
<1>8. p = [o EXCEPT !.persisted = TRUE, !.given = s]
  BY DEF FromExisting
<1> HIDE DEF o, s
<1>9. /\ DOMAIN p = DOMAIN o /\ p.table = o.table /\ p.given = s
      /\ p.persisted = TRUE /\ p.related = o.related /\ p.user = o.user
  BY <1>2, <1>8 DEF IsTemplate
<1> HIDE DEF p
<1>10. IdOf(p) = i
  BY <1>2, <1>6, <1>7, <1>9, KeyFacts DEF IdOf
<1>11. IsTemplate(p, {o}, db)
  BY <1>2, <1>6, <1>7, <1>9, <1>10 DEF IsTemplate
<1> QED
  BY <1>1, <1>2, <1>9, <1>11, SoundIf DEF p

-----------------------------------------------------------------------------
(***************************************************************************)
(* The row a call inserts.                                                 *)
(***************************************************************************)

LEMMA CreatableSetter ==
  ASSUME NEW t \in Tables, NEW s, IsSetter(t, s), NEW x \in ensureCreatable(t, s)
  PROVE  IsSetter(t, x)
<1> DEFINE D == Data(t) \ (Nullable \cup Links \cup DOMAIN s)
           keys == IF t \in TextKeys /\ Key(t) \notin DOMAIN s
                   THEN SetterOf(t, {Key(t)}) ELSE {<<>>}
<1>1. PICK r \in SetterOf(t, D), k \in keys : x = Over(s, Over(r, k))
  <2> DEFINE likely == {y \in keys : y = <<>> \/ y[Key(t)] <= NextId(db[t])}
  <2>1. ensureCreatable(t, s) = {Over(s, Over(r, k)) : r \in SetterOf(t, D), k \in likely}
    BY DEF ensureCreatable
  <2>2. likely \subseteq keys
    OBVIOUS
  <2> HIDE DEF likely, keys, D
  <2> QED BY <2>1, <2>2
<1>2. D \subseteq Range(Columns[t]) /\ {Key(t)} \subseteq Range(Columns[t])
  BY KeyFacts
<1>3. IsSetter(t, r)
  <2> HIDE DEF D
  <2> QED BY <1>2, SetterIs
<1>4. IsSetter(t, <<>>)
  <2>1. <<>> \in [{} -> RowIds \cup Vals \cup {Null}] /\ DOMAIN <<>> = {}
    OBVIOUS
  <2>2. <<>> \in SetterOf(t, {})
    BY <2>1 DEF SetterOf
  <2> QED BY <2>2, SetterIs
<1>5. IsSetter(t, k)
  <2>1. k = <<>> \/ k \in SetterOf(t, {Key(t)})
    OBVIOUS
  <2> HIDE DEF keys
  <2> QED BY <1>2, <1>4, <2>1, SetterIs
<1>6. IsSetter(t, Over(s, Over(r, k)))
  <2>1. IsSetter(t, Over(r, k))
    BY <1>3, <1>5, OverSetter
  <2> QED BY <2>1, OverSetter
<1> QED
  BY <1>1, <1>6

LEMMA OwnedSetter ==
  ASSUME NEW t \in Owned, NEW v \in RowIds, NEW s, IsSetter(t, s)
  PROVE  /\ IsSetter(t, Over(Column("user_id", v), s))
         /\ "user_id" \in DOMAIN Over(Column("user_id", v), s)
         /\ Over(Column("user_id", v), s)["user_id"] = v
<1>1. PICK c : c = "user_id"
  OBVIOUS
<1>2. v \in Values(t, c) /\ {c} \subseteq Range(Columns[t])
  BY <1>1, OwnedFacts
<1>3. PICK x : x = Column(c, v)
  OBVIOUS
<1>4. DOMAIN x = {c} /\ x[c] = v /\ x \in SetterOf(t, DOMAIN x)
  BY <1>2, <1>3, ColumnTyped
<1>5. IsSetter(t, x)
  BY <1>2, <1>4 DEF IsSetter
<1>6. IsSetter(t, Over(x, s)) /\ c \in DOMAIN Over(x, s) /\ Over(x, s)[c] = x[c]
  <2>1. /\ IsSetter(t, Over(x, s))
        /\ \A y \in DOMAIN x : y \in DOMAIN Over(x, s) /\ Over(x, s)[y] = x[y]
    BY Zenon, <1>5, OverSetter
  <2> QED BY <1>4, <2>1
<1> QED
  BY <1>1, <1>3, <1>4, <1>6

LEMMA WrittenSetter ==
  ASSUME NEW f, f.o.table \in Owned => f.user \in RowIds,
         NEW s, IsSetter(f.o.table, s)
  PROVE  /\ IsSetter(f.o.table, Written(f, s))
         /\ f.o.table \in Owned =>
              "user_id" \in DOMAIN Written(f, s) /\ Written(f, s)["user_id"] = f.user
  BY OwnedSetter DEF Written

-----------------------------------------------------------------------------
(***************************************************************************)
(* Calls.  A call knows the rows it has made: its own, those of the entry  *)
(* it is at, and those it has linked.  No two calls know the same row.     *)
(***************************************************************************)

InPlace(f) ==
  /\ DOMAIN f = {"o", "ctx", "at", "user", "id", "todo", "made", "existing", "many", "R"}
  /\ f.at \in {"user", "insert", "relate"}
  /\ DOMAIN f.todo = Range(Relations(f.o.table))
  /\ DOMAIN f.many = Range(Relations(f.o.table))

\* What a call does next is in its template.
Follows(f) ==
  \A c \in DOMAIN f.todo :
    /\ IsList(f.todo[c]) /\ Range(f.todo[c]) \subseteq Range(f.o.related[c])
    /\ Len(f.todo[c]) <= Len(f.o.related[c])

\* What it has done is in the tables.
Stored(f, d) ==
  /\ f.user # 0 => f.user \in DOMAIN d["user"]
  /\ f.o.table \in Owned /\ f.at # "user" => f.user \in DOMAIN d["user"]
  /\ f.at = "relate" => f.id \in DOMAIN d[f.o.table]
  /\ \A c \in DOMAIN f.many :
       IsList(f.many[c]) /\ Range(f.many[c]) \subseteq DOMAIN d[Other(f.o.table, c)]
  /\ IsList(f.made)
  /\ \A c \in Turn(f) : Range(f.made) \subseteq DOMAIN d[Other(f.o.table, c)]

\* It has made nothing before its own row is there, nor with nothing to do, and
\* a picture is the last of them.
Proceeds(f) ==
  /\ f.at # "relate" => f.made = <<>> /\ \A c \in DOMAIN f.many : f.many[c] = <<>>
  /\ Turn(f) = {} => f.made = <<>>
  /\ \A c \in DOMAIN f.todo :
       Other(f.o.table, c) # c /\ f.todo[c] # <<>> => f.many[c] = <<>>

IsCall(f, d) == Sound(f.o, d) /\ InPlace(f) /\ Follows(f) /\ Stored(f, d) /\ Proceeds(f)

\* What has been put into R is linked as it said.
Placement(f, d, c, i) ==
  <<c, i>> \in f.existing
    \/ IF Other(f.o.table, c) = c THEN d[c][i][Link(c)] = f.id
       ELSE d[f.o.table][f.id].profile_picture_id = i

Linked(f, d) ==
  f.at = "relate" =>
    /\ f.o.table \in Owned => d[f.o.table][f.id].user_id = f.user
    /\ \A c \in DOMAIN f.many : \A i \in Range(f.many[c]) : Placement(f, d, c, i)

\* A call within another makes what the other one is waiting for.
Within(f, g) ==
  \/ g.at = "user" /\ f.o.table = "user"
  \/ g.at = "relate" /\ \E c \in Turn(g) : f.o.table = Other(g.o.table, c)

Knows(f, t, i) ==
  \/ f.at = "relate" /\ t = f.o.table /\ i = f.id
  \/ \E c \in Turn(f) : t = Other(f.o.table, c) /\ i \in Range(f.made)
  \/ \E c \in DOMAIN f.many :
       t = Other(f.o.table, c) /\ i \in Range(f.many[c]) /\ <<c, i>> \notin f.existing

Apart(f, g) == \A t, i : ~(Knows(f, t, i) /\ Knows(g, t, i))

LEMMA TurnFacts ==
  ASSUME NEW f, f.o.table \in Tables, InPlace(f), NEW c \in Turn(f)
  PROVE  /\ c \in DOMAIN f.todo /\ f.todo[c] # <<>>
         /\ c \in Range(Relations(f.o.table))
         /\ \A d \in Turn(f) : d = c
<1>1. ASSUME NEW t \in Tables  PROVE DOMAIN Relations(t) \subseteq Nat
  <2>1. /\ DOMAIN UserR = 1 .. 4 /\ DOMAIN FileR = 1 .. 1 /\ DOMAIN <<>> = {}
    BY DEF UserR, FileR
  <2>2. Relations(t) \in {UserR, FileR, <<>>}
    BY DEF Relations, Tables
  <2> QED BY <2>1, <2>2
<1>2. \A x \in Turn(f) : x \in Left(f) /\ \A y \in Left(f) : ~Before(f.o.table, y, x)
  BY DEF Turn
<1>3. \A x \in Left(f) : x \in DOMAIN f.todo /\ f.todo[x] # <<>> /\ x \in Range(Relations(f.o.table))
  BY DEF Left, InPlace
<1>4. ASSUME NEW t \in Tables, NEW x \in Range(Relations(t)), NEW y \in Range(Relations(t)),
             ~Before(t, x, y), ~Before(t, y, x)
      PROVE  x = y
  <2>1. PICK j \in DOMAIN Relations(t) : Relations(t)[j] = x
    BY DEF Range
  <2>2. PICK k \in DOMAIN Relations(t) : Relations(t)[k] = y
    BY DEF Range
  <2>3. ~(j < k) /\ ~(k < j)
    BY <1>4, <2>1, <2>2 DEF Before
  <2>4. j = k
    BY <1>1, <2>3
  <2> QED
    BY <2>1, <2>2, <2>4
<1>5. \A d \in Turn(f) : d = c
  BY <1>2, <1>3, <1>4
<1> QED
  BY <1>2, <1>3, <1>5

\* The entry a call is at.
LEMMA EntryFacts ==
  ASSUME NEW d, NEW f, IsCall(f, d), NEW c \in Turn(f)
  PROVE  /\ f.todo[c] # <<>> /\ c \in DOMAIN f.todo
         /\ Sound(f.todo[c][1].o, d) /\ f.todo[c][1].o.table = Other(f.o.table, c)
         /\ Other(f.o.table, c) # c =>
              /\ f.todo[c][1].o.persisted \/ f.todo[c][1].n = 1
              /\ Tail(f.todo[c]) = <<>> /\ f.many[c] = <<>>
<1>1. f.o.table \in Tables
  BY SoundFacts DEF IsCall
<1>2. c \in DOMAIN f.todo /\ f.todo[c] # <<>>
  BY <1>1, TurnFacts DEF IsCall
<1>3. /\ IsList(f.todo[c]) /\ Range(f.todo[c]) \subseteq Range(f.o.related[c])
      /\ Len(f.todo[c]) <= Len(f.o.related[c])
  BY <1>2 DEF IsCall, Follows
<1>4. c \in DOMAIN f.o.related
  BY <1>2, SoundFacts DEF IsCall, InPlace
<1> DEFINE l == f.todo[c]
           e == l[1]
<1>5. e \in Range(f.o.related[c]) /\ Len(Tail(l)) = Len(l) - 1 /\ IsList(Tail(l)) /\ Len(l) \in Nat
  <2> HIDE DEF l
  <2> QED BY <1>2, <1>3, ListFacts DEF l
<1>6. Sound(e.o, d) /\ e.o.table = Other(f.o.table, c)
  BY <1>4, <1>5, SoundFacts DEF IsCall
<1>7. ASSUME Other(f.o.table, c) # c
      PROVE  /\ e.o.persisted \/ e.n = 1
             /\ Tail(l) = <<>> /\ f.many[c] = <<>>
  <2>1. Len(f.o.related[c]) <= 1 /\ (e.o.persisted \/ e.n = 1)
    BY <1>4, <1>5, <1>7, SoundFacts DEF IsCall
  <2>2. IsList(f.o.related[c])
    BY <1>4, SoundFacts DEF IsCall
  <2>3. Len(f.o.related[c]) \in Nat
    BY <2>2, ListFacts
  <2>4. Tail(l) = <<>>
    <3>1. Len(Tail(l)) \in Nat /\ (Tail(l) # <<>> => Len(Tail(l)) > 0)
      BY <1>5, ListFacts
    <3> HIDE DEF l
    <3> QED BY <1>3, <1>5, <2>1, <2>3, <3>1 DEF l
  <2>5. f.many[c] = <<>>
    BY <1>2, <1>7 DEF IsCall, Proceeds
  <2> QED BY <2>1, <2>4, <2>5
<1> HIDE DEF l, e
<1> QED
  BY <1>2, <1>6, <1>7 DEF e, l

LEMMA RelationsThere ==
  ASSUME NEW d, NEW f, IsCall(f, d)
  PROVE  /\ f.o.table \in Tables
         /\ \A c \in DOMAIN f.many : c \in Tables /\ Other(f.o.table, c) \in Tables
         /\ \A c \in Turn(f) : c \in Tables /\ Other(f.o.table, c) \in Tables
<1>1. f.o.table \in Tables
  BY SoundFacts DEF IsCall
<1>2. DOMAIN f.many = Range(Relations(f.o.table)) /\ Turn(f) \subseteq Range(Relations(f.o.table))
  BY <1>1, TurnFacts DEF IsCall, InPlace
<1> QED
  BY <1>1, <1>2, RelationFacts

LEMMA CallStays ==
  ASSUME NEW d, NEW d2, Grows(d, d2), NEW f, IsCall(f, d)
  PROVE  IsCall(f, d2)
<1>1. Sound(f.o, d2)
  BY SoundStays DEF IsCall
<1>2. \A t \in Tables : DOMAIN d[t] \subseteq DOMAIN d2[t]
  BY DEF Grows
<1>3. "user" \in Tables
  BY DEF Tables
<1>4. Stored(f, d)
  BY DEF IsCall
<1>5. Stored(f, d2)
  BY <1>2, <1>3, <1>4, RelationsThere DEF Stored
<1> QED
  BY <1>1, <1>5 DEF IsCall

LEMMA KnownThere ==
  ASSUME NEW d, NEW f, IsCall(f, d), NEW t, NEW i, Knows(f, t, i)
  PROVE  t \in Tables /\ i \in DOMAIN d[t]
<1>1. Stored(f, d)
  BY DEF IsCall
<1>2. CASE f.at = "relate" /\ t = f.o.table /\ i = f.id
  BY <1>1, <1>2, RelationsThere DEF Stored
<1>3. CASE \E c \in Turn(f) : t = Other(f.o.table, c) /\ i \in Range(f.made)
  BY <1>1, <1>3, RelationsThere DEF Stored
<1>4. CASE \E c \in DOMAIN f.many :
             t = Other(f.o.table, c) /\ i \in Range(f.many[c]) /\ <<c, i>> \notin f.existing
  BY <1>1, <1>4, RelationsThere DEF Stored
<1> QED
  BY <1>2, <1>3, <1>4 DEF Knows

\* Who leaves the rows alone that a call knows leaves its links alone.
LEMMA LinkedStays ==
  ASSUME NEW d, NEW d2, NEW f, IsCall(f, d), Linked(f, d),
         \A t \in Tables : \A i \in DOMAIN d[t] : Knows(f, t, i) => d2[t][i] = d[t][i]
  PROVE  Linked(f, d2)
<1> SUFFICES ASSUME f.at = "relate"
             PROVE  /\ f.o.table \in Owned => d2[f.o.table][f.id].user_id = f.user
                    /\ \A c \in DOMAIN f.many : \A i \in Range(f.many[c]) : Placement(f, d2, c, i)
  BY DEF Linked
<1>1. d2[f.o.table][f.id] = d[f.o.table][f.id]
  <2>1. Knows(f, f.o.table, f.id)
    BY DEF Knows
  <2> QED BY <2>1, KnownThere
<1>2. ASSUME NEW c \in DOMAIN f.many, NEW i \in Range(f.many[c])  PROVE Placement(f, d2, c, i)
  <2>1. Placement(f, d, c, i)
    BY DEF Linked
  <2>2. CASE <<c, i>> \in f.existing
    BY <2>2 DEF Placement
  <2>3. CASE <<c, i>> \notin f.existing /\ Other(f.o.table, c) = c
    <3>1. Knows(f, c, i)
      BY <2>3 DEF Knows
    <3>2. d2[c][i] = d[c][i]
      BY <3>1, KnownThere
    <3> QED BY <2>1, <2>3, <3>2 DEF Placement
  <2>4. CASE <<c, i>> \notin f.existing /\ Other(f.o.table, c) # c
    BY <1>1, <2>1, <2>4 DEF Placement
  <2> QED BY <2>2, <2>3, <2>4
<1> QED
  BY <1>1, <1>2 DEF Linked

\* The calls under way.
AreCalls(s, d) ==
  /\ IsList(s)
  /\ \A k \in DOMAIN s : IsCall(s[k], d) /\ Linked(s[k], d)
  /\ \A k \in DOMAIN s : k + 1 \in DOMAIN s => Within(s[k], s[k + 1])
  /\ \A j, k \in DOMAIN s : j # k => Apart(s[j], s[k])

LEMMA NoCalls ==
  ASSUME NEW d
  PROVE  AreCalls(<<>>, d)
  BY ShortLists DEF AreCalls

\* The innermost call, and those around it.
LEMMA CallsAround ==
  ASSUME NEW s, NEW d, AreCalls(s, d), s # <<>>
  PROVE  /\ IsCall(s[1], d) /\ Linked(s[1], d)
         /\ AreCalls(Tail(s), d)
         /\ Tail(s) # <<>> => Within(s[1], Tail(s)[1]) /\ Tail(s)[1] = s[2]
         /\ \A k \in DOMAIN Tail(s) : Apart(s[1], Tail(s)[k])
<1> DEFINE r == Tail(s)
           n == Len(s)
<1>1. /\ n \in Nat /\ n > 0 /\ DOMAIN s = 1 .. n
      /\ IsList(r) /\ DOMAIN r = 1 .. n - 1 /\ Len(r) = n - 1
      /\ \A k \in 1 .. n - 1 : r[k] = s[k + 1]
  BY ListFacts DEF AreCalls
<1>2. r # <<>> => 1 \in DOMAIN r
  <2>1. r # <<>> => Len(r) > 0
    BY <1>1, ListFacts
  <2> HIDE DEF r, n
  <2> QED BY <1>1, <2>1
<1>3. \A k \in DOMAIN r : k \in Nat /\ r[k] = s[k + 1] /\ k + 1 \in DOMAIN s /\ k \in DOMAIN s /\ k + 1 # 1
  BY <1>1
<1>4. 1 \in DOMAIN s
  BY <1>1
<1> HIDE DEF r, n
<1>5. \A k \in DOMAIN r : IsCall(r[k], d) /\ Linked(r[k], d) /\ Apart(s[1], r[k])
  BY <1>3, <1>4 DEF AreCalls
<1>6. \A k \in DOMAIN r : k + 1 \in DOMAIN r => Within(r[k], r[k + 1])
  <2>1. ASSUME NEW k \in DOMAIN r, k + 1 \in DOMAIN r  PROVE Within(s[k + 1], s[(k + 1) + 1])
    <3>1. k + 1 \in DOMAIN s /\ (k + 1) + 1 \in DOMAIN s
      BY <1>3, <2>1
    <3> QED BY <3>1 DEF AreCalls
  <2> QED BY <1>3, <2>1
<1>7. \A j, k \in DOMAIN r : j # k => Apart(r[j], r[k])
  <2>1. \A j, k \in DOMAIN r : j # k => j + 1 # k + 1
    BY <1>3
  <2> QED BY <1>3, <2>1 DEF AreCalls
<1>8. AreCalls(r, d)
  BY <1>1, <1>5, <1>6, <1>7 DEF AreCalls
<1>9. r # <<>> => Within(s[1], r[1]) /\ r[1] = s[2]
  <2>1. ASSUME r # <<>>  PROVE r[1] = s[2] /\ 2 \in DOMAIN s
    <3>1. r[1] = s[1 + 1] /\ 1 + 1 \in DOMAIN s
      BY <1>2, <1>3, <2>1
    <3> QED BY <3>1
  <2>2. 2 \in DOMAIN s => Within(s[1], s[2])
    <3>1. 1 + 1 \in DOMAIN s => Within(s[1], s[1 + 1])
      BY <1>4 DEF AreCalls
    <3> QED BY <3>1
  <2> QED BY <2>1, <2>2
<1> QED
  BY <1>4, <1>5, <1>8, <1>9 DEF AreCalls, r

LEMMA CallInFront ==
  ASSUME NEW d, NEW r, AreCalls(r, d), NEW x, IsCall(x, d), Linked(x, d),
         r # <<>> => Within(x, r[1]),
         \A k \in DOMAIN r : Apart(x, r[k])
  PROVE  AreCalls(<<x>> \o r, d)
<1> DEFINE s == <<x>> \o r
           n == Len(r)
<1>1. /\ n \in Nat /\ DOMAIN r = 1 .. n
      /\ IsList(s) /\ DOMAIN s = 1 .. n + 1 /\ s[1] = x
      /\ \A k \in DOMAIN r : s[k + 1] = r[k]
  BY ListFacts, ListInFront DEF AreCalls
<1> HIDE DEF s
<1>2. \A k \in DOMAIN s : k = 1 \/ (k - 1 \in DOMAIN r /\ s[k] = r[k - 1] /\ k \in Nat)
  <2>1. ASSUME NEW k \in DOMAIN s, k # 1  PROVE k - 1 \in DOMAIN r /\ s[k] = r[k - 1] /\ k \in Nat
    <3>1. k - 1 \in DOMAIN r /\ (k - 1) + 1 = k /\ k \in Nat
      BY <1>1, <2>1
    <3>2. s[(k - 1) + 1] = r[k - 1]
      BY <1>1, <3>1
    <3> QED BY <3>1, <3>2
  <2> QED BY <2>1
<1>3. \A k \in DOMAIN s : IsCall(s[k], d) /\ Linked(s[k], d)
  BY <1>1, <1>2 DEF AreCalls
<1>4. ASSUME NEW k \in DOMAIN s, k + 1 \in DOMAIN s  PROVE Within(s[k], s[k + 1])
  <2>1. CASE k = 1
    <3>1. 1 \in DOMAIN r
      BY <1>1, <1>4, <2>1
    <3>2. r # <<>> /\ s[k + 1] = r[1]
      BY <1>1, <2>1, <3>1
    <3> QED BY <1>1, <2>1, <3>2
  <2>2. CASE k # 1
    <3>1. k - 1 \in DOMAIN r /\ s[k] = r[k - 1] /\ k \in Nat
      BY <1>2, <2>2
    <3>2. k \in DOMAIN r /\ s[k + 1] = r[k] /\ k = (k - 1) + 1
      BY <1>1, <1>4, <3>1
    <3>3. Within(r[k - 1], r[(k - 1) + 1])
      BY <3>1, <3>2 DEF AreCalls
    <3> QED BY <3>1, <3>2, <3>3
  <2> QED BY <2>1, <2>2
<1>5. ASSUME NEW j \in DOMAIN s, NEW k \in DOMAIN s, j # k  PROVE Apart(s[j], s[k])
  <2>1. CASE j = 1
    <3>1. k - 1 \in DOMAIN r /\ s[k] = r[k - 1]
      BY <1>2, <1>5, <2>1
    <3> QED BY <1>1, <2>1, <3>1
  <2>2. CASE k = 1
    <3>1. j - 1 \in DOMAIN r /\ s[j] = r[j - 1]
      BY <1>2, <1>5, <2>2
    <3>2. Apart(x, s[j])
      BY <3>1
    <3> QED BY <1>1, <2>2, <3>2 DEF Apart
  <2>3. CASE j # 1 /\ k # 1
    <3>1. /\ j - 1 \in DOMAIN r /\ s[j] = r[j - 1] /\ j \in Nat
          /\ k - 1 \in DOMAIN r /\ s[k] = r[k - 1] /\ k \in Nat
      BY <1>2, <2>3
    <3>2. j - 1 # k - 1
      BY <1>5, <3>1
    <3> QED BY <3>1, <3>2 DEF AreCalls
  <2> QED BY <2>1, <2>2, <2>3
<1> QED
  BY <1>1, <1>3, <1>4, <1>5 DEF AreCalls, s

LEMMA CallsStay ==
  ASSUME NEW d, NEW d2, Grows(d, d2), NEW r, AreCalls(r, d),
         \A k \in DOMAIN r : \A t \in Tables : \A i \in DOMAIN d[t] :
           Knows(r[k], t, i) => d2[t][i] = d[t][i]
  PROVE  AreCalls(r, d2)
<1>1. \A k \in DOMAIN r : IsCall(r[k], d) /\ Linked(r[k], d)
  BY DEF AreCalls
<1>2. \A k \in DOMAIN r : IsCall(r[k], d2)
  BY <1>1, CallStays
<1>3. \A k \in DOMAIN r : Linked(r[k], d2)
  <2>1. ASSUME NEW k \in DOMAIN r  PROVE Linked(r[k], d2)
    <3>1. PICK f : f = r[k]
      OBVIOUS
    <3>2. /\ IsCall(f, d) /\ Linked(f, d)
          /\ \A t \in Tables : \A i \in DOMAIN d[t] : Knows(f, t, i) => d2[t][i] = d[t][i]
      BY <1>1, <3>1
    <3> QED BY <3>1, <3>2, LinkedStays
  <2> QED BY <2>1
<1> QED
  BY <1>2, <1>3 DEF AreCalls

\* A call that has just begun.
LEMMA NewCall ==
  ASSUME NEW o, NEW d, Sound(o, d), NEW ctx
  PROVE  /\ IsCall(Call(o, ctx), d) /\ Linked(Call(o, ctx), d)
         /\ \A t, i : ~Knows(Call(o, ctx), t, i)
         /\ Call(o, ctx).o = o
<1> DEFINE f == Call(o, ctx)
<1>1. /\ DOMAIN f = {"o", "ctx", "at", "user", "id", "todo", "made", "existing", "many", "R"}
      /\ f.o = o /\ f.at = "user" /\ f.user = 0 /\ f.todo = None(o) /\ f.many = None(o)
      /\ f.made = <<>>
  BY DEF Call
<1> HIDE DEF f
<1>2. /\ DOMAIN o.related = Range(Relations(o.table))
      /\ \A c \in DOMAIN o.related : IsList(o.related[c])
  BY SoundFacts
<1>3. DOMAIN None(o) = DOMAIN o.related /\ \A c \in DOMAIN o.related : None(o)[c] = <<>>
  BY DEF None
<1>4. InPlace(f)
  BY <1>1, <1>2, <1>3 DEF InPlace
<1>5. Follows(f)
  <2>1. \A c \in DOMAIN o.related : Len(o.related[c]) >= 0
    BY <1>2, ListFacts
  <2> QED BY <1>1, <1>2, <1>3, <2>1, ShortLists DEF Follows
<1>6. Turn(f) = {}
  BY <1>1, <1>3 DEF Turn, Left
<1>7. Stored(f, d)
  BY <1>1, <1>3, <1>6, ShortLists DEF Stored
<1>8. Proceeds(f)
  BY <1>1, <1>3 DEF Proceeds
<1>9. \A t, i : ~Knows(f, t, i)
  BY <1>1, <1>3, <1>6, ShortLists DEF Knows
<1> QED
  BY <1>1, <1>4, <1>5, <1>7, <1>8, <1>9 DEF IsCall, Linked, f

-----------------------------------------------------------------------------
(***************************************************************************)
(* The inductive invariant: the tables hold rows, the caller's templates   *)
(* are ones, and so are the calls under way; there are none when there is  *)
(* an answer.                                                              *)
(***************************************************************************)

Rows(d) == DOMAIN d = Tables /\ \A t \in Tables : IsTable(t, d[t])

Prepared(l, d) == l = <<>> \/ \E o : l = <<o>> /\ Sound(o, d) /\ ~o.persisted

IInv ==
  /\ Rows(db)
  /\ Prepared(tmpl, db) /\ Prepared(kept, db)
  /\ AreCalls(stack, db)
  /\ out # <<>> => stack = <<>>
  /\ LinkedAsPlaced

LEMMA InvInit == Init => IInv
<1> SUFFICES ASSUME Init PROVE IInv
  OBVIOUS
<1>1. Rows(db)
  BY FactoryConstants DEF Init, Rows, IsTable
<1> QED
  BY <1>1, NoCalls DEF Init, IInv, Prepared, LinkedAsPlaced, Created

LEMMA PreparedStays ==
  ASSUME NEW d, NEW d2, Grows(d, d2), NEW l, Prepared(l, d)
  PROVE  Prepared(l, d2)
  BY SoundStays DEF Prepared

\* A call goes on.
LEMMA CallGoesOn ==
  ASSUME IInv, Calling, UNCHANGED <<tmpl, kept, out>>, Rows(db'), Grows(db, db'),
         AreCalls(stack', db')
  PROVE  IInv'
<1>1. Prepared(tmpl, db') /\ Prepared(kept, db')
  BY PreparedStays DEF IInv
<1>2. out = <<>>
  BY DEF IInv, Calling
<1> QED
  BY <1>1, <1>2 DEF IInv, LinkedAsPlaced, Created

\* The same with the tables as they are.
LEMMA CallMoves ==
  ASSUME IInv, Calling, UNCHANGED <<db, tmpl, kept, out>>, AreCalls(stack', db)
  PROVE  IInv'
<1>1. Rows(db') /\ Grows(db, db')
  BY DEF IInv, Rows, Grows
<1>2. AreCalls(stack', db')
  OBVIOUS
<1> QED
  BY <1>1, <1>2, CallGoesOn

\* It ends with an error.
LEMMA CallFails ==
  ASSUME IInv, Fails, UNCHANGED <<db, tmpl, kept>>
  PROVE  IInv'
<1>1. AreCalls(stack', db')
  BY NoCalls DEF Fails
<1>2. ~Created'
  BY DEF Created, Fails
<1> QED
  BY <1>1, <1>2 DEF IInv, Fails, Rows, Prepared, LinkedAsPlaced

LEMMA TopFacts ==
  ASSUME IInv, Calling
  PROVE  /\ stack # <<>> /\ IsCall(Top, db) /\ Linked(Top, db)
         /\ Top.o.table \in Tables
         /\ AreCalls(Tail(stack), db)
         /\ Tail(stack) # <<>> => Within(Top, Tail(stack)[1]) /\ Tail(stack)[1] = stack[2]
         /\ \A k \in DOMAIN Tail(stack) : Apart(Top, Tail(stack)[k])
<1>1. stack # <<>> /\ AreCalls(stack, db)
  BY DEF IInv, Calling
<1>2. IsCall(stack[1], db)
  BY <1>1, CallsAround
<1>3. stack[1].o.table \in Tables
  BY <1>2, RelationsThere
<1> QED
  BY <1>1, <1>3, CallsAround DEF Top

\* A call that is changed without knowing more is still the innermost one.
LEMMA TopChanges ==
  ASSUME IInv, Calling, NEW f, IsCall(f, db), Linked(f, db), f.o = Top.o,
         \A t, i : Knows(f, t, i) => Knows(Top, t, i)
  PROVE  AreCalls(<<f>> \o Tail(stack), db)
<1>1. Tail(stack) # <<>> => Within(f, Tail(stack)[1])
  BY TopFacts DEF Within
<1>2. \A k \in DOMAIN Tail(stack) : Apart(f, Tail(stack)[k])
  BY TopFacts DEF Apart
<1> QED
  BY <1>1, <1>2, TopFacts, CallInFront

\* One more call, which the innermost is to wait for.
LEMMA OneMoreCall ==
  ASSUME IInv, Calling, NEW o, Sound(o, db), NEW ctx,
         \/ Top.at = "user" /\ o.table = "user"
         \/ Top.at = "relate" /\ \E c \in Turn(Top) : o.table = Other(Top.o.table, c)
  PROVE  AreCalls(<<Call(o, ctx)>> \o stack, db)
<1> DEFINE f == Call(o, ctx)
<1>1. IsCall(f, db) /\ Linked(f, db) /\ f.o = o /\ \A t, i : ~Knows(f, t, i)
  BY NewCall
<1> HIDE DEF f
<1>2. Within(f, stack[1])
  BY <1>1 DEF Within, Top
<1>3. \A k \in DOMAIN stack : Apart(f, stack[k])
  BY <1>1 DEF Apart
<1>4. AreCalls(stack, db)
  BY DEF IInv
<1> QED
  BY <1>1, <1>2, <1>3, <1>4, CallInFront DEF f

\* Calls that are at the same entry.
LEMMA SameTurn ==
  ASSUME NEW f, NEW g, f.o = g.o, f.todo = g.todo
  PROVE  Turn(f) = Turn(g)
  BY DEF Turn, Left

\* A call that has its user goes on to insert its row.
HasUser(g, v) == [g EXCEPT !.at = "insert", !.user = v]

LEMMA UserThere ==
  ASSUME NEW d, NEW g, IsCall(g, d), g.at = "user", NEW v,
         v # 0 => v \in DOMAIN d["user"], g.o.table \in Owned => v \in DOMAIN d["user"],
         NEW f, f = HasUser(g, v)
  PROVE  IsCall(f, d) /\ Linked(f, d) /\ f.o = g.o /\ \A t, i : ~Knows(f, t, i)
<1>1. DOMAIN g = {"o", "ctx", "at", "user", "id", "todo", "made", "existing", "many", "R"}
  BY DEF IsCall, InPlace
<1>2. /\ DOMAIN f = DOMAIN g /\ f.at = "insert" /\ f.user = v /\ f.o = g.o
      /\ f.todo = g.todo /\ f.made = g.made /\ f.many = g.many
  BY <1>1 DEF HasUser
<1>3. Turn(f) = Turn(g)
  BY <1>2, SameTurn
<1>4. g.made = <<>> /\ \A c \in DOMAIN g.many : g.many[c] = <<>>
  BY DEF IsCall, Proceeds
<1>5. InPlace(f) /\ Follows(f) /\ Sound(f.o, d)
  BY <1>1, <1>2 DEF IsCall, InPlace, Follows
<1>6. Stored(f, d)
  BY <1>2, <1>4, ShortLists DEF Stored
<1>7. Proceeds(f)
  <2>1. DOMAIN f.todo = DOMAIN f.many
    BY <1>5 DEF InPlace
  <2> QED BY <1>2, <1>4, <2>1 DEF Proceeds
<1>8. \A t, i : ~Knows(f, t, i)
  BY <1>2, <1>4, ShortLists DEF Knows
<1> QED
  BY <1>2, <1>5, <1>6, <1>7, <1>8 DEF IsCall, Linked

LEMMA CreateUserStep ==
  ASSUME IInv, NEW t \in Tables, CreateUser(t)
  PROVE  IInv'
<1> DEFINE u == IF Top.o.user = <<>> THEN New("user") ELSE Top.o.user[1]
<1>1. Calling /\ Top.at = "user" /\ UNCHANGED <<db, tmpl, kept, out>>
  BY DEF CreateUser, At
<1>2. Top.o.table = t
  BY DEF CreateUser, At
<1>3. \/ t \notin Owned /\ stack' = <<[Top EXCEPT !.at = "insert"]>> \o Tail(stack)
      \/ t \in Owned /\ u.persisted
         /\ stack' = <<[Top EXCEPT !.at = "insert", !.user = IdOf(u)]>> \o Tail(stack)
      \/ stack' = <<Call(u, Top.ctx)>> \o stack
  BY DEF CreateUser, Goes
<1>4. Sound(u, db) /\ u.table = "user"
  <2>1. "user" \in Tables
    BY DEF Tables
  <2>2. Sound(New("user"), db) /\ New("user").table = "user"
    BY <2>1, NewSound
  <2>3. Sound(Top.o, db)
    BY <1>1, TopFacts DEF IsCall
  <2> QED BY <2>2, <2>3, SoundFacts
<1>5. u.persisted => IdOf(u) \in DOMAIN db["user"]
  BY <1>4, SoundFacts
<1> HIDE DEF u
<1>6. IsCall(Top, db) /\ Stored(Top, db)
  BY <1>1, TopFacts DEF IsCall
<1>7. ASSUME NEW v, v # 0 => v \in DOMAIN db["user"],
             Top.o.table \in Owned => v \in DOMAIN db["user"],
             stack' = <<HasUser(Top, v)>> \o Tail(stack)
      PROVE  IInv'
  <2>1. PICK f : f = HasUser(Top, v)
    OBVIOUS
  <2>2. IsCall(f, db) /\ Linked(f, db) /\ f.o = Top.o /\ \A x, i : ~Knows(f, x, i)
    <3>1. PICK g : g = Top
      OBVIOUS
    <3>2. /\ IsCall(g, db) /\ g.at = "user" /\ f = HasUser(g, v)
          /\ v # 0 => v \in DOMAIN db["user"]
          /\ g.o.table \in Owned => v \in DOMAIN db["user"]
      BY <1>1, <1>6, <1>7, <2>1, <3>1
    <3>3. IsCall(f, db) /\ Linked(f, db) /\ f.o = g.o /\ \A x, i : ~Knows(f, x, i)
      BY <3>2, UserThere
    <3> QED BY <3>1, <3>3
  <2>3. AreCalls(<<f>> \o Tail(stack), db)
    BY <1>1, <2>2, TopChanges
  <2> QED
    BY <1>1, <1>7, <2>1, <2>3, CallMoves
<1>8. CASE t \notin Owned /\ stack' = <<[Top EXCEPT !.at = "insert"]>> \o Tail(stack)
  <2>1. [Top EXCEPT !.at = "insert"] = HasUser(Top, Top.user)
    BY <1>6 DEF IsCall, InPlace, HasUser
  <2>2. Top.user # 0 => Top.user \in DOMAIN db["user"]
    BY <1>6 DEF Stored
  <2> QED
    BY <1>2, <1>7, <1>8, <2>1, <2>2
<1>9. CASE t \in Owned /\ u.persisted
           /\ stack' = <<[Top EXCEPT !.at = "insert", !.user = IdOf(u)]>> \o Tail(stack)
  <2>1. stack' = <<HasUser(Top, IdOf(u))>> \o Tail(stack)
    BY Zenon, <1>9 DEF HasUser
  <2> QED
    BY <1>5, <1>7, <1>9, <2>1
<1>10. CASE stack' = <<Call(u, Top.ctx)>> \o stack
  <2>1. AreCalls(<<Call(u, Top.ctx)>> \o stack, db)
    BY <1>1, <1>4, OneMoreCall
  <2> QED
    BY <1>1, <1>10, <2>1, CallMoves
<1> QED
  BY <1>3, <1>8, <1>9, <1>10

\* A call that has its row goes on to what it is related to.
HasRow(g, id) == [g EXCEPT !.at = "relate", !.id = id, !.todo = Todo(g)]

LEMMA RowThere ==
  ASSUME NEW d, NEW d2, Grows(d, d2), NEW g, IsCall(g, d), g.at = "insert",
         NEW id, id \in DOMAIN d2[g.o.table],
         g.o.table \in Owned => d2[g.o.table][id].user_id = g.user,
         NEW f, f = HasRow(g, id)
  PROVE  /\ IsCall(f, d2) /\ Linked(f, d2) /\ f.o = g.o
         /\ \A t, i : Knows(f, t, i) => t = g.o.table /\ i = id
<1>1. IsCall(g, d2)
  BY CallStays
<1>2. DOMAIN g = {"o", "ctx", "at", "user", "id", "todo", "made", "existing", "many", "R"}
  BY DEF IsCall, InPlace
<1>3. /\ DOMAIN f = DOMAIN g /\ f.at = "relate" /\ f.user = g.user /\ f.o = g.o /\ f.id = id
      /\ f.todo = Todo(g) /\ f.made = g.made /\ f.many = g.many
  BY <1>2 DEF HasRow
<1>4. g.made = <<>> /\ \A c \in DOMAIN g.many : g.many[c] = <<>>
  BY DEF IsCall, Proceeds
<1>5. /\ DOMAIN g.o.related = Range(Relations(g.o.table))
      /\ \A c \in DOMAIN g.o.related : IsList(g.o.related[c])
  BY SoundFacts DEF IsCall
<1>6. /\ DOMAIN f.todo = Range(Relations(g.o.table))
      /\ \A c \in DOMAIN f.todo : f.todo[c] = <<>> \/ f.todo[c] = g.o.related[c]
  BY <1>3, <1>5 DEF Todo
<1>7. DOMAIN f.many = Range(Relations(f.o.table)) /\ DOMAIN f.todo = DOMAIN f.many
  BY <1>3, <1>6 DEF IsCall, InPlace
<1>8. InPlace(f) /\ Sound(f.o, d2)
  BY <1>1, <1>2, <1>3, <1>6, <1>7 DEF IsCall, InPlace
<1>9. Follows(f)
  <2>1. \A c \in DOMAIN g.o.related : Len(g.o.related[c]) >= 0 /\ Len(g.o.related[c]) <= Len(g.o.related[c])
    BY <1>5, ListFacts
  <2>2. ASSUME NEW c \in DOMAIN f.todo
        PROVE  /\ IsList(f.todo[c]) /\ Range(f.todo[c]) \subseteq Range(f.o.related[c])
               /\ Len(f.todo[c]) <= Len(f.o.related[c])
    <3>1. CASE f.todo[c] = <<>>
      BY <1>3, <1>5, <1>6, <2>1, <3>1, ShortLists
    <3>2. CASE f.todo[c] = g.o.related[c]
      BY <1>3, <1>5, <1>6, <2>1, <3>2
    <3> QED BY <1>6, <3>1, <3>2
  <2> QED BY <2>2 DEF Follows
<1>10. Stored(f, d2)
  <2>1. Stored(g, d2)
    BY <1>1 DEF IsCall
  <2> QED BY <1>3, <1>4, <2>1, ShortLists DEF Stored
<1>11. Proceeds(f)
  BY <1>3, <1>4, <1>7 DEF Proceeds
<1>12. \A t, i : Knows(f, t, i) => t = g.o.table /\ i = id
  BY <1>3, <1>4, ShortLists DEF Knows
<1>13. Linked(f, d2)
  BY <1>3, <1>4, ShortLists DEF Linked
<1> QED
  BY <1>3, <1>8, <1>9, <1>10, <1>11, <1>12, <1>13 DEF IsCall

LEMMA InsertStep ==
  ASSUME IInv, NEW t \in Tables, Insert(t)
  PROVE  IInv'
<1>1. Calling /\ Top.at = "insert" /\ UNCHANGED <<tmpl, kept>>
  BY DEF Insert, At
<1>2. Top.o.table = t
  BY DEF Insert, At
<1>3. PICK s \in ensureCreatable(t, BuildSetter(Top.o)) :
        \/ Fails /\ UNCHANGED db
        \/ /\ Insertable(t, db[t], <<Written(Top, s)>>)
           /\ KeyOf(t, db[t], Written(Top, s), 1) \in RowIds
           /\ db' = [db EXCEPT ![t] = Apply(t, @, <<Written(Top, s)>>)]
           /\ stack' = <<HasRow(Top, KeyOf(t, db[t], Written(Top, s), 1))>> \o Tail(stack)
           /\ UNCHANGED out
  BY Zenon DEF Insert, Goes, HasRow
<1>4. CASE Fails /\ UNCHANGED db
  BY <1>1, <1>4, CallFails
<1>5. ASSUME NEW row, row = Written(Top, s), NEW id, id = KeyOf(t, db[t], row, 1),
             Insertable(t, db[t], <<row>>), id \in RowIds,
             db' = [db EXCEPT ![t] = Apply(t, @, <<row>>)],
             stack' = <<HasRow(Top, id)>> \o Tail(stack),
             UNCHANGED out
      PROVE  IInv'
  <2>1. IsCall(Top, db) /\ Sound(Top.o, db) /\ Stored(Top, db)
    BY <1>1, TopFacts DEF IsCall
  <2>2. Rows(db) /\ DOMAIN db = Tables /\ IsTable(t, db[t]) /\ "user" \in Tables
    BY DEF IInv, Rows, Tables
  <2>3. t \in Owned => Top.user \in DOMAIN db["user"] /\ Top.user \in RowIds
    <3>1. t \in Owned => Top.user \in DOMAIN db["user"]
      BY <1>1, <1>2, <2>1 DEF Stored
    <3>2. DOMAIN db["user"] \subseteq RowIds
      BY <2>2 DEF Rows, IsTable
    <3> QED BY <3>1, <3>2
  <2>4. IsSetter(t, s)
    <3>1. IsSetter(t, BuildSetter(Top.o))
      BY <1>2, <2>1, SoundFacts DEF IsSetter, BuildSetter
    <3>2. PICK x : x = BuildSetter(Top.o)
      OBVIOUS
    <3> QED BY <3>1, <3>2, CreatableSetter
  <2>5. IsSetter(t, row) /\ (t \in Owned => "user_id" \in DOMAIN row /\ row["user_id"] = Top.user)
    <3>1. PICK f : f = Top
      OBVIOUS
    <3>2. IsSetter(f.o.table, s) /\ (f.o.table \in Owned => f.user \in RowIds)
      BY <1>2, <2>3, <2>4, <3>1
    <3>3. /\ IsSetter(f.o.table, Written(f, s))
          /\ f.o.table \in Owned =>
               "user_id" \in DOMAIN Written(f, s) /\ Written(f, s)["user_id"] = f.user
      BY <3>2, WrittenSetter
    <3> QED BY <1>2, <1>5, <3>1, <3>3
  <2>6. PICK new : new = Inserted(t, db[t], <<row>>)
    OBVIOUS
  <2>7. AddsRow(t, db[t], new, id, row)
    BY <1>5, <2>5, <2>6, InsertedRow DEF IsSetter
  <2>8. db' = [db EXCEPT ![t] = new]
    BY <1>5, <2>6, StatementFacts
  <2>9. /\ DOMAIN db' = Tables /\ db'[t] = new
        /\ \A x \in Tables : x # t => db'[x] = db[x]
    BY <2>2, <2>8
  <2>10. new = [i \in DOMAIN new |-> new[i]]
    BY <2>6 DEF Inserted
  <2>11. IsTable(t, new)
    <3>1. \A i \in DOMAIN new : new[i] \in Row(t) /\ i \in RowIds
      BY <1>5, <2>2, <2>7 DEF AddsRow, IsTable
    <3> QED BY <2>10, <3>1 DEF IsTable
  <2>12. Rows(db')
    BY <2>2, <2>9, <2>11 DEF Rows
  <2>13. /\ \A x \in Tables : \A i \in DOMAIN db[x] : i \in DOMAIN db'[x] /\ db'[x][i] = db[x][i]
         /\ id \notin DOMAIN db[t] /\ id \in DOMAIN db'[t]
    BY <2>7, <2>9 DEF AddsRow
  <2>14. Grows(db, db')
    BY <2>13 DEF Grows
  <2>15. t \in Owned => db'[t][id].user_id = Top.user
    BY <2>5, <2>7, <2>9, OwnedFacts DEF AddsRow
  <2>16. AreCalls(Tail(stack), db')
    BY <1>1, <2>13, <2>14, TopFacts, CallsStay
  <2>17. PICK f : f = HasRow(Top, id)
    OBVIOUS
  <2>18. /\ IsCall(f, db') /\ Linked(f, db') /\ f.o = Top.o
         /\ \A x, i : Knows(f, x, i) => x = t /\ i = id
    <3>1. PICK g : g = Top
      OBVIOUS
    <3>2. PICK d2 : d2 = db'
      OBVIOUS
    <3>3. /\ IsCall(g, db) /\ g.at = "insert" /\ Grows(db, d2) /\ id \in DOMAIN d2[g.o.table]
          /\ g.o.table \in Owned => d2[g.o.table][id].user_id = g.user
          /\ f = HasRow(g, id)
      BY <1>1, <1>2, <2>1, <2>13, <2>14, <2>15, <2>17, <3>1, <3>2
    <3>4. /\ IsCall(f, d2) /\ Linked(f, d2) /\ f.o = g.o
          /\ \A x, i : Knows(f, x, i) => x = g.o.table /\ i = id
      BY <3>3, RowThere
    <3> QED BY <1>2, <3>1, <3>2, <3>4
  <2>19. Tail(stack) # <<>> => Within(f, Tail(stack)[1])
    BY <1>1, <2>18, TopFacts DEF Within
  <2>20. \A k \in DOMAIN Tail(stack) : Apart(f, Tail(stack)[k])
    <3>1. AreCalls(Tail(stack), db)
      BY <1>1, TopFacts
    <3>2. \A k \in DOMAIN Tail(stack) : IsCall(Tail(stack)[k], db)
      BY <3>1 DEF AreCalls
    <3>3. \A k \in DOMAIN Tail(stack) : ~Knows(Tail(stack)[k], t, id)
      BY <2>13, <3>2, KnownThere
    <3> QED BY <2>18, <3>3 DEF Apart
  <2>21. AreCalls(<<f>> \o Tail(stack), db')
    BY <2>16, <2>18, <2>19, <2>20, CallInFront
  <2>22. stack' = <<f>> \o Tail(stack)
    BY <1>5, <2>17
  <2> QED
    BY <1>1, <1>5, <2>12, <2>14, <2>21, <2>22, CallGoesOn
<1> QED
  BY <1>3, <1>4, <1>5

\* A call that is done with an entry goes on to the next one.
Onward(f, g, c, ids) ==
  /\ DOMAIN f = DOMAIN g /\ f.o = g.o /\ f.at = g.at /\ f.user = g.user /\ f.id = g.id
  /\ f.made = <<>>
  /\ DOMAIN f.todo = DOMAIN g.todo
  /\ \A x \in DOMAIN g.todo : f.todo[x] = IF x = c THEN Tail(g.todo[x]) ELSE g.todo[x]
  /\ DOMAIN f.many = DOMAIN g.many
  /\ \A x \in DOMAIN g.many : f.many[x] = IF x = c THEN g.many[x] \o ids ELSE g.many[x]
  /\ g.existing \subseteq f.existing
  /\ \A i \in Range(ids) : <<c, i>> \in f.existing \/ i \in Range(g.made)

LEMMA EntryDone ==
  ASSUME NEW d, NEW g, IsCall(g, d), g.at = "relate", NEW c \in Turn(g),
         NEW ids, IsList(ids), Range(ids) \subseteq DOMAIN d[Other(g.o.table, c)],
         NEW f, Onward(f, g, c, ids)
  PROVE  IsCall(f, d) /\ f.o = g.o /\ \A t, i : Knows(f, t, i) => Knows(g, t, i)
<1>1. /\ c \in DOMAIN g.todo /\ g.todo[c] # <<>> /\ c \in DOMAIN g.many
      /\ DOMAIN g.many = DOMAIN g.todo
  <2>1. c \in DOMAIN g.todo /\ g.todo[c] # <<>>
    BY EntryFacts
  <2> QED BY <2>1 DEF IsCall, InPlace
<1>2. InPlace(f) /\ Sound(f.o, d)
  BY DEF Onward, IsCall, InPlace
<1>3. Follows(f)
  <2>1. ASSUME NEW x \in DOMAIN g.todo
        PROVE  /\ IsList(f.todo[x]) /\ Range(f.todo[x]) \subseteq Range(g.o.related[x])
               /\ Len(f.todo[x]) <= Len(g.o.related[x])
    <3>1. /\ IsList(g.todo[x]) /\ Range(g.todo[x]) \subseteq Range(g.o.related[x])
          /\ Len(g.todo[x]) <= Len(g.o.related[x])
      BY DEF IsCall, Follows
    <3>2. IsList(g.o.related[x])
      BY SoundFacts DEF IsCall, InPlace
    <3>3. Len(g.o.related[x]) \in Nat /\ Len(g.todo[x]) \in Nat
      BY <3>1, <3>2, ListFacts
    <3>4. CASE x # c
      BY <3>1, <3>4 DEF Onward
    <3>5. CASE x = c
      <4>1. f.todo[x] = Tail(g.todo[x])
        BY <3>5 DEF Onward
      <4>2. /\ IsList(Tail(g.todo[x])) /\ Range(Tail(g.todo[x])) \subseteq Range(g.todo[x])
            /\ Len(Tail(g.todo[x])) = Len(g.todo[x]) - 1
        BY <1>1, <3>1, <3>5, ListFacts
      <4> QED BY <3>1, <3>3, <4>1, <4>2
    <3> QED BY <3>4, <3>5
  <2> QED BY <2>1 DEF Onward, Follows
<1>4. \A x \in DOMAIN g.many :
        IsList(f.many[x]) /\ Range(f.many[x]) \subseteq DOMAIN d[Other(g.o.table, x)]
  <2>1. \A x \in DOMAIN g.many :
          IsList(g.many[x]) /\ Range(g.many[x]) \subseteq DOMAIN d[Other(g.o.table, x)]
    BY DEF IsCall, Stored
  <2> QED BY <2>1, ListsJoined DEF Onward
<1>5. Stored(f, d)
  <2>1. Stored(g, d)
    BY DEF IsCall
  <2> QED BY <1>4, <2>1, ShortLists DEF Onward, Stored
<1>6. Proceeds(f)
  <2>1. Proceeds(g)
    BY DEF IsCall
  <2>2. Other(g.o.table, c) # c => Tail(g.todo[c]) = <<>>
    BY EntryFacts
  <2> QED BY <1>1, <2>1, <2>2 DEF Onward, Proceeds
<1>7. ASSUME NEW t, NEW i, Knows(f, t, i)  PROVE Knows(g, t, i)
  <2>1. CASE f.at = "relate" /\ t = f.o.table /\ i = f.id
    BY <2>1 DEF Onward, Knows
  <2>2. CASE \E x \in Turn(f) : t = Other(f.o.table, x) /\ i \in Range(f.made)
    BY <2>2, ShortLists DEF Onward
  <2>3. CASE \E x \in DOMAIN f.many :
               t = Other(f.o.table, x) /\ i \in Range(f.many[x]) /\ <<x, i>> \notin f.existing
    <3>1. PICK x \in DOMAIN g.many :
            /\ t = Other(g.o.table, x) /\ i \in Range(f.many[x])
            /\ <<x, i>> \notin f.existing /\ <<x, i>> \notin g.existing
      BY <2>3 DEF Onward
    <3>2. CASE i \in Range(g.many[x])
      BY <3>1, <3>2 DEF Knows
    <3>3. CASE i \notin Range(g.many[x])
      <4>1. x = c /\ i \in Range(g.many[x] \o ids)
        BY <3>1, <3>3 DEF Onward
      <4>2. IsList(g.many[x])
        BY DEF IsCall, Stored
      <4>3. i \in Range(ids)
        BY <3>3, <4>1, <4>2, ListsJoined
      <4>4. i \in Range(g.made)
        BY <3>1, <4>1, <4>3 DEF Onward
      <4> QED BY <3>1, <4>1, <4>4 DEF Knows
    <3> QED BY <3>2, <3>3
  <2> QED BY <1>7, <2>1, <2>2, <2>3 DEF Knows
<1> QED
  BY <1>2, <1>3, <1>5, <1>6, <1>7 DEF IsCall, Onward

LEMMA EntryLinked ==
  ASSUME NEW d, NEW g, InPlace(g), Linked(g, d), NEW c,
         \A x \in DOMAIN g.many : IsList(g.many[x]),
         NEW ids, IsList(ids), NEW f, Onward(f, g, c, ids),
         \A i \in Range(ids) : Placement(f, d, c, i)
  PROVE  Linked(f, d)
<1> SUFFICES ASSUME f.at = "relate"
             PROVE  /\ f.o.table \in Owned => d[f.o.table][f.id].user_id = f.user
                    /\ \A x \in DOMAIN f.many : \A i \in Range(f.many[x]) : Placement(f, d, x, i)
  BY DEF Linked
<1>1. g.at = "relate"
  BY DEF Onward
<1>2. f.o.table \in Owned => d[f.o.table][f.id].user_id = f.user
  BY <1>1 DEF Onward, Linked
<1>3. ASSUME NEW x \in DOMAIN f.many, NEW i \in Range(f.many[x])  PROVE Placement(f, d, x, i)
  <2>1. x \in DOMAIN g.many
    BY DEF Onward
  <2>2. CASE i \in Range(g.many[x])
    <3>1. Placement(g, d, x, i)
      BY <1>1, <2>1, <2>2 DEF Linked
    <3> QED BY <3>1 DEF Placement, Onward
  <2>3. CASE i \notin Range(g.many[x])
    <3>1. x = c /\ i \in Range(g.many[x] \o ids)
      BY <2>1, <2>3 DEF Onward
    <3>2. i \in Range(ids)
      BY <2>1, <2>3, <3>1, ListsJoined
    <3> QED BY <3>1, <3>2
  <2> QED BY <2>2, <2>3
<1> QED
  BY <1>2, <1>3

\* Placed is that, with what was there already in existing.
HasPlaced(g, c, ids, R, E) ==
  [g EXCEPT !.todo[c] = Tail(@), !.made = <<>>, !.many[c] = @ \o ids, !.R = R,
            !.ctx = @ \cup {c}, !.existing = @ \cup E]

LEMMA PlacedOnward ==
  ASSUME NEW d, NEW g, IsCall(g, d), NEW c \in Turn(g), NEW ids, NEW R, NEW E,
         \A i \in Range(ids) : <<c, i>> \in E \/ i \in Range(g.made),
         NEW f, f = HasPlaced(g, c, ids, R, E)
  PROVE  Onward(f, g, c, ids) /\ E \subseteq f.existing
<1>1. DOMAIN g = {"o", "ctx", "at", "user", "id", "todo", "made", "existing", "many", "R"}
  BY DEF IsCall, InPlace
<1>2. c \in DOMAIN g.todo /\ c \in DOMAIN g.many
  <2>1. c \in DOMAIN g.todo
    BY EntryFacts
  <2> QED BY <2>1 DEF IsCall, InPlace
<1>3. /\ DOMAIN f = DOMAIN g /\ f.o = g.o /\ f.at = g.at /\ f.user = g.user /\ f.id = g.id
      /\ f.made = <<>> /\ f.existing = g.existing \cup E
      /\ f.todo = [g.todo EXCEPT ![c] = Tail(g.todo[c])]
      /\ f.many = [g.many EXCEPT ![c] = g.many[c] \o ids]
  BY <1>1 DEF HasPlaced
<1>4. /\ DOMAIN f.todo = DOMAIN g.todo
      /\ \A x \in DOMAIN g.todo : f.todo[x] = IF x = c THEN Tail(g.todo[x]) ELSE g.todo[x]
      /\ DOMAIN f.many = DOMAIN g.many
      /\ \A x \in DOMAIN g.many : f.many[x] = IF x = c THEN g.many[x] \o ids ELSE g.many[x]
  BY <1>3
<1> QED
  BY <1>3, <1>4 DEF Onward

LEMMA PlaceExistingStep ==
  ASSUME IInv, NEW t \in Tables, NEW c, PlaceExisting(t, c)
  PROVE  IInv'
<1>1. Calling /\ Top.at = "relate" /\ c \in Turn(Top) /\ UNCHANGED <<db, tmpl, kept, out>>
  BY DEF PlaceExisting, Related, At
<1>2. PICK o : o = Top.todo[c][1].o
  OBVIOUS
<1>3. PICK id : id = IdOf(o)
  OBVIOUS
<1>4. PICK g : g = Top
  OBVIOUS
<1>R. PICK R : R = Appended(c, <<id>>)
  OBVIOUS
<1> DEFINE E == {<<c, id>>}
           f == HasPlaced(g, c, <<id>>, R, E)
<1>5. IsCall(g, db) /\ Linked(g, db) /\ g.at = "relate" /\ c \in Turn(g)
  BY <1>1, <1>4, TopFacts
<1>6. o.persisted /\ stack' = <<f>> \o Tail(stack)
  <2>1. /\ o.persisted
        /\ stack' = <<[Placed(c, <<id>>, R) EXCEPT !.existing = @ \cup {<<c, id>>}]>> \o Tail(stack)
    BY <1>2, <1>3, <1>R DEF PlaceExisting, Goes
  <2>2. DOMAIN g = {"o", "ctx", "at", "user", "id", "todo", "made", "existing", "many", "R"}
    BY <1>5 DEF IsCall, InPlace
  <2>3. [Placed(c, <<id>>, R) EXCEPT !.existing = @ \cup {<<c, id>>}] = f
    BY <1>4, <2>2 DEF Placed, HasPlaced
  <2> QED BY <2>1, <2>3
<1>7. id \in DOMAIN db[Other(g.o.table, c)]
  BY <1>2, <1>3, <1>4, <1>5, <1>6, EntryFacts, SoundFacts
<1>8. IsList(<<id>>) /\ Range(<<id>>) = {id}
  BY ShortLists
<1> HIDE DEF f
<1>9. Onward(f, g, c, <<id>>) /\ E \subseteq f.existing
  <2> HIDE DEF E
  <2>1. \A i \in Range(<<id>>) : <<c, i>> \in E \/ i \in Range(g.made)
    BY <1>8 DEF E
  <2>2. f = HasPlaced(g, c, <<id>>, R, E)
    BY DEF f
  <2> QED BY <1>5, <2>1, <2>2, PlacedOnward
<1>10. IsCall(f, db) /\ f.o = g.o /\ \A x, i : Knows(f, x, i) => Knows(g, x, i)
  BY <1>5, <1>7, <1>8, <1>9, EntryDone
<1>11. Linked(f, db)
  <2>1. \A i \in Range(<<id>>) : Placement(f, db, c, i)
    BY <1>8, <1>9 DEF Placement
  <2>2. InPlace(g) /\ \A x \in DOMAIN g.many : IsList(g.many[x])
    BY <1>5 DEF IsCall, Stored
  <2> QED BY <1>5, <1>8, <1>9, <2>1, <2>2, EntryLinked
<1>12. AreCalls(<<f>> \o Tail(stack), db)
  BY <1>1, <1>4, <1>10, <1>11, TopChanges
<1> QED
  BY <1>1, <1>6, <1>12, CallMoves

LEMMA CreateManyStep ==
  ASSUME IInv, NEW t \in Tables, NEW c, CreateMany(t, c)
  PROVE  IInv'
<1>1. Calling /\ Top.at = "relate" /\ c \in Turn(Top) /\ UNCHANGED <<db, tmpl, kept, out>>
  BY DEF CreateMany, Related, At
<1>2. PICK o : o = Top.todo[c][1].o
  OBVIOUS
<1>3. stack' = <<Call(o, Top.ctx \cup {c})>> \o stack
  BY <1>2 DEF CreateMany
<1>4. Sound(o, db) /\ o.table = Other(Top.o.table, c)
  <2>1. PICK g : g = Top
    OBVIOUS
  <2>2. IsCall(g, db) /\ c \in Turn(g) /\ o = g.todo[c][1].o
    BY <1>1, <1>2, <2>1, TopFacts
  <2>3. Sound(o, db) /\ o.table = Other(g.o.table, c)
    BY <2>2, EntryFacts
  <2> QED BY <2>1, <2>3
<1>5. AreCalls(<<Call(o, Top.ctx \cup {c})>> \o stack, db)
  BY <1>1, <1>4, OneMoreCall
<1> QED
  BY <1>1, <1>3, <1>5, CallMoves

LEMMA InsertFailsStep ==
  ASSUME IInv, NEW t \in Tables, InsertFails(t)
  PROVE  IInv'
  BY CallFails DEF InsertFails

\* The UPDATE of a link: the rows it names get it, and all others stay.
Relinked(c, tab, new, ids, v) ==
  /\ IsTable(c, new) /\ DOMAIN new = DOMAIN tab
  /\ \A i \in DOMAIN tab : IF i \in ids THEN new[i][Link(c)] = v ELSE new[i] = tab[i]

LEMMA LinkWritten ==
  ASSUME NEW c \in Tables, NEW tab, IsTable(c, tab), Link(c) \in Data(c), Link(c) # Key(c),
         NEW v, v \in Values(c, Link(c)), NEW ids,
         NEW new, new = Expressions(c, tab, ids, Column(Link(c), v))
  PROVE  Relinked(c, tab, new, ids, v)
<1>1. PICK x : x = Link(c)
  OBVIOUS
<1>2. PICK s : s = Column(x, v)
  OBVIOUS
<1>3. DOMAIN s = {x} /\ s[x] = v /\ s \in SetterOf(c, DOMAIN s)
  <2>1. v \in Values(c, x)
    BY <1>1
  <2>2. /\ DOMAIN Column(x, v) = {x} /\ Column(x, v)[x] = v
        /\ Column(x, v) \in SetterOf(c, DOMAIN Column(x, v))
    BY <2>1, ColumnTyped
  <2> QED BY <1>2, <2>2
<1>4. new = Updated(c, tab, ids, s)
  BY <1>1, <1>2, StatementFacts
<1>5. Key(c) \notin DOMAIN s
  BY <1>1, <1>3
<1>6. /\ DOMAIN Updated(c, tab, ids, s) = DOMAIN tab
      /\ \A i \in DOMAIN tab :
           Updated(c, tab, ids, s)[i] = IF i \in ids THEN Overwrite(tab[i], s) ELSE tab[i]
  BY <1>5, UpdatedInPlace
<1>7. DOMAIN new = DOMAIN tab
      /\ \A i \in DOMAIN tab : new[i] = IF i \in ids THEN Overwrite(tab[i], s) ELSE tab[i]
  BY <1>4, <1>6
<1>8. ASSUME NEW i \in DOMAIN tab
      PROVE  tab[i] \in Row(c) /\ Overwrite(tab[i], s) \in Row(c) /\ Overwrite(tab[i], s)[x] = v
  <2>1. PICK row : row = tab[i]
    OBVIOUS
  <2>2. row \in Row(c)
    BY <2>1 DEF IsTable
  <2>3. PICK S : S = DOMAIN s
    OBVIOUS
  <2>4. s \in SetterOf(c, S) /\ x \in S /\ x \in Data(c)
    BY <1>1, <1>3, <2>3
  <2>5. Overwrite(row, s) \in Row(c) /\ Overwrite(row, s)[x] = s[x]
    BY <2>2, <2>4, OverwriteTyped
  <2> QED BY <1>3, <2>1, <2>2, <2>5
<1>9. new = [i \in DOMAIN new |-> new[i]]
  BY <1>4 DEF Updated
<1>10. \A i \in DOMAIN tab : new[i] \in Row(c) /\ (i \in ids => new[i][x] = v)
  BY <1>7, <1>8
<1>11. IsTable(c, new)
  BY <1>7, <1>9, <1>10 DEF IsTable
<1> QED
  BY <1>1, <1>7, <1>10, <1>11 DEF Relinked

LEMMA AttachStep ==
  ASSUME IInv, NEW t \in Tables, NEW c, Attach(t, c)
  PROVE  IInv'
<1>1. Calling /\ Top.at = "relate" /\ c \in Turn(Top) /\ UNCHANGED <<tmpl, kept>>
  BY DEF Attach, Related, At
<1>2. Top.o.table = t
  BY DEF Attach, Related, At
<1>3. PICK g : g = Top
  OBVIOUS
<1>4. IsCall(g, db) /\ Linked(g, db) /\ g.at = "relate" /\ c \in Turn(g)
  BY <1>1, <1>3, TopFacts
<1>5. PICK v : v = IF Other(t, c) # c THEN g.made[1] ELSE g.id
  OBVIOUS
<1>6. PICK ids : ids = IF Other(t, c) # c THEN {g.id} ELSE Range(g.made)
  OBVIOUS
<1>R. PICK R : R = Attached(t, c)
  OBVIOUS
<1>7. /\ ~g.todo[c][1].o.persisted /\ Len(g.made) = g.todo[c][1].n
      /\ \/ Fails /\ UNCHANGED db
         \/ /\ db' = [db EXCEPT ![c] = Expressions(c, @, ids, Column(Link(c), v))]
            /\ stack' = <<Placed(c, g.made, R)>> \o Tail(stack)
            /\ UNCHANGED out
  BY Zenon, <1>3, <1>5, <1>6, <1>R DEF Attach, Goes
<1>8. CASE Fails /\ UNCHANGED db
  BY <1>1, <1>8, CallFails
<1>9. CASE /\ db' = [db EXCEPT ![c] = Expressions(c, @, ids, Column(Link(c), v))]
           /\ stack' = <<Placed(c, g.made, R)>> \o Tail(stack)
           /\ UNCHANGED out
  <2>1. /\ c \in Range(Relations(t)) /\ g.o.table = t /\ t \in Tables
    BY <1>2, <1>3, <1>4, TurnFacts DEF IsCall
  <2>2. /\ c \in Tables /\ Other(t, c) \in Tables
        /\ Link(c) \in Data(c) /\ Link(c) # Key(c)
        /\ RowIds \subseteq Values(c, Link(c))
        /\ Other(t, c) # c => t = "user" /\ c = "user" /\ Link(c) = "profile_picture_id"
        /\ Other(t, c) = c => c # t
    BY <2>1, RelationFacts
  <2>3. /\ g.id \in DOMAIN db[t] /\ IsList(g.made)
        /\ Range(g.made) \subseteq DOMAIN db[Other(t, c)]
    BY <1>4, <2>1 DEF IsCall, Stored
  <2>4. Rows(db) /\ \A x \in Tables : IsTable(x, db[x]) /\ DOMAIN db[x] \subseteq RowIds
    BY DEF IInv, Rows, IsTable
  <2>5. ASSUME Other(t, c) # c
        PROVE  g.made[1] \in Range(g.made) /\ Range(g.made) = {g.made[1]} /\ g.many[c] = <<>>
    <3>1. g.todo[c][1].n = 1 /\ g.many[c] = <<>>
      BY <1>4, <1>7, <2>1, <2>5, EntryFacts
    <3>2. Len(g.made) = 1 /\ DOMAIN g.made = 1 .. Len(g.made)
      BY <1>7, <2>3, <3>1, ListFacts
    <3>3. DOMAIN g.made = {1}
      BY <3>2
    <3> QED BY <3>1, <3>3 DEF Range
  <2>6. v \in Values(c, Link(c))
    BY <1>5, <2>2, <2>3, <2>4, <2>5
  <2>7. PICK new : new = Expressions(c, db[c], ids, Column(Link(c), v))
    OBVIOUS
  <2>8. Relinked(c, db[c], new, ids, v)
    BY <2>2, <2>4, <2>6, <2>7, LinkWritten
  <2>9. /\ DOMAIN db' = Tables /\ db'[c] = new
        /\ \A x \in Tables : x # c => db'[x] = db[x]
    BY <1>9, <2>2, <2>4, <2>7 DEF Rows
  <2>10. Rows(db') /\ Grows(db, db')
    BY <2>4, <2>8, <2>9 DEF Rows, Grows, Relinked
  <2>11. \A x \in Tables : \A i \in DOMAIN db[x] :
           \/ db'[x][i] = db[x][i]
           \/ x = c /\ i \in ids /\ db'[c][i][Link(c)] = v
    BY <2>8, <2>9 DEF Relinked
  <2>12. \A i \in ids : Knows(g, c, i)
    <3>1. CASE Other(t, c) # c
      BY <1>4, <1>6, <2>1, <2>2, <3>1 DEF Knows
    <3>2. CASE Other(t, c) = c
      BY <1>4, <1>6, <2>1, <3>2 DEF Knows
    <3> QED BY <3>1, <3>2
  <2>13. AreCalls(Tail(stack), db')
    <3>1. ASSUME NEW k \in DOMAIN Tail(stack), NEW x \in Tables, NEW i \in DOMAIN db[x],
                 Knows(Tail(stack)[k], x, i)
          PROVE  db'[x][i] = db[x][i]
      <4>1. ~Knows(g, x, i)
        BY <1>1, <1>3, <3>1, TopFacts DEF Apart
      <4> QED BY <2>11, <2>12, <4>1
    <3>2. PICK r : r = Tail(stack)
      OBVIOUS
    <3>3. PICK d2 : d2 = db'
      OBVIOUS
    <3>4. /\ Grows(db, d2) /\ AreCalls(r, db)
          /\ \A k \in DOMAIN r : \A x \in Tables : \A i \in DOMAIN db[x] :
               Knows(r[k], x, i) => d2[x][i] = db[x][i]
      BY <1>1, <2>10, <3>1, <3>2, <3>3, TopFacts
    <3>5. AreCalls(r, d2)
      BY <3>4, CallsStay
    <3> QED BY <3>2, <3>3, <3>5
  <2>14. PICK d2 : d2 = db'
    OBVIOUS
  <2>15. Linked(g, d2)
    <3>1. g.o.table \in Owned => d2[g.o.table][g.id].user_id = g.user
      <4>1. ASSUME t \in Owned  PROVE db'[t] = db[t]
        BY <2>1, <2>2, <2>9, <4>1, OwnedFacts
      <4> QED BY <1>4, <2>1, <2>14, <4>1 DEF Linked
    <3>2. ASSUME NEW x \in DOMAIN g.many, NEW i \in Range(g.many[x])
          PROVE  Placement(g, d2, x, i)
      <4>1. Placement(g, db, x, i)
        BY <1>4 DEF Linked
      <4>2. x \in Range(Relations(t))
        BY <1>4, <2>1 DEF IsCall, InPlace
      <4>3. /\ x \in Tables
            /\ Other(t, x) # x => t = "user" /\ x = "user"
            /\ Other(t, x) = x => x # t
        BY <2>1, <4>2, RelationFacts
      <4>4. i \in DOMAIN db[Other(t, x)]
        BY <1>4, <2>1 DEF IsCall, Stored
      <4>5. CASE <<x, i>> \in g.existing
        BY <4>5 DEF Placement
      <4>6. CASE <<x, i>> \notin g.existing /\ Other(t, x) = x /\ Other(t, c) = c
        <5>1. db[x][i][Link(x)] = g.id
          BY <2>1, <4>1, <4>6 DEF Placement
        <5>2. db'[x][i][Link(x)] = g.id
          BY <1>5, <2>11, <4>3, <4>4, <4>6, <5>1
        <5> QED BY <2>1, <2>14, <4>6, <5>2 DEF Placement
      <4>7. CASE <<x, i>> \notin g.existing /\ Other(t, x) = x /\ Other(t, c) # c
        <5>1. db'[x] = db[x]
          BY <2>2, <2>9, <4>3, <4>7
        <5> QED BY <2>1, <2>14, <4>1, <4>7, <5>1 DEF Placement
      <4>8. CASE <<x, i>> \notin g.existing /\ Other(t, x) # x /\ Other(t, c) = c
        <5>1. db'[t] = db[t]
          BY <2>1, <2>2, <2>9, <4>8
        <5> QED BY <2>1, <2>14, <4>1, <4>8, <5>1 DEF Placement
      <4>9. CASE Other(t, x) # x /\ Other(t, c) # c
        <5>1. g.many[x] = <<>>
          BY <2>2, <2>5, <4>3, <4>9
        <5> QED BY <5>1, ShortLists
      <4> QED BY <4>5, <4>6, <4>7, <4>8, <4>9
    <3> QED BY <3>1, <3>2 DEF Linked
  <2>16. PICK f : f = HasPlaced(g, c, g.made, R, {})
    OBVIOUS
  <2>17. stack' = <<f>> \o Tail(stack)
    <3>1. DOMAIN g = {"o", "ctx", "at", "user", "id", "todo", "made", "existing", "many", "R"}
      BY <1>4 DEF IsCall, InPlace
    <3>2. Placed(c, g.made, R) = HasPlaced(g, c, g.made, R, {})
      BY <1>3, <3>1 DEF Placed, HasPlaced
    <3> QED BY <1>9, <2>16, <3>2
  <2>18. PICK ms : ms = g.made
    OBVIOUS
  <2>19. Onward(f, g, c, ms)
    <3>1. PICK E : E = {}
      OBVIOUS
    <3>2. f = HasPlaced(g, c, ms, R, E) /\ \A i \in Range(ms) : <<c, i>> \in E \/ i \in Range(g.made)
      BY <2>16, <2>18, <3>1
    <3> QED BY <1>4, <3>2, PlacedOnward
  <2>20. IsCall(g, d2) /\ IsList(ms) /\ Range(ms) \subseteq DOMAIN d2[Other(g.o.table, c)]
    <3>1. IsCall(g, d2)
      BY <1>4, <2>10, <2>14, CallStays
    <3> QED BY <2>1, <2>2, <2>3, <2>10, <2>14, <2>18, <3>1 DEF Grows
  <2>21. IsCall(f, d2) /\ f.o = g.o /\ \A x, i : Knows(f, x, i) => Knows(g, x, i)
    BY <1>4, <2>19, <2>20, EntryDone
  <2>22. \A i \in Range(ms) : Placement(f, d2, c, i)
    <3>1. f.o = g.o /\ f.id = g.id
      BY <2>19 DEF Onward
    <3>2. CASE Other(t, c) = c
      <4>1. \A i \in Range(ms) : db'[c][i][Link(c)] = g.id
        BY <1>5, <1>6, <2>2, <2>3, <2>8, <2>9, <2>18, <3>2 DEF Relinked
      <4> QED BY <2>1, <2>14, <3>1, <3>2, <4>1 DEF Placement
    <3>3. CASE Other(t, c) # c
      <4>1. db'[t][g.id].profile_picture_id = g.made[1]
        BY <1>5, <1>6, <2>2, <2>3, <2>8, <2>9, <3>3 DEF Relinked
      <4>2. \A i \in Range(ms) : i = g.made[1]
        BY <2>5, <2>18, <3>3
      <4> QED BY <2>1, <2>14, <3>1, <3>3, <4>1, <4>2 DEF Placement
    <3> QED BY <3>2, <3>3
  <2>23. Linked(f, d2)
    <3>1. InPlace(g) /\ \A x \in DOMAIN g.many : IsList(g.many[x])
      BY <1>4 DEF IsCall, Stored
    <3> QED BY <2>15, <2>19, <2>20, <2>22, <3>1, EntryLinked
  <2>24. AreCalls(<<f>> \o Tail(stack), d2)
    <3>1. Tail(stack) # <<>> => Within(f, Tail(stack)[1])
      BY <1>1, <1>3, <2>21, TopFacts DEF Within
    <3>2. \A k \in DOMAIN Tail(stack) : Apart(f, Tail(stack)[k])
      BY <1>1, <1>3, <2>21, TopFacts DEF Apart
    <3>3. AreCalls(Tail(stack), d2)
      BY <2>13, <2>14
    <3> QED BY <2>21, <2>23, <3>1, <3>2, <3>3, CallInFront
  <2> QED
    BY <1>1, <1>9, <2>10, <2>14, <2>17, <2>24, CallGoesOn
<1> QED
  BY <1>7, <1>8, <1>9

\* A call that gets one more row for the entry it is at.
OneMade(g, id) == [g EXCEPT !.made = Append(@, id)]

LEMMA RowMade ==
  ASSUME NEW d, NEW g, IsCall(g, d), Linked(g, d), g.at = "relate", NEW c \in Turn(g),
         NEW id, id \in DOMAIN d[Other(g.o.table, c)], NEW f, f = OneMade(g, id)
  PROVE  /\ IsCall(f, d) /\ Linked(f, d) /\ f.o = g.o
         /\ \A t, i : Knows(f, t, i) => Knows(g, t, i) \/ (t = Other(g.o.table, c) /\ i = id)
<1>1. DOMAIN g = {"o", "ctx", "at", "user", "id", "todo", "made", "existing", "many", "R"}
  BY DEF IsCall, InPlace
<1>2. /\ DOMAIN f = DOMAIN g /\ f.o = g.o /\ f.at = g.at /\ f.user = g.user /\ f.id = g.id
      /\ f.todo = g.todo /\ f.many = g.many /\ f.existing = g.existing
      /\ f.made = Append(g.made, id)
  BY <1>1 DEF OneMade
<1>3. Turn(f) = Turn(g)
  BY <1>2, SameTurn
<1>4. IsList(g.made)
  BY DEF IsCall, Stored
<1>5. IsList(f.made) /\ Range(f.made) = Range(g.made) \cup {id}
  BY <1>2, <1>4, ListGrows
<1>6. g.o.table \in Tables /\ \A x \in Turn(g) : x = c
  <2>1. g.o.table \in Tables
    BY SoundFacts DEF IsCall
  <2> QED BY <2>1, TurnFacts DEF IsCall
<1>7. InPlace(f) /\ Follows(f) /\ Sound(f.o, d)
  BY <1>2 DEF IsCall, InPlace, Follows
<1>8. Stored(f, d)
  <2>1. Stored(g, d)
    BY DEF IsCall
  <2>2. \A x \in Turn(g) : Range(f.made) \subseteq DOMAIN d[Other(g.o.table, x)]
    BY <1>5, <1>6, <2>1 DEF Stored
  <2> QED BY <1>2, <1>3, <1>5, <2>1, <2>2 DEF Stored
<1>9. Proceeds(f)
  <2>1. Proceeds(g)
    BY DEF IsCall
  <2> QED BY <1>2, <1>3, <2>1 DEF Proceeds
<1>10. Linked(f, d)
  BY <1>2 DEF Linked, Placement
<1>11. \A t, i : Knows(f, t, i) => Knows(g, t, i) \/ (t = Other(g.o.table, c) /\ i = id)
  BY <1>2, <1>3, <1>5, <1>6 DEF Knows
<1> QED
  BY <1>2, <1>7, <1>8, <1>9, <1>10, <1>11 DEF IsCall

LEMMA ReturnStep ==
  ASSUME IInv, NEW t \in Tables, Return(t)
  PROVE  IInv'
<1>1. Calling /\ Top.at = "relate" /\ UNCHANGED <<db, tmpl, kept>>
  BY DEF Return, At
<1>2. PICK f : f = Top
  OBVIOUS
<1>3. PICK r : r = Tail(stack)
  OBVIOUS
<1>4. /\ IsCall(f, db) /\ Linked(f, db) /\ f.at = "relate"
      /\ AreCalls(r, db) /\ (r # <<>> => Within(f, r[1]) /\ r[1] = stack[2])
      /\ \A k \in DOMAIN r : Apart(f, r[k])
  BY <1>1, <1>2, <1>3, TopFacts
<1>5. \/ r = <<>> /\ stack' = <<>> /\ out' = <<[err |-> FALSE, call |-> f]>>
      \/ r # <<>> /\ stack' = <<Resumed(stack[2], f.id)>> \o Tail(r) /\ UNCHANGED out
  BY Zenon, <1>2, <1>3 DEF Return
<1>6. CASE r = <<>> /\ stack' = <<>> /\ out' = <<[err |-> FALSE, call |-> f]>>
  <2>1. AreCalls(stack', db')
    BY <1>6, NoCalls
  <2>2. out'[1].call = f
    BY <1>6
  <2>3. PICK d2 : d2 = db'
    OBVIOUS
  <2>4. Linked(f, d2)
    BY <1>1, <1>4, <2>3
  <2>5. /\ f.o.table \in Owned => d2[f.o.table][f.id].user_id = f.user
        /\ \A c \in DOMAIN f.many : \A i \in Range(f.many[c]) :
             <<c, i>> \in f.existing
               \/ IF Other(f.o.table, c) = c THEN d2[c][i][Link(c)] = f.id
                  ELSE d2[f.o.table][f.id].profile_picture_id = i
    BY <1>4, <2>4 DEF Linked, Placement
  <2>6. LinkedAsPlaced'
    BY <2>2, <2>3, <2>5 DEF LinkedAsPlaced
  <2>7. Rows(db') /\ Prepared(tmpl', db') /\ Prepared(kept', db')
    BY <1>1 DEF IInv
  <2> QED
    BY <1>6, <2>1, <2>6, <2>7 DEF IInv
<1>7. CASE r # <<>> /\ stack' = <<Resumed(stack[2], f.id)>> \o Tail(r) /\ UNCHANGED out
  <2>1. PICK g : g = r[1]
    OBVIOUS
  <2>2. PICK q : q = Tail(r)
    OBVIOUS
  <2>3. /\ IsCall(g, db) /\ Linked(g, db) /\ AreCalls(q, db)
        /\ q # <<>> => Within(g, q[1])
        /\ \A k \in DOMAIN q : Apart(g, q[k])
    BY <1>4, <1>7, <2>1, <2>2, CallsAround
  <2>4. \A k \in DOMAIN q : Apart(f, q[k])
    <3>1. IsList(r)
      BY <1>4 DEF AreCalls
    <3>2. /\ Len(r) \in Nat /\ DOMAIN r = 1 .. Len(r) /\ DOMAIN q = 1 .. Len(r) - 1
          /\ \A k \in 1 .. Len(r) - 1 : q[k] = r[k + 1]
      BY <1>7, <2>2, <3>1, ListFacts
    <3>3. PICK n : n = Len(r)
      OBVIOUS
    <3>4. \A k \in DOMAIN q : k + 1 \in DOMAIN r /\ q[k] = r[k + 1]
      BY <3>2, <3>3
    <3> QED BY <1>4, <3>4
  <2>5. Within(f, g) /\ stack' = <<Resumed(g, f.id)>> \o q
    BY <1>4, <1>7, <2>1, <2>2
  <2>6. Knows(f, f.o.table, f.id) /\ f.id \in DOMAIN db[f.o.table]
    BY <1>4 DEF Knows, IsCall, Stored
  <2>7. PICK h : h = Resumed(g, f.id)
    OBVIOUS
  <2>8. /\ IsCall(h, db) /\ Linked(h, db) /\ h.o = g.o
        /\ \A x, i : Knows(h, x, i) => Knows(g, x, i) \/ Knows(f, x, i)
    <3>1. CASE g.at = "user"
      <4>1. f.o.table = "user"
        BY <2>5, <3>1 DEF Within
      <4>2. h = HasUser(g, f.id)
        BY Zenon, <2>7, <3>1 DEF Resumed, HasUser
      <4>3. PICK v : v = f.id
        OBVIOUS
      <4>4. v \in DOMAIN db["user"] /\ h = HasUser(g, v)
        BY <2>6, <4>1, <4>2, <4>3
      <4>5. IsCall(h, db) /\ Linked(h, db) /\ h.o = g.o /\ \A x, i : ~Knows(h, x, i)
        BY <2>3, <3>1, <4>4, UserThere
      <4> QED BY <4>5
    <3>2. CASE g.at # "user"
      <4>1. g.at = "relate"
        BY <2>5, <3>2 DEF Within
      <4>2. PICK c \in Turn(g) : f.o.table = Other(g.o.table, c)
        BY <2>5, <3>2 DEF Within
      <4>3. h = OneMade(g, f.id)
        BY Zenon, <2>7, <3>2 DEF Resumed, OneMade
      <4>4. PICK id : id = f.id
        OBVIOUS
      <4>5. id \in DOMAIN db[Other(g.o.table, c)] /\ h = OneMade(g, id)
        BY <2>6, <4>2, <4>3, <4>4
      <4>6. /\ IsCall(h, db) /\ Linked(h, db) /\ h.o = g.o
            /\ \A x, i : Knows(h, x, i) => Knows(g, x, i) \/ (x = Other(g.o.table, c) /\ i = id)
        BY <2>3, <4>1, <4>5, RowMade
      <4> QED BY <2>6, <4>2, <4>4, <4>6
    <3> QED BY <3>1, <3>2
  <2>9. AreCalls(<<h>> \o q, db)
    <3>1. q # <<>> => Within(h, q[1])
      BY <2>3, <2>8 DEF Within
    <3>2. \A k \in DOMAIN q : Apart(h, q[k])
      BY <2>3, <2>4, <2>8 DEF Apart
    <3> QED BY <2>3, <2>8, <3>1, <3>2, CallInFront
  <2> QED
    BY <1>1, <1>7, <2>5, <2>7, <2>9, CallMoves
<1> QED
  BY <1>5, <1>6, <1>7

\* The caller.
LEMMA BuildModelStep ==
  ASSUME IInv, BuildModel
  PROVE  IInv'
<1>1. stack = <<>> /\ UNCHANGED <<db, tmpl, kept, stack>>
  BY DEF BuildModel, Calling
<1>2. PICK b : out' = <<[err |-> FALSE, built |-> b, related |-> setModelRels(tmpl[1])]>>
  BY DEF BuildModel
<1>3. DOMAIN out'[1] = {"err", "built", "related"}
  BY <1>2
<1>4. ~Created'
  BY <1>3 DEF Created
<1>5. Rows(db') /\ Prepared(tmpl', db') /\ Prepared(kept', db') /\ AreCalls(stack', db')
  BY <1>1 DEF IInv
<1> QED
  BY <1>1, <1>4, <1>5 DEF IInv, LinkedAsPlaced

LEMMA CreateStep ==
  ASSUME IInv, Create
  PROVE  IInv'
<1>1. out = <<>> /\ UNCHANGED <<db, tmpl, kept, out>>
  BY DEF Create
<1>2. PICK o : o = tmpl[1]
  OBVIOUS
<1>3. stack' = <<Call(o, {})>>
  BY <1>2 DEF Create
<1>4. Sound(o, db)
  BY <1>2 DEF Create, IInv, Prepared
<1> DEFINE f == Call(o, {})
<1>5. IsCall(f, db) /\ Linked(f, db)
  BY <1>4, NewCall
<1> HIDE DEF f
<1>6. AreCalls(<<f>> \o <<>>, db)
  <2>1. PICK r : r = <<>>
    OBVIOUS
  <2>2. AreCalls(r, db) /\ DOMAIN r = {}
    BY <2>1, NoCalls
  <2>3. AreCalls(<<f>> \o r, db)
    BY <1>5, <2>1, <2>2, CallInFront
  <2> QED BY <2>1, <2>3
<1>7. <<f>> \o <<>> = <<f>>
  OBVIOUS
<1>8. AreCalls(stack', db')
  <2>1. PICK s : s = <<f>>
    OBVIOUS
  <2>2. AreCalls(s, db) /\ stack' = s
    BY Zenon, <1>3, <1>6, <1>7, <2>1 DEF f
  <2> QED BY <1>1, <2>2
<1>9. Rows(db') /\ Prepared(tmpl', db') /\ Prepared(kept', db') /\ ~Created'
  BY <1>1 DEF IInv, Created
<1> QED
  BY <1>1, <1>8, <1>9 DEF IInv, LinkedAsPlaced

\* The caller has one more template, or changes the one it prepares.
LEMMA StartStep ==
  ASSUME IInv, NEW t \in Tables, Start(t)
  PROVE  IInv'
<1>1. /\ out = <<>> /\ UNCHANGED <<db, stack, out>>
      /\ kept' = tmpl
  BY DEF Start
<1>2. PICK o : o = New(t)
  OBVIOUS
<1>3. tmpl' = <<o>>
  BY <1>2 DEF Start
<1>4. Prepared(tmpl', db)
  BY <1>2, <1>3, NewSound DEF Prepared
<1>5. Rows(db') /\ Prepared(tmpl', db') /\ Prepared(kept', db') /\ AreCalls(stack', db') /\ ~Created'
  BY <1>1, <1>4 DEF IInv, Created
<1> QED
  BY <1>1, <1>5 DEF IInv, LinkedAsPlaced

LEMMA ModStep ==
  ASSUME IInv, NEW o, Sound(o, db), ~o.persisted, Mod(o)
  PROVE  IInv'
<1>1. /\ out = <<>> /\ UNCHANGED <<db, kept, stack, out>>
      /\ tmpl' = <<o>>
  BY DEF Mod
<1>2. Prepared(tmpl', db)
  BY <1>1 DEF Prepared
<1>3. Rows(db') /\ Prepared(tmpl', db') /\ Prepared(kept', db') /\ AreCalls(stack', db') /\ ~Created'
  BY <1>1, <1>2 DEF IInv, Created
<1> QED
  BY <1>1, <1>3 DEF IInv, LinkedAsPlaced

\* The template it prepares.
LEMMA PreparedFacts ==
  ASSUME IInv, NEW t, Is(t)
  PROVE  Sound(tmpl[1], db) /\ ~tmpl[1].persisted /\ tmpl[1].table = t
  BY DEF IInv, Prepared, Is

\* A mod of it that leaves it a template.
LEMMA ModdedStep ==
  ASSUME IInv, NEW t, Is(t), NEW p, Modded(tmpl[1], p, db), Mod(p)
  PROVE  IInv'
  BY PreparedFacts, ModStep DEF Modded

LEMMA OfferedSound ==
  ASSUME IInv, NEW t \in Tables, NEW rel \in Offered(t)
  PROVE  Sound(rel, db) /\ rel.table = t
<1>1. CASE rel = New(t)
  BY <1>1, NewSound
<1>2. CASE rel \in Range(kept) /\ rel.table = t
  <2>1. Prepared(kept, db)
    BY DEF IInv
  <2>2. CASE kept = <<>>
    BY <1>2, <2>2, ShortLists
  <2>3. ASSUME NEW o, kept = <<o>>, Sound(o, db)  PROVE Sound(rel, db)
    BY <1>2, <2>3, ShortLists
  <2> QED BY <1>2, <2>1, <2>2, <2>3 DEF Prepared
<1>3. CASE \E i \in DOMAIN db[t] : rel = FromExisting(t, i)
  <2>1. PICK i \in DOMAIN db[t] : rel = FromExisting(t, i)
    BY <1>3
  <2>2. IsTable(t, db[t])
    BY DEF IInv, Rows
  <2> QED BY <2>1, <2>2, FromExistingSound
<1> QED
  BY <1>1, <1>2, <1>3 DEF Offered

LEMMA ColumnModsStep ==
  ASSUME IInv, NEW t \in Tables, ColumnMods(t)
  PROVE  IInv'
<1>1. PICK o : o = tmpl[1]
  OBVIOUS
<1>2. Is(t) /\ Sound(o, db) /\ ~o.persisted /\ o.table = t
  BY <1>1, PreparedFacts DEF ColumnMods
<1>3. PICK c \in Range(Columns[t]) :
        \/ \E v \in Values(t, c) \cap Given : Mod(SetColumn(o, c, v))
        \/ Mod(UnsetColumn(o, c))
  BY <1>1 DEF ColumnMods
<1>4. c \in Range(Columns[o.table])
  BY <1>2
<1>5. ASSUME NEW v \in Values(t, c), Mod(SetColumn(o, c, v))  PROVE IInv'
  <2>1. v \in Values(o.table, c)
    BY <1>2
  <2>2. Modded(o, SetColumn(o, c, v), db)
    BY <1>2, <1>4, <2>1, SetColumnSound
  <2> QED BY <1>1, <1>2, <1>5, <2>2, ModdedStep
<1>6. ASSUME Mod(UnsetColumn(o, c))  PROVE IInv'
  <2>1. Modded(o, UnsetColumn(o, c), db)
    BY <1>2, UnsetColumnSound
  <2> QED BY <1>1, <1>2, <1>6, <2>1, ModdedStep
<1> QED
  BY <1>3, <1>5, <1>6

LEMMA ParentsStep ==
  ASSUME IInv, NEW t \in DOMAIN Parent, Is(t), Mod(WithParentsCascading(tmpl[1]))
  PROVE  IInv'
<1>1. PICK o : o = tmpl[1]
  OBVIOUS
<1>2. Sound(o, db) /\ o.table \in DOMAIN Parent
  BY <1>1, PreparedFacts
<1>3. Modded(o, WithParentsCascading(o), db)
  BY <1>2, WithParentsCascadingSound
<1> QED
  BY <1>1, <1>3, ModdedStep

LEMMA UserModsStep ==
  ASSUME IInv, NEW t \in DOMAIN Parent, UserMods(t)
  PROVE  IInv'
<1>1. PICK o : o = tmpl[1]
  OBVIOUS
<1>2. Is(t) /\ Sound(o, db)
  BY <1>1, PreparedFacts DEF UserMods
<1>3. \/ \E rel \in Offered("user") : Mod(WithUser(o, rel))
      \/ Mod(WithoutUser(o))
      \/ Mod(WithParentsCascading(tmpl[1]))
  BY <1>1 DEF UserMods
<1>4. ASSUME NEW rel \in Offered("user"), Mod(WithUser(o, rel))  PROVE IInv'
  <2>1. Sound(rel, db) /\ rel.table = "user"
    <3>1. "user" \in Tables
      BY DEF Tables
    <3> QED BY <3>1, OfferedSound
  <2>2. Modded(o, WithUser(o, rel), db)
    BY <1>2, <2>1, WithUserSound
  <2> QED BY <1>1, <1>2, <1>4, <2>2, ModdedStep
<1>5. ASSUME Mod(WithoutUser(o))  PROVE IInv'
  <2>1. Modded(o, WithoutUser(o), db)
    BY <1>2, WithoutUserSound
  <2> QED BY <1>1, <1>2, <1>5, <2>1, ModdedStep
<1>6. ASSUME Mod(WithParentsCascading(tmpl[1]))  PROVE IInv'
  BY <1>2, <1>6, ParentsStep
<1> QED
  BY <1>3, <1>4, <1>5, <1>6

LEMMA ManyModsStep ==
  ASSUME IInv, NEW t \in Tables, NEW c \in Range(Relations(t)), Other(t, c) = c, ManyMods(t, c)
  PROVE  IInv'
<1>1. PICK o : o = tmpl[1]
  OBVIOUS
<1>2. Is(t) /\ Sound(o, db) /\ o.table = t
  BY <1>1, PreparedFacts DEF ManyMods
<1>3. c \in Range(Relations(o.table)) /\ Other(o.table, c) = c /\ c \in Tables
  BY <1>2, RelationFacts
<1>4. \/ \E rel \in Offered(c), n \in Numbers \cup {0} :
           Mod(With(o, c, n, rel)) \/ Mod(Add(o, c, n, rel))
      \/ Mod(Without(o, c))
  BY <1>1 DEF ManyMods
<1>5. ASSUME NEW rel \in Offered(c), NEW n, Mod(With(o, c, n, rel)) \/ Mod(Add(o, c, n, rel))
      PROVE  IInv'
  <2>1. Sound(rel, db) /\ rel.table = c /\ rel.table = Other(o.table, c)
    BY <1>3, OfferedSound
  <2>2. Modded(o, With(o, c, n, rel), db)
    BY <1>2, <1>3, <2>1, WithSound
  <2>3. Modded(o, Add(o, c, n, rel), db)
    BY <1>2, <1>3, <2>1, AddSound
  <2> QED BY <1>1, <1>2, <1>5, <2>2, <2>3, ModdedStep
<1>6. ASSUME Mod(Without(o, c))  PROVE IInv'
  <2>1. Modded(o, Without(o, c), db)
    BY <1>2, <1>3, WithoutSound
  <2> QED BY <1>1, <1>2, <1>6, <2>1, ModdedStep
<1> QED
  BY <1>4, <1>5, <1>6

LEMMA PictureModsStep ==
  ASSUME IInv, PictureMods
  PROVE  IInv'
<1>1. PICK o : o = tmpl[1]
  OBVIOUS
<1>2. PICK c : c = "user"
  OBVIOUS
<1>3. Is(c) /\ Sound(o, db) /\ o.table = c
  BY <1>1, <1>2, PreparedFacts DEF PictureMods
<1>4. c \in Range(Relations(o.table)) /\ Other(o.table, c) = "file"
  BY <1>2, <1>3, RelationNames DEF Other
<1>5. \/ \E rel \in Offered("file") : Mod(With(o, c, 1, rel))
      \/ Mod(Without(o, c))
      \/ Mod(WithParentsCascading(tmpl[1]))
  BY <1>1, <1>2 DEF PictureMods
<1>6. ASSUME NEW rel \in Offered("file"), Mod(With(o, c, 1, rel))  PROVE IInv'
  <2>1. Sound(rel, db) /\ rel.table = Other(o.table, c)
    <3>1. PICK x : x = "file"
      OBVIOUS
    <3>2. x \in Tables /\ rel \in Offered(x)
      BY <1>6, <3>1 DEF Tables
    <3> QED BY <1>4, <3>1, <3>2, OfferedSound
  <2>2. PICK n : n = 1
    OBVIOUS
  <2>3. Modded(o, With(o, c, n, rel), db)
    BY <1>3, <1>4, <2>1, <2>2, WithSound
  <2> QED BY <1>1, <1>3, <1>6, <2>2, <2>3, ModdedStep
<1>7. ASSUME Mod(Without(o, c))  PROVE IInv'
  <2>1. Modded(o, Without(o, c), db)
    BY <1>3, <1>4, WithoutSound
  <2> QED BY <1>1, <1>3, <1>7, <2>1, ModdedStep
<1>8. ASSUME Mod(WithParentsCascading(tmpl[1]))  PROVE IInv'
  <2>1. c \in DOMAIN Parent
    BY <1>2 DEF Parent
  <2> QED BY <1>3, <1>8, <2>1, ParentsStep
<1> QED
  BY <1>5, <1>6, <1>7, <1>8

-----------------------------------------------------------------------------
(***************************************************************************)
(* The theorems.                                                           *)
(***************************************************************************)

LEMMA CreatingStep ==
  ASSUME IInv, NEW t \in Tables, Creating(t)
  PROVE  IInv'
  BY CreateUserStep, InsertStep, ReturnStep DEF Creating

LEMMA InsertOptRelsStep ==
  ASSUME IInv, NEW t \in Tables, insertOptRels(t)
  PROVE  IInv'
  BY PlaceExistingStep, CreateManyStep, AttachStep DEF insertOptRels

LEMMA TableSteps ==
  ASSUME IInv, Steps
  PROVE  IInv'
<1>1. /\ "user" \in Tables /\ "file" \in Tables /\ "item" \in Tables
      /\ "credential" \in Tables /\ "schema_migrations" \in Tables
  BY DEF Tables
<1>2. \E t \in Tables : Creating(t) \/ insertOptRels(t)
  BY <1>1 DEF Steps, UserCreate, UserInsertOptRels, FileCreate, FileInsertOptRels, ItemCreate,
              CredentialCreate, SchemaMigrationCreate
<1> QED
  BY <1>2, CreatingStep, InsertOptRelsStep

LEMMA CallerSteps ==
  ASSUME IInv,
         \/ UserStart \/ FileStart \/ ItemStart \/ CredentialStart \/ SchemaMigrationStart
         \/ UserColumnMods \/ FileColumnMods \/ ItemColumnMods \/ CredentialColumnMods
         \/ SchemaMigrationColumnMods
         \/ UserCredentialMods \/ UserFileMods \/ UserItemMods \/ PictureMods
         \/ FileRelationMods \/ ItemRelationMods \/ CredentialRelationMods
  PROVE  IInv'
<1>1. /\ "user" \in Tables /\ "file" \in Tables /\ "item" \in Tables
      /\ "credential" \in Tables /\ "schema_migrations" \in Tables
  BY DEF Tables
<1>2. "file" \in DOMAIN Parent /\ "item" \in DOMAIN Parent /\ "credential" \in DOMAIN Parent
  BY DEF Parent
<1>3. CASE UserStart \/ FileStart \/ ItemStart \/ CredentialStart \/ SchemaMigrationStart
  BY <1>1, <1>3, StartStep
     DEF UserStart, FileStart, ItemStart, CredentialStart, SchemaMigrationStart
<1>4. CASE \/ UserColumnMods \/ FileColumnMods \/ ItemColumnMods \/ CredentialColumnMods
           \/ SchemaMigrationColumnMods
  BY <1>1, <1>4, ColumnModsStep
     DEF UserColumnMods, FileColumnMods, ItemColumnMods, CredentialColumnMods,
         SchemaMigrationColumnMods
<1>5. ASSUME NEW t \in Tables, NEW c \in Range(Relations(t)), c # t, ManyMods(t, c)  PROVE IInv'
  <2>1. Other(t, c) = c
    BY <1>5 DEF Other
  <2> QED BY <1>5, <2>1, ManyModsStep
<1>6. CASE UserCredentialMods \/ UserFileMods \/ UserItemMods
  BY <1>1, <1>5, <1>6, RelationNames DEF UserCredentialMods, UserFileMods, UserItemMods
<1>7. CASE FileRelationMods \/ ItemRelationMods \/ CredentialRelationMods
  BY <1>1, <1>2, <1>5, <1>7, UserModsStep, RelationNames
     DEF FileRelationMods, ItemRelationMods, CredentialRelationMods
<1> QED
  BY <1>3, <1>4, <1>6, <1>7, PictureModsStep

LEMMA InvNext == IInv /\ [Next]_vars => IInv'
<1> SUFFICES ASSUME IInv, [Next]_vars PROVE IInv'
  OBVIOUS
<1>1. CASE UNCHANGED vars
  BY <1>1 DEF vars, IInv, LinkedAsPlaced, Created
<1>2. CASE Steps
  BY <1>2, TableSteps
<1>3. CASE \E t \in Tables : InsertFails(t)
  BY <1>3, InsertFailsStep
<1>4. CASE Create \/ BuildModel
  BY <1>4, CreateStep, BuildModelStep
<1>5. CASE \/ UserStart \/ FileStart \/ ItemStart \/ CredentialStart \/ SchemaMigrationStart
           \/ UserColumnMods \/ FileColumnMods \/ ItemColumnMods \/ CredentialColumnMods
           \/ SchemaMigrationColumnMods
           \/ UserCredentialMods \/ UserFileMods \/ UserItemMods \/ PictureMods
           \/ FileRelationMods \/ ItemRelationMods \/ CredentialRelationMods
  BY <1>5, CallerSteps
<1> QED
  BY <1>1, <1>2, <1>3, <1>4, <1>5 DEF Next

LEMMA InvTypeOK == IInv => TypeOK
<1> SUFFICES ASSUME IInv PROVE TypeOK
  OBVIOUS
<1>1. ASSUME NEW t \in Tables, NEW i \in DOMAIN db[t]  PROVE i \in RowIds /\ db[t][i] \in Row(t)
  BY DEF IInv, Rows, IsTable
<1>2. ASSUME NEW k \in DOMAIN stack, NEW f, f = stack[k]
      PROVE  /\ f.at \in {"user", "insert", "relate"}
             /\ f.at = "relate" => f.id \in DOMAIN db[f.o.table]
             /\ f.user # 0 => f.user \in DOMAIN db["user"]
             /\ \A c \in DOMAIN f.many : Range(f.many[c]) \subseteq DOMAIN db[Other(f.o.table, c)]
  <2>1. IsCall(f, db)
    BY <1>2 DEF IInv, AreCalls
  <2> QED BY <2>1 DEF IsCall, InPlace, Stored
<1> QED
  BY <1>1, <1>2 DEF TypeOK

\* However templates are related and however deep the calls of Create are within
\* one another, the tables hold rows, and every id a call holds, of its own row,
\* of its user and of what it has put into R, is of a row that is there, in the
\* table that it says.
THEOREM TypeCorrect == Spec => []TypeOK
<1>1. Spec => []IInv
  BY InvInit, InvNext, PTL DEF Spec
<1> QED
  BY <1>1, InvTypeOK, PTL

\* When Create answers without an error, the row it inserted belongs to the user
\* in R, and the rows it made for relations, or the picture, are linked to it,
\* whether R still has them or has lost them: what calls within and around it did
\* to the same tables in between has linked none of them elsewhere.
THEOREM CreatedLinked == Spec => []LinkedAsPlaced
<1>1. Spec => []IInv
  BY InvInit, InvNext, PTL DEF Spec
<1>2. IInv => LinkedAsPlaced
  BY DEF IInv
<1> QED
  BY <1>1, <1>2, PTL

=============================================================================
