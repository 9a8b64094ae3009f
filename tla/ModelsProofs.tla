---------------------------- MODULE ModelsProofs ----------------------------
(***************************************************************************)
(* Proofs about the generated models for any tables a caller finds, any    *)
(* setters it gives and any number of objects.                             *)
(***************************************************************************)
EXTENDS Models, FiniteSetTheorems, SequenceTheorems, WellFoundedInduction, TLAPS

-----------------------------------------------------------------------------
(***************************************************************************)
(* Sets of numbers.                                                        *)
(***************************************************************************)

\* A non-empty set of numbers has a smallest element.
LEMMA MinOfNaturals ==
  ASSUME NEW S \in SUBSET Nat, S # {}
  PROVE  Min(S) \in S /\ \A x \in S : Min(S) <= x
<1> DEFINE Less == OpToRel(<, Nat)
<1>1. IsWellFoundedOn(Less, Nat)
  BY NatLessThanWellFounded
<1>2. \A x, y \in Nat : y < x => <<y, x>> \in Less
  BY DEF OpToRel
<1> HIDE DEF Less
<1>3. PICK b \in S : \A k \in S : <<k, b>> \notin Less
  BY <1>1, WFMin
<1>4. ASSUME NEW k \in S  PROVE b <= k
  <2>1. k \in Nat /\ b \in Nat /\ ~(k < b)
    BY <1>2, <1>3
  <2> QED BY <2>1
<1> QED
  BY <1>4 DEF Min

\* A bounded non-empty set of numbers has a largest element.
LEMMA MaxOfBounded ==
  ASSUME NEW S \in SUBSET Nat, S # {},
         NEW n \in Nat, \A x \in S : x <= n
  PROVE  Max(S) \in S /\ \A x \in S : x <= Max(S)
<1> DEFINE Bounds == {k \in Nat : \A x \in S : x <= k}
           b == Min(Bounds)
<1>1. n \in Bounds /\ Bounds \in SUBSET Nat
  OBVIOUS
<1>2. b \in Bounds /\ \A k \in Bounds : b <= k
  <2> HIDE DEF Bounds
  <2> QED BY <1>1, MinOfNaturals
<1>3. b \in S
  <2>1. SUFFICES ASSUME b \notin S  PROVE FALSE
    OBVIOUS
  <2>2. PICK x \in S : TRUE
    OBVIOUS
  <2>3. b - 1 \in Bounds
    <3> HIDE DEF b
    <3> QED BY <1>2, <2>1, <2>2
  <2> QED
    BY <1>2, <2>3
<1>4. \A x \in S : b >= x
  BY <1>2
<1> HIDE DEF b
<1> QED
  BY <1>3, <1>4 DEF Max

-----------------------------------------------------------------------------
(***************************************************************************)
(* The columns of the tables.                                              *)
(***************************************************************************)

LEMMA KeyNames ==
  /\ Key("user") = "id" /\ Key("file") = "id" /\ Key("item") = "id"
  /\ Key("credential") = "cred_id" /\ Key("schema_migrations") = "version"
  BY DEF Key, Columns, UserColumns, FileColumns, ItemColumns, CredentialColumns,
         SchemaMigrationColumns

LEMMA ColumnNames ==
  /\ Range(Columns["user"]) = {"id", "username", "profile_picture_id"}
  /\ Range(Columns["file"]) = {"id", "name", "user_id"}
  /\ Range(Columns["item"]) = {"id", "name", "user_id"}
  /\ Range(Columns["credential"]) =
       {"cred_id", "cred_public_key", "backup_eligible", "backup_state", "user_id"}
  /\ Range(Columns["schema_migrations"]) = {"version"}
<1>1. /\ Range(UserColumns) = {"id", "username", "profile_picture_id"}
      /\ Range(FileColumns) = {"id", "name", "user_id"}
      /\ Range(ItemColumns) = {"id", "name", "user_id"}
      /\ Range(SchemaMigrationColumns) = {"version"}
  BY DEF Range, UserColumns, FileColumns, ItemColumns, SchemaMigrationColumns
<1>2. Range(CredentialColumns) =
        {"cred_id", "cred_public_key", "backup_eligible", "backup_state", "user_id"}
  BY DEF Range, CredentialColumns
<1> QED
  BY <1>1, <1>2 DEF Columns

\* A key is a number, is not NULL, and is no column of a row.
LEMMA KeyFacts ==
  ASSUME NEW t \in Tables
  PROVE  /\ Values(t, Key(t)) = RowIds
         /\ Key(t) \notin Data(t)
         /\ Range(Columns[t]) = Data(t) \cup {Key(t)}
  BY KeyNames, ColumnNames DEF Tables, Values, Nullable, Data

\* The table at the other end of a relation is another one, and the link to it
\* is a column of the child that may hold any key.
LEMMA LinkFacts ==
  ASSUME NEW t \in DOMAIN Parent
  PROVE  /\ t \in Tables /\ Parent[t] \in DOMAIN Parent /\ Parent[t] # t
         /\ t \in Children(Parent[t])
         /\ Link(t) \in Data(t) /\ Link(t) # Key(t)
         /\ RowIds \subseteq Values(t, Link(t))
  BY KeyNames, ColumnNames
     DEF Parent, Tables, Children, Link, Data, Values, Links, Nullable

LEMMA ChildFacts ==
  ASSUME NEW t, NEW c \in Children(t)
  PROVE  c \in DOMAIN Parent /\ Parent[c] = t
  BY DEF Children

\* A statement is the same whatever table it is built for.
LEMMA StatementFacts ==
  ASSUME NEW t \in Tables, NEW tab, NEW ss, NEW ids, NEW s, NEW S
  PROVE  /\ Setter(t, S) = SetterOf(t, S)
         /\ Apply(t, tab, ss) = Inserted(t, tab, ss)
         /\ Expressions(t, tab, ids, s) = Updated(t, tab, ids, s)
  BY DEF Tables, Setter, UserSetter, FileSetter, ItemSetter, CredentialSetter,
         SchemaMigrationSetter, Apply, UserApply, FileApply, ItemApply, CredentialApply,
         SchemaMigrationApply, Expressions, UserExpressions, FileExpressions,
         ItemExpressions, CredentialExpressions, SchemaMigrationExpressions

-----------------------------------------------------------------------------
(***************************************************************************)
(* What the statements do to a table.                                      *)
(***************************************************************************)

IsTable(t, tab) == DOMAIN tab \subseteq RowIds /\ tab \in [DOMAIN tab -> Row(t)]

\* What a setter makes of a row is a row.
LEMMA OverwriteTyped ==
  ASSUME NEW t \in Tables, NEW row \in Row(t), NEW S, NEW s \in SetterOf(t, S)
  PROVE  /\ Overwrite(row, s) \in Row(t)
         /\ \A c \in Data(t) : c \in S => Overwrite(row, s)[c] = s[c]
  BY DEF Overwrite, Row, SetterOf

\* An UPDATE that gives no key writes the rows it names and no other.
LEMMA UpdatedInPlace ==
  ASSUME NEW t \in Tables, NEW tab, NEW ids, NEW s, Key(t) \notin DOMAIN s
  PROVE  /\ DOMAIN Updated(t, tab, ids, s) = DOMAIN tab
         /\ \A i \in DOMAIN tab :
              Updated(t, tab, ids, s)[i] = IF i \in ids THEN Overwrite(tab[i], s) ELSE tab[i]
<1> DEFINE key == UpdatedKeys(t, tab, ids, s)
<1>1. DOMAIN key = DOMAIN tab /\ \A i \in DOMAIN tab : key[i] = i
  BY DEF UpdatedKeys
<1>2. Range(key) = DOMAIN tab
  <2> HIDE DEF key
  <2> QED BY <1>1 DEF Range
<1>3. \A j \in DOMAIN tab : (CHOOSE i \in DOMAIN tab : key[i] = j) = j
  <2> HIDE DEF key
  <2> QED BY <1>1
<1>4. Updated(t, tab, ids, s) =
        [j \in Range(key) |->
           IF (CHOOSE i \in DOMAIN tab : key[i] = j) \in ids
           THEN Overwrite(tab[CHOOSE i \in DOMAIN tab : key[i] = j], s)
           ELSE tab[CHOOSE i \in DOMAIN tab : key[i] = j]]
  BY DEF Updated
<1> HIDE DEF key
<1> QED
  BY <1>2, <1>3, <1>4

\* An UPDATE that gives a key finds no row, or one, which it moves there.
FindsNone(t, tab, ids, new) ==
  /\ ids \cap DOMAIN tab = {}
  /\ DOMAIN new = DOMAIN tab
  /\ \A i \in DOMAIN tab : new[i] = tab[i]

MovesOne(t, tab, ids, s, new, i) ==
  /\ i \in DOMAIN tab /\ ids \cap DOMAIN tab = {i}
  /\ s[Key(t)] \notin DOMAIN tab \ {i}
  /\ DOMAIN new = (DOMAIN tab \ {i}) \cup {s[Key(t)]}
  /\ new[s[Key(t)]] = Overwrite(tab[i], s)
  /\ \A j \in DOMAIN tab \ {i} : new[j] = tab[j]

LEMMA UpdatedMoves ==
  ASSUME NEW t \in Tables, NEW tab, NEW ids, NEW s, Key(t) \in DOMAIN s,
         Updatable(t, tab, ids, s)
  PROVE  \/ FindsNone(t, tab, ids, Updated(t, tab, ids, s))
         \/ \E i : MovesOne(t, tab, ids, s, Updated(t, tab, ids, s), i)
<1> DEFINE key == UpdatedKeys(t, tab, ids, s)
           new == Updated(t, tab, ids, s)
           old(j) == CHOOSE i \in DOMAIN tab : key[i] = j
           k == s[Key(t)]
<1>1. DOMAIN key = DOMAIN tab /\ \A i \in DOMAIN tab : key[i] = IF i \in ids THEN k ELSE i
  BY DEF UpdatedKeys
<1>2. \A i, j \in DOMAIN tab : key[i] = key[j] => i = j
  <2> HIDE DEF key
  <2> QED BY <1>1 DEF Updatable, IsInjective, key
<1>3. new = [j \in Range(key) |->
               IF old(j) \in ids THEN Overwrite(tab[old(j)], s) ELSE tab[old(j)]]
  BY DEF Updated
<1>4. \A i \in DOMAIN tab : key[i] \in Range(key) /\ old(key[i]) = i
  <2> HIDE DEF key
  <2> QED BY <1>1, <1>2 DEF Range
<1>5. \A j \in Range(key) : \E i \in DOMAIN tab : j = key[i]
  <2> HIDE DEF key
  <2> QED BY <1>1 DEF Range
<1>6. \A i \in DOMAIN tab : new[key[i]] = IF i \in ids THEN Overwrite(tab[i], s) ELSE tab[i]
  <2> HIDE DEF key, old, new
  <2> QED BY <1>3, <1>4
<1>7. DOMAIN new = Range(key)
  BY <1>3
<1> HIDE DEF key, new, old, k
<1>8. CASE ids \cap DOMAIN tab = {}
  <2>1. \A i \in DOMAIN tab : key[i] = i /\ i \notin ids
    BY <1>1, <1>8
  <2>2. Range(key) = DOMAIN tab
    BY <1>4, <1>5, <2>1
  <2> QED
    BY <1>6, <1>7, <1>8, <2>1, <2>2 DEF new, FindsNone
<1>9. CASE ids \cap DOMAIN tab # {}
  <2>1. PICK i \in DOMAIN tab : i \in ids
    BY <1>9
  <2>2. \A j \in DOMAIN tab : j \in ids => j = i
    BY <1>1, <1>2, <2>1
  <2>3. key[i] = k /\ \A j \in DOMAIN tab \ {i} : key[j] = j
    BY <1>1, <2>1, <2>2
  <2>4. Range(key) = (DOMAIN tab \ {i}) \cup {k}
    BY <1>4, <1>5, <2>1, <2>3
  <2>5. k \notin DOMAIN tab \ {i}
    BY <1>2, <2>1, <2>3
  <2>6. new[k] = Overwrite(tab[i], s) /\ \A j \in DOMAIN tab \ {i} : new[j] = tab[j]
    BY <1>6, <2>1, <2>2, <2>3
  <2>7. ids \cap DOMAIN tab = {i}
    BY <2>1, <2>2
  <2> QED
    BY <1>7, <2>1, <2>4, <2>5, <2>6, <2>7 DEF new, k, MovesOne
<1> QED
  BY <1>8, <1>9

LEMMA UpdatedTyped ==
  ASSUME NEW t \in Tables, NEW tab, IsTable(t, tab), NEW ids, NEW s, s \in SetterOf(t, DOMAIN s),
         Key(t) \notin DOMAIN s \/ Updatable(t, tab, ids, s)
  PROVE  IsTable(t, Updated(t, tab, ids, s))
<1> DEFINE new == Updated(t, tab, ids, s)
<1>1. \A i \in DOMAIN tab : tab[i] \in Row(t) /\ Overwrite(tab[i], s) \in Row(t)
  BY OverwriteTyped DEF IsTable
<1>2. new = [i \in DOMAIN new |-> new[i]]
  BY DEF Updated
<1>3. \A i \in DOMAIN new : new[i] \in Row(t) /\ i \in RowIds
  <2>1. CASE Key(t) \notin DOMAIN s
    <3> HIDE DEF new
    <3> QED BY <1>1, <2>1, UpdatedInPlace DEF IsTable, new
  <2>2. CASE Key(t) \in DOMAIN s
    <3>1. s[Key(t)] \in RowIds
      BY <2>2, KeyFacts DEF SetterOf
    <3>2. FindsNone(t, tab, ids, new) \/ \E i : MovesOne(t, tab, ids, s, new, i)
      BY <2>2, UpdatedMoves
    <3> HIDE DEF new
    <3>3. CASE FindsNone(t, tab, ids, new)
      <4>1. DOMAIN new = DOMAIN tab /\ \A i \in DOMAIN tab : new[i] = tab[i]
        BY <3>3 DEF FindsNone
      <4> QED BY <1>1, <4>1 DEF IsTable
    <3>4. ASSUME NEW i, MovesOne(t, tab, ids, s, new, i)
          PROVE  \A j \in DOMAIN new : new[j] \in Row(t) /\ j \in RowIds
      <4>1. /\ i \in DOMAIN tab /\ DOMAIN new = (DOMAIN tab \ {i}) \cup {s[Key(t)]}
            /\ new[s[Key(t)]] = Overwrite(tab[i], s)
            /\ \A j \in DOMAIN tab \ {i} : new[j] = tab[j]
        BY <3>4 DEF MovesOne
      <4> QED BY <1>1, <3>1, <4>1 DEF IsTable
    <3> QED BY <3>2, <3>3, <3>4
  <2> QED BY <2>1, <2>2
<1> HIDE DEF new
<1> QED
  BY <1>2, <1>3 DEF IsTable, new

\* What one row of an INSERT gets is a row, if its values fit.
LEMMA RowOfTyped ==
  ASSUME NEW t \in Tables, NEW named, NEW S, named \in SetterOf(t, S),
         Data(t) \ Nullable \subseteq S
  PROVE  RowOf(t, named) \in Row(t)
<1>1. \A c \in Data(t) : RowOf(t, named)[c] \in Values(t, c)
  BY DEF RowOf, SetterOf, Values
<1>2. \A c \in Data(t) : RowOf(t, named)[c] \in RowIds \cup Vals \cup {Null}
  BY DEF RowOf, SetterOf
<1> QED
  BY <1>1, <1>2 DEF RowOf, Row

\* An INSERT that is not refused leaves the rows there are alone, and adds one
\* for each of its setters.
LEMMA InsertedAdds ==
  ASSUME NEW t \in Tables, NEW tab, NEW ss, Insertable(t, tab, ss)
  PROVE  /\ DOMAIN tab \subseteq DOMAIN Inserted(t, tab, ss)
         /\ \A i \in DOMAIN tab : Inserted(t, tab, ss)[i] = tab[i]
         /\ \A i \in DOMAIN Inserted(t, tab, ss) \ DOMAIN tab :
              \E k \in DOMAIN ss :
                Inserted(t, tab, ss)[i] = RowOf(t, Named(t, ss[1], ss[k]))
         /\ Inserted(t, tab, ss) = [i \in DOMAIN Inserted(t, tab, ss) |-> Inserted(t, tab, ss)[i]]
<1> DEFINE key == InsertedKeys(t, tab, ss)
           new == Inserted(t, tab, ss)
           row(k) == RowOf(t, Named(t, ss[1], ss[k]))
<1>1. new = [i \in DOMAIN tab \cup Range(key) |->
               IF i \in Range(key) THEN row(CHOOSE k \in DOMAIN ss : key[k] = i) ELSE tab[i]]
  BY DEF Inserted
<1>2. Range(key) \cap DOMAIN tab = {}
  BY DEF Insertable
<1>3. \A i \in Range(key) : (CHOOSE k \in DOMAIN ss : key[k] = i) \in DOMAIN ss
  <2>1. DOMAIN key = DOMAIN ss
    BY DEF InsertedKeys
  <2> HIDE DEF key
  <2> QED BY <2>1 DEF Range
<1> HIDE DEF key, row, new
<1>4. \A i \in DOMAIN new \ DOMAIN tab : \E k \in DOMAIN ss : new[i] = row(k)
  BY <1>1, <1>3
<1>5. DOMAIN tab \subseteq DOMAIN new /\ \A i \in DOMAIN tab : new[i] = tab[i]
  BY <1>1, <1>2
<1>6. new = [i \in DOMAIN new |-> new[i]]
  BY <1>1
<1> QED
  BY <1>4, <1>5, <1>6 DEF new, row

\* A list of setters for one table.
IsSetters(t, ss) ==
  /\ 1 \in DOMAIN ss
  /\ Fit(t, Range(ss))
  /\ \A s \in Range(ss) : DOMAIN s \subseteq Range(Columns[t])

LEMMA InsertedTyped ==
  ASSUME NEW t \in Tables, NEW tab, IsTable(t, tab), NEW ss, IsSetters(t, ss),
         Insertable(t, tab, ss), DOMAIN Inserted(t, tab, ss) \subseteq RowIds
  PROVE  IsTable(t, Inserted(t, tab, ss))
<1> DEFINE new == Inserted(t, tab, ss)
<1>1. ASSUME NEW k \in DOMAIN ss  PROVE RowOf(t, Named(t, ss[1], ss[k])) \in Row(t)
  <2>1. ss[1] \in Range(ss) /\ ss[k] \in Range(ss)
    BY DEF IsSetters, Range
  <2>2. Cardinality(DOMAIN ss[k]) = Cardinality(DOMAIN ss[1])
    BY <2>1 DEF Insertable
  <2>3. Named(t, ss[1], ss[k]) \in SetterOf(t, DOMAIN ss[1])
    BY <2>1, <2>2, StatementFacts DEF IsSetters, Fit
  <2>4. Data(t) \ Nullable \subseteq DOMAIN ss[1]
    BY DEF Insertable
  <2> QED
    BY <2>3, <2>4, RowOfTyped
<1>2. \A i \in DOMAIN new : new[i] \in Row(t)
  <2>1. /\ DOMAIN tab \subseteq DOMAIN new
        /\ \A i \in DOMAIN tab : new[i] = tab[i]
        /\ \A i \in DOMAIN new \ DOMAIN tab :
             \E k \in DOMAIN ss : new[i] = RowOf(t, Named(t, ss[1], ss[k]))
    BY InsertedAdds
  <2> HIDE DEF new
  <2> QED BY <1>1, <2>1 DEF IsTable
<1>3. new = [i \in DOMAIN new |-> new[i]]
  BY InsertedAdds
<1> HIDE DEF new
<1> QED
  BY <1>2, <1>3 DEF IsTable, new

\* The link is the last column of every table, so it is the last value of every
\* setter that has one, and setters that are as long put it into the same place.
LEMMA LinkIsLast ==
  ASSUME NEW t \in DOMAIN Parent
  PROVE  /\ Index(t, Link(t)) \in Nat
         /\ \A c \in Range(Columns[t]) :
              /\ Index(t, c) \in Nat /\ Index(t, c) <= Index(t, Link(t))
              /\ Index(t, c) = Index(t, Link(t)) => c = Link(t)
<1>1. CASE t = "user"
  <2> DEFINE cs == UserColumns
  <2>1. /\ DOMAIN cs = 1 .. 3 /\ cs[1] = "id" /\ cs[2] = "username"
        /\ cs[3] = "profile_picture_id" /\ Columns[t] = cs
    BY <1>1 DEF UserColumns, Columns
  <2> HIDE DEF cs
  <2>2. /\ Index(t, "id") = 1 /\ Index(t, "username") = 2 /\ Index(t, "profile_picture_id") = 3
    BY <2>1 DEF Index
  <2> QED
    BY <1>1, <2>2, ColumnNames DEF Link
<1>2. CASE t \in {"file", "item"}
  <2> DEFINE cs == FileColumns
  <2>1. /\ DOMAIN cs = 1 .. 3 /\ cs[1] = "id" /\ cs[2] = "name"
        /\ cs[3] = "user_id" /\ Columns[t] = cs
    BY <1>2 DEF FileColumns, ItemColumns, Columns
  <2> HIDE DEF cs
  <2>2. /\ Index(t, "id") = 1 /\ Index(t, "name") = 2 /\ Index(t, "user_id") = 3
    BY <2>1 DEF Index
  <2> QED
    BY <1>2, <2>2, ColumnNames DEF Link
<1>3. CASE t = "credential"
  <2> DEFINE cs == CredentialColumns
  <2>1. /\ DOMAIN cs = 1 .. 5 /\ cs[1] = "cred_id" /\ cs[2] = "cred_public_key"
        /\ cs[3] = "backup_eligible" /\ cs[4] = "backup_state" /\ cs[5] = "user_id"
        /\ Columns[t] = cs
    BY <1>3 DEF CredentialColumns, Columns
  <2> HIDE DEF cs
  <2>2. /\ Index(t, "cred_id") = 1 /\ Index(t, "cred_public_key") = 2
        /\ Index(t, "backup_eligible") = 3 /\ Index(t, "backup_state") = 4
        /\ Index(t, "user_id") = 5
    BY <2>1 DEF Index
  <2> QED
    BY <1>3, <2>2, ColumnNames DEF Link
<1> QED
  BY <1>1, <1>2, <1>3 DEF Parent

LEMMA ColumnsFinite ==
  ASSUME NEW t \in Tables, NEW S, S \subseteq Range(Columns[t])
  PROVE  IsFiniteSet(S) /\ Cardinality(S) \in Nat
<1>1. \E n \in Nat : DOMAIN Columns[t] = 1 .. n
  <2>1. /\ DOMAIN UserColumns = 1 .. 3 /\ DOMAIN FileColumns = 1 .. 3
        /\ DOMAIN ItemColumns = 1 .. 3 /\ DOMAIN CredentialColumns = 1 .. 5
        /\ DOMAIN SchemaMigrationColumns = 1 .. 1
    BY DEF UserColumns, FileColumns, ItemColumns, CredentialColumns, SchemaMigrationColumns
  <2>2. /\ DOMAIN Columns["user"] = 1 .. 3 /\ DOMAIN Columns["file"] = 1 .. 3
        /\ DOMAIN Columns["item"] = 1 .. 3 /\ DOMAIN Columns["credential"] = 1 .. 5
        /\ DOMAIN Columns["schema_migrations"] = 1 .. 1
    BY <2>1 DEF Columns
  <2> QED BY <2>2 DEF Tables
<1>2. PICK n \in Nat : DOMAIN Columns[t] = 1 .. n
  BY <1>1
<1> DEFINE f == [i \in 1 .. n |-> Columns[t][i]]
<1>3. f \in Surjection(1 .. n, Range(Columns[t]))
  BY <1>2 DEF Surjection, Range
<1>4. IsFiniteSet(1 .. n)
  BY FS_Interval
<1> HIDE DEF f
<1>5. IsFiniteSet(Range(Columns[t]))
  BY <1>3, <1>4, FS_Surjection
<1> QED
  BY <1>5, FS_Subset, FS_CardinalityType

LEMMA NamedLink ==
  ASSUME NEW t \in DOMAIN Parent, NEW first, NEW s,
         DOMAIN first \subseteq Range(Columns[t]), DOMAIN s \subseteq Range(Columns[t]),
         Link(t) \in DOMAIN first, Link(t) \in DOMAIN s,
         Cardinality(DOMAIN s) = Cardinality(DOMAIN first)
  PROVE  Named(t, first, s)[Link(t)] = s[Link(t)]
<1> DEFINE l == Link(t)
           upTo(r, c) == {d \in DOMAIN r : Index(t, d) <= Index(t, c)}
<1>1. upTo(first, l) = DOMAIN first
  BY LinkIsLast
<1>2. ASSUME NEW d \in DOMAIN s  PROVE Place(t, s, d) = Place(t, first, l) <=> d = l
  <2>1. IsFiniteSet(DOMAIN s) /\ upTo(s, d) \in SUBSET DOMAIN s
    BY ColumnsFinite, LinkFacts
  <2>2. Place(t, s, d) = Cardinality(upTo(s, d)) /\ Place(t, first, l) = Cardinality(upTo(first, l))
    BY DEF Place
  <2>3. Place(t, s, d) = Place(t, first, l) => upTo(s, d) = DOMAIN s
    <3> HIDE DEF upTo, l
    <3> QED BY <1>1, <2>1, <2>2, FS_Subset
  <2>4. l \in upTo(s, d) => d = l
    BY LinkIsLast
  <2>5. d = l => upTo(s, d) = DOMAIN s
    BY LinkIsLast
  <2> HIDE DEF upTo
  <2> QED
    BY <1>1, <2>2, <2>3, <2>4, <2>5
<1>3. (CHOOSE d \in DOMAIN s : Place(t, s, d) = Place(t, first, l)) = l
  BY <1>2
<1> QED
  BY <1>3 DEF Named

-----------------------------------------------------------------------------
(***************************************************************************)
(* The objects.                                                            *)
(***************************************************************************)

\* What an object may be that stands in h: its pointers are to objects of h, of
\* the tables the relations are with.
InHeap(h, t, x) ==
  /\ x \in Object(t)
  /\ x.one # Nil => t \in DOMAIN Parent /\ x.one \in DOMAIN h /\ h[x.one].table = Parent[t]
  /\ \A c \in Children(t) : \A k \in x.many[c] : k \in DOMAIN h /\ h[k].table = c

IsHeap(h) ==
  /\ h \in Seq(Range(h))
  /\ \A o \in DOMAIN h : h[o].table \in Tables /\ InHeap(h, h[o].table, h[o])

LEMMA HeapDomain ==
  ASSUME NEW h, IsHeap(h)
  PROVE  Len(h) \in Nat /\ DOMAIN h = 1 .. Len(h) /\ h = [o \in DOMAIN h |-> h[o]]
<1>1. h \in Seq(Range(h))
  BY DEF IsHeap
<1>2. Len(h) \in Nat /\ h \in [1 .. Len(h) -> Range(h)]
  BY <1>1, LenProperties
<1> QED
  BY <1>2

\* A function on the numbers up to n is a sequence.
LEMMA FunctionIsSeq ==
  ASSUME NEW n \in Nat, NEW f, f = [k \in DOMAIN f |-> f[k]], DOMAIN f = 1 .. n
  PROVE  f \in Seq(Range(f)) /\ Len(f) = n
<1>1. f \in [1 .. n -> Range(f)]
  BY DEF Range
<1>2. f \in Seq(Range(f))
  BY <1>1, SeqDef
<1>3. Len(f) \in Nat /\ DOMAIN f = 1 .. Len(f)
  BY <1>2, LenProperties
<1>4. Len(f) = n
  <2>1. \A k \in Nat : k \in 1 .. n <=> k \in 1 .. Len(f)
    BY <1>3
  <2>2. (n \in 1 .. n \/ n = 0) /\ (Len(f) \in 1 .. Len(f) \/ Len(f) = 0)
    BY <1>3
  <2> QED
    BY <1>3, <2>1, <2>2
<1> QED
  BY <1>2, <1>4

\* Objects that are changed in place keep the heap a heap, if each still has
\* its type.
LEMMA Rewired ==
  ASSUME NEW h, IsHeap(h), NEW h2, DOMAIN h2 = DOMAIN h, h2 = [o \in DOMAIN h2 |-> h2[o]],
         \A o \in DOMAIN h : InHeap(h, h[o].table, h2[o])
  PROVE  /\ IsHeap(h2) /\ Len(h2) = Len(h)
         /\ \A o \in DOMAIN h : h2[o].table = h[o].table
<1>1. h2 \in Seq(Range(h2)) /\ Len(h2) = Len(h)
  BY HeapDomain, FunctionIsSeq
<1>2. \A o \in DOMAIN h : h2[o].table = h[o].table
  BY DEF InHeap, Object
<1>3. ASSUME NEW o \in DOMAIN h  PROVE InHeap(h2, h2[o].table, h2[o])
  <2>1. InHeap(h, h2[o].table, h2[o])
    BY <1>2
  <2> QED
    BY <1>2, <2>1 DEF InHeap
<1>4. \A o \in DOMAIN h : h2[o].table \in Tables
  BY <1>2 DEF IsHeap
<1> QED
  BY <1>1, <1>2, <1>3, <1>4 DEF IsHeap

LEMMA FreshTyped ==
  ASSUME NEW t \in Tables, NEW tab, IsTable(t, tab), NEW id \in DOMAIN tab
  PROVE  /\ Fresh(t, id, tab) \in Object(t)
         /\ Fresh(t, id, tab).table = t /\ Fresh(t, id, tab).id = id
         /\ Fresh(t, id, tab).row = tab[id] /\ Fresh(t, id, tab).one = Nil
         /\ \A c \in Children(t) : Fresh(t, id, tab).many[c] = {}
<1>1. id \in RowIds /\ tab[id] \in Row(t)
  BY DEF IsTable
<1>2. [c \in Children(t) |-> {}] \in [Children(t) -> SUBSET Nat]
  OBVIOUS
<1> QED
  BY <1>1, <1>2 DEF Fresh, Object, Nil

\* The parts of what is appended.
IsConcat(a, b, c) ==
  /\ Len(c) = Len(a) + Len(b)
  /\ \A i \in 1 .. Len(a) + Len(b) : c[i] = IF i <= Len(a) THEN a[i] ELSE b[i - Len(a)]

LEMMA Concats ==
  ASSUME NEW S, NEW a \in Seq(S), NEW b \in Seq(S)
  PROVE  a \o b \in Seq(S) /\ IsConcat(a, b, a \o b)
  BY ConcatProperties DEF IsConcat

\* New objects without pointers go behind those there are.
Extends(h, g, n, h2) ==
  /\ Len(h2) = Len(h) + n
  /\ \A o \in DOMAIN h : o \in DOMAIN h2 /\ h2[o] = h[o]
  /\ \A o \in DOMAIN h2 \ DOMAIN h : o - Len(h) \in 1 .. n /\ h2[o] = g[o - Len(h)]
  /\ \A k \in 1 .. n : Len(h) + k \in DOMAIN h2 \ DOMAIN h

LEMMA Appended ==
  ASSUME NEW h, IsHeap(h), NEW t \in Tables, NEW g, NEW n \in Nat, DOMAIN g = 1 .. n,
         g = [k \in DOMAIN g |-> g[k]],
         \A k \in DOMAIN g : /\ g[k] \in Object(t) /\ g[k].one = Nil
                             /\ \A c \in Children(t) : g[k].many[c] = {}
  PROVE  IsHeap(h \o g) /\ Extends(h, g, n, h \o g)
<1> DEFINE h2 == h \o g
           S == Range(h) \cup Range(g)
<1>1. Len(h) \in Nat /\ DOMAIN h = 1 .. Len(h) /\ h \in Seq(S)
  <2>1. h \in Seq(Range(h)) /\ Range(h) \subseteq S
    BY DEF IsHeap
  <2>2. h \in Seq(S)
    <3> HIDE DEF S
    <3> QED BY <2>1, SeqMonotonic
  <2> QED
    BY <2>2, HeapDomain
<1>2. g \in Seq(S) /\ Len(g) = n
  <2>1. g \in Seq(Range(g)) /\ Len(g) = n /\ Range(g) \subseteq S
    BY FunctionIsSeq
  <2> HIDE DEF S
  <2> QED BY <2>1, SeqMonotonic
<1>3. /\ h2 \in Seq(S) /\ Len(h2) = Len(h) + n
      /\ \A i \in 1 .. Len(h) + n : h2[i] = IF i <= Len(h) THEN h[i] ELSE g[i - Len(h)]
  <2>1. h2 \in Seq(S) /\ IsConcat(h, g, h2)
    <3> HIDE DEF S
    <3> QED BY <1>1, <1>2, Concats
  <2> HIDE DEF S, h2
  <2> QED BY <1>2, <2>1 DEF IsConcat
<1>4. DOMAIN h2 = 1 .. Len(h) + n /\ h2 = [o \in DOMAIN h2 |-> h2[o]]
  <2>1. Len(h2) \in Nat /\ h2 \in [1 .. Len(h2) -> S]
    <3> HIDE DEF S, h2
    <3> QED BY <1>3, LenProperties
  <2> HIDE DEF S, h2
  <2> QED BY <1>3, <2>1
<1> HIDE DEF S, h2
<1>5. \A o \in DOMAIN h : o \in DOMAIN h2 /\ h2[o] = h[o]
  BY <1>1, <1>3, <1>4
<1>6. \A o \in DOMAIN h2 \ DOMAIN h : o - Len(h) \in 1 .. n /\ h2[o] = g[o - Len(h)]
  BY <1>1, <1>3, <1>4
<1>7. \A k \in 1 .. n : Len(h) + k \in DOMAIN h2 \ DOMAIN h
  BY <1>1, <1>4
<1>8. ASSUME NEW o \in DOMAIN h2  PROVE h2[o].table \in Tables /\ InHeap(h2, h2[o].table, h2[o])
  <2>1. CASE o \in DOMAIN h
    <3>1. h2[o] = h[o] /\ h[o].table \in Tables /\ InHeap(h, h[o].table, h[o])
      BY <1>5, <2>1 DEF IsHeap
    <3>2. InHeap(h2, h[o].table, h[o])
      BY <1>5, <3>1 DEF InHeap
    <3> QED BY <3>1, <3>2
  <2>2. CASE o \notin DOMAIN h
    <3>1. PICK k \in DOMAIN g : h2[o] = g[k]
      BY <1>6, <2>2
    <3>2. g[k] \in Object(t) /\ g[k].one = Nil /\ \A c \in Children(t) : g[k].many[c] = {}
      OBVIOUS
    <3>3. g[k].table = t
      BY <3>2 DEF Object
    <3> QED
      BY <3>1, <3>2, <3>3 DEF InHeap
  <2> QED BY <2>1, <2>2
<1>9. h2 \in Seq(Range(h2))
  BY <1>1, <1>4, FunctionIsSeq
<1>10. IsHeap(h2)
  BY <1>8, <1>9 DEF IsHeap
<1> QED
  BY <1>3, <1>5, <1>6, <1>7, <1>10 DEF h2, Extends

\* SetToSeq lists every element of a finite set once.
LEMMA ListsAll ==
  ASSUME NEW S, IsFiniteSet(S)
  PROVE  /\ Cardinality(S) \in Nat
         /\ DOMAIN SetToSeq(S) = 1 .. Cardinality(S)
         /\ SetToSeq(S) = [k \in DOMAIN SetToSeq(S) |-> SetToSeq(S)[k]]
         /\ \A k \in DOMAIN SetToSeq(S) : SetToSeq(S)[k] \in S
         /\ \A k, l \in DOMAIN SetToSeq(S) : SetToSeq(S)[k] = SetToSeq(S)[l] => k = l
         /\ \A x \in S : \E k \in DOMAIN SetToSeq(S) : SetToSeq(S)[k] = x
<1> DEFINE n == Cardinality(S)
           f == SetToSeq(S)
<1>1. n \in Nat /\ ExistsBijection(1 .. n, S)
  BY FS_CardinalityType
<1>2. \E g \in [1 .. n -> S] : IsInjective(g)
  BY <1>1 DEF ExistsBijection, Bijection, Injection
<1>3. f \in [1 .. n -> S] /\ IsInjective(f)
  <2> HIDE DEF n
  <2> QED BY <1>2 DEF SetToSeq, n
<1>4. IsFiniteSet(1 .. n) /\ Cardinality(1 .. n) = n
  BY <1>1, FS_Interval
<1>5. f \in Surjection(1 .. n, S)
  <2> HIDE DEF f
  <2>1. f \in Injection(1 .. n, S)
    BY <1>3 DEF Injection
  <2> QED BY <1>4, <2>1, FS_Injection
<1> HIDE DEF f, n
<1> QED
  BY <1>1, <1>3, <1>5 DEF IsInjective, Surjection, f, n

LEMMA RowIdsFinite ==
  ASSUME NEW S, S \subseteq RowIds
  PROVE  IsFiniteSet(S) /\ Cardinality(S) \in Nat
<1>1. IsFiniteSet(RowIds)
  BY FS_Interval, RecordsConstants DEF RowIds
<1> QED
  BY <1>1, FS_Subset, FS_CardinalityType

\* What a query scans: the heap with one new object for each row it finds, as
\* the row is, without relations.
News(h, h2) == DOMAIN h2 \ DOMAIN h

IsScan(h, t, S, tab, h2) ==
  /\ IsHeap(h2)
  /\ Len(h2) = Len(h) + Cardinality(S)
  /\ \A o \in DOMAIN h : o \in DOMAIN h2 /\ h2[o] = h[o]
  /\ \A o \in News(h, h2) :
       /\ h2[o].table = t /\ h2[o].id \in S /\ h2[o].row = tab[h2[o].id]
       /\ h2[o].one = Nil /\ \A c \in Children(t) : h2[o].many[c] = {}
  /\ \A i \in S : \E o \in News(h, h2) : h2[o].id = i
  /\ \A o, p \in News(h, h2) : h2[o].id = h2[p].id => o = p

LEMMA ScannedIsScan ==
  ASSUME NEW h, IsHeap(h), NEW t \in Tables, NEW tab, IsTable(t, tab), NEW ids
  PROVE  IsScan(h, t, ids \cap DOMAIN tab, tab, Scanned(h, t, ids, tab))
<1> DEFINE S == ids \cap DOMAIN tab
           found == SetToSeq(S)
           n == Cardinality(S)
           g == [k \in DOMAIN found |-> Fresh(t, found[k], tab)]
           h2 == h \o g
<1>1. /\ n \in Nat /\ DOMAIN found = 1 .. n
      /\ \A k \in DOMAIN found : found[k] \in S
      /\ \A k, l \in DOMAIN found : found[k] = found[l] => k = l
      /\ \A x \in S : \E k \in DOMAIN found : found[k] = x
  <2>1. S \subseteq RowIds
    BY DEF IsTable
  <2> HIDE DEF S
  <2> QED BY <2>1, RowIdsFinite, ListsAll
<1>2. Scanned(h, t, ids, tab) = h2
  BY DEF Scanned
<1>3. S \subseteq DOMAIN tab
  OBVIOUS
<1> HIDE DEF found, n, S
<1>4. \A k \in 1 .. n :
        /\ g[k] \in Object(t) /\ g[k].table = t /\ g[k].id = found[k]
        /\ g[k].row = tab[found[k]] /\ g[k].one = Nil
        /\ \A c \in Children(t) : g[k].many[c] = {}
  BY <1>1, <1>3, FreshTyped
<1>5. DOMAIN g = 1 .. n /\ g = [k \in DOMAIN g |-> g[k]]
  BY <1>1
<1> HIDE DEF g
<1>6. /\ IsHeap(h2) /\ Len(h2) = Len(h) + n
      /\ \A o \in DOMAIN h : o \in DOMAIN h2 /\ h2[o] = h[o]
      /\ \A o \in DOMAIN h2 \ DOMAIN h : o - Len(h) \in 1 .. n /\ h2[o] = g[o - Len(h)]
      /\ \A k \in 1 .. n : Len(h) + k \in DOMAIN h2 \ DOMAIN h
  <2>1. IsHeap(h2) /\ Extends(h, g, n, h2)
    BY <1>1, <1>4, <1>5, Appended
  <2> HIDE DEF h2
  <2> QED BY <2>1 DEF Extends
<1>7. Len(h) \in Nat /\ DOMAIN h = 1 .. Len(h) /\ DOMAIN h2 = 1 .. Len(h2)
  BY <1>6, HeapDomain
<1> HIDE DEF h2
<1>8. ASSUME NEW i \in S  PROVE \E o \in News(h, h2) : h2[o].id = i
  <2>1. PICK k \in 1 .. n : found[k] = i
    BY <1>1
  <2>2. Len(h) + k \in News(h, h2) /\ h2[Len(h) + k] = g[Len(h) + k - Len(h)]
    BY <1>6 DEF News
  <2>3. Len(h) + k - Len(h) = k
    BY <1>7
  <2> QED
    BY <1>4, <2>1, <2>2, <2>3
<1>9. ASSUME NEW o \in News(h, h2), NEW p \in News(h, h2), h2[o].id = h2[p].id
      PROVE  o = p
  <2>1. /\ o - Len(h) \in 1 .. n /\ h2[o] = g[o - Len(h)]
        /\ p - Len(h) \in 1 .. n /\ h2[p] = g[p - Len(h)]
    BY <1>6 DEF News
  <2>2. found[o - Len(h)] = found[p - Len(h)]
    BY <1>4, <1>9, <2>1
  <2>3. o - Len(h) = p - Len(h)
    BY <1>1, <2>1, <2>2
  <2>4. o \in Nat /\ p \in Nat
    BY <1>6, <1>7 DEF News
  <2> QED
    BY <1>7, <2>3, <2>4
<1>10. ASSUME NEW o \in News(h, h2)
       PROVE  /\ h2[o].table = t /\ h2[o].id \in S /\ h2[o].row = tab[h2[o].id]
              /\ h2[o].one = Nil /\ \A c \in Children(t) : h2[o].many[c] = {}
  <2> DEFINE k == o - Len(h)
  <2>1. k \in 1 .. n /\ h2[o] = g[k]
    BY <1>6 DEF News
  <2> HIDE DEF k
  <2> QED
    BY <1>1, <1>4, <2>1
<1> QED
  BY <1>2, <1>6, <1>8, <1>9, <1>10 DEF IsScan, S, n

\* The places of the new objects.
LEMMA NewInNews ==
  ASSUME NEW h, IsHeap(h), NEW h2, IsHeap(h2), Len(h) <= Len(h2)
  PROVE  /\ Range(NewIn(h, h2)) = News(h, h2)
         /\ DOMAIN NewIn(h, h2) = 1 .. Len(h2) - Len(h)
         /\ \A k \in DOMAIN NewIn(h, h2) : NewIn(h, h2)[k] = Len(h) + k
<1>1. /\ Len(h) \in Nat /\ DOMAIN h = 1 .. Len(h)
      /\ Len(h2) \in Nat /\ DOMAIN h2 = 1 .. Len(h2)
  BY HeapDomain
<1> DEFINE n == Len(h)
           m == Len(h2)
<1> HIDE DEF n, m
<1>2. NewIn(h, h2) = [k \in 1 .. m - n |-> n + k]
  BY DEF NewIn, n, m
<1>3. Range(NewIn(h, h2)) = {n + k : k \in 1 .. m - n}
  BY <1>2 DEF Range
<1>4. \A o \in (1 .. m) \ (1 .. n) : o - n \in 1 .. m - n /\ o = n + (o - n)
  BY <1>1 DEF n, m
<1>5. \A k \in 1 .. m - n : n + k \in (1 .. m) \ (1 .. n)
  BY <1>1 DEF n, m
<1>6. {n + k : k \in 1 .. m - n} = (1 .. m) \ (1 .. n)
  BY <1>4, <1>5
<1> QED
  BY <1>1, <1>2, <1>3, <1>6 DEF News, n, m

-----------------------------------------------------------------------------
(***************************************************************************)
(* The pointers that the methods set.                                      *)
(***************************************************************************)

ObjectsIn(h, t) == {o \in DOMAIN h : h[o].table = t}

\* Some objects of one table, in a row.
IsSlice(h, t, os) ==
  /\ Range(os) \subseteq ObjectsIn(h, t)
  /\ \E n \in Nat : DOMAIN os = 1 .. n

\* An object with other pointers of the right types is still in its heap.
IsPointed(x, y, one, many) ==
  y = [table |-> x.table, id |-> x.id, row |-> x.row, one |-> one, many |-> many]

SameRow(x, y) == y.table = x.table /\ y.id = x.id /\ y.row = x.row

LEMMA Pointing ==
  ASSUME NEW t, NEW x, x \in Object(t), NEW one, NEW many, NEW c, NEW S
  PROVE  /\ IsPointed(x, [x EXCEPT !.one = one], one, x.many)
         /\ IsPointed(x, [x EXCEPT !.one = one, !.many = many], one, many)
         /\ IsPointed(x, [x EXCEPT !.many[c] = S], x.one, [x.many EXCEPT ![c] = S])
<1>1. x = [table |-> x.table, id |-> x.id, row |-> x.row, one |-> x.one, many |-> x.many]
  BY DEF Object
<1>2. IsPointed(x, [x EXCEPT !.one = one], one, x.many)
  BY <1>1, SMT DEF IsPointed
<1>3. IsPointed(x, [x EXCEPT !.one = one, !.many = many], one, many)
  <2> DEFINE y == [x EXCEPT !.one = one]
             z == [y EXCEPT !.many = many]
  <2>1. [x EXCEPT !.one = one, !.many = many] = z
    OBVIOUS
  <2>2. y = [table |-> y.table, id |-> y.id, row |-> y.row, one |-> y.one, many |-> y.many]
        /\ y.table = x.table /\ y.id = x.id /\ y.row = x.row /\ y.one = one
    BY <1>2 DEF IsPointed
  <2> HIDE DEF y
  <2>3. z = [table |-> y.table, id |-> y.id, row |-> y.row, one |-> y.one, many |-> many]
    BY <2>2
  <2> HIDE DEF z
  <2> QED
    BY <2>1, <2>2, <2>3 DEF IsPointed
<1>4. IsPointed(x, [x EXCEPT !.many[c] = S], x.one, [x.many EXCEPT ![c] = S])
  BY <1>1, SMT DEF IsPointed
<1> QED
  BY <1>2, <1>3, <1>4

LEMMA Repointed ==
  ASSUME NEW h, IsHeap(h), NEW t, NEW x, InHeap(h, t, x), NEW one, NEW many,
         NEW y, IsPointed(x, y, one, many),
         one # Nil => t \in DOMAIN Parent /\ one \in ObjectsIn(h, Parent[t]),
         many = [c \in Children(t) |-> many[c]],
         \A c \in Children(t) : many[c] \subseteq ObjectsIn(h, c)
  PROVE  InHeap(h, t, y) /\ SameRow(x, y)
<1>1. x \in Object(t)
  BY DEF InHeap
<1>2. /\ y.one = one /\ y.many = many /\ y.id = x.id /\ y.row = x.row /\ y.table = x.table
  BY DEF IsPointed
<1>3. DOMAIN h \subseteq Nat
  BY HeapDomain
<1>4. one \in Nat
  BY <1>3 DEF Nil, ObjectsIn
<1>5. many \in [Children(t) -> SUBSET Nat]
  BY <1>3 DEF ObjectsIn
<1>6. y \in Object(t)
  BY <1>1, <1>4, <1>5 DEF Object, IsPointed
<1> QED
  BY <1>2, <1>6 DEF InHeap, ObjectsIn, SameRow

LEMMA RepointedOne ==
  ASSUME NEW h, IsHeap(h), NEW t, NEW x, InHeap(h, t, x), NEW one,
         NEW y, y = [x EXCEPT !.one = one],
         one # Nil => t \in DOMAIN Parent /\ one \in ObjectsIn(h, Parent[t])
  PROVE  InHeap(h, t, y) /\ SameRow(x, y) /\ y.one = one /\ y.many = x.many
<1>1. x \in Object(t)
  BY DEF InHeap
<1>2. IsPointed(x, y, one, x.many)
  BY <1>1, Pointing
<1>3. x.many = [c \in Children(t) |-> x.many[c]]
  BY <1>1 DEF Object
<1>4. \A c \in Children(t) : x.many[c] \subseteq ObjectsIn(h, c)
  BY DEF InHeap, ObjectsIn
<1>5. InHeap(h, t, y) /\ SameRow(x, y)
  BY <1>2, <1>3, <1>4, Repointed
<1> QED
  BY <1>2, <1>5 DEF IsPointed

WithMany(x, c, S) == [x EXCEPT !.many[c] = S]

LEMMA RepointedMany ==
  ASSUME NEW h, IsHeap(h), NEW t, NEW x, InHeap(h, t, x), NEW c \in Children(t), NEW S,
         NEW y, y = WithMany(x, c, S), S \subseteq ObjectsIn(h, c)
  PROVE  /\ InHeap(h, t, y) /\ SameRow(x, y) /\ y.one = x.one /\ y.many[c] = S
         /\ \A d \in Children(t) \ {c} : y.many[d] = x.many[d]
<1> DEFINE many == [x.many EXCEPT ![c] = S]
<1>1. x \in Object(t)
  BY DEF InHeap
<1>2. IsPointed(x, y, x.one, many)
  BY <1>1, Pointing DEF WithMany
<1>3. /\ many = [d \in Children(t) |-> many[d]] /\ many[c] = S
      /\ \A d \in Children(t) \ {c} : many[d] = x.many[d]
  BY <1>1 DEF Object
<1> HIDE DEF many
<1>4. \A d \in Children(t) : many[d] \subseteq ObjectsIn(h, d)
  BY <1>3 DEF InHeap, ObjectsIn
<1>5. x.one # Nil => t \in DOMAIN Parent /\ x.one \in ObjectsIn(h, Parent[t])
  BY DEF InHeap, ObjectsIn
<1>6. InHeap(h, t, y) /\ SameRow(x, y)
  BY <1>2, <1>3, <1>4, <1>5, Repointed
<1> QED
  BY <1>2, <1>3, <1>6 DEF IsPointed

\* A relation that is set: the objects and the parent point at each other, and
\* nothing else changes.
SameRows(h, h2) ==
  /\ Len(h2) = Len(h) /\ DOMAIN h2 = DOMAIN h
  /\ \A o \in DOMAIN h : SameRow(h[o], h2[o])

IsRelated(h, t, os, p, h2) ==
  /\ IsHeap(h2) /\ SameRows(h, h2)
  /\ \A o \in Range(os) : h2[o].one = p
  /\ Range(os) \subseteq h2[p].many[t]

LEMMA RelatedHeap ==
  ASSUME NEW h, IsHeap(h), NEW t \in DOMAIN Parent, NEW os, IsSlice(h, t, os), 1 \in DOMAIN os,
         NEW p \in ObjectsIn(h, Parent[t])
  PROVE  IsRelated(h, t, os, p, Related(h, os, p))
<1> DEFINE h2 == Related(h, os, p)
<1>1. h[os[1]].table = t
  BY DEF IsSlice, Range, ObjectsIn
<1>2. h2 = [o \in DOMAIN h |->
              CASE o = p -> [h[o] EXCEPT !.many[t] = @ \cup Range(os)]
                [] o # p /\ o \in Range(os) -> [h[o] EXCEPT !.one = p]
                [] OTHER -> h[o]]
  BY <1>1 DEF Related
<1>3. \A o \in Range(os) : o \in DOMAIN h /\ h[o].table = t /\ o # p
  BY LinkFacts DEF IsSlice, ObjectsIn
<1>4. \A o \in DOMAIN h : h[o].table \in Tables /\ InHeap(h, h[o].table, h[o])
  BY DEF IsHeap
<1>5. DOMAIN h2 = DOMAIN h /\ h2 = [o \in DOMAIN h2 |-> h2[o]]
  BY <1>2
<1>6. /\ InHeap(h, Parent[t], h2[p]) /\ Range(os) \subseteq h2[p].many[t]
      /\ SameRow(h[p], h2[p])
  <2> DEFINE S == h[p].many[t] \cup Range(os)
  <2>1. t \in Children(Parent[t]) /\ p \in DOMAIN h /\ h[p].table = Parent[t]
    BY LinkFacts DEF ObjectsIn
  <2>2. InHeap(h, Parent[t], h[p]) /\ S \subseteq ObjectsIn(h, t)
    BY <1>4, <2>1 DEF InHeap, IsSlice, ObjectsIn
  <2>3. h[p] \in Object(Parent[t])
    BY <2>2 DEF InHeap
  <2>4. h2[p] = [h[p] EXCEPT !.many[t] = S]
    BY <1>2, <2>1, <2>3 DEF Object
  <2>5. Range(os) \subseteq S
    OBVIOUS
  <2> HIDE DEF S, h2
  <2> DEFINE y == h2[p]
  <2>6. y = WithMany(h[p], t, S)
    BY <2>4 DEF WithMany
  <2> HIDE DEF y
  <2>7. InHeap(h, Parent[t], y) /\ SameRow(h[p], y) /\ y.many[t] = S
    BY <2>1, <2>2, <2>6, RepointedMany
  <2> QED BY <2>5, <2>7 DEF y
<1>7. ASSUME NEW o \in Range(os)
      PROVE  /\ InHeap(h, t, h2[o]) /\ h2[o].one = p
             /\ h2[o].table = h[o].table /\ h2[o].id = h[o].id /\ h2[o].row = h[o].row
  <2>1. h2[o] = [h[o] EXCEPT !.one = p] /\ InHeap(h, t, h[o])
    BY <1>2, <1>3, <1>4
  <2> HIDE DEF h2
  <2> QED BY <2>1, RepointedOne
<1>8. \A o \in DOMAIN h : o # p /\ o \notin Range(os) => h2[o] = h[o]
  BY <1>2
<1>9. p \in DOMAIN h /\ h[p].table = Parent[t]
  BY DEF ObjectsIn
<1> HIDE DEF h2
<1>10. \A o \in DOMAIN h : InHeap(h, h[o].table, h2[o])
  BY <1>3, <1>4, <1>6, <1>7, <1>8, <1>9
<1>11. IsHeap(h2) /\ Len(h2) = Len(h)
  BY <1>5, <1>10, Rewired
<1>12. SameRows(h, h2)
  BY <1>3, <1>5, <1>6, <1>7, <1>8, <1>9, <1>11 DEF SameRows, SameRow
<1> QED
  BY <1>6, <1>7, <1>11, <1>12 DEF h2, IsRelated

\* What is retrieved again for a slice: the rows of the objects do not change,
\* an object of the slice is replaced by a new one of its id if there is one,
\* and the new one has the relations of the one it is the only match of.
IsCopy(os, h, from, copied) ==
  /\ IsHeap(copied.heap) /\ SameRows(h, copied.heap)
  /\ DOMAIN copied.slice = DOMAIN os
  /\ \A k \in DOMAIN os :
       IF \E o \in Range(from) : h[o].id = h[os[k]].id
       THEN copied.slice[k] \in Range(from) /\ h[copied.slice[k]].id = h[os[k]].id
       ELSE copied.slice[k] = os[k]
  /\ \A o \in DOMAIN h \ Range(from) : copied.heap[o] = h[o]
  /\ \A o \in Range(from), k \in DOMAIN os :
       Match(os, h, o) = {k} =>
         /\ copied.heap[o].one = h[os[k]].one /\ copied.heap[o].many = h[os[k]].many

LEMMA CopyIsCopy ==
  ASSUME NEW h, IsHeap(h), NEW t \in Tables, NEW os, IsSlice(h, t, os),
         NEW from, Range(from) \subseteq ObjectsIn(h, t)
  PROVE  IsCopy(os, h, from, CopyMatchingRows(os, h, from))
<1> DEFINE R == Range(from)
           M(o) == Match(os, h, o)
           old(o) == h[os[Max(M(o))]]
           slice == [i \in DOMAIN os |-> IF \E o \in R : i \in M(o)
                                         THEN CHOOSE o \in R : i \in M(o) ELSE os[i]]
           h2 == [o \in DOMAIN h |->
                    IF o \in R /\ M(o) # {}
                    THEN [h[o] EXCEPT !.one = old(o).one, !.many = old(o).many]
                    ELSE h[o]]
<1>1. CopyMatchingRows(os, h, from) = [slice |-> slice, heap |-> h2]
  BY DEF CopyMatchingRows
<1>2. \A o : M(o) = {i \in DOMAIN os : h[os[i]].id = h[o].id}
  BY DEF Match
<1>3. \A k \in DOMAIN os : os[k] \in DOMAIN h /\ h[os[k]].table = t
  BY DEF IsSlice, Range, ObjectsIn
<1>4. \A o \in R : o \in DOMAIN h /\ h[o].table = t
  BY DEF ObjectsIn
<1>5. \A o \in DOMAIN h : h[o].table \in Tables /\ InHeap(h, h[o].table, h[o])
  BY DEF IsHeap
<1>6. ASSUME NEW o, M(o) # {}  PROVE Max(M(o)) \in M(o)
  <2>1. PICK n \in Nat : DOMAIN os = 1 .. n
    BY DEF IsSlice
  <2>2. M(o) \in SUBSET Nat /\ \A x \in M(o) : x <= n
    BY <1>2, <2>1
  <2> HIDE DEF M
  <2> QED BY <1>6, <2>2, MaxOfBounded
<1>7. ASSUME NEW o \in R, M(o) # {}
      PROVE  /\ InHeap(h, t, h2[o]) /\ SameRow(h[o], h2[o])
             /\ h2[o].one = old(o).one /\ h2[o].many = old(o).many
  <2> DEFINE x == h[o]
             y == h2[o]
             w == old(o)
  <2>1. Max(M(o)) \in DOMAIN os
    BY <1>2, <1>6, <1>7
  <2>2. InHeap(h, t, x) /\ InHeap(h, t, w)
    BY <1>3, <1>4, <1>5, <2>1
  <2>3. x \in Object(t) /\ w \in Object(t)
    BY <2>2 DEF InHeap
  <2>4. y = [x EXCEPT !.one = w.one, !.many = w.many]
    BY <1>4, <1>7
  <2> HIDE DEF x, y, w
  <2>5. IsPointed(x, y, w.one, w.many)
    BY <2>3, <2>4, Pointing
  <2>6. w.many = [c \in Children(t) |-> w.many[c]]
    BY <2>3 DEF Object
  <2>7. /\ w.one # Nil => t \in DOMAIN Parent /\ w.one \in ObjectsIn(h, Parent[t])
        /\ \A c \in Children(t) : w.many[c] \subseteq ObjectsIn(h, c)
    BY <2>2 DEF InHeap, ObjectsIn
  <2>8. InHeap(h, t, y) /\ SameRow(x, y)
    BY <2>2, <2>5, <2>6, <2>7, Repointed
  <2>9. y.one = w.one /\ y.many = w.many
    BY <2>5 DEF IsPointed
  <2> QED
    BY <2>8, <2>9 DEF x, y, w
<1>8. \A o \in DOMAIN h : ~(o \in R /\ M(o) # {}) => h2[o] = h[o]
  OBVIOUS
<1>9. DOMAIN h2 = DOMAIN h /\ h2 = [o \in DOMAIN h2 |-> h2[o]]
  OBVIOUS
<1>10. \A k \in DOMAIN os :
         IF \E o \in R : k \in M(o) THEN slice[k] \in R /\ k \in M(slice[k]) ELSE slice[k] = os[k]
  <2> HIDE DEF M
  <2> QED OBVIOUS
<1>11. DOMAIN slice = DOMAIN os
  OBVIOUS
<1> HIDE DEF h2, slice
<1>12. \A o \in DOMAIN h : InHeap(h, h[o].table, h2[o]) /\ SameRow(h[o], h2[o])
  <2> HIDE DEF M, old, R
  <2> QED BY <1>4, <1>5, <1>7, <1>8 DEF SameRow
<1>13. IsHeap(h2) /\ Len(h2) = Len(h)
  BY <1>9, <1>12, Rewired
<1>14. SameRows(h, h2)
  BY <1>9, <1>12, <1>13 DEF SameRows
<1>15. ASSUME NEW o \in R, NEW k \in DOMAIN os, M(o) = {k}
       PROVE  h2[o].one = h[os[k]].one /\ h2[o].many = h[os[k]].many
  <2>1. Max(M(o)) = k /\ M(o) # {}
    BY <1>6, <1>15
  <2> QED
    BY <1>7, <2>1
<1>16. \A k \in DOMAIN os :
         IF \E o \in R : h[o].id = h[os[k]].id
         THEN slice[k] \in R /\ h[slice[k]].id = h[os[k]].id ELSE slice[k] = os[k]
  <2>1. \A k \in DOMAIN os : \A o : k \in M(o) <=> h[os[k]].id = h[o].id
    BY <1>2
  <2> HIDE DEF M, R
  <2> QED BY <1>10, <2>1
<1> DEFINE copied == [slice |-> slice, heap |-> h2]
<1>17. copied.slice = slice /\ copied.heap = h2
  OBVIOUS
<1> HIDE DEF copied
<1>18. IsCopy(os, h, from, copied)
  BY <1>8, <1>11, <1>13, <1>14, <1>15, <1>16, <1>17 DEF IsCopy
<1> QED
  BY <1>1, <1>18 DEF copied

\* An object that was read again, in its place.
IsRenewed(h, o, id, row, h2) ==
  /\ IsHeap(h2) /\ DOMAIN h2 = DOMAIN h
  /\ h2[o].table = h[o].table /\ h2[o].id = id /\ h2[o].row = row
  /\ \A q \in DOMAIN h \ {o} : h2[q] = h[q]

LEMMA UpdateSetsRenews ==
  ASSUME NEW h, IsHeap(h), NEW o \in DOMAIN h, NEW t \in Tables, h[o].table = t,
         NEW tab, IsTable(t, tab), NEW s,
         NEW id \in DOMAIN tab, id = IF Key(t) \in DOMAIN s THEN s[Key(t)] ELSE h[o].id
  PROVE  IsRenewed(h, o, id, tab[id], UpdateSets(h, o, tab, s))
<1> DEFINE h2 == UpdateSets(h, o, tab, s)
           y == Fresh(t, id, tab)
<1>1. h2 = [h EXCEPT ![o] = y]
  BY DEF UpdateSets
<1>2. /\ y \in Object(t) /\ y.table = t /\ y.id = id /\ y.row = tab[id] /\ y.one = Nil
      /\ \A c \in Children(t) : y.many[c] = {}
  BY FreshTyped
<1> HIDE DEF y, h2
<1>3. InHeap(h, t, y)
  BY <1>2 DEF InHeap
<1>4. DOMAIN h2 = DOMAIN h /\ h2 = [q \in DOMAIN h2 |-> h2[q]] /\ h2[o] = y
      /\ \A q \in DOMAIN h \ {o} : h2[q] = h[q]
  BY <1>1
<1>5. \A q \in DOMAIN h : InHeap(h, h[q].table, h2[q])
  BY <1>3, <1>4 DEF IsHeap
<1>6. IsHeap(h2)
  BY <1>4, <1>5, Rewired
<1> QED
  BY <1>2, <1>4, <1>6 DEF IsRenewed, h2

\* Reload changes the row alone.
Reread(h, o, row) == [h EXCEPT ![o].row = row]

LEMMA ReloadRenews ==
  ASSUME NEW h, IsHeap(h), NEW o \in DOMAIN h, NEW row \in Row(h[o].table),
         NEW h2, h2 = Reread(h, o, row)
  PROVE  /\ IsRenewed(h, o, h[o].id, row, h2)
         /\ h2[o].one = h[o].one /\ h2[o].many = h[o].many
<1> DEFINE t == h[o].table
           y == [h[o] EXCEPT !.row = row]
<1>1. InHeap(h, t, h[o]) /\ h[o] \in Object(t)
  BY DEF IsHeap, InHeap
<1>2. /\ y.table = t /\ y.id = h[o].id /\ y.row = row
      /\ y.one = h[o].one /\ y.many = h[o].many
  BY <1>1 DEF Object
<1>3. y \in Object(t)
  BY <1>1 DEF Object
<1>4. DOMAIN h2 = DOMAIN h /\ h2 = [q \in DOMAIN h2 |-> h2[q]] /\ h2[o] = y
      /\ \A q \in DOMAIN h \ {o} : h2[q] = h[q]
  BY DEF y, Reread
<1> HIDE DEF y
<1>5. InHeap(h, t, y)
  BY <1>1, <1>2, <1>3 DEF InHeap
<1>6. \A q \in DOMAIN h : InHeap(h, h[q].table, h2[q])
  BY <1>4, <1>5 DEF IsHeap
<1>7. IsHeap(h2)
  BY <1>4, <1>6, Rewired
<1> QED
  BY <1>2, <1>4, <1>7 DEF IsRenewed

\* Relations that are read: pointers to the parent and pointers to the children.
WithOne(x, p) == [x EXCEPT !.one = p]

LEMMA PointedFields ==
  ASSUME NEW t, NEW x, x \in Object(t), NEW p, NEW c \in Children(t), NEW S
  PROVE  /\ WithOne(x, p).one = p /\ WithOne(x, p).many = x.many /\ SameRow(x, WithOne(x, p))
         /\ WithMany(x, c, S).many[c] = S /\ WithMany(x, c, S).one = x.one
         /\ SameRow(x, WithMany(x, c, S))
<1>1. IsPointed(x, WithOne(x, p), p, x.many)
  BY Pointing DEF WithOne
<1>2. IsPointed(x, WithMany(x, c, S), x.one, [x.many EXCEPT ![c] = S])
  BY Pointing DEF WithMany
<1>3. [x.many EXCEPT ![c] = S][c] = S
  BY DEF Object
<1> QED
  BY <1>1, <1>2, <1>3 DEF IsPointed, SameRow

IsRelinked(h, t, x, y) ==
  \/ y = x
  \/ x.table = t /\ \E p \in ObjectsIn(h, Parent[t]) \cup {Nil} : y = WithOne(x, p)
  \/ x.table = Parent[t] /\ \E S \in SUBSET ObjectsIn(h, t) : y = WithMany(x, t, S)

LEMMA Relinked ==
  ASSUME NEW h, IsHeap(h), NEW t \in DOMAIN Parent, NEW h2, DOMAIN h2 = DOMAIN h,
         h2 = [o \in DOMAIN h2 |-> h2[o]],
         \A o \in DOMAIN h : IsRelinked(h, t, h[o], h2[o])
  PROVE  IsHeap(h2) /\ SameRows(h, h2)
<1>1. ASSUME NEW o \in DOMAIN h
      PROVE  InHeap(h, h[o].table, h2[o]) /\ SameRow(h[o], h2[o])
  <2> DEFINE x == h[o]
             y == h2[o]
             u == x.table
  <2>1. InHeap(h, u, x) /\ IsRelinked(h, t, x, y)
    BY DEF IsHeap
  <2> HIDE DEF x, y
  <2>2. ASSUME y = x  PROVE InHeap(h, u, y) /\ SameRow(x, y)
    BY <2>1, <2>2 DEF SameRow
  <2>3. ASSUME u = t, NEW p \in ObjectsIn(h, Parent[t]) \cup {Nil}, y = WithOne(x, p)
        PROVE  InHeap(h, u, y) /\ SameRow(x, y)
    <3>1. y = [x EXCEPT !.one = p]
      BY <2>3 DEF WithOne
    <3>2. p # Nil => u \in DOMAIN Parent /\ p \in ObjectsIn(h, Parent[u])
      BY <2>3
    <3> HIDE DEF u
    <3> QED BY <2>1, <3>1, <3>2, RepointedOne
  <2>4. ASSUME u = Parent[t], NEW S \in SUBSET ObjectsIn(h, t), y = WithMany(x, t, S)
        PROVE  InHeap(h, u, y) /\ SameRow(x, y)
    <3>1. t \in Children(u)
      BY <2>4, LinkFacts
    <3> HIDE DEF u
    <3> QED BY <2>1, <2>4, <3>1, RepointedMany
  <2>5. InHeap(h, u, y) /\ SameRow(x, y)
    BY <2>1, <2>2, <2>3, <2>4 DEF IsRelinked
  <2> QED BY <2>5 DEF x, y
<1>2. IsHeap(h2) /\ Len(h2) = Len(h)
  BY <1>1, Rewired
<1> QED
  BY <1>1, <1>2 DEF SameRows

-----------------------------------------------------------------------------
(***************************************************************************)
(* The state.                                                              *)
(***************************************************************************)

HalfTyped == half # <<>> => \E t \in DOMAIN Parent : half \in Objects(t) \X Objects(Parent[t])

Typed ==
  /\ DOMAIN db = Tables /\ \A t \in Tables : IsTable(t, db[t])
  /\ IsHeap(heap)
  /\ HalfTyped
  /\ calls \in 0 .. MaxCalls

LEMMA TypedIsTypeOK == Typed <=> TypeOK
<1>1. IsHeap(heap) <=>
        /\ heap \in Seq(Range(heap))
        /\ \A o \in DOMAIN heap :
             LET x == heap[o]
             IN /\ x.table \in Tables /\ x \in Object(x.table)
                /\ x.one # Nil => x.table \in DOMAIN Parent /\ x.one \in Objects(Parent[x.table])
                /\ \A c \in Children(x.table) : x.many[c] \subseteq Objects(c)
  BY DEF IsHeap, InHeap, Objects
<1>2. (\A t \in Tables : IsTable(t, db[t])) <=> IsTables(db)
  BY DEF IsTable, IsTables
<1> QED
  BY <1>1, <1>2 DEF Typed, TypeOK, HalfTyped

\* The objects there were are there still.
Kept(h, h2) == \A o \in DOMAIN h : o \in DOMAIN h2 /\ h2[o].table = h[o].table

LEMMA ScanKeeps ==
  ASSUME NEW h, NEW t, NEW S, NEW tab, NEW h2, IsScan(h, t, S, tab, h2)
  PROVE  IsHeap(h2) /\ Kept(h, h2) /\ News(h, h2) \subseteq ObjectsIn(h2, t)
  BY DEF IsScan, Kept, News, ObjectsIn

LEMMA KeptKept ==
  ASSUME NEW h, NEW h2, NEW h3, Kept(h, h2), SameRows(h2, h3)
  PROVE  Kept(h, h3)
  BY DEF Kept, SameRows, SameRow

\* A slice that a caller may hand over: it has a first object if it has any, and
\* if as many ids as objects, no id twice.
LEMMA SliceFacts ==
  ASSUME NEW t, NEW os \in Slices(t)
  PROVE  /\ IsSlice(heap, t, os)
         /\ os = <<>> => DOMAIN os = {} /\ Range(os) = {}
         /\ os # <<>> => 1 \in DOMAIN os
         /\ Cardinality(IdsOf(os)) = Len(os) =>
              \A k, l \in DOMAIN os : heap[os[k]].id = heap[os[l]].id => k = l
<1>1. CASE os = <<>>
  <2>1. DOMAIN os = {} /\ DOMAIN os = 1 .. 0
    BY <1>1
  <2> QED
    BY <1>1, <2>1 DEF IsSlice, Range
<1>2. ASSUME NEW o \in Objects(t), os = <<o>>
      PROVE  /\ IsSlice(heap, t, os) /\ 1 \in DOMAIN os /\ os # <<>>
             /\ \A k, l \in DOMAIN os : k = l
  <2>1. DOMAIN os = 1 .. 1 /\ os[1] = o /\ os # <<>>
    BY <1>2
  <2> QED
    BY <2>1 DEF IsSlice, Range, Objects, ObjectsIn
<1>3. ASSUME os \in Objects(t) \X Objects(t)
      PROVE  /\ IsSlice(heap, t, os) /\ 1 \in DOMAIN os /\ os # <<>>
             /\ Cardinality(IdsOf(os)) = Len(os) =>
                  \A k, l \in DOMAIN os : heap[os[k]].id = heap[os[l]].id => k = l
  <2>1. PICK a \in Objects(t), b \in Objects(t) : os = <<a, b>>
    BY <1>3
  <2>2. DOMAIN os = {1, 2} /\ DOMAIN os = 1 .. 2 /\ os[1] = a /\ os[2] = b /\ Len(os) = 2
        /\ os # <<>>
    BY <2>1
  <2>3. Range(os) = {a, b}
    BY <2>2 DEF Range
  <2>4. IdsOf(os) = {heap[a].id, heap[b].id}
    BY <2>3 DEF IdsOf
  <2>5. heap[a].id = heap[b].id => Cardinality(IdsOf(os)) = 1
    <3>1. SUFFICES ASSUME heap[a].id = heap[b].id  PROVE Cardinality(IdsOf(os)) = 1
      OBVIOUS
    <3>2. PICK i : i = heap[a].id
      OBVIOUS
    <3>3. IdsOf(os) = {i}
      BY <2>4, <3>1, <3>2
    <3> QED
      BY <3>3, FS_Singleton
  <2> QED
    BY <2>2, <2>3, <2>5 DEF IsSlice, Objects, ObjectsIn
<1> QED
  BY <1>1, <1>2, <1>3 DEF Slices

\* A slice whose rows are queried again and copied into it: where the query
\* finds the row, the object has it, and its relations if no other object of the
\* slice is of that row; where it does not, the object is the one it was.
IsRefreshed(h, t, os, S, tab, copied) ==
  LET h2 == copied.heap
      new == copied.slice
  IN /\ IsHeap(h2) /\ Kept(h, h2)
     /\ \A o \in DOMAIN h : h2[o] = h[o]
     /\ IsSlice(h2, t, new) /\ DOMAIN new = DOMAIN os
     /\ \A k \in DOMAIN os :
          /\ h2[new[k]].id = h[os[k]].id
          /\ IF h[os[k]].id \in S THEN h2[new[k]].row = tab[h[os[k]].id] ELSE new[k] = os[k]
     /\ (\A k, l \in DOMAIN os : h[os[k]].id = h[os[l]].id => k = l) =>
          \A k \in DOMAIN os :
            h2[new[k]].one = h[os[k]].one /\ h2[new[k]].many = h[os[k]].many

LEMMA Refreshed ==
  ASSUME NEW h, IsHeap(h), NEW t \in Tables, NEW tab, IsTable(t, tab), NEW ids,
         NEW os, IsSlice(h, t, os),
         NEW h1, h1 = Scanned(h, t, ids, tab),
         NEW copied, copied = CopyMatchingRows(os, h1, NewIn(h, h1))
  PROVE  IsRefreshed(h, t, os, ids \cap DOMAIN tab, tab, copied)
<1> DEFINE S == ids \cap DOMAIN tab
           h2 == copied.heap
           new == copied.slice
           from == NewIn(h, h1)
<1>1. IsScan(h, t, S, tab, h1)
  BY ScannedIsScan
<1> HIDE DEF S
<1>2. IsHeap(h1) /\ Len(h) <= Len(h1)
  <2>1. Len(h) \in Nat /\ Len(h1) \in Nat /\ DOMAIN h = 1 .. Len(h) /\ DOMAIN h1 = 1 .. Len(h1)
    BY <1>1, HeapDomain DEF IsScan
  <2>2. \A o \in 1 .. Len(h) : o \in 1 .. Len(h1)
    BY <1>1, <2>1 DEF IsScan
  <2>3. Len(h) = 0 \/ Len(h) \in 1 .. Len(h)
    BY <2>1
  <2>4. Len(h) <= Len(h1)
    BY <2>1, <2>2, <2>3
  <2> QED BY <1>1, <2>4 DEF IsScan
<1>3. Range(from) = News(h, h1)
  BY <1>2, NewInNews
<1>4. Range(from) \subseteq ObjectsIn(h1, t) /\ Kept(h, h1)
  BY <1>1, <1>3, ScanKeeps
<1>5. \A o \in DOMAIN h : o \in DOMAIN h1 /\ h1[o] = h[o] /\ o \notin Range(from)
  BY <1>1, <1>3 DEF IsScan, News
<1>6. IsSlice(h1, t, os)
  BY <1>5 DEF IsSlice, ObjectsIn
<1>7. IsCopy(os, h1, from, copied)
  <2> HIDE DEF from
  <2>1. copied = CopyMatchingRows(os, h1, from)
    BY DEF from
  <2> QED BY <1>2, <1>4, <1>6, <2>1, CopyIsCopy
<1>8. \A k \in DOMAIN os : os[k] \in DOMAIN h
  BY DEF IsSlice, Range, ObjectsIn
<1> HIDE DEF h2, new, from
<1>9. /\ IsHeap(h2) /\ SameRows(h1, h2) /\ DOMAIN new = DOMAIN os
      /\ \A k \in DOMAIN os :
           IF \E o \in Range(from) : h1[o].id = h1[os[k]].id
           THEN new[k] \in Range(from) /\ h1[new[k]].id = h1[os[k]].id
           ELSE new[k] = os[k]
      /\ \A o \in DOMAIN h1 \ Range(from) : h2[o] = h1[o]
      /\ \A o \in Range(from), k \in DOMAIN os :
           Match(os, h1, o) = {k} =>
             /\ h2[o].one = h1[os[k]].one /\ h2[o].many = h1[os[k]].many
  BY <1>7 DEF IsCopy, h2, new
<1>10. \A o \in DOMAIN h : h2[o] = h[o]
  BY <1>5, <1>9
<1>11. \A k \in DOMAIN os : h1[os[k]] = h[os[k]]
  BY <1>5, <1>8
<1>12. \A o \in Range(from) :
         /\ o \in DOMAIN h1 /\ h1[o].table = t /\ h1[o].id \in S /\ h1[o].row = tab[h1[o].id]
  BY <1>1, <1>3 DEF IsScan, News
<1>13. \A o \in DOMAIN h1 : o \in DOMAIN h2 /\ h2[o].table = h1[o].table /\ h2[o].id = h1[o].id /\ h2[o].row = h1[o].row
  BY <1>9 DEF SameRows, SameRow
<1>14. ASSUME NEW k \in DOMAIN os
       PROVE  /\ new[k] \in DOMAIN h2 /\ h2[new[k]].table = t
              /\ h2[new[k]].id = h[os[k]].id
              /\ IF h[os[k]].id \in S
                 THEN new[k] \in Range(from) /\ h2[new[k]].row = tab[h[os[k]].id]
                 ELSE new[k] = os[k]
  <2>1. CASE h[os[k]].id \in S
    <3>1. PICK o \in Range(from) : h1[o].id = h1[os[k]].id
      BY <1>1, <1>3, <1>11, <2>1 DEF IsScan
    <3>2. new[k] \in Range(from) /\ h1[new[k]].id = h1[os[k]].id
      BY <1>9, <3>1
    <3> QED
      BY <1>11, <1>12, <1>13, <2>1, <3>2
  <2>2. CASE h[os[k]].id \notin S
    <3>1. ~ \E o \in Range(from) : h1[o].id = h1[os[k]].id
      BY <1>11, <1>12, <2>2
    <3>2. new[k] = os[k]
      BY <1>9, <3>1
    <3>3. os[k] \in DOMAIN h2 /\ h2[os[k]] = h[os[k]] /\ h[os[k]].table = t
      BY <1>5, <1>8, <1>10, <1>13 DEF IsSlice, Range, ObjectsIn
    <3> QED
      BY <2>2, <3>2, <3>3
  <2> QED
    BY <2>1, <2>2
<1>15. IsSlice(h2, t, new)
  <2>1. PICK n \in Nat : DOMAIN os = 1 .. n
    BY DEF IsSlice
  <2>2. \A o \in Range(new) : \E k \in DOMAIN os : o = new[k]
    BY <1>9 DEF Range
  <2> QED
    BY <1>9, <1>14, <2>1, <2>2 DEF IsSlice, ObjectsIn
<1>16. ASSUME \A k, l \in DOMAIN os : h[os[k]].id = h[os[l]].id => k = l, NEW k \in DOMAIN os
       PROVE  h2[new[k]].one = h[os[k]].one /\ h2[new[k]].many = h[os[k]].many
  <2>1. CASE h[os[k]].id \in S
    <3>1. new[k] \in Range(from) /\ h1[new[k]].id = h[os[k]].id
      BY <1>12, <1>13, <1>14, <2>1
    <3>2. \A l \in DOMAIN os : h1[os[l]].id = h1[new[k]].id <=> l = k
      BY <1>11, <1>16, <3>1
    <3>3. Match(os, h1, new[k]) = {k}
      BY <3>2 DEF Match
    <3> QED
      BY <1>9, <1>11, <3>1, <3>3
  <2>2. CASE h[os[k]].id \notin S
    BY <1>8, <1>10, <1>14, <2>2
  <2> QED
    BY <2>1, <2>2
<1>17. Kept(h, h2)
  BY <1>4, <1>9, KeptKept
<1> QED
  BY <1>9, <1>10, <1>14, <1>15, <1>16, <1>17 DEF IsRefreshed, h2, new, S

\* What is left of a slice that was updated or reloaded: each object has its id,
\* and its row if there is one.
IsRenewedAll(h, t, os, tab, copied) ==
  LET h2 == copied.heap
      new == copied.slice
  IN /\ IsHeap(h2) /\ Kept(h, h2)
     /\ \A o \in DOMAIN h : h2[o] = h[o]
     /\ IsSlice(h2, t, new) /\ DOMAIN new = DOMAIN os
     /\ \A k \in DOMAIN os :
          /\ h2[new[k]].id = h[os[k]].id
          /\ h[os[k]].id \in DOMAIN tab => h2[new[k]].row = tab[h[os[k]].id]
     /\ (\A k, l \in DOMAIN os : h[os[k]].id = h[os[l]].id => k = l) =>
          \A k \in DOMAIN os :
            h2[new[k]].one = h[os[k]].one /\ h2[new[k]].many = h[os[k]].many

LEMMA RefreshedRenewed ==
  ASSUME NEW h, NEW t, NEW os, NEW S, NEW tab, NEW copied,
         IsRefreshed(h, t, os, S, tab, copied),
         \A k \in DOMAIN os : h[os[k]].id \in DOMAIN tab => h[os[k]].id \in S
  PROVE  IsRenewedAll(h, t, os, tab, copied)
  BY DEF IsRefreshed, IsRenewedAll

\* Rows that a statement does not name are left as they are.
Leaves(tab, ids, new) == \A i \in DOMAIN tab \ ids : i \in DOMAIN new /\ new[i] = tab[i]

LEMMA UpdatedLeaves ==
  ASSUME NEW t \in Tables, NEW tab, NEW ids, NEW s,
         Key(t) \notin DOMAIN s \/ Updatable(t, tab, ids, s)
  PROVE  Leaves(tab, ids, Updated(t, tab, ids, s))
<1> DEFINE new == Updated(t, tab, ids, s)
<1>1. CASE Key(t) \notin DOMAIN s
  BY <1>1, UpdatedInPlace DEF Leaves
<1>2. CASE Key(t) \in DOMAIN s
  <2>1. FindsNone(t, tab, ids, new) \/ \E i : MovesOne(t, tab, ids, s, new, i)
    BY <1>2, UpdatedMoves
  <2> HIDE DEF new
  <2>2. CASE FindsNone(t, tab, ids, new)
    BY <2>2 DEF FindsNone, Leaves, new
  <2>3. ASSUME NEW i, MovesOne(t, tab, ids, s, new, i)  PROVE Leaves(tab, ids, new)
    BY <2>3 DEF MovesOne, Leaves
  <2> QED
    BY <2>1, <2>2, <2>3 DEF new
<1> QED
  BY <1>1, <1>2

LEMMA UpdateAllRenews ==
  ASSUME Typed, NEW t \in Tables, NEW os \in Slices(t),
         NEW s, s \in SetterOf(t, DOMAIN s),
         Key(t) \notin DOMAIN s \/ Updatable(t, db[t], PkIN(os), s),
         NEW all, all = UpdateAllOf(t, os, s)
  PROVE  /\ IsTable(t, all.tab) /\ Leaves(db[t], PkIN(os), all.tab)
         /\ all.tab = Updated(t, db[t], PkIN(os), s)
         /\ IsRenewedAll(heap, t, os, all.tab, all.copied)
<1> DEFINE ids == IF Key(t) \in DOMAIN s /\ PkIN(os) \cap DOMAIN db[t] # {}
                  THEN {s[Key(t)]} ELSE PkIN(os)
           tab == Updated(t, db[t], PkIN(os), s)
           h1 == Scanned(heap, t, ids, tab)
           copied == CopyMatchingRows(os, h1, NewIn(heap, h1))
<1>1. all.tab = tab /\ all.copied = copied
  <2>1. Expressions(t, db[t], PkIN(os), s) = tab
    BY StatementFacts
  <2> QED
    BY <2>1 DEF UpdateAllOf
<1>2. IsTable(t, db[t])
  BY DEF Typed
<1>3. IsTable(t, tab) /\ Leaves(db[t], PkIN(os), tab)
  <2>1. IsTable(t, tab)
    BY <1>2, UpdatedTyped
  <2>2. Leaves(db[t], PkIN(os), tab)
    BY UpdatedLeaves
  <2> QED BY <2>1, <2>2
<1>4. IsHeap(heap) /\ IsSlice(heap, t, os)
  BY SliceFacts DEF Typed
<1>5. \A k \in DOMAIN os : heap[os[k]].id \in PkIN(os)
  BY DEF PkIN, IdsOf, Range
<1>6. ASSUME NEW i \in PkIN(os), i \in DOMAIN tab  PROVE i \in ids
  <2>1. CASE Key(t) \notin DOMAIN s
    BY <2>1
  <2>2. CASE Key(t) \in DOMAIN s
    <3> DEFINE old == db[t]
               k == s[Key(t)]
    <3>1. FindsNone(t, old, PkIN(os), tab) \/ \E j : MovesOne(t, old, PkIN(os), s, tab, j)
      BY <2>2, UpdatedMoves
    <3> HIDE DEF tab, old
    <3>2. CASE FindsNone(t, old, PkIN(os), tab)
      BY <1>6, <3>2 DEF FindsNone, old
    <3>3. ASSUME NEW j, MovesOne(t, old, PkIN(os), s, tab, j)  PROVE i \in ids
      BY <1>6, <2>2, <3>3 DEF MovesOne, old
    <3> QED
      BY <3>1, <3>2, <3>3
  <2> QED
    BY <2>1, <2>2
<1> HIDE DEF tab, ids
<1>7. IsRefreshed(heap, t, os, ids \cap DOMAIN tab, tab, copied)
  BY <1>3, <1>4, Refreshed
<1>8. IsRenewedAll(heap, t, os, tab, copied)
  <2> HIDE DEF copied
  <2> QED BY <1>5, <1>6, <1>7, RefreshedRenewed
<1> QED
  BY <1>1, <1>3, <1>8 DEF tab

-----------------------------------------------------------------------------
(***************************************************************************)
(* A step.                                                                 *)
(***************************************************************************)

\* What the properties say of one step.
OnlyNamed ==
  out'.call # "elsewhere" =>
    \A t \in Tables : \A id \in DOMAIN db[t] :
      Changed(t, id) =>
        \E o \in Range(out'.given) : heap[o].table = t /\ heap[o].id = id

Acked ==
  out'.parent # Nil =>
    \A o \in Range(out'.slice) :
      LET c == heap'[o]
          p == heap'[out'.parent]
      IN /\ c.one = out'.parent
         /\ o \in p.many[c.table]
         /\ c.id \in DOMAIN db'[c.table] =>
              db'[c.table][c.id][Link(c.table)] = p.id

Renewed ==
  ~out'.err =>
    /\ out'.call \in {"update", "reload", "updateAll", "reloadAll", "attach"} =>
         \A o \in Range(out'.slice) :
           LET x == heap'[o]
           IN x.id \in DOMAIN db'[x.table] => x.row = db'[x.table][x.id]
    /\ (/\ out'.call \in {"reload", "reloadAll", "updateAll"}
        /\ Cardinality(IdsOf(out'.given)) = Len(out'.given)) =>
         \A k \in DOMAIN out'.slice :
           LET new == heap'[out'.slice[k]]
               old == heap[out'.given[k]]
           IN new.one = old.one /\ new.many = old.many

Loaded ==
  LET t == out'.table
      LinkedTo(o) == heap'[o].row[Link(t)]
  IN ~out'.err =>
       /\ out'.call \in {"load", "loadAll"} =>
            \A o \in Range(out'.given) :
              IF LinkedTo(o) \in DOMAIN db[Parent[t]]
              THEN /\ heap'[o].one # Nil
                   /\ heap'[heap'[o].one].id = LinkedTo(o)
                   /\ o \in heap'[heap'[o].one].many[t]
              ELSE out'.call = "load" => heap'[o].one = Nil
       /\ out'.call = "loadMany" =>
            \A p \in Range(out'.given) :
              {heap'[o].id : o \in heap'[p].many[t]}
                = {i \in DOMAIN db[t] : db[t][i][Link(t)] = heap'[p].id}

Step == Typed' /\ OnlyNamed /\ Acked /\ Renewed /\ Loaded

LEMMA AnswerFacts ==
  ASSUME NEW call, NEW t, NEW err, NEW given, NEW slice, NEW parent,
         Answer(call, t, err, given, slice, parent)
  PROVE  /\ out'.call = call /\ out'.table = t /\ out'.err = err /\ out'.given = given
         /\ out'.slice = slice /\ out'.parent = parent
         /\ calls' = calls + 1
         /\ \A u \in Tables : DOMAIN db'[u] \subseteq RowIds
  BY DEF Answer

LEMMA HalfKept ==
  ASSUME Typed, Kept(heap, heap'), half' = half \/ half' = <<>>
  PROVE  HalfTyped'
<1>1. SUFFICES ASSUME half' # <<>>  PROVE HalfTyped'
  BY DEF HalfTyped
<1>2. half' = half
  BY <1>1
<1>3. PICK t \in DOMAIN Parent : half \in Objects(t) \X Objects(Parent[t])
  BY <1>1, <1>2 DEF Typed, HalfTyped
<1>4. \A u : Objects(u) \subseteq Objects(u)'
  BY DEF Objects, Kept
<1>5. half' \in Objects(t)' \X Objects(Parent[t])'
  BY <1>2, <1>3, <1>4
<1> QED
  BY <1>5 DEF HalfTyped

\* A step that writes one table keeps the types, if what it writes has them.
LEMMA TableWritten ==
  ASSUME Typed, calls < MaxCalls, NEW t \in Tables, NEW tab, IsTable(t, tab),
         db' = [db EXCEPT ![t] = tab], IsHeap(heap'), HalfTyped', calls' = calls + 1
  PROVE  Typed'
<1>1. DOMAIN db' = Tables /\ \A u \in Tables : IsTable(u, db'[u])
  BY DEF Typed
<1>2. calls' \in 0 .. MaxCalls
  BY ModelsConstants DEF Typed
<1> QED
  BY <1>1, <1>2 DEF Typed

\* A step that writes no table writes no row; what it must say of the objects
\* depends on what was called.
LEMMA NothingWritten ==
  ASSUME Typed, calls < MaxCalls, UNCHANGED db, IsHeap(heap'), Kept(heap, heap'),
         half' = half \/ half' = <<>>,
         NEW call, NEW t, NEW err, NEW given, NEW slice,
         Answer(call, t, err, given, slice, Nil)
  PROVE  Typed' /\ OnlyNamed /\ Acked
<1>1. /\ out'.call = call /\ out'.table = t /\ out'.err = err /\ out'.given = given
      /\ out'.slice = slice /\ out'.parent = Nil /\ calls' = calls + 1
  BY AnswerFacts
<1>2. Typed'
  <2>1. DOMAIN db' = Tables /\ \A u \in Tables : IsTable(u, db'[u])
    BY DEF Typed
  <2>2. calls' \in 0 .. MaxCalls
    BY <1>1, ModelsConstants DEF Typed
  <2> QED
    BY <2>1, <2>2, HalfKept DEF Typed
<1>3. OnlyNamed
  BY DEF OnlyNamed, Changed
<1>4. Acked
  BY <1>1 DEF Acked
<1> QED
  BY <1>2, <1>3, <1>4

\* What fails, or neither renews nor loads.
Tells(call, err) ==
  ~err /\ call \in {"update", "reload", "updateAll", "reloadAll", "attach",
                    "load", "loadAll", "loadMany"}

LEMMA NothingTold ==
  ASSUME NEW call, NEW t, NEW err, NEW given, NEW slice, NEW parent,
         Answer(call, t, err, given, slice, parent), ~Tells(call, err)
  PROVE  Renewed /\ Loaded
<1>1. out'.call = call /\ out'.err = err
  BY AnswerFacts
<1> QED
  BY <1>1 DEF Tells, Renewed, Loaded

LEMMA KeptSame == ASSUME NEW h PROVE Kept(h, h)
  BY DEF Kept

\* A call that fails changes nothing.
LEMMA FailedStep ==
  ASSUME Typed, calls < MaxCalls, NEW call, NEW t, NEW given, Failed(call, t, given)
  PROVE  Step
<1>1. UNCHANGED <<db, heap>> /\ half' = <<>> /\ Answer(call, t, TRUE, given, given, Nil)
  BY DEF Failed
<1>2. IsHeap(heap') /\ Kept(heap, heap')
  BY <1>1, KeptSame DEF Typed
<1>3. Typed' /\ OnlyNamed /\ Acked
  BY <1>1, <1>2, NothingWritten
<1>4. Renewed /\ Loaded
  BY <1>1, NothingTold DEF Tells
<1> QED
  BY <1>3, <1>4 DEF Step

\* A call that only reads, and answers with what it found.
LEMMA ReadStep ==
  ASSUME Typed, calls < MaxCalls, UNCHANGED db, IsHeap(heap'), Kept(heap, heap'),
         half' = half, NEW call, NEW t, NEW err, NEW given, NEW slice,
         Answer(call, t, err, given, slice, Nil), ~Tells(call, err)
  PROVE  Step
<1>1. Typed' /\ OnlyNamed /\ Acked
  BY NothingWritten
<1>2. Renewed /\ Loaded
  BY NothingTold
<1> QED
  BY <1>1, <1>2 DEF Step

\* A statement that leaves the rows it does not name writes those of the objects
\* it was given.
LEMMA NamedWritten ==
  ASSUME Typed, NEW t \in Tables, NEW tab, db' = [db EXCEPT ![t] = tab],
         NEW ids, Leaves(db[t], ids, tab),
         \A i \in ids \cap DOMAIN db[t] :
           \E o \in Range(out'.given) : heap[o].table = t /\ heap[o].id = i
  PROVE  OnlyNamed
<1>1. db'[t] = tab /\ \A u \in Tables \ {t} : db'[u] = db[u]
  BY DEF Typed
<1> QED
  BY <1>1 DEF OnlyNamed, Changed, Leaves

-----------------------------------------------------------------------------
(***************************************************************************)
(* The methods of one object.                                              *)
(***************************************************************************)

LEMMA SetterTyped ==
  ASSUME NEW t \in Tables, NEW s \in InsertSetters[t] \cup UpdateSetters[t]
  PROVE  s \in SetterOf(t, DOMAIN s) /\ DOMAIN s \subseteq Range(Columns[t])
  BY ModelsConstants, StatementFacts DEF IsSetter

LEMMA OneSetter ==
  ASSUME NEW t \in Tables, NEW s \in InsertSetters[t]
  PROVE  IsSetters(t, <<s>>)
<1>1. Range(<<s>>) = {s} /\ 1 \in DOMAIN <<s>>
  BY DEF Range
<1>2. Fit(t, {s})
  BY ModelsConstants DEF Fit
<1> QED
  BY <1>1, <1>2, SetterTyped DEF IsSetters

\* The INSERT itself: rows of their type, next to those there are.
LEMMA InsertRows ==
  ASSUME Typed, NEW t \in Tables, NEW ss, IsSetters(t, ss), Insertable(t, db[t], ss),
         NEW tab, tab = Apply(t, db[t], ss), DOMAIN tab \subseteq RowIds
  PROVE  /\ IsTable(t, tab) /\ Leaves(db[t], {}, tab)
         /\ \E i : i \in DOMAIN tab \ DOMAIN db[t]
         /\ \A i \in DOMAIN tab \ DOMAIN db[t] :
              \E k \in DOMAIN ss : tab[i] = RowOf(t, Named(t, ss[1], ss[k]))
<1>1. tab = Inserted(t, db[t], ss)
  BY StatementFacts
<1>2. IsTable(t, tab)
  BY <1>1, InsertedTyped DEF Typed
<1>3. /\ DOMAIN db[t] \subseteq DOMAIN tab /\ \A i \in DOMAIN db[t] : tab[i] = db[t][i]
      /\ \A i \in DOMAIN tab \ DOMAIN db[t] :
           \E k \in DOMAIN ss : tab[i] = RowOf(t, Named(t, ss[1], ss[k]))
  BY <1>1, InsertedAdds
<1>4. \E i : i \in DOMAIN tab \ DOMAIN db[t]
  <2> DEFINE key == InsertedKeys(t, db[t], ss)
  <2>1. DOMAIN tab = DOMAIN db[t] \cup Range(key)
    BY <1>1 DEF Inserted
  <2>2. DOMAIN key = DOMAIN ss /\ Range(key) \cap DOMAIN db[t] = {}
    BY DEF InsertedKeys, Insertable
  <2> HIDE DEF key
  <2>3. key[1] \in Range(key)
    BY <2>2 DEF IsSetters, Range
  <2> QED
    BY <2>1, <2>2, <2>3
<1> QED
  BY <1>2, <1>3, <1>4 DEF Leaves

LEMMA InsertStep ==
  ASSUME Typed, NEW t \in Tables, Insert(t)
  PROVE  Step
<1>1. PICK s \in InsertSetters[t] :
        /\ Idle
        /\ IF Insertable(t, db[t], <<s>>)
           THEN /\ db' = [db EXCEPT ![t] = Apply(t, db[t], <<s>>)]
                /\ heap' = Scanned(heap, t, DOMAIN Apply(t, db[t], <<s>>) \ DOMAIN db[t],
                                   Apply(t, db[t], <<s>>))
                /\ UNCHANGED half
                /\ Answer("insert", t, FALSE, <<>>, NewIn(heap, heap'), Nil)
           ELSE Failed("insert", t, <<>>)
  BY Zenon DEF Insert
<1>2. calls < MaxCalls
  BY <1>1 DEF Idle
<1>3. CASE ~Insertable(t, db[t], <<s>>)
  BY <1>1, <1>2, <1>3, FailedStep
<1>4. CASE Insertable(t, db[t], <<s>>)
  <2> DEFINE tab == Apply(t, db[t], <<s>>)
             S == DOMAIN tab \ DOMAIN db[t]
  <2>1. /\ db' = [db EXCEPT ![t] = tab] /\ heap' = Scanned(heap, t, S, tab)
        /\ half' = half
        /\ Answer("insert", t, FALSE, <<>>, NewIn(heap, heap'), Nil)
    BY <1>1, <1>4
  <2>2. /\ out'.call = "insert" /\ out'.parent = Nil /\ calls' = calls + 1
        /\ DOMAIN db'[t] \subseteq RowIds
    BY <2>1, AnswerFacts
  <2>3. DOMAIN tab \subseteq RowIds
    BY <2>1, <2>2 DEF Typed
  <2>4. IsTable(t, tab) /\ Leaves(db[t], {}, tab)
    BY <1>4, <2>3, OneSetter, InsertRows
  <2> HIDE DEF tab, S
  <2>5. IsScan(heap, t, S \cap DOMAIN tab, tab, heap')
    BY <2>1, <2>4, ScannedIsScan DEF Typed
  <2>6. IsHeap(heap') /\ Kept(heap, heap')
    BY <2>5, ScanKeeps
  <2>7. Typed'
    BY <1>2, <2>1, <2>2, <2>4, <2>6, HalfKept, TableWritten
  <2>8. OnlyNamed
    BY <2>1, <2>4, NamedWritten
  <2> QED
    BY <2>2, <2>7, <2>8 DEF Step, Acked, Renewed, Loaded
<1> QED
  BY <1>3, <1>4

LEMMA FindStep ==
  ASSUME Typed, NEW t \in Tables, Find(t)
  PROVE  Step
<1>1. PICK id \in RowIds :
        /\ Idle
        /\ IF id \in DOMAIN db[t]
           THEN /\ heap' = Scanned(heap, t, {id}, db[t])
                /\ UNCHANGED <<db, half>>
                /\ Answer("find", t, FALSE, <<>>, NewIn(heap, heap'), Nil)
           ELSE Failed("find", t, <<>>)
  BY Zenon DEF Find, Done
<1>2. calls < MaxCalls
  BY <1>1 DEF Idle
<1>3. CASE id \notin DOMAIN db[t]
  BY <1>1, <1>2, <1>3, FailedStep
<1>4. CASE id \in DOMAIN db[t]
  <2>0. Answer("find", t, FALSE, <<>>, NewIn(heap, heap'), Nil) /\ UNCHANGED <<db, half>>
    BY <1>1, <1>4
  <2>1. IsScan(heap, t, {id} \cap DOMAIN db[t], db[t], heap')
    BY <1>1, <1>4, ScannedIsScan DEF Typed
  <2>2. IsHeap(heap') /\ Kept(heap, heap')
    BY <2>1, ScanKeeps
  <2> QED
    BY <1>2, <2>0, <2>2, ReadStep DEF Tells
<1> QED
  BY <1>3, <1>4

\* The heap after an object of it was read again.
LEMMA RenewedKeeps ==
  ASSUME NEW h, NEW o \in DOMAIN h, NEW id, NEW row, NEW h2, IsRenewed(h, o, id, row, h2)
  PROVE  IsHeap(h2) /\ Kept(h, h2) /\ h2[o].id = id /\ h2[o].row = row
  BY DEF IsRenewed, Kept

\* An UPDATE of one row that is there leaves it there, at its new key.
LEMMA UpdatedThere ==
  ASSUME NEW t \in Tables, NEW tab, NEW i \in DOMAIN tab, NEW s,
         Key(t) \notin DOMAIN s \/ Updatable(t, tab, {i}, s)
  PROVE  (IF Key(t) \in DOMAIN s THEN s[Key(t)] ELSE i) \in DOMAIN Updated(t, tab, {i}, s)
<1> DEFINE new == Updated(t, tab, {i}, s)
<1>1. CASE Key(t) \notin DOMAIN s
  BY <1>1, UpdatedInPlace
<1>2. CASE Key(t) \in DOMAIN s
  <2>1. FindsNone(t, tab, {i}, new) \/ \E j : MovesOne(t, tab, {i}, s, new, j)
    BY <1>2, UpdatedMoves
  <2> HIDE DEF new
  <2>2. PICK j : MovesOne(t, tab, {i}, s, new, j)
    BY <2>1 DEF FindsNone
  <2> QED
    BY <1>2, <2>2 DEF MovesOne, new
<1> QED
  BY <1>1, <1>2

LEMMA UpdateStep ==
  ASSUME Typed, NEW t \in Tables, Update(t)
  PROVE  Step
<1>1. PICK o \in Objects(t), s \in UpdateSetters[t] :
        /\ Idle
        /\ IF /\ heap[o].id \in DOMAIN db[t]
              /\ Updatable(t, db[t], {heap[o].id}, s)
           THEN /\ db' = [db EXCEPT ![t] = Expressions(t, db[t], {heap[o].id}, s)]
                /\ heap' = UpdateSets(heap, o, Expressions(t, db[t], {heap[o].id}, s), s)
                /\ UNCHANGED half
                /\ Answer("update", t, FALSE, <<o>>, <<o>>, Nil)
           ELSE Failed("update", t, <<o>>)
  BY Zenon DEF Update, Done
<1>2. calls < MaxCalls
  BY <1>1 DEF Idle
<1>3. CASE ~(heap[o].id \in DOMAIN db[t] /\ Updatable(t, db[t], {heap[o].id}, s))
  BY <1>1, <1>2, <1>3, FailedStep
<1>4. CASE heap[o].id \in DOMAIN db[t] /\ Updatable(t, db[t], {heap[o].id}, s)
  <2> DEFINE i == heap[o].id
             tab == Updated(t, db[t], {i}, s)
             id == IF Key(t) \in DOMAIN s THEN s[Key(t)] ELSE i
  <2>1. Expressions(t, db[t], {heap[o].id}, s) = tab
    BY StatementFacts
  <2>2. /\ db' = [db EXCEPT ![t] = tab] /\ heap' = UpdateSets(heap, o, tab, s)
        /\ half' = half /\ Answer("update", t, FALSE, <<o>>, <<o>>, Nil)
    BY <1>1, <1>4, <2>1
  <2>3. /\ out'.call = "update" /\ out'.parent = Nil /\ out'.given = <<o>>
        /\ out'.slice = <<o>> /\ calls' = calls + 1
    BY <2>2 DEF Answer
  <2>4. IsTable(t, db[t]) /\ s \in SetterOf(t, DOMAIN s) /\ IsHeap(heap)
    BY SetterTyped DEF Typed
  <2>5. IsTable(t, tab)
    BY <1>4, <2>4, UpdatedTyped
  <2>6. Leaves(db[t], {i}, tab)
    BY <1>4, UpdatedLeaves
  <2>7. id \in DOMAIN tab
    BY <1>4, UpdatedThere
  <2>8. o \in DOMAIN heap /\ heap[o].table = t
    BY DEF Objects
  <2> HIDE DEF tab
  <2>9. IsRenewed(heap, o, id, tab[id], heap')
    BY <2>2, <2>4, <2>5, <2>7, <2>8, UpdateSetsRenews
  <2> HIDE DEF id
  <2>10. /\ IsHeap(heap') /\ Kept(heap, heap') /\ heap'[o].id = id /\ heap'[o].row = tab[id]
         /\ heap'[o].table = t
    BY <2>8, <2>9, RenewedKeeps DEF IsRenewed
  <2>11. Typed'
    BY <1>2, <2>2, <2>3, <2>5, <2>10, HalfKept, TableWritten
  <2>12. Range(<<o>>) = {o}
    BY DEF Range
  <2>13. OnlyNamed
    BY <2>2, <2>3, <2>6, <2>8, <2>12, NamedWritten
  <2>14. db'[t] = tab
    BY <2>2 DEF Typed
  <2>15. Renewed
    BY <2>3, <2>10, <2>12, <2>14 DEF Renewed
  <2> QED
    BY <2>3, <2>11, <2>13, <2>15 DEF Step, Acked, Loaded
<1> QED
  BY <1>3, <1>4

\* Fewer rows of a table are a table.
LEMMA FewerRows ==
  ASSUME NEW t, NEW tab, IsTable(t, tab), NEW S, NEW new, new = [i \in DOMAIN tab \ S |-> tab[i]]
  PROVE  IsTable(t, new) /\ Leaves(tab, S, new)
  BY DEF IsTable, Leaves

LEMMA DeleteStep ==
  ASSUME Typed, NEW t \in Tables, Delete(t)
  PROVE  Step
<1>1. PICK o \in Objects(t) :
        /\ Idle
        /\ db' = [db EXCEPT ![t] = WithoutRow(db[t], heap[o].id)]
        /\ UNCHANGED <<heap, half>>
        /\ Answer("delete", t, FALSE, <<o>>, <<>>, Nil)
  BY DEF Delete, Done, Typed
<1> DEFINE i == heap[o].id
           tab == WithoutRow(db[t], i)
<1>2. IsTable(t, tab) /\ Leaves(db[t], {i}, tab)
  BY FewerRows DEF Typed, WithoutRow
<1>3. out'.call = "delete" /\ out'.parent = Nil /\ out'.given = <<o>> /\ calls' = calls + 1
  BY <1>1 DEF Answer
<1>4. calls < MaxCalls
  BY <1>1 DEF Idle
<1>5. IsHeap(heap') /\ Kept(heap, heap')
  BY <1>1, KeptSame DEF Typed
<1>6. db' = [db EXCEPT ![t] = tab] /\ half' = half
  BY <1>1
<1> HIDE DEF tab
<1>7. Typed'
  BY <1>2, <1>3, <1>4, <1>5, <1>6, HalfKept, TableWritten
<1>8. o \in Range(<<o>>) /\ heap[o].table = t
  BY DEF Range, Objects
<1>9. OnlyNamed
  BY <1>2, <1>3, <1>6, <1>8, NamedWritten
<1> QED
  BY <1>3, <1>7, <1>9 DEF Step, Acked, Renewed, Loaded

LEMMA ReloadStep ==
  ASSUME Typed, NEW t \in Tables, Reload(t)
  PROVE  Step
<1>1. PICK o \in Objects(t) :
        /\ Idle
        /\ IF heap[o].id \in DOMAIN db[t]
           THEN /\ heap' = [heap EXCEPT ![o].row = db[t][heap[o].id]]
                /\ UNCHANGED <<db, half>>
                /\ Answer("reload", t, FALSE, <<o>>, <<o>>, Nil)
           ELSE Failed("reload", t, <<o>>)
  BY Zenon DEF Reload, Done
<1>2. calls < MaxCalls
  BY <1>1 DEF Idle
<1>3. CASE heap[o].id \notin DOMAIN db[t]
  BY <1>1, <1>2, <1>3, FailedStep
<1>4. CASE heap[o].id \in DOMAIN db[t]
  <2> DEFINE i == heap[o].id
             row == db[t][i]
  <2>1. heap' = Reread(heap, o, row) /\ UNCHANGED <<db, half>>
        /\ Answer("reload", t, FALSE, <<o>>, <<o>>, Nil)
    BY <1>1, <1>4 DEF Reread
  <2>2. /\ out'.call = "reload" /\ out'.parent = Nil /\ out'.given = <<o>>
        /\ out'.slice = <<o>> /\ out'.err = FALSE
    BY <2>1 DEF Answer
  <2>3. o \in DOMAIN heap /\ heap[o].table = t /\ IsHeap(heap)
    BY DEF Objects, Typed
  <2>4. row \in Row(heap[o].table)
    BY <1>4, <2>3 DEF Typed, IsTable
  <2> HIDE DEF row
  <2>5. /\ IsRenewed(heap, o, i, row, heap')
        /\ heap'[o].one = heap[o].one /\ heap'[o].many = heap[o].many
    BY <2>1, <2>3, <2>4, ReloadRenews
  <2>6. IsHeap(heap') /\ Kept(heap, heap') /\ heap'[o].id = i /\ heap'[o].row = row
        /\ heap'[o].table = t
    BY <2>3, <2>5, RenewedKeeps DEF IsRenewed
  <2>7. Typed' /\ OnlyNamed /\ Acked
    BY <1>2, <2>1, <2>6, NothingWritten
  <2>8. Range(<<o>>) = {o} /\ \A k \in DOMAIN <<o>> : <<o>>[k] = o
    BY DEF Range
  <2>9. Renewed
    BY <2>1, <2>2, <2>5, <2>6, <2>8 DEF Renewed, row
  <2> QED
    BY <2>2, <2>7, <2>9 DEF Step, Loaded
<1> QED
  BY <1>3, <1>4

-----------------------------------------------------------------------------
(***************************************************************************)
(* The methods of a slice.                                                 *)
(***************************************************************************)

\* The ids that pkIN puts into a statement are those of the objects given.
LEMMA PkNamed ==
  ASSUME NEW t, NEW os \in Slices(t)
  PROVE  \A i \in PkIN(os) : \E o \in Range(os) : heap[o].table = t /\ heap[o].id = i
<1>1. IsSlice(heap, t, os)
  BY SliceFacts
<1> QED
  BY <1>1 DEF PkIN, IdsOf, IsSlice, ObjectsIn

\* What is left of a slice is what the table holds, and has the relations that
\* the slice had if no two of its objects were of one row.
LEMMA RenewedSlice ==
  ASSUME NEW t \in Tables, NEW os \in Slices(t), NEW tab, db'[t] = tab, NEW copied,
         IsRenewedAll(heap, t, os, tab, copied), heap' = copied.heap,
         out'.given = os, out'.slice = copied.slice
  PROVE  Renewed
<1> DEFINE new == copied.slice
<1>1. /\ IsSlice(heap', t, new) /\ DOMAIN new = DOMAIN os
      /\ \A k \in DOMAIN os :
           /\ heap'[new[k]].id = heap[os[k]].id
           /\ heap[os[k]].id \in DOMAIN tab => heap'[new[k]].row = tab[heap[os[k]].id]
      /\ (\A k, l \in DOMAIN os : heap[os[k]].id = heap[os[l]].id => k = l) =>
           \A k \in DOMAIN os :
             heap'[new[k]].one = heap[os[k]].one /\ heap'[new[k]].many = heap[os[k]].many
  BY DEF IsRenewedAll
<1>2. \A o \in Range(new) : heap'[o].table = t /\ \E k \in DOMAIN os : o = new[k]
  BY <1>1 DEF IsSlice, ObjectsIn, Range
<1> HIDE DEF new
<1>3. ASSUME NEW o \in Range(new), heap'[o].id \in DOMAIN db'[heap'[o].table]
      PROVE  heap'[o].row = db'[heap'[o].table][heap'[o].id]
  BY <1>1, <1>2, <1>3
<1>4. Cardinality(IdsOf(os)) = Len(os) =>
        \A k \in DOMAIN new :
          heap'[new[k]].one = heap[os[k]].one /\ heap'[new[k]].many = heap[os[k]].many
  BY <1>1, SliceFacts
<1>5. out'.slice = new
  BY DEF new
<1> QED
  BY <1>3, <1>4, <1>5 DEF Renewed

LEMMA UpdateAllStep ==
  ASSUME Typed, NEW t \in Tables, UpdateAll(t)
  PROVE  Step
<1>1. PICK os \in Slices(t), s \in UpdateSetters[t] :
        /\ Idle
        /\ CASE os = <<>> ->
                  /\ UNCHANGED <<db, heap, half>>
                  /\ Answer("updateAll", t, FALSE, os, os, Nil)
             [] os # <<>> /\ Updatable(t, db[t], PkIN(os), s) ->
                  /\ db' = [db EXCEPT ![t] = UpdateAllOf(t, os, s).tab]
                  /\ heap' = UpdateAllOf(t, os, s).copied.heap
                  /\ UNCHANGED half
                  /\ Answer("updateAll", t, FALSE, os, UpdateAllOf(t, os, s).copied.slice, Nil)
             [] OTHER -> Failed("updateAll", t, os)
  BY Zenon DEF UpdateAll, Done
<1>2. calls < MaxCalls
  BY <1>1 DEF Idle
<1>3. CASE os = <<>>
  <2>1. UNCHANGED <<db, heap, half>> /\ Answer("updateAll", t, FALSE, os, os, Nil)
    BY <1>1, <1>3
  <2>2. IsHeap(heap') /\ Kept(heap, heap')
    BY <2>1, KeptSame DEF Typed
  <2>3. Typed' /\ OnlyNamed /\ Acked
    BY <1>2, <2>1, <2>2, NothingWritten
  <2>4. out'.call = "updateAll" /\ out'.slice = os
    BY <2>1, AnswerFacts
  <2>5. Range(out'.slice) = {} /\ DOMAIN out'.slice = {}
    BY <1>3, <2>4, SliceFacts
  <2> QED
    BY <2>3, <2>4, <2>5 DEF Step, Renewed, Loaded
<1>4. CASE os # <<>> /\ Updatable(t, db[t], PkIN(os), s)
  <2> DEFINE all == UpdateAllOf(t, os, s)
             tab == all.tab
             copied == all.copied
  <2>1. /\ db' = [db EXCEPT ![t] = tab] /\ heap' = copied.heap /\ half' = half
        /\ Answer("updateAll", t, FALSE, os, copied.slice, Nil)
    BY <1>1, <1>4
  <2>2. s \in SetterOf(t, DOMAIN s)
    BY SetterTyped
  <2>3. /\ IsTable(t, tab) /\ Leaves(db[t], PkIN(os), tab)
        /\ IsRenewedAll(heap, t, os, tab, copied)
    BY <1>4, <2>2, UpdateAllRenews
  <2> HIDE DEF tab, copied
  <2>4. IsHeap(heap') /\ Kept(heap, heap')
    BY <2>1, <2>3 DEF IsRenewedAll
  <2>5. /\ out'.call = "updateAll" /\ out'.parent = Nil /\ out'.given = os
        /\ out'.slice = copied.slice /\ calls' = calls + 1
    BY <2>1 DEF Answer
  <2>6. Typed'
    BY <1>2, <2>1, <2>3, <2>4, <2>5, HalfKept, TableWritten
  <2>7. \A i \in PkIN(os) : \E o \in Range(os) : heap[o].table = t /\ heap[o].id = i
    BY PkNamed
  <2>8. OnlyNamed
    BY <2>1, <2>3, <2>5, <2>7, NamedWritten
  <2>9. db'[t] = tab
    BY <2>1 DEF Typed
  <2>10. Renewed
    BY <2>1, <2>3, <2>5, <2>9, RenewedSlice
  <2> QED
    BY <2>5, <2>6, <2>8, <2>10 DEF Step, Acked, Loaded
<1>5. CASE os # <<>> /\ ~Updatable(t, db[t], PkIN(os), s)
  <2>1. Failed("updateAll", t, os)
    BY <1>1, <1>5
  <2> QED
    BY <1>2, <2>1, FailedStep
<1> QED
  BY <1>3, <1>4, <1>5

LEMMA DeleteAllStep ==
  ASSUME Typed, NEW t \in Tables, DeleteAll(t)
  PROVE  Step
<1>1. PICK os \in Slices(t) :
        /\ Idle
        /\ db' = [db EXCEPT ![t] = [i \in DOMAIN db[t] \ PkIN(os) |-> db[t][i]]]
        /\ UNCHANGED <<heap, half>>
        /\ Answer("deleteAll", t, FALSE, os, <<>>, Nil)
  BY DEF DeleteAll, Done, Typed
<1> DEFINE tab == [i \in DOMAIN db[t] \ PkIN(os) |-> db[t][i]]
<1>2. IsTable(t, tab) /\ Leaves(db[t], PkIN(os), tab)
  BY FewerRows DEF Typed
<1>3. out'.call = "deleteAll" /\ out'.parent = Nil /\ out'.given = os /\ calls' = calls + 1
  BY <1>1 DEF Answer
<1>4. calls < MaxCalls
  BY <1>1 DEF Idle
<1>5. IsHeap(heap') /\ Kept(heap, heap')
  BY <1>1, KeptSame DEF Typed
<1>6. db' = [db EXCEPT ![t] = tab] /\ half' = half
  BY <1>1
<1> HIDE DEF tab
<1>7. Typed'
  BY <1>2, <1>3, <1>4, <1>5, <1>6, HalfKept, TableWritten
<1>8. \A i \in PkIN(os) : \E o \in Range(os) : heap[o].table = t /\ heap[o].id = i
  BY PkNamed
<1>9. OnlyNamed
  BY <1>2, <1>3, <1>6, <1>8, NamedWritten
<1> QED
  BY <1>3, <1>7, <1>9 DEF Step, Acked, Renewed, Loaded

LEMMA ReloadAllStep ==
  ASSUME Typed, NEW t \in Tables, ReloadAll(t)
  PROVE  Step
<1>1. PICK os \in Slices(t) :
        LET h == Scanned(heap, t, PkIN(os), db[t])
            copied == CopyMatchingRows(os, h, NewIn(heap, h))
        IN /\ Idle
           /\ heap' = copied.heap
           /\ UNCHANGED <<db, half>>
           /\ Answer("reloadAll", t, FALSE, os, copied.slice, Nil)
  BY Zenon DEF ReloadAll, Done
<1> DEFINE tab == db[t]
           h == Scanned(heap, t, PkIN(os), tab)
           copied == CopyMatchingRows(os, h, NewIn(heap, h))
<1>2. /\ Idle /\ heap' = copied.heap /\ UNCHANGED <<db, half>>
      /\ Answer("reloadAll", t, FALSE, os, copied.slice, Nil)
  BY <1>1
<1>3. IsHeap(heap) /\ IsTable(t, tab) /\ IsSlice(heap, t, os)
  BY SliceFacts DEF Typed
<1>4. IsRefreshed(heap, t, os, PkIN(os) \cap DOMAIN tab, tab, copied)
  BY <1>3, Refreshed
<1> HIDE DEF tab, copied
<1>5. \A k \in DOMAIN os : heap[os[k]].id \in PkIN(os)
  BY DEF PkIN, IdsOf, Range
<1>6. IsRenewedAll(heap, t, os, tab, copied)
  BY <1>4, <1>5, RefreshedRenewed
<1>7. IsHeap(heap') /\ Kept(heap, heap')
  BY <1>2, <1>6 DEF IsRenewedAll
<1>8. calls < MaxCalls
  BY <1>2 DEF Idle
<1>9. /\ out'.call = "reloadAll" /\ out'.given = os /\ out'.slice = copied.slice
  BY <1>2, AnswerFacts
<1>10. Typed' /\ OnlyNamed /\ Acked
  BY <1>2, <1>7, <1>8, NothingWritten
<1>11. db'[t] = tab
  BY <1>2 DEF tab
<1>12. Renewed
  BY <1>2, <1>6, <1>9, <1>11, RenewedSlice
<1> QED
  BY <1>9, <1>10, <1>12 DEF Step, Loaded

-----------------------------------------------------------------------------
(***************************************************************************)
(* The relations set.                                                      *)
(***************************************************************************)

\* The setter of Attach writes the link alone, and the key of the parent into it.
LEMMA AttachSetterTyped ==
  ASSUME Typed, NEW t \in DOMAIN Parent, NEW p \in Objects(Parent[t]),
         NEW s, s = AttachSetter(t, p)
  PROVE  /\ s \in SetterOf(t, DOMAIN s) /\ Key(t) \notin DOMAIN s
         /\ Link(t) \in DOMAIN s /\ s[Link(t)] = heap[p].id
<1>1. heap[p].id \in RowIds
  BY DEF Typed, IsHeap, InHeap, Object, Objects
<1>2. DOMAIN s = {Link(t)} /\ s[Link(t)] = heap[p].id /\ s = [c \in DOMAIN s |-> s[c]]
  BY DEF AttachSetter
<1>3. heap[p].id \in Values(t, Link(t)) /\ Link(t) # Key(t)
  BY <1>1, LinkFacts
<1> QED
  BY <1>1, <1>2, <1>3 DEF SetterOf

\* What stands in the link of a row that Attach has written.
IsAttached(t, tab, ids, id, new) ==
  DOMAIN new = DOMAIN tab /\ \A i \in ids \cap DOMAIN tab : new[i][Link(t)] = id

LEMMA AttachedRow ==
  ASSUME NEW t \in DOMAIN Parent, NEW tab, IsTable(t, tab), NEW ids, NEW s,
         s \in SetterOf(t, DOMAIN s), Key(t) \notin DOMAIN s, Link(t) \in DOMAIN s
  PROVE  IsAttached(t, tab, ids, s[Link(t)], Updated(t, tab, ids, s))
<1>1. t \in Tables /\ Link(t) \in Data(t)
  BY LinkFacts
<1>2. /\ DOMAIN Updated(t, tab, ids, s) = DOMAIN tab
      /\ \A i \in ids \cap DOMAIN tab : Updated(t, tab, ids, s)[i] = Overwrite(tab[i], s)
  BY <1>1, UpdatedInPlace
<1>3. ASSUME NEW i \in DOMAIN tab  PROVE Overwrite(tab[i], s)[Link(t)] = s[Link(t)]
  <2>1. tab[i] \in Row(t)
    BY DEF IsTable
  <2> QED
    BY <1>1, <2>1, OverwriteTyped
<1> QED
  BY <1>2, <1>3 DEF IsAttached

LEMMA AttachOneRows ==
  ASSUME Typed, calls < MaxCalls, NEW t \in DOMAIN Parent, NEW o \in Objects(t),
         NEW p \in Objects(Parent[t]), heap[o].id \in DOMAIN db[t],
         NEW s, s = AttachSetter(t, p),
         NEW tab, tab = Expressions(t, db[t], {heap[o].id}, s),
         db' = [db EXCEPT ![t] = tab],
         heap' = Related(UpdateSets(heap, o, tab, s), <<o>>, p),
         half' = half \/ half' = <<>>,
         Answer("attach", t, FALSE, <<o>>, <<o>>, p)
  PROVE  Step
<1> DEFINE i == heap[o].id
           h1 == UpdateSets(heap, o, tab, s)
<1>1. t \in Tables /\ Parent[t] # t
  BY LinkFacts
<1>2. /\ s \in SetterOf(t, DOMAIN s) /\ Key(t) \notin DOMAIN s
      /\ Link(t) \in DOMAIN s /\ s[Link(t)] = heap[p].id
  BY AttachSetterTyped
<1>3. tab = Updated(t, db[t], {i}, s)
  BY <1>1, StatementFacts
<1>4. IsTable(t, db[t]) /\ IsHeap(heap)
  BY <1>1 DEF Typed
<1>5. IsTable(t, tab) /\ Leaves(db[t], {i}, tab)
  BY <1>1, <1>2, <1>3, <1>4, UpdatedTyped, UpdatedLeaves
<1>6. i \in DOMAIN tab /\ tab[i][Link(t)] = heap[p].id
  <2>1. IsAttached(t, db[t], {i}, s[Link(t)], tab)
    BY <1>2, <1>3, <1>4, AttachedRow
  <2> QED BY <1>2, <2>1 DEF IsAttached
<1>7. o \in DOMAIN heap /\ heap[o].table = t /\ p \in DOMAIN heap /\ heap[p].table = Parent[t]
      /\ p # o
  BY <1>1 DEF Objects
<1>8. IsRenewed(heap, o, i, tab[i], h1)
  BY <1>1, <1>2, <1>4, <1>5, <1>6, <1>7, UpdateSetsRenews
<1> HIDE DEF h1
<1>9. /\ IsHeap(h1) /\ DOMAIN h1 = DOMAIN heap /\ Kept(heap, h1) /\ h1[o].table = t
      /\ h1[o].id = i /\ h1[o].row = tab[i] /\ h1[p] = heap[p]
  BY <1>7, <1>8 DEF IsRenewed, Kept
<1>10. DOMAIN <<o>> = 1 .. 1 /\ Range(<<o>>) = {o}
  BY DEF Range
<1>11. IsSlice(h1, t, <<o>>) /\ 1 \in DOMAIN <<o>> /\ p \in ObjectsIn(h1, Parent[t])
  BY <1>7, <1>9, <1>10 DEF IsSlice, ObjectsIn
<1>12. heap' = Related(h1, <<o>>, p)
  BY DEF h1
<1>13. /\ IsHeap(heap') /\ SameRows(h1, heap')
       /\ \A q \in Range(<<o>>) : heap'[q].one = p
       /\ Range(<<o>>) \subseteq heap'[p].many[t]
  <2>1. IsRelated(h1, t, <<o>>, p, heap')
    BY <1>9, <1>11, <1>12, RelatedHeap
  <2> QED BY <2>1 DEF IsRelated
<1>14. Kept(heap, heap')
  BY <1>9, <1>13, KeptKept
<1>15. /\ out'.call = "attach" /\ out'.parent = p /\ out'.given = <<o>> /\ out'.slice = <<o>>
       /\ calls' = calls + 1
  BY DEF Answer
<1>16. Typed'
  BY <1>1, <1>5, <1>13, <1>14, <1>15, HalfKept, TableWritten
<1>17. OnlyNamed
  <2>1. \A j \in {i} \cap DOMAIN db[t] :
          \E q \in Range(out'.given) : heap[q].table = t /\ heap[q].id = j
    BY <1>7, <1>10, <1>15
  <2> QED BY <1>1, <1>5, <2>1, NamedWritten
<1>18. db'[t] = tab
  BY <1>1 DEF Typed
<1>19. /\ heap'[o].table = t /\ heap'[o].id = i /\ heap'[o].row = tab[i]
       /\ heap'[p].id = heap[p].id
  BY <1>7, <1>9, <1>13 DEF SameRows, SameRow
<1>20. Acked
  BY <1>6, <1>10, <1>13, <1>15, <1>18, <1>19 DEF Acked
<1>21. Renewed
  BY <1>10, <1>15, <1>18, <1>19 DEF Renewed
<1> QED
  BY <1>15, <1>16, <1>17, <1>20, <1>21 DEF Step, Loaded

LEMMA AttachOneStep ==
  ASSUME Typed, NEW t \in DOMAIN Parent, AttachOne(t)
  PROVE  Step
<1>1. PICK o \in Objects(t), p \in Objects(Parent[t]) :
        LET s == AttachSetter(t, p)
            tab == Expressions(t, db[t], {heap[o].id}, s)
        IN /\ Idle
           /\ IF heap[o].id \in DOMAIN db[t]
              THEN /\ db' = [db EXCEPT ![t] = tab]
                   /\ heap' = Related(UpdateSets(heap, o, tab, s), <<o>>, p)
                   /\ UNCHANGED half
                   /\ Answer("attach", t, FALSE, <<o>>, <<o>>, p)
              ELSE Failed("attach", t, <<o>>)
  BY Zenon DEF AttachOne
<1>2. calls < MaxCalls
  BY <1>1 DEF Idle
<1>3. CASE heap[o].id \notin DOMAIN db[t]
  BY <1>1, <1>2, <1>3, FailedStep
<1>4. CASE heap[o].id \in DOMAIN db[t]
  <2> DEFINE s == AttachSetter(t, p)
             tab == Expressions(t, db[t], {heap[o].id}, s)
  <2>1. /\ db' = [db EXCEPT ![t] = tab]
        /\ heap' = Related(UpdateSets(heap, o, tab, s), <<o>>, p)
        /\ half' = half /\ Answer("attach", t, FALSE, <<o>>, <<o>>, p)
    BY <1>1, <1>4
  <2>2. s = AttachSetter(t, p) /\ tab = Expressions(t, db[t], {heap[o].id}, s)
    OBVIOUS
  <2> HIDE DEF s, tab
  <2> QED
    BY <1>2, <1>4, <2>1, <2>2, AttachOneRows
<1> QED
  BY <1>3, <1>4

LEMMA FinishInsertOneStep ==
  ASSUME Typed, NEW t \in DOMAIN Parent, FinishInsertOne(t)
  PROVE  Step
<1> DEFINE o == half[1]
           p == half[2]
           s == AttachSetter(t, p)
           tab == Expressions(t, db[t], {heap[o].id}, s)
<1>1. /\ calls < MaxCalls /\ half # <<>> /\ o \in Objects(t)
      /\ IF heap[o].id \in DOMAIN db[t]
         THEN /\ db' = [db EXCEPT ![t] = tab]
              /\ heap' = Related(UpdateSets(heap, o, tab, s), <<o>>, p)
              /\ half' = <<>>
              /\ Answer("attach", t, FALSE, <<o>>, <<o>>, p)
         ELSE Failed("attach", t, <<o>>)
  BY Zenon DEF FinishInsertOne
<1>2. p \in Objects(Parent[t])
  <2>1. PICK u \in DOMAIN Parent : half \in Objects(u) \X Objects(Parent[u])
    BY <1>1 DEF Typed, HalfTyped
  <2>2. o \in Objects(u) /\ p \in Objects(Parent[u])
    BY <2>1
  <2>3. u = t
    BY <1>1, <2>2 DEF Objects
  <2> QED
    BY <2>2, <2>3
<1>3. CASE heap[o].id \notin DOMAIN db[t]
  BY <1>1, <1>3, FailedStep
<1>4. CASE heap[o].id \in DOMAIN db[t]
  <2>1. s = AttachSetter(t, p) /\ tab = Expressions(t, db[t], {heap[o].id}, s)
    OBVIOUS
  <2>2. o \in Objects(t)
    BY <1>1
  <2>3. /\ db' = [db EXCEPT ![t] = tab]
        /\ heap' = Related(UpdateSets(heap, o, tab, s), <<o>>, p)
        /\ half' = <<>> /\ Answer("attach", t, FALSE, <<o>>, <<o>>, p)
    BY <1>1, <1>4
  <2> HIDE DEF s, tab, o, p
  <2> QED
    BY <1>1, <1>2, <1>4, <2>1, <2>2, <2>3, AttachOneRows
<1> QED
  BY <1>3, <1>4

\* The last object of a heap that a query has added to is one of the new ones.
LEMMA LastIsNew ==
  ASSUME NEW h, IsHeap(h), NEW t, NEW S, NEW tab, NEW h2, IsScan(h, t, S, tab, h2),
         NEW i \in S
  PROVE  Len(h2) \in News(h, h2)
<1>1. /\ Len(h) \in Nat /\ DOMAIN h = 1 .. Len(h)
      /\ Len(h2) \in Nat /\ DOMAIN h2 = 1 .. Len(h2)
  BY HeapDomain DEF IsScan
<1>2. PICK o \in News(h, h2) : h2[o].id = i
  BY DEF IsScan
<1>3. o \in DOMAIN h2 /\ o \notin DOMAIN h
  BY <1>2 DEF News
<1>4. Len(h2) \in DOMAIN h2 /\ Len(h2) \notin DOMAIN h
  BY <1>1, <1>3
<1> QED
  BY <1>4 DEF News

LEMMA InsertOneStep ==
  ASSUME Typed, NEW t \in DOMAIN Parent, InsertOne(t)
  PROVE  Step
<1> DEFINE u == Parent[t]
<1>1. PICK o \in Objects(t), s \in InsertSetters[u] :
        LET tab == Apply(u, db[u], <<s>>)
        IN /\ Idle
           /\ IF Insertable(u, db[u], <<s>>)
              THEN /\ db' = [db EXCEPT ![u] = tab]
                   /\ heap' = Scanned(heap, u, DOMAIN tab \ DOMAIN db[u], tab)
                   /\ half' = <<o, Len(heap')>>
                   /\ Answer("insert", u, FALSE, <<>>, NewIn(heap, heap'), Nil)
              ELSE Failed("insert", t, <<o>>)
  BY Zenon DEF InsertOne
<1>2. calls < MaxCalls
  BY <1>1 DEF Idle
<1>3. CASE ~Insertable(u, db[u], <<s>>)
  BY <1>1, <1>2, <1>3, FailedStep
<1>4. CASE Insertable(u, db[u], <<s>>)
  <2> DEFINE tab == Apply(u, db[u], <<s>>)
             S == DOMAIN tab \ DOMAIN db[u]
  <2>1. /\ db' = [db EXCEPT ![u] = tab] /\ heap' = Scanned(heap, u, S, tab)
        /\ half' = <<o, Len(heap')>>
        /\ Answer("insert", u, FALSE, <<>>, NewIn(heap, heap'), Nil)
    BY <1>1, <1>4
  <2>2. /\ out'.call = "insert" /\ out'.parent = Nil /\ calls' = calls + 1
        /\ \A w \in Tables : DOMAIN db'[w] \subseteq RowIds
    BY <2>1, AnswerFacts
  <2>3. u \in Tables /\ u \in DOMAIN Parent
    BY LinkFacts
  <2>4. DOMAIN tab \subseteq RowIds
    BY <2>1, <2>2, <2>3 DEF Typed
  <2>5. IsTable(u, tab) /\ Leaves(db[u], {}, tab) /\ \E i : i \in S
    BY <1>4, <2>3, <2>4, OneSetter, InsertRows
  <2> HIDE DEF tab
  <2>6. IsScan(heap, u, S \cap DOMAIN tab, tab, heap')
    BY <2>1, <2>3, <2>5, ScannedIsScan DEF Typed
  <2>7. IsHeap(heap') /\ Kept(heap, heap') /\ News(heap, heap') \subseteq ObjectsIn(heap', u)
    BY <2>6, ScanKeeps
  <2>8. Len(heap') \in News(heap, heap')
    <3>1. PICK i : i \in S \cap DOMAIN tab
      BY <2>5
    <3>2. IsHeap(heap)
      BY DEF Typed
    <3> HIDE DEF S
    <3> QED BY <2>6, <3>1, <3>2, LastIsNew
  <2>9. o \in Objects(t)' /\ Len(heap') \in Objects(u)'
    BY <2>7, <2>8 DEF Objects, ObjectsIn, Kept
  <2>10. HalfTyped'
    BY <2>1, <2>9 DEF HalfTyped
  <2> HIDE DEF u, S
  <2>11. Typed'
    BY <1>2, <2>1, <2>2, <2>3, <2>5, <2>7, <2>10, TableWritten
  <2>12. OnlyNamed
    BY <2>1, <2>3, <2>5, NamedWritten
  <2> QED
    BY <2>2, <2>11, <2>12 DEF Step, Acked, Renewed, Loaded
<1> QED
  BY <1>3, <1>4

LEMMA AttachManyStep ==
  ASSUME Typed, NEW t \in DOMAIN Parent, AttachMany(t)
  PROVE  Step
<1>1. PICK p \in Objects(Parent[t]), os \in Slices(t) :
        LET all == UpdateAllOf(t, os, AttachSetter(t, p))
        IN /\ Idle
           /\ os # <<>>
           /\ db' = [db EXCEPT ![t] = all.tab]
           /\ heap' = Related(all.copied.heap, all.copied.slice, p)
           /\ UNCHANGED half
           /\ Answer("attach", t, FALSE, os, all.copied.slice, p)
  BY Zenon DEF AttachMany
<1> DEFINE s == AttachSetter(t, p)
           all == UpdateAllOf(t, os, s)
           tab == all.tab
           copied == all.copied
           h1 == copied.heap
           new == copied.slice
<1>2. /\ calls < MaxCalls /\ os # <<>> /\ db' = [db EXCEPT ![t] = tab]
      /\ heap' = Related(h1, new, p) /\ half' = half /\ Answer("attach", t, FALSE, os, new, p)
  BY <1>1 DEF Idle
<1>3. t \in Tables /\ Parent[t] # t
  BY LinkFacts
<1>4. s = AttachSetter(t, p) /\ all = UpdateAllOf(t, os, s)
  OBVIOUS
<1> HIDE DEF s, all
<1>5. /\ s \in SetterOf(t, DOMAIN s) /\ Key(t) \notin DOMAIN s
      /\ Link(t) \in DOMAIN s /\ s[Link(t)] = heap[p].id
  BY <1>4, AttachSetterTyped
<1>6. /\ IsTable(t, tab) /\ Leaves(db[t], PkIN(os), tab)
      /\ tab = Updated(t, db[t], PkIN(os), s)
      /\ IsRenewedAll(heap, t, os, tab, copied)
  BY <1>3, <1>4, <1>5, UpdateAllRenews
<1> HIDE DEF tab, copied
<1>7. DOMAIN tab = DOMAIN db[t] /\ \A i \in PkIN(os) \cap DOMAIN db[t] : tab[i][Link(t)] = heap[p].id
  <2>1. IsTable(t, db[t])
    BY <1>3 DEF Typed
  <2>2. IsAttached(t, db[t], PkIN(os), s[Link(t)], tab)
    BY <1>5, <1>6, <2>1, AttachedRow
  <2> QED
    BY <1>5, <2>2 DEF IsAttached
<1>8. /\ IsHeap(h1) /\ Kept(heap, h1) /\ \A o \in DOMAIN heap : h1[o] = heap[o]
      /\ IsSlice(h1, t, new) /\ DOMAIN new = DOMAIN os
      /\ \A k \in DOMAIN os :
           /\ h1[new[k]].id = heap[os[k]].id
           /\ heap[os[k]].id \in DOMAIN tab => h1[new[k]].row = tab[heap[os[k]].id]
  BY <1>6 DEF IsRenewedAll
<1>9. 1 \in DOMAIN new
  BY <1>2, <1>8, SliceFacts
<1>10. p \in DOMAIN heap /\ heap[p].table = Parent[t]
  BY DEF Objects
<1>11. p \in ObjectsIn(h1, Parent[t]) /\ h1[p] = heap[p]
  BY <1>8, <1>10 DEF ObjectsIn, Kept
<1>12. IsRelated(h1, t, new, p, heap')
  <2> HIDE DEF h1, new
  <2> QED BY <1>2, <1>8, <1>9, <1>11, RelatedHeap
<1> HIDE DEF h1, new
<1>13. /\ IsHeap(heap') /\ SameRows(h1, heap')
       /\ \A q \in Range(new) : heap'[q].one = p
       /\ Range(new) \subseteq heap'[p].many[t]
  BY <1>12 DEF IsRelated
<1>14. Kept(heap, heap')
  BY <1>8, <1>13, KeptKept
<1>15. /\ out'.call = "attach" /\ out'.parent = p /\ out'.given = os /\ out'.slice = new
       /\ calls' = calls + 1
  BY <1>2 DEF Answer
<1>16. Typed'
  BY <1>2, <1>3, <1>6, <1>13, <1>14, <1>15, HalfKept, TableWritten
<1>17. OnlyNamed
  <2>1. \A i \in PkIN(os) \cap DOMAIN db[t] :
          \E o \in Range(out'.given) : heap[o].table = t /\ heap[o].id = i
    BY <1>15, PkNamed
  <2> QED BY <1>2, <1>3, <1>6, <2>1, NamedWritten
<1>18. db'[t] = tab
  BY <1>2, <1>3 DEF Typed
<1>19. heap'[p].id = heap[p].id
  BY <1>11, <1>13 DEF SameRows, SameRow, ObjectsIn
<1>20. ASSUME NEW o \in Range(new)
       PROVE  /\ heap'[o].table = t
              /\ heap'[o].id \in DOMAIN tab =>
                   heap'[o].row = tab[heap'[o].id] /\ tab[heap'[o].id][Link(t)] = heap[p].id
  <2>1. PICK k \in DOMAIN os : o = new[k]
    BY <1>8 DEF Range
  <2>2. o \in DOMAIN h1 /\ h1[o].table = t
    BY <1>8 DEF IsSlice, ObjectsIn
  <2>3. heap'[o].table = t /\ heap'[o].id = h1[o].id /\ heap'[o].row = h1[o].row
    BY <1>13, <2>2 DEF SameRows, SameRow
  <2>4. heap[os[k]].id \in PkIN(os)
    BY DEF PkIN, IdsOf, Range
  <2>5. heap'[o].id = heap[os[k]].id
    BY <1>8, <2>1, <2>3
  <2>6. heap[os[k]].id \in DOMAIN tab => heap'[o].row = tab[heap[os[k]].id]
    BY <1>8, <2>1, <2>3
  <2> QED
    BY <1>7, <2>3, <2>4, <2>5, <2>6
<1>21. Acked
  BY <1>13, <1>15, <1>18, <1>19, <1>20 DEF Acked
<1>22. Renewed
  BY <1>15, <1>18, <1>20 DEF Renewed
<1> QED
  BY <1>15, <1>16, <1>17, <1>21, <1>22 DEF Step, Loaded

\* The setters of InsertFiles: each has the link, with the key of the parent.
LinksTo(t, id, linked) ==
  \A k \in DOMAIN linked :
    /\ DOMAIN linked[k] \subseteq Range(Columns[t])
    /\ Link(t) \in DOMAIN linked[k] /\ linked[k][Link(t)] = id

LEMMA LinkedSetters ==
  ASSUME NEW t \in DOMAIN Parent, NEW id \in RowIds, NEW m \in Nat,
         NEW ss \in [1 .. m -> InsertSetters[t]], 1 \in 1 .. m,
         NEW linked, DOMAIN linked = 1 .. m,
         \A k \in 1 .. m : linked[k] = Linked(t, id, ss[k])
  PROVE  IsSetters(t, linked) /\ LinksTo(t, id, linked)
<1>1. t \in Tables /\ Link(t) \in Range(Columns[t])
  BY LinkFacts, KeyFacts
<1>2. DOMAIN linked = 1 .. m /\ \A k \in 1 .. m : linked[k] = Linked(t, id, ss[k])
  OBVIOUS
<1>3. \A s \in InsertSetters[t] : DOMAIN s \subseteq Range(Columns[t])
  BY <1>1, SetterTyped
<1>4. \A s \in InsertSetters[t] :
        /\ DOMAIN Linked(t, id, s) \subseteq Range(Columns[t])
        /\ Link(t) \in DOMAIN Linked(t, id, s) /\ Linked(t, id, s)[Link(t)] = id
  BY <1>1, <1>3 DEF Linked
<1>5. \A x \in Range(linked) : \E s \in InsertSetters[t] : x = Linked(t, id, s)
  BY <1>2 DEF Range
<1>6. Fit(t, Range(linked))
  <2>1. Fit(t, {Linked(t, id, s) : s \in InsertSetters[t]})
    BY ModelsConstants
  <2>2. Range(linked) \subseteq {Linked(t, id, s) : s \in InsertSetters[t]}
    BY <1>5
  <2> QED BY <2>1, <2>2 DEF Fit
<1>7. IsSetters(t, linked)
  BY <1>2, <1>4, <1>5, <1>6 DEF IsSetters
<1> QED
  BY <1>2, <1>4, <1>7 DEF LinksTo

LEMMA InsertManyStep ==
  ASSUME Typed, NEW t \in DOMAIN Parent, InsertMany(t)
  PROVE  Step
<1>1. PICK p \in Objects(Parent[t]), ss \in BoundedSeq(InsertSetters[t], 2) :
        LET linked == [k \in DOMAIN ss |-> Linked(t, heap[p].id, ss[k])]
            tab == Apply(t, db[t], linked)
            h == Scanned(heap, t, DOMAIN tab \ DOMAIN db[t], tab)
            os == NewIn(heap, h)
        IN /\ Idle
           /\ ss # <<>>
           /\ IF Insertable(t, db[t], linked)
              THEN /\ db' = [db EXCEPT ![t] = tab]
                   /\ heap' = Related(h, os, p)
                   /\ UNCHANGED half
                   /\ Answer("insert", t, FALSE, <<>>, os, p)
              ELSE Failed("insert", t, <<>>)
  BY Zenon DEF InsertMany
<1> DEFINE id == heap[p].id
           linked == [k \in DOMAIN ss |-> Linked(t, id, ss[k])]
           tab == Apply(t, db[t], linked)
           S == DOMAIN tab \ DOMAIN db[t]
           h == Scanned(heap, t, S, tab)
           os == NewIn(heap, h)
<1>2. calls < MaxCalls
  BY <1>1 DEF Idle
<1>3. CASE ~Insertable(t, db[t], linked)
  <2>1. Failed("insert", t, <<>>)
    BY <1>1, <1>3
  <2> QED
    BY <1>2, <2>1, FailedStep
<1>4. CASE Insertable(t, db[t], linked)
  <2>1. /\ db' = [db EXCEPT ![t] = tab] /\ heap' = Related(h, os, p) /\ half' = half
        /\ Answer("insert", t, FALSE, <<>>, os, p) /\ ss # <<>>
    BY <1>1, <1>4
  <2>2. /\ out'.call = "insert" /\ out'.parent = p /\ out'.slice = os /\ calls' = calls + 1
        /\ \A w \in Tables : DOMAIN db'[w] \subseteq RowIds
    BY <2>1 DEF Answer
  <2>3. t \in Tables /\ Link(t) \in Data(t)
    BY LinkFacts
  <2>4. p \in DOMAIN heap /\ heap[p].table = Parent[t] /\ id \in RowIds
    BY DEF Objects, Typed, IsHeap, InHeap, Object
  <2>5. PICK m \in Nat : ss \in [1 .. m -> InsertSetters[t]] /\ 1 \in 1 .. m
    <3>1. PICK m \in 0 .. 2 : ss \in [1 .. m -> InsertSetters[t]]
      BY DEF BoundedSeq, SeqOf
    <3>2. m = 0 => ss = <<>>
      BY <3>1
    <3> QED
      BY <2>1, <3>1, <3>2
  <2>6. DOMAIN linked = 1 .. m /\ \A k \in 1 .. m : linked[k] = Linked(t, id, ss[k])
    BY <2>5
  <2> HIDE DEF linked, id
  <2>7. /\ IsSetters(t, linked)
        /\ \A k \in DOMAIN linked :
             /\ DOMAIN linked[k] \subseteq Range(Columns[t])
             /\ Link(t) \in DOMAIN linked[k] /\ linked[k][Link(t)] = id
    BY <2>4, <2>5, <2>6, LinkedSetters DEF LinksTo
  <2>8. DOMAIN tab \subseteq RowIds
    BY <2>1, <2>2, <2>3 DEF Typed
  <2>9. /\ IsTable(t, tab) /\ Leaves(db[t], {}, tab) /\ \E i : i \in S
        /\ \A i \in S : \E k \in DOMAIN linked :
             tab[i] = RowOf(t, Named(t, linked[1], linked[k]))
    BY <1>4, <2>3, <2>7, <2>8, InsertRows
  <2>10. S \cap DOMAIN tab = S
    OBVIOUS
  <2> HIDE DEF tab, S
  <2>11. IsHeap(heap) /\ IsScan(heap, t, S, tab, h)
    BY <2>3, <2>9, <2>10, ScannedIsScan DEF Typed
  <2> HIDE DEF h
  <2>12. IsHeap(h) /\ Kept(heap, h) /\ News(heap, h) \subseteq ObjectsIn(h, t)
    BY <2>11, ScanKeeps
  <2>13. /\ Len(heap) \in Nat /\ DOMAIN heap = 1 .. Len(heap)
         /\ Len(h) \in Nat /\ DOMAIN h = 1 .. Len(h) /\ Len(h) \in News(heap, h)
    BY <2>9, <2>11, <2>12, HeapDomain, LastIsNew
  <2>14. Len(heap) < Len(h)
    BY <2>13 DEF News
  <2>15. /\ Range(os) = News(heap, h) /\ DOMAIN os = 1 .. Len(h) - Len(heap)
    BY <2>11, <2>12, <2>13, <2>14, NewInNews
  <2> HIDE DEF os
  <2>16. Len(h) - Len(heap) \in Nat /\ 1 \in 1 .. Len(h) - Len(heap)
    BY <2>13, <2>14
  <2>17. IsSlice(h, t, os) /\ 1 \in DOMAIN os
    BY <2>12, <2>15, <2>16 DEF IsSlice
  <2>18. h[p] = heap[p] /\ p \in DOMAIN h
    BY <2>4, <2>11 DEF IsScan
  <2>19. p \in ObjectsIn(h, Parent[t])
    BY <2>4, <2>18 DEF ObjectsIn
  <2>20. IsRelated(h, t, os, p, heap')
    BY <2>1, <2>12, <2>17, <2>19, RelatedHeap
  <2>21. /\ IsHeap(heap') /\ SameRows(h, heap')
         /\ \A q \in Range(os) : heap'[q].one = p
         /\ Range(os) \subseteq heap'[p].many[t]
    BY <2>20 DEF IsRelated
  <2>22. Kept(heap, heap')
    BY <2>12, <2>21, KeptKept
  <2>23. Typed'
    BY <1>2, <2>1, <2>2, <2>3, <2>9, <2>21, <2>22, HalfKept, TableWritten
  <2>24. OnlyNamed
    BY <2>1, <2>3, <2>9, NamedWritten
  <2>25. db'[t] = tab
    BY <2>1, <2>3 DEF Typed
  <2>26. ASSUME NEW i \in S  PROVE tab[i][Link(t)] = id
    <3>1. PICK k \in DOMAIN linked : tab[i] = RowOf(t, Named(t, linked[1], linked[k]))
      BY <2>9
    <3>2. 1 \in DOMAIN linked /\ linked[1] \in Range(linked) /\ linked[k] \in Range(linked)
      BY <2>7 DEF IsSetters, Range
    <3>3. Cardinality(DOMAIN linked[k]) = Cardinality(DOMAIN linked[1])
      BY <1>4, <3>2 DEF Insertable
    <3>4. Named(t, linked[1], linked[k])[Link(t)] = id
      BY <2>7, <3>2, <3>3, NamedLink
    <3>5. DOMAIN Named(t, linked[1], linked[k]) = DOMAIN linked[1]
      BY DEF Named
    <3> QED
      BY <2>3, <2>7, <3>1, <3>2, <3>4, <3>5 DEF RowOf
  <2>27. ASSUME NEW o \in Range(os)
         PROVE  heap'[o].table = t /\ tab[heap'[o].id][Link(t)] = id
    <3>1. o \in DOMAIN h /\ h[o].table = t /\ h[o].id \in S
      BY <2>11, <2>15 DEF IsScan, News
    <3> QED
      BY <2>21, <2>26, <3>1 DEF SameRows, SameRow
  <2>28. heap'[p].id = id
    BY <2>18, <2>21 DEF SameRows, SameRow, id
  <2>29. Acked
    BY <2>2, <2>21, <2>25, <2>27, <2>28 DEF Acked
  <2> QED
    BY <2>2, <2>23, <2>24, <2>29 DEF Step, Renewed, Loaded
<1> QED
  BY <1>3, <1>4

-----------------------------------------------------------------------------
(***************************************************************************)
(* The relations read.                                                     *)
(***************************************************************************)

\* A child and a parent that are made to point at each other, and a child that
\* is made to point at none.
Paired(h, t, o, p) == [h EXCEPT ![o].one = p, ![p].many[t] = {o}]
Unlinked(h, o) == [h EXCEPT ![o].one = Nil]

IsPaired(h, t, o, p, h2) ==
  IsHeap(h2) /\ SameRows(h, h2) /\ h2[o].one = p /\ h2[p].many[t] = {o}

LEMMA PairedHeap ==
  ASSUME NEW h, IsHeap(h), NEW t \in DOMAIN Parent, NEW o \in ObjectsIn(h, t),
         NEW p \in ObjectsIn(h, Parent[t])
  PROVE  IsPaired(h, t, o, p, Paired(h, t, o, p))
<1> DEFINE h2 == Paired(h, t, o, p)
<1>1. /\ o \in DOMAIN h /\ h[o].table = t /\ p \in DOMAIN h /\ h[p].table = Parent[t]
      /\ o # p /\ t \in Children(Parent[t])
  BY LinkFacts DEF ObjectsIn
<1>2. h = [q \in DOMAIN h |-> h[q]]
  BY HeapDomain
<1>3. h2 = [q \in DOMAIN h |-> IF q = p THEN [h[q] EXCEPT !.many[t] = {o}]
                               ELSE IF q = o THEN [h[q] EXCEPT !.one = p] ELSE h[q]]
  BY <1>1, <1>2 DEF Paired
<1>4. DOMAIN h2 = DOMAIN h /\ h2 = [q \in DOMAIN h2 |-> h2[q]]
  BY <1>3
<1>5. /\ h2[o] = WithOne(h[o], p) /\ h2[p] = WithMany(h[p], t, {o})
      /\ \A q \in DOMAIN h : q # o /\ q # p => h2[q] = h[q]
  BY <1>1, <1>3 DEF WithOne, WithMany
<1> HIDE DEF h2
<1>6. \A q \in DOMAIN h : IsRelinked(h, t, h[q], h2[q])
  BY <1>1, <1>5 DEF IsRelinked, ObjectsIn
<1>7. IsHeap(h2) /\ SameRows(h, h2)
  BY <1>4, <1>6, Relinked
<1>8. h[o] \in Object(t) /\ h[p] \in Object(Parent[t])
  BY <1>1 DEF IsHeap, InHeap
<1>9. h2[o].one = p /\ h2[p].many[t] = {o}
  <2>1. WithOne(h[o], p).one = p
    BY <1>8 DEF WithOne, Object
  <2>2. WithMany(h[p], t, {o}).many[t] = {o}
    BY <1>1, <1>8, PointedFields
  <2> QED BY <1>5, <2>1, <2>2
<1> QED
  BY <1>7, <1>9 DEF h2, IsPaired

LEMMA UnlinkedHeap ==
  ASSUME NEW h, IsHeap(h), NEW t \in DOMAIN Parent, NEW o \in ObjectsIn(h, t),
         NEW h2, h2 = Unlinked(h, o)
  PROVE  IsHeap(h2) /\ SameRows(h, h2) /\ h2[o].one = Nil
<1>1. o \in DOMAIN h /\ h[o].table = t
  BY DEF ObjectsIn
<1>2. h = [q \in DOMAIN h |-> h[q]]
  BY HeapDomain
<1>3. /\ DOMAIN h2 = DOMAIN h /\ h2 = [q \in DOMAIN h2 |-> h2[q]]
      /\ h2[o] = WithOne(h[o], Nil)
      /\ \A q \in DOMAIN h : q # o => h2[q] = h[q]
  BY <1>1, <1>2 DEF WithOne, Unlinked
<1>4. \A q \in DOMAIN h : IsRelinked(h, t, h[q], h2[q])
  BY <1>1, <1>3 DEF IsRelinked
<1>5. IsHeap(h2) /\ SameRows(h, h2)
  BY <1>3, <1>4, Relinked
<1>6. h[o] \in Object(t)
  BY <1>1 DEF IsHeap, InHeap
<1>7. h2[o].one = Nil
  BY <1>3, <1>6 DEF WithOne, Object
<1> QED
  BY <1>5, <1>7

\* What every load leaves, once the heap is known to be one.
LEMMA LoadStep ==
  ASSUME Typed, Idle, UNCHANGED <<db, half>>, IsHeap(heap'),
         NEW h, Kept(heap, h), SameRows(h, heap'),
         NEW call, call \in {"load", "loadAll", "loadMany", "preload"},
         NEW t, NEW err, NEW given, Answer(call, t, err, given, given, Nil)
  PROVE  /\ Loaded => Step
         /\ out'.call = call /\ out'.table = t /\ out'.err = err /\ out'.given = given
<1>1. /\ out'.call = call /\ out'.table = t /\ out'.err = err /\ out'.given = given
  BY AnswerFacts
<1>2. Kept(heap, heap')
  BY KeptKept
<1>3. calls < MaxCalls
  BY DEF Idle
<1>4. Typed' /\ OnlyNamed /\ Acked
  BY <1>2, <1>3, NothingWritten
<1>5. Renewed
  BY <1>1 DEF Renewed
<1> QED
  BY <1>1, <1>4, <1>5 DEF Step

LEMMA SameRowsSame == ASSUME NEW h PROVE SameRows(h, h)
  BY DEF SameRows, SameRow

LEMMA LoadOneStep ==
  ASSUME Typed, NEW t \in DOMAIN Parent, LoadOne(t)
  PROVE  Step
<1> DEFINE u == Parent[t]
<1>1. PICK o \in Objects(t), ok \in BOOLEAN :
        LET ids == IF ok THEN ParentIds(t, {LinkOf(t, o)}) ELSE {}
            h == Scanned(heap, u, ids, db[u])
        IN /\ Idle
           /\ IF ids # {} THEN heap' = Paired(h, t, o, Len(h)) ELSE heap' = Unlinked(heap, o)
           /\ UNCHANGED <<db, half>>
           /\ Answer("load", t, ids = {}, <<o>>, <<o>>, Nil)
  BY Zenon DEF LoadOne, Paired, Unlinked
<1> DEFINE ids == IF ok THEN ParentIds(t, {LinkOf(t, o)}) ELSE {}
           h == Scanned(heap, u, ids, db[u])
<1>2. /\ Idle /\ UNCHANGED <<db, half>>
      /\ IF ids # {} THEN heap' = Paired(h, t, o, Len(h)) ELSE heap' = Unlinked(heap, o)
      /\ Answer("load", t, ids = {}, <<o>>, <<o>>, Nil)
  BY <1>1
<1>3. IsHeap(heap) /\ o \in ObjectsIn(heap, t) /\ o \in DOMAIN heap
  BY DEF Typed, Objects, ObjectsIn
<1>4. CASE ids = {}
  <2>1. IsHeap(heap') /\ SameRows(heap, heap')
    BY <1>2, <1>3, <1>4, UnlinkedHeap
  <2>2. (Loaded => Step) /\ out'.err = (ids = {})
    <3> HIDE DEF ids
    <3> QED BY <1>2, <2>1, KeptSame, LoadStep
  <2>3. Loaded
    BY <1>4, <2>2 DEF Loaded
  <2> QED BY <2>2, <2>3
<1>5. CASE ids # {}
  <2> DEFINE i == LinkOf(t, o)
             p == Len(h)
  <2>1. ids = {i} /\ i \in DOMAIN db[u]
    BY <1>5 DEF ParentIds
  <2>2. u \in Tables
    BY LinkFacts
  <2>3. ids \cap DOMAIN db[u] = {i}
    BY <2>1
  <2> HIDE DEF ids, i
  <2>4. IsScan(heap, u, {i}, db[u], h)
    BY <1>3, <2>2, <2>3, ScannedIsScan DEF Typed
  <2>5. heap' = Paired(h, t, o, p)
    BY <1>2, <1>5
  <2> HIDE DEF h
  <2>6. IsHeap(h) /\ Kept(heap, h) /\ News(heap, h) \subseteq ObjectsIn(h, u)
    BY <2>4, ScanKeeps
  <2>7. p \in News(heap, h)
    BY <1>3, <2>4, LastIsNew
  <2> HIDE DEF p
  <2>8. /\ o \in ObjectsIn(h, t) /\ p \in ObjectsIn(h, u) /\ p \in DOMAIN h /\ o \in DOMAIN h
        /\ h[o] = heap[o] /\ h[p].id = i
    BY <1>3, <2>4, <2>6, <2>7 DEF IsScan, ObjectsIn, News
  <2>9. /\ IsHeap(heap') /\ SameRows(h, heap') /\ heap'[o].one = p /\ heap'[p].many[t] = {o}
    <3>1. IsPaired(h, t, o, p, heap')
      BY <2>5, <2>6, <2>8, PairedHeap
    <3> QED BY <3>1 DEF IsPaired
  <2>10. (Loaded => Step) /\ out'.call = "load" /\ out'.table = t /\ out'.given = <<o>>
    BY <1>2, <2>6, <2>9, LoadStep
  <2>11. p # Nil
    BY <2>6, <2>8, HeapDomain DEF Nil
  <2>12. heap'[o].row[Link(t)] = i /\ heap'[p].id = i
    BY <2>8, <2>9 DEF SameRows, SameRow, LinkOf, i
  <2>13. Range(<<o>>) = {o}
    BY DEF Range
  <2>14. Loaded
    BY <2>1, <2>9, <2>10, <2>11, <2>12, <2>13 DEF Loaded
  <2> QED
    BY <2>10, <2>14
<1> QED
  BY <1>4, <1>5

LEMMA ThenLoadStep ==
  ASSUME Typed, NEW t \in DOMAIN Parent, thenLoadBuilder(t)
  PROVE  Step
<1>1. PICK o \in Objects(t) :
        /\ Idle /\ ParentIds(t, {LinkOf(t, o)}) = {}
        /\ heap' = Unlinked(heap, o)
        /\ UNCHANGED <<db, half>>
        /\ Answer("load", t, FALSE, <<o>>, <<o>>, Nil)
  BY Zenon DEF thenLoadBuilder, Unlinked, Done
<1>2. IsHeap(heap) /\ o \in ObjectsIn(heap, t) /\ o \in DOMAIN heap
  BY DEF Typed, Objects, ObjectsIn
<1>3. IsHeap(heap') /\ SameRows(heap, heap') /\ heap'[o].one = Nil
  BY <1>1, <1>2, UnlinkedHeap
<1>4. (Loaded => Step) /\ out'.call = "load" /\ out'.table = t /\ out'.given = <<o>>
  <2>1. Kept(heap, heap)
    BY KeptSame
  <2>2. Loaded => Step
    BY <1>1, <1>3, <2>1, LoadStep
  <2> QED BY <1>1, <2>2 DEF Answer
<1>5. heap'[o].row = heap[o].row
  BY <1>2, <1>3 DEF SameRows, SameRow
<1>6. LinkOf(t, o) \notin DOMAIN db[Parent[t]] /\ Range(<<o>>) = {o}
  BY <1>1 DEF ParentIds, Range
<1>7. Loaded
  BY <1>3, <1>4, <1>5, <1>6 DEF Loaded, LinkOf
<1> QED
  BY <1>4, <1>7

\* What a query of one table adds to the heap.
LEMMA ScanFacts ==
  ASSUME Typed, NEW t \in Tables, NEW ids, NEW S, S = ids \cap DOMAIN db[t],
         NEW h, h = Scanned(heap, t, ids, db[t])
  PROVE  /\ IsScan(heap, t, S, db[t], h) /\ IsHeap(h) /\ Kept(heap, h)
         /\ Range(NewIn(heap, h)) = News(heap, h) /\ News(heap, h) \subseteq ObjectsIn(h, t)
<1>1. IsHeap(heap) /\ IsScan(heap, t, S, db[t], h)
  BY ScannedIsScan DEF Typed
<1>2. IsHeap(h) /\ Kept(heap, h) /\ News(heap, h) \subseteq ObjectsIn(h, t)
  BY <1>1, ScanKeeps
<1>3. /\ Len(heap) \in Nat /\ DOMAIN heap = 1 .. Len(heap)
      /\ Len(h) \in Nat /\ DOMAIN h = 1 .. Len(h)
  BY <1>1, <1>2, HeapDomain
<1>4. Len(heap) <= Len(h)
  <2>1. Len(heap) = 0 \/ Len(heap) \in 1 .. Len(h)
    BY <1>2, <1>3 DEF Kept
  <2> QED
    BY <1>3, <2>1
<1>5. Range(NewIn(heap, h)) = News(heap, h)
  BY <1>1, <1>2, <1>4, NewInNews
<1> QED
  BY <1>1, <1>2, <1>5

LEMMA LoadOneAllStep ==
  ASSUME Typed, NEW t \in DOMAIN Parent, LoadOneAll(t)
  PROVE  Step
<1> DEFINE u == Parent[t]
<1>1. PICK os \in Slices(t) :
        LET h == Scanned(heap, u, ParentIds(t, {LinkOf(t, o) : o \in Range(os)}), db[u])
            found == Range(NewIn(heap, h))
            parents(o) == {p \in found : h[p].id = LinkOf(t, o)}
        IN /\ Idle
           /\ heap' = [o \in DOMAIN h |->
                CASE o \in Range(os) /\ parents(o) # {} ->
                       [h[o] EXCEPT !.one = CHOOSE p \in parents(o) : TRUE]
                  [] o \in found ->
                       [h[o] EXCEPT !.many[t] = {c \in Range(os) : LinkOf(t, c) = h[o].id}]
                  [] OTHER -> h[o]]
           /\ UNCHANGED <<db, half>>
           /\ Answer("loadAll", t, FALSE, os, os, Nil)
  BY Zenon DEF LoadOneAll, Done
<1> DEFINE links == {LinkOf(t, o) : o \in Range(os)}
           ids == ParentIds(t, links)
           h == Scanned(heap, u, ids, db[u])
           found == Range(NewIn(heap, h))
           parents(o) == {p \in found : h[p].id = LinkOf(t, o)}
           kids(p) == {c \in Range(os) : LinkOf(t, c) = h[p].id}
           parent(o) == CHOOSE p \in parents(o) : TRUE
<1>2. /\ Idle /\ UNCHANGED <<db, half>> /\ Answer("loadAll", t, FALSE, os, os, Nil)
      /\ heap' = [o \in DOMAIN h |->
           CASE o \in Range(os) /\ parents(o) # {} -> WithOne(h[o], parent(o))
             [] o \in found -> WithMany(h[o], t, kids(o))
             [] OTHER -> h[o]]
  BY <1>1 DEF WithOne, WithMany
<1>3. u \in Tables /\ u # t
  BY LinkFacts
<1>4. ids = links \cap DOMAIN db[u]
  BY DEF ParentIds
<1>5. ids = ids \cap DOMAIN db[u]
  BY <1>4
<1> HIDE DEF ids
<1>6. /\ IsScan(heap, u, ids, db[u], h) /\ IsHeap(h) /\ Kept(heap, h)
      /\ found = News(heap, h) /\ found \subseteq ObjectsIn(h, u)
  BY <1>3, <1>5, ScanFacts
<1> HIDE DEF h, found
<1>7. \A o \in Range(os) :
        /\ o \in DOMAIN heap /\ o \in DOMAIN h /\ h[o] = heap[o] /\ h[o].table = t
        /\ o \notin found
  BY <1>6, SliceFacts DEF IsSlice, ObjectsIn, IsScan, News
<1>8. DOMAIN heap' = DOMAIN h /\ heap' = [o \in DOMAIN heap' |-> heap'[o]]
  BY <1>2
<1>9. \A o \in Range(os) : parents(o) # {} =>
        parent(o) \in parents(o) /\ heap'[o] = WithOne(h[o], parent(o))
  BY <1>2, <1>7
<1>10. \A p \in found : p \in DOMAIN h /\ h[p].table = u /\ heap'[p] = WithMany(h[p], t, kids(p))
  BY <1>2, <1>6, <1>7 DEF ObjectsIn
<1>11. \A o \in DOMAIN h : (o \in Range(os) => parents(o) = {}) /\ o \notin found => heap'[o] = h[o]
  BY <1>2
<1>12. \A o : parents(o) \subseteq ObjectsIn(h, u)
  BY <1>6
<1>13. \A p : kids(p) \subseteq ObjectsIn(h, t)
  BY <1>7 DEF ObjectsIn
<1>14. \A o, p : p \in parents(o) <=> p \in found /\ h[p].id = LinkOf(t, o)
  OBVIOUS
<1>15. \A o, p : o \in kids(p) <=> o \in Range(os) /\ LinkOf(t, o) = h[p].id
  OBVIOUS
<1> HIDE DEF parents, parent, kids
<1>16. \A o \in DOMAIN h : IsRelinked(h, t, h[o], heap'[o])
  <2>1. \A o \in Range(os) : parents(o) # {} => IsRelinked(h, t, h[o], heap'[o])
    BY <1>7, <1>9, <1>12 DEF IsRelinked
  <2>2. \A p \in found : IsRelinked(h, t, h[p], heap'[p])
    BY <1>10, <1>13 DEF IsRelinked
  <2> QED
    BY <1>11, <2>1, <2>2 DEF IsRelinked
<1>17. IsHeap(heap') /\ SameRows(h, heap')
  BY <1>6, <1>8, <1>16, Relinked
<1>18. Loaded => Step
  BY <1>2, <1>6, <1>17, LoadStep
<1>19. out'.call = "loadAll" /\ out'.table = t /\ out'.given = os
  BY <1>2, AnswerFacts
<1>20. \A o \in DOMAIN h : h[o] \in Object(h[o].table)
  BY <1>6 DEF IsHeap, InHeap
<1>21. t \in Children(u)
  BY LinkFacts
<1>22. ASSUME NEW o \in Range(os), heap'[o].row[Link(t)] \in DOMAIN db[u]
       PROVE  /\ heap'[o].one # Nil /\ heap'[heap'[o].one].id = heap'[o].row[Link(t)]
              /\ o \in heap'[heap'[o].one].many[t]
  <2> DEFINE p == parent(o)
  <2>1. heap'[o].row[Link(t)] = LinkOf(t, o)
    BY <1>7, <1>17 DEF SameRows, SameRow, LinkOf
  <2>2. LinkOf(t, o) \in ids
    BY <1>4, <1>22, <2>1
  <2>3. parents(o) # {}
    BY <1>6, <1>14, <2>2 DEF IsScan
  <2>4. p \in found /\ h[p].id = LinkOf(t, o) /\ heap'[o] = WithOne(h[o], p)
    BY <1>9, <1>14, <2>3
  <2> HIDE DEF p
  <2>5. heap'[o].one = p
    <3>1. h[o] \in Object(t)
      BY <1>7, <1>20
    <3> QED BY <2>4, <3>1 DEF WithOne, Object
  <2>6. p \in DOMAIN h /\ h[p].table = u /\ heap'[p] = WithMany(h[p], t, kids(p))
    BY <1>10, <2>4
  <2>7. heap'[p].many[t] = kids(p)
    <3>1. h[p] \in Object(u)
      BY <1>20, <2>6
    <3> QED BY <1>21, <2>6, <3>1, PointedFields
  <2>8. o \in kids(p)
    BY <1>15, <2>4
  <2>9. heap'[p].id = h[p].id
    BY <1>17, <2>6 DEF SameRows, SameRow
  <2>10. p # Nil
    BY <1>6, <2>6, HeapDomain DEF Nil
  <2> QED
    BY <2>1, <2>4, <2>5, <2>7, <2>8, <2>9, <2>10
<1>23. Loaded
  BY <1>19, <1>22 DEF Loaded
<1> QED
  BY <1>18, <1>23

\* What a load of a to-many relation must leave.
LEMMA ManyLoaded ==
  ASSUME NEW t, out'.call = "loadMany", out'.table = t,
         \A p \in Range(out'.given) : ~out'.err =>
           {heap'[o].id : o \in heap'[p].many[t]}
             = {i \in DOMAIN db[t] : db[t][i][Link(t)] = heap'[p].id}
  PROVE  Loaded
<1> DEFINE Have(p) == {heap'[o].id : o \in heap'[p].many[t]}
           Rows(p) == {i \in DOMAIN db[t] : db[t][i][Link(t)] = heap'[p].id}
<1>1. Loaded <=> (~out'.err => \A p \in Range(out'.given) : Have(p) = Rows(p))
  BY DEF Loaded
<1>2. \A p \in Range(out'.given) : ~out'.err => Have(p) = Rows(p)
  OBVIOUS
<1> HIDE DEF Have, Rows
<1> QED
  BY <1>1, <1>2

\* One parent, and the objects that are made its children.
IsDealt(h, t, p, new, h2) ==
  /\ IsHeap(h2) /\ SameRows(h, h2) /\ h2[p].many[t] = new

Dealt(h, t, p, new) ==
  [o \in DOMAIN h |->
     CASE o = p -> [h[o] EXCEPT !.many[t] = new]
       [] o # p /\ o \in new -> [h[o] EXCEPT !.one = p]
       [] OTHER -> h[o]]

LEMMA DealtHeap ==
  ASSUME NEW h, IsHeap(h), NEW t \in DOMAIN Parent, NEW p \in ObjectsIn(h, Parent[t]),
         NEW new, new \subseteq ObjectsIn(h, t)
  PROVE  IsDealt(h, t, p, new, Dealt(h, t, p, new))
<1> DEFINE h2 == Dealt(h, t, p, new)
<1>1. p \in DOMAIN h /\ h[p].table = Parent[t] /\ t \in Children(Parent[t])
  BY LinkFacts DEF ObjectsIn
<1>2. \A o \in new : o \in DOMAIN h /\ h[o].table = t /\ o # p
  BY <1>1, LinkFacts DEF ObjectsIn
<1>3. /\ DOMAIN h2 = DOMAIN h /\ h2 = [o \in DOMAIN h2 |-> h2[o]]
      /\ h2[p] = WithMany(h[p], t, new)
      /\ \A o \in new : h2[o] = WithOne(h[o], p)
      /\ \A o \in DOMAIN h : o # p /\ o \notin new => h2[o] = h[o]
  BY <1>1, <1>2 DEF Dealt, WithMany, WithOne
<1> HIDE DEF h2
<1>4. \A o \in DOMAIN h : IsRelinked(h, t, h[o], h2[o])
  BY <1>1, <1>2, <1>3 DEF IsRelinked
<1>5. IsHeap(h2) /\ SameRows(h, h2)
  BY <1>3, <1>4, Relinked
<1>6. h[p] \in Object(Parent[t])
  BY <1>1 DEF IsHeap, InHeap
<1>7. h2[p].many[t] = new
  BY <1>1, <1>3, <1>6, PointedFields
<1> QED
  BY <1>5, <1>7 DEF IsDealt, h2

LEMMA LoadManyStep ==
  ASSUME Typed, NEW t \in DOMAIN Parent, LoadMany(t)
  PROVE  Step
<1>1. PICK p \in Objects(Parent[t]), ok \in BOOLEAN :
        LET ids == IF ok THEN ChildIds(t, {heap[p].id}) ELSE {}
            h == Scanned(heap, t, ids, db[t])
        IN /\ Idle
           /\ heap' = Dealt(h, t, p, Range(NewIn(heap, h)))
           /\ UNCHANGED <<db, half>>
           /\ Answer("loadMany", t, ~ok, <<p>>, <<p>>, Nil)
  BY Zenon DEF LoadMany, Dealt
<1> DEFINE ids == IF ok THEN ChildIds(t, {heap[p].id}) ELSE {}
           h == Scanned(heap, t, ids, db[t])
           new == Range(NewIn(heap, h))
<1>2. /\ Idle /\ heap' = Dealt(h, t, p, new) /\ UNCHANGED <<db, half>>
      /\ Answer("loadMany", t, ~ok, <<p>>, <<p>>, Nil)
  BY <1>1
<1>3. t \in Tables
  BY LinkFacts
<1>4. ids = ids \cap DOMAIN db[t] /\ (ok => ids = {i \in DOMAIN db[t] : db[t][i][Link(t)] = heap[p].id})
  BY DEF ChildIds
<1> HIDE DEF ids
<1>5. /\ IsScan(heap, t, ids, db[t], h) /\ IsHeap(h) /\ Kept(heap, h)
      /\ new = News(heap, h) /\ new \subseteq ObjectsIn(h, t)
  BY <1>3, <1>4, ScanFacts
<1> HIDE DEF h, new
<1>6. p \in ObjectsIn(h, Parent[t]) /\ p \in DOMAIN h /\ h[p] = heap[p]
  BY <1>5 DEF Objects, ObjectsIn, IsScan
<1>7. IsHeap(heap') /\ SameRows(h, heap') /\ heap'[p].many[t] = new
  <2>1. IsDealt(h, t, p, new, heap')
    BY <1>2, <1>5, <1>6, DealtHeap
  <2> QED BY <2>1 DEF IsDealt
<1>8. (Loaded => Step) /\ out'.table = t /\ out'.given = <<p>> /\ out'.err = ~ok
      /\ out'.call = "loadMany"
  BY <1>2, <1>5, <1>7, LoadStep
<1>9. {heap'[o].id : o \in new} = ids
  <2>1. \A o \in new : heap'[o].id = h[o].id /\ h[o].id \in ids
    BY <1>5, <1>7 DEF IsScan, News, SameRows, SameRow
  <2>2. \A i \in ids : \E o \in new : h[o].id = i
    BY <1>5 DEF IsScan
  <2> QED BY <2>1, <2>2
<1>10. heap'[p].id = heap[p].id
  BY <1>6, <1>7 DEF SameRows, SameRow
<1>11. Range(<<p>>) = {p}
  BY DEF Range
<1>12. ok => {heap'[o].id : o \in heap'[p].many[t]} = {i \in DOMAIN db[t] : db[t][i][Link(t)] = heap'[p].id}
  BY <1>4, <1>7, <1>9, <1>10
<1>13. \A q \in Range(out'.given) : q = p
  BY <1>8, <1>11
<1>14. ~out'.err => ok
  BY <1>8
<1>15. Loaded
  BY <1>8, <1>12, <1>13, <1>14, ManyLoaded
<1> QED
  BY <1>8, <1>15

LEMMA LoadManyAllStep ==
  ASSUME Typed, NEW t \in DOMAIN Parent, LoadManyAll(t)
  PROVE  Step
<1> DEFINE u == Parent[t]
<1>1. PICK ps \in Slices(u) :
        LET h == Scanned(heap, t, ChildIds(t, IdsOf(ps)), db[t])
            os == NewIn(heap, h)
            owners(o) == {i \in DOMAIN ps : heap[ps[i]].id = h[o].row[Link(t)]}
        IN /\ Idle
           /\ heap' = [o \in DOMAIN h |->
                CASE o \in Range(ps) ->
                       [h[o] EXCEPT !.many[t] =
                          {c \in Range(os) : h[c].row[Link(t)] = h[o].id}]
                  [] o \in Range(os) -> [h[o] EXCEPT !.one = ps[Max(owners(o))]]
                  [] OTHER -> h[o]]
           /\ UNCHANGED <<db, half>>
           /\ Answer("loadMany", t, FALSE, ps, ps, Nil)
  BY Zenon DEF LoadManyAll, Done
<1> DEFINE ids == ChildIds(t, IdsOf(ps))
           h == Scanned(heap, t, ids, db[t])
           new == Range(NewIn(heap, h))
           owners(o) == {i \in DOMAIN ps : heap[ps[i]].id = h[o].row[Link(t)]}
           kids(p) == {c \in new : h[c].row[Link(t)] = h[p].id}
<1>2. /\ Idle /\ UNCHANGED <<db, half>> /\ Answer("loadMany", t, FALSE, ps, ps, Nil)
      /\ heap' = [o \in DOMAIN h |->
           CASE o \in Range(ps) -> WithMany(h[o], t, kids(o))
             [] o \in new -> WithOne(h[o], ps[Max(owners(o))])
             [] OTHER -> h[o]]
  BY <1>1 DEF WithOne, WithMany
<1>3. t \in Tables /\ u # t /\ t \in Children(u)
  BY LinkFacts
<1>4. \A i : i \in ids <=> i \in DOMAIN db[t] /\ db[t][i][Link(t)] \in IdsOf(ps)
  BY DEF ChildIds
<1>5. ids = ids \cap DOMAIN db[t]
  BY <1>4
<1> HIDE DEF ids
<1>6. /\ IsScan(heap, t, ids, db[t], h) /\ IsHeap(h) /\ Kept(heap, h)
      /\ new = News(heap, h) /\ new \subseteq ObjectsIn(h, t)
  BY <1>3, <1>5, ScanFacts
<1> HIDE DEF h, new
<1>7. IsSlice(heap, u, ps)
  BY SliceFacts
<1>8. \A p \in Range(ps) :
        /\ p \in DOMAIN heap /\ p \in DOMAIN h /\ h[p] = heap[p] /\ h[p].table = u
        /\ p \notin new
  BY <1>6, <1>7 DEF IsSlice, ObjectsIn, IsScan, News
<1>9. \A o \in new :
        /\ o \in DOMAIN h /\ h[o].table = t /\ h[o].id \in ids /\ h[o].row = db[t][h[o].id]
  BY <1>6 DEF IsScan, News
<1>10. ASSUME NEW o \in new  PROVE ps[Max(owners(o))] \in ObjectsIn(h, u)
  <2>1. h[o].row[Link(t)] \in IdsOf(ps)
    BY <1>4, <1>9
  <2>2. owners(o) # {}
    BY <2>1 DEF IdsOf, Range
  <2>3. PICK n \in Nat : DOMAIN ps = 1 .. n
    BY <1>7 DEF IsSlice
  <2>4. owners(o) \in SUBSET Nat /\ \A i \in owners(o) : i <= n /\ i \in DOMAIN ps
    BY <2>3
  <2> HIDE DEF owners
  <2>5. Max(owners(o)) \in DOMAIN ps
    BY <2>2, <2>4, MaxOfBounded
  <2> QED
    BY <1>8, <2>5 DEF Range, ObjectsIn
<1>11. DOMAIN heap' = DOMAIN h /\ heap' = [o \in DOMAIN heap' |-> heap'[o]]
  BY <1>2
<1>12. \A p \in Range(ps) : heap'[p] = WithMany(h[p], t, kids(p))
  BY <1>2, <1>8
<1>13. \A o \in new : heap'[o] = WithOne(h[o], ps[Max(owners(o))])
  BY <1>2, <1>8, <1>9
<1>14. \A o \in DOMAIN h : o \notin Range(ps) /\ o \notin new => heap'[o] = h[o]
  BY <1>2
<1>15. \A p : kids(p) \subseteq ObjectsIn(h, t)
  BY <1>6
<1>16. \A p, c : c \in kids(p) <=> c \in new /\ h[c].row[Link(t)] = h[p].id
  OBVIOUS
<1> HIDE DEF owners, kids
<1>17. \A o \in DOMAIN h : IsRelinked(h, t, h[o], heap'[o])
  <2>1. \A p \in Range(ps) : IsRelinked(h, t, h[p], heap'[p])
    BY <1>8, <1>12, <1>15 DEF IsRelinked
  <2>2. \A o \in new : IsRelinked(h, t, h[o], heap'[o])
    BY <1>9, <1>10, <1>13 DEF IsRelinked
  <2> QED
    BY <1>14, <2>1, <2>2 DEF IsRelinked
<1>18. IsHeap(heap') /\ SameRows(h, heap')
  BY <1>6, <1>11, <1>17, Relinked
<1>19. Loaded => Step
  BY <1>2, <1>6, <1>18, LoadStep
<1>20. out'.call = "loadMany" /\ out'.table = t /\ out'.given = ps
  BY <1>2, AnswerFacts
<1>21. ASSUME NEW p \in Range(ps)
       PROVE  {heap'[o].id : o \in heap'[p].many[t]}
                = {i \in DOMAIN db[t] : db[t][i][Link(t)] = heap'[p].id}
  <2>1. h[p] \in Object(u)
    BY <1>6, <1>8 DEF IsHeap, InHeap
  <2>2. heap'[p].many[t] = kids(p)
    <3>1. t \in Children(u)
      BY <1>3
    <3>2. WithMany(h[p], t, kids(p)).many[t] = kids(p)
      BY <2>1, <3>1, PointedFields
    <3> QED
      BY <1>12, <3>2
  <2>3. heap'[p].id = heap[p].id /\ h[p].id = heap[p].id
    BY <1>8, <1>18 DEF SameRows, SameRow
  <2>4. \A o \in kids(p) : heap'[o].id = h[o].id
    BY <1>9, <1>16, <1>18 DEF SameRows, SameRow
  <2>5. heap[p].id \in IdsOf(ps)
    BY DEF IdsOf
  <2>6. \A o \in kids(p) : h[o].id \in DOMAIN db[t] /\ db[t][h[o].id][Link(t)] = heap[p].id
    BY <1>4, <1>9, <1>16, <2>3
  <2>7. ASSUME NEW i \in DOMAIN db[t], db[t][i][Link(t)] = heap[p].id
        PROVE  \E o \in kids(p) : h[o].id = i
    <3>1. i \in ids
      BY <1>4, <2>5, <2>7
    <3>2. PICK o \in new : h[o].id = i
      BY <1>6, <3>1 DEF IsScan
    <3> QED
      BY <1>9, <1>16, <2>3, <2>7, <3>2
  <2> QED
    BY <2>2, <2>3, <2>4, <2>6, <2>7
<1>22. Loaded
  BY <1>20, <1>21, ManyLoaded
<1> QED
  BY <1>19, <1>22

LEMMA PreloadManyStep ==
  ASSUME Typed, NEW t \in DOMAIN Parent, PreloadMany(t)
  PROVE  Step
<1>1. PICK p \in Objects(Parent[t]), os \in Slices(t) :
        /\ Idle
        /\ heap' = Dealt(heap, t, p, Range(os))
        /\ UNCHANGED <<db, half>>
        /\ Answer("preload", t, FALSE, <<p>>, <<p>>, Nil)
  BY Zenon DEF PreloadMany, Dealt, Done
<1>2. IsHeap(heap) /\ p \in ObjectsIn(heap, Parent[t])
  BY DEF Typed, Objects, ObjectsIn
<1>3. Range(os) \subseteq ObjectsIn(heap, t)
  BY SliceFacts DEF IsSlice
<1> DEFINE new == Range(os)
<1> HIDE DEF new
<1>4. IsDealt(heap, t, p, new, heap')
  BY <1>1, <1>2, <1>3, DealtHeap DEF new
<1>5. IsHeap(heap') /\ SameRows(heap, heap')
  BY <1>4 DEF IsDealt
<1>6. Kept(heap, heap)
  BY KeptSame
<1>7. Loaded => Step
  BY <1>1, <1>5, <1>6, LoadStep
<1>8. out'.call = "preload"
  BY <1>1 DEF Answer
<1> QED
  BY <1>7, <1>8 DEF Loaded

LEMMA PreloadedStep ==
  ASSUME Typed, NEW t \in DOMAIN Parent, Preloaded(t)
  PROVE  Step
<1> DEFINE u == Parent[t]
<1>1. PICK id \in DOMAIN db[t] :
        LET h == Scanned(heap, t, {id}, db[t])
            o == Len(h)
            h2 == Scanned(h, u, ParentIds(t, {db[t][id][Link(t)]}), db[u])
        IN /\ Idle
           /\ heap' = IF Len(h2) = o THEN h2 ELSE Paired(h2, t, o, o + 1)
           /\ UNCHANGED <<db, half>>
           /\ Answer("load", t, FALSE, <<o>>, <<o>>, Nil)
  BY Zenon DEF Preloaded, Paired, Done
<1> DEFINE h == Scanned(heap, t, {id}, db[t])
           o == Len(h)
           l == db[t][id][Link(t)]
           ids == ParentIds(t, {l})
           h2 == Scanned(h, u, ids, db[u])
<1>2. /\ Idle /\ UNCHANGED <<db, half>> /\ Answer("load", t, FALSE, <<o>>, <<o>>, Nil)
      /\ heap' = IF Len(h2) = o THEN h2 ELSE Paired(h2, t, o, o + 1)
  BY <1>1
<1>3. t \in Tables /\ u \in Tables /\ u # t
  BY LinkFacts
<1>4. IsHeap(heap) /\ IsTable(t, db[t]) /\ IsTable(u, db[u])
  BY <1>3 DEF Typed
<1>5. ids = ids \cap DOMAIN db[u] /\ ids = {l} \cap DOMAIN db[u]
  BY DEF ParentIds
<1>6. {id} \cap DOMAIN db[t] = {id}
  OBVIOUS
<1> HIDE DEF ids, l
<1>7. IsScan(heap, t, {id}, db[t], h)
  BY <1>3, <1>4, <1>6, ScannedIsScan
<1> HIDE DEF h
<1>8. IsHeap(h) /\ Kept(heap, h) /\ News(heap, h) \subseteq ObjectsIn(h, t)
  BY <1>7, ScanKeeps
<1>9. IsScan(h, u, ids, db[u], h2)
  BY <1>3, <1>4, <1>5, <1>8, ScannedIsScan
<1> HIDE DEF h2
<1>10. IsHeap(h2) /\ Kept(h, h2) /\ News(h, h2) \subseteq ObjectsIn(h2, u)
  BY <1>9, ScanKeeps
<1>11. o \in News(heap, h)
  BY <1>4, <1>7, LastIsNew
<1>12. /\ o \in Nat /\ DOMAIN h = 1 .. o /\ Len(h2) \in Nat /\ DOMAIN h2 = 1 .. Len(h2)
  BY <1>8, <1>10, HeapDomain
<1> HIDE DEF o
<1>13. /\ o \in DOMAIN h /\ h[o].table = t /\ h[o].id = id /\ h[o].row = db[t][id] /\ h[o].one = Nil
  BY <1>7, <1>11 DEF IsScan, News
<1>14. o \in DOMAIN h2 /\ h2[o] = h[o] /\ o \in ObjectsIn(h2, t)
  BY <1>9, <1>13 DEF IsScan, ObjectsIn
<1>15. Kept(heap, h2)
  BY <1>8, <1>10 DEF Kept
<1>16. Range(<<o>>) = {o}
  BY DEF Range
<1>17. out'.call = "load" /\ out'.table = t /\ out'.given = <<o>>
  BY <1>2 DEF Answer
<1>18. h[o].row[Link(t)] = l
  BY <1>13 DEF l
<1>19. CASE l \notin DOMAIN db[u]
  <2>1. ids = {}
    BY <1>5, <1>19
  <2>2. Cardinality(ids) = 0
    BY <2>1, FS_EmptySet
  <2>3. Len(h2) = o + Cardinality(ids)
    BY <1>9 DEF IsScan, o
  <2>4. Len(h2) = o
    BY <1>12, <2>2, <2>3
  <2>5. heap' = h2
    BY <1>2, <2>4
  <2>6. Loaded => Step
    BY <1>2, <1>10, <1>15, <2>5, SameRowsSame, LoadStep
  <2>7. Loaded
    BY <1>13, <1>14, <1>16, <1>17, <1>18, <1>19, <2>5 DEF Loaded
  <2> QED BY <2>6, <2>7
<1>20. CASE l \in DOMAIN db[u]
  <2>1. ids = {l}
    BY <1>5, <1>20
  <2>2. Cardinality(ids) = 1
    BY <2>1, FS_Singleton
  <2>3. Len(h2) = o + Cardinality(ids)
    BY <1>9 DEF IsScan, o
  <2>4. Len(h2) = o + 1
    BY <2>2, <2>3
  <2> DEFINE p == o + 1
  <2>5. p \in News(h, h2)
    BY <1>12, <2>4 DEF News
  <2>6. heap' = Paired(h2, t, o, p)
    BY <1>2, <1>12, <2>4
  <2>7. p # Nil
    BY <1>12 DEF Nil
  <2> HIDE DEF p
  <2>8. p \in DOMAIN h2 /\ h2[p].id = l /\ p \in ObjectsIn(h2, u)
    BY <1>9, <1>10, <2>1, <2>5 DEF IsScan, News
  <2>9. IsHeap(heap') /\ SameRows(h2, heap') /\ heap'[o].one = p /\ heap'[p].many[t] = {o}
    <3>1. IsPaired(h2, t, o, p, heap')
      BY <1>10, <1>14, <2>6, <2>8, PairedHeap
    <3> QED BY <3>1 DEF IsPaired
  <2>10. Loaded => Step
    BY <1>2, <1>15, <2>9, LoadStep
  <2>11. heap'[o].row[Link(t)] = l /\ heap'[p].id = l
    BY <1>14, <1>18, <2>8, <2>9 DEF SameRows, SameRow
  <2>12. Loaded
    BY <1>16, <1>17, <1>20, <2>7, <2>9, <2>11 DEF Loaded
  <2> QED BY <2>10, <2>12
<1> QED
  BY <1>19, <1>20

\* The queries of a relation and the joins only add the objects they find.
LEMMA ScanStep ==
  ASSUME Typed, Idle, NEW u \in Tables, NEW ids, heap' = Scanned(heap, u, ids, db[u]),
         UNCHANGED <<db, half>>,
         NEW call, call \in {"queryOne", "queryMany", "innerJoin", "leftJoin"},
         NEW t, NEW given, NEW slice, Answer(call, t, FALSE, given, slice, Nil)
  PROVE  Step
<1>1. IsHeap(heap') /\ Kept(heap, heap')
  BY ScanFacts
<1>2. ~Tells(call, FALSE)
  BY DEF Tells
<1> QED
  BY <1>1, <1>2, ReadStep DEF Idle

LEMMA QueryOneStep ==
  ASSUME Typed, NEW t \in DOMAIN Parent, QueryOne(t)
  PROVE  Step
<1>1. PICK o \in Objects(t) :
        /\ Idle
        /\ heap' = Scanned(heap, Parent[t], ParentIds(t, {LinkOf(t, o)}), db[Parent[t]])
        /\ UNCHANGED <<db, half>>
        /\ Answer("queryOne", t, FALSE, <<o>>, NewIn(heap, heap'), Nil)
  BY Zenon DEF QueryOne, Done
<1>2. Parent[t] \in Tables
  BY LinkFacts
<1> QED
  BY <1>1, <1>2, ScanStep

LEMMA QueryManyStep ==
  ASSUME Typed, NEW t \in DOMAIN Parent, QueryMany(t)
  PROVE  Step
<1>1. PICK ps \in Slices(Parent[t]) :
        /\ Idle
        /\ heap' = Scanned(heap, t, ChildIds(t, IdsOf(ps)), db[t])
        /\ UNCHANGED <<db, half>>
        /\ Answer("queryMany", t, FALSE, ps, NewIn(heap, heap'), Nil)
  BY Zenon DEF QueryMany, Done
<1>2. t \in Tables
  BY LinkFacts
<1> QED
  BY <1>1, <1>2, ScanStep

LEMMA JoinedStep ==
  ASSUME Typed, NEW t \in DOMAIN Parent, Joined(t)
  PROVE  Step
<1>1. PICK inner \in BOOLEAN :
        LET ids == {i \in DOMAIN db[t] :
                      inner => db[t][i][Link(t)] \in DOMAIN db[Parent[t]]}
        IN /\ Idle
           /\ heap' = Scanned(heap, t, ids, db[t])
           /\ UNCHANGED <<db, half>>
           /\ Answer(IF inner THEN "innerJoin" ELSE "leftJoin", t, FALSE, <<>>,
                     NewIn(heap, heap'), Nil)
  BY Zenon DEF Joined, Done
<1> DEFINE ids == {i \in DOMAIN db[t] : inner => db[t][i][Link(t)] \in DOMAIN db[Parent[t]]}
           call == IF inner THEN "innerJoin" ELSE "leftJoin"
<1>2. /\ Idle /\ heap' = Scanned(heap, t, ids, db[t]) /\ UNCHANGED <<db, half>>
      /\ Answer(call, t, FALSE, <<>>, NewIn(heap, heap'), Nil)
  BY <1>1
<1>3. call \in {"queryOne", "queryMany", "innerJoin", "leftJoin"} /\ t \in Tables
  BY LinkFacts
<1> HIDE DEF ids, call
<1> QED
  BY <1>2, <1>3, ScanStep

LEMMA JoinedManyStep ==
  ASSUME Typed, NEW t \in DOMAIN Parent, JoinedMany(t)
  PROVE  Step
<1> DEFINE u == Parent[t]
           both == (DOMAIN db[u]) \X (DOMAIN db[t])
           S == {e \in both : db[t][e[2]][Link(t)] = e[1]}
           pairs == SetToSeq(S)
           g == [k \in DOMAIN pairs |-> Fresh(u, pairs[k][1], db[u])]
<1>1. /\ Idle
      /\ heap' = heap \o g
      /\ UNCHANGED <<db, half>>
      /\ Answer("innerJoin", t, FALSE, <<>>, NewIn(heap, heap'), Nil)
  BY Zenon DEF JoinedMany, Done
<1>2. u \in Tables /\ t \in Tables
  BY LinkFacts
<1>3. IsTable(u, db[u]) /\ IsTable(t, db[t]) /\ IsHeap(heap)
  BY <1>2 DEF Typed
<1>4. IsFiniteSet(DOMAIN db[u]) /\ IsFiniteSet(DOMAIN db[t])
  BY <1>3, RowIdsFinite DEF IsTable
<1>5. IsFiniteSet(both)
  BY <1>4, FS_Product
<1>6. S \subseteq both /\ \A e \in S : e[1] \in DOMAIN db[u]
  OBVIOUS
<1> HIDE DEF both, S
<1>7. IsFiniteSet(S)
  BY <1>5, <1>6, FS_Subset
<1>8. /\ Cardinality(S) \in Nat /\ DOMAIN pairs = 1 .. Cardinality(S)
      /\ \A k \in DOMAIN pairs : pairs[k] \in S
  BY <1>7, ListsAll
<1> DEFINE n == Cardinality(S)
<1> HIDE DEF pairs
<1>9. \A k \in DOMAIN pairs : pairs[k][1] \in DOMAIN db[u]
  BY <1>6, <1>8
<1>10. DOMAIN g = 1 .. n /\ g = [k \in DOMAIN g |-> g[k]] /\ n \in Nat
  BY <1>8
<1>11. \A k \in DOMAIN g : /\ g[k] \in Object(u) /\ g[k].one = Nil
                           /\ \A c \in Children(u) : g[k].many[c] = {}
  BY <1>2, <1>3, <1>9, FreshTyped
<1> HIDE DEF g, n
<1>12. IsHeap(heap \o g) /\ Extends(heap, g, n, heap \o g)
  BY <1>2, <1>3, <1>10, <1>11, Appended
<1>13. IsHeap(heap') /\ Kept(heap, heap')
  BY <1>1, <1>12 DEF Extends, Kept
<1>14. ~Tells("innerJoin", FALSE)
  BY DEF Tells
<1> QED
  BY <1>1, <1>13, <1>14, ReadStep DEF Idle

LEMMA StatementFailsStep ==
  ASSUME Typed, StatementFails
  PROVE  Step
  BY FailedStep DEF StatementFails

\* What another request leaves of a table is a table.
LEMMA ElsewhereStep ==
  ASSUME Typed, Elsewhere
  PROVE  Step
<1>1. PICK t \in Tables : \E id \in DOMAIN db[t] :
        /\ calls < MaxCalls
        /\ \/ db' = [db EXCEPT ![t] = WithoutRow(db[t], id)]
           \/ \E s \in UpdateSetters[t] :
                db' = [db EXCEPT ![t] = [db[t] EXCEPT ![id] = Overwrite(db[t][id], s)]]
        /\ UNCHANGED <<heap, half>>
        /\ Answer("elsewhere", t, FALSE, <<>>, <<>>, Nil)
  BY DEF Elsewhere, Done, Typed
<1>2. PICK id \in DOMAIN db[t] :
        /\ calls < MaxCalls
        /\ \/ db' = [db EXCEPT ![t] = WithoutRow(db[t], id)]
           \/ \E s \in UpdateSetters[t] :
                db' = [db EXCEPT ![t] = [db[t] EXCEPT ![id] = Overwrite(db[t][id], s)]]
        /\ UNCHANGED <<heap, half>>
        /\ Answer("elsewhere", t, FALSE, <<>>, <<>>, Nil)
  BY <1>1
<1>3. /\ out'.call = "elsewhere" /\ out'.parent = Nil /\ out'.err = FALSE
      /\ calls' = calls + 1
  BY <1>2, AnswerFacts
<1>4. IsHeap(heap') /\ Kept(heap, heap')
  BY <1>2, KeptSame DEF Typed
<1>5. HalfTyped'
  BY <1>2, <1>4, HalfKept
<1>6. IsTable(t, db[t])
  BY DEF Typed
<1>7. PICK tab : IsTable(t, tab) /\ db' = [db EXCEPT ![t] = tab]
  <2>1. CASE db' = [db EXCEPT ![t] = WithoutRow(db[t], id)]
    <3>1. IsTable(t, WithoutRow(db[t], id))
      BY <1>6, FewerRows DEF WithoutRow
    <3> QED BY <2>1, <3>1
  <2>2. ASSUME NEW s \in UpdateSetters[t],
               db' = [db EXCEPT ![t] = [db[t] EXCEPT ![id] = Overwrite(db[t][id], s)]]
        PROVE  \E tab : IsTable(t, tab) /\ db' = [db EXCEPT ![t] = tab]
    <3> DEFINE row == Overwrite(db[t][id], s)
               tab == [db[t] EXCEPT ![id] = row]
    <3>1. s \in SetterOf(t, DOMAIN s)
      BY SetterTyped
    <3>2. db[t][id] \in Row(t)
      BY <1>6 DEF IsTable
    <3>3. row \in Row(t)
      BY <3>1, <3>2, OverwriteTyped
    <3> HIDE DEF row
    <3>4. IsTable(t, tab)
      BY <1>6, <3>3 DEF IsTable
    <3> QED BY <2>2, <3>4 DEF row
  <2> QED BY <1>2, <2>1, <2>2
<1>8. Typed'
  BY <1>2, <1>3, <1>4, <1>5, <1>7, TableWritten
<1> QED
  BY <1>3, <1>8 DEF Step, OnlyNamed, Acked, Renewed, Loaded

-----------------------------------------------------------------------------

(***************************************************************************)
(* The behaviour.                                                          *)
(***************************************************************************)

\* The objects read at the start.
LEMMA InitTyped == Init => Typed
<1>1. SUFFICES ASSUME Init  PROVE Typed
  OBVIOUS
<1>2. DOMAIN db = Tables /\ \A t \in Tables : IsTable(t, db[t])
  BY <1>1, ModelsConstants DEF Init, IsTables, IsTable
<1>3. \A h : \A t \in Tables : IsHeap(h) => IsHeap(ReadAll(h, t))
  <2>1. ASSUME NEW h, NEW t \in Tables, IsHeap(h)  PROVE IsHeap(ReadAll(h, t))
    <3>1. IsScan(h, t, DOMAIN db[t] \cap DOMAIN db[t], db[t], ReadAll(h, t))
      BY <1>2, <2>1, ScannedIsScan DEF ReadAll
    <3> QED BY <3>1, ScanKeeps
  <2> QED BY <2>1
<1>4. IsHeap(<<>>)
  BY DEF IsHeap, Range
<1>5. /\ "user" \in Tables /\ "file" \in Tables /\ "item" \in Tables
      /\ "credential" \in Tables /\ "schema_migrations" \in Tables
  BY DEF Tables
<1>6. IsHeap(ReadAll(ReadAll(ReadAll(<<>>, "user"), "file"), "item"))
  BY <1>3, <1>4, <1>5
<1>7. IsHeap(heap)
  BY <1>1, <1>3, <1>5, <1>6 DEF Init
<1>8. HalfTyped /\ calls \in 0 .. MaxCalls
  BY <1>1, ModelsConstants DEF Init, HalfTyped
<1> QED
  BY <1>2, <1>7, <1>8 DEF Typed

\* The methods of a table without relations.
Own(t) == Insert(t) \/ Find(t) \/ Methods(t) \/ SliceMethods(t)

\* The methods of a relation, at both its ends.
Relation(t) ==
  \/ ToOne(t) \/ ToMany(t) \/ LoadsOne(t) \/ LoadsMany(t)
  \/ Preloaded(t) \/ PreloadMany(t) \/ thenLoadBuilder(t)
  \/ QueryOne(t) \/ QueryMany(t) \/ Joined(t) \/ JoinedMany(t)

LEMMA OwnStep ==
  ASSUME Typed, NEW t \in Tables, Own(t)
  PROVE  Step
<1>1. CASE Insert(t) \/ Find(t)
  BY <1>1, InsertStep, FindStep
<1>2. CASE Methods(t)
  BY <1>2, UpdateStep, DeleteStep, ReloadStep DEF Methods
<1>3. CASE SliceMethods(t)
  BY <1>3, UpdateAllStep, DeleteAllStep, ReloadAllStep DEF SliceMethods
<1> QED
  BY <1>1, <1>2, <1>3 DEF Own

LEMMA RelationStep ==
  ASSUME Typed, NEW t \in DOMAIN Parent, Relation(t)
  PROVE  Step
<1>1. CASE ToOne(t)
  BY <1>1, AttachOneStep, InsertOneStep, FinishInsertOneStep DEF ToOne
<1>2. CASE ToMany(t)
  BY <1>2, AttachManyStep, InsertManyStep DEF ToMany
<1>3. CASE LoadsOne(t)
  BY <1>3, LoadOneStep, LoadOneAllStep DEF LoadsOne
<1>4. CASE LoadsMany(t)
  BY <1>4, LoadManyStep, LoadManyAllStep DEF LoadsMany
<1>5. CASE Preloaded(t) \/ PreloadMany(t) \/ thenLoadBuilder(t)
  BY <1>5, PreloadedStep, PreloadManyStep, ThenLoadStep
<1>6. CASE QueryOne(t) \/ QueryMany(t)
  BY <1>6, QueryOneStep, QueryManyStep
<1>7. CASE Joined(t) \/ JoinedMany(t)
  BY <1>7, JoinedStep, JoinedManyStep
<1> QED
  BY <1>1, <1>2, <1>3, <1>4, <1>5, <1>6, <1>7 DEF Relation

\* Every disjunct of Next is one of these, for one of the tables.
LEMMA NextMethods ==
  ASSUME Next
  PROVE  \/ \E t \in Tables : Own(t)
         \/ \E t \in DOMAIN Parent : Relation(t)
         \/ StatementFails \/ Elsewhere
<1> DEFINE Goal == \/ \E t \in Tables : Own(t)
                   \/ \E t \in DOMAIN Parent : Relation(t)
                   \/ StatementFails \/ Elsewhere
<1>1. /\ "user" \in Tables /\ "file" \in Tables /\ "item" \in Tables
      /\ "credential" \in Tables /\ "schema_migrations" \in Tables
  BY DEF Tables
<1>2. /\ "user" \in DOMAIN Parent /\ "file" \in DOMAIN Parent /\ "item" \in DOMAIN Parent
      /\ "credential" \in DOMAIN Parent
  BY DEF Parent
<1>3. \A c \in Children("user") : c \in DOMAIN Parent
  BY ChildFacts
<1>4. CASE \/ UserTable \/ Find("user") \/ Methods("user") \/ SliceMethods("user")
           \/ FileTable \/ FileFind \/ FileMethods \/ FileSliceMethods
           \/ ItemTable \/ ItemFind \/ ItemMethods \/ ItemSliceMethods
           \/ CredentialTable \/ CredentialFind \/ CredentialMethods \/ CredentialSliceMethods
           \/ SchemaMigrationTable \/ SchemaMigrationFind
           \/ SchemaMigrationMethods \/ SchemaMigrationSliceMethods
  <2>1. Own("user") \/ Own("file") \/ Own("item") \/ Own("credential") \/ Own("schema_migrations")
    BY Zenon, <1>4 DEF Own, UserTable, FileTable, FileFind, FileMethods, FileSliceMethods,
       ItemTable, ItemFind, ItemMethods, ItemSliceMethods,
       CredentialTable, CredentialFind, CredentialMethods, CredentialSliceMethods,
       SchemaMigrationTable, SchemaMigrationFind, SchemaMigrationMethods,
       SchemaMigrationSliceMethods
  <2> QED BY <1>1, <2>1
<1>5. CASE \/ UserCredentials \/ UserFiles \/ UserItems \/ UserProfilePictureFile
           \/ UserPreloader \/ UserThenLoader \/ UserLoadCredentials \/ UserLoadFiles
           \/ UserLoadItems \/ UserLoadProfilePictureFile
  <2>1. Relation("user") \/ Relation("file") \/ Relation("item") \/ Relation("credential")
    BY Zenon, <1>5 DEF Relation, UserCredentials, UserFiles, UserItems, UserProfilePictureFile,
       UserPreloader, UserThenLoader, UserLoadCredentials, UserLoadFiles, UserLoadItems,
       UserLoadProfilePictureFile
  <2> QED BY <1>2, <2>1
<1>6. CASE UserQueries \/ UserPreload \/ UserJoins
  <2>1. Relation("user") \/ \E c \in Children("user") : Relation(c)
    BY Zenon, <1>6 DEF Relation, UserQueries, UserPreload, UserJoins
  <2> QED BY <1>2, <1>3, <2>1
<1>7. CASE \/ FileQueries \/ FileRelations \/ FilePreload \/ FileThenLoader \/ FileLoads \/ FileJoins
  <2>1. Relation("file") \/ Relation("user")
    BY Zenon, <1>7 DEF Relation, FileQueries, FileRelations, FilePreload, FileThenLoader,
       FileLoads, FileJoins
  <2> QED BY <1>2, <2>1
<1>8. CASE \/ ItemQueries \/ ItemRelations \/ ItemPreload \/ ItemThenLoader \/ ItemLoads \/ ItemJoins
           \/ CredentialQueries \/ CredentialRelations \/ CredentialPreload
           \/ CredentialThenLoader \/ CredentialLoads \/ CredentialJoins
  <2>1. Relation("item") \/ Relation("credential")
    BY Zenon, <1>8 DEF Relation, ItemQueries, ItemRelations, ItemPreload, ItemThenLoader,
       ItemLoads, ItemJoins, CredentialQueries, CredentialRelations, CredentialPreload,
       CredentialThenLoader, CredentialLoads, CredentialJoins
  <2> QED BY <1>2, <2>1
<1>9. CASE StatementFails \/ Elsewhere
  BY <1>9
<1> HIDE DEF Goal
<1> QED
  BY Zenon, <1>4, <1>5, <1>6, <1>7, <1>8, <1>9 DEF Next, Goal

LEMMA NextStep ==
  ASSUME Typed, Next
  PROVE  Step
<1>1. \/ \E t \in Tables : Own(t)
      \/ \E t \in DOMAIN Parent : Relation(t)
      \/ StatementFails \/ Elsewhere
  BY NextMethods
<1> QED
  BY <1>1, OwnStep, RelationStep, StatementFailsStep, ElsewhereStep

LEMMA TypedStays == Typed /\ [Next]_vars => Typed'
<1>1. Typed /\ Next => Typed'
  BY NextStep DEF Step
<1>2. Typed /\ UNCHANGED vars => Typed'
  BY DEF Typed, HalfTyped, Objects, vars
<1> QED
  BY <1>1, <1>2

\* The rows keep their columns and every pointer is to an object of the table the
\* relation is with, whatever the methods are called with and however many rows
\* and objects there are.
THEOREM TypeCorrect == Spec => []TypeOK
<1>1. Typed => TypeOK
  BY TypedIsTypeOK
<1> QED
  BY <1>1, InitTyped, TypedStays, PTL DEF Spec

LEMMA AlwaysTyped == Spec => []Typed
  BY InitTyped, TypedStays, PTL DEF Spec

\* No method writes a row but those of the objects it was called on or given
\* (pkEQ, pkIN).
THEOREM NamedRows == Spec => OnlyNamedRows
<1>1. Typed /\ [Next]_vars => [OnlyNamed]_vars
  BY NextStep DEF Step
<1>2. Spec => [][OnlyNamed]_vars
  BY <1>1, AlwaysTyped, PTL DEF Spec
<1> QED
  BY <1>2 DEF OnlyNamedRows, OnlyNamed

\* An Attach or an Insert of a relation that answers without an error leaves both
\* ends pointing at each other and the parent's key in the rows.
THEOREM LinksAcked == Spec => AckedLinksStored
<1>1. Typed /\ [Next]_vars => [Acked]_vars
  BY NextStep DEF Step
<1>2. Spec => [][Acked]_vars
  BY <1>1, AlwaysTyped, PTL DEF Spec
<1> QED
  BY <1>2 DEF AckedLinksStored, Acked

\* The objects left by an update, a reload or an attach hold what the rows hold,
\* and those of a slice of different rows keep their relations
\* (copyMatchingRows).
THEOREM SlicesRenewed == Spec => SliceRenewed
<1>1. Typed /\ [Next]_vars => [Renewed]_vars
  BY NextStep DEF Step
<1>2. Spec => [][Renewed]_vars
  BY <1>1, AlwaysTyped, PTL DEF Spec
<1> QED
  BY <1>2 DEF SliceRenewed, Renewed

\* What a load, a preload or a ThenLoad leaves in R is what the tables hold then.
THEOREM LoadsStored == Spec => LoadedAsStored
<1>1. Typed /\ [Next]_vars => [Loaded]_vars
  BY NextStep DEF Step
<1>2. Spec => [][Loaded]_vars
  BY <1>1, AlwaysTyped, PTL DEF Spec
<1> QED
  BY PTL, <1>2 DEF LoadedAsStored, Loaded

=============================================================================
