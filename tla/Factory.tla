------------------------------ MODULE Factory ------------------------------
(***************************************************************************)
(* The factories of internal/bob/factory: templates for the rows of the    *)
(* tables, the mods that say what a template gives and what it is related  *)
(* to, and Create, which inserts a row, the rows it needs and the rows it  *)
(* is asked to be related to, one statement after the other and each of    *)
(* them in a call of its own.                                              *)
(*                                                                         *)
(* The generator writes the same methods for every table.  A method is     *)
(* written once here and mapped to user.bob.go, or to file.bob.go for what *)
(* a user has not; the sections at the end are those of the tables.        *)
(***************************************************************************)
EXTENDS Records

CONSTANTS
  BaseMods,       \* table -> relation -> the numbers its base mods ask for
  Given,          \* the values a mod may give a column
  Numbers,        \* how many related rows a mod may ask for
  InitialTables,  \* the tables a caller may find
  MaxMods,        \* bound: the mods applied to one template
  Faults          \* whether a statement may fail

VARIABLES
  db,     \* table -> id -> row
  tmpl,   \* the template the caller prepares: none or one
  kept,   \* another one, which mods may relate it to: none or one
  mods,   \* bound: the mods applied to tmpl
  stack,  \* the calls of Create under way, the innermost first
  out     \* what the last call answered: nothing or one answer

vars == <<db, tmpl, kept, mods, stack, out>>

Parent == [user |-> "file", file |-> "user", item |-> "user", credential |-> "user"]
Link(t) == IF t = "user" THEN "profile_picture_id" ELSE "user_id"

\* The relations of a table in the order Create takes them.  A relation goes by
\* the table that holds its link: the one of a user to its picture is "user".
UserR == <<"credential", "file", "item", "user">>
FileR == <<"user">>
Relations(t) == CASE t = "user" -> UserR [] t = "file" -> FileR [] OTHER -> <<>>

\* A row of these cannot be without a user.
Owned == {"file", "item", "credential"}

\* A mod may ask for no row; a picture is a field, not a list.  The rows a
\* caller finds are rows.
ASSUME FactoryConstants ==
  /\ Numbers \subseteq Nat
  /\ \A t \in Tables : \A c \in Range(Relations(t)) : BaseMods[t][c] \in Seq(Nat)
  /\ BaseMods["user"]["user"] \in {<<>>, <<1>>}
  /\ \A d \in InitialTables :
       /\ DOMAIN d = Tables
       /\ \A t \in Tables : DOMAIN d[t] \subseteq RowIds /\ d[t] \in [DOMAIN d[t] -> Row(t)]

(***************************************************************************)
(* Templates: the columns they give, and what they are related to.  An     *)
(* entry asks for n rows like o; the row of a persisted one is there.      *)
(***************************************************************************)

Template(t) ==
  [table |-> t, given |-> <<>>, user |-> <<>>, persisted |-> FALSE,
   related |-> [c \in Range(Relations(t)) |-> <<>>]]

Entry(n, o) == [n |-> n, o |-> o]

\* The columns f gives, and those that only g does.
Over(f, g) ==
  [c \in DOMAIN f \cup DOMAIN g |-> IF c \in DOMAIN f THEN f[c] ELSE g[c]]

Column(c, v) == [x \in {c} |-> v]

\* The mods.
SetColumn(o, c, v) == [o EXCEPT !.given = Over(Column(c, v), @)]
UnsetColumn(o, c) == [o EXCEPT !.given = Restrict(@, DOMAIN @ \ {c})]
WithUser(o, rel) == [o EXCEPT !.user = <<rel>>]
WithoutUser(o) == [o EXCEPT !.user = <<>>]
With(o, c, n, rel) == [o EXCEPT !.related[c] = <<Entry(n, rel)>>]
Add(o, c, n, rel) == [o EXCEPT !.related[c] = Append(@, Entry(n, rel))]
Without(o, c) == [o EXCEPT !.related[c] = <<>>]

\* Fault: the key is left out.
FromExistingKeyless(t, i) ==
  [Template(t) EXCEPT !.persisted = TRUE, !.given = db[t][i]]

\* FromExisting of a row whose relations are not loaded: all columns are given.
FromExisting(t, i) ==
  [Template(t) EXCEPT !.persisted = TRUE, !.given = Over(Column(Key(t), i), db[t][i])]

\* The table at the other end of relation c of table t.
Other(t, c) == IF t = "user" /\ c = "user" THEN "file" ELSE c

\* New: the base mods of the factory first.  Theirs ask for rows without more.
New(t) ==
  [Template(t) EXCEPT !.related =
     [c \in DOMAIN @ |->
        [k \in DOMAIN BaseMods[t][c] |->
           Entry(BaseMods[t][c][k], Template(Other(t, c)))]]]

\* WithParentsCascading: a parent that has a parent, until a table comes again,
\* which is so after a user, its picture and a user.
UnderParent(o, rel) ==
  IF o.table = "user" THEN With(o, "user", 1, rel) ELSE WithUser(o, rel)

NewUnderParent(t) == UnderParent(New(t), New(Parent[t]))

WithParentsCascading(o) ==
  UnderParent(o,
    IF o.table \in {"user", "file"} THEN NewUnderParent(Parent[o.table])
    ELSE UnderParent(New("user"), NewUnderParent("file")))

BuildSetter(o) == o.given

\* Build: the key and the link of the object and of those in its R, in memory.
IdOf(o) == IF Key(o.table) \in DOMAIN o.given THEN o.given[Key(o.table)] ELSE 0
LinkOf(o) ==
  IF o.user # <<>> THEN IdOf(o.user[1])
  ELSE IF o.table = "user" /\ o.related["user"] # <<>> THEN IdOf(o.related["user"][1].o)
  ELSE IF Link(o.table) \in DOMAIN o.given THEN o.given[Link(o.table)]
  ELSE 0
Build(o) == [id |-> IdOf(o), link |-> LinkOf(o)]

\* setModelRels: the related ones get their link from the object; there are as
\* many as the entry says, and an entry of an existing one says none.
setModelRels(o) ==
  [c \in DOMAIN o.related |->
     FlattenSeq([k \in DOMAIN o.related[c] |->
       LET e == o.related[c][k]
       IN  [i \in 1 .. e.n |->
              IF Other(o.table, c) = c THEN [Build(e.o) EXCEPT !.link = IdOf(o)]
              ELSE Build(e.o)]])]

\* Columns a row needs get random values, of which a key may by chance be one
\* there is; the link is written over.
ensureCreatable(t, s) ==
  LET columns == SetterOf(t, Data(t) \ (Nullable \cup Links \cup DOMAIN s))
      keys == IF t \in TextKeys /\ Key(t) \notin DOMAIN s
              THEN SetterOf(t, {Key(t)}) ELSE {<<>>}
  IN  {Over(s, Over(r, k)) :
         r \in columns, k \in {x \in keys : x = <<>> \/ x[Key(t)] <= NextId(db[t])}}

(***************************************************************************)
(* The caller.                                                             *)
(***************************************************************************)

Calling == stack # <<>>

\* The caller applies a mod.
Mod(o) ==
  /\ ~Calling /\ out = <<>> /\ mods < MaxMods
  /\ tmpl' = <<o>>
  /\ mods' = mods + 1
  /\ UNCHANGED <<db, kept, stack, out>>

Is(t) == tmpl # <<>> /\ tmpl[1].table = t

ColumnMods(t) ==
  /\ Is(t)
  /\ \E c \in Range(Columns[t]) :
       \/ \E v \in Values(t, c) \cap Given : Mod(SetColumn(tmpl[1], c, v))
       \/ c \in DOMAIN tmpl[1].given /\ Mod(UnsetColumn(tmpl[1], c))

\* What a relation may be given: a new template, the kept one, an existing row.
Offered(t) ==
  {New(t)} \cup {o \in Range(kept) : o.table = t}
    \cup {FromExisting(t, i) : i \in DOMAIN db[t]}

UserMods(t) ==
  /\ Is(t)
  /\ \/ \E rel \in Offered("user") : Mod(WithUser(tmpl[1], rel))
     \/ tmpl[1].user # <<>> /\ Mod(WithoutUser(tmpl[1]))
     \/ Mod(WithParentsCascading(tmpl[1]))

ManyMods(t, c) ==
  /\ Is(t)
  /\ \/ \E rel \in Offered(c), n \in Numbers :
          IF rel.persisted THEN Mod(Add(tmpl[1], c, 0, rel))
          ELSE Mod(With(tmpl[1], c, n, rel)) \/ Mod(Add(tmpl[1], c, n, rel))
     \/ tmpl[1].related[c] # <<>> /\ Mod(Without(tmpl[1], c))

PictureMods ==
  /\ Is("user")
  /\ \/ \E rel \in Offered("file") : Mod(With(tmpl[1], "user", 1, rel))
     \/ tmpl[1].related["user"] # <<>> /\ Mod(Without(tmpl[1], "user"))
     \/ Mod(WithParentsCascading(tmpl[1]))

\* The caller starts a template, or a second one to relate to the first.
Start(t) ==
  /\ ~Calling /\ out = <<>> /\ kept = <<>>
  /\ tmpl' = <<New(t)>>
  /\ kept' = tmpl
  /\ mods' = 0
  /\ UNCHANGED <<db, stack, out>>

(***************************************************************************)
(* Create.  A call stands at what it does next; todo is what it has still  *)
(* to be related to, made the rows of the entry it is at, R what the       *)
(* object has in R, many what has ever been put there, and existing what   *)
(* was there already of that.                                              *)
(***************************************************************************)

None(o) == [c \in DOMAIN o.related |-> <<>>]

Call(o, ctx) ==
  [o |-> o, ctx |-> ctx, at |-> "user", user |-> 0, id |-> 0, todo |-> None(o),
   made |-> <<>>, existing |-> {}, many |-> None(o), R |-> None(o)]

Top == stack[1]
At(t, step) == Calling /\ Top.o.table = t /\ Top.at = step
Goes(f) == stack' = <<f>> \o Tail(stack)

\* An error is handed on by every call.
Fails ==
  /\ stack' = <<>>
  /\ out' = <<[err |-> TRUE]>>

\* Build, for an object that is not inserted.
BuildModel ==
  /\ ~Calling /\ tmpl # <<>> /\ out = <<>>
  /\ out' = <<[err |-> FALSE, built |-> Build(tmpl[1]), related |-> setModelRels(tmpl[1])]>>
  /\ UNCHANGED <<db, tmpl, kept, mods, stack>>

Create ==
  /\ ~Calling /\ tmpl # <<>> /\ out = <<>>
  /\ stack' = <<Call(tmpl[1], {})>>
  /\ UNCHANGED <<db, tmpl, kept, mods, out>>

\* An owned row needs a user first: the one of the template, or a new one.
CreateUser(t) ==
  /\ At(t, "user")
  /\ LET u == IF Top.o.user = <<>> THEN New("user") ELSE Top.o.user[1]
     IN  CASE t \notin Owned -> Goes([Top EXCEPT !.at = "insert"])
           [] t \in Owned /\ u.persisted -> Goes([Top EXCEPT !.at = "insert", !.user = IdOf(u)])
           [] OTHER -> stack' = <<Call(u, Top.ctx)>> \o stack
  /\ UNCHANGED <<db, tmpl, kept, mods, out>>

\* Fault: a call sets about a relation that one around it has set about.
TodoAgain(f) == f.o.related

\* What is to be related: the relations that no call around this one has set
\* about.
Todo(f) == [c \in DOMAIN f.o.related |-> IF c \in f.ctx THEN <<>> ELSE f.o.related[c]]

\* Fault: the template's own column wins over the user that was made for it.
WrittenAsGiven(f, s) == IF f.o.table \in Owned THEN Over(s, Column("user_id", f.user)) ELSE s

Written(f, s) == IF f.o.table \in Owned THEN Over(Column("user_id", f.user), s) ELSE s

Insert(t) ==
  /\ At(t, "insert")
  /\ \E s \in ensureCreatable(t, BuildSetter(Top.o)) :
       LET row == Written(Top, s)
           id == KeyOf(t, db[t], row, 1)
       IN  IF ~Insertable(t, db[t], <<row>>) THEN Fails /\ UNCHANGED db
           ELSE /\ id \in RowIds
                /\ db' = [db EXCEPT ![t] = Apply(t, @, <<row>>)]
                /\ Goes([Top EXCEPT !.at = "relate", !.id = id, !.todo = Todo(Top)])
                /\ UNCHANGED out
  /\ UNCHANGED <<tmpl, kept, mods>>

\* The relation whose turn it is: the first one that something is left of.
Left(f) == {c \in DOMAIN f.todo : f.todo[c] # <<>>}

Before(t, d, c) ==
  \E j, k \in DOMAIN Relations(t) : j < k /\ Relations(t)[j] = d /\ Relations(t)[k] = c

Turn(f) == {c \in Left(f) : \A d \in Left(f) : ~Before(f.o.table, d, c)}

Related(t, c) == At(t, "relate") /\ c \in Turn(Top)

\* What has been dealt with was put into R, which is r now.
Placed(c, ids, r) ==
  [Top EXCEPT !.todo[c] = Tail(@), !.made = <<>>, !.many[c] = @ \o ids, !.R = r,
              !.ctx = @ \cup {c}]

Appended(c, ids) == [Top.R EXCEPT ![c] = @ \o ids]

\* Fault: files, too, are attached by updating the user.
AttachedByUpdate(t, c) == [None(Top.o) EXCEPT ![c] = Top.made]

\* R behind an Attach.  The one of a picture updates the user itself, whose Update
\* takes over the R of the row it reads back, which is empty.
Attached(t, c) ==
  IF Other(t, c) = c THEN Appended(c, Top.made)
  ELSE [None(Top.o) EXCEPT ![c] = Top.made]

\* An existing row comes into R as it is: no statement links it.
PlaceExisting(t, c) ==
  /\ Related(t, c)
  /\ LET e == Top.todo[c][1]
     IN  /\ e.o.persisted
         /\ Goes([Placed(c, <<IdOf(e.o)>>, Appended(c, <<IdOf(e.o)>>))
                    EXCEPT !.existing = @ \cup {<<c, IdOf(e.o)>>}])
  /\ UNCHANGED <<db, tmpl, kept, mods, out>>

\* CreateMany: one call of Create after the other.  None of the calls within
\* sets about this relation again.
CreateMany(t, c) ==
  /\ Related(t, c)
  /\ LET e == Top.todo[c][1]
     IN  /\ ~e.o.persisted /\ Len(Top.made) < e.n
         /\ stack' = <<Call(e.o, Top.ctx \cup {c})>> \o stack
  /\ UNCHANGED <<db, tmpl, kept, mods, out>>

\* Attach: the link of the rows made, or for a picture that of the row itself.
\* There is no statement for no rows.
Attach(t, c) ==
  /\ Related(t, c)
  /\ LET e == Top.todo[c][1]
         picture == Other(t, c) # c
         link == Column(Link(c), IF picture THEN Top.made[1] ELSE Top.id)
         ids == IF picture THEN {Top.id} ELSE Range(Top.made)
     IN  /\ ~e.o.persisted /\ Len(Top.made) = e.n
         /\ \/ /\ db' = [db EXCEPT ![c] = Expressions(c, @, ids, link)]
               /\ Goes(Placed(c, Top.made, Attached(t, c)))
               /\ UNCHANGED out
            \/ Faults /\ ids # {} /\ Fails /\ UNCHANGED db
  /\ UNCHANGED <<tmpl, kept, mods>>

\* A call is done, and the one around it goes on with its row.
Resumed(g, id) ==
  IF g.at = "user" THEN [g EXCEPT !.at = "insert", !.user = id]
  ELSE [g EXCEPT !.made = Append(@, id)]

Return(t) ==
  /\ At(t, "relate") /\ Left(Top) = {}
  /\ IF Tail(stack) = <<>>
     THEN stack' = <<>> /\ out' = <<[err |-> FALSE, call |-> Top]>>
     ELSE /\ stack' = <<Resumed(stack[2], Top.id)>> \o Tail(Tail(stack))
          /\ UNCHANGED out
  /\ UNCHANGED <<db, tmpl, kept, mods>>

\* The database refuses an INSERT for a reason of its own.
InsertFails(t) ==
  /\ Faults /\ At(t, "insert")
  /\ Fails
  /\ UNCHANGED <<db, tmpl, kept, mods>>

Creating(t) == CreateUser(t) \/ Insert(t) \/ Return(t)
insertOptRels(t) ==
  \E c \in Range(Relations(t)) : PlaceExisting(t, c) \/ CreateMany(t, c) \/ Attach(t, c)

(***************************************************************************)
(* The tables.                                                             *)
(***************************************************************************)

UserStart == Start("user")
UserColumnMods == ColumnMods("user")
UserCredentialMods == ManyMods("user", "credential")
UserFileMods == ManyMods("user", "file")
UserItemMods == ManyMods("user", "item")
UserCreate == Creating("user")
UserInsertOptRels == insertOptRels("user")

FileStart == Start("file")
FileColumnMods == ColumnMods("file")
FileRelationMods == UserMods("file") \/ ManyMods("file", "user")
FileCreate == Creating("file")
FileInsertOptRels == insertOptRels("file")

ItemStart == Start("item")
ItemColumnMods == ColumnMods("item")
ItemRelationMods == UserMods("item")
ItemCreate == Creating("item")

CredentialStart == Start("credential")
CredentialColumnMods == ColumnMods("credential")
CredentialRelationMods == UserMods("credential")
CredentialCreate == Creating("credential")

SchemaMigrationStart == Start("schema_migrations")
SchemaMigrationColumnMods == ColumnMods("schema_migrations")
SchemaMigrationCreate == Creating("schema_migrations")

Steps ==
  \/ UserCreate \/ UserInsertOptRels \/ FileCreate \/ FileInsertOptRels
  \/ ItemCreate \/ CredentialCreate \/ SchemaMigrationCreate

Init ==
  /\ db \in InitialTables
  /\ tmpl = <<>> /\ kept = <<>> /\ mods = 0
  /\ stack = <<>> /\ out = <<>>

Next ==
  \/ UserStart \/ UserColumnMods \/ UserCredentialMods \/ UserFileMods
  \/ UserItemMods \/ PictureMods
  \/ FileStart \/ FileColumnMods \/ FileRelationMods
  \/ ItemStart \/ ItemColumnMods \/ ItemRelationMods
  \/ CredentialStart \/ CredentialColumnMods \/ CredentialRelationMods
  \/ SchemaMigrationStart \/ SchemaMigrationColumnMods
  \/ BuildModel \/ Create \/ Steps \/ \E t \in Tables : InsertFails(t)

\* A call of Create goes on; a caller need not call, and no statement has to fail.
Fairness == WF_vars(Steps)

Spec == Init /\ [][Next]_vars /\ Fairness

(***************************************************************************)
(* Properties.                                                             *)
(***************************************************************************)

Created == out # <<>> /\ ~out[1].err /\ "call" \in DOMAIN out[1]

\* What calls hold of rows are ids of rows, of the tables they say.
TypeOK ==
  /\ \A t \in Tables : \A i \in DOMAIN db[t] : i \in RowIds /\ db[t][i] \in Row(t)
  /\ \A k \in DOMAIN stack :
       LET f == stack[k]
       IN  /\ f.at \in {"user", "insert", "relate"}
           /\ f.at = "relate" => f.id \in DOMAIN db[f.o.table]
           /\ f.user # 0 => f.user \in DOMAIN db["user"]
           /\ \A c \in DOMAIN f.many : Range(f.many[c]) \subseteq DOMAIN db[Other(f.o.table, c)]

\* However deep the calls that made them, when Create answers without an error
\* the rows it made for relations and put into R, and those R has lost since, are
\* linked to its own row, and an owned row belongs to the user in R: no later
\* call, within or around, links them elsewhere.
LinkedAsPlaced ==
  Created =>
    LET f == out[1].call
        t == f.o.table
    IN  /\ t \in Owned => db[t][f.id].user_id = f.user
        /\ \A c \in DOMAIN f.many : \A i \in Range(f.many[c]) :
             <<c, i>> \in f.existing
               \/ IF Other(t, c) = c THEN db[c][i][Link(c)] = f.id
                  ELSE db[t][f.id].profile_picture_id = i

\* Create made the picture of its user.
NewPicture(f) == f.o.table = "user" /\ \E e \in Range(f.o.related["user"]) : ~e.o.persisted

\* What Create put into R is there when it answers, as factory/user.bob.go:316 has
\* it; but of a user for which it made a picture there is the picture alone, as
\* that is attached by an Update of the user (user.bob.go:304).
PlacedUnlessNewPicture ==
  Created =>
    LET f == out[1].call
    IN  f.R = IF NewPicture(f) THEN [None(f.o) EXCEPT !["user"] = f.many["user"]] ELSE f.many

\* Templates relate tables in circles, and base mods every new row to others:
\* Create ends all the same.
CreateEnds == Calling ~> ~Calling
============================================================================
