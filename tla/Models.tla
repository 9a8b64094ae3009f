------------------------------- MODULE Models -------------------------------
(***************************************************************************)
(* The objects of internal/bob/models: what the generated methods of User, *)
(* File, Item and Credential, and of slices of them, do to the rows of the *)
(* tables and to the objects in memory, whose R struct holds the objects   *)
(* they are related to.                                                    *)
(*                                                                         *)
(* The generator writes the same methods for every table.  Here a method   *)
(* is written once, for a table t, and mapped to user.bob.go or, for what  *)
(* a User has not, to file.bob.go; the section at the end has the methods  *)
(* of the other tables, as instances of it.                                *)
(*                                                                         *)
(* Every method is one statement, and so one step, but for Insert with a   *)
(* to-one relation, which is two.  Another request may write any row       *)
(* between two statements, and any statement may fail.                     *)
(***************************************************************************)
EXTENDS Records

CONSTANTS
  InitialTables,  \* the tables the program may find
  InsertSetters,  \* for each table, the setters of inserts
  UpdateSetters,  \* for each table, the setters of updates
  MaxObjects,     \* bound: the objects in memory
  MaxCalls        \* bound: the steps of a behaviour

VARIABLES
  db,     \* table -> id -> row
  heap,   \* the objects, each by its place: a pointer is a place
  half,   \* the child and the new parent of a to-one insert that is half done
  calls,  \* bound: the steps taken
  out     \* history: the last call, the objects given and those it leaves

vars == <<db, heap, half, calls, out>>

Nil == 0

Parent == [user |-> "file", file |-> "user",
           item |-> "user", credential |-> "user"]
Children(t) == {c \in DOMAIN Parent : Parent[c] = t}

\* The column of a child that holds the key of its parent.
Link(t) == IF t = "user" THEN "profile_picture_id" ELSE "user_id"

\* The setter of InsertFiles, with the key of the parent in it.
Linked(t, id, s) ==
  [c \in DOMAIN s \cup {Link(t)} |-> IF c = Link(t) THEN id ELSE s[c]]

IsTables(d) ==
  \A t \in Tables : DOMAIN d[t] \subseteq RowIds /\ d[t] \in [DOMAIN d[t] -> Row(t)]
IsSetter(t, s) == DOMAIN s \subseteq Range(Columns[t]) /\ s \in Setter(t, DOMAIN s)

\* The setters of one INSERT: their values go by their place alone, so it is for
\* the caller to give those whose values fit the columns they get into.
Fit(t, S) ==
  \A first, s \in S : Cardinality(DOMAIN s) = Cardinality(DOMAIN first) =>
    Named(t, first, s) \in Setter(t, DOMAIN first)

ASSUME ModelsConstants ==
  /\ \A d \in InitialTables : DOMAIN d = Tables /\ IsTables(d)
  /\ \A t \in Tables : \A s \in InsertSetters[t] \cup UpdateSetters[t] : IsSetter(t, s)
  /\ \A t \in Tables : Fit(t, InsertSetters[t])
  /\ \A t \in DOMAIN Parent : \A id \in RowIds :
       Fit(t, {Linked(t, id, s) : s \in InsertSetters[t]})
  /\ MaxCalls \in Nat

(***************************************************************************)
(* Objects.  R has one pointer to the parent (one) and, for each table     *)
(* with a relation to this one, a slice of its objects, of which many      *)
(* keeps the objects and not their order.                                  *)
(***************************************************************************)

Object(t) == [table : {t}, id : RowIds, row : Row(t), one : Nat,
              many : [Children(t) -> SUBSET Nat]]

Fresh(t, id, tab) ==
  [table |-> t, id |-> id, row |-> tab[id], one |-> Nil,
   many |-> [c \in Children(t) |-> {}]]

Objects(t) == {o \in DOMAIN heap : heap[o].table = t}

\* The slices a caller may hand over: none, one or two objects, as they came.
Slices(t) ==
  {<<>>} \cup {<<o>> : o \in Objects(t)}
    \cup {s \in Objects(t) \X Objects(t) : s[1] < s[2]}

IdsOf(os) == {heap[o].id : o \in Range(os)}

\* What a query of the rows ids of table t scans, after the objects of h.  No
\* query says in which order.
Scanned(h, t, ids, tab) ==
  LET found == SetToSeq(ids \cap DOMAIN tab)
  IN h \o [k \in DOMAIN found |-> Fresh(t, found[k], tab)]
NewIn(h, h2) == [k \in 1 .. Len(h2) - Len(h) |-> Len(h) + k]

\* The rows a relation reaches, from the child (User of File) and from the
\* parent (Files of User).  A NULL link equals nothing.
ParentIds(t, links) == links \cap DOMAIN db[Parent[t]]
ChildIds(c, ids) == {i \in DOMAIN db[c] : db[c][i][Link(c)] \in ids}

LinkOf(t, o) == heap[o].row[Link(t)]

\* What the caller called and what it has in hand afterwards; parent is the
\* other end of the relation that was set.
Answer(call, t, err, given, slice, parent) ==
  /\ out' = [call |-> call, table |-> t, err |-> err, given |-> given,
             slice |-> slice, parent |-> parent]
  /\ calls' = calls + 1
  /\ Len(heap') <= MaxObjects
  /\ \A u \in Tables : DOMAIN db'[u] \subseteq RowIds

Done(call, t, given, slice) == Answer(call, t, FALSE, given, slice, Nil)
Failed(call, t, given) ==
  /\ half' = <<>>
  /\ UNCHANGED <<db, heap>>
  /\ Answer(call, t, TRUE, given, given, Nil)

\* The caller is not between the two statements of a to-one insert.
Idle == half = <<>> /\ calls < MaxCalls

(***************************************************************************)
(* One object: Insert of a table, FindX, and Update, Delete and Reload of  *)
(* an object.                                                              *)
(***************************************************************************)

Insert(t) ==
  \E s \in InsertSetters[t] :
    LET tab == Apply(t, db[t], <<s>>)
    IN /\ Idle
       /\ IF Insertable(t, db[t], <<s>>)
          THEN /\ db' = [db EXCEPT ![t] = tab]
               /\ heap' = Scanned(heap, t, DOMAIN tab \ DOMAIN db[t], tab)
               /\ UNCHANGED half
               /\ Answer("insert", t, FALSE, <<>>, NewIn(heap, heap'), Nil)
          ELSE Failed("insert", t, <<>>)

Find(t) ==
  \E id \in RowIds :
    /\ Idle
    /\ IF id \in DOMAIN db[t]
       THEN /\ heap' = Scanned(heap, t, {id}, db[t])
            /\ UNCHANGED <<db, half>>
            /\ Done("find", t, <<>>, NewIn(heap, heap'))
       ELSE Failed("find", t, <<>>)

\* The new object replaces the old one at its place, without its relations.
UpdateSets(h, o, tab, s) ==
  LET t == h[o].table
      id == IF Key(t) \in DOMAIN s THEN s[Key(t)] ELSE h[o].id
  IN [h EXCEPT ![o] = Fresh(t, id, tab)]

Update(t) ==
  \E o \in Objects(t), s \in UpdateSetters[t] :
    LET tab == Expressions(t, db[t], {heap[o].id}, s)
    IN /\ Idle
       /\ IF /\ heap[o].id \in DOMAIN db[t]
             /\ Updatable(t, db[t], {heap[o].id}, s)
          THEN /\ db' = [db EXCEPT ![t] = tab]
               /\ heap' = UpdateSets(heap, o, tab, s)
               /\ UNCHANGED half
               /\ Done("update", t, <<o>>, <<o>>)
          ELSE Failed("update", t, <<o>>)

Delete(t) ==
  \E o \in Objects(t) :
    /\ Idle
    /\ db' = [db EXCEPT ![t] = WithoutRow(@, heap[o].id)]
    /\ UNCHANGED <<heap, half>>
    /\ Done("delete", t, <<o>>, <<>>)

\* Reload keeps the relations.
Reload(t) ==
  \E o \in Objects(t) :
    /\ Idle
    /\ IF heap[o].id \in DOMAIN db[t]
       THEN /\ heap' = [heap EXCEPT ![o].row = db[t][heap[o].id]]
            /\ UNCHANGED <<db, half>>
            /\ Done("reload", t, <<o>>, <<o>>)
       ELSE Failed("reload", t, <<o>>)

(***************************************************************************)
(* Slices: UpdateAll, DeleteAll and ReloadAll, and how what they retrieve  *)
(* gets into the slice: the new object takes the relations of the old one  *)
(* and its place in the slice; who holds a pointer to the old one keeps it.*)
(***************************************************************************)

Match(os, h, o) == {i \in DOMAIN os : h[os[i]].id = h[o].id}

\* Fault: the relations of the old objects are lost.
CopyMatchingRowsBare(os, h, from) ==
  [slice |-> [i \in DOMAIN os |->
                IF \E o \in Range(from) : i \in Match(os, h, o)
                THEN CHOOSE o \in Range(from) : i \in Match(os, h, o)
                ELSE os[i]],
   heap |-> h]

CopyMatchingRows(os, h, from) ==
  [slice |-> [i \in DOMAIN os |->
                IF \E o \in Range(from) : i \in Match(os, h, o)
                THEN CHOOSE o \in Range(from) : i \in Match(os, h, o)
                ELSE os[i]],
   heap |-> [o \in DOMAIN h |->
               IF o \in Range(from) /\ Match(os, h, o) # {}
               THEN LET old == h[os[Max(Match(os, h, o))]]
                    IN [h[o] EXCEPT !.one = old.one, !.many = old.many]
               ELSE h[o]]]

\* Fault: an UPDATE or a DELETE of a slice without a WHERE.
NoPkIN(os) == UNION {DOMAIN db[heap[o].table] : o \in Range(os)}

PkIN(os) == IdsOf(os)

UpdateAllOf(t, os, s) ==
  LET tab == Expressions(t, db[t], PkIN(os), s)
      ids == IF Key(t) \in DOMAIN s /\ PkIN(os) \cap DOMAIN db[t] # {}
             THEN {s[Key(t)]} ELSE PkIN(os)
      h == Scanned(heap, t, ids, tab)
  IN [tab |-> tab, copied |-> CopyMatchingRows(os, h, NewIn(heap, h))]

UpdateAll(t) ==
  \E os \in Slices(t), s \in UpdateSetters[t] :
    LET all == UpdateAllOf(t, os, s)
    IN /\ Idle
       /\ CASE os = <<>> ->
                 /\ UNCHANGED <<db, heap, half>>
                 /\ Done("updateAll", t, os, os)
            [] os # <<>> /\ Updatable(t, db[t], PkIN(os), s) ->
                 /\ db' = [db EXCEPT ![t] = all.tab]
                 /\ heap' = all.copied.heap
                 /\ UNCHANGED half
                 /\ Done("updateAll", t, os, all.copied.slice)
            [] OTHER -> Failed("updateAll", t, os)

DeleteAll(t) ==
  \E os \in Slices(t) :
    /\ Idle
    /\ os # <<>>
    /\ db' = [db EXCEPT ![t] = [i \in DOMAIN @ \ PkIN(os) |-> @[i]]]
    /\ UNCHANGED <<heap, half>>
    /\ Done("deleteAll", t, os, <<>>)

ReloadAll(t) ==
  \E os \in Slices(t) :
    LET h == Scanned(heap, t, PkIN(os), db[t])
        copied == CopyMatchingRows(os, h, NewIn(heap, h))
    IN /\ Idle
       /\ os # <<>>
       /\ heap' = copied.heap
       /\ UNCHANGED <<db, half>>
       /\ Done("reloadAll", t, os, copied.slice)

(***************************************************************************)
(* A relation set: Attach gives rows that exist another parent, Insert     *)
(* stores new ones.  Both ends then point at each other; the former parent *)
(* keeps the pointer it had.                                               *)
(***************************************************************************)

\* Both ends of the relation, once the rows are stored.
Related(h, os, p) ==
  LET c == h[os[1]].table
  IN [o \in DOMAIN h |->
        CASE o = p -> [h[o] EXCEPT !.many[c] = @ \cup Range(os)]
          [] o # p /\ o \in Range(os) -> [h[o] EXCEPT !.one = p]
          [] OTHER -> h[o]]

AttachSetter(t, p) == [c \in {Link(t)} |-> heap[p].id]

\* AttachUser of a child: one UPDATE of its link.
AttachOne(t) ==
  \E o \in Objects(t), p \in Objects(Parent[t]) :
    LET s == AttachSetter(t, p)
        tab == Expressions(t, db[t], {heap[o].id}, s)
    IN /\ Idle
       /\ IF heap[o].id \in DOMAIN db[t]
          THEN /\ db' = [db EXCEPT ![t] = tab]
               /\ heap' = Related(UpdateSets(heap, o, tab, s), <<o>>, p)
               /\ UNCHANGED half
               /\ Answer("attach", t, FALSE, <<o>>, <<o>>, p)
          ELSE Failed("attach", t, <<o>>)

\* InsertUser of a child: the INSERT of the parent, then AttachUser's UPDATE.
InsertOne(t) ==
  \E o \in Objects(t), s \in InsertSetters[Parent[t]] :
      LET u == Parent[t]
          tab == Apply(u, db[u], <<s>>)
      IN /\ Idle
         /\ IF Insertable(u, db[u], <<s>>)
            THEN /\ db' = [db EXCEPT ![u] = tab]
                 /\ heap' = Scanned(heap, u, DOMAIN tab \ DOMAIN db[u], tab)
                 /\ half' = <<o, Len(heap')>>
                 /\ Answer("insert", u, FALSE, <<>>, NewIn(heap, heap'), Nil)
            ELSE Failed("insert", t, <<o>>)

FinishInsertOne(t) ==
  /\ calls < MaxCalls
  /\ half # <<>> /\ half[1] \in Objects(t)
  /\ LET o == half[1]
         p == half[2]
         s == AttachSetter(t, p)
         tab == Expressions(t, db[t], {heap[o].id}, s)
     IN IF heap[o].id \in DOMAIN db[t]
        THEN /\ db' = [db EXCEPT ![t] = tab]
             /\ heap' = Related(UpdateSets(heap, o, tab, s), <<o>>, p)
             /\ half' = <<>>
             /\ Answer("attach", t, FALSE, <<o>>, <<o>>, p)
        ELSE Failed("attach", t, <<o>>)

\* Fault: the objects that were given are linked, not those the slice has now.
AttachManyGiven(t) ==
  \E p \in Objects(Parent[t]), os \in Slices(t) :
    LET all == UpdateAllOf(t, os, AttachSetter(t, p))
        os2 == all.copied.slice
    IN /\ Idle
       /\ os # <<>>
       /\ db' = [db EXCEPT ![t] = all.tab]
       /\ heap' = Related(all.copied.heap, os, p)
       /\ UNCHANGED half
       /\ Answer("attach", t, FALSE, os, os2, p)

\* AttachFiles of a parent: one UpdateAll.  The slice UpdateAll leaves its new
\* objects in is the caller's own, so it is these that get the pointer back.
AttachMany(t) ==
  \E p \in Objects(Parent[t]), os \in Slices(t) :
    LET all == UpdateAllOf(t, os, AttachSetter(t, p))
        os2 == all.copied.slice
    IN /\ Idle
       /\ os # <<>>
       /\ db' = [db EXCEPT ![t] = all.tab]
       /\ heap' = Related(all.copied.heap, os2, p)
       /\ UNCHANGED half
       /\ Answer("attach", t, FALSE, os, os2, p)

\* InsertFiles of a parent: one INSERT, with the link in every setter.
InsertMany(t) ==
  \E p \in Objects(Parent[t]) :
    \E ss \in BoundedSeq(InsertSetters[t], 2) :
        LET linked == [k \in DOMAIN ss |-> Linked(t, heap[p].id, ss[k])]
            tab == Apply(t, db[t], linked)
            h == Scanned(heap, t, DOMAIN tab \ DOMAIN db[t], tab)
            os == NewIn(heap, h)
        IN /\ Idle
           /\ ss # <<>>
           /\ IF Insertable(t, db[t], linked)
              THEN /\ db' = [db EXCEPT ![t] = tab]
                   /\ heap' = Related(h, os, p)
                   /\ UNCHANGED half
                   /\ Answer("insert", t, FALSE, <<>>, os, p)
              ELSE Failed("insert", t, <<>>)

(***************************************************************************)
(* A relation read: Load of an object forgets what it had and queries;     *)
(* Load of a slice queries once for all and deals the rows out.  Preload   *)
(* takes the parent from the query of the child itself.                    *)
(***************************************************************************)

LoadOne(t) ==
  \E o \in Objects(t), ok \in BOOLEAN :
    LET ids == IF ok THEN ParentIds(t, {LinkOf(t, o)}) ELSE {}
        h == Scanned(heap, Parent[t], ids, db[Parent[t]])
    IN /\ Idle
       /\ IF ids # {}
          THEN heap' = [h EXCEPT ![o].one = Len(h), ![Len(h)].many[t] = {o}]
          ELSE heap' = [heap EXCEPT ![o].one = Nil]
       /\ UNCHANGED <<db, half>>
       /\ Answer("load", t, ids = {}, <<o>>, <<o>>, Nil)

\* A child that finds no row keeps the pointer it had.
LoadOneAll(t) ==
  \E os \in Slices(t) :
    LET h == Scanned(heap, Parent[t],
                     ParentIds(t, {LinkOf(t, o) : o \in Range(os)}), db[Parent[t]])
        found == Range(NewIn(heap, h))
        parents(o) == {p \in found : h[p].id = LinkOf(t, o)}
    IN /\ Idle
       /\ os # <<>>
       /\ heap' = [o \in DOMAIN h |->
            CASE o \in Range(os) /\ parents(o) # {} ->
                   [h[o] EXCEPT !.one = CHOOSE p \in parents(o) : TRUE]
              [] o \in found ->
                   [h[o] EXCEPT !.many[t] = {c \in Range(os) : LinkOf(t, c) = h[o].id}]
              [] OTHER -> h[o]]
       /\ UNCHANGED <<db, half>>
       /\ Done("loadAll", t, os, os)

LoadMany(t) ==
  \E p \in Objects(Parent[t]), ok \in BOOLEAN :
    LET ids == IF ok THEN ChildIds(t, {heap[p].id}) ELSE {}
        h == Scanned(heap, t, ids, db[t])
        os == NewIn(heap, h)
    IN /\ Idle
       /\ heap' = [o \in DOMAIN h |->
            CASE o = p -> [h[o] EXCEPT !.many[t] = Range(os)]
              [] o # p /\ o \in Range(os) -> [h[o] EXCEPT !.one = p]
              [] OTHER -> h[o]]
       /\ UNCHANGED <<db, half>>
       /\ Answer("loadMany", t, ~ok, <<p>>, <<p>>, Nil)

LoadManyAll(t) ==
  \E ps \in Slices(Parent[t]) :
    LET h == Scanned(heap, t, ChildIds(t, IdsOf(ps)), db[t])
        os == NewIn(heap, h)
        owners(o) == {i \in DOMAIN ps : heap[ps[i]].id = h[o].row[Link(t)]}
    IN /\ Idle
       /\ ps # <<>>
       /\ heap' = [o \in DOMAIN h |->
            CASE o \in Range(ps) ->
                   [h[o] EXCEPT !.many[t] =
                      {c \in Range(os) : h[c].row[Link(t)] = h[o].id}]
              [] o \in Range(os) -> [h[o] EXCEPT !.one = ps[Max(owners(o))]]
              [] OTHER -> h[o]]
       /\ UNCHANGED <<db, half>>
       /\ Done("loadMany", t, ps, ps)

\* A query with Preload: a LEFT JOIN, so the child is there without a parent.
Preloaded(t) ==
  \E id \in DOMAIN db[t] :
    LET h == Scanned(heap, t, {id}, db[t])
        o == Len(h)
        h2 == Scanned(h, Parent[t], ParentIds(t, {db[t][id][Link(t)]}), db[Parent[t]])
    IN /\ Idle
       /\ heap' = IF Len(h2) = o THEN h2
                  ELSE [h2 EXCEPT ![o].one = o + 1, ![o + 1].many[t] = {o}]
       /\ UNCHANGED <<db, half>>
       /\ Done("load", t, <<o>>, <<o>>)

\* Preload with the objects of a to-many relation, called by hand.
PreloadMany(t) ==
  \E p \in Objects(Parent[t]), os \in Slices(t) :
    /\ Idle
    /\ heap' = [o \in DOMAIN heap |->
         CASE o = p -> [heap[o] EXCEPT !.many[t] = Range(os)]
           [] o # p /\ o \in Range(os) -> [heap[o] EXCEPT !.one = p]
           [] OTHER -> heap[o]]
    /\ UNCHANGED <<db, half>>
    /\ Done("preload", t, <<p>>, <<p>>)

\* Fault: a child without a parent keeps the one it had.
thenLoadBuilderKeeps(t) ==
  \E o \in Objects(t) :
    /\ Idle
    /\ ParentIds(t, {LinkOf(t, o)}) = {}
    /\ UNCHANGED <<db, heap, half>>
    /\ Done("load", t, <<o>>, <<o>>)

\* ThenLoad: the same load as a mod of a query, which takes a child without a
\* parent for no error.
thenLoadBuilder(t) ==
  \E o \in Objects(t) :
    LET ids == ParentIds(t, {LinkOf(t, o)})
    IN /\ Idle
       /\ ids = {}
       /\ heap' = [heap EXCEPT ![o].one = Nil]
       /\ UNCHANGED <<db, half>>
       /\ Done("load", t, <<o>>, <<o>>)

\* The queries of a relation, without loading it.
QueryOne(t) ==
  \E o \in Objects(t) :
    /\ Idle
    /\ heap' = Scanned(heap, Parent[t], ParentIds(t, {LinkOf(t, o)}), db[Parent[t]])
    /\ UNCHANGED <<db, half>>
    /\ Done("queryOne", t, <<o>>, NewIn(heap, heap'))

QueryMany(t) ==
  \E ps \in Slices(Parent[t]) :
    /\ Idle
    /\ ps # <<>>
    /\ heap' = Scanned(heap, t, ChildIds(t, IdsOf(ps)), db[t])
    /\ UNCHANGED <<db, half>>
    /\ Done("queryMany", t, ps, NewIn(heap, heap'))

\* The rows of t joined to their parents: an inner join leaves out the child
\* that has none, a left join does not.
Joined(t) ==
  \E inner \in BOOLEAN :
    LET ids == {i \in DOMAIN db[t] :
                  inner => db[t][i][Link(t)] \in DOMAIN db[Parent[t]]}
    IN /\ Idle
       /\ heap' = Scanned(heap, t, ids, db[t])
       /\ UNCHANGED <<db, half>>
       /\ Done(IF inner THEN "innerJoin" ELSE "leftJoin", t, <<>>, NewIn(heap, heap'))

\* The rows of the parents joined to their children in t, one for each child.
JoinedMany(t) ==
  LET u == Parent[t]
      pairs == SetToSeq({e \in (DOMAIN db[u]) \X (DOMAIN db[t]) :
                           db[t][e[2]][Link(t)] = e[1]})
  IN /\ Idle
     /\ heap' = heap \o [k \in DOMAIN pairs |-> Fresh(u, pairs[k][1], db[u])]
     /\ UNCHANGED <<db, half>>
     /\ Done("innerJoin", t, <<>>, NewIn(heap, heap'))

(***************************************************************************)
(* The methods by file.                                                    *)
(***************************************************************************)

ToOne(t) == AttachOne(t) \/ InsertOne(t) \/ FinishInsertOne(t)
ToMany(t) == AttachMany(t) \/ InsertMany(t)
LoadsOne(t) == LoadOne(t) \/ LoadOneAll(t)
LoadsMany(t) == LoadMany(t) \/ LoadManyAll(t)
Methods(t) == Update(t) \/ Delete(t) \/ Reload(t)
SliceMethods(t) == UpdateAll(t) \/ DeleteAll(t) \/ ReloadAll(t)

\* user.bob.go
UserTable == Insert("user")
UserCredentials == ToMany("credential")
UserFiles == ToMany("file")
UserItems == ToMany("item")
UserProfilePictureFile == ToOne("user")
UserQueries == QueryOne("user") \/ \E c \in Children("user") : QueryMany(c)
UserPreload == \E c \in Children("user") : PreloadMany(c)
UserPreloader == Preloaded("user")
UserThenLoader == thenLoadBuilder("user")
UserLoadCredentials == LoadsMany("credential")
UserLoadFiles == LoadsMany("file")
UserLoadItems == LoadsMany("item")
UserLoadProfilePictureFile == LoadsOne("user")
UserJoins == Joined("user") \/ \E c \in Children("user") : JoinedMany(c)

\* file.bob.go
FileTable == Insert("file")
FileFind == Find("file")
FileMethods == Methods("file")
FileSliceMethods == SliceMethods("file")
FileQueries == QueryOne("file") \/ QueryMany("user")
FileRelations == ToOne("file") \/ ToMany("user")
FilePreload == PreloadMany("user") \/ Preloaded("file")
FileThenLoader == thenLoadBuilder("file")
FileLoads == LoadsOne("file") \/ LoadsMany("user")
FileJoins == Joined("file") \/ JoinedMany("user")

\* item.bob.go
ItemTable == Insert("item")
ItemFind == Find("item")
ItemMethods == Methods("item")
ItemSliceMethods == SliceMethods("item")
ItemQueries == QueryOne("item")
ItemRelations == ToOne("item")
ItemPreload == Preloaded("item")
ItemThenLoader == thenLoadBuilder("item")
ItemLoads == LoadsOne("item")
ItemJoins == Joined("item")

\* credential.bob.go
CredentialTable == Insert("credential")
CredentialFind == Find("credential")
CredentialMethods == Methods("credential")
CredentialSliceMethods == SliceMethods("credential")
CredentialQueries == QueryOne("credential")
CredentialRelations == ToOne("credential")
CredentialPreload == Preloaded("credential")
CredentialThenLoader == thenLoadBuilder("credential")
CredentialLoads == LoadsOne("credential")
CredentialJoins == Joined("credential")

\* schema_migrations.bob.go
SchemaMigrationTable == Insert("schema_migrations")
SchemaMigrationFind == Find("schema_migrations")
SchemaMigrationMethods == Methods("schema_migrations")
SchemaMigrationSliceMethods == SliceMethods("schema_migrations")

StatementFails == calls < MaxCalls /\ Failed("statement", "user", <<>>)

\* Another request updates or deletes a row.
Elsewhere ==
  \E t \in Tables : \E id \in DOMAIN db[t] :
    /\ calls < MaxCalls
    /\ \/ db' = [db EXCEPT ![t] = WithoutRow(@, id)]
       \/ \E s \in UpdateSetters[t] :
            /\ Key(t) \notin DOMAIN s
            /\ db' = [db EXCEPT ![t][id] = Overwrite(@, s)]
    /\ UNCHANGED <<heap, half>>
    /\ Done("elsewhere", t, <<>>, <<>>)

(***************************************************************************)
(* The program starts with the objects of the rows it has just read.       *)
(***************************************************************************)

ReadAll(h, t) == Scanned(h, t, DOMAIN db[t], db[t])

Init ==
  /\ db \in InitialTables
  /\ heap = ReadAll(ReadAll(ReadAll(ReadAll(ReadAll(<<>>, "user"), "file"), "item"),
                            "credential"), "schema_migrations")
  /\ half = <<>>
  /\ calls = 0
  /\ out = [call |-> "none", table |-> "user", err |-> FALSE, given |-> <<>>,
            slice |-> <<>>, parent |-> Nil]

Next ==
  \/ UserTable \/ Find("user") \/ Methods("user") \/ SliceMethods("user")
  \/ UserCredentials \/ UserFiles \/ UserItems \/ UserProfilePictureFile
  \/ UserQueries \/ UserPreload \/ UserPreloader \/ UserThenLoader
  \/ UserLoadCredentials \/ UserLoadFiles \/ UserLoadItems
  \/ UserLoadProfilePictureFile \/ UserJoins
  \/ FileTable \/ FileFind \/ FileMethods \/ FileSliceMethods \/ FileQueries \/ FileRelations
  \/ FilePreload \/ FileThenLoader \/ FileLoads \/ FileJoins
  \/ ItemTable \/ ItemFind \/ ItemMethods \/ ItemSliceMethods \/ ItemQueries \/ ItemRelations
  \/ ItemPreload \/ ItemThenLoader \/ ItemLoads \/ ItemJoins
  \/ CredentialTable \/ CredentialFind \/ CredentialMethods \/ CredentialSliceMethods
  \/ CredentialQueries \/ CredentialRelations \/ CredentialPreload
  \/ CredentialThenLoader \/ CredentialLoads \/ CredentialJoins
  \/ SchemaMigrationTable \/ SchemaMigrationFind
  \/ SchemaMigrationMethods \/ SchemaMigrationSliceMethods
  \/ StatementFails \/ Elsewhere

Spec == Init /\ [][Next]_vars

(***************************************************************************)
(* Properties                                                              *)
(***************************************************************************)

\* The rows have their columns, and every pointer is to an object of the table
\* the relation is with.
TypeOK ==
  /\ DOMAIN db = Tables /\ IsTables(db)
  /\ heap \in Seq(Range(heap))
  /\ \A o \in DOMAIN heap :
       LET x == heap[o]
       IN /\ x.table \in Tables /\ x \in Object(x.table)
          /\ x.one # Nil => x.table \in DOMAIN Parent /\ x.one \in Objects(Parent[x.table])
          /\ \A c \in Children(x.table) : x.many[c] \subseteq Objects(c)
  /\ half # <<>> => \E t \in DOMAIN Parent : half \in Objects(t) \X Objects(Parent[t])
  /\ calls \in 0 .. MaxCalls

Changed(t, id) == id \notin DOMAIN db'[t] \/ db'[t][id] # db[t][id]

\* A method writes no row but those of the objects it was called on or given:
\* pkEQ and pkIN keep an UPDATE and a DELETE from the rest of the table,
\* whatever has become of the rows since they were read.
OnlyNamedRows ==
  [][out'.call # "elsewhere" =>
       \A t \in Tables : \A id \in DOMAIN db[t] :
         Changed(t, id) =>
           \E o \in Range(out'.given) : heap[o].table = t /\ heap[o].id = id]_vars

\* When Attach or Insert of a relation answers without an error, the objects
\* the caller has then and the parent point at each other, and the rows that
\* are there hold the parent's key.
AckedLinksStored ==
  [][out'.parent # Nil =>
       \A o \in Range(out'.slice) :
         LET c == heap'[o]
             p == heap'[out'.parent]
         IN /\ c.one = out'.parent
            /\ o \in p.many[c.table]
            /\ c.id \in DOMAIN db'[c.table] =>
                 db'[c.table][c.id][Link(c.table)] = p.id]_vars

\* The objects a caller has after an update, a reload or an attach are what the
\* rows hold, those of a slice too, where they are other objects; and reloading
\* an object, and reloading or updating a slice of different rows, keeps the
\* relations that were loaded.  (Update of one object does not.)
SliceRenewed ==
  [][~out'.err =>
       /\ out'.call \in {"update", "reload", "updateAll", "reloadAll", "attach"} =>
            \A o \in Range(out'.slice) :
              LET x == heap'[o]
              IN x.id \in DOMAIN db'[x.table] => x.row = db'[x.table][x.id]
       /\ (/\ out'.call \in {"reload", "reloadAll", "updateAll"}
           /\ Cardinality(IdsOf(out'.given)) = Len(out'.given)) =>
            \A k \in DOMAIN out'.slice :
              LET new == heap'[out'.slice[k]]
                  old == heap[out'.given[k]]
              IN new.one = old.one /\ new.many = old.many]_vars

\* A relation that was loaded without an error is the one of the table then.
\* LoadX of a slice is different where the parent's row is gone: the objects
\* keep the parent they had.
LoadedAsStored ==
  [][LET t == out'.table
         LinkedTo(o) == heap'[o].row[Link(t)]
     IN ~out'.err =>
       /\ out'.call \in {"load", "loadAll"} =>
            \A o \in Range(out'.given) :
              IF LinkedTo(o) \in DOMAIN db[Parent[t]]
              THEN /\ heap'[o].one # Nil
                   /\ heap'[heap'[o].one].id = LinkedTo(o)
                   /\ o \in heap'[heap'[o].one].many[t]
              ELSE out'.call = "load" => heap'[o].one = Nil
       /\ out'.call = "loadMany" =>
            \A p \in Range(out'.given) :
              {heap'[o].id : o \in heap'[p].many[t]}
                = {i \in DOMAIN db[t] : db[t][i][Link(t)] = heap'[p].id}]_vars

=============================================================================
