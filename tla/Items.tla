-------------------------------- MODULE Items -------------------------------
(***************************************************************************)
(* The item service (internal/handlers/item/v1/item.go) over the item      *)
(* table (db/schema.sql), as its requests really run: net/http serves each *)
(* request on a goroutine of its own, the handlers open no transaction,    *)
(* and so every database statement is a step by itself, with the           *)
(* statements of the other requests in between.                            *)
(*                                                                         *)
(* A slot is a goroutine that serves one request after another.  What the  *)
(* handler holds between two statements is in pc, call and count; what it  *)
(* answers is in reply.                                                    *)
(***************************************************************************)
EXTENDS Rowids

CONSTANTS
  Users,     \* the ids a verified token carries
  NoUser,    \* the user of a request without a valid token
  Slots,     \* the goroutines serving requests
  Fields,    \* the columns UpdateItem sets: name, description, price, quantity
  Name,      \* the column the filter of GetItems is matched against
  Text,      \* the text columns, which the request validation keeps non-empty
  Vals,      \* the values of these columns
  Zero,      \* the zero value, which Get...() answers for a field not sent
  Times,     \* the readings of the wall clock
  Patterns,  \* the filters, each as the set of names its LIKE pattern matches
  Windows,   \* the Start and End pairs, each as the set of times it lets pass
  Limits,    \* the limits clients ask for
  Offsets,   \* the offsets clients ask for
  MaxId,     \* bound: the largest row id
  Ops        \* the operations clients call

ASSUME ItemsConstants ==
  /\ NoUser \notin Users
  /\ Zero \in Vals
  /\ Name \in Text /\ Text \subseteq Fields
  /\ Patterns \subseteq SUBSET Vals
  /\ Windows \subseteq SUBSET Times
  /\ Limits \subseteq Int
  /\ Offsets \subseteq Int
  /\ MaxId \in Nat

VARIABLES
  items,  \* the item table: id -> row
  pc,     \* the statement each slot executes next
  call,   \* the request each slot serves
  count,  \* the count GetItems has read and not answered yet
  reply,  \* the last answer of each slot
  stale   \* history: the slots whose last read a later write has overtaken

vars == <<items, pc, call, count, reply, stale>>

DefaultLimit == 10

Row == [user : Users, val : [Fields -> Vals], added : Times]
Ids == 1 .. MaxId
Identity == Users \cup {NoUser}

\* The columns an UpdateItemRequest carries; the others are not sent.  The
\* request is validated before the handler: a text column that is sent has at
\* least three characters.  CreateItemRequest has no such rule.
Sent == {g \in UNION {[F -> Vals] : F \in SUBSET Fields} :
           \A f \in Text \cap DOMAIN g : g[f] # Zero}

Calls ==
  [op : {"CreateItem"}, user : Identity, val : [Fields -> Vals], added : Times]
  \cup [op : {"GetItem", "DeleteItem"}, user : Identity, id : Ids]
  \cup [op : {"GetItems"}, user : Identity, names : Patterns \cup {Vals},
        window : Windows \cup {Times}, limit : Limits \cup {DefaultLimit},
        offset : Offsets \cup {0}]
  \cup [op : {"UpdateItem"}, user : Identity, id : Ids, set : Sent]

NoCall == [op |-> "None"]
None == [code |-> "None"]
Code(c) == [code |-> c]
Codes == {"None", "OK", "Unauthenticated", "NotFound", "Internal"}
Replies == {Code(c) : c \in Codes}
           \cup [code : {"OK"}, item : Row]
           \cup [code : {"OK"}, page : SUBSET Ids, count : Nat]

-----------------------------------------------------------------------------
(***************************************************************************)
(* What the statements read and write.                                     *)
(***************************************************************************)

\* Fault: the lookup forgets its second condition.
OwnedByAnyone(c) == c.id \in DOMAIN items

\* WHERE id = ? AND user_id = ?
Owned(c) == c.id \in DOMAIN items /\ items[c.id].user = c.user

\* WHERE user_id = ? AND name LIKE ? AND added >= ? AND added <= ?
Matching(c) ==
  {i \in DOMAIN items : /\ items[i].user = c.user
                        /\ items[i].val[Name] \in c.names
                        /\ items[i].added \in c.window}

\* LIMIT ? OFFSET ? of the matching rows, which SQLite reads in the order of
\* their ids; a negative limit is no limit, a negative offset is none.
Page(c) ==
  LET rank(i) == Cardinality({j \in Matching(c) : j <= i})
      first == IF c.offset < 0 THEN 0 ELSE c.offset
  IN {i \in Matching(c) : /\ rank(i) > first
                          /\ c.limit < 0 \/ rank(i) <= first + c.limit}

\* Fault: the count is taken after the limit is applied.
PageSize(c) == Cardinality(Page(c))

\* SELECT count(1), before the limit and the offset are applied.
Total(c) == Cardinality(Matching(c))

\* The columns after UPDATE: every column is set, one not sent to its zero.
Written(c) == [f \in Fields |-> IF f \in DOMAIN c.set THEN c.set[f] ELSE Zero]

\* Fault: the columns not sent are lost.
UpdatedSentOnly(row, c) == [row EXCEPT !.val = c.set]

Updated(row, c) == [row EXCEPT !.val = Written(c)]

-----------------------------------------------------------------------------
(***************************************************************************)
(* The history variable.  A write to a row of user u overtakes the count   *)
(* that u's GetItems has read, and a deletion the row that an UpdateItem   *)
(* or a DeleteItem has found and not written yet.                          *)
(***************************************************************************)
Counted(u) == {s \in Slots : pc[s] = "GetItems_All" /\ call[s].user = u}
Found(i) == {s \in Slots : pc[s] \in {"UpdateItem_Write", "DeleteItem_Write"} /\ call[s].id = i}

\* The handler returns: its variables are gone.
Answer(s, r) ==
  /\ pc' = [pc EXCEPT ![s] = "Idle"]
  /\ call' = [call EXCEPT ![s] = NoCall]
  /\ reply' = [reply EXCEPT ![s] = r]

\* The answer of a statement that has taken effect: an error when the request
\* is cancelled after the effect and before its result is read.
AnswerWritten(s) == \E c \in {"OK", "Internal"} : Answer(s, Code(c))

-----------------------------------------------------------------------------
First(op) ==
  CASE op = "CreateItem" -> "CreateItem_Insert"
    [] op = "GetItem"    -> "GetItem_Read"
    [] op = "GetItems"   -> "GetItems_Count"
    [] op = "UpdateItem" -> "UpdateItem_Find"
    [] op = "DeleteItem" -> "DeleteItem_Find"

\* A request reaches its handler.  Without a user in its context it is refused
\* there; CreateItem reads the clock before its statement.
Begin(s) ==
  /\ pc[s] = "Idle"
  /\ \E c \in Calls :
       /\ c.op \in Ops
       /\ IF c.user = NoUser
            THEN /\ reply' = [reply EXCEPT ![s] = Code("Unauthenticated")]
                 /\ UNCHANGED <<pc, call>>
            ELSE /\ reply' = [reply EXCEPT ![s] = None]
                 /\ pc' = [pc EXCEPT ![s] = First(c.op)]
                 /\ call' = [call EXCEPT ![s] = c]
  /\ UNCHANGED <<items, count, stale>>

CreateItem_Insert(s) ==
  LET c == call[s]
      id == NextId(items)
  IN /\ pc[s] = "CreateItem_Insert"
     /\ id <= MaxId
     /\ items' = WithRow(items, id, [user |-> c.user, val |-> c.val, added |-> c.added])
     /\ stale' = stale \cup Counted(c.user)
     /\ AnswerWritten(s)
     /\ UNCHANGED count

GetItem_Read(s) ==
  /\ pc[s] = "GetItem_Read"
  /\ Answer(s, IF Owned(call[s]) THEN [code |-> "OK", item |-> items[call[s].id]]
                                 ELSE Code("NotFound"))
  /\ UNCHANGED <<items, count, stale>>

GetItems_Count(s) ==
  /\ pc[s] = "GetItems_Count"
  /\ count' = [count EXCEPT ![s] = Total(call[s])]
  /\ pc' = [pc EXCEPT ![s] = "GetItems_All"]
  /\ UNCHANGED <<items, call, reply, stale>>

GetItems_All(s) ==
  /\ pc[s] = "GetItems_All"
  /\ Answer(s, [code |-> "OK", page |-> Page(call[s]), count |-> count[s]])
  /\ count' = [count EXCEPT ![s] = 0]
  /\ stale' = stale \ {s}
  /\ UNCHANGED items

\* UpdateItem and DeleteItem read the row by id and user ...
Find(s, here, next) ==
  /\ pc[s] = here
  /\ IF Owned(call[s])
       THEN pc' = [pc EXCEPT ![s] = next] /\ UNCHANGED <<call, reply>>
       ELSE Answer(s, Code("NotFound"))
  /\ UNCHANGED <<items, count, stale>>

\* Fault: a deletion trusts the id it is given.
DeleteItem_FindSkipped(s) ==
  /\ pc[s] = "DeleteItem_Find"
  /\ pc' = [pc EXCEPT ![s] = "DeleteItem_Write"]
  /\ UNCHANGED <<items, call, count, reply, stale>>

UpdateItem_Find(s) == Find(s, "UpdateItem_Find", "UpdateItem_Write")
DeleteItem_Find(s) == Find(s, "DeleteItem_Find", "DeleteItem_Write")

\* Fault: the update does not ask for the row it wrote.
NoRowUpdated_Ignored(s) == Answer(s, Code("OK"))

\* ... and write it by id alone.  UPDATE ... RETURNING without a row is an error,
NoRowUpdated(s) == Answer(s, Code("Internal"))

UpdateItem_Write(s) ==
  LET c == call[s]
  IN /\ pc[s] = "UpdateItem_Write"
     /\ IF c.id \in DOMAIN items
          THEN /\ items' = [items EXCEPT ![c.id] = Updated(@, c)]
               /\ stale' = (stale \cup Counted(items[c.id].user)) \ {s}
               /\ AnswerWritten(s)
          ELSE /\ stale' = stale \ {s}
               /\ NoRowUpdated(s)
               /\ UNCHANGED items
     /\ UNCHANGED count

\* DELETE without a row is not.
DeleteItem_Write(s) ==
  LET c == call[s]
  IN /\ pc[s] = "DeleteItem_Write"
     /\ items' = WithoutRow(items, c.id)
     /\ stale' = (stale \cup Found(c.id)
                        \cup (IF c.id \in DOMAIN items THEN Counted(items[c.id].user) ELSE {}))
                 \ {s}
     /\ AnswerWritten(s)
     /\ UNCHANGED count

\* A statement fails without effect.  The handlers that look a row up to write
\* it answer NotFound whatever the error.
Fail(s) ==
  /\ pc[s] # "Idle"
  /\ Answer(s, Code(IF pc[s] \in {"UpdateItem_Find", "DeleteItem_Find"}
                      THEN "NotFound" ELSE "Internal"))
  /\ count' = [count EXCEPT ![s] = 0]
  /\ stale' = stale \ {s}
  /\ UNCHANGED items

-----------------------------------------------------------------------------
Init ==
  /\ items = << >>
  /\ pc = [s \in Slots |-> "Idle"]
  /\ call = [s \in Slots |-> NoCall]
  /\ count = [s \in Slots |-> 0]
  /\ reply = [s \in Slots |-> None]
  /\ stale = {}

Next ==
  \E s \in Slots :
    \/ Begin(s)
    \/ CreateItem_Insert(s)
    \/ GetItem_Read(s)
    \/ GetItems_Count(s)
    \/ GetItems_All(s)
    \/ UpdateItem_Find(s)
    \/ UpdateItem_Write(s)
    \/ DeleteItem_Find(s)
    \/ DeleteItem_Write(s)
    \/ Fail(s)

Spec == Init /\ [][Next]_vars

-----------------------------------------------------------------------------
(***************************************************************************)
(* Properties                                                              *)
(***************************************************************************)
OpAt == [CreateItem_Insert |-> "CreateItem",
         GetItem_Read      |-> "GetItem",
         GetItems_Count    |-> "GetItems",
         GetItems_All      |-> "GetItems",
         UpdateItem_Find   |-> "UpdateItem",
         UpdateItem_Write  |-> "UpdateItem",
         DeleteItem_Find   |-> "DeleteItem",
         DeleteItem_Write  |-> "DeleteItem"]
Statements == DOMAIN OpAt
SecondStatements == {"GetItems_All", "UpdateItem_Write", "DeleteItem_Write"}

\* Every variable has its type: rows are whole, a slot between two statements
\* holds the request its statement belongs to, and an idle slot holds none.
TypeOK ==
  /\ DOMAIN items \subseteq Ids
  /\ items \in [DOMAIN items -> Row]
  /\ pc \in [Slots -> Statements \cup {"Idle"}]
  /\ call \in [Slots -> Calls \cup {NoCall}]
  /\ \A s \in Slots : IF pc[s] = "Idle"
                       THEN call[s] = NoCall
                       ELSE call[s].user \in Users /\ call[s].op = OpAt[pc[s]]
  /\ count \in [Slots -> Nat]
  /\ reply \in [Slots -> Replies]
  /\ stale \subseteq {s \in Slots : pc[s] \in SecondStatements}

\* Between the statement that finds a row and the one that writes it by id
\* alone, the id still denotes a row of the caller unless the row was deleted
\* in between (item.go:171-180 and 205-214).
FoundRowStands ==
  \A s \in Slots :
    pc[s] \in {"UpdateItem_Write", "DeleteItem_Write"} /\ s \notin stale =>
      call[s].id \in DOMAIN items /\ items[call[s].id].user = call[s].user

\* A row of one user is changed or removed by a request of another user only
\* if the row that request had found was deleted and its id issued again
\* before the write by id (item.go:180, item.go:214).
ForeignWriteNeedsReissue ==
  [][\A i \in DOMAIN items : \A s \in Slots :
       /\ pc[s] # "Idle" /\ pc'[s] = "Idle"
       /\ i \notin DOMAIN items' \/ items'[i] # items[i]
       => items[i].user = call[s].user \/ s \in stale]_vars

\* An UpdateItem answered OK has written its values into a row that exists,
\* even when the row it had found was deleted under it: the RETURNING clause
\* makes the missing row an error (item.bob.go:313-317, item.go:186-188).
AckedUpdateLanded ==
  [][\A s \in Slots :
       pc[s] = "UpdateItem_Write" /\ pc'[s] = "Idle" /\ reply'[s].code = "OK" =>
         /\ call[s].id \in DOMAIN items'
         /\ \A f \in DOMAIN call[s].set : items'[call[s].id].val[f] = call[s].set[f]]_vars

\* The page GetItems answers has the size that its count promises, unless the
\* same user's items were written between the two statements; the writes of
\* other users never disturb it (item.go:89 and 109).
Promised(n, c) ==
  LET left == n - (IF c.offset < 0 THEN 0 ELSE c.offset)
  IN IF left < 0 THEN 0 ELSE IF c.limit >= 0 /\ c.limit < left THEN c.limit ELSE left

PageAgreesWithCount ==
  [][\A s \in Slots :
       pc[s] = "GetItems_All" /\ pc'[s] = "Idle" /\ reply'[s].code = "OK" /\ s \notin stale =>
         Cardinality(reply'[s].page) = Promised(reply'[s].count, call[s])]_vars

-----------------------------------------------------------------------------
(***************************************************************************)
(* What the source says and the code does not do.                          *)
(***************************************************************************)

\* item.go:194 "DeleteItem deletes a user's item": the request of a user
\* deletes no item of another.
DeletesOwnItem ==
  [][\A s \in Slots : \A i \in DOMAIN items \ DOMAIN items' :
       pc[s] = "DeleteItem_Write" /\ pc'[s] = "Idle" => items[i].user = call[s].user]_vars

=============================================================================
