------------------------------ MODULE ItemsProofs ---------------------------
(***************************************************************************)
(* Proofs about the item service for any number of users, slots, columns,  *)
(* values and rows.                                                        *)
(***************************************************************************)
EXTENDS Items, FiniteSetTheorems, WellFoundedInduction, TLAPS

-----------------------------------------------------------------------------
(***************************************************************************)
(* Row ids.                                                                *)
(***************************************************************************)

\* A non-empty set of numbers has a smallest element.
LEMMA MinOfNaturals ==
  ASSUME NEW S \in SUBSET Nat, S # {}
  PROVE  Min(S) \in S /\ \A x \in S : Min(S) <= x
<1> DEFINE Less == OpToRel(<, Nat)
<1>1. IsWellFoundedOn(Less, Nat)
  BY NatLessThanWellFounded
<1>2. \A x, y \in Nat : y < x => <<y, x>> \in Less
  BY DEF OpToRel
<1> HIDE DEF Less
<1>3. PICK b \in S : \A k \in S : <<k, b>> \notin Less
  BY <1>1, WFMin
<1>4. ASSUME NEW k \in S  PROVE b <= k
  <2>1. k \in Nat /\ b \in Nat /\ ~(k < b)
    BY <1>2, <1>3
  <2> QED BY <2>1
<1> QED
  BY <1>4 DEF Min

\* A bounded non-empty set of numbers has a largest element, which is what
\* MAX(rowid) answers.
LEMMA MaxOfBounded ==
  ASSUME NEW S \in SUBSET Nat, S # {},
         NEW n \in Nat, \A x \in S : x <= n
  PROVE  Max(S) \in S /\ \A x \in S : x <= Max(S)
<1> DEFINE Bounds == {k \in Nat : \A x \in S : x <= k}
           b == Min(Bounds)
<1>1. n \in Bounds /\ Bounds \in SUBSET Nat
  OBVIOUS
<1>2. b \in Bounds /\ \A k \in Bounds : b <= k
  <2> HIDE DEF Bounds
  <2> QED BY <1>1, MinOfNaturals
<1>3. b \in S
  <2>1. SUFFICES ASSUME b \notin S  PROVE FALSE
    OBVIOUS
  <2>2. PICK x \in S : TRUE
    OBVIOUS
  <2>3. b - 1 \in Bounds
    <3> HIDE DEF b
    <3> QED BY <1>2, <2>1, <2>2
  <2> QED
    BY <1>2, <2>3
<1>4. \A x \in S : b >= x
  BY <1>2
<1> HIDE DEF b
<1> QED
  BY <1>3, <1>4 DEF Max

\* The id of a new row is larger than every id in the table: it denotes no
\* other row, and it is the first id of an empty table.
LEMMA NextIdIsNew ==
  ASSUME NEW n \in Nat, NEW table, DOMAIN table \subseteq 1 .. n
  PROVE  /\ NextId(table) \in 1 .. n + 1
         /\ \A i \in DOMAIN table : i < NextId(table)
         /\ NextId(table) \notin DOMAIN table
<1> DEFINE S == DOMAIN table \cup {0}
<1>1. S \in SUBSET Nat /\ S # {} /\ \A x \in S : x <= n
  OBVIOUS
<1>2. Max(S) \in S /\ \A x \in S : x <= Max(S)
  <2> HIDE DEF S
  <2> QED BY <1>1, MaxOfBounded
<1>3. NextId(table) = Max(S) + 1
  BY DEF NextId
<1> QED
  BY <1>1, <1>2, <1>3

-----------------------------------------------------------------------------
(***************************************************************************)
(* What the helpers answer.                                                *)
(***************************************************************************)

\* The fields of a request, by its operation.
LEMMA CallFields ==
  ASSUME NEW c \in Calls \cup {NoCall}, c.op # "None"
  PROVE  /\ c \in Calls
         /\ c.op \in {"CreateItem", "GetItem", "GetItems", "UpdateItem", "DeleteItem"}
         /\ c.user \in Identity
         /\ c.op = "CreateItem" => c.val \in [Fields -> Vals] /\ c.added \in Times
         /\ c.op \in {"GetItem", "UpdateItem", "DeleteItem"} => c.id \in Ids
         /\ c.op = "UpdateItem" => c.set \in Sent
  BY DEF Calls, NoCall

\* An UPDATE writes a value of the right type into every column.
LEMMA WrittenType ==
  ASSUME NEW c, c.set \in Sent
  PROVE  Written(c) \in [Fields -> Vals]
<1>1. PICK F \in SUBSET Fields : c.set \in [F -> Vals]
  BY DEF Sent
<1> QED
  BY <1>1, ItemsConstants DEF Written

\* The rows a list call matches are rows of the table, so they can be counted.
LEMMA MatchingFinite ==
  ASSUME TypeOK, NEW c
  PROVE  /\ Matching(c) \subseteq Ids
         /\ IsFiniteSet(Matching(c))
         /\ Cardinality(Matching(c)) \in Nat
         /\ Page(c) \subseteq Matching(c)
<1>1. Matching(c) \subseteq Ids /\ Page(c) \subseteq Matching(c)
  BY DEF TypeOK, Matching, Page
<1>2. IsFiniteSet(Ids)
  BY FS_Interval, ItemsConstants DEF Ids
<1> QED
  BY <1>1, <1>2, FS_Subset, FS_CardinalityType

\* Every reply the handlers make is one of Replies.
LEMMA ReplyTypes ==
  /\ None \in Replies
  /\ \A c \in Codes : Code(c) \in Replies
  /\ \A row \in Row : [code |-> "OK", item |-> row] \in Replies
  /\ \A p \in SUBSET Ids, n \in Nat : [code |-> "OK", page |-> p, count |-> n] \in Replies
  BY DEF Replies, None, Code, Codes

-----------------------------------------------------------------------------
(***************************************************************************)
(* Type correctness.                                                       *)
(***************************************************************************)

\* Answering leaves the slot idle and typed.
LEMMA AnswerTyped ==
  ASSUME TypeOK, NEW s \in Slots, NEW r \in Replies, Answer(s, r)
  PROVE  /\ pc' = [pc EXCEPT ![s] = "Idle"]
         /\ pc' \in [Slots -> Statements \cup {"Idle"}]
         /\ call' \in [Slots -> Calls \cup {NoCall}]
         /\ \A t \in Slots : IF pc'[t] = "Idle"
                              THEN call'[t] = NoCall
                              ELSE call'[t].user \in Users /\ call'[t].op = OpAt[pc'[t]]
         /\ reply' \in [Slots -> Replies]
  BY DEF Answer, TypeOK

\* A new row keeps the table a table.
LEMMA WithRowTyped ==
  ASSUME TypeOK, NEW id \in Ids, NEW row \in Row
  PROVE  /\ DOMAIN WithRow(items, id, row) = DOMAIN items \cup {id}
         /\ WithRow(items, id, row) \in [DOMAIN items \cup {id} -> Row]
         /\ DOMAIN items \cup {id} \subseteq Ids
  BY DEF TypeOK, WithRow

LEMMA InitTyped == Init => TypeOK
<1> SUFFICES ASSUME Init  PROVE TypeOK
  OBVIOUS
<1>1. DOMAIN items = {} /\ items \in [DOMAIN items -> Row]
  BY DEF Init
<1> QED
  BY <1>1, ReplyTypes DEF Init, TypeOK

\* Every variable keeps its type, whatever the interleaving of the requests.
LEMMA NextTyped == TypeOK /\ [Next]_vars => TypeOK'
<1> SUFFICES ASSUME TypeOK, [Next]_vars  PROVE TypeOK'
  OBVIOUS
<1>0. CASE UNCHANGED vars
  BY <1>0 DEF vars, TypeOK
<1> SUFFICES ASSUME NEW s \in Slots,
                    \/ Begin(s) \/ CreateItem_Insert(s) \/ GetItem_Read(s)
                    \/ GetItems_Count(s) \/ GetItems_All(s)
                    \/ UpdateItem_Find(s) \/ UpdateItem_Write(s)
                    \/ DeleteItem_Find(s) \/ DeleteItem_Write(s) \/ Fail(s)
             PROVE  TypeOK'
  BY <1>0 DEF Next
<1>1. CASE Begin(s)
  <2>1. PICK c \in Calls :
          IF c.user = NoUser
            THEN /\ reply' = [reply EXCEPT ![s] = Code("Unauthenticated")]
                 /\ UNCHANGED <<pc, call>>
            ELSE /\ reply' = [reply EXCEPT ![s] = None]
                 /\ pc' = [pc EXCEPT ![s] = First(c.op)]
                 /\ call' = [call EXCEPT ![s] = c]
    BY <1>1 DEF Begin
  <2>2. reply' \in [Slots -> Replies]
    BY <2>1, ReplyTypes DEF TypeOK, Codes
  <2>3. CASE c.user = NoUser
    BY <1>1, <2>1, <2>2, <2>3 DEF Begin, TypeOK
  <2>4. CASE c.user # NoUser
    <3>1. c.user \in Users /\ c.op # "None"
      BY <2>4 DEF Calls, Identity
    <3>2. First(c.op) \in Statements /\ OpAt[First(c.op)] = c.op /\ First(c.op) # "Idle"
      BY <3>1, CallFields DEF First, OpAt, Statements
    <3>3. pc' \in [Slots -> Statements \cup {"Idle"}] /\ call' \in [Slots -> Calls \cup {NoCall}]
      BY <2>1, <2>4, <3>2 DEF TypeOK
    <3>4. stale' \subseteq {t \in Slots : pc'[t] \in SecondStatements}
      BY <1>1, <2>1, <2>4 DEF Begin, TypeOK, SecondStatements
    <3> QED
      BY <1>1, <2>1, <2>2, <2>4, <3>1, <3>2, <3>3, <3>4 DEF Begin, TypeOK
  <2> QED BY <2>3, <2>4
<1>2. CASE CreateItem_Insert(s)
  <2> DEFINE c == call[s]
             id == NextId(items)
             row == [user |-> c.user, val |-> c.val, added |-> c.added]
  <2>1. c.op = "CreateItem" /\ c.user \in Users
    BY <1>2 DEF CreateItem_Insert, TypeOK, OpAt
  <2>2. row \in Row
    BY <2>1, CallFields DEF TypeOK, Row
  <2>3. id \in Ids
    BY <1>2, NextIdIsNew, ItemsConstants DEF CreateItem_Insert, TypeOK, Ids
  <2>4. items' = WithRow(items, id, row)
    BY <1>2 DEF CreateItem_Insert
  <2>5. PICK code \in {"OK", "Internal"} : Answer(s, Code(code))
    BY <1>2 DEF CreateItem_Insert, AnswerWritten
  <2>6. Code(code) \in Replies
    BY <2>5, ReplyTypes DEF Codes
  <2>7. DOMAIN items' \subseteq Ids /\ items' \in [DOMAIN items' -> Row]
    <3> HIDE DEF id, row
    <3> QED BY <2>2, <2>3, <2>4, WithRowTyped
  <2>8. stale' \subseteq {t \in Slots : pc'[t] \in SecondStatements}
    BY <1>2, <2>5 DEF CreateItem_Insert, Answer, TypeOK, SecondStatements, Counted
  <2> QED
    BY <1>2, <2>5, <2>6, <2>7, <2>8, AnswerTyped DEF CreateItem_Insert, TypeOK
<1>3. CASE GetItem_Read(s)
  <2>1. call[s].op # "None"
    BY <1>3 DEF GetItem_Read, TypeOK, OpAt
  <2>2. PICK r \in Replies : Answer(s, r)
    BY <1>3, <2>1, ReplyTypes DEF GetItem_Read, TypeOK, Owned, Codes
  <2> QED
    BY <1>3, <2>2, AnswerTyped DEF GetItem_Read, TypeOK, SecondStatements
<1>4. CASE GetItems_Count(s)
  <2>1. call[s].op = "GetItems" /\ pc[s] # "Idle"
    BY <1>4 DEF GetItems_Count, TypeOK, OpAt
  <2>2. count' \in [Slots -> Nat]
    BY <1>4, MatchingFinite DEF GetItems_Count, Total, TypeOK
  <2>3. pc' \in [Slots -> Statements \cup {"Idle"}] /\ OpAt["GetItems_All"] = "GetItems"
    BY <1>4 DEF GetItems_Count, TypeOK, Statements, OpAt
  <2>4. stale' \subseteq {t \in Slots : pc'[t] \in SecondStatements}
    BY <1>4 DEF GetItems_Count, TypeOK, SecondStatements
  <2> QED
    BY <1>4, <2>1, <2>2, <2>3, <2>4 DEF GetItems_Count, TypeOK
<1>5. CASE GetItems_All(s)
  <2>1. [code |-> "OK", page |-> Page(call[s]), count |-> count[s]] \in Replies
    BY MatchingFinite, ReplyTypes DEF TypeOK
  <2>2. stale' \subseteq {t \in Slots : pc'[t] \in SecondStatements}
    BY <1>5 DEF GetItems_All, Answer, TypeOK, SecondStatements
  <2> QED
    BY <1>5, <2>1, <2>2, AnswerTyped DEF GetItems_All, TypeOK
<1>6. ASSUME NEW here \in {"UpdateItem_Find", "DeleteItem_Find"},
             NEW next \in {"UpdateItem_Write", "DeleteItem_Write"},
             OpAt[here] = OpAt[next],
             Find(s, here, next)
      PROVE  TypeOK'
  <2>1. stale' \subseteq {t \in Slots : pc'[t] \in SecondStatements}
    BY <1>6 DEF Find, Answer, TypeOK, SecondStatements
  <2>2. CASE Owned(call[s])
    <3>1. pc' = [pc EXCEPT ![s] = next] /\ call' = call /\ reply' = reply /\ pc[s] = here
      BY <1>6, <2>2 DEF Find
    <3>2. pc' \in [Slots -> Statements \cup {"Idle"}]
      BY <3>1 DEF TypeOK, Statements, OpAt
    <3> QED
      BY <1>6, <2>1, <3>1, <3>2 DEF Find, TypeOK
  <2>3. CASE ~Owned(call[s])
    BY <1>6, <2>1, <2>3, AnswerTyped, ReplyTypes DEF Find, TypeOK, Codes
  <2> QED BY <2>2, <2>3
<1>7. CASE UpdateItem_Write(s)
  <2> DEFINE c == call[s]
  <2>1. c.op = "UpdateItem" /\ c \in Calls /\ c.id \in Ids
    BY <1>7, CallFields DEF UpdateItem_Write, TypeOK, OpAt
  <2>2. Written(c) \in [Fields -> Vals]
    BY <2>1, CallFields, WrittenType
  <2>3. DOMAIN items' = DOMAIN items /\ items' \in [DOMAIN items -> Row]
    BY <1>7, <2>2 DEF UpdateItem_Write, Updated, TypeOK, Row
  <2>4. PICK r \in Replies : Answer(s, r)
    BY <1>7, ReplyTypes DEF UpdateItem_Write, NoRowUpdated, AnswerWritten, Codes
  <2>5. stale' \subseteq {t \in Slots : pc'[t] \in SecondStatements}
    BY <1>7, <2>4 DEF UpdateItem_Write, Answer, TypeOK, SecondStatements, Counted
  <2> QED
    BY <1>7, <2>3, <2>4, <2>5, AnswerTyped DEF UpdateItem_Write, TypeOK
<1>8. CASE DeleteItem_Write(s)
  <2>1. DOMAIN items' \subseteq Ids /\ items' \in [DOMAIN items' -> Row]
    BY <1>8 DEF DeleteItem_Write, WithoutRow, TypeOK
  <2>2. PICK r \in Replies : Answer(s, r)
    BY <1>8, ReplyTypes DEF DeleteItem_Write, AnswerWritten, Codes
  <2>3. stale' \subseteq {t \in Slots : pc'[t] \in SecondStatements}
    BY <1>8, <2>2 DEF DeleteItem_Write, Answer, TypeOK, SecondStatements, Counted, Found
  <2> QED
    BY <1>8, <2>1, <2>2, <2>3, AnswerTyped DEF DeleteItem_Write, TypeOK
<1>9. CASE Fail(s)
  <2>1. PICK r \in Replies : Answer(s, r)
    BY <1>9, ReplyTypes DEF Fail, Codes
  <2>2. stale' \subseteq {t \in Slots : pc'[t] \in SecondStatements}
    BY <1>9, <2>1 DEF Fail, Answer, TypeOK, SecondStatements
  <2> QED
    BY <1>9, <2>1, <2>2, AnswerTyped DEF Fail, TypeOK
<1>10. OpAt["UpdateItem_Find"] = OpAt["UpdateItem_Write"] /\ OpAt["DeleteItem_Find"] = OpAt["DeleteItem_Write"]
  BY DEF OpAt
<1> QED
  BY <1>1, <1>2, <1>3, <1>4, <1>5, <1>6, <1>7, <1>8, <1>9, <1>10
     DEF UpdateItem_Find, DeleteItem_Find

\* The item service is type correct for every value of its constants.
THEOREM TypeCorrect == Spec => []TypeOK
  BY InitTyped, NextTyped, PTL DEF Spec

-----------------------------------------------------------------------------
(***************************************************************************)
(* The row a handler has found.                                            *)
(***************************************************************************)

\* The step by which slot s acts, and the slots that stand still meanwhile.
Step(s) ==
  \/ Begin(s) \/ CreateItem_Insert(s) \/ GetItem_Read(s)
  \/ GetItems_Count(s) \/ GetItems_All(s)
  \/ UpdateItem_Find(s) \/ UpdateItem_Write(s)
  \/ DeleteItem_Find(s) \/ DeleteItem_Write(s) \/ Fail(s)

\* A step of one slot moves no other slot.
LEMMA OthersStand ==
  ASSUME TypeOK, NEW s \in Slots, Step(s), NEW t \in Slots, t # s
  PROVE  pc'[t] = pc[t] /\ call'[t] = call[t]
  BY DEF Step, Begin, CreateItem_Insert, GetItem_Read, GetItems_Count, GetItems_All,
         UpdateItem_Find, UpdateItem_Write, DeleteItem_Find, DeleteItem_Write, Fail,
         Find, Answer, AnswerWritten, NoRowUpdated, TypeOK

\* The four ways a step treats the rows that exist: it leaves them alone, adds
\* one with a new id, changes one or removes one, the last two by id alone.
LEMMA RowsChange ==
  ASSUME TypeOK, NEW s \in Slots, Step(s)
  PROVE  \/ items' = items /\ stale \ {s} \subseteq stale'
         \/ /\ pc[s] = "CreateItem_Insert" /\ stale \subseteq stale'
            /\ DOMAIN items \subseteq DOMAIN items'
            /\ \A i \in DOMAIN items : items'[i] = items[i]
         \/ /\ pc[s] = "UpdateItem_Write" /\ stale \ {s} \subseteq stale'
            /\ DOMAIN items' = DOMAIN items
            /\ \A i \in DOMAIN items :
                 /\ i # call[s].id => items'[i] = items[i]
                 /\ items'[i].user = items[i].user
                 /\ items'[i].added = items[i].added
         \/ /\ pc[s] = "DeleteItem_Write"
            /\ (stale \cup Found(call[s].id)) \ {s} \subseteq stale'
            /\ DOMAIN items' = DOMAIN items \ {call[s].id}
            /\ \A i \in DOMAIN items' : items'[i] = items[i]
<1>1. CASE CreateItem_Insert(s)
  <2>1. NextId(items) \notin DOMAIN items
    BY NextIdIsNew, ItemsConstants DEF TypeOK, Ids
  <2> QED
    BY <1>1, <2>1 DEF CreateItem_Insert, WithRow
<1>2. CASE UpdateItem_Write(s)
  BY <1>2 DEF UpdateItem_Write, Updated, TypeOK, Row
<1>3. CASE DeleteItem_Write(s)
  BY <1>3 DEF DeleteItem_Write, WithoutRow
<1> QED
  BY <1>1, <1>2, <1>3
     DEF Step, Begin, GetItem_Read, GetItems_Count, GetItems_All, UpdateItem_Find,
         DeleteItem_Find, Find, Fail

\* A slot enters the second statement only with a row it owns.
LEMMA FindOwns ==
  ASSUME TypeOK, NEW s \in Slots, Step(s),
         pc'[s] \in {"UpdateItem_Write", "DeleteItem_Write"}
  PROVE  Owned(call[s]) /\ call'[s] = call[s] /\ items' = items
<1>1. ~Begin(s)
  <2> SUFFICES ASSUME Begin(s)  PROVE FALSE
    OBVIOUS
  <2>1. PICK c \in Calls : IF c.user = NoUser
                            THEN pc' = pc
                            ELSE pc' = [pc EXCEPT ![s] = First(c.op)]
    BY DEF Begin
  <2>2. pc[s] = "Idle"
    BY DEF Begin
  <2> QED
    BY <2>1, <2>2, CallFields DEF First, TypeOK, Calls
<1>2. ~Answer(s, reply'[s]) /\ pc'[s] # "Idle" /\ pc'[s] # "GetItems_All"
  BY DEF Answer, TypeOK
<1>3. UpdateItem_Find(s) \/ DeleteItem_Find(s)
  BY <1>1, <1>2
     DEF Step, CreateItem_Insert, GetItem_Read, GetItems_Count, GetItems_All,
         UpdateItem_Write, DeleteItem_Write, Fail, Answer, AnswerWritten, NoRowUpdated, TypeOK
<1> QED
  BY <1>2, <1>3 DEF UpdateItem_Find, DeleteItem_Find, Find, Answer, TypeOK

Inv == TypeOK /\ FoundRowStands

LEMMA InitInv == Init => Inv
  BY InitTyped DEF Inv, FoundRowStands, Init

LEMMA NextInv == Inv /\ [Next]_vars => Inv'
<1> SUFFICES ASSUME Inv, [Next]_vars  PROVE FoundRowStands'
  BY NextTyped DEF Inv
<1>1. CASE UNCHANGED vars
  BY <1>1 DEF vars, Inv, FoundRowStands, Owned
<1>2. ASSUME NEW s \in Slots, Step(s)  PROVE FoundRowStands'
  <2> SUFFICES ASSUME NEW t \in Slots,
                      pc'[t] \in {"UpdateItem_Write", "DeleteItem_Write"},
                      t \notin stale'
               PROVE  call'[t].id \in DOMAIN items' /\ items'[call'[t].id].user = call'[t].user
    BY DEF FoundRowStands, Owned
  <2>1. CASE t = s
    BY <1>2, <2>1, FindOwns DEF Inv, Owned
  <2>2. CASE t # s
    <3>1. /\ pc[t] \in {"UpdateItem_Write", "DeleteItem_Write"}
          /\ call'[t] = call[t]
      BY <1>2, <2>2, OthersStand DEF Inv
    <3>2. t \notin stale /\ (pc[s] = "DeleteItem_Write" => call[t].id # call[s].id \/ items' = items)
      <4>1. pc[s] = "DeleteItem_Write" /\ call[t].id = call[s].id => t \in Found(call[s].id)
        BY <3>1 DEF Found
      <4>2. /\ stale \ {s} \subseteq stale'
            /\ \/ items' = items
               \/ pc[s] # "DeleteItem_Write"
               \/ Found(call[s].id) \ {s} \subseteq stale'
        BY <1>2, RowsChange DEF Inv
      <4> QED
        BY <2>2, <4>1, <4>2
    <3>3. call[t].id \in DOMAIN items /\ items[call[t].id].user = call[t].user
      BY <3>1, <3>2 DEF Inv, FoundRowStands, Owned
    <3>4. call[t].id \in DOMAIN items' /\ items'[call[t].id].user = items[call[t].id].user
      <4> DEFINE i == call[t].id
      <4>1. i \in DOMAIN items /\ (pc[s] = "DeleteItem_Write" => i # call[s].id \/ items' = items)
        BY <3>2, <3>3
      <4> HIDE DEF i
      <4>2. i \in DOMAIN items' /\ items'[i].user = items[i].user
        BY <1>2, <4>1, RowsChange DEF Inv
      <4> QED BY <4>2 DEF i
    <3> QED
      BY <3>1, <3>3, <3>4
  <2> QED BY <2>1, <2>2
<1> QED
  BY <1>1, <1>2 DEF Next, Step

\* Between its two statements an UpdateItem or a DeleteItem stands on a row of
\* its caller, unless the row has been deleted meanwhile.
THEOREM FoundRowSafe == Spec => []FoundRowStands
<1>1. Inv => FoundRowStands
  BY DEF Inv
<1> QED
  BY <1>1, InitInv, NextInv, PTL DEF Spec

-----------------------------------------------------------------------------
(***************************************************************************)
(* What a step may do to the rows.                                         *)
(***************************************************************************)

\* A user's row is changed or removed by another user's request only after the
\* deletion of the row that request had found.
THEOREM ForeignWriteSafe == Spec => ForeignWriteNeedsReissue
<1>1. Inv /\ [Next]_vars =>
        [\A i \in DOMAIN items : \A s \in Slots :
           /\ pc[s] # "Idle" /\ pc'[s] = "Idle"
           /\ i \notin DOMAIN items' \/ items'[i] # items[i]
           => items[i].user = call[s].user \/ s \in stale]_vars
  <2> SUFFICES ASSUME Inv, NEW r \in Slots, Step(r),
                      NEW i \in DOMAIN items, NEW s \in Slots,
                      pc[s] # "Idle", pc'[s] = "Idle",
                      i \notin DOMAIN items' \/ items'[i] # items[i],
                      s \notin stale
               PROVE  items[i].user = call[s].user
    BY DEF Next, Step
  <2>1. r = s
    BY OthersStand DEF Inv
  <2>2. pc[s] \in {"UpdateItem_Write", "DeleteItem_Write"} /\ i = call[s].id
    BY <2>1, RowsChange DEF Inv
  <2> QED
    BY <2>2 DEF Inv, FoundRowStands, Owned
<1> QED
  BY <1>1, InitInv, NextInv, PTL DEF Spec, ForeignWriteNeedsReissue

\* An UpdateItem that is answered OK has landed in a row that exists.
THEOREM AckedUpdateSafe == Spec => AckedUpdateLanded
<1>1. Inv /\ [Next]_vars =>
        [\A s \in Slots :
           pc[s] = "UpdateItem_Write" /\ pc'[s] = "Idle" /\ reply'[s].code = "OK" =>
             /\ call[s].id \in DOMAIN items'
             /\ \A f \in DOMAIN call[s].set : items'[call[s].id].val[f] = call[s].set[f]]_vars
  <2> SUFFICES ASSUME Inv, NEW r \in Slots, Step(r),
                      NEW s \in Slots, pc[s] = "UpdateItem_Write", pc'[s] = "Idle",
                      reply'[s].code = "OK"
               PROVE  /\ call[s].id \in DOMAIN items'
                      /\ \A f \in DOMAIN call[s].set : items'[call[s].id].val[f] = call[s].set[f]
    BY DEF Next, Step
  <2> DEFINE c == call[s]
  <2>1. r = s
    BY OthersStand DEF Inv
  <2>2. UpdateItem_Write(s) \/ Fail(s)
    BY <2>1 DEF Step, Begin, CreateItem_Insert, GetItem_Read, GetItems_Count, GetItems_All,
                UpdateItem_Find, DeleteItem_Find, DeleteItem_Write, Find
  <2>3. c.id \in DOMAIN items /\ items' = [items EXCEPT ![c.id] = Updated(@, c)]
    BY <2>2 DEF UpdateItem_Write, Fail, NoRowUpdated, Answer, Code, Inv, TypeOK
  <2>4. c.set \in Sent
    BY CallFields DEF Inv, TypeOK, OpAt
  <2>5. DOMAIN c.set \subseteq Fields
    BY <2>4 DEF Sent
  <2>6. items'[c.id].val = Written(c)
    BY <2>3 DEF Updated, Inv, TypeOK, Row
  <2> QED
    BY <2>3, <2>5, <2>6 DEF Written
<1> QED
  BY <1>1, InitInv, NextInv, PTL DEF Spec, AckedUpdateLanded

-----------------------------------------------------------------------------
(***************************************************************************)
(* The page of a list call and its count.                                  *)
(***************************************************************************)

\* How many numbers of a set are up to i, the rank a LIMIT counts by.
RankIn(M, i) == Cardinality({j \in M : j <= i})

\* Ranks grow with the ids and stay within the size of the set.
LEMMA RanksGrow ==
  ASSUME NEW M \in SUBSET Int, IsFiniteSet(M)
  PROVE  /\ \A i \in M : RankIn(M, i) \in 1 .. Cardinality(M)
         /\ \A i, k \in M : i < k => RankIn(M, i) < RankIn(M, k)
<1> DEFINE Below(i) == {j \in M : j <= i}
<1>1. \A i \in M : /\ IsFiniteSet(Below(i)) /\ RankIn(M, i) = Cardinality(Below(i))
                   /\ Cardinality(Below(i)) \in Nat
                   /\ Cardinality(Below(i)) <= Cardinality(M)
  <2> SUFFICES ASSUME NEW i \in M
               PROVE  /\ IsFiniteSet(Below(i)) /\ RankIn(M, i) = Cardinality(Below(i))
                      /\ Cardinality(Below(i)) \in Nat
                      /\ Cardinality(Below(i)) <= Cardinality(M)
    OBVIOUS
  <2>1. Below(i) \in SUBSET M /\ RankIn(M, i) = Cardinality(Below(i))
    BY DEF RankIn
  <2> HIDE DEF Below
  <2> QED
    BY <2>1, FS_Subset, FS_CardinalityType
<1>2. ASSUME NEW i \in M  PROVE RankIn(M, i) \in 1 .. Cardinality(M)
  <2>1. Below(i) # {} /\ i \in Int
    OBVIOUS
  <2> HIDE DEF Below
  <2>2. Cardinality(Below(i)) # 0
    BY <1>1, <2>1, FS_EmptySet
  <2>3. Cardinality(M) \in Nat
    BY FS_CardinalityType
  <2> QED
    BY <1>1, <2>2, <2>3
<1>3. ASSUME NEW i \in M, NEW k \in M, i < k  PROVE RankIn(M, i) < RankIn(M, k)
  <2>1. Below(i) \in SUBSET Below(k) /\ k \in Below(k) /\ k \notin Below(i)
    <3>1. \A j \in M : j <= i => j <= k
      BY <1>3
    <3>2. ~(k <= i) /\ k <= k
      BY <1>3
    <3> QED BY <3>1, <3>2
  <2>2. Below(i) # Below(k)
    BY <2>1
  <2> HIDE DEF Below
  <2>3. Cardinality(Below(i)) <= Cardinality(Below(k))
        /\ Cardinality(Below(i)) # Cardinality(Below(k))
    BY <1>1, <2>1, <2>2, FS_Subset
  <2> QED
    BY <1>1, <2>3
<1> QED
  BY <1>2, <1>3

\* So there is exactly one of every rank, and the elements with the ranks a to b
\* are as many as the numbers a to b.
LEMMA RanksCount ==
  ASSUME NEW M \in SUBSET Int, IsFiniteSet(M),
         NEW a \in Int, NEW b \in Int, 1 <= a, b <= Cardinality(M)
  PROVE  Cardinality({i \in M : a <= RankIn(M, i) /\ RankIn(M, i) <= b})
           = IF a > b THEN 0 ELSE b - a + 1
<1> DEFINE n == Cardinality(M)
           rank == [i \in M |-> RankIn(M, i)]
           Part == {i \in M : a <= RankIn(M, i) /\ RankIn(M, i) <= b}
           part == [i \in Part |-> RankIn(M, i)]
<1>1. n \in Nat
  BY FS_CardinalityType
<1>2. rank \in Injection(M, 1 .. n)
  <2>1. rank \in [M -> 1 .. n]
    BY RanksGrow
  <2>2. ASSUME NEW i \in M, NEW k \in M, rank[i] = rank[k]  PROVE i = k
    <3>1. RankIn(M, i) = RankIn(M, k) /\ RankIn(M, i) \in 1 .. n
      BY <2>2, RanksGrow
    <3>2. ~(i < k) /\ ~(k < i)
      <4> HIDE DEF n, rank
      <4> QED BY <3>1, RanksGrow
    <3> QED BY <3>2
  <2>3. DOMAIN rank = M
    OBVIOUS
  <2> HIDE DEF rank
  <2> QED
    BY <2>1, <2>2, <2>3 DEF Injection, IsInjective
<1>3. IsFiniteSet(1 .. n) /\ Cardinality(1 .. n) = n
  BY <1>1, FS_Interval
<1>4. rank \in Surjection(M, 1 .. n)
  <2> HIDE DEF rank
  <2> QED BY <1>2, <1>3, FS_Injection DEF n
<1>5. \A r \in 1 .. n : \E i \in M : RankIn(M, i) = r
  <2>1. \A i \in M : rank[i] = RankIn(M, i)
    OBVIOUS
  <2> HIDE DEF rank
  <2> QED BY <1>4, <2>1 DEF Surjection
<1>6. \A i, k \in M : RankIn(M, i) = RankIn(M, k) => i = k
  <2>1. \A i \in M : rank[i] = RankIn(M, i)
    OBVIOUS
  <2>2. DOMAIN rank = M
    OBVIOUS
  <2> HIDE DEF rank
  <2> QED BY <1>2, <2>1, <2>2 DEF Injection, IsInjective
<1>7. \A i \in M : RankIn(M, i) \in 1 .. n
  BY RanksGrow
<1>8. part \in Bijection(Part, a .. b)
  <2>1. part \in [Part -> a .. b]
    <3> SUFFICES ASSUME NEW i \in Part  PROVE RankIn(M, i) \in a .. b
      OBVIOUS
    <3>1. RankIn(M, i) \in 1 .. n /\ a <= RankIn(M, i) /\ RankIn(M, i) <= b
      BY <1>7
    <3> QED BY <3>1
  <2>2. IsInjective(part)
    BY <1>6 DEF IsInjective
  <2>3. \A r \in a .. b : \E i \in Part : part[i] = r
    <3> SUFFICES ASSUME NEW r \in a .. b  PROVE \E i \in Part : part[i] = r
      OBVIOUS
    <3>1. r \in 1 .. n
      BY <1>1
    <3>2. PICK i \in M : RankIn(M, i) = r
      BY <1>5, <3>1
    <3>3. a <= RankIn(M, i) /\ RankIn(M, i) <= b
      BY <3>2
    <3> QED
      BY <3>2, <3>3
  <2> HIDE DEF part, Part
  <2> QED
    BY <2>1, <2>2, <2>3 DEF Bijection, Injection, Surjection
<1>9. IsFiniteSet(Part)
  BY FS_Subset
<1>10. Cardinality(a .. b) = Cardinality(Part)
  <2> HIDE DEF part, Part
  <2> QED BY <1>8, <1>9, FS_Bijection DEF ExistsBijection
<1> QED
  BY <1>10, FS_Interval

\* The page has the size that the count of the same rows promises, for every
\* limit and offset a client may send.
LEMMA PageOfCount ==
  ASSUME TypeOK, NEW c, c.limit \in Int, c.offset \in Int
  PROVE  Cardinality(Page(c)) = Promised(Total(c), c)
<1> DEFINE M == Matching(c)
           n == Cardinality(M)
           first == IF c.offset < 0 THEN 0 ELSE c.offset
           last == IF c.limit < 0 \/ n < first + c.limit THEN n ELSE first + c.limit
<1>1. M \in SUBSET Int /\ IsFiniteSet(M) /\ n \in Nat
  BY MatchingFinite DEF Ids
<1>2. first \in Nat /\ last \in Int /\ last <= n
  <2> HIDE DEF M, n
  <2> QED BY <1>1
<1>3. \A i \in M : RankIn(M, i) \in 1 .. n
  <2> HIDE DEF M
  <2> QED BY <1>1, RanksGrow DEF n
<1>4. Page(c) = {i \in M : first + 1 <= RankIn(M, i) /\ RankIn(M, i) <= last}
  <2>1. Page(c) = {i \in M : /\ RankIn(M, i) > first
                             /\ c.limit < 0 \/ RankIn(M, i) <= first + c.limit}
    BY DEF Page, RankIn
  <2>2. ASSUME NEW i \in M
        PROVE  (/\ RankIn(M, i) > first
                /\ c.limit < 0 \/ RankIn(M, i) <= first + c.limit)
               <=> (first + 1 <= RankIn(M, i) /\ RankIn(M, i) <= last)
    <3> DEFINE r == RankIn(M, i)
    <3>1. r \in 1 .. n
      BY <1>3
    <3> HIDE DEF r, M, n
    <3>2. (r > first /\ (c.limit < 0 \/ r <= first + c.limit))
            <=> (first + 1 <= r /\ r <= last)
      BY <1>1, <1>2, <3>1
    <3> QED BY <3>2 DEF r
  <2> HIDE DEF M, first, last
  <2> QED BY <2>1, <2>2
<1>5. Cardinality(Page(c)) = IF first + 1 > last THEN 0 ELSE last - (first + 1) + 1
  <2>1. first + 1 \in Int /\ 1 <= first + 1
    BY <1>2
  <2>2. last <= Cardinality(M)
    BY <1>2
  <2> HIDE DEF M, n, first, last
  <2> QED BY <1>1, <1>2, <1>4, <2>1, <2>2, RanksCount
<1>6. Promised(n, c) = IF first + 1 > last THEN 0 ELSE last - (first + 1) + 1
  <2> HIDE DEF M, n
  <2> QED BY <1>1, <1>2 DEF Promised
<1> QED
  BY <1>5, <1>6 DEF Total

\* The count a GetItems has read is still the number of its rows, unless a
\* write to them has overtaken it.
CountStands ==
  \A s \in Slots : pc[s] = "GetItems_All" /\ s \notin stale => count[s] = Total(call[s])

\* The rows a request of user u is answered from are not touched by a step that
\* leaves a slot of u out of stale.
LEMMA MatchesStand ==
  ASSUME TypeOK, NEW s \in Slots, Step(s), NEW t \in Slots, t # s,
         pc[t] = "GetItems_All", t \notin stale'
  PROVE  Matching(call[t])' = Matching(call[t]) /\ t \notin stale
<1> DEFINE c == call[t]
           mine(tab) == {i \in DOMAIN tab : /\ tab[i].user = c.user
                                            /\ tab[i].val[Name] \in c.names
                                            /\ tab[i].added \in c.window}
<1>1. call'[t] = call[t]
  BY OthersStand
<1>2. t \notin stale
  BY RowsChange
<1>3. ASSUME NEW i,
             c.user # items'[i].user \/ i \notin DOMAIN items',
             c.user # items[i].user \/ i \notin DOMAIN items,
             DOMAIN items' \ {i} = DOMAIN items \ {i},
             \A j \in DOMAIN items \ {i} : items'[j] = items[j]
      PROVE  mine(items') = mine(items)
  BY <1>3
<1>4. CASE CreateItem_Insert(s)
  <2> DEFINE id == NextId(items)
  <2>1. id \notin DOMAIN items
    BY NextIdIsNew, ItemsConstants DEF TypeOK, Ids
  <2>2. t \notin Counted(call[s].user)
    BY <1>4 DEF CreateItem_Insert
  <2>3. call[s].user # c.user
    BY <2>2 DEF Counted
  <2> DEFINE row == [user |-> call[s].user, val |-> call[s].val, added |-> call[s].added]
  <2>4. items' = WithRow(items, id, row) /\ row.user = call[s].user
    BY <1>4 DEF CreateItem_Insert
  <2> HIDE DEF id, row
  <2>5. /\ DOMAIN items' \ {id} = DOMAIN items \ {id} /\ items'[id].user = row.user
        /\ \A j \in DOMAIN items \ {id} : items'[j] = items[j]
    BY <2>1, <2>4 DEF WithRow
  <2>6. mine(items') = mine(items)
    BY <1>3, <2>1, <2>3, <2>4, <2>5
  <2> QED
    BY <1>1, <1>2, <2>6 DEF Matching
<1>5. CASE UpdateItem_Write(s)
  <2> DEFINE id == call[s].id
  <2>1. CASE id \notin DOMAIN items
    BY <1>1, <1>2, <1>5, <2>1 DEF UpdateItem_Write, Matching
  <2>2. CASE id \in DOMAIN items
    <3>1. t \notin Counted(items[id].user)
      BY <1>5, <2>2 DEF UpdateItem_Write
    <3>2. items[id].user # c.user
      BY <3>1 DEF Counted
    <3>3. /\ DOMAIN items' = DOMAIN items
          /\ \A j \in DOMAIN items : j # id => items'[j] = items[j]
          /\ items'[id].user = items[id].user
      BY <1>5, <2>2 DEF UpdateItem_Write, Updated, TypeOK, Row
    <3> HIDE DEF id
    <3>4. mine(items') = mine(items)
      BY <1>3, <3>2, <3>3
    <3> QED
      BY <1>1, <1>2, <3>4 DEF Matching
  <2> QED BY <2>1, <2>2
<1>6. CASE DeleteItem_Write(s)
  <2> DEFINE id == call[s].id
  <2>1. /\ DOMAIN items' = DOMAIN items \ {id}
        /\ \A j \in DOMAIN items \ {id} : items'[j] = items[j]
    BY <1>6 DEF DeleteItem_Write, WithoutRow
  <2>2. id \in DOMAIN items => t \notin Counted(items[id].user)
    BY <1>6 DEF DeleteItem_Write
  <2>3. id \in DOMAIN items => items[id].user # c.user
    BY <2>2 DEF Counted
  <2> HIDE DEF id
  <2>4. mine(items') = mine(items)
    BY <1>3, <2>1, <2>3
  <2> QED
    BY <1>1, <1>2, <2>4 DEF Matching
<1>7. items' = items \/ CreateItem_Insert(s) \/ UpdateItem_Write(s) \/ DeleteItem_Write(s)
  BY DEF Step, Begin, GetItem_Read, GetItems_Count, GetItems_All, UpdateItem_Find,
         DeleteItem_Find, Find, Fail
<1>8. CASE items' = items
  BY <1>1, <1>2, <1>8 DEF Matching
<1> QED
  BY <1>4, <1>5, <1>6, <1>7, <1>8

\* A slot enters the second statement of a list call with the count of it.
LEMMA CountRead ==
  ASSUME TypeOK, NEW s \in Slots, Step(s), pc'[s] = "GetItems_All"
  PROVE  GetItems_Count(s)
<1>1. ~Begin(s)
  <2> SUFFICES ASSUME Begin(s)  PROVE FALSE
    OBVIOUS
  <2>1. PICK c \in Calls : IF c.user = NoUser
                            THEN pc' = pc
                            ELSE pc' = [pc EXCEPT ![s] = First(c.op)]
    BY DEF Begin
  <2>2. pc[s] = "Idle"
    BY DEF Begin
  <2> QED
    BY <2>1, <2>2, CallFields DEF First, TypeOK, Calls
<1>2. ~Answer(s, reply'[s])
  BY DEF Answer, TypeOK
<1> QED
  BY <1>1, <1>2
     DEF Step, CreateItem_Insert, GetItem_Read, GetItems_All, UpdateItem_Find,
         UpdateItem_Write, DeleteItem_Find, DeleteItem_Write, Find, Fail, Answer,
         AnswerWritten, NoRowUpdated, TypeOK

\* A step leaves the count of every other slot alone.
LEMMA OtherCounts ==
  ASSUME TypeOK, NEW s \in Slots, Step(s), NEW t \in Slots, t # s
  PROVE  count'[t] = count[t]
  BY DEF Step, Begin, CreateItem_Insert, GetItem_Read, GetItems_Count, GetItems_All,
         UpdateItem_Find, UpdateItem_Write, DeleteItem_Find, DeleteItem_Write, Fail,
         Find, TypeOK

LEMMA InitCount == Init => CountStands
  BY DEF Init, CountStands

LEMMA NextCount == TypeOK /\ CountStands /\ [Next]_vars => CountStands'
<1> SUFFICES ASSUME TypeOK, CountStands, [Next]_vars  PROVE CountStands'
  OBVIOUS
<1>1. CASE UNCHANGED vars
  BY <1>1 DEF vars, CountStands, Total, Matching
<1>2. ASSUME NEW s \in Slots, Step(s)  PROVE CountStands'
  <2> SUFFICES ASSUME NEW t \in Slots, pc'[t] = "GetItems_All", t \notin stale'
               PROVE  count'[t] = Total(call[t])'
    BY DEF CountStands
  <2>1. CASE t = s
    <3>1. GetItems_Count(s)
      BY <1>2, <2>1, CountRead
    <3> QED
      BY <2>1, <3>1 DEF GetItems_Count, Total, Matching, TypeOK
  <2>2. CASE t # s
    <3>1. pc[t] = "GetItems_All" /\ count'[t] = count[t]
      BY <1>2, <2>2, OthersStand, OtherCounts
    <3>2. Matching(call[t])' = Matching(call[t]) /\ t \notin stale
      BY <1>2, <2>2, <3>1, MatchesStand
    <3> QED
      BY <3>1, <3>2 DEF CountStands, Total
  <2> QED BY <2>1, <2>2
<1> QED
  BY <1>1, <1>2 DEF Next, Step

\* The page GetItems answers has the size that its count promises, unless the
\* caller's own items were written between its two statements.
THEOREM PageAgrees == Spec => PageAgreesWithCount
<1>1. TypeOK /\ CountStands /\ [Next]_vars =>
        [\A s \in Slots :
           pc[s] = "GetItems_All" /\ pc'[s] = "Idle" /\ reply'[s].code = "OK" /\ s \notin stale =>
             Cardinality(reply'[s].page) = Promised(reply'[s].count, call[s])]_vars
  <2> SUFFICES ASSUME TypeOK, CountStands, NEW r \in Slots, Step(r),
                      NEW s \in Slots, pc[s] = "GetItems_All", pc'[s] = "Idle",
                      reply'[s].code = "OK", s \notin stale
               PROVE  Cardinality(reply'[s].page) = Promised(reply'[s].count, call[s])
    BY DEF Next, Step
  <2> DEFINE c == call[s]
  <2>1. r = s
    BY OthersStand
  <2>2. GetItems_All(s) \/ Fail(s)
    BY <2>1 DEF Step, Begin, CreateItem_Insert, GetItem_Read, GetItems_Count, UpdateItem_Find,
                UpdateItem_Write, DeleteItem_Find, DeleteItem_Write, Find
  <2>3. ~Fail(s)
    BY DEF Fail, Answer, Code, TypeOK
  <2>4. reply'[s] = [code |-> "OK", page |-> Page(c), count |-> count[s]]
    BY <2>2, <2>3 DEF GetItems_All, Answer, TypeOK
  <2>5. count[s] = Total(c)
    BY DEF CountStands
  <2>6. c.limit \in Int /\ c.offset \in Int
    <3>1. c.op = "GetItems" /\ c \in Calls \cup {NoCall}
      BY DEF TypeOK, OpAt
    <3>2. c.limit \in Limits \cup {DefaultLimit} /\ c.offset \in Offsets \cup {0}
      BY <3>1 DEF Calls, NoCall
    <3> HIDE DEF c
    <3>3. Limits \cup {DefaultLimit} \subseteq Int /\ Offsets \cup {0} \subseteq Int
      BY ItemsConstants DEF DefaultLimit
    <3> QED
      BY <3>2, <3>3
  <2> HIDE DEF c
  <2>7. reply'[s].page = Page(c) /\ reply'[s].count = Total(c)
    BY <2>4, <2>5
  <2> QED
    BY <2>6, <2>7, PageOfCount DEF c
<1> QED
  BY <1>1, InitTyped, NextTyped, InitCount, NextCount, PTL DEF Spec, PageAgreesWithCount

=============================================================================
