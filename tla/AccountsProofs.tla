---------------------------- MODULE AccountsProofs --------------------------
(***************************************************************************)
(* Proofs about the account service for any number of names, passwords,    *)
(* slots and accounts.                                                     *)
(***************************************************************************)
EXTENDS Accounts, WellFoundedInduction, TLAPS

-----------------------------------------------------------------------------
(***************************************************************************)
(* Row ids.                                                                *)
(***************************************************************************)

\* A non-empty set of numbers has a smallest element.
LEMMA MinOfNaturals ==
  ASSUME NEW S \in SUBSET Nat, S # {}
  PROVE  Min(S) \in S /\ \A x \in S : Min(S) <= x
<1> DEFINE Less == OpToRel(<, Nat)
<1>1. IsWellFoundedOn(Less, Nat)
  BY NatLessThanWellFounded
<1>2. \A x, y \in Nat : y < x => <<y, x>> \in Less
  BY DEF OpToRel
<1> HIDE DEF Less
<1>3. PICK b \in S : \A k \in S : <<k, b>> \notin Less
  BY <1>1, WFMin
<1>4. ASSUME NEW k \in S  PROVE b <= k
  <2>1. k \in Nat /\ b \in Nat /\ ~(k < b)
    BY <1>2, <1>3
  <2> QED BY <2>1
<1> QED
  BY <1>4 DEF Min

\* A bounded non-empty set of numbers has a largest element, which is what
\* MAX(rowid) answers.
LEMMA MaxOfBounded ==
  ASSUME NEW S \in SUBSET Nat, S # {},
         NEW n \in Nat, \A x \in S : x <= n
  PROVE  Max(S) \in S /\ \A x \in S : x <= Max(S)
<1> DEFINE Bounds == {k \in Nat : \A x \in S : x <= k}
           b == Min(Bounds)
<1>1. n \in Bounds /\ Bounds \in SUBSET Nat
  OBVIOUS
<1>2. b \in Bounds /\ \A k \in Bounds : b <= k
  <2> HIDE DEF Bounds
  <2> QED BY <1>1, MinOfNaturals
<1>3. b \in S
  <2>1. SUFFICES ASSUME b \notin S  PROVE FALSE
    OBVIOUS
  <2>2. PICK x \in S : TRUE
    OBVIOUS
  <2>3. b - 1 \in Bounds
    <3> HIDE DEF b
    <3> QED BY <1>2, <2>1, <2>2
  <2> QED
    BY <1>2, <2>3
<1>4. \A x \in S : b >= x
  BY <1>2
<1> HIDE DEF b
<1> QED
  BY <1>3, <1>4 DEF Max

\* The id of a new row is larger than every id in the table: it denotes no
\* other row, and it is the first id of an empty table.
LEMMA NextIdIsNew ==
  ASSUME NEW n \in Nat, NEW table, DOMAIN table \subseteq 1 .. n
  PROVE  /\ NextId(table) \in 1 .. n + 1
         /\ \A i \in DOMAIN table : i < NextId(table)
         /\ NextId(table) \notin DOMAIN table
<1> DEFINE S == DOMAIN table \cup {0}
<1>1. S \in SUBSET Nat /\ S # {} /\ \A x \in S : x <= n
  OBVIOUS
<1>2. Max(S) \in S /\ \A x \in S : x <= Max(S)
  <2> HIDE DEF S
  <2> QED BY <1>1, MaxOfBounded
<1>3. NextId(table) = Max(S) + 1
  BY DEF NextId
<1> QED
  BY <1>1, <1>2, <1>3

-----------------------------------------------------------------------------
\* The step by which slot s acts.
Step(s) ==
  \/ Begin(s) \/ Refuse(s) \/ Echo(s) \/ Login(s) \/ SignUp(s) \/ SignUp_Insert(s)
  \/ UpdatePassword(s) \/ UpdatePassword_Write(s) \/ GetAPIKey(s) \/ Fail(s)

-----------------------------------------------------------------------------
(***************************************************************************)
(* What the helpers answer.                                                *)
(***************************************************************************)

\* The fields of a request, by its operation.
LEMMA CallFields ==
  ASSUME NEW c \in Calls \cup {NoCall}, c.op # "None"
  PROVE  /\ c \in Calls
         /\ c.op \in {"Login", "SignUp", "UpdatePassword", "GetAPIKey"}
         /\ c.op \in {"Login", "SignUp"} => c.name \in Names /\ c.password \in Passwords
         /\ c.op \in {"UpdatePassword", "GetAPIKey"} => c.user \in Claims
         /\ c.op = "UpdatePassword" => c.old \in Passwords /\ c.new \in Passwords
  BY DEF Calls, NoCall

LEMMA OpAtValues ==
  /\ OpAt["Login"] = "Login"
  /\ OpAt["SignUp"] = "SignUp"
  /\ OpAt["SignUp_Insert"] = "SignUp"
  /\ OpAt["UpdatePassword"] = "UpdatePassword"
  /\ OpAt["UpdatePassword_Write"] = "UpdatePassword"
  /\ OpAt["GetAPIKey"] = "GetAPIKey"
  BY DEF OpAt, Statements

\* A name with a row resolves to the smallest id of its rows.
LEMMA ResolveFirst ==
  ASSUME TypeOK, NEW n, ByName(n) # {}
  PROVE  /\ Resolve(n) \in DOMAIN users
         /\ users[Resolve(n)].name = n
         /\ \A i \in DOMAIN users : users[i].name = n => Resolve(n) <= i
<1>1. ByName(n) \in SUBSET Nat
  BY AccountsConstants DEF TypeOK, ByName, Ids
<1>2. Min(ByName(n)) \in ByName(n) /\ \A i \in ByName(n) : Min(ByName(n)) <= i
  BY <1>1, MinOfNaturals
<1> QED
  BY <1>2 DEF Resolve, ByName

\* Claims copied from a row are claims of that row.
LEMMA ClaimsOfTyped ==
  ASSUME TypeOK, NEW i \in DOMAIN users
  PROVE  ClaimsOf(i) \in Claims
  BY DEF TypeOK, ClaimsOf, Claims, Row

-----------------------------------------------------------------------------
(***************************************************************************)
(* Type correctness.                                                       *)
(***************************************************************************)

\* The part of the type invariant that is about the slots.
SlotsOK ==
  /\ pc \in [Slots -> Statements \cup {"Idle"}]
  /\ call \in [Slots -> Calls \cup {NoCall}]
  /\ \A s \in Slots : IF pc[s] = "Idle" THEN call[s] = NoCall ELSE call[s].op = OpAt[pc[s]]
  /\ reply \in [Slots -> Codes]

\* Answering leaves the slot idle and typed.
LEMMA AnswerTyped ==
  ASSUME TypeOK, NEW s \in Slots, NEW code \in Codes, Answer(s, code)
  PROVE  SlotsOK' /\ pc' = [pc EXCEPT ![s] = "Idle"]
  BY DEF Answer, TypeOK, SlotsOK

LEMMA AnswerWrittenTyped ==
  ASSUME TypeOK, NEW s \in Slots, AnswerWritten(s)
  PROVE  SlotsOK' /\ pc' = [pc EXCEPT ![s] = "Idle"]
  BY AnswerTyped DEF AnswerWritten, Codes

\* Going on to the statement behind the checks keeps the slot typed.
LEMMA AdvanceTyped ==
  ASSUME TypeOK, NEW s \in Slots, pc[s] # "Idle",
         NEW next \in Statements, OpAt[next] = OpAt[pc[s]],
         pc' = [pc EXCEPT ![s] = next], UNCHANGED <<call, reply>>
  PROVE  SlotsOK'
  BY DEF TypeOK, SlotsOK, Statements

LEMMA InitTyped == Init => TypeOK
<1> SUFFICES ASSUME Init  PROVE TypeOK
  OBVIOUS
<1>1. DOMAIN users = {} /\ users \in [DOMAIN users -> Row] /\ past \in [DOMAIN users -> SUBSET Passwords]
  BY DEF Init
<1> QED
  BY <1>1 DEF Init, TypeOK, Codes

\* Every variable keeps its type.
LEMMA NextTyped == TypeOK /\ [Next]_vars => TypeOK'
<1> SUFFICES ASSUME TypeOK, [Next]_vars  PROVE TypeOK'
  OBVIOUS
<1>1. CASE UNCHANGED vars
  BY <1>1 DEF vars, TypeOK
<1>2. ASSUME NEW t \in tokens, Expire(t)  PROVE TypeOK'
  BY <1>2 DEF Expire, TypeOK
<1>3. ASSUME NEW s \in Slots, Step(s)  PROVE TypeOK'
  <2>1. CASE Begin(s)
    <3>1. PICK c \in Calls : /\ pc' = [pc EXCEPT ![s] = c.op]
                             /\ call' = [call EXCEPT ![s] = c]
      BY <2>1 DEF Begin
    <3>2. c.op \in Statements /\ OpAt[c.op] = c.op /\ c.op # "Idle"
      BY OpAtValues DEF Calls, Statements
    <3>3. SlotsOK'
      BY <2>1, <3>1, <3>2 DEF Begin, TypeOK, SlotsOK, Codes
    <3>4. raced' \subseteq {t \in Slots : pc'[t] = "SignUp_Insert"}
      BY <2>1, <3>1 DEF Begin, TypeOK
    <3> QED
      BY <2>1, <3>3, <3>4 DEF Begin, TypeOK, SlotsOK
  <2>2. CASE Refuse(s) \/ Echo(s)
    BY <2>2 DEF Refuse, Echo, TypeOK, Codes
  <2>3. CASE Login(s)
    <3>1. tokens' \subseteq Claims
      BY <2>3, ResolveFirst, ClaimsOfTyped DEF Login, TypeOK
    <3>2. SlotsOK' /\ pc' = [pc EXCEPT ![s] = "Idle"]
      BY <2>3, AnswerTyped DEF Login, Codes
    <3> QED
      BY <2>3, <3>1, <3>2 DEF Login, TypeOK, SlotsOK
  <2>4. CASE SignUp(s)
    <3>1. SlotsOK' /\ \A t \in Slots : pc[t] = "SignUp_Insert" => pc'[t] = "SignUp_Insert"
      <4>1. CASE pc' = [pc EXCEPT ![s] = "SignUp_Insert"] /\ UNCHANGED <<call, reply>>
        BY <2>4, <4>1, AdvanceTyped, OpAtValues DEF SignUp, Statements, TypeOK
      <4>2. ASSUME NEW code \in Codes, Answer(s, code)
            PROVE SlotsOK' /\ \A t \in Slots : pc[t] = "SignUp_Insert" => pc'[t] = "SignUp_Insert"
        BY <2>4, <4>2, AnswerTyped DEF SignUp, TypeOK
      <4> QED
        BY <2>4, <4>1, <4>2 DEF SignUp, Codes
    <3> QED
      BY <2>4, <3>1 DEF SignUp, TypeOK, SlotsOK
  <2>5. CASE SignUp_Insert(s)
    <3> DEFINE c == call[s]
               id == NextId(users)
               row == [name |-> c.name, password |-> c.password]
    <3>1. row \in Row /\ c.password \in Passwords
      BY <2>5, CallFields, OpAtValues DEF SignUp_Insert, TypeOK, Row
    <3>2. id \in Ids
      BY <2>5, NextIdIsNew, AccountsConstants DEF SignUp_Insert, TypeOK, Ids
    <3>3. users' = WithRow(users, id, row) /\ past' = WithRow(past, id, {c.password})
      BY <2>5 DEF SignUp_Insert
    <3> HIDE DEF id, row
    <3>4. /\ DOMAIN users' = DOMAIN users \cup {id}
          /\ DOMAIN users' \subseteq Ids
          /\ users' \in [DOMAIN users' -> Row]
      BY <3>1, <3>2, <3>3 DEF WithRow, TypeOK
    <3>5. past' \in [DOMAIN users' -> SUBSET Passwords]
      BY <3>1, <3>3, <3>4 DEF WithRow, TypeOK
    <3>6. SlotsOK' /\ pc' = [pc EXCEPT ![s] = "Idle"]
      BY <2>5, AnswerWrittenTyped DEF SignUp_Insert
    <3> QED
      BY <2>5, <3>4, <3>5, <3>6 DEF SignUp_Insert, TypeOK, SlotsOK
  <2>6. CASE UpdatePassword(s)
    <3>1. SlotsOK' /\ \A t \in Slots : pc[t] = "SignUp_Insert" => pc'[t] = "SignUp_Insert"
      <4>1. CASE pc' = [pc EXCEPT ![s] = "UpdatePassword_Write"] /\ UNCHANGED <<call, reply>>
        BY <2>6, <4>1, AdvanceTyped, OpAtValues DEF UpdatePassword, Statements, TypeOK
      <4>2. ASSUME NEW code \in Codes, Answer(s, code)
            PROVE SlotsOK' /\ \A t \in Slots : pc[t] = "SignUp_Insert" => pc'[t] = "SignUp_Insert"
        BY <2>6, <4>2, AnswerTyped DEF UpdatePassword, TypeOK
      <4> QED
        BY <2>6, <4>1, <4>2 DEF UpdatePassword, Codes
    <3> QED
      BY <2>6, <3>1 DEF UpdatePassword, TypeOK, SlotsOK
  <2>7. CASE UpdatePassword_Write(s)
    <3>1. call[s].new \in Passwords
      BY <2>7, CallFields, OpAtValues DEF UpdatePassword_Write, TypeOK
    <3>2. /\ DOMAIN users' = DOMAIN users
          /\ users' \in [DOMAIN users -> Row]
          /\ past' \in [DOMAIN users -> SUBSET Passwords]
      BY <2>7, <3>1 DEF UpdatePassword_Write, TypeOK, Row
    <3>3. SlotsOK' /\ pc' = [pc EXCEPT ![s] = "Idle"]
      BY <2>7, AnswerWrittenTyped DEF UpdatePassword_Write
    <3> QED
      BY <2>7, <3>2, <3>3 DEF UpdatePassword_Write, TypeOK, SlotsOK
  <2>8. CASE GetAPIKey(s)
    <3>1. call[s].user \in Claims
      BY <2>8, CallFields, OpAtValues DEF GetAPIKey, TypeOK
    <3>2. tokens' \subseteq Claims
      BY <2>8, <3>1 DEF GetAPIKey, TypeOK
    <3>3. SlotsOK' /\ pc' = [pc EXCEPT ![s] = "Idle"]
      BY <2>8, AnswerTyped DEF GetAPIKey, Codes
    <3> QED
      BY <2>8, <3>2, <3>3 DEF GetAPIKey, TypeOK, SlotsOK
  <2>9. CASE Fail(s)
    <3>1. SlotsOK' /\ pc' = [pc EXCEPT ![s] = "Idle"]
      BY <2>9, AnswerTyped DEF Fail, Codes
    <3> QED
      BY <2>9, <3>1 DEF Fail, TypeOK, SlotsOK
  <2> QED
    BY <1>3, <2>1, <2>2, <2>3, <2>4, <2>5, <2>6, <2>7, <2>8, <2>9 DEF Step
<1> QED
  BY <1>1, <1>2, <1>3 DEF Next, Step

\* The account service is type correct for every value of its constants.
THEOREM TypeCorrect == Spec => []TypeOK
  BY InitTyped, NextTyped, PTL DEF Spec

-----------------------------------------------------------------------------
(***************************************************************************)
(* What a step may do to the table.                                        *)
(***************************************************************************)

\* Rows are only added, behind every row there is, and only their password
\* changes; what an account has had as a password is never forgotten.
LEMMA TableGrows ==
  ASSUME TypeOK, [Next]_vars
  PROVE  /\ DOMAIN users \subseteq DOMAIN users'
         /\ \A i \in DOMAIN users : users'[i].name = users[i].name /\ past[i] \subseteq past'[i]
         /\ \A i \in DOMAIN users' \ DOMAIN users : \A j \in DOMAIN users : j < i
<1>1. ASSUME NEW s \in Slots, SignUp_Insert(s)
      PROVE  /\ DOMAIN users \subseteq DOMAIN users'
             /\ \A i \in DOMAIN users : users'[i] = users[i] /\ past'[i] = past[i]
             /\ \A i \in DOMAIN users' \ DOMAIN users : \A j \in DOMAIN users : j < i
  <2> DEFINE id == NextId(users)
  <2>1. id \notin DOMAIN users /\ \A j \in DOMAIN users : j < id
    BY NextIdIsNew, AccountsConstants DEF TypeOK, Ids
  <2>2. \E row, p : users' = WithRow(users, id, row) /\ past' = WithRow(past, id, p)
    BY <1>1 DEF SignUp_Insert
  <2> HIDE DEF id
  <2> QED
    BY <2>1, <2>2 DEF WithRow, TypeOK
<1>2. ASSUME NEW s \in Slots, UpdatePassword_Write(s)
      PROVE  /\ DOMAIN users' = DOMAIN users
             /\ \A i \in DOMAIN users : users'[i].name = users[i].name /\ past[i] \subseteq past'[i]
  BY <1>2 DEF UpdatePassword_Write, TypeOK, Row
<1>3. ASSUME NEW s \in Slots, Step(s), ~SignUp_Insert(s), ~UpdatePassword_Write(s)
      PROVE  users' = users /\ past' = past
  BY <1>3 DEF Step, Begin, Refuse, Echo, Login, SignUp, UpdatePassword, GetAPIKey, Fail
<1>4. CASE UNCHANGED vars
  BY <1>4 DEF vars
<1>5. ASSUME NEW t \in tokens, Expire(t)  PROVE users' = users /\ past' = past
  BY <1>5 DEF Expire
<1> QED
  BY <1>1, <1>2, <1>3, <1>4, <1>5 DEF Next, Step

\* A step of one slot moves no other slot.
LEMMA OthersStand ==
  ASSUME TypeOK, NEW s \in Slots, Step(s), NEW t \in Slots, t # s
  PROVE  pc'[t] = pc[t] /\ call'[t] = call[t]
  BY DEF Step, Begin, Refuse, Echo, Login, SignUp, SignUp_Insert, UpdatePassword,
         UpdatePassword_Write, GetAPIKey, Fail, Answer, AnswerWritten, TypeOK

\* How a slot comes to stand at the statement behind its checks.
LEMMA AdvancesFrom ==
  ASSUME TypeOK, NEW s \in Slots, Step(s)
  PROVE  /\ pc'[s] = "SignUp_Insert" =>
              SignUp(s) /\ call'[s] = call[s] /\ ByName(call[s].name) = {}
         /\ pc'[s] = "UpdatePassword_Write" =>
              /\ pc[s] = "UpdatePassword" /\ call'[s] = call[s] /\ UNCHANGED users
              /\ Validate(call[s].user, call[s].old) /\ call[s].new \notin Unhashable
<1>1. CASE Begin(s)
  <2>1. PICK c \in Calls : pc' = [pc EXCEPT ![s] = c.op]
    BY <1>1 DEF Begin
  <2>2. pc'[s] # "SignUp_Insert" /\ pc'[s] # "UpdatePassword_Write"
    BY <2>1 DEF TypeOK, Calls
  <2> QED BY <2>2
<1>2. CASE Refuse(s) \/ Echo(s)
  BY <1>2 DEF Refuse, Echo
<1>3. CASE SignUp(s)
  BY <1>3 DEF SignUp, Answer, TypeOK
<1>4. CASE UpdatePassword(s)
  BY <1>4 DEF UpdatePassword, Answer, TypeOK
<1>5. CASE Login(s) \/ SignUp_Insert(s) \/ UpdatePassword_Write(s) \/ GetAPIKey(s) \/ Fail(s)
  <2>1. pc'[s] = "Idle"
    BY <1>5 DEF Login, SignUp_Insert, UpdatePassword_Write, GetAPIKey, Fail, Answer,
                AnswerWritten, TypeOK
  <2> QED BY <2>1
<1> QED
  BY <1>1, <1>2, <1>3, <1>4, <1>5 DEF Step

-----------------------------------------------------------------------------
(***************************************************************************)
(* The inductive invariant.                                                *)
(***************************************************************************)

\* The current password of an account is among those it has had.
PasswordRemembered == \A i \in DOMAIN users : users[i].password \in past[i]

\* Behind its check a SignUp still has the name to itself, unless overtaken.
CheckStands ==
  \A s \in Slots : pc[s] = "SignUp_Insert" /\ s \notin raced => ByName(call[s].name) = {}

\* Behind its checks an UpdatePassword has shown what bcrypt takes for the
\* password of its claims and holds one that can be hashed.
OldShown ==
  \A s \in Slots : pc[s] = "UpdatePassword_Write" =>
    Digest[call[s].user.password] = Digest[call[s].old] /\ call[s].new \notin Unhashable

Inv == TypeOK /\ ClaimsHaveAccount /\ PasswordRemembered /\ CheckStands /\ OldShown

LEMMA InitInv == Init => Inv
  BY InitTyped
     DEF Init, Inv, ClaimsHaveAccount, InUse, PasswordRemembered, CheckStands, OldShown

\* Claims that have an account keep it.
LEMMA AccountKept ==
  ASSUME TypeOK, [Next]_vars, NEW t, HasAccount(t)
  PROVE  HasAccount(t)'
<1>1. t.id \in Nat /\ DOMAIN users \subseteq Nat /\ t.id \in DOMAIN users
  BY AccountsConstants DEF TypeOK, Ids, HasAccount
<1>2. TypeOK'
  BY NextTyped
<1>3. t.id \in DOMAIN users' /\ users'[t.id].name = t.name /\ t.password \in past'[t.id]
  BY <1>1, TableGrows DEF HasAccount
<1>4. ASSUME NEW i \in DOMAIN users', users'[i].name = t.name  PROVE t.id <= i
  <2>1. CASE i \in DOMAIN users
    BY <1>4, <2>1, TableGrows DEF HasAccount
  <2>2. CASE i \notin DOMAIN users
    <3>1. t.id < i /\ i \in Nat
      BY <1>1, <1>2, <1>4, <2>2, TableGrows, AccountsConstants DEF TypeOK, Ids
    <3> QED BY <1>1, <3>1
  <2> QED BY <2>1, <2>2
<1> QED
  BY <1>3, <1>4 DEF HasAccount

\* Claims new to the system are those of the row a Login has looked up.
LEMMA ClaimsEnter ==
  ASSUME Inv, [Next]_vars, NEW t \in InUse'
  PROVE  \/ t \in InUse
         \/ \E n \in Names : ByName(n) # {} /\ t = ClaimsOf(Resolve(n)) /\ UNCHANGED <<users, past>>
<1>1. CASE UNCHANGED vars
  BY <1>1 DEF vars, InUse
<1>2. ASSUME NEW u \in tokens, Expire(u)  PROVE t \in InUse
  BY <1>2 DEF Expire, InUse
<1>3. ASSUME NEW s \in Slots, Step(s)
      PROVE  \/ t \in InUse
             \/ \E n \in Names : ByName(n) # {} /\ t = ClaimsOf(Resolve(n)) /\ UNCHANGED <<users, past>>
  <2> DEFINE Holds == {"UpdatePassword", "UpdatePassword_Write", "GetAPIKey"}
  <2>1. CASE t \in tokens'
    <3>1. CASE Login(s)
      <4>1. CASE tokens' = tokens
        BY <2>1, <4>1 DEF InUse
      <4>2. CASE ByName(call[s].name) # {} /\ tokens' = tokens \cup {ClaimsOf(Resolve(call[s].name))}
        <5>1. call[s].name \in Names
          BY <3>1, CallFields, OpAtValues DEF Login, Inv, TypeOK
        <5> QED
          BY <2>1, <3>1, <4>2, <5>1 DEF Login, InUse
      <4> QED BY <3>1, <4>1, <4>2 DEF Login
    <3>2. CASE GetAPIKey(s)
      BY <2>1, <3>2 DEF GetAPIKey, InUse
    <3>3. CASE ~Login(s) /\ ~GetAPIKey(s)
      <4>1. tokens' = tokens
        BY <1>3, <3>3 DEF Step, Begin, Refuse, Echo, SignUp, SignUp_Insert, UpdatePassword,
                          UpdatePassword_Write, Fail
      <4> QED BY <2>1, <4>1 DEF InUse
    <3> QED BY <3>1, <3>2, <3>3
  <2>2. CASE \E r \in Slots : pc'[r] \in Holds /\ t = call'[r].user
    <3>1. PICK r \in Slots : pc'[r] \in Holds /\ t = call'[r].user
      BY <2>2
    <3>2. CASE r # s
      BY <1>3, <3>1, <3>2, OthersStand DEF Inv, InUse
    <3>3. CASE r = s /\ Begin(s)
      <4>1. PICK c \in Calls :
              /\ c.op \in {"UpdatePassword", "GetAPIKey"} => c.user \in tokens
              /\ pc' = [pc EXCEPT ![s] = c.op] /\ call' = [call EXCEPT ![s] = c]
        BY <3>3 DEF Begin
      <4>2. pc'[s] = c.op /\ call'[s] = c
        BY <4>1 DEF Inv, TypeOK
      <4>3. c.op \in {"UpdatePassword", "GetAPIKey"}
        BY <3>1, <3>3, <4>2 DEF Calls
      <4> QED BY <3>1, <3>3, <4>1, <4>2, <4>3 DEF InUse
    <3>4. CASE r = s /\ ~Begin(s)
      <4>1. pc[s] = "UpdatePassword" /\ call'[s] = call[s]
        BY <1>3, <3>1, <3>4
           DEF Step, Refuse, Echo, Login, SignUp, SignUp_Insert, UpdatePassword,
               UpdatePassword_Write, GetAPIKey, Fail, Answer, AnswerWritten, Inv, TypeOK
      <4> QED BY <3>1, <3>4, <4>1 DEF InUse
    <3> QED BY <3>2, <3>3, <3>4
  <2> QED BY <2>1, <2>2 DEF InUse
<1> QED
  BY <1>1, <1>2, <1>3 DEF Next, Step

LEMMA NextInv == Inv /\ [Next]_vars => Inv'
<1> SUFFICES ASSUME Inv, [Next]_vars  PROVE Inv'
  OBVIOUS
<1>1. TypeOK'
  BY NextTyped DEF Inv
<1>2. ClaimsHaveAccount'
  <2> SUFFICES ASSUME NEW t \in InUse'  PROVE HasAccount(t)'
    BY DEF ClaimsHaveAccount
  <2>1. CASE t \in InUse
    BY <2>1, AccountKept DEF Inv, ClaimsHaveAccount
  <2>2. ASSUME NEW n \in Names, ByName(n) # {}, t = ClaimsOf(Resolve(n)), UNCHANGED <<users, past>>
        PROVE  HasAccount(t)'
    <3>1. Resolve(n) \in DOMAIN users /\ users[Resolve(n)].name = n
          /\ \A i \in DOMAIN users : users[i].name = n => Resolve(n) <= i
      BY <2>2, ResolveFirst DEF Inv
    <3>2. HasAccount(t)
      BY <2>2, <3>1 DEF HasAccount, ClaimsOf, Inv, PasswordRemembered
    <3> QED BY <2>2, <3>2 DEF HasAccount
  <2> QED BY <2>1, <2>2, ClaimsEnter
<1>3. PasswordRemembered'
  <2>1. ASSUME NEW s \in Slots, SignUp_Insert(s)  PROVE PasswordRemembered'
    <3> DEFINE id == NextId(users)
               c == call[s]
    <3>1. users' = WithRow(users, id, [name |-> c.name, password |-> c.password])
          /\ past' = WithRow(past, id, {c.password})
      BY <2>1 DEF SignUp_Insert
    <3> HIDE DEF id, c
    <3> QED BY <3>1 DEF WithRow, PasswordRemembered, Inv, TypeOK
  <2>2. ASSUME NEW s \in Slots, UpdatePassword_Write(s)  PROVE PasswordRemembered'
    BY <2>2 DEF UpdatePassword_Write, PasswordRemembered, Inv, TypeOK, Row
  <2>3. CASE UNCHANGED <<users, past>>
    BY <2>3 DEF PasswordRemembered, Inv
  <2> QED
    BY <2>1, <2>2, <2>3
       DEF Next, vars, Begin, Refuse, Echo, Login, SignUp, UpdatePassword, GetAPIKey, Fail, Expire
<1>4. CheckStands' /\ OldShown'
  <2>1. CASE UNCHANGED vars \/ \E t \in tokens : Expire(t)
    BY <2>1 DEF vars, Expire, Inv, CheckStands, OldShown, ByName
  <2>2. ASSUME NEW s \in Slots, Step(s)  PROVE CheckStands' /\ OldShown'
    <3>1. OldShown'
      BY <2>2, OthersStand, AdvancesFrom DEF Inv, OldShown, Validate
    <3>2. ASSUME NEW r \in Slots, pc'[r] = "SignUp_Insert", r \notin raced'
          PROVE  \A i \in DOMAIN users' : users'[i].name # call'[r].name
      <4>1. CASE r = s
        BY <2>2, <3>2, <4>1, AdvancesFrom DEF Inv, SignUp, ByName
      <4>2. CASE r # s
        <5>1. pc[r] = "SignUp_Insert" /\ call'[r] = call[r]
          BY <2>2, <3>2, <4>2, OthersStand DEF Inv
        <5>2. CASE SignUp_Insert(s)
          <6>1. call[r].name # call[s].name /\ r \notin raced
            BY <3>2, <4>2, <5>1, <5>2 DEF SignUp_Insert
          <6>2. \E id : users' = WithRow(users, id, [name |-> call[s].name, password |-> call[s].password])
            BY <5>2 DEF SignUp_Insert
          <6> QED
            BY <5>1, <6>1, <6>2 DEF Inv, CheckStands, ByName, WithRow
        <5>3. CASE UpdatePassword_Write(s)
          BY <3>2, <5>1, <5>3 DEF UpdatePassword_Write, Inv, TypeOK, Row, CheckStands, ByName
        <5>4. CASE ~SignUp_Insert(s) /\ ~UpdatePassword_Write(s)
          <6>1. users' = users /\ r \notin raced
            BY <2>2, <3>2, <4>2, <5>4
               DEF Step, Begin, Refuse, Echo, Login, SignUp, UpdatePassword, GetAPIKey, Fail
          <6> QED BY <5>1, <6>1 DEF Inv, CheckStands, ByName
        <5> QED BY <5>2, <5>3, <5>4
      <4> QED BY <4>1, <4>2
    <3> QED BY <3>1, <3>2 DEF CheckStands, ByName
  <2> QED BY <2>1, <2>2 DEF Next, Step
<1> QED
  BY <1>1, <1>2, <1>3, <1>4 DEF Inv

-----------------------------------------------------------------------------
(***************************************************************************)
(* The theorems.                                                           *)
(***************************************************************************)

\* Every token names an account that exists, under its name, as the account
\* the name resolves to, with a password that account has had.
THEOREM ClaimsSafe == Spec => []ClaimsHaveAccount
<1>1. Inv => ClaimsHaveAccount
  BY DEF Inv
<1> QED
  BY <1>1, InitInv, NextInv, PTL DEF Spec

\* No sign-up ever takes a name over.
THEOREM NameSafe == Spec => NameKeepsAccount
<1>1. Inv /\ Inv' /\ [Next]_vars =>
        [\A n \in Names : ByName(n) # {} => ByName(n)' # {} /\ Resolve(n)' = Resolve(n)]_vars
  <2> SUFFICES ASSUME Inv, Inv', [Next]_vars, NEW n \in Names, ByName(n) # {}
               PROVE  ByName(n)' # {} /\ Resolve(n)' = Resolve(n)
    OBVIOUS
  <2> DEFINE a == Resolve(n)
             b == Resolve(n)'
  <2>1. a \in DOMAIN users /\ users[a].name = n
        /\ \A i \in DOMAIN users : users[i].name = n => a <= i
    BY ResolveFirst DEF Inv
  <2>2. a \in DOMAIN users' /\ users'[a].name = n
    BY <2>1, TableGrows DEF Inv
  <2>3. ByName(n)' # {}
    BY <2>2 DEF ByName
  <2>4. ASSUME NEW i \in DOMAIN users', users'[i].name = n  PROVE a <= i
    <3>1. a \in Nat /\ i \in Nat
      BY <2>1, AccountsConstants DEF Inv, TypeOK, Ids
    <3>2. CASE i \in DOMAIN users
      BY <2>1, <2>4, <3>2, TableGrows DEF Inv
    <3>3. CASE i \notin DOMAIN users
      <4>1. a < i
        BY <2>1, <2>4, <3>3, TableGrows DEF Inv
      <4> QED BY <3>1, <4>1
    <3> QED BY <3>2, <3>3
  <2>5. b \in DOMAIN users' /\ users'[b].name = n
        /\ \A i \in DOMAIN users' : users'[i].name = n => b <= i
    <3>1. TypeOK' /\ ByName(n)' \in SUBSET Nat
      BY AccountsConstants DEF Inv, TypeOK, Ids, ByName
    <3>2. Min(ByName(n)') \in ByName(n)' /\ \A i \in ByName(n)' : Min(ByName(n)') <= i
      BY <2>3, <3>1, MinOfNaturals
    <3> QED BY <3>2 DEF Resolve, ByName
  <2>6. a \in Nat /\ b \in Nat /\ a <= b /\ b <= a
    BY <2>1, <2>2, <2>4, <2>5, AccountsConstants DEF Inv, TypeOK, Ids
  <2> HIDE DEF a, b
  <2>7. a = b
    BY <2>6
  <2> QED BY <2>3, <2>7 DEF a, b
<1> QED
  BY <1>1, InitInv, NextInv, PTL DEF Spec, NameKeepsAccount

\* Two accounts get the same name only when two sign-ups race.
THEOREM DuplicateSafe == Spec => DuplicateNeedsRace
<1>1. Inv /\ [Next]_vars =>
        [\A i \in DOMAIN users' \ DOMAIN users :
           ByName(users'[i].name) # {} =>
             \E s \in raced : pc[s] = "SignUp_Insert" /\ pc'[s] = "Idle"
                             /\ call[s].name = users'[i].name]_vars
  <2> SUFFICES ASSUME Inv, NEW s \in Slots, Step(s),
                      NEW i \in DOMAIN users' \ DOMAIN users, ByName(users'[i].name) # {}
               PROVE  s \in raced /\ pc[s] = "SignUp_Insert" /\ pc'[s] = "Idle"
                      /\ call[s].name = users'[i].name
    BY DEF Next, Step, Expire
  <2>1. SignUp_Insert(s)
    BY DEF Step, Begin, Refuse, Echo, Login, SignUp, UpdatePassword, UpdatePassword_Write,
           GetAPIKey, Fail
  <2>2. users'[i].name = call[s].name
    <3>1. \E id : users' = WithRow(users, id, [name |-> call[s].name, password |-> call[s].password])
      BY <2>1 DEF SignUp_Insert
    <3> QED BY <3>1 DEF WithRow
  <2>3. pc[s] = "SignUp_Insert" /\ pc'[s] = "Idle"
    BY <2>1 DEF SignUp_Insert, AnswerWritten, Answer, Inv, TypeOK
  <2> QED
    BY <2>2, <2>3 DEF Inv, CheckStands
<1> QED
  BY <1>1, InitInv, NextInv, PTL DEF Spec, DuplicateNeedsRace

\* A password changes only by a request whose caller has shown a password that
\* bcrypt cannot tell from one the account has had.
THEOREM PasswordSafe == Spec => PasswordChangedByHolder
<1>1. Inv /\ [Next]_vars =>
        [\A i \in DOMAIN users :
           users'[i] # users[i] =>
             /\ users'[i].password \notin Unhashable
             /\ \E s \in Slots : /\ pc[s] = "UpdatePassword_Write" /\ pc'[s] = "Idle"
                                 /\ call[s].user.id = i
                                 /\ \E p \in past[i] : Digest[call[s].old] = Digest[p]]_vars
  <2> SUFFICES ASSUME Inv, NEW s \in Slots, Step(s), NEW i \in DOMAIN users, users'[i] # users[i]
               PROVE  /\ users'[i].password \notin Unhashable
                      /\ pc[s] = "UpdatePassword_Write" /\ pc'[s] = "Idle"
                      /\ call[s].user.id = i
                      /\ \E p \in past[i] : Digest[call[s].old] = Digest[p]
    BY DEF Next, Step, Expire
  <2>1. UpdatePassword_Write(s)
    <3>1. ~SignUp_Insert(s)
      <4> SUFFICES ASSUME SignUp_Insert(s)  PROVE FALSE
        OBVIOUS
      <4>1. NextId(users) \notin DOMAIN users
        BY NextIdIsNew, AccountsConstants DEF Inv, TypeOK, Ids
      <4> QED BY <4>1 DEF SignUp_Insert, WithRow
    <3> QED
      BY <3>1 DEF Step, Begin, Refuse, Echo, Login, SignUp, UpdatePassword, GetAPIKey, Fail
  <2>2. pc[s] = "UpdatePassword_Write" /\ pc'[s] = "Idle" /\ call[s].user.id = i
        /\ users'[i].password = call[s].new
    BY <2>1 DEF UpdatePassword_Write, AnswerWritten, Answer, Inv, TypeOK, Row
  <2>3. call[s].user \in InUse
    BY <2>2 DEF InUse
  <2> QED
    BY <2>2, <2>3 DEF Inv, OldShown, ClaimsHaveAccount, HasAccount
<1> QED
  BY <1>1, InitInv, NextInv, PTL DEF Spec, PasswordChangedByHolder

=============================================================================
