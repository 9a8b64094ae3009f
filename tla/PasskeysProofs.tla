---------------------------- MODULE PasskeysProofs --------------------------
(***************************************************************************)
(* Proofs about passkeys for any number of accounts, keys, slots,          *)
(* challenges and responses.                                               *)
(***************************************************************************)
EXTENDS Passkeys, FiniteSetTheorems, TLAPS

\* The step by which slot s acts.
Step(s) ==
  \/ Refuse(s) \/ BeginPasskeyRegistration(s) \/ BeginPasskeyLogin(s) \/ BeginLogin_Set(s)
  \/ Finish(s) \/ FinishRegistration_Take(s) \/ FinishRegistration_Insert(s)
  \/ FinishLogin_Take(s) \/ FinishLogin_Validate(s) \/ FinishLogin_Update(s) \/ Fail(s)

-----------------------------------------------------------------------------
(***************************************************************************)
(* Type correctness.                                                       *)
(***************************************************************************)
Typed == TypeOK /\ IsFiniteSet(responses)

\* A slot that goes on to a step holds what that step needs.
LEMMA GotoTyped ==
  ASSUME TypeOK, NEW s \in Slots, NEW p \in Steps, NEW c, Goto(s, p, c), CallAt(p, c)
  PROVE  /\ pc' \in [Slots -> Steps]
         /\ DOMAIN call' = Slots
         /\ \A t \in Slots : CallAt(pc'[t], call'[t])
         /\ pc'[s] = p /\ call'[s] = c
         /\ \A t \in Slots \ {s} : pc'[t] = pc[t] /\ call'[t] = call[t]
<1>1. pc' = [pc EXCEPT ![s] = p] /\ call' = [call EXCEPT ![s] = c]
  BY DEF Goto
<1>2. pc \in [Slots -> Steps] /\ DOMAIN call = Slots /\ \A t \in Slots : CallAt(pc[t], call[t])
  BY DEF TypeOK
<1> QED
  BY <1>1, <1>2

LEMMA AnswerTyped ==
  ASSUME TypeOK, NEW s \in Slots, NEW code \in Codes, Answer(s, code)
  PROVE  /\ pc' \in [Slots -> Steps]
         /\ DOMAIN call' = Slots
         /\ \A t \in Slots : CallAt(pc'[t], call'[t])
         /\ pc'[s] = "Idle" /\ call'[s] = Nothing
         /\ \A t \in Slots \ {s} : pc'[t] = pc[t] /\ call'[t] = call[t]
         /\ reply' \in [Slots -> Codes]
<1>1. Goto(s, "Idle", Nothing) /\ reply' = [reply EXCEPT ![s] = code]
  BY DEF Answer
<1>2. CallAt("Idle", Nothing) /\ "Idle" \in Steps
  BY DEF CallAt, Steps
<1> QED
  BY <1>1, <1>2, GotoTyped DEF TypeOK

\* What CallAt says of each step.
LEMMA CallFields ==
  ASSUME NEW p, NEW c, CallAt(p, c)
  PROVE  /\ p = "Idle" => c = Nothing
         /\ p = "BeginLogin_Set" => c \in [op : {"BeginLogin"}, user : Accounts, allowed : SUBSET Keys]
         /\ p \in {"FinishRegistration", "FinishLogin"} => c \in Requests /\ c.op = p
         /\ p = "FinishRegistration_Insert" =>
              c \in [op : {"FinishRegistration"}, user : Accounts,
                     response : Response \cup {Unparsable}, challenge : Challenges]
         /\ p = "FinishLogin_Validate" =>
              c \in [op : {"FinishLogin"}, user : Accounts,
                     response : Response \cup {Unparsable}, session : Session]
         /\ p = "FinishLogin_Update" =>
              c \in [op : {"FinishLogin"}, user : Accounts, response : Response, signCount : Counts]
  BY DEF CallAt

LEMMA CallAtEach ==
  /\ CallAt("Idle", Nothing)
  /\ \A c \in [op : {"BeginLogin"}, user : Accounts, allowed : SUBSET Keys] :
       CallAt("BeginLogin_Set", c)
  /\ \A c \in Requests : CallAt(c.op, c)
  /\ \A c \in [op : {"FinishRegistration"}, user : Accounts,
               response : Response \cup {Unparsable}, challenge : Challenges] :
       CallAt("FinishRegistration_Insert", c)
  /\ \A c \in [op : {"FinishLogin"}, user : Accounts,
               response : Response \cup {Unparsable}, session : Session] :
       CallAt("FinishLogin_Validate", c)
  /\ \A c \in [op : {"FinishLogin"}, user : Accounts, response : Response, signCount : Counts] :
       CallAt("FinishLogin_Update", c)
  BY DEF CallAt, Requests

LEMMA InitTyped == Init => Typed
  BY PasskeysConstants, FS_EmptySet
     DEF Init, Typed, TypeOK, CallAt, Steps, Codes, Challenges

\* A new challenge is one, and leaves the older ones as they are.
LEMMA DrawTyped ==
  ASSUME TypeOK, NEW u \in Accounts, NEW kind \in {"create", "get"}, NEW keys \in SUBSET Keys,
         Draw(u, kind, keys)
  PROVE  /\ issued' \in Seq([user : Accounts, kind : {"create", "get"}, allowed : SUBSET Keys])
         /\ Len(issued') <= MaxChallenges
         /\ Len(issued') = Len(issued) + 1
         /\ Len(issued') \in DOMAIN issued' /\ Len(issued') \in Challenges
         /\ Len(issued') \notin DOMAIN issued
         /\ DOMAIN issued' = DOMAIN issued \cup {Len(issued')}
         /\ \A c \in DOMAIN issued : issued'[c] = issued[c]
         /\ issued'[Len(issued')] = [user |-> u, kind |-> kind, allowed |-> keys]
  BY PasskeysConstants DEF TypeOK, Draw, Challenges

LEMMA IssuedAreChallenges ==
  ASSUME TypeOK
  PROVE  /\ DOMAIN issued = 1 .. Len(issued) /\ DOMAIN issued \subseteq Challenges
         /\ responses \subseteq Response
         /\ \A m \in responses : m.challenge \in DOMAIN issued /\ m # Unparsable
  BY PasskeysConstants DEF TypeOK, Challenges, Response, Unparsable

LEMMA FailCodes ==
  /\ DOMAIN FailCode = {"FinishRegistration_Insert", "FinishLogin", "FinishLogin_Validate",
                        "FinishLogin_Update"}
  /\ \A p \in DOMAIN FailCode : FailCode[p] \in Codes
  BY DEF FailCode, Codes

LEMMA BeginsTyped ==
  ASSUME Typed, NEW s \in Slots,
         BeginPasskeyRegistration(s) \/ BeginPasskeyLogin(s) \/ BeginLogin_Set(s)
  PROVE  Typed'
<1>1. CASE BeginPasskeyRegistration(s)
  <2>1. PICK u \in Accounts :
          /\ Draw(u, "create", {})
          /\ registrations' = WithEntry(registrations, u, Len(issued'))
          /\ reply' = [reply EXCEPT ![s] = "OK"]
    BY <1>1 DEF BeginPasskeyRegistration
  <2>2. /\ issued' \in Seq([user : Accounts, kind : {"create", "get"}, allowed : SUBSET Keys])
        /\ Len(issued') <= MaxChallenges
        /\ Len(issued') \in DOMAIN issued' /\ DOMAIN issued \subseteq DOMAIN issued'
    <3>1. TypeOK /\ {} \in SUBSET Keys /\ "create" \in {"create", "get"}
      BY DEF Typed
    <3> QED BY <2>1, <3>1, DrawTyped
  <2>3. DOMAIN registrations' \subseteq Accounts
        /\ registrations' \in [DOMAIN registrations' -> DOMAIN issued']
    BY <2>1, <2>2 DEF WithEntry, Typed, TypeOK
  <2>4. responses' \subseteq [challenge : DOMAIN issued', key : Keys, count : Counts, eligible : BOOLEAN]
    BY <1>1, <2>2 DEF BeginPasskeyRegistration, Typed, TypeOK
  <2> QED
    BY <1>1, <2>1, <2>2, <2>3, <2>4 DEF BeginPasskeyRegistration, Typed, TypeOK, Codes
<1>2. CASE BeginPasskeyLogin(s)
  <2>1. PICK u \in Accounts :
          IF Owned(u) = {} THEN Answer(s, "InvalidArgument")
          ELSE /\ Goto(s, "BeginLogin_Set", [op |-> "BeginLogin", user |-> u, allowed |-> Owned(u)])
               /\ reply' = [reply EXCEPT ![s] = "None"]
    BY <1>2 DEF BeginPasskeyLogin
  <2>2. CASE Answer(s, "InvalidArgument")
    <3>1. "InvalidArgument" \in Codes
      BY DEF Codes
    <3> QED BY <1>2, <2>2, <3>1, AnswerTyped DEF BeginPasskeyLogin, Typed, TypeOK
  <2>3. CASE /\ Goto(s, "BeginLogin_Set", [op |-> "BeginLogin", user |-> u, allowed |-> Owned(u)])
             /\ reply' = [reply EXCEPT ![s] = "None"]
    <3>1. [op |-> "BeginLogin", user |-> u, allowed |-> Owned(u)]
             \in [op : {"BeginLogin"}, user : Accounts, allowed : SUBSET Keys]
      BY DEF Owned, Typed, TypeOK
    <3>2. "BeginLogin_Set" \in Steps /\ "None" \in Codes
      BY DEF Steps, Codes
    <3> QED BY <1>2, <2>3, <3>1, <3>2, GotoTyped, CallAtEach DEF BeginPasskeyLogin, Typed, TypeOK
  <2> QED BY <2>1, <2>2, <2>3
<1>3. CASE BeginLogin_Set(s)
  <2> DEFINE c == call[s]
  <2>1. c \in [op : {"BeginLogin"}, user : Accounts, allowed : SUBSET Keys]
    BY <1>3, CallFields DEF BeginLogin_Set, Typed, TypeOK
  <2>2. /\ Draw(c.user, "get", c.allowed)
        /\ logins' = WithEntry(logins, c.user, [challenge |-> Len(issued'), allowed |-> c.allowed])
        /\ Answer(s, "OK") /\ "OK" \in Codes
    BY <1>3 DEF BeginLogin_Set, Codes
  <2> HIDE DEF c
  <2>3. [challenge |-> Len(issued'), allowed |-> c.allowed] \in Session
    BY <2>1, <2>2, DrawTyped DEF Session, Typed
  <2>4. DOMAIN logins' \subseteq Accounts /\ logins' \in [DOMAIN logins' -> Session]
    BY <2>1, <2>2, <2>3 DEF WithEntry, Typed, TypeOK
  <2>5. responses' \subseteq [challenge : DOMAIN issued', key : Keys, count : Counts, eligible : BOOLEAN]
        /\ registrations' \in [DOMAIN registrations' -> DOMAIN issued']
    BY <1>3, <2>1, <2>2, DrawTyped DEF BeginLogin_Set, Typed, TypeOK
  <2>6. overtaken' \subseteq {t \in Slots : pc'[t] = "FinishLogin_Update"}
    BY <1>3, <2>2, AnswerTyped DEF BeginLogin_Set, Typed, TypeOK
  <2>7. issued' \in Seq([user : Accounts, kind : {"create", "get"}, allowed : SUBSET Keys])
        /\ Len(issued') <= MaxChallenges
    BY <2>1, <2>2, DrawTyped DEF Typed
  <2> QED
    BY <1>3, <2>2, <2>4, <2>5, <2>6, <2>7, AnswerTyped DEF BeginLogin_Set, Typed, TypeOK
<1> QED
  BY <1>1, <1>2, <1>3

LEMMA FinishesTyped ==
  ASSUME Typed, NEW s \in Slots,
         \/ Refuse(s) \/ Finish(s) \/ FinishRegistration_Take(s) \/ FinishRegistration_Insert(s)
         \/ FinishLogin_Take(s) \/ FinishLogin_Validate(s) \/ FinishLogin_Update(s) \/ Fail(s)
  PROVE  Typed'
<1> DEFINE c == call[s]
<1>0. TypeOK /\ {"InvalidArgument", "Unauthenticated", "Internal", "OK", "None"} \subseteq Codes
  BY DEF Typed, Codes
<1>1. CASE Refuse(s)
  BY <1>0, <1>1 DEF Refuse, Typed, TypeOK
<1>2. CASE Finish(s)
  <2>1. PICK u \in Accounts, m \in responses \cup {Unparsable},
             op \in {"FinishRegistration", "FinishLogin"} :
               Goto(s, op, [op |-> op, user |-> u, response |-> m])
    BY <1>2 DEF Finish
  <2>2. [op |-> op, user |-> u, response |-> m] \in Requests /\ op \in Steps
    BY <1>0, IssuedAreChallenges DEF Requests, Steps
  <2>3. CallAt(op, [op |-> op, user |-> u, response |-> m])
    BY <2>2, CallAtEach
  <2> QED
    BY <1>0, <1>2, <2>1, <2>2, <2>3, GotoTyped DEF Finish, Typed, TypeOK
<1>3. CASE FinishRegistration_Take(s)
  <2>1. c \in Requests /\ c.op = "FinishRegistration"
    BY <1>3, CallFields DEF FinishRegistration_Take, Typed, TypeOK
  <2>2. CASE c.user \notin DOMAIN registrations
    BY <1>0, <1>3, <2>2, AnswerTyped DEF FinishRegistration_Take, Typed, TypeOK
  <2>3. CASE c.user \in DOMAIN registrations
    <3> DEFINE d == [op |-> c.op, user |-> c.user, response |-> c.response,
                     challenge |-> registrations[c.user]]
    <3>1. /\ registrations' = SessionTaken(registrations, c.user)
          /\ Goto(s, "FinishRegistration_Insert", d)
          /\ pc[s] = "FinishRegistration"
          /\ UNCHANGED <<reply, credential, logins, issued, responses, accepted, overtaken>>
      BY <1>3, <2>3 DEF FinishRegistration_Take
    <3>2. d \in [op : {"FinishRegistration"}, user : Accounts,
                 response : Response \cup {Unparsable}, challenge : Challenges]
      BY <1>0, <2>1, <2>3, IssuedAreChallenges DEF Requests, TypeOK
    <3> HIDE DEF d, c
    <3>3. CallAt("FinishRegistration_Insert", d) /\ "FinishRegistration_Insert" \in Steps
      BY <3>2, CallAtEach DEF Steps
    <3>4. DOMAIN registrations' \subseteq Accounts
          /\ registrations' \in [DOMAIN registrations' -> DOMAIN issued]
      BY <1>0, <3>1 DEF SessionTaken, WithoutEntry, TypeOK
    <3>5. /\ pc' \in [Slots -> Steps] /\ DOMAIN call' = Slots
          /\ \A t \in Slots : CallAt(pc'[t], call'[t])
          /\ pc'[s] = "FinishRegistration_Insert" /\ \A t \in Slots \ {s} : pc'[t] = pc[t]
      BY <1>0, <3>1, <3>3, GotoTyped
    <3> QED
      BY <1>0, <3>1, <3>4, <3>5 DEF Typed, TypeOK
  <2> QED BY <2>2, <2>3
<1>4. CASE FinishRegistration_Insert(s)
  <2>1. c \in [op : {"FinishRegistration"}, user : Accounts,
               response : Response \cup {Unparsable}, challenge : Challenges]
    BY <1>4, CallFields DEF FinishRegistration_Insert, Typed, TypeOK
  <2>2. \E code \in Codes : Answer(s, code)
    BY <1>0, <1>4 DEF FinishRegistration_Insert, AnswerWritten, RefusedRegistration
  <2>3. DOMAIN credential' \subseteq Keys
        /\ credential' \in [DOMAIN credential' -> [user : Accounts, signCount : Counts, eligible : BOOLEAN]]
        /\ accepted' \in [Challenges -> Nat]
    <3>1. CASE ~Verified(c.response, "create", c.challenge)
      BY <1>0, <1>4, <3>1 DEF FinishRegistration_Insert, TypeOK
    <3>2. CASE Verified(c.response, "create", c.challenge)
      <4>1. c.response \in Response
        BY <2>1, <3>2 DEF Verified
      <4>2. /\ credential' = WithEntry(credential, c.response.key,
                                       [user |-> c.user, signCount |-> c.response.count,
                                        eligible |-> c.response.eligible])
            /\ accepted' = [accepted EXCEPT ![c.challenge] = @ + 1]
        BY <1>4, <3>2 DEF FinishRegistration_Insert
      <4>3. c.response.key \in Keys
            /\ [user |-> c.user, signCount |-> c.response.count, eligible |-> c.response.eligible]
                 \in [user : Accounts, signCount : Counts, eligible : BOOLEAN]
        BY <2>1, <4>1 DEF Response
      <4> HIDE DEF c
      <4>4. DOMAIN credential' \subseteq Keys
            /\ credential' \in [DOMAIN credential' -> [user : Accounts, signCount : Counts, eligible : BOOLEAN]]
        BY <1>0, <4>2, <4>3 DEF WithEntry, TypeOK
      <4>5. accepted' \in [Challenges -> Nat]
        <5>1. accepted \in [Challenges -> Nat] /\ c.challenge \in Challenges
          BY <1>0, <2>1 DEF TypeOK
        <5> QED BY <4>2, <5>1
      <4> QED BY <4>4, <4>5
    <3> QED BY <3>1, <3>2
  <2> QED
    BY <1>0, <1>4, <2>2, <2>3, AnswerTyped DEF FinishRegistration_Insert, Typed, TypeOK
<1>5. CASE FinishLogin_Take(s)
  <2>1. c \in Requests /\ c.op = "FinishLogin"
    BY <1>5, CallFields DEF FinishLogin_Take, Typed, TypeOK
  <2>2. CASE c.user \notin DOMAIN logins
    BY <1>0, <1>5, <2>2, AnswerTyped DEF FinishLogin_Take, Typed, TypeOK
  <2>3. CASE c.user \in DOMAIN logins
    <3> DEFINE d == [op |-> c.op, user |-> c.user, response |-> c.response,
                     session |-> logins[c.user]]
    <3>1. /\ logins' = SessionTaken(logins, c.user) /\ Goto(s, "FinishLogin_Validate", d)
          /\ pc[s] = "FinishLogin"
          /\ UNCHANGED <<reply, credential, registrations, issued, responses, accepted, overtaken>>
      BY <1>5, <2>3 DEF FinishLogin_Take
    <3>2. d \in [op : {"FinishLogin"}, user : Accounts,
                 response : Response \cup {Unparsable}, session : Session]
      BY <1>0, <2>1, <2>3 DEF Requests, TypeOK
    <3> HIDE DEF d, c
    <3>3. CallAt("FinishLogin_Validate", d) /\ "FinishLogin_Validate" \in Steps
      BY <3>2, CallAtEach DEF Steps
    <3>4. DOMAIN logins' \subseteq Accounts /\ logins' \in [DOMAIN logins' -> Session]
      BY <1>0, <3>1 DEF SessionTaken, WithoutEntry, TypeOK
    <3>5. /\ pc' \in [Slots -> Steps] /\ DOMAIN call' = Slots
          /\ \A t \in Slots : CallAt(pc'[t], call'[t])
          /\ pc'[s] = "FinishLogin_Validate" /\ \A t \in Slots \ {s} : pc'[t] = pc[t]
      BY <1>0, <3>1, <3>3, GotoTyped
    <3> QED
      BY <1>0, <3>1, <3>4, <3>5 DEF Typed, TypeOK
  <2> QED BY <2>2, <2>3
<1>6. CASE FinishLogin_Validate(s)
  <2>1. c \in [op : {"FinishLogin"}, user : Accounts,
               response : Response \cup {Unparsable}, session : Session]
    BY <1>6, CallFields DEF FinishLogin_Validate, Typed, TypeOK
  <2>2. CASE ~ValidLogin(c)
    <3>1. \E code \in Codes : Answer(s, code)
      BY <1>0, <1>6, <2>2 DEF FinishLogin_Validate, RefusedLogin
    <3> QED BY <1>0, <1>6, <2>2, <3>1, AnswerTyped DEF FinishLogin_Validate, Typed, TypeOK
  <2>3. CASE ValidLogin(c)
    <3> DEFINE d == [op |-> c.op, user |-> c.user, response |-> c.response,
                     signCount |-> UpdateCounter(credential[c.response.key].signCount,
                                                 c.response.count)]
    <3>1. c.response \in Response /\ c.response.key \in DOMAIN credential
      BY <2>1, <2>3 DEF ValidLogin, Verified, Owned
    <3>2. /\ Goto(s, "FinishLogin_Update", d)
          /\ accepted' = [accepted EXCEPT ![c.response.challenge] = @ + 1]
          /\ pc[s] = "FinishLogin_Validate"
          /\ UNCHANGED <<reply, credential, registrations, logins, issued, responses, overtaken>>
      BY <1>6, <2>3 DEF FinishLogin_Validate
    <3>3. d \in [op : {"FinishLogin"}, user : Accounts, response : Response, signCount : Counts]
      BY <1>0, <2>1, <3>1 DEF UpdateCounter, TypeOK, Response
    <3>9. c.response.challenge \in Challenges
      BY <3>1 DEF Response
    <3> HIDE DEF d, c
    <3>4. accepted' \in [Challenges -> Nat]
      <4>1. accepted \in [Challenges -> Nat]
        BY <1>0 DEF TypeOK
      <4> QED BY <3>2, <3>9, <4>1
    <3>5. CallAt("FinishLogin_Update", d) /\ "FinishLogin_Update" \in Steps
      BY <3>3, CallAtEach DEF Steps
    <3>6. /\ pc' \in [Slots -> Steps] /\ DOMAIN call' = Slots
          /\ \A t \in Slots : CallAt(pc'[t], call'[t])
          /\ pc'[s] = "FinishLogin_Update" /\ \A t \in Slots \ {s} : pc'[t] = pc[t]
      BY <1>0, <3>2, <3>5, GotoTyped
    <3>7. UNCHANGED <<reply, credential, registrations, logins, issued, responses, overtaken>>
      BY <3>2
    <3>8. overtaken' \subseteq {t \in Slots : pc'[t] = "FinishLogin_Update"}
      BY <1>0, <3>6, <3>7 DEF TypeOK
    <3> QED
      BY <1>0, <3>4, <3>6, <3>7, <3>8 DEF Typed, TypeOK
  <2> QED BY <2>2, <2>3
<1>7. CASE FinishLogin_Update(s)
  <2>1. c \in [op : {"FinishLogin"}, user : Accounts, response : Response, signCount : Counts]
    BY <1>7, CallFields DEF FinishLogin_Update, Typed, TypeOK
  <2>2. \E code \in Codes : Answer(s, code)
    BY <1>0, <1>7 DEF FinishLogin_Update, AnswerWritten
  <2>3. credential' = [credential EXCEPT ![c.response.key].signCount = c.signCount]
    BY <1>7 DEF FinishLogin_Update
  <2>4. c.signCount \in Counts
    BY <2>1
  <2> HIDE DEF c
  <2>5. credential' \in [DOMAIN credential -> [user : Accounts, signCount : Counts, eligible : BOOLEAN]]
    BY <1>0, <2>3, <2>4 DEF TypeOK
  <2>6. DOMAIN credential' \subseteq Keys
        /\ credential' \in [DOMAIN credential' -> [user : Accounts, signCount : Counts, eligible : BOOLEAN]]
    BY <1>0, <2>5 DEF TypeOK
  <2> QED
    BY <1>0, <1>7, <2>2, <2>6, AnswerTyped DEF FinishLogin_Update, Typed, TypeOK
<1>8. CASE Fail(s)
  <2>1. FailCode[pc[s]] \in Codes
    BY <1>8, FailCodes DEF Fail
  <2> QED BY <1>0, <1>8, <2>1, AnswerTyped DEF Fail, Typed, TypeOK
<1> QED
  BY <1>1, <1>2, <1>3, <1>4, <1>5, <1>6, <1>7, <1>8

\* A response counts the earlier ones of its key, of which there are fewer than
\* MaxResponses.
LEMMA SignTyped ==
  ASSUME Typed, NEW c \in DOMAIN issued, NEW k \in Keys, Sign(c, k)
  PROVE  Typed'
<1>0. PICK e \in BOOLEAN : responses' = responses \cup
        {[challenge |-> c, key |-> k, eligible |-> e,
          count |-> IF k \in Counting THEN Cardinality(SignedWith(k)) ELSE 0]}
  BY DEF Sign
<1> DEFINE m == [challenge |-> c, key |-> k, eligible |-> e,
                 count |-> IF k \in Counting THEN Cardinality(SignedWith(k)) ELSE 0]
<1>1. responses' = responses \cup {m} /\ Cardinality(responses) < MaxResponses
      /\ UNCHANGED <<credential, registrations, logins, issued, pc, call, reply, accepted, overtaken>>
  BY <1>0 DEF Sign
<1>2. Cardinality(SignedWith(k)) \in Nat /\ Cardinality(responses) \in Nat
      /\ Cardinality(SignedWith(k)) <= Cardinality(responses)
  BY FS_Subset, FS_CardinalityType DEF Typed, SignedWith
<1>3. m.count \in Counts
  BY <1>1, <1>2, PasskeysConstants DEF Counts
<1>4. responses' \subseteq [challenge : DOMAIN issued', key : Keys, count : Counts, eligible : BOOLEAN]
  BY <1>1, <1>3 DEF Typed, TypeOK
<1>5. IsFiniteSet(responses')
  BY <1>1, FS_AddElement DEF Typed
<1> HIDE DEF m
<1> QED
  BY <1>1, <1>4, <1>5 DEF Typed, TypeOK

LEMMA RestartTyped == Typed /\ Restart => Typed'
  BY DEF Restart, Typed, TypeOK, CallAt, Steps, Codes

LEMMA NextTyped == Typed /\ [Next]_vars => Typed'
<1> SUFFICES ASSUME Typed, [Next]_vars
             PROVE  Typed'
  OBVIOUS
<1>1. ASSUME NEW s \in Slots, Step(s)
      PROVE  Typed'
  BY <1>1, BeginsTyped, FinishesTyped DEF Step
<1>2. CASE UNCHANGED vars
  BY <1>2 DEF vars, Typed, TypeOK
<1> QED
  BY <1>1, <1>2, SignTyped, RestartTyped DEF Next, Step

\* Every variable has its type, and every slot holds what its next step needs.
THEOREM TypeCorrect == Spec => []TypeOK
<1>1. Spec => []Typed
  BY InitTyped, NextTyped, PTL DEF Spec
<1>2. Typed => TypeOK
  BY DEF Typed
<1> QED BY <1>1, <1>2, PTL

-----------------------------------------------------------------------------
(***************************************************************************)
(* What a step leaves alone.                                               *)
(***************************************************************************)

\* The step of a slot is no step of another one.
LEMMA OthersStand ==
  ASSUME TypeOK, NEW s \in Slots, Step(s)
  PROVE  \A t \in Slots \ {s} : pc'[t] = pc[t] /\ call'[t] = call[t]
<1>1. ASSUME NEW p, NEW c, Goto(s, p, c)
      PROVE  \A t \in Slots \ {s} : pc'[t] = pc[t] /\ call'[t] = call[t]
  BY <1>1 DEF Goto, TypeOK
<1>2. CASE Refuse(s) \/ BeginPasskeyRegistration(s)
  BY <1>2 DEF Refuse, BeginPasskeyRegistration
<1>3. CASE BeginPasskeyLogin(s) \/ BeginLogin_Set(s) \/ Finish(s)
  BY <1>1, <1>3 DEF BeginPasskeyLogin, BeginLogin_Set, Finish, Answer
<1>4. CASE FinishRegistration_Take(s) \/ FinishRegistration_Insert(s)
  BY <1>1, <1>4 DEF FinishRegistration_Take, FinishRegistration_Insert, Answer, AnswerWritten
<1>5. CASE FinishLogin_Take(s) \/ FinishLogin_Validate(s) \/ FinishLogin_Update(s) \/ Fail(s)
  BY <1>1, <1>5
     DEF FinishLogin_Take, FinishLogin_Validate, FinishLogin_Update, Fail, Answer, AnswerWritten
<1> QED
  BY <1>2, <1>3, <1>4, <1>5 DEF Step

\* Where a step of a slot leads.
LEMMA GotoStep ==
  ASSUME TypeOK, NEW s \in Slots, NEW p, NEW c, Goto(s, p, c)
  PROVE  pc'[s] = p /\ call'[s] = c
  BY DEF Goto, TypeOK

LEMMA AnswerStep ==
  ASSUME TypeOK, NEW s \in Slots, NEW code, Answer(s, code)
  PROVE  pc'[s] = "Idle" /\ call'[s] = Nothing
  BY GotoStep DEF Answer

\* The table changes by an accepted registration and by the write of a login.
LEMMA CredentialStands ==
  ASSUME TypeOK, NEW s \in Slots, Step(s),
         ~FinishRegistration_Insert(s), ~FinishLogin_Update(s)
  PROVE  UNCHANGED credential
  BY DEF Step, Refuse, BeginPasskeyRegistration, BeginPasskeyLogin, BeginLogin_Set, Finish,
         FinishRegistration_Take, FinishLogin_Take, FinishLogin_Validate, Fail

\* A registration adds a key that is not stored.
LEMMA InsertAdds ==
  ASSUME TypeOK, NEW s \in Slots, FinishRegistration_Insert(s)
  PROVE  \/ UNCHANGED <<credential, accepted>>
         \/ LET c == call[s] IN
            /\ c.response.key \notin DOMAIN credential
            /\ Verified(c.response, "create", c.challenge)
            /\ DOMAIN credential' = DOMAIN credential \cup {c.response.key}
            /\ \A k \in DOMAIN credential : credential'[k] = credential[k]
            /\ credential'[c.response.key].user = c.user
            /\ credential'[c.response.key].eligible = c.response.eligible
            /\ accepted' = [accepted EXCEPT ![c.challenge] = @ + 1]
  BY DEF FinishRegistration_Insert, WithEntry

\* A login changes the counter of its key and nothing else.
LEMMA UpdateSets ==
  ASSUME TypeOK, NEW s \in Slots, FinishLogin_Update(s)
  PROVE  LET key == call[s].response.key IN
         /\ DOMAIN credential' = DOMAIN credential
         /\ \A k \in DOMAIN credential :
              /\ credential'[k].user = credential[k].user
              /\ credential'[k].eligible = credential[k].eligible
              /\ k # key => credential'[k] = credential[k]
              /\ k = key => credential'[k].signCount = call[s].signCount
  BY DEF FinishLogin_Update, TypeOK

-----------------------------------------------------------------------------
(***************************************************************************)
(* The stored counters.                                                    *)
(***************************************************************************)

\* What a login has read of its key is not above what it will write, unless
\* another login has written the key since.
ReadStands ==
  \A s \in Slots : pc[s] = "FinishLogin_Update" =>
    LET k == call[s].response.key
    IN /\ k \in DOMAIN credential
       /\ s \notin overtaken => credential[k].signCount <= call[s].signCount

LEMMA ReadStandsKept ==
  ASSUME Typed, ReadStands, NEW s \in Slots, Step(s)
  PROVE  ReadStands'
<1>0. TypeOK
  BY DEF Typed
<1>1. \A t \in Slots \ {s} : pc'[t] = pc[t] /\ call'[t] = call[t]
  BY <1>0, OthersStand
<1>2. CASE FinishLogin_Update(s)
  <2>1. pc'[s] = "Idle"
    BY <1>0, <1>2, AnswerStep DEF FinishLogin_Update, AnswerWritten
  <2>2. overtaken' = (overtaken \cup {t \in Slots : /\ pc[t] = "FinishLogin_Update"
                                     /\ call[t].response.key = call[s].response.key}) \ {s}
    BY <1>2 DEF FinishLogin_Update
  <2>3. \A t \in Slots \ {s} : pc[t] = "FinishLogin_Update" /\ t \notin overtaken'
                                 => call[t].response.key # call[s].response.key /\ t \notin overtaken
    BY <2>2
  <2>4. \A k \in DOMAIN credential :
          k \in DOMAIN credential' /\ (k # call[s].response.key => credential'[k] = credential[k])
    BY <1>0, <1>2, UpdateSets
  <2> QED
    BY <1>1, <2>1, <2>3, <2>4 DEF ReadStands
<1>3. CASE FinishRegistration_Insert(s)
  <2>1. pc'[s] = "Idle"
    BY <1>0, <1>3, AnswerStep DEF FinishRegistration_Insert, AnswerWritten
  <2>2. UNCHANGED overtaken
    BY <1>3 DEF FinishRegistration_Insert
  <2>3. \A k \in DOMAIN credential : k \in DOMAIN credential' /\ credential'[k] = credential[k]
    BY <1>0, <1>3, InsertAdds
  <2> QED
    BY <1>1, <2>1, <2>2, <2>3 DEF ReadStands
<1>4. CASE FinishLogin_Validate(s)
  <2>1. UNCHANGED <<credential, overtaken>>
    BY <1>4 DEF FinishLogin_Validate
  <2>2. CASE ~ValidLogin(call[s])
    <3>1. pc'[s] = "Idle"
      BY <1>0, <1>4, <2>2, AnswerStep DEF FinishLogin_Validate
    <3> QED BY <1>1, <2>1, <3>1 DEF ReadStands
  <2>3. CASE ValidLogin(call[s])
    <3> DEFINE m == call[s].response
    <3>1. m \in Response /\ m.key \in DOMAIN credential
      <4>1. call[s] \in [op : {"FinishLogin"}, user : Accounts,
                         response : Response \cup {Unparsable}, session : Session]
        BY <1>0, <1>4, CallFields DEF FinishLogin_Validate, TypeOK
      <4> QED BY <2>3, <4>1 DEF ValidLogin, Verified, Owned
    <3>2. /\ pc'[s] = "FinishLogin_Update"
          /\ call'[s].response = m
          /\ call'[s].signCount = UpdateCounter(credential[m.key].signCount, m.count)
      BY <1>0, <1>4, <2>3, GotoStep DEF FinishLogin_Validate
    <3>3. credential[m.key].signCount \in Counts /\ m.count \in Counts
      BY <1>0, <3>1 DEF TypeOK, Response
    <3>4. credential[m.key].signCount <= call'[s].signCount
      BY <3>2, <3>3, PasskeysConstants DEF UpdateCounter, Counts
    <3> QED BY <1>1, <2>1, <3>1, <3>2, <3>4 DEF ReadStands
  <2> QED BY <2>2, <2>3
<1>5. CASE /\ ~FinishLogin_Update(s) /\ ~FinishRegistration_Insert(s)
           /\ ~FinishLogin_Validate(s)
  <2>1. UNCHANGED credential
    BY <1>0, <1>5, CredentialStands
  <2>2. pc'[s] # "FinishLogin_Update"
    <3>1. CASE Refuse(s) \/ BeginPasskeyRegistration(s)
      BY <3>1 DEF Refuse, BeginPasskeyRegistration
    <3>2. CASE BeginPasskeyLogin(s)
      BY <1>0, <3>2, GotoStep, AnswerStep DEF BeginPasskeyLogin
    <3>3. CASE Finish(s)
      BY <1>0, <3>3, GotoStep DEF Finish
    <3>4. CASE FinishRegistration_Take(s)
      BY <1>0, <3>4, GotoStep, AnswerStep DEF FinishRegistration_Take
    <3>5. CASE FinishLogin_Take(s)
      BY <1>0, <3>5, GotoStep, AnswerStep DEF FinishLogin_Take
    <3>6. CASE BeginLogin_Set(s) \/ Fail(s)
      BY <1>0, <3>6, AnswerStep DEF BeginLogin_Set, Fail
    <3> QED BY <1>5, <3>1, <3>2, <3>3, <3>4, <3>5, <3>6 DEF Step
  <2>3. overtaken \subseteq overtaken' \cup {s}
    BY <1>5 DEF Step, Refuse, BeginPasskeyRegistration, BeginPasskeyLogin, BeginLogin_Set, Finish,
           FinishRegistration_Take, FinishLogin_Take, Fail
  <2> QED BY <1>1, <2>1, <2>2, <2>3 DEF ReadStands
<1> QED
  BY <1>2, <1>3, <1>4, <1>5

\* The stored counter of a key falls only when a login writes it that had read
\* it before another login wrote it.
THEOREM CounterFalls == Spec => CounterFallsOvertaken
<1> DEFINE Falls == \A k \in DOMAIN credential :
       credential'[k].signCount < credential[k].signCount =>
         \E s \in overtaken : call[s].response.key = k /\ pc'[s] = "Idle"
<1>1. Init => ReadStands
  BY DEF Init, ReadStands
<1>2. Typed /\ ReadStands /\ [Next]_vars => ReadStands'
  <2> SUFFICES ASSUME Typed, ReadStands, [Next]_vars
               PROVE  ReadStands'
    OBVIOUS
  <2>1. CASE \E s \in Slots : Step(s)
    BY <2>1, ReadStandsKept
  <2>2. CASE \E c \in DOMAIN issued, k \in Keys : Sign(c, k)
    BY <2>2 DEF Sign, ReadStands
  <2>3. CASE Restart
    BY <2>3 DEF Restart, ReadStands
  <2>4. CASE UNCHANGED vars
    BY <2>4 DEF vars, ReadStands
  <2> QED BY <2>1, <2>2, <2>3, <2>4 DEF Next, Step
<1>3. Typed /\ ReadStands /\ [Next]_vars => [Falls]_vars
  <2> SUFFICES ASSUME Typed, ReadStands, Next, NEW k \in DOMAIN credential,
                      credential'[k].signCount < credential[k].signCount
               PROVE  \E s \in overtaken : call[s].response.key = k /\ pc'[s] = "Idle"
    BY DEF vars
  <2>0. TypeOK /\ credential[k].signCount \in Counts /\ ~(credential[k].signCount < credential[k].signCount)
    BY PasskeysConstants DEF Typed, TypeOK, Counts
  <2>1. ASSUME NEW s \in Slots, Step(s)
        PROVE  \E t \in overtaken : call[t].response.key = k /\ pc'[t] = "Idle"
    <3>1. FinishLogin_Update(s) \/ FinishRegistration_Insert(s)
      BY <2>0, <2>1, CredentialStands
    <3>2. ~FinishRegistration_Insert(s)
      BY <2>0, InsertAdds
    <3>3. FinishLogin_Update(s) /\ call[s].response.key = k /\ credential'[k].signCount = call[s].signCount
      BY <2>0, <3>1, <3>2, UpdateSets
    <3>4. call[s].signCount \in Counts /\ pc[s] = "FinishLogin_Update"
      BY <2>0, <3>3, CallFields DEF FinishLogin_Update, TypeOK
    <3>5. s \in overtaken
      BY <2>0, <3>3, <3>4, PasskeysConstants DEF ReadStands, Counts
    <3>6. pc'[s] = "Idle"
      BY <2>0, <3>3, AnswerStep DEF FinishLogin_Update, AnswerWritten
    <3> QED BY <3>3, <3>5, <3>6
  <2>2. ~ \E c \in DOMAIN issued, j \in Keys : Sign(c, j)
    BY <2>0 DEF Sign
  <2>3. ~Restart
    BY <2>0 DEF Restart
  <2> QED BY <2>1, <2>2, <2>3 DEF Next, Step
<1>4. CounterFallsOvertaken <=> [][Falls]_vars
  BY PTL DEF CounterFallsOvertaken
<1> HIDE DEF Falls
<1> QED
  BY <1>1, <1>2, <1>3, <1>4, InitTyped, NextTyped, PTL DEF Spec

-----------------------------------------------------------------------------
(***************************************************************************)
(* The sessions, and the challenges accepted.                              *)
(***************************************************************************)

\* A slot has taken the session of challenge c and has not looked at it yet.
Holds(t, c) ==
  \/ pc[t] = "FinishRegistration_Insert" /\ call[t].challenge = c
  \/ pc[t] = "FinishLogin_Validate" /\ call[t].session.challenge = c

CreateFor(c, u) == c \in DOMAIN issued /\ issued[c].kind = "create" /\ issued[c].user = u
GetFor(c, u, keys) == c \in DOMAIN issued /\ issued[c] = [user |-> u, kind |-> "get", allowed |-> keys]

\* A session is for the account and the ceremony its challenge was drawn for,
\* in the map and in the hands of the slot that took it.
SessionsIssued ==
  /\ \A u \in DOMAIN registrations : CreateFor(registrations[u], u)
  /\ \A u \in DOMAIN logins : GetFor(logins[u].challenge, u, logins[u].allowed)
  /\ \A t \in Slots :
       /\ pc[t] = "FinishRegistration_Insert" => CreateFor(call[t].challenge, call[t].user)
       /\ pc[t] = "FinishLogin_Validate" =>
            GetFor(call[t].session.challenge, call[t].user, call[t].session.allowed)

\* A challenge that may still be accepted has never been, and is in one place.
Live ==
  /\ \A c \in Challenges : c \notin DOMAIN issued => accepted[c] = 0
  /\ \A u \in DOMAIN registrations :
       accepted[registrations[u]] = 0 /\ \A t \in Slots : ~Holds(t, registrations[u])
  /\ \A u \in DOMAIN logins :
       accepted[logins[u].challenge] = 0 /\ \A t \in Slots : ~Holds(t, logins[u].challenge)
  /\ \A t \in Slots, c \in Challenges : Holds(t, c) =>
       accepted[c] = 0 /\ \A r \in Slots \ {t} : ~Holds(r, c)

Sessions == SessionsIssued /\ Live /\ AcceptedOnce

\* What a slot holds stays as it is while another one acts.
LEMMA OthersHold ==
  ASSUME TypeOK, NEW s \in Slots, Step(s)
  PROVE  \A t \in Slots \ {s} : \A c : Holds(t, c)' <=> Holds(t, c)
  BY OthersStand DEF Holds

\* A challenge was drawn for one account and one ceremony.
LEMMA DrawnForOne ==
  ASSUME NEW c, NEW u, NEW v, NEW keys, NEW others
  PROVE  /\ CreateFor(c, u) /\ CreateFor(c, v) => u = v
         /\ ~(CreateFor(c, u) /\ GetFor(c, v, keys))
         /\ GetFor(c, u, keys) /\ GetFor(c, v, others) => u = v /\ keys = others
<1>1. CreateFor(c, u) /\ CreateFor(c, v) => u = v
  BY DEF CreateFor
<1>2. GetFor(c, v, keys) => issued[c].kind = "get"
  BY DEF GetFor
<1>3. ~(CreateFor(c, u) /\ GetFor(c, v, keys))
  BY <1>2 DEF CreateFor
<1>4. GetFor(c, u, keys) => issued[c].user = u /\ issued[c].allowed = keys
  BY DEF GetFor
<1>5. GetFor(c, v, others) => issued[c].user = v /\ issued[c].allowed = others
  BY DEF GetFor
<1> QED BY <1>1, <1>3, <1>4, <1>5

\* A slot that holds a challenge holds one that was drawn.
LEMMA HeldIssued ==
  ASSUME TypeOK, SessionsIssued
  PROVE  /\ \A t \in Slots : \A c : Holds(t, c) => c \in DOMAIN issued /\ c \in Challenges
         /\ \A u \in DOMAIN registrations :
              registrations[u] \in DOMAIN issued /\ registrations[u] \in Challenges
         /\ \A u \in DOMAIN logins :
              logins[u].challenge \in DOMAIN issued /\ logins[u].challenge \in Challenges
  BY IssuedAreChallenges DEF Holds, SessionsIssued, CreateFor, GetFor

\* A step that draws and accepts nothing and leaves the slot without a session
\* keeps the sessions that stay in the maps.
LEMMA DropKeepsSessions ==
  ASSUME TypeOK, Sessions, NEW s \in Slots, Step(s),
         pc'[s] \notin {"FinishRegistration_Insert", "FinishLogin_Validate"},
         UNCHANGED <<registrations, logins, issued, accepted>>
  PROVE  Sessions'
<1>1. \A t \in Slots \ {s} : pc'[t] = pc[t] /\ call'[t] = call[t]
  BY OthersStand
<1>2. \A t \in Slots : \A c : Holds(t, c)' => Holds(t, c) /\ t # s
  BY OthersHold DEF Holds
<1>3. SessionsIssued'
  BY <1>1 DEF Sessions, SessionsIssued, CreateFor, GetFor
<1>4. Live'
  BY <1>2 DEF Sessions, Live
<1>5. AcceptedOnce'
  BY DEF Sessions, AcceptedOnce
<1> QED BY <1>3, <1>4, <1>5 DEF Sessions

\* A session taken is in the hands of one slot and no longer in its map.
LEMMA TakeRegistrationKeepsSessions ==
  ASSUME TypeOK, Sessions, NEW s \in Slots, FinishRegistration_Take(s)
  PROVE  Sessions'
<1> DEFINE u == call[s].user
<1>1. CASE u \notin DOMAIN registrations
  <2>1. pc'[s] = "Idle" /\ UNCHANGED <<registrations, logins, issued, accepted>>
    BY <1>1, AnswerStep DEF FinishRegistration_Take
  <2> QED BY <2>1, DropKeepsSessions DEF Step
<1>2. CASE u \in DOMAIN registrations
  <2>1. /\ pc'[s] = "FinishRegistration_Insert"
        /\ call'[s].challenge = registrations[u] /\ call'[s].user = u
        /\ UNCHANGED <<logins, issued, accepted>>
    BY <1>2, GotoStep DEF FinishRegistration_Take
  <2>2. /\ DOMAIN registrations' = DOMAIN registrations \ {u}
        /\ \A x \in DOMAIN registrations' : registrations'[x] = registrations[x]
    BY <1>2 DEF FinishRegistration_Take, SessionTaken, WithoutEntry
  <2>3. \A t \in Slots \ {s} : pc'[t] = pc[t] /\ call'[t] = call[t]
    BY OthersStand DEF Step
  <2>4. \A t \in Slots : \A c : Holds(t, c)' => (t # s /\ Holds(t, c)) \/ (t = s /\ c = registrations[u])
    BY <2>1, <2>3 DEF Holds
  <2> HIDE DEF u
  <2>5. SessionsIssued'
    BY <1>2, <2>1, <2>2, <2>3 DEF Sessions, SessionsIssued, CreateFor, GetFor
  <2>6. \A x \in DOMAIN registrations' : registrations'[x] # registrations[u]
    BY <1>2, <2>2 DEF Sessions, SessionsIssued, CreateFor
  <2>7. \A x \in DOMAIN logins' : logins'[x].challenge # registrations[u]
    <3>1. CreateFor(registrations[u], u)
      BY <1>2 DEF Sessions, SessionsIssued
    <3>2. \A x \in DOMAIN logins : GetFor(logins[x].challenge, x, logins[x].allowed)
      BY DEF Sessions, SessionsIssued
    <3>3. \A x \in DOMAIN logins : logins[x].challenge # registrations[u]
      BY <3>1, <3>2, DrawnForOne
    <3> QED BY <2>1, <3>3
  <2>8. Live'
    BY <1>2, <2>1, <2>2, <2>4, <2>6, <2>7 DEF Sessions, Live
  <2>9. AcceptedOnce'
    BY <2>1 DEF Sessions, AcceptedOnce
  <2> QED BY <2>5, <2>8, <2>9 DEF Sessions
<1> QED BY <1>1, <1>2

LEMMA TakeLoginKeepsSessions ==
  ASSUME TypeOK, Sessions, NEW s \in Slots, FinishLogin_Take(s)
  PROVE  Sessions'
<1> DEFINE u == call[s].user
<1>1. CASE u \notin DOMAIN logins
  <2>1. pc'[s] = "Idle" /\ UNCHANGED <<registrations, logins, issued, accepted>>
    BY <1>1, AnswerStep DEF FinishLogin_Take
  <2> QED BY <2>1, DropKeepsSessions DEF Step
<1>2. CASE u \in DOMAIN logins
  <2>1. /\ pc'[s] = "FinishLogin_Validate"
        /\ call'[s].session = logins[u] /\ call'[s].user = u
        /\ UNCHANGED <<registrations, issued, accepted>>
    BY <1>2, GotoStep DEF FinishLogin_Take
  <2>2. /\ DOMAIN logins' = DOMAIN logins \ {u}
        /\ \A x \in DOMAIN logins' : logins'[x] = logins[x]
    BY <1>2 DEF FinishLogin_Take, SessionTaken, WithoutEntry
  <2>3. \A t \in Slots \ {s} : pc'[t] = pc[t] /\ call'[t] = call[t]
    BY OthersStand DEF Step
  <2>4. \A t \in Slots : \A c : Holds(t, c)' =>
          (t # s /\ Holds(t, c)) \/ (t = s /\ c = logins[u].challenge)
    BY <2>1, <2>3 DEF Holds
  <2> HIDE DEF u
  <2>5. SessionsIssued'
    BY <1>2, <2>1, <2>2, <2>3 DEF Sessions, SessionsIssued, CreateFor, GetFor
  <2>6. \A x \in DOMAIN logins' : logins'[x].challenge # logins[u].challenge
    BY <1>2, <2>2, DrawnForOne DEF Sessions, SessionsIssued
  <2>7. \A x \in DOMAIN registrations' : registrations'[x] # logins[u].challenge
    BY <1>2, <2>1, DrawnForOne DEF Sessions, SessionsIssued
  <2>8. Live'
    BY <1>2, <2>1, <2>2, <2>4, <2>6, <2>7 DEF Sessions, Live
  <2>9. AcceptedOnce'
    BY <2>1 DEF Sessions, AcceptedOnce
  <2> QED BY <2>5, <2>8, <2>9 DEF Sessions
<1> QED BY <1>1, <1>2

\* A challenge drawn is a new one: no slot holds it and no session has it.
LEMMA BeginRegistrationKeepsSessions ==
  ASSUME TypeOK, Sessions, NEW s \in Slots, BeginPasskeyRegistration(s)
  PROVE  Sessions'
<1> DEFINE n == Len(issued')
<1>1. PICK u \in Accounts :
        Draw(u, "create", {}) /\ registrations' = WithEntry(registrations, u, n)
  BY DEF BeginPasskeyRegistration
<1>2. UNCHANGED <<logins, pc, call, accepted>>
  BY DEF BeginPasskeyRegistration
<1>3. /\ n \in DOMAIN issued' /\ n \in Challenges /\ n \notin DOMAIN issued
      /\ DOMAIN issued \subseteq DOMAIN issued'
      /\ \A c \in DOMAIN issued : issued'[c] = issued[c]
      /\ issued'[n] = [user |-> u, kind |-> "create", allowed |-> {}]
  <2>1. {} \in SUBSET Keys /\ "create" \in {"create", "get"}
    OBVIOUS
  <2> QED BY <1>1, <2>1, DrawTyped
<1> HIDE DEF n
<1>4. /\ DOMAIN registrations' = DOMAIN registrations \cup {u}
      /\ registrations'[u] = n
      /\ \A x \in DOMAIN registrations \ {u} : registrations'[x] = registrations[x]
  BY <1>1 DEF WithEntry
<1>5. \A t \in Slots : \A c : Holds(t, c)' <=> Holds(t, c)
  BY <1>2 DEF Holds
<1>6. \A t \in Slots : ~Holds(t, n)
  BY <1>3, HeldIssued DEF Sessions
<1>7. SessionsIssued'
  BY <1>2, <1>3, <1>4 DEF Sessions, SessionsIssued, CreateFor, GetFor
<1>8. accepted[n] = 0
  BY <1>3 DEF Sessions, Live
<1>9. Live'
  BY <1>2, <1>3, <1>4, <1>5, <1>6, <1>8 DEF Sessions, Live
<1>10. AcceptedOnce'
  BY <1>2 DEF Sessions, AcceptedOnce
<1> QED BY <1>7, <1>9, <1>10 DEF Sessions

LEMMA BeginLoginKeepsSessions ==
  ASSUME TypeOK, Sessions, NEW s \in Slots, BeginLogin_Set(s)
  PROVE  Sessions'
<1> DEFINE n == Len(issued')
           u == call[s].user
           keys == call[s].allowed
<1>1. Draw(u, "get", keys) /\ logins' = WithEntry(logins, u, [challenge |-> n, allowed |-> keys])
  BY DEF BeginLogin_Set
<1>2. pc'[s] = "Idle" /\ UNCHANGED <<registrations, accepted>>
  BY AnswerStep DEF BeginLogin_Set
<1>3. /\ n \in DOMAIN issued' /\ n \in Challenges /\ n \notin DOMAIN issued
      /\ DOMAIN issued \subseteq DOMAIN issued'
      /\ \A c \in DOMAIN issued : issued'[c] = issued[c]
      /\ issued'[n] = [user |-> u, kind |-> "get", allowed |-> keys]
  <2>1. u \in Accounts /\ keys \in SUBSET Keys /\ "get" \in {"create", "get"}
    BY CallFields DEF BeginLogin_Set, TypeOK
  <2> HIDE DEF u, keys
  <2> QED BY <1>1, <2>1, DrawTyped
<1>4. \A t \in Slots \ {s} : pc'[t] = pc[t] /\ call'[t] = call[t]
  BY OthersStand DEF Step
<1> HIDE DEF n, u, keys
<1>5. /\ DOMAIN logins' = DOMAIN logins \cup {u}
      /\ logins'[u] = [challenge |-> n, allowed |-> keys]
      /\ \A x \in DOMAIN logins \ {u} : logins'[x] = logins[x]
  BY <1>1 DEF WithEntry
<1>6. \A t \in Slots : \A c : Holds(t, c)' => Holds(t, c) /\ t # s
  BY <1>2, <1>4 DEF Holds
<1>7. \A t \in Slots : ~Holds(t, n)
  BY <1>3, HeldIssued DEF Sessions
<1>8. SessionsIssued'
  BY <1>2, <1>3, <1>4, <1>5 DEF Sessions, SessionsIssued, CreateFor, GetFor
<1>9. accepted[n] = 0
  BY <1>3 DEF Sessions, Live
<1>10. Live'
  BY <1>2, <1>3, <1>5, <1>6, <1>7, <1>9 DEF Sessions, Live
<1>11. AcceptedOnce'
  BY <1>2 DEF Sessions, AcceptedOnce
<1> QED BY <1>8, <1>10, <1>11 DEF Sessions

\* A slot that accepts the challenge it holds lets go of it.
LEMMA AcceptKeepsSessions ==
  ASSUME TypeOK, Sessions, NEW s \in Slots, Step(s), NEW c, Holds(s, c),
         pc'[s] \notin {"FinishRegistration_Insert", "FinishLogin_Validate"},
         UNCHANGED <<registrations, logins, issued>>,
         accepted' = [accepted EXCEPT ![c] = @ + 1]
  PROVE  Sessions'
<1>1. \A t \in Slots \ {s} : pc'[t] = pc[t] /\ call'[t] = call[t]
  BY OthersStand
<1>2. \A t \in Slots : \A d : Holds(t, d)' => Holds(t, d) /\ t # s
  BY OthersHold DEF Holds
<1>3. c \in Challenges /\ c \in DOMAIN issued /\ accepted[c] = 0
      /\ \A t \in Slots \ {s} : ~Holds(t, c)
  BY HeldIssued DEF Sessions, Live
<1>4. /\ \A u \in DOMAIN registrations : registrations[u] # c
      /\ \A u \in DOMAIN logins : logins[u].challenge # c
  BY DEF Sessions, Live
<1>5. accepted'[c] = 1 /\ \A d \in Challenges \ {c} : accepted'[d] = accepted[d]
  BY <1>3 DEF TypeOK
<1>6. SessionsIssued'
  BY <1>1 DEF Sessions, SessionsIssued, CreateFor, GetFor
<1>7. Live'
  <2>1. \A d \in Challenges : d \notin DOMAIN issued' => accepted'[d] = 0
    BY <1>3, <1>5 DEF Sessions, Live
  <2>2. \A u \in DOMAIN registrations' :
          accepted'[registrations'[u]] = 0 /\ \A t \in Slots : ~Holds(t, registrations[u])'
    BY <1>2, <1>4, <1>5, HeldIssued DEF Sessions, Live
  <2>3. \A u \in DOMAIN logins' :
          accepted'[logins'[u].challenge] = 0 /\ \A t \in Slots : ~Holds(t, logins[u].challenge)'
    BY <1>2, <1>4, <1>5, HeldIssued DEF Sessions, Live
  <2>4. \A t \in Slots, d \in Challenges : Holds(t, d)' =>
          accepted'[d] = 0 /\ \A r \in Slots \ {t} : ~Holds(r, d)'
    BY <1>2, <1>3, <1>5 DEF Sessions, Live
  <2> QED BY <2>1, <2>2, <2>3, <2>4 DEF Live
<1>8. AcceptedOnce'
  BY <1>5 DEF Sessions, AcceptedOnce
<1> QED BY <1>6, <1>7, <1>8 DEF Sessions

LEMMA SessionsKept ==
  ASSUME Typed, Sessions, NEW s \in Slots, Step(s)
  PROVE  Sessions'
<1>0. TypeOK
  BY DEF Typed
<1>1. CASE Refuse(s)
  <2>1. UNCHANGED <<pc, registrations, logins, issued, accepted>> /\ pc[s] = "Idle"
    BY <1>1 DEF Refuse
  <2> QED BY <1>0, <2>1, DropKeepsSessions
<1>2. CASE BeginPasskeyLogin(s)
  <2>1. pc'[s] \in {"Idle", "BeginLogin_Set"}
    BY <1>0, <1>2, GotoStep, AnswerStep DEF BeginPasskeyLogin
  <2>2. UNCHANGED <<registrations, logins, issued, accepted>>
    BY <1>2 DEF BeginPasskeyLogin
  <2> QED BY <1>0, <2>1, <2>2, DropKeepsSessions
<1>3. CASE Finish(s)
  <2>1. pc'[s] \in {"FinishRegistration", "FinishLogin"}
    BY <1>0, <1>3, GotoStep DEF Finish
  <2>2. UNCHANGED <<registrations, logins, issued, accepted>>
    BY <1>3 DEF Finish
  <2> QED BY <1>0, <2>1, <2>2, DropKeepsSessions
<1>4. CASE FinishLogin_Update(s) \/ Fail(s)
  <2>1. pc'[s] = "Idle"
    BY <1>0, <1>4, AnswerStep DEF FinishLogin_Update, Fail, AnswerWritten
  <2>2. UNCHANGED <<registrations, logins, issued, accepted>>
    BY <1>4 DEF FinishLogin_Update, Fail
  <2> QED BY <1>0, <2>1, <2>2, DropKeepsSessions
<1>5. CASE FinishRegistration_Insert(s)
  <2>1. pc'[s] = "Idle"
    BY <1>0, <1>5, AnswerStep DEF FinishRegistration_Insert, AnswerWritten
  <2>2. UNCHANGED <<registrations, logins, issued>> /\ Holds(s, call[s].challenge)
    BY <1>5 DEF FinishRegistration_Insert, Holds
  <2>3. UNCHANGED accepted \/ accepted' = [accepted EXCEPT ![call[s].challenge] = @ + 1]
    BY <1>0, <1>5, InsertAdds
  <2> QED BY <1>0, <2>1, <2>2, <2>3, DropKeepsSessions, AcceptKeepsSessions
<1>6. CASE FinishLogin_Validate(s)
  <2>1. UNCHANGED <<registrations, logins, issued>> /\ Holds(s, call[s].session.challenge)
    BY <1>6 DEF FinishLogin_Validate, Holds
  <2>2. CASE ~ValidLogin(call[s])
    <3>1. pc'[s] = "Idle" /\ UNCHANGED accepted
      BY <1>0, <1>6, <2>2, AnswerStep DEF FinishLogin_Validate
    <3> QED BY <1>0, <2>1, <3>1, DropKeepsSessions
  <2>3. CASE ValidLogin(call[s])
    <3>1. pc'[s] = "FinishLogin_Update"
      BY <1>0, <1>6, <2>3, GotoStep DEF FinishLogin_Validate
    <3>2. accepted' = [accepted EXCEPT ![call[s].session.challenge] = @ + 1]
      BY <1>6, <2>3 DEF FinishLogin_Validate, ValidLogin, Verified
    <3> QED BY <1>0, <2>1, <3>1, <3>2, AcceptKeepsSessions
  <2> QED BY <2>2, <2>3
<1> QED
  BY <1>0, <1>1, <1>2, <1>3, <1>4, <1>5, <1>6, BeginRegistrationKeepsSessions,
     BeginLoginKeepsSessions, TakeRegistrationKeepsSessions, TakeLoginKeepsSessions DEF Step

LEMMA SessionsInit == Init => Sessions
  BY DEF Init, Sessions, SessionsIssued, Live, Holds, AcceptedOnce

LEMMA SessionsNext == Typed /\ Sessions /\ [Next]_vars => Sessions'
<1> SUFFICES ASSUME Typed, Sessions, [Next]_vars
             PROVE  Sessions'
  OBVIOUS
<1>1. CASE \E s \in Slots : Step(s)
  BY <1>1, SessionsKept
<1>2. CASE UNCHANGED <<registrations, logins, issued, pc, call, accepted>>
  <2>1. SessionsIssued'
    BY <1>2 DEF Sessions, SessionsIssued, CreateFor, GetFor
  <2>2. Live' /\ AcceptedOnce'
    BY <1>2 DEF Sessions, Live, Holds, AcceptedOnce
  <2> QED BY <2>1, <2>2 DEF Sessions
<1>3. CASE Restart
  BY <1>3 DEF Restart, Sessions, SessionsIssued, Live, Holds, AcceptedOnce
<1> QED
  BY <1>1, <1>2, <1>3 DEF Next, Step, Sign, vars

\* Of all the responses that reach the two finish handlers, late or repeated,
\* at most one is accepted for each challenge.
THEOREM OnceAccepted == Spec => []AcceptedOnce
<1>1. Sessions => AcceptedOnce
  BY DEF Sessions
<1> QED
  BY <1>1, InitTyped, NextTyped, SessionsInit, SessionsNext, PTL DEF Spec

-----------------------------------------------------------------------------
(***************************************************************************)
(* The owners of keys.                                                     *)
(***************************************************************************)
FinishSteps == {"FinishRegistration", "FinishRegistration_Insert", "FinishLogin",
                "FinishLogin_Validate", "FinishLogin_Update"}

\* A response at a handler has been signed, or does not parse.
ResponsesHeld ==
  \A s \in Slots : pc[s] \in FinishSteps => call[s].response \in responses \cup {Unparsable}

\* The keys a login asks for belong to its account.
AllowedOwned ==
  /\ \A u \in DOMAIN logins : logins[u].allowed \subseteq Owned(u)
  /\ \A s \in Slots :
       /\ pc[s] = "BeginLogin_Set" => call[s].allowed \subseteq Owned(call[s].user)
       /\ pc[s] = "FinishLogin_Validate" => call[s].session.allowed \subseteq Owned(call[s].user)

Owners == ResponsesHeld /\ AllowedOwned /\ LoginByOwner

\* What was drawn and signed stays, and so do the owner and the flag of a key.
LEMMA SlotKeepsPast ==
  ASSUME TypeOK, NEW s \in Slots, Step(s)
  PROVE  /\ UNCHANGED responses
         /\ \A c \in DOMAIN issued : c \in DOMAIN issued' /\ issued'[c] = issued[c]
         /\ \A k \in DOMAIN credential : /\ k \in DOMAIN credential'
                                         /\ credential'[k].user = credential[k].user
                                         /\ credential'[k].eligible = credential[k].eligible
         /\ \A u : Owned(u) \subseteq Owned(u)'
<1>1. UNCHANGED responses
  BY DEF Step, Refuse, BeginPasskeyRegistration, BeginPasskeyLogin, BeginLogin_Set, Finish,
         FinishRegistration_Take, FinishRegistration_Insert, FinishLogin_Take,
         FinishLogin_Validate, FinishLogin_Update, Fail
<1>2. \A c \in DOMAIN issued : c \in DOMAIN issued' /\ issued'[c] = issued[c]
  <2>1. UNCHANGED issued \/ \E e : issued' = Append(issued, e)
    BY DEF Step, Refuse, BeginPasskeyRegistration, BeginPasskeyLogin, BeginLogin_Set, Finish,
           FinishRegistration_Take, FinishRegistration_Insert, FinishLogin_Take,
           FinishLogin_Validate, FinishLogin_Update, Fail, Draw
  <2>2. issued \in Seq([user : Accounts, kind : {"create", "get"}, allowed : SUBSET Keys])
    BY DEF TypeOK
  <2> QED BY <2>1, <2>2
<1>3. \A k \in DOMAIN credential : /\ k \in DOMAIN credential'
                                   /\ credential'[k].user = credential[k].user
                                   /\ credential'[k].eligible = credential[k].eligible
  BY CredentialStands, InsertAdds, UpdateSets
<1>4. \A u : Owned(u) \subseteq Owned(u)'
  BY <1>3 DEF Owned
<1> QED BY <1>1, <1>2, <1>3, <1>4

\* The steps on which a slot comes to hold a response.
LEMMA HoldsResponse ==
  ASSUME TypeOK, ResponsesHeld, NEW s \in Slots, Step(s), pc'[s] \in FinishSteps
  PROVE  call'[s].response \in responses \cup {Unparsable}
<1>1. CASE Refuse(s) \/ BeginPasskeyRegistration(s)
  BY <1>1 DEF Refuse, BeginPasskeyRegistration, FinishSteps
<1>2. CASE BeginPasskeyLogin(s)
  BY <1>2, GotoStep, AnswerStep DEF BeginPasskeyLogin, FinishSteps
<1>3. CASE BeginLogin_Set(s) \/ FinishRegistration_Insert(s) \/ FinishLogin_Update(s) \/ Fail(s)
  BY <1>3, AnswerStep
     DEF BeginLogin_Set, FinishRegistration_Insert, FinishLogin_Update, Fail, AnswerWritten, FinishSteps
<1>4. CASE Finish(s)
  <2>1. PICK u \in Accounts, m \in responses \cup {Unparsable} :
        \E op \in {"FinishRegistration", "FinishLogin"} :
           Goto(s, op, [op |-> op, user |-> u, response |-> m])
    BY <1>4 DEF Finish
  <2> QED BY <2>1, GotoStep
<1>5. CASE FinishRegistration_Take(s)
  <2>1. pc[s] \in FinishSteps
    BY <1>5 DEF FinishRegistration_Take, FinishSteps
  <2>2. call'[s].response = call[s].response \/ pc'[s] = "Idle"
    BY <1>5, GotoStep, AnswerStep DEF FinishRegistration_Take
  <2> QED BY <2>1, <2>2 DEF ResponsesHeld, FinishSteps
<1>6. CASE FinishLogin_Take(s)
  <2>1. pc[s] \in FinishSteps
    BY <1>6 DEF FinishLogin_Take, FinishSteps
  <2>2. call'[s].response = call[s].response \/ pc'[s] = "Idle"
    BY <1>6, GotoStep, AnswerStep DEF FinishLogin_Take
  <2> QED BY <2>1, <2>2 DEF ResponsesHeld, FinishSteps
<1>7. CASE FinishLogin_Validate(s)
  <2>1. pc[s] \in FinishSteps
    BY <1>7 DEF FinishLogin_Validate, FinishSteps
  <2>2. call'[s].response = call[s].response \/ pc'[s] = "Idle"
    BY <1>7, GotoStep, AnswerStep DEF FinishLogin_Validate
  <2> QED BY <2>1, <2>2 DEF ResponsesHeld, FinishSteps
<1> QED
  BY <1>1, <1>2, <1>3, <1>4, <1>5, <1>6, <1>7 DEF Step

LEMMA AllowedOwnedKept ==
  ASSUME TypeOK, AllowedOwned, NEW s \in Slots, Step(s)
  PROVE  AllowedOwned'
<1>1. \A t \in Slots \ {s} : pc'[t] = pc[t] /\ call'[t] = call[t]
  BY OthersStand
<1>2. \A u : Owned(u) \subseteq Owned(u)'
  BY SlotKeepsPast
<1>3. \A u : \A keys : keys \subseteq Owned(u) => keys \subseteq Owned(u)'
  BY <1>2
<1>4. CASE BeginPasskeyLogin(s)
  <2>1. pc'[s] = "Idle" \/ (pc'[s] = "BeginLogin_Set" /\ call'[s].allowed = Owned(call'[s].user))
    <3>1. PICK u \in Accounts :
            \/ Answer(s, "InvalidArgument")
            \/ Goto(s, "BeginLogin_Set", [op |-> "BeginLogin", user |-> u, allowed |-> Owned(u)])
      BY <1>4 DEF BeginPasskeyLogin
    <3>2. CASE Answer(s, "InvalidArgument")
      BY <3>2, AnswerStep
    <3>3. CASE Goto(s, "BeginLogin_Set", [op |-> "BeginLogin", user |-> u, allowed |-> Owned(u)])
      <4>1. pc'[s] = "BeginLogin_Set"
            /\ call'[s] = [op |-> "BeginLogin", user |-> u, allowed |-> Owned(u)]
        BY <3>3, GotoStep
      <4> QED BY <4>1
    <3> QED BY <3>1, <3>2, <3>3
  <2>2. UNCHANGED logins
    BY <1>4 DEF BeginPasskeyLogin
  <2>3. UNCHANGED credential
    BY <1>4 DEF BeginPasskeyLogin
  <2>4. pc'[s] = "BeginLogin_Set" =>
          call'[s].allowed \subseteq {k \in DOMAIN credential : credential[k].user = call'[s].user}
    BY <2>1 DEF Owned
  <2>5. \A t \in Slots \ {s} :
          /\ pc'[t] = "BeginLogin_Set" =>
               call'[t].allowed \subseteq {k \in DOMAIN credential : credential[k].user = call'[t].user}
          /\ pc'[t] = "FinishLogin_Validate" =>
               call'[t].session.allowed \subseteq {k \in DOMAIN credential : credential[k].user = call'[t].user}
    BY <1>1 DEF AllowedOwned, Owned
  <2>6. pc'[s] # "FinishLogin_Validate"
    BY <2>1
  <2>7. \A u \in DOMAIN logins' : logins'[u].allowed \subseteq Owned(u)'
    BY <1>3, <2>2 DEF AllowedOwned
  <2> QED BY <2>3, <2>4, <2>5, <2>6, <2>7 DEF AllowedOwned, Owned
<1>5. CASE BeginLogin_Set(s)
  <2>1. pc'[s] = "Idle"
    BY <1>5, AnswerStep DEF BeginLogin_Set
  <2>2. call[s].allowed \subseteq Owned(call[s].user)
    BY <1>5 DEF BeginLogin_Set, AllowedOwned
  <2>3. \A x \in DOMAIN logins' :
          \/ x \in DOMAIN logins /\ logins'[x] = logins[x]
          \/ x = call[s].user /\ logins'[x].allowed = call[s].allowed
    BY <1>5 DEF BeginLogin_Set, WithEntry
  <2> QED BY <1>1, <1>3, <2>1, <2>2, <2>3 DEF AllowedOwned
<1>6. CASE FinishLogin_Take(s)
  <2>1. \A x \in DOMAIN logins' : x \in DOMAIN logins /\ logins'[x] = logins[x]
    BY <1>6 DEF FinishLogin_Take, SessionTaken, WithoutEntry
  <2>2. \/ pc'[s] = "Idle"
        \/ /\ pc'[s] = "FinishLogin_Validate" /\ call[s].user \in DOMAIN logins
           /\ call'[s].user = call[s].user /\ call'[s].session = logins[call[s].user]
    BY <1>6, GotoStep, AnswerStep DEF FinishLogin_Take
  <2> QED BY <1>1, <1>3, <2>1, <2>2 DEF AllowedOwned
<1>7. CASE /\ ~BeginPasskeyLogin(s) /\ ~BeginLogin_Set(s) /\ ~FinishLogin_Take(s)
  <2>1. UNCHANGED logins
    BY <1>7 DEF Step, Refuse, BeginPasskeyRegistration, Finish, FinishRegistration_Take,
                FinishRegistration_Insert, FinishLogin_Validate, FinishLogin_Update, Fail
  <2>2. pc'[s] \notin {"BeginLogin_Set", "FinishLogin_Validate"}
    <3>1. CASE Refuse(s) \/ BeginPasskeyRegistration(s)
      BY <3>1 DEF Refuse, BeginPasskeyRegistration
    <3>2. CASE Finish(s)
      BY <3>2, GotoStep DEF Finish
    <3>3. CASE FinishRegistration_Take(s)
      BY <3>3, GotoStep, AnswerStep DEF FinishRegistration_Take
    <3>4. CASE FinishLogin_Validate(s)
      BY <3>4, GotoStep, AnswerStep DEF FinishLogin_Validate
    <3>5. CASE FinishRegistration_Insert(s) \/ FinishLogin_Update(s) \/ Fail(s)
      BY <3>5, AnswerStep DEF FinishRegistration_Insert, FinishLogin_Update, Fail, AnswerWritten
    <3> QED BY <1>7, <3>1, <3>2, <3>3, <3>4, <3>5 DEF Step
  <2> QED BY <1>1, <1>3, <2>1, <2>2 DEF AllowedOwned
<1> QED BY <1>4, <1>5, <1>6, <1>7

\* What the slot that validates a login knows.
LEMMA ValidatedByOwner ==
  ASSUME TypeOK, SessionsIssued, ResponsesHeld, AllowedOwned,
         NEW s \in Slots, pc[s] = "FinishLogin_Validate", ValidLogin(call[s])
  PROVE  LET m == call[s].response
         IN /\ m \in responses
            /\ m.key \in DOMAIN credential /\ credential[m.key].user = call[s].user
            /\ issued[m.challenge].kind = "get" /\ issued[m.challenge].user = call[s].user
<1> DEFINE m == call[s].response
<1>1. m \in responses
  BY DEF ResponsesHeld, FinishSteps, ValidLogin, Verified
<1>2. m.key \in Owned(call[s].user)
  BY DEF AllowedOwned, ValidLogin
<1>3. m.key \in DOMAIN credential /\ credential[m.key].user = call[s].user
  BY <1>2 DEF Owned
<1>4. GetFor(m.challenge, call[s].user, call[s].session.allowed)
  BY DEF SessionsIssued, ValidLogin, Verified
<1> QED
  BY <1>1, <1>3, <1>4 DEF GetFor

LEMMA OwnersKept ==
  ASSUME Typed, Sessions, Owners, NEW s \in Slots, Step(s)
  PROVE  Owners'
<1>0. TypeOK
  BY DEF Typed
<1>1. \A t \in Slots \ {s} : pc'[t] = pc[t] /\ call'[t] = call[t]
  BY <1>0, OthersStand
<1>2. /\ UNCHANGED responses
      /\ \A c \in DOMAIN issued : c \in DOMAIN issued' /\ issued'[c] = issued[c]
      /\ \A k \in DOMAIN credential : /\ k \in DOMAIN credential'
                                      /\ credential'[k].user = credential[k].user
                                      /\ credential'[k].eligible = credential[k].eligible
  BY <1>0, SlotKeepsPast
<1>3. \A m \in responses : m.challenge \in DOMAIN issued
  BY <1>0, IssuedAreChallenges
<1>4. ResponsesHeld'
  BY <1>0, <1>1, <1>2, HoldsResponse DEF Owners, ResponsesHeld
<1>6. AllowedOwned'
  BY <1>0, AllowedOwnedKept DEF Owners
<1>7. LoginByOwner'
  <2>1. \A t \in Slots \ {s} : pc'[t] = "FinishLogin_Update" =>
          LET m == call'[t].response
          IN /\ m \in responses'
             /\ m.key \in DOMAIN credential' /\ credential'[m.key].user = call'[t].user
             /\ issued'[m.challenge].kind = "get" /\ issued'[m.challenge].user = call'[t].user
    BY <1>1, <1>2, <1>3 DEF Owners, LoginByOwner
  <2>2. CASE FinishLogin_Validate(s) /\ ValidLogin(call[s])
    <3>1. call'[s].response = call[s].response /\ call'[s].user = call[s].user
      BY <1>0, <2>2, GotoStep DEF FinishLogin_Validate
    <3>2. LET m == call[s].response
          IN /\ m \in responses
             /\ m.key \in DOMAIN credential /\ credential[m.key].user = call[s].user
             /\ issued[m.challenge].kind = "get" /\ issued[m.challenge].user = call[s].user
      BY <1>0, <2>2, ValidatedByOwner DEF Sessions, Owners, FinishLogin_Validate
    <3> QED BY <1>2, <1>3, <2>1, <3>1, <3>2 DEF LoginByOwner
  <2>3. CASE ~(FinishLogin_Validate(s) /\ ValidLogin(call[s]))
    <3>1. pc'[s] # "FinishLogin_Update"
      <4>1. CASE Refuse(s) \/ BeginPasskeyRegistration(s)
        BY <4>1 DEF Refuse, BeginPasskeyRegistration
      <4>2. CASE BeginPasskeyLogin(s)
        BY <1>0, <4>2, GotoStep, AnswerStep DEF BeginPasskeyLogin
      <4>7. CASE Finish(s)
        BY <1>0, <4>7, GotoStep DEF Finish
      <4>3. CASE FinishRegistration_Take(s)
        BY <1>0, <4>3, GotoStep, AnswerStep DEF FinishRegistration_Take
      <4>4. CASE FinishLogin_Take(s)
        BY <1>0, <4>4, GotoStep, AnswerStep DEF FinishLogin_Take
      <4>5. CASE FinishLogin_Validate(s)
        BY <1>0, <2>3, <4>5, AnswerStep DEF FinishLogin_Validate
      <4>6. CASE BeginLogin_Set(s) \/ FinishRegistration_Insert(s) \/ FinishLogin_Update(s) \/ Fail(s)
        BY <1>0, <4>6, AnswerStep
           DEF BeginLogin_Set, FinishRegistration_Insert, FinishLogin_Update, Fail, AnswerWritten
      <4> QED BY <4>1, <4>2, <4>3, <4>4, <4>5, <4>6, <4>7 DEF Step
    <3> QED BY <2>1, <3>1 DEF LoginByOwner
  <2> QED BY <2>2, <2>3
<1> QED BY <1>4, <1>6, <1>7 DEF Owners

LEMMA OwnersNext == Typed /\ Sessions /\ Owners /\ [Next]_vars => Owners'
<1> SUFFICES ASSUME Typed, Sessions, Owners, [Next]_vars
             PROVE  Owners'
  OBVIOUS
<1>1. CASE \E s \in Slots : Step(s)
  BY <1>1, OwnersKept
<1>2. ASSUME NEW c \in DOMAIN issued, NEW k \in Keys, Sign(c, k)
      PROVE  Owners'
  <2>1. responses \subseteq responses'
    BY <1>2 DEF Sign
  <2>3. UNCHANGED <<credential, logins, issued, pc, call>>
    BY <1>2 DEF Sign
  <2>4. ResponsesHeld' /\ AllowedOwned' /\ LoginByOwner'
    BY <2>1, <2>3 DEF Owners, ResponsesHeld, AllowedOwned, LoginByOwner, Owned
  <2> QED BY <2>4 DEF Owners
<1>3. CASE Restart
  BY <1>3 DEF Restart, Owners, ResponsesHeld, AllowedOwned, LoginByOwner, FinishSteps
<1>4. CASE UNCHANGED vars
  BY <1>4 DEF vars, Owners, ResponsesHeld, AllowedOwned, LoginByOwner, Owned
<1> QED
  BY <1>1, <1>2, <1>3, <1>4 DEF Next, Step

LEMMA OwnersInit == Init => Owners
  BY DEF Init, Owners, ResponsesHeld, AllowedOwned, LoginByOwner, FinishSteps

\* Of the responses signed with any key, the account's own or not, a login is
\* accepted for an account only with one of a key of that account, to a
\* challenge drawn for a login of that account.
THEOREM LoginSafe == Spec => []LoginByOwner
<1>1. Owners => LoginByOwner
  BY DEF Owners
<1> QED
  BY <1>1, InitTyped, NextTyped, SessionsInit, SessionsNext, OwnersInit, OwnersNext, PTL DEF Spec

-----------------------------------------------------------------------------
(***************************************************************************)
(* The registrations keys were made in.                                    *)
(***************************************************************************)

\* Response m is from the registration key k was made in.
Makes(m, k) == m \in responses /\ m.key = k /\ issued[m.challenge].kind = "create"

\* A key is made once.
MadeOnce == \A m, n \in responses : Makes(m, n.key) /\ Makes(n, n.key) => m = n

\* A stored key was made, with the flag stored, in a registration of its owner
\* that was accepted, and no other stored key was.
StoredMade ==
  /\ \A k \in DOMAIN credential : \E m \in responses :
       /\ Makes(m, k)
       /\ issued[m.challenge].user = credential[k].user
       /\ m.eligible = credential[k].eligible
       /\ accepted[m.challenge] # 0
  /\ \A k, l \in DOMAIN credential : \A m, n \in responses :
       Makes(m, k) /\ Makes(n, l) /\ m.challenge = n.challenge => k = l

Made == MadeOnce /\ StoredMade

LEMMA MadeForIs ==
  ASSUME TypeOK, MadeOnce, NEW m \in responses, NEW k, Makes(m, k)
  PROVE  MadeFor(k) = m.challenge
<1> DEFINE P(c) == issued[c].kind = "create" /\ \E n \in responses : n.key = k /\ n.challenge = c
<1>1. m.challenge \in DOMAIN issued /\ P(m.challenge)
  BY IssuedAreChallenges DEF Makes
<1>2. ASSUME NEW c \in DOMAIN issued, P(c)
      PROVE  c = m.challenge
  BY <1>2 DEF MadeOnce, Makes
<1>3. (CHOOSE c \in DOMAIN issued : P(c)) = m.challenge
  <2> HIDE DEF P
  <2> QED BY <1>1, <1>2
<1> QED BY <1>3 DEF MadeFor

\* A challenge that was accepted stays so.
LEMMA AcceptedStays ==
  ASSUME TypeOK, NEW s \in Slots, Step(s)
  PROVE  \A c \in Challenges : accepted[c] # 0 => accepted'[c] # 0
<1>1. UNCHANGED accepted \/ \E c : accepted' = [accepted EXCEPT ![c] = @ + 1]
  BY InsertAdds
     DEF Step, Refuse, BeginPasskeyRegistration, BeginPasskeyLogin, BeginLogin_Set, Finish,
         FinishRegistration_Take, FinishLogin_Take, FinishLogin_Validate, FinishLogin_Update, Fail
<1>2. accepted \in [Challenges -> Nat]
  BY DEF TypeOK
<1> QED BY <1>1, <1>2

LEMMA MadeKept ==
  ASSUME Typed, Sessions, Owners, Made, NEW s \in Slots, Step(s)
  PROVE  Made'
<1>0. TypeOK
  BY DEF Typed
<1>1. /\ UNCHANGED responses
      /\ \A c \in DOMAIN issued : c \in DOMAIN issued' /\ issued'[c] = issued[c]
      /\ \A k \in DOMAIN credential : /\ k \in DOMAIN credential'
                                      /\ credential'[k].user = credential[k].user
                                      /\ credential'[k].eligible = credential[k].eligible
  BY <1>0, SlotKeepsPast
<1>2. \A m \in responses : m.challenge \in DOMAIN issued /\ m.challenge \in Challenges
  BY <1>0, IssuedAreChallenges
<1>3. \A m \in responses : \A k : Makes(m, k)' <=> Makes(m, k)
  BY <1>1, <1>2 DEF Makes
<1>4. MadeOnce'
  BY <1>1, <1>3 DEF Made, MadeOnce, Makes
<1>5. \A c \in Challenges : accepted[c] # 0 => accepted'[c] # 0
  BY <1>0, AcceptedStays
<1>6. \A k \in DOMAIN credential : \E m \in responses :
        /\ Makes(m, k) /\ issued'[m.challenge].user = credential'[k].user
        /\ m.eligible = credential'[k].eligible /\ accepted'[m.challenge] # 0
  BY <1>1, <1>2, <1>5 DEF Made, StoredMade
<1>7. CASE DOMAIN credential' = DOMAIN credential
  BY <1>1, <1>3, <1>4, <1>6, <1>7 DEF Made, StoredMade
<1>8. CASE DOMAIN credential' # DOMAIN credential
  <2> DEFINE c == call[s]
             m == c.response
  <2>1. FinishRegistration_Insert(s)
    BY <1>0, <1>8, CredentialStands, UpdateSets
  <2>2. /\ m.key \notin DOMAIN credential /\ Verified(m, "create", c.challenge)
        /\ DOMAIN credential' = DOMAIN credential \cup {m.key}
        /\ credential'[m.key].user = c.user /\ credential'[m.key].eligible = m.eligible
        /\ accepted' = [accepted EXCEPT ![c.challenge] = @ + 1]
    BY <1>0, <1>8, <2>1, InsertAdds
  <2>3. Holds(s, c.challenge) /\ CreateFor(c.challenge, c.user)
    BY <2>1 DEF FinishRegistration_Insert, Holds, Sessions, SessionsIssued
  <2>4. c.challenge \in Challenges /\ accepted[c.challenge] = 0
    BY <1>0, <2>3, HeldIssued DEF Sessions, Live
  <2>5. Makes(m, m.key) /\ m \in responses /\ m.challenge = c.challenge
    <3>1. m \in responses \cup {Unparsable}
      BY <2>1 DEF FinishRegistration_Insert, Owners, ResponsesHeld, FinishSteps
    <3> QED BY <2>2, <3>1 DEF Verified, Makes
  <2>6. accepted'[c.challenge] # 0
    <3>1. accepted \in [Challenges -> Nat]
      BY <1>0 DEF TypeOK
    <3> HIDE DEF c
    <3> QED BY <2>2, <2>4, <3>1
  <2>7. issued'[m.challenge].user = credential'[m.key].user
    BY <1>1, <2>2, <2>3, <2>5 DEF CreateFor
  <2> HIDE DEF m, c
  <2>8. \A n \in responses : Makes(n, m.key) => n = m
    BY <2>5 DEF Made, MadeOnce
  <2>9. \A k \in DOMAIN credential : \A n \in responses : Makes(n, k) => accepted[n.challenge] # 0
    BY DEF Made, MadeOnce, StoredMade, Makes
  <2>10. \A k \in DOMAIN credential : \A n \in responses : Makes(n, k) => n.challenge # m.challenge
    BY <2>4, <2>5, <2>9
  <2>11. \A k, l \in DOMAIN credential' : \A n, r \in responses :
           Makes(n, k) /\ Makes(r, l) /\ n.challenge = r.challenge => k = l
    BY <2>2, <2>8, <2>10 DEF Made, StoredMade
  <2>12. \A k \in DOMAIN credential' : \E n \in responses :
        /\ Makes(n, k) /\ issued'[n.challenge].user = credential'[k].user
        /\ n.eligible = credential'[k].eligible /\ accepted'[n.challenge] # 0
    BY <1>6, <2>2, <2>5, <2>6, <2>7
  <2> QED BY <1>1, <1>3, <1>4, <2>11, <2>12 DEF Made, StoredMade
<1> QED BY <1>7, <1>8

LEMMA MadeNext == Typed /\ Sessions /\ Owners /\ Made /\ [Next]_vars => Made'
<1> SUFFICES ASSUME Typed, Sessions, Owners, Made, [Next]_vars
             PROVE  Made'
  OBVIOUS
<1>1. CASE \E s \in Slots : Step(s)
  BY <1>1, MadeKept
<1>2. ASSUME NEW c \in DOMAIN issued, NEW k \in Keys, Sign(c, k)
      PROVE  Made'
  <2>1. PICK n, e : responses' = responses \cup {[challenge |-> c, key |-> k, eligible |-> e, count |-> n]}
    BY <1>2 DEF Sign
  <2> DEFINE new == [challenge |-> c, key |-> k, eligible |-> e, count |-> n]
  <2>2. UNCHANGED <<credential, issued, accepted>>
    BY <1>2 DEF Sign
  <2>3. issued[c].kind = "create" => \A m \in responses : m.key # k
    BY <1>2 DEF Sign, SignedWith
  <2>4. new.challenge = c /\ new.key = k /\ responses' = responses \cup {new}
    BY <2>1
  <2> HIDE DEF new
  <2>5. \A m \in responses : \A j : Makes(m, j)' <=> Makes(m, j)
    BY <2>2, <2>4 DEF Makes
  <2>6. \A j : Makes(new, j)' => j = k /\ \A m \in responses : m.key # k
    BY <2>2, <2>3, <2>4 DEF Makes
  <2>7. MadeOnce'
    BY <2>4, <2>5, <2>6 DEF Made, MadeOnce, Makes
  <2>8. \A j \in DOMAIN credential : \E m \in responses : m.key = j
    BY DEF Made, StoredMade, Makes
  <2>9. \A j \in DOMAIN credential : ~Makes(new, j)'
    BY <2>6, <2>8
  <2>10. StoredMade'
    BY <2>2, <2>4, <2>5, <2>9 DEF Made, StoredMade
  <2> QED BY <2>7, <2>10 DEF Made
<1>3. CASE UNCHANGED <<credential, issued, responses, accepted>>
  BY <1>3 DEF Made, MadeOnce, StoredMade, Makes
<1> QED
  BY <1>1, <1>2, <1>3 DEF Next, Step, Restart, vars

LEMMA MadeInit == Init => Made
  BY DEF Init, Made, MadeOnce, StoredMade

\* A stored key belongs to the account that asked for the registration it was
\* made in, and no registration stores two keys.
THEOREM KeysSafe == Spec => []KeysAnswerTheirRegistration
<1>1. Typed /\ Made => KeysAnswerTheirRegistration
  <2> SUFFICES ASSUME Typed, Made
               PROVE  KeysAnswerTheirRegistration
    OBVIOUS
  <2>1. \A k \in DOMAIN credential : \E m \in responses :
          /\ Makes(m, k) /\ MadeFor(k) = m.challenge
          /\ issued[m.challenge].user = credential[k].user
    BY MadeForIs DEF Typed, Made, StoredMade
  <2>2. \A k, l \in DOMAIN credential : MadeFor(k) = MadeFor(l) => k = l
    BY <2>1 DEF Made, StoredMade
  <2> QED BY <2>1, <2>2 DEF KeysAnswerTheirRegistration, IsInjective
<1> QED
  BY <1>1, InitTyped, NextTyped, SessionsInit, SessionsNext, OwnersInit, OwnersNext,
     MadeInit, MadeNext, PTL DEF Spec

\* A response to the challenge of the session taken with it, by a key that was
\* asked for and whose BackupEligible flag is what it was, is valid, whatever
\* was registered or logged in with since the begin.
THEOREM AnswerSafe == Spec => []AnswerToSessionIsValid
<1>1. Typed /\ Sessions /\ Owners /\ Made => AnswerToSessionIsValid
  <2> SUFFICES ASSUME Typed, Sessions, Owners, Made, NEW s \in Slots,
                      pc[s] = "FinishLogin_Validate",
                      call[s].response # Unparsable,
                      call[s].response.challenge = call[s].session.challenge,
                      call[s].response.key \in issued[call[s].response.challenge].allowed,
                      FlagKept(call[s].response)
               PROVE  ValidLogin(call[s])
    BY DEF AnswerToSessionIsValid
  <2> DEFINE m == call[s].response
             keys == call[s].session.allowed
  <2>1. GetFor(m.challenge, call[s].user, keys)
    BY DEF Sessions, SessionsIssued
  <2>2. m.challenge \in DOMAIN issued /\ issued[m.challenge].kind = "get" /\ m.key \in keys
    BY <2>1 DEF GetFor
  <2>3. keys \subseteq Owned(call[s].user)
    BY DEF Owners, AllowedOwned
  <2>4. m.key \in DOMAIN credential
    BY <2>2, <2>3 DEF Owned
  <2>5. PICK r \in responses : Makes(r, m.key) /\ r.eligible = credential[m.key].eligible
    BY <2>4 DEF Made, StoredMade
  <2>6. m.eligible = credential[m.key].eligible
    BY <2>5 DEF FlagKept, Makes
  <2> QED BY <2>2, <2>3, <2>6 DEF ValidLogin, Verified
<1> QED
  BY <1>1, InitTyped, NextTyped, SessionsInit, SessionsNext, OwnersInit, OwnersNext,
     MadeInit, MadeNext, PTL DEF Spec

=============================================================================
