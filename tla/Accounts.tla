------------------------------ MODULE Accounts ------------------------------
(***************************************************************************)
(* The account service: SignUp, Login and Logout of                        *)
(* internal/handlers/user/v1/auth.go, GetUser, UpdatePassword and          *)
(* GetAPIKey of internal/handlers/user/v1/user.go, over the user table and *)
(* the tokens of internal/auth.                                            *)
(*                                                                         *)
(* A token is a signed copy of the user's row as it was when the token was *)
(* issued, the password hash included; the server keeps no record of it.   *)
(* tokens is the set of copies that still verify somewhere in the world.   *)
(* A hash is represented by the password it was made from; what bcrypt's   *)
(* comparison tells of it is that password's Digest.                       *)
(***************************************************************************)
EXTENDS Rowids

CONSTANTS
  Names,       \* user names that pass the request validation
  Passwords,   \* passwords that pass it
  Unhashable,  \* those too long for bcrypt.GenerateFromPassword
  Digest,      \* password -> the 72 bytes bcrypt mixes of it and a trailing NUL, repeated
  Slots,       \* the goroutines serving requests
  MaxId        \* bound: the largest row id

ASSUME AccountsConstants ==
  /\ Unhashable \subseteq Passwords
  /\ DOMAIN Digest = Passwords
  /\ MaxId \in Nat

VARIABLES
  users,   \* the user table: id -> row
  tokens,  \* the claims of the tokens that verify
  pc,      \* what each slot does next
  call,    \* the request each slot serves
  reply,   \* the code of the last answer of each slot
  past,    \* history: the passwords each account has had
  raced    \* history: the slots whose check for a name a later insert overtook

vars == <<users, tokens, pc, call, reply, past, raced>>

Ids == 1 .. MaxId
Row == [name : Names, password : Passwords]
Claims == [id : Ids, name : Names, password : Passwords]

Calls ==
  [op : {"Login"}, name : Names, password : Passwords]
  \cup [op : {"SignUp"}, name : Names, password : Passwords, confirmed : BOOLEAN]
  \cup [op : {"UpdatePassword"}, user : Claims, old : Passwords, new : Passwords,
        confirmed : BOOLEAN]
  \cup [op : {"GetAPIKey"}, user : Claims, password : Passwords, confirmed : BOOLEAN]

NoCall == [op |-> "None"]
Codes == {"None", "OK", "Unauthenticated", "PermissionDenied", "NotFound",
          "InvalidArgument", "AlreadyExists", "Internal"}

-----------------------------------------------------------------------------
\* WHERE username = ?
ByName(n) == {i \in DOMAIN users : users[i].name = n}

\* Fault: the lookup answers the last of several rows.
ResolveLast(n) == Max(ByName(n))

\* The first row of the lookup, which reads the table in the order of the ids.
Resolve(n) == Min(ByName(n))

\* Fault: the token has no subject.
ClaimsWithoutName(i) == [id |-> i, password |-> users[i].password]

\* The claims of a token for account i: its row as it is now.
ClaimsOf(i) == [id |-> i, name |-> users[i].name, password |-> users[i].password]

\* User.Validate: against the hash in the user at hand, which for a user taken
\* from a token is the hash the token carries.  The comparison, unlike the making
\* of a hash, has no limit on the length: bytes past the 72nd are not
\* looked at (blowfish/block.go:28-41).
Validate(user, password) == Digest[user.password] = Digest[password]

Answer(s, code) ==
  /\ pc' = [pc EXCEPT ![s] = "Idle"]
  /\ call' = [call EXCEPT ![s] = NoCall]
  /\ reply' = [reply EXCEPT ![s] = code]

\* The answer of a statement that has taken effect.
AnswerWritten(s) == \E code \in {"OK", "Internal"} : Answer(s, code)

-----------------------------------------------------------------------------
\* A request reaches its handler.  The interceptor has put the claims of a token
\* that verifies in its context, or nothing.
Begin(s) ==
  /\ pc[s] = "Idle"
  /\ \E c \in Calls :
       /\ c.op \in {"UpdatePassword", "GetAPIKey"} => c.user \in tokens
       /\ pc' = [pc EXCEPT ![s] = c.op]
       /\ call' = [call EXCEPT ![s] = c]
       /\ reply' = [reply EXCEPT ![s] = "None"]
  /\ UNCHANGED <<users, tokens, past, raced>>

\* GetUser, UpdatePassword and GetAPIKey without a user in the context.
Refuse(s) ==
  /\ pc[s] = "Idle"
  /\ reply' = [reply EXCEPT ![s] = "Unauthenticated"]
  /\ UNCHANGED <<users, tokens, pc, call, past, raced>>

\* GetUser answers the claims; Logout tells the browser to drop its cookie.
\* Neither changes anything the server keeps, the token included.
Echo(s) ==
  /\ pc[s] = "Idle"
  /\ reply' = [reply EXCEPT ![s] = "OK"]
  /\ UNCHANGED <<users, tokens, pc, call, past, raced>>

Login(s) ==
  LET c == call[s]
  IN /\ pc[s] = "Login"
     /\ \/ /\ ByName(c.name) = {}
           /\ Answer(s, "NotFound")
           /\ UNCHANGED tokens
        \/ /\ ByName(c.name) # {}
           /\ ~Validate(users[Resolve(c.name)], c.password)
           /\ Answer(s, "PermissionDenied")
           /\ UNCHANGED tokens
        \/ /\ ByName(c.name) # {}
           /\ Validate(users[Resolve(c.name)], c.password)
           /\ Answer(s, "OK")
           /\ tokens' = tokens \cup {ClaimsOf(Resolve(c.name))}
     /\ UNCHANGED <<users, past, raced>>

\* Fault: the check for the name is left out.
SignUp_Unchecked(s) ==
  /\ pc[s] = "SignUp"
  /\ pc' = [pc EXCEPT ![s] = "SignUp_Insert"]
  /\ UNCHANGED <<users, tokens, call, reply, past, raced>>

\* The look at the table that is to keep user names unique, and the checks
\* that follow it before the row is written.
SignUp(s) ==
  LET c == call[s]
  IN /\ pc[s] = "SignUp"
     /\ IF ByName(c.name) # {} THEN Answer(s, "AlreadyExists")
        ELSE IF ~c.confirmed THEN Answer(s, "InvalidArgument")
        ELSE IF c.password \in Unhashable THEN Answer(s, "Internal")
        ELSE pc' = [pc EXCEPT ![s] = "SignUp_Insert"] /\ UNCHANGED <<call, reply>>
     /\ UNCHANGED <<users, tokens, past, raced>>

SignUp_Insert(s) ==
  LET c == call[s]
      id == NextId(users)
  IN /\ pc[s] = "SignUp_Insert"
     /\ id <= MaxId
     /\ users' = WithRow(users, id, [name |-> c.name, password |-> c.password])
     /\ past' = WithRow(past, id, {c.password})
     /\ raced' = (raced \cup {t \in Slots : pc[t] = "SignUp_Insert" /\ call[t].name = c.name})
                 \ {s}
     /\ AnswerWritten(s)
     /\ UNCHANGED tokens

\* Fault: the password is set before it is checked.
UpdatePassword_Unchecked(s) ==
  /\ pc[s] = "UpdatePassword"
  /\ pc' = [pc EXCEPT ![s] = "UpdatePassword_Write"]
  /\ UNCHANGED <<users, tokens, call, reply, past, raced>>

UpdatePassword(s) ==
  LET c == call[s]
  IN /\ pc[s] = "UpdatePassword"
     /\ IF ~Validate(c.user, c.old) THEN Answer(s, "PermissionDenied")
        ELSE IF ~c.confirmed THEN Answer(s, "InvalidArgument")
        ELSE IF c.new \in Unhashable THEN Answer(s, "Internal")
        ELSE pc' = [pc EXCEPT ![s] = "UpdatePassword_Write"] /\ UNCHANGED <<call, reply>>
     /\ UNCHANGED <<users, tokens, past, raced>>

\* UPDATE ... WHERE id = ? RETURNING; no row is ever deleted.
UpdatePassword_Write(s) ==
  LET c == call[s]
  IN /\ pc[s] = "UpdatePassword_Write"
     /\ c.user.id \in DOMAIN users
     /\ users' = [users EXCEPT ![c.user.id].password = c.new]
     /\ past' = [past EXCEPT ![c.user.id] = @ \cup {c.new}]
     /\ AnswerWritten(s)
     /\ UNCHANGED <<tokens, raced>>

\* A new token with the claims of the one presented.
GetAPIKey(s) ==
  LET c == call[s]
  IN /\ pc[s] = "GetAPIKey"
     /\ IF ~Validate(c.user, c.password) THEN Answer(s, "PermissionDenied") /\ UNCHANGED tokens
        ELSE IF ~c.confirmed THEN Answer(s, "InvalidArgument") /\ UNCHANGED tokens
        ELSE Answer(s, "OK") /\ tokens' = tokens \cup {c.user}
     /\ UNCHANGED <<users, past, raced>>

\* A statement fails without effect.
Fail(s) ==
  /\ pc[s] \in {"Login", "SignUp", "SignUp_Insert", "UpdatePassword_Write"}
  /\ Answer(s, "Internal")
  /\ raced' = raced \ {s}
  /\ UNCHANGED <<users, tokens, past>>

\* Eight hours after a login, 24 after a key was asked for.
Expire(t) ==
  /\ t \in tokens
  /\ tokens' = tokens \ {t}
  /\ UNCHANGED <<users, pc, call, reply, past, raced>>

-----------------------------------------------------------------------------
Init ==
  /\ users = << >>
  /\ tokens = {}
  /\ pc = [s \in Slots |-> "Idle"]
  /\ call = [s \in Slots |-> NoCall]
  /\ reply = [s \in Slots |-> "None"]
  /\ past = << >>
  /\ raced = {}

Next ==
  \/ \E s \in Slots :
       \/ Begin(s) \/ Refuse(s) \/ Echo(s) \/ Login(s) \/ SignUp(s) \/ SignUp_Insert(s)
       \/ UpdatePassword(s) \/ UpdatePassword_Write(s) \/ GetAPIKey(s) \/ Fail(s)
  \/ \E t \in tokens : Expire(t)

Spec == Init /\ [][Next]_vars

-----------------------------------------------------------------------------
(***************************************************************************)
(* Properties                                                              *)
(***************************************************************************)
Statements == {"Login", "SignUp", "SignUp_Insert", "UpdatePassword", "UpdatePassword_Write",
               "GetAPIKey"}
OpAt == [p \in Statements |-> CASE p = "SignUp_Insert" -> "SignUp"
                                [] p = "UpdatePassword_Write" -> "UpdatePassword"
                                [] OTHER -> p]

\* Every variable has its type, and a slot holds a request of the kind its next
\* step belongs to.
TypeOK ==
  /\ DOMAIN users \subseteq Ids
  /\ users \in [DOMAIN users -> Row]
  /\ past \in [DOMAIN users -> SUBSET Passwords]
  /\ tokens \subseteq Claims
  /\ pc \in [Slots -> Statements \cup {"Idle"}]
  /\ call \in [Slots -> Calls \cup {NoCall}]
  /\ \A s \in Slots : IF pc[s] = "Idle" THEN call[s] = NoCall ELSE call[s].op = OpAt[pc[s]]
  /\ reply \in [Slots -> Codes]
  /\ raced \subseteq {s \in Slots : pc[s] = "SignUp_Insert"}

\* The claims that are anywhere in the system: in tokens and in requests.
InUse == tokens \cup {call[s].user : s \in {t \in Slots : pc[t] \in
                        {"UpdatePassword", "UpdatePassword_Write", "GetAPIKey"}}}

\* The claims of every token, however old, name an account that exists, under
\* its name, as the account that name resolves to, and with a password that
\* account has had (auth.go:106-144 trusts all of it without a look at the
\* table).
HasAccount(t) ==
  /\ t.id \in DOMAIN users
  /\ users[t.id].name = t.name
  /\ \A i \in DOMAIN users : users[i].name = t.name => t.id <= i
  /\ t.password \in past[t.id]

ClaimsHaveAccount == \A t \in InUse : HasAccount(t)

\* Once a name resolves to an account it resolves to that account for ever:
\* no sign-up takes a name over, not even one that raced the first
\* (auth.go:82-95).
NameKeepsAccount ==
  [][\A n \in Names : ByName(n) # {} => ByName(n)' # {} /\ Resolve(n)' = Resolve(n)]_vars

\* A second row for a name is written only by a SignUp whose check was
\* overtaken by the insert of that name (auth.go:65-83).
DuplicateNeedsRace ==
  [][\A i \in DOMAIN users' \ DOMAIN users :
       ByName(users'[i].name) # {} =>
         \E s \in raced : pc[s] = "SignUp_Insert" /\ pc'[s] = "Idle"
                         /\ call[s].name = users'[i].name]_vars

\* The password of an account changes only by an UpdatePassword for that
\* account whose caller has shown a password that bcrypt cannot tell from one the
\* account has had (user.go:61-69), and never to one bcrypt refuses to hash.
PasswordChangedByHolder ==
  [][\A i \in DOMAIN users :
       users'[i] # users[i] =>
         /\ users'[i].password \notin Unhashable
         /\ \E s \in Slots : /\ pc[s] = "UpdatePassword_Write" /\ pc'[s] = "Idle"
                             /\ call[s].user.id = i
                             /\ \E p \in past[i] : Digest[call[s].old] = Digest[p]]_vars

-----------------------------------------------------------------------------
(***************************************************************************)
(* What the source says and the code does not do.                          *)
(***************************************************************************)

\* handlers/user/v1/auth.go:64 "Check if user already exists": no two accounts
\* have the same name.
NamesUnique ==
  \A i, j \in DOMAIN users : users[i].name = users[j].name => i = j

=============================================================================
