------------------------------ MODULE Passkeys ------------------------------
(***************************************************************************)
(* Passkey registration and login: BeginPasskeyRegistration and            *)
(* FinishPasskeyRegistration of internal/handlers/user/v1/user.go,         *)
(* BeginPasskeyLogin and FinishPasskeyLogin of                             *)
(* internal/handlers/user/v1/auth.go, the session map each handler keeps   *)
(* under its mutex, the credential table, and the authenticators that      *)
(* answer the challenges.                                                  *)
(*                                                                         *)
(* A challenge is 32 random bytes; challenge c is the c-th one drawn.  A   *)
(* response is what an authenticator has signed: it may reach the server   *)
(* late, several times, under any user name and at either finish handler,  *)
(* and any key may have signed it.  One with a signature that is not of    *)
(* its key, with another account's user handle or with flags that are      *)
(* never valid is refused as one to a challenge of no session is.          *)
(* Accounts are never renamed or deleted, so an account stands for its     *)
(* name, its row id and its WebAuthn id.                                   *)
(***************************************************************************)
EXTENDS Integers, FiniteSets, Sequences, Functions

CONSTANTS
  Accounts,       \* the accounts, all signed up
  Keys,           \* the credentials authenticators can make
  Counting,       \* those whose authenticator counts its signatures
  Slots,          \* the goroutines serving requests
  MaxChallenges,  \* bound: challenges drawn
  MaxResponses    \* bound: responses signed

ASSUME PasskeysConstants ==
  /\ Counting \subseteq Keys
  /\ MaxChallenges \in Nat
  /\ MaxResponses \in Nat

VARIABLES
  credential,     \* the credential table: key -> owner, stored counter, BackupEligible
  registrations,  \* Handler.sessions: account -> challenge
  logins,         \* AuthHandler.sessions: account -> challenge and allowed keys
  issued,         \* the challenges drawn: for whom and for which ceremony
  responses,      \* what authenticators have signed
  pc,             \* what each slot does next
  call,           \* the request each slot serves, and what its handler holds
  reply,          \* the code of the last answer of each slot
  accepted,       \* history: how often each challenge was accepted
  overtaken       \* history: slots whose key was written since they read it

vars == <<credential, registrations, logins, issued, responses, pc, call, reply,
          accepted, overtaken>>

Challenges == 1 .. MaxChallenges
Counts == 0 .. MaxResponses
Response == [challenge : Challenges, key : Keys, count : Counts, eligible : BOOLEAN]
Unparsable == [challenge |-> 0]
Nothing == [op |-> "None"]

Codes == {"None", "OK", "InvalidArgument", "Unauthenticated", "Internal"}

-----------------------------------------------------------------------------
WithEntry(f, x, v) == [y \in DOMAIN f \cup {x} |-> IF y = x THEN v ELSE f[y]]
WithoutEntry(f, x) == [y \in DOMAIN f \ {x} |-> f[y]]

\* Fault: the session stays in the map.
SessionLeft(sessions, u) == sessions

\* Fault: the session is emptied, and its entry left.
SessionNil(sessions, u) == WithEntry(sessions, u, 0)

\* getSession: what is left of the map once the session of u has been taken.
SessionTaken(sessions, u) == WithoutEntry(sessions, u)

\* User.WebAuthnCredentials: WHERE user_id = ?
Owned(u) == {k \in DOMAIN credential : credential[k].user = u}

\* Fault: the response need not answer the session's challenge.
VerifiedForAnyChallenge(response, kind, challenge) ==
  /\ response # Unparsable
  /\ issued[response.challenge].kind = kind

\* A response that parses, comes from the ceremony the handler is for and
\* signs the challenge of its session.
Verified(response, kind, challenge) ==
  /\ response # Unparsable
  /\ issued[response.challenge].kind = kind
  /\ response.challenge = challenge

\* Fault: the two sides of the comparison are swapped.
ValidLoginOfAllKeys(c) ==
  /\ Verified(c.response, "get", c.session.challenge)
  /\ Owned(c.user) \subseteq c.session.allowed
  /\ c.response.key \in c.session.allowed
  /\ credential[c.response.key].eligible = c.response.eligible

\* Fault: the key is looked up among everyone's, and neither list is compared.
ValidLoginOfAnyKey(c) ==
  /\ Verified(c.response, "get", c.session.challenge)
  /\ c.response.key \in DOMAIN credential
  /\ credential[c.response.key].eligible = c.response.eligible

\* ValidateLogin: the user still owns the keys the session allows, the response
\* is signed with one of them, and its flag is the one stored with that key.
ValidLogin(c) ==
  /\ Verified(c.response, "get", c.session.challenge)
  /\ c.session.allowed \subseteq Owned(c.user)
  /\ c.response.key \in c.session.allowed
  /\ credential[c.response.key].eligible = c.response.eligible

\* Fault: the counter of the response is stored as it is.
UpdateCounterAlways(stored, count) == count

\* Authenticator.UpdateCounter: the stored counter stays where the new one is
\* not above it, and the warning that goes with this is not looked at.
UpdateCounter(stored, count) == IF count > stored THEN count ELSE stored

Goto(s, p, c) == pc' = [pc EXCEPT ![s] = p] /\ call' = [call EXCEPT ![s] = c]

Answer(s, code) ==
  /\ Goto(s, "Idle", Nothing)
  /\ reply' = [reply EXCEPT ![s] = code]

\* The answer of a statement that has taken effect.
AnswerWritten(s) == \E code \in {"OK", "Internal"} : Answer(s, code)

\* A response of a login has no attestation for the registration's parser.
RefusedRegistration(m) ==
  IF m = Unparsable \/ issued[m.challenge].kind = "get" THEN "InvalidArgument" ELSE "Internal"

\* One of a registration may bring the authenticator data the login's parser needs.
RefusedLogin(m) ==
  IF m = Unparsable THEN {"InvalidArgument"}
  ELSE {"Unauthenticated"} \cup {code \in {"InvalidArgument"} : issued[m.challenge].kind = "create"}

\* BeginRegistration and BeginLogin draw a challenge.
Draw(u, kind, keys) ==
  /\ Len(issued) < MaxChallenges
  /\ issued' = Append(issued, [user |-> u, kind |-> kind, allowed |-> keys])

-----------------------------------------------------------------------------
\* BeginPasskeyRegistration: one step, as the map is all it touches.
BeginPasskeyRegistration(s) ==
  /\ pc[s] = "Idle"
  /\ \E u \in Accounts :
       /\ Draw(u, "create", {})
       /\ registrations' = WithEntry(registrations, u, Len(issued'))
       /\ reply' = [reply EXCEPT ![s] = "OK"]
  /\ UNCHANGED <<credential, logins, responses, pc, call, accepted, overtaken>>

\* BeginPasskeyLogin: the look at the user's keys.
BeginPasskeyLogin(s) ==
  /\ pc[s] = "Idle"
  /\ \E u \in Accounts :
       IF Owned(u) = {} THEN Answer(s, "InvalidArgument")
       ELSE /\ Goto(s, "BeginLogin_Set", [op |-> "BeginLogin", user |-> u, allowed |-> Owned(u)])
            /\ reply' = [reply EXCEPT ![s] = "None"]
  /\ UNCHANGED <<credential, registrations, logins, issued, responses, accepted, overtaken>>

\* The session, over the one of an earlier begin of the same name.
BeginLogin_Set(s) ==
  LET c == call[s]
  IN /\ pc[s] = "BeginLogin_Set"
     /\ Draw(c.user, "get", c.allowed)
     /\ logins' = WithEntry(logins, c.user, [challenge |-> Len(issued'), allowed |-> c.allowed])
     /\ Answer(s, "OK")
     /\ UNCHANGED <<credential, registrations, responses, accepted, overtaken>>

\* A finish request with any response there is, or with something else.
Finish(s) ==
  /\ pc[s] = "Idle"
  /\ \E u \in Accounts, m \in responses \cup {Unparsable} :
     \E op \in {"FinishRegistration", "FinishLogin"} :
       Goto(s, op, [op |-> op, user |-> u, response |-> m])
  /\ reply' = [reply EXCEPT ![s] = "None"]
  /\ UNCHANGED <<credential, registrations, logins, issued, responses, accepted, overtaken>>

FinishRegistration_Take(s) ==
  LET c == call[s]
  IN /\ pc[s] = "FinishRegistration"
     /\ IF c.user \notin DOMAIN registrations
        THEN Answer(s, "InvalidArgument") /\ UNCHANGED registrations
        ELSE /\ registrations' = SessionTaken(registrations, c.user)
             /\ Goto(s, "FinishRegistration_Insert",
                     [op |-> c.op, user |-> c.user, response |-> c.response,
                      challenge |-> registrations[c.user]])
             /\ UNCHANGED reply
     /\ UNCHANGED <<credential, logins, issued, responses, accepted, overtaken>>

\* CreateCredential and the INSERT, for which the key has to be a new one.
FinishRegistration_Insert(s) ==
  LET c == call[s]
      m == c.response
  IN /\ pc[s] = "FinishRegistration_Insert"
     /\ IF ~Verified(m, "create", c.challenge)
        THEN /\ Answer(s, RefusedRegistration(m))
             /\ UNCHANGED <<credential, accepted>>
        ELSE /\ m.key \notin DOMAIN credential
             /\ credential' = WithEntry(credential, m.key,
                  [user |-> c.user, signCount |-> m.count, eligible |-> m.eligible])
             /\ accepted' = [accepted EXCEPT ![c.challenge] = @ + 1]
             /\ AnswerWritten(s)
     /\ UNCHANGED <<registrations, logins, issued, responses, overtaken>>

FinishLogin_Take(s) ==
  LET c == call[s]
  IN /\ pc[s] = "FinishLogin"
     /\ IF c.user \notin DOMAIN logins
        THEN Answer(s, "InvalidArgument") /\ UNCHANGED logins
        ELSE /\ logins' = SessionTaken(logins, c.user)
             /\ Goto(s, "FinishLogin_Validate",
                     [op |-> c.op, user |-> c.user, response |-> c.response,
                      session |-> logins[c.user]])
             /\ UNCHANGED reply
     /\ UNCHANGED <<credential, registrations, issued, responses, accepted, overtaken>>

\* ValidateLogin, on the user's keys as they are now.
FinishLogin_Validate(s) ==
  LET c == call[s]
      m == c.response
  IN /\ pc[s] = "FinishLogin_Validate"
     /\ IF ~ValidLogin(c)
        THEN /\ \E code \in RefusedLogin(m) : Answer(s, code)
             /\ UNCHANGED accepted
        ELSE /\ Goto(s, "FinishLogin_Update",
                     [op |-> c.op, user |-> c.user, response |-> m,
                      signCount |-> UpdateCounter(credential[m.key].signCount, m.count)])
             /\ accepted' = [accepted EXCEPT ![m.challenge] = @ + 1]
             /\ UNCHANGED reply
     /\ UNCHANGED <<credential, registrations, logins, issued, responses, overtaken>>

\* The row is read once more, for its key alone, and written.
FinishLogin_Update(s) ==
  LET c == call[s]
      key == c.response.key
  IN /\ pc[s] = "FinishLogin_Update"
     /\ credential' = [credential EXCEPT ![key].signCount = c.signCount]
     /\ overtaken' = (overtaken \cup {t \in Slots : /\ pc[t] = "FinishLogin_Update"
                                                   /\ call[t].response.key = key}) \ {s}
     /\ AnswerWritten(s)
     /\ UNCHANGED <<registrations, logins, issued, responses, accepted>>

\* The handlers' answers to a request without a user: an unknown name, or no
\* token where one is needed.
Refuse(s) ==
  /\ pc[s] = "Idle"
  /\ \E code \in {"InvalidArgument", "Unauthenticated"} : reply' = [reply EXCEPT ![s] = code]
  /\ UNCHANGED <<credential, registrations, logins, issued, responses, pc, call, accepted, overtaken>>

\* A statement fails without effect: a session that was taken by then is gone.
\* The error of the look at the keys is dropped, and the user has none.
FailCode == [FinishRegistration_Insert |-> "Internal", FinishLogin |-> "InvalidArgument",
             FinishLogin_Validate |-> "Unauthenticated", FinishLogin_Update |-> "Internal"]

Fail(s) ==
  /\ pc[s] \in DOMAIN FailCode
  /\ Answer(s, FailCode[pc[s]])
  /\ overtaken' = overtaken \ {s}
  /\ UNCHANGED <<credential, registrations, logins, issued, responses, accepted>>

\* The process ends and starts again: the table is kept, the maps are not.
Restart ==
  /\ registrations' = << >>
  /\ logins' = << >>
  /\ pc' = [s \in Slots |-> "Idle"]
  /\ call' = [s \in Slots |-> Nothing]
  /\ reply' = [s \in Slots |-> "None"]
  /\ overtaken' = {}
  /\ UNCHANGED <<credential, issued, responses, accepted>>

\* What key k has signed so far.
SignedWith(k) == {m \in responses : m.key = k}

\* An authenticator makes a new key for a registration, or signs for a login:
\* with any key there is, asked for or not, and with any BackupEligible flag.
Sign(c, k) ==
  /\ Cardinality(responses) < MaxResponses
  /\ IF issued[c].kind = "create" THEN SignedWith(k) = {} ELSE SignedWith(k) # {}
  /\ \E e \in BOOLEAN :
       responses' = responses \cup
         {[challenge |-> c, key |-> k, eligible |-> e,
           count |-> IF k \in Counting THEN Cardinality(SignedWith(k)) ELSE 0]}
  /\ UNCHANGED <<credential, registrations, logins, issued, pc, call, reply, accepted, overtaken>>

-----------------------------------------------------------------------------
Init ==
  /\ credential = << >>
  /\ registrations = << >>
  /\ logins = << >>
  /\ issued = << >>
  /\ responses = {}
  /\ pc = [s \in Slots |-> "Idle"]
  /\ call = [s \in Slots |-> Nothing]
  /\ reply = [s \in Slots |-> "None"]
  /\ accepted = [c \in Challenges |-> 0]
  /\ overtaken = {}

Next ==
  \/ \E s \in Slots :
       \/ Refuse(s) \/ BeginPasskeyRegistration(s) \/ BeginPasskeyLogin(s) \/ BeginLogin_Set(s)
       \/ Finish(s) \/ FinishRegistration_Take(s) \/ FinishRegistration_Insert(s)
       \/ FinishLogin_Take(s) \/ FinishLogin_Validate(s) \/ FinishLogin_Update(s)
       \/ Fail(s)
  \/ \E c \in DOMAIN issued, k \in Keys : Sign(c, k)
  \/ Restart

Spec == Init /\ [][Next]_vars

-----------------------------------------------------------------------------
(***************************************************************************)
(* Properties                                                              *)
(***************************************************************************)
Requests == [op : {"FinishRegistration", "FinishLogin"}, user : Accounts,
             response : Response \cup {Unparsable}]
Session == [challenge : Challenges, allowed : SUBSET Keys]

\* What a slot holds at each step.
CallAt(p, c) ==
  CASE p = "Idle" -> c = Nothing
    [] p = "BeginLogin_Set" -> c \in [op : {"BeginLogin"}, user : Accounts, allowed : SUBSET Keys]
    [] p \in {"FinishRegistration", "FinishLogin"} -> c \in Requests /\ c.op = p
    [] p = "FinishRegistration_Insert" ->
         c \in [op : {"FinishRegistration"}, user : Accounts,
                response : Response \cup {Unparsable}, challenge : Challenges]
    [] p = "FinishLogin_Validate" ->
         c \in [op : {"FinishLogin"}, user : Accounts,
                response : Response \cup {Unparsable}, session : Session]
    [] p = "FinishLogin_Update" ->
         c \in [op : {"FinishLogin"}, user : Accounts, response : Response, signCount : Counts]

Steps == {"Idle", "BeginLogin_Set", "FinishRegistration", "FinishRegistration_Insert",
          "FinishLogin", "FinishLogin_Validate", "FinishLogin_Update"}

\* Every variable has its type, and every slot holds what its next step needs.
TypeOK ==
  /\ DOMAIN credential \subseteq Keys
  /\ credential \in [DOMAIN credential -> [user : Accounts, signCount : Counts, eligible : BOOLEAN]]
  /\ DOMAIN registrations \subseteq Accounts
  /\ registrations \in [DOMAIN registrations -> DOMAIN issued]
  /\ DOMAIN logins \subseteq Accounts
  /\ logins \in [DOMAIN logins -> Session]
  /\ issued \in Seq([user : Accounts, kind : {"create", "get"}, allowed : SUBSET Keys])
  /\ Len(issued) <= MaxChallenges
  /\ responses \subseteq [challenge : DOMAIN issued, key : Keys, count : Counts, eligible : BOOLEAN]
  /\ pc \in [Slots -> Steps]
  /\ DOMAIN call = Slots
  /\ \A s \in Slots : CallAt(pc[s], call[s])
  /\ reply \in [Slots -> Codes]
  /\ accepted \in [Challenges -> Nat]
  /\ overtaken \subseteq {s \in Slots : pc[s] = "FinishLogin_Update"}

\* Of all the responses that reach the two finish handlers, late or repeated,
\* at most one is accepted for each challenge: the session goes with the first
\* finish that takes it (auth.go:198-209, user.go:216-227), and no begin puts
\* it back.
AcceptedOnce == \A c \in Challenges : accepted[c] <= 1

\* The challenge a key was made for.
MadeFor(k) == CHOOSE c \in DOMAIN issued :
                issued[c].kind = "create" /\ \E m \in responses : m.key = k /\ m.challenge = c

\* A stored key belongs to the account that asked for the registration it was
\* made in, whoever delivered it, and no registration stores two keys
\* (user.go:171-210).
KeysAnswerTheirRegistration ==
  /\ \A k \in DOMAIN credential : issued[MadeFor(k)].user = credential[k].user
  /\ IsInjective([k \in DOMAIN credential |-> MadeFor(k)])

\* Of the responses signed with any key, the account's own or not, a login is
\* accepted for an account only with one of a key of that account, to a
\* challenge drawn for a login of that account (auth.go:153-169).
LoginByOwner ==
  \A s \in Slots : pc[s] = "FinishLogin_Update" =>
    LET m == call[s].response
    IN /\ m \in responses
       /\ m.key \in DOMAIN credential /\ credential[m.key].user = call[s].user
       /\ issued[m.challenge].kind = "get" /\ issued[m.challenge].user = call[s].user

\* The flag of response m is the one its key was made with.
FlagKept(m) == \A r \in responses :
                 r.key = m.key /\ issued[r.challenge].kind = "create" => r.eligible = m.eligible

\* A response to the challenge of the session taken with it, by a key that was
\* asked for and whose BackupEligible flag is what it was, is valid, whatever
\* was registered or logged in with since the begin: only a session that was
\* replaced, taken or lost turns such a user away (auth.go:165-169).
AnswerToSessionIsValid ==
  \A s \in Slots :
    LET m == call[s].response
    IN /\ pc[s] = "FinishLogin_Validate" /\ m # Unparsable
       /\ m.challenge = call[s].session.challenge
       /\ m.key \in issued[m.challenge].allowed
       /\ FlagKept(m)
       => ValidLogin(call[s])

\* The stored counter of a key falls only when a login writes it that had read
\* it before another login wrote it (auth.go:165-184).
CounterFallsOvertaken ==
  [][\A k \in DOMAIN credential :
       credential'[k].signCount < credential[k].signCount =>
         \E s \in overtaken : call[s].response.key = k /\ pc'[s] = "Idle"]_vars

=============================================================================
