----------------------------- MODULE PagesProofs ----------------------------
(***************************************************************************)
(* Proofs about the way of a request, for any number of clients, users,    *)
(* tokens and files.                                                       *)
(***************************************************************************)
EXTENDS Pages, WellFoundedInduction, TLAPS

-----------------------------------------------------------------------------
(***************************************************************************)
(* Sets of numbers.                                                        *)
(***************************************************************************)

\* A non-empty set of numbers has a smallest element.
LEMMA MinOfNaturals ==
  ASSUME NEW S \in SUBSET Nat, S # {}
  PROVE  Min(S) \in S /\ \A x \in S : Min(S) <= x
<1> DEFINE Less == OpToRel(<, Nat)
<1>1. IsWellFoundedOn(Less, Nat)
  BY NatLessThanWellFounded
<1>2. \A x, y \in Nat : y < x => <<y, x>> \in Less
  BY DEF OpToRel
<1> HIDE DEF Less
<1>3. PICK b \in S : \A k \in S : <<k, b>> \notin Less
  BY <1>1, WFMin
<1>4. ASSUME NEW k \in S  PROVE b <= k
  <2>1. k \in Nat /\ b \in Nat /\ ~(k < b)
    BY <1>2, <1>3
  <2> QED BY <2>1
<1> QED
  BY <1>4 DEF Min

-----------------------------------------------------------------------------
(***************************************************************************)
(* Whom the headers of a request stand for.                                *)
(***************************************************************************)

Headers(r) == r.cookies \in Seq(Tokens) /\ r.bearer \in Tokens \cup {NoToken}

\* The tokens of a request are those of users.
LEMMA HoldsUsers ==
  ASSUME NEW r, Headers(r)
  PROVE  Holds(r) \subseteq Users /\ NoUser \notin Holds(r)
<1>1. \A t \in Tokens : Owner[t] \in Users
  BY PagesConstants
<1>2. Holds(r) \subseteq Users
  BY <1>1 DEF Holds
<1> QED
  BY <1>2, PagesConstants

\* A token that is believed is one of a user the request holds a token of.
LEMMA BelievedHolds ==
  ASSUME live \subseteq Tokens, NEW r, Headers(r),
         NEW k \in DOMAIN (r.cookies \o <<r.bearer>>)
  PROVE  GetUserFromToken((r.cookies \o <<r.bearer>>)[k]) \in Holds(r) \cup {NoUser}
<1> DEFINE tried == r.cookies \o <<r.bearer>>
<1>1. tried[k] \in Range(tried)
  BY DEF Range
<1> HIDE DEF tried
<1>2. CASE tried[k] \in live
  <2>1. tried[k] \in Range(tried) \cap Tokens
    BY <1>1, <1>2
  <2>2. Owner[tried[k]] \in Holds(r)
    BY <2>1 DEF Holds, tried
  <2> QED
    BY <1>2, <2>2 DEF GetUserFromToken, tried
<1>3. CASE tried[k] \notin live
  BY <1>3 DEF GetUserFromToken, tried
<1> QED
  BY <1>2, <1>3

\* The first of the tokens that are believed.
LEMMA FirstBelieved ==
  ASSUME NEW r, Headers(r),
         NEW believed, believed = {k \in DOMAIN (r.cookies \o <<r.bearer>>) :
                                     (r.cookies \o <<r.bearer>>)[k] \in live},
         believed # {}
  PROVE  Min(believed) \in believed /\ \A k \in believed : Min(believed) <= k
<1>1. r.cookies \o <<r.bearer>> \in Seq(Tokens \cup {NoToken})
  BY DEF Headers
<1>2. believed \in SUBSET Nat
  BY <1>1
<1> QED
  BY <1>2, MinOfNaturals

\* A call runs as a user the request holds a token of, or as nobody.
LEMMA WrapUnaryHolds ==
  ASSUME live \subseteq Tokens, NEW r, Headers(r)
  PROVE  WrapUnary(r) \in Holds(r) \cup {NoUser}
<1> DEFINE tried == r.cookies \o <<r.bearer>>
           believed == {k \in DOMAIN tried : tried[k] \in live}
<1>1. CASE believed = {}
  BY <1>1 DEF WrapUnary
<1>2. CASE believed # {}
  <2>1. Min(believed) \in DOMAIN tried
    BY <1>2, FirstBelieved
  <2>2. GetUserFromToken(tried[Min(believed)]) \in Holds(r) \cup {NoUser}
    <3> HIDE DEF believed
    <3> QED BY <2>1, BelievedHolds
  <2> QED
    BY <1>2, <2>2 DEF WrapUnary
<1> QED
  BY <1>1, <1>2

\* So does a page.
LEMMA FirstCookieHolds ==
  ASSUME live \subseteq Tokens, NEW r, Headers(r)
  PROVE  FirstCookie(r) \in Holds(r) \cup {NoUser}
<1>1. CASE r.cookies = <<>>
  BY <1>1 DEF FirstCookie
<1>2. CASE r.cookies # <<>>
  <2>1. 1 \in DOMAIN (r.cookies \o <<r.bearer>>)
        /\ (r.cookies \o <<r.bearer>>)[1] = Head(r.cookies)
    BY <1>2 DEF Headers
  <2> QED
    BY <1>2, <2>1, BelievedHolds DEF FirstCookie
<1> QED
  BY <1>1, <1>2

\* Where the first cookie is believed, a call is from the same user.
LEMMA FirstAgrees ==
  ASSUME live \subseteq Tokens, NEW r, Headers(r), FirstCookie(r) \in Users
  PROVE  WrapUnary(r) = FirstCookie(r)
<1> DEFINE tried == r.cookies \o <<r.bearer>>
           believed == {k \in DOMAIN tried : tried[k] \in live}
<1>1. r.cookies # <<>> /\ Head(r.cookies) \in live
  BY PagesConstants DEF FirstCookie, GetUserFromToken
<1>2. tried \in Seq(Tokens \cup {NoToken}) /\ 1 \in DOMAIN tried
      /\ tried[1] = Head(r.cookies)
  BY <1>1 DEF Headers
<1>3. 1 \in believed
  BY <1>1, <1>2
<1>4. Min(believed) \in believed /\ Min(believed) <= 1
  BY <1>3, FirstBelieved
<1>5. Min(believed) = 1
  <2>1. \A k \in believed : k \in Nat /\ k >= 1
    BY <1>2
  <2> DEFINE least == Min(believed)
  <2>2. least \in Nat /\ least >= 1 /\ least <= 1
    <3> HIDE DEF believed
    <3> QED BY <1>4, <2>1
  <2> HIDE DEF least
  <2>3. least = 1
    BY <2>2
  <2> QED BY <2>3 DEF least
<1> QED
  BY <1>1, <1>2, <1>3, <1>5 DEF WrapUnary, FirstCookie

(***************************************************************************)
(* The inductive invariant: a request keeps its headers, and its user is   *)
(* one whose token is among them, or nobody.                               *)
(***************************************************************************)

Fields == {"at", "path", "method", "cookies", "bearer", "data", "user", "id"}

InFlight(r) ==
  /\ DOMAIN r = Fields
  /\ r.at \in {"sent", "guard", "serve", "call", "upload", "store"}
  /\ Headers(r)
  /\ r.user \in Holds(r) \cup {NoUser}
  /\ r.at \in {"upload", "store"} => r.user # NoUser
  /\ r.at = "store" => /\ r.id \in DOMAIN files /\ files[r.id].user = r.user
                       /\ r.data \in Data

FilesTyped ==
  /\ DOMAIN files \subseteq Ids
  /\ \A i \in DOMAIN files : files[i] \in File

Inv ==
  /\ live \subseteq Tokens
  /\ FilesTyped
  /\ embedded \in BOOLEAN
  /\ client = [c \in Clients |-> client[c]]
  /\ \A c \in Clients : client[c].at = "idle" \/ InFlight(client[c])

\* The invariant gives every variable its type.
LEMMA InvTyped == Inv => TypeOK
<1> SUFFICES ASSUME Inv  PROVE TypeOK
  OBVIOUS
<1>1. ASSUME NEW c \in Clients, client[c].at # "idle"
      PROVE  /\ client[c].at \in {"sent", "guard", "serve", "call", "upload", "store"}
             /\ client[c].user \in Users \cup {NoUser}
             /\ client[c].at \in {"upload", "store"} => client[c].user \in Users
             /\ client[c].at = "store" =>
                  client[c].id \in DOMAIN files /\ client[c].data \in Data
  BY <1>1, HoldsUsers DEF Inv, InFlight
<1> QED
  BY <1>1 DEF Inv, FilesTyped, TypeOK

\* The server starts with files and without requests.
LEMMA InitInv == Init => Inv
<1> SUFFICES ASSUME Init  PROVE Inv
  OBVIOUS
<1>1. live \subseteq Tokens /\ embedded \in BOOLEAN
  BY DEF Init
<1>2. FilesTyped
  BY PagesConstants DEF Init, FilesTyped, File
<1>3. client = [c \in Clients |-> client[c]] /\ \A c \in Clients : client[c].at = "idle"
  BY DEF Init, Idle
<1> QED
  BY <1>1, <1>2, <1>3 DEF Inv

\* A step of one request leaves the others alone, and the invariant of each
\* depends on its own record and on the users of the files.
LEMMA OneMoves ==
  ASSUME Inv, NEW c \in Clients, NEW r,
         client' = [client EXCEPT ![c] = r],
         live' = live, embedded' = embedded, files' = files,
         r.at = "idle" \/ InFlight(r)
  PROVE  Inv'
<1>1. client'[c] = r /\ \A d \in Clients \ {c} : client'[d] = client[d]
  BY DEF Inv
<1>2. \A d \in Clients : client'[d].at = "idle" \/ InFlight(client'[d])
  BY <1>1 DEF Inv
<1>3. client' = [d \in Clients |-> client'[d]]
  BY DEF Inv
<1>4. FilesTyped'
  BY DEF Inv, FilesTyped
<1>5. \A d \in Clients : InFlight(client'[d]) => InFlight(client[d])'
  BY DEF InFlight, Headers, Holds
<1> QED
  BY <1>2, <1>3, <1>4, <1>5 DEF Inv

\* An answer ends a request.
LEMMA Answered ==
  ASSUME Inv, NEW c \in Clients, NEW a, Answer(c, a), UNCHANGED <<live, files, embedded>>
  PROVE  Inv'
<1>1. Idle(a).at = "idle"
  BY DEF Idle
<1> QED
  BY <1>1, OneMoves DEF Answer

\* A request that goes on keeps its headers; only its user has to be shown.
LEMMA GoesOn ==
  ASSUME Inv, NEW c \in Clients, client[c].at # "idle",
         NEW at \in {"sent", "guard", "serve", "call", "upload"}, NEW u, Goes(c, at, u),
         u \in Holds(client[c]) \cup {NoUser}, at = "upload" => u # NoUser,
         UNCHANGED <<live, files, embedded>>
  PROVE  Inv'
<1> DEFINE r == [client[c] EXCEPT !.at = at, !.user = u]
<1>1. InFlight(client[c])
  BY DEF Inv
<1>2. DOMAIN r = Fields /\ r.at = at /\ r.user = u
      /\ r.cookies = client[c].cookies /\ r.bearer = client[c].bearer
  BY <1>1 DEF InFlight, Fields
<1>3. Holds(r) = Holds(client[c])
  BY <1>2 DEF Holds
<1>4. Headers(r)
  BY <1>1, <1>2 DEF InFlight, Headers
<1>5. InFlight(r)
  <2> HIDE DEF r
  <2> QED BY <1>2, <1>3, <1>4 DEF InFlight
<1>6. client' = [client EXCEPT ![c] = r]
  BY DEF Goes
<1> HIDE DEF r
<1> QED
  BY <1>5, <1>6, OneMoves

\* So does one that is redirected.
LEMMA Redirected ==
  ASSUME Inv, NEW c \in Clients, client[c].at # "idle", NEW path, Redirect(c, path),
         UNCHANGED <<live, files, embedded>>
  PROVE  Inv'
<1> DEFINE r == [client[c] EXCEPT !.path = path, !.method = "GET", !.at = "sent"]
<1>1. InFlight(client[c])
  BY DEF Inv
<1>2. DOMAIN r = Fields /\ r.at = "sent" /\ r.user = client[c].user
      /\ r.cookies = client[c].cookies /\ r.bearer = client[c].bearer
  BY <1>1 DEF InFlight, Fields
<1>3. Holds(r) = Holds(client[c])
  BY <1>2 DEF Holds
<1>4. Headers(r)
  BY <1>1, <1>2 DEF InFlight, Headers
<1>5. InFlight(r)
  <2> HIDE DEF r
  <2> QED BY <1>1, <1>2, <1>3, <1>4 DEF InFlight
<1>6. client' = [client EXCEPT ![c] = r]
  BY DEF Redirect
<1> HIDE DEF r
<1> QED
  BY <1>5, <1>6, OneMoves

(***************************************************************************)
(* The steps keep it.                                                      *)
(***************************************************************************)

LEMMA SendInv ==
  ASSUME Inv, NEW c \in Clients, NEW r \in Requests, Send(c, r)
  PROVE  Inv'
<1> DEFINE s == [at |-> "sent", path |-> r.path, method |-> r.method,
                 cookies |-> r.cookies, bearer |-> r.bearer, data |-> r.data,
                 user |-> NoUser, id |-> "none"]
<1>1. InFlight(s)
  BY PagesConstants DEF InFlight, Fields, Headers
<1>2. client' = [client EXCEPT ![c] = s] /\ UNCHANGED <<live, files, embedded>>
  BY DEF Send
<1> HIDE DEF s
<1> QED
  BY <1>1, <1>2, OneMoves

LEMMA RouteInv ==
  ASSUME Inv, NEW c \in Clients, Route(c)
  PROVE  Inv'
<1>1. client[c].at # "idle" /\ UNCHANGED <<live, files, embedded>>
  BY DEF Route
<1>2. \/ Redirect(c, <<"file", "">>)
      \/ \E at \in {"call", "guard"} : Goes(c, at, NoUser)
      \/ Answer(c, "not found")
  BY DEF Route
<1> QED
  BY <1>1, <1>2, Redirected, GoesOn, Answered

LEMMA WithAuthRedirectInv ==
  ASSUME Inv, NEW c \in Clients, WithAuthRedirect(c)
  PROVE  Inv'
<1> DEFINE u == FirstCookie(client[c])
<1>1. client[c].at # "idle" /\ UNCHANGED <<live, files, embedded>>
  BY DEF WithAuthRedirect
<1>2. (\E path : Redirect(c, path)) \/ Goes(c, "serve", u)
  BY DEF WithAuthRedirect
<1>3. u \in Holds(client[c]) \cup {NoUser}
  BY <1>1, FirstCookieHolds DEF Inv, InFlight
<1> HIDE DEF u
<1> QED
  BY <1>1, <1>2, <1>3, Redirected, GoesOn

LEMMA ServeInv ==
  ASSUME Inv, NEW c \in Clients, ServeClient(c) \/ ServeFile(c)
  PROVE  Inv'
<1>1. client[c].at # "idle" /\ UNCHANGED <<live, files, embedded>>
  BY DEF ServeClient, ServeFile
<1>2. (\E path : Redirect(c, path)) \/ (\E a : Answer(c, a))
  BY DEF ServeClient, ServeFile
<1> QED
  BY <1>1, <1>2, Redirected, Answered

LEMMA CallInv ==
  ASSUME Inv, NEW c \in Clients, Call(c)
  PROVE  Inv'
<1> DEFINE u == Caller(client[c])
<1>1. client[c].at # "idle" /\ UNCHANGED <<live, files, embedded>>
  BY DEF Call
<1>2. (\E a : Answer(c, a)) \/ (u # NoUser /\ Goes(c, "upload", u))
  BY DEF Call
<1>3. u \in Holds(client[c]) \cup {NoUser}
  BY <1>1, WrapUnaryHolds DEF Inv, InFlight, Caller
<1> HIDE DEF u
<1> QED
  BY <1>1, <1>2, <1>3, Answered, GoesOn

LEMMA FindPictureInv ==
  ASSUME Inv, NEW c \in Clients, FindPicture(c)
  PROVE  Inv'
<1>1. client[c].at = "upload" /\ UNCHANGED <<live, files, embedded>>
  BY DEF FindPicture
<1>2. CASE \E a : Answer(c, a)
  BY <1>1, <1>2, Answered
<1>3. ASSUME NEW i \in DOMAIN files, files[i].user = client[c].user, client[c].data \in Data,
             client' = [client EXCEPT ![c] = [@ EXCEPT !.at = "store", !.id = i]]
      PROVE  Inv'
  <2> DEFINE r == [client[c] EXCEPT !.at = "store", !.id = i]
  <2>1. InFlight(client[c])
    BY <1>1 DEF Inv
  <2>2. /\ DOMAIN r = Fields /\ r.at = "store" /\ r.id = i
        /\ r.user = client[c].user /\ r.data = client[c].data
        /\ r.cookies = client[c].cookies /\ r.bearer = client[c].bearer
    BY <2>1 DEF InFlight, Fields
  <2>3. Holds(r) = Holds(client[c]) /\ Headers(r)
    BY <2>1, <2>2 DEF InFlight, Holds, Headers
  <2>4. InFlight(r)
    <3> HIDE DEF r
    <3> QED BY <1>1, <1>3, <2>1, <2>2, <2>3 DEF InFlight
  <2>5. client' = [client EXCEPT ![c] = r]
    BY <1>3
  <2> HIDE DEF r
  <2> QED BY <1>1, <2>4, <2>5, OneMoves
<1>4. (\E a : Answer(c, a))
      \/ (/\ client[c].data \in Data
          /\ \E i \in {j \in DOMAIN files : files[j].user = client[c].user} :
               client' = [client EXCEPT ![c] = [@ EXCEPT !.at = "store", !.id = i]])
  BY DEF FindPicture
<1> QED
  BY <1>2, <1>3, <1>4

LEMMA SetProfilePictureInv ==
  ASSUME Inv, NEW c \in Clients, SetProfilePicture(c)
  PROVE  Inv'
<1>1. client[c].at = "store" /\ InFlight(client[c])
  BY DEF SetProfilePicture, Inv
<1>2. CASE Answer(c, "internal") /\ UNCHANGED files
  BY <1>2, Answered DEF SetProfilePicture
<1>3. CASE /\ files' = [files EXCEPT ![client[c].id].data = client[c].data]
           /\ Answer(c, "called")
  <2> DEFINE i == client[c].id
  <2>1. i \in DOMAIN files /\ client[c].data \in Data
    BY <1>1 DEF InFlight
  <2>2. /\ DOMAIN files' = DOMAIN files
        /\ \A j \in DOMAIN files : files'[j].user = files[j].user /\ files'[j] \in File
    BY <1>3, <2>1 DEF Inv, FilesTyped, File
  <2>3. FilesTyped'
    BY <2>2 DEF Inv, FilesTyped
  <2>4. /\ client'[c].at = "idle"
        /\ \A d \in Clients \ {c} : client'[d] = client[d]
        /\ client' = [d \in Clients |-> client'[d]]
    BY <1>3 DEF Answer, Idle, Inv
  <2>5. ASSUME NEW d \in Clients \ {c}, InFlight(client[d])  PROVE InFlight(client[d])'
    BY <2>2, <2>4, <2>5 DEF InFlight, Headers, Holds
  <2> QED
    BY <2>3, <2>4, <2>5 DEF Inv, SetProfilePicture
<1> QED
  BY <1>2, <1>3 DEF SetProfilePicture

LEMMA StepInv == Inv /\ [Next]_vars => Inv'
<1> SUFFICES ASSUME Inv, [Next]_vars  PROVE Inv'
  OBVIOUS
<1>1. ASSUME UNCHANGED <<files, embedded, client>>, live' \subseteq live  PROVE Inv'
  <2>1. FilesTyped'
    BY <1>1 DEF Inv, FilesTyped
  <2>2. \A c \in Clients : InFlight(client[c]) => InFlight(client[c])'
    BY <1>1 DEF InFlight, Headers, Holds
  <2> QED
    BY <1>1, <2>1, <2>2 DEF Inv
<1>2. CASE UNCHANGED vars
  BY <1>1, <1>2 DEF vars
<1>3. ASSUME NEW t \in Tokens, Expire(t)  PROVE Inv'
  BY <1>1, <1>3 DEF Expire
<1>4. ASSUME NEW c \in Clients, NEW r \in Requests, Send(c, r)  PROVE Inv'
  BY <1>4, SendInv
<1>5. ASSUME NEW c \in Clients, Handle(c)  PROVE Inv'
  BY <1>5, RouteInv, WithAuthRedirectInv, ServeInv, CallInv, FindPictureInv,
     SetProfilePictureInv DEF Handle
<1> QED
  BY <1>2, <1>3, <1>4, <1>5 DEF Next

\* Every request under way is one a client can have sent, with the user its
\* cookies and bearer token stand for (redirect.go:12-54, auth.go:24-58).
THEOREM Invariant == Spec => []Inv
<1> QED BY InitInv, StepInv, PTL DEF Spec

\* Type correctness.
THEOREM TypeCorrect == Spec => []TypeOK
<1> QED BY Invariant, InvTyped, PTL

(***************************************************************************)
(* Whom the pages take a client for, and whose files it is shown.          *)
(***************************************************************************)

\* The record of a client is changed only by a step of its own.
LEMMA OwnSteps ==
  ASSUME Inv, [Next]_vars, NEW c \in Clients, client'[c] # client[c]
  PROVE  (\E r \in Requests : Send(c, r)) \/ Handle(c)
<1>1. CASE UNCHANGED client
  BY <1>1
<1>2. ASSUME NEW d \in Clients, d # c  PROVE (\E r \in Requests : Send(d, r)) => client'[c] = client[c]
  BY <1>2 DEF Inv, Send
<1>3. ASSUME NEW d \in Clients, d # c  PROVE Handle(d) => client'[c] = client[c]
  BY <1>3 DEF Inv, Handle, Route, WithAuthRedirect, ServeClient, ServeFile, Call,
     FindPicture, SetProfilePicture, Goes, Answer, Redirect
<1> QED
  BY <1>1, <1>2, <1>3 DEF Next, Expire, vars

\* The pages believe whom the services would: a request that passes the guard as
\* a user does so by its first cookie, which the interceptor tries first.
THEOREM PagesAgree == Spec => PagesAndCallsAgree
<1> DEFINE Agrees ==
      \A c \in Clients :
        (client[c].at = "guard" /\ client'[c].at = "serve" /\ client'[c].user \in Users)
          => client'[c].user = WrapUnary(client[c])
<1>1. Inv /\ [Next]_vars => Agrees
  <2> SUFFICES ASSUME Inv, [Next]_vars, NEW c \in Clients, client[c].at = "guard",
                      client'[c].at = "serve", client'[c].user \in Users
               PROVE  client'[c].user = WrapUnary(client[c])
    BY DEF Agrees
  <2>1. InFlight(client[c])
    BY DEF Inv
  <2>2. WithAuthRedirect(c)
    <3>1. client'[c] # client[c]
      OBVIOUS
    <3> QED
      BY <3>1, OwnSteps DEF Handle, Send, Route, ServeClient, ServeFile, Call,
         FindPicture, SetProfilePicture
  <2>3. client'[c].user = FirstCookie(client[c])
    BY <2>1, <2>2 DEF WithAuthRedirect, Goes, Redirect, InFlight, Fields, Inv
  <2> QED
    BY <2>1, <2>3, FirstAgrees DEF InFlight, Inv
<1>2. Agrees => [Agrees]_vars
  OBVIOUS
<1> QED
  BY <1>1, Invariant, PTL DEF Spec, PagesAndCallsAgree

\* A file is shown to, and changed by, only requests with a token of its user.
THEOREM FilesOwned == Spec => FilesOfCaller
<1> DEFINE Shown ==
      \A c \in Clients :
        (client[c].at = "serve" /\ client'[c].at = "idle" /\ client'[c].answer \in Ids)
          => files[client'[c].answer].user \in Holds(client[c])
    Changed ==
      \A i \in DOMAIN files :
        files'[i] # files[i] =>
          \E c \in Clients : client[c] # client'[c] /\ files[i].user \in Holds(client[c])
<1>1. Inv /\ [Next]_vars => Shown
  <2> SUFFICES ASSUME Inv, [Next]_vars, NEW c \in Clients, client[c].at = "serve",
                      client'[c].at = "idle", client'[c].answer \in Ids
               PROVE  files[client'[c].answer].user \in Holds(client[c])
    BY DEF Shown
  <2>1. InFlight(client[c])
    BY DEF Inv
  <2>2. ServeClient(c) \/ ServeFile(c)
    <3>1. client'[c] # client[c]
      OBVIOUS
    <3> QED
      BY <3>1, OwnSteps DEF Handle, Send, Route, WithAuthRedirect, Call, FindPicture,
         SetProfilePicture
  <2>3. ASSUME NEW a, Answer(c, a)  PROVE client'[c].answer = a
    BY <2>3 DEF Answer, Idle, Inv
  <2>4. client'[c].answer \notin {"page", "not found", "method not allowed", "internal"}
    BY PagesConstants
  <2>5. ~ServeClient(c)
    BY <2>3, <2>4 DEF ServeClient
  <2>6. ASSUME NEW path  PROVE ~Redirect(c, path)
    BY <2>1 DEF Redirect, InFlight, Fields, Inv
  <2>7. client[c].user # NoUser /\ files[client'[c].answer].user = client[c].user
    BY <2>2, <2>3, <2>4, <2>5, <2>6 DEF ServeFile
  <2> QED
    BY <2>1, <2>7 DEF InFlight
<1>2. Inv /\ [Next]_vars => Changed
  <2> SUFFICES ASSUME Inv, [Next]_vars, NEW i \in DOMAIN files, files'[i] # files[i]
               PROVE  \E c \in Clients :
                        client[c] # client'[c] /\ files[i].user \in Holds(client[c])
    BY DEF Changed
  <2>1. PICK c \in Clients : SetProfilePicture(c)
    BY DEF Next, vars, Expire, Send, Handle, Route, WithAuthRedirect, ServeClient,
       ServeFile, Call, FindPicture
  <2>2. InFlight(client[c]) /\ client[c].at = "store"
    BY <2>1 DEF Inv, SetProfilePicture
  <2>3. client'[c] # client[c]
    BY <2>1, <2>2 DEF SetProfilePicture, Answer, Idle, Inv
  <2>4. i = client[c].id
    BY <2>1 DEF SetProfilePicture, Inv, FilesTyped
  <2> QED
    BY <2>2, <2>3, <2>4 DEF InFlight
<1> QED
  BY <1>1, <1>2, Invariant, PTL DEF Spec, FilesOfCaller
=============================================================================
