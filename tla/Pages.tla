-------------------------------- MODULE Pages --------------------------------
(***************************************************************************)
(* What a request to the server meets on its way to a handler: the routes  *)
(* of main.go, the redirect of the web interface and the interceptor of    *)
(* the services, and the handlers that nothing else models: the web        *)
(* client, the files, and the pictures users upload to them.               *)
(*                                                                         *)
(* A path is the sequence of its parts.  A client follows a redirect with  *)
(* the cookies it sent first.                                              *)
(***************************************************************************)
EXTENDS Integers, SequencesExt

CONSTANTS
  Clients,   \* those who send requests
  Users,     \* the accounts
  NoUser,    \* the user of a request that is not authenticated
  Tokens,    \* tokens the server has signed
  NoToken,   \* no bearer token
  Owner,     \* token -> the user in its claims
  Ids,       \* ids of files
  Data,      \* contents of files
  NoData,    \* what a request carries that uploads nothing
  Requests,  \* the requests a client may send
  Stored,    \* the files there may be at the start
  Faults     \* whether a statement may fail

ASSUME PagesConstants ==
  /\ Owner \in [Tokens -> Users]
  /\ NoUser \notin Users
  /\ NoToken \notin Tokens
  /\ Ids \cap {"page", "not found", "method not allowed", "internal"} = {}
  /\ \A r \in Requests : /\ r.cookies \in Seq(Tokens)
                          /\ r.bearer \in Tokens \cup {NoToken}
  /\ \A fs \in Stored : /\ DOMAIN fs \subseteq Ids
                         /\ \A i \in DOMAIN fs : fs[i] \in [user : Users, data : Data]

VARIABLES
  live,      \* the tokens that have not expired
  files,     \* id -> row of the file table
  embedded,  \* whether the web client is built in
  client     \* client -> its request and the last answer

vars == <<live, files, embedded, client>>

\* The row of a file: whose it is and what it holds.
File == [user : Users, data : Data]

(***************************************************************************)
(* The services and their procedures.                                      *)
(***************************************************************************)

UserService ==
  {"GetUser", "UpdatePassword", "GetAPIKey", "UpdateProfilePicture",
   "BeginPasskeyRegistration", "FinishPasskeyRegistration"}

AuthService ==
  {"SignUp", "Login", "Logout", "BeginPasskeyLogin", "FinishPasskeyLogin"}

ItemService == {"GetItem", "GetItems", "CreateItem", "UpdateItem", "DeleteItem"}

\* Whether a path below /grpc is that of a procedure.
IsProcedure(path) ==
  LET Has(service, procedures) == path[2] = service /\ path[3] \in procedures
  IN  \/ Has("UserService", UserService)
      \/ Has("AuthService", AuthService)
      \/ Has("ItemService", ItemService)

(***************************************************************************)
(* Who a request is from.                                                  *)
(***************************************************************************)

\* GetUserFromToken: what is signed and not expired is believed.
GetUserFromToken(t) == IF t \in live THEN Owner[t] ELSE NoUser

\* The interceptor of the services tries each cookie, then the bearer token.
WrapUnary(r) ==
  LET tried == r.cookies \o <<r.bearer>>
      believed == {k \in DOMAIN tried : tried[k] \in live}
  IN  IF believed = {} THEN NoUser ELSE GetUserFromToken(tried[Min(believed)])

\* The services for users sit behind it, the one for signing in does not.
Caller(r) == IF r.path[2] = "AuthService" THEN NoUser ELSE WrapUnary(r)

\* Fault: the redirect believes the last cookie.
LastCookie(r) ==
  IF r.cookies = <<>> THEN NoUser ELSE GetUserFromToken(Last(r.cookies))

\* The redirect looks at the first cookie only.
FirstCookie(r) ==
  IF r.cookies = <<>> THEN NoUser ELSE GetUserFromToken(Head(r.cookies))

(***************************************************************************)
(* Steps of a request.                                                     *)
(***************************************************************************)

\* A client without a request under way.
Idle(answer) == [at |-> "idle", answer |-> answer]

\* The request of c goes on at `at`, as user u.
Goes(c, at, u) ==
  client' = [client EXCEPT ![c] = [@ EXCEPT !.at = at, !.user = u]]

\* The request of c has its answer.
Answer(c, a) == client' = [client EXCEPT ![c] = Idle(a)]

\* http.Redirect, and the client's request for the new path.
Redirect(c, path) ==
  client' = [client EXCEPT
               ![c] = [@ EXCEPT !.path = path, !.method = "GET", !.at = "sent"]]

\* A client sends a request.
Send(c, r) ==
  /\ client[c].at = "idle"
  /\ client' = [client EXCEPT
       ![c] = [at |-> "sent", path |-> r.path, method |-> r.method,
               cookies |-> r.cookies, bearer |-> r.bearer, data |-> r.data,
               user |-> NoUser, id |-> "none"]]
  /\ UNCHANGED <<live, files, embedded>>

\* The mux sends /file on to the tree it stands for, and a build without a web
\* client answers that there is nothing.
Route(c) ==
  /\ client[c].at = "sent"
  /\ LET path == client[c].path
         page == path[1] \notin {"grpc", "file"}
     IN  \/ path = <<"file">> /\ Redirect(c, <<"file", "">>)
         \/ path[1] = "grpc" /\ Goes(c, "call", NoUser)
         \/ path[1] = "file" /\ path /= <<"file">> /\ Goes(c, "guard", NoUser)
         \/ page /\ embedded /\ Goes(c, "guard", NoUser)
         \/ page /\ ~embedded /\ Answer(c, "not found")
  /\ UNCHANGED <<live, files, embedded>>

\* Fault: every page asks for a login, the one to log in at too.
GuardAll(c) ==
  /\ client[c].at = "guard"
  /\ LET u == FirstCookie(client[c])
     IN  IF u /= NoUser THEN Goes(c, "serve", u) ELSE Redirect(c, <<"auth">>)
  /\ UNCHANGED <<live, files, embedded>>

\* The redirect of the web interface.
WithAuthRedirect(c) ==
  /\ client[c].at = "guard"
  /\ LET u == FirstCookie(client[c])
         login == client[c].path[1] = "auth"
         asset == client[c].path[1] \in {"_app", "favicon.png", "icon.png"}
     IN  \/ (asset \/ (login <=> u = NoUser)) /\ Goes(c, "serve", u)
         \/ login /\ u /= NoUser /\ Redirect(c, <<"">>)
         \/ ~login /\ ~asset /\ u = NoUser /\ Redirect(c, <<"auth">>)
  /\ UNCHANGED <<live, files, embedded>>

\* The file server of the web client.
ServeClient(c) ==
  /\ client[c].at = "serve"
  /\ client[c].path[1] /= "file"
  /\ Answer(c, "page")
  /\ UNCHANGED <<live, files, embedded>>

\* Fault: the file is looked for by its id alone.
ServeAnyFile(c) ==
  /\ client[c].at = "serve"
  /\ client[c].path[1] = "file"
  /\ IF client[c].path[2] \in DOMAIN files
     THEN Answer(c, client[c].path[2]) ELSE Answer(c, "not found")
  /\ UNCHANGED <<live, files, embedded>>

\* The file handler: one statement that looks for the id among the user's files.
\* A file that is not found is answered twice, of which the first status counts.
ServeFile(c) ==
  /\ client[c].at = "serve"
  /\ client[c].path[1] = "file"
  /\ LET id == client[c].path[2]
         own == {i \in DOMAIN files : files[i].user = client[c].user}
         get == client[c].user /= NoUser /\ client[c].method = "GET"
     IN  \/ client[c].user = NoUser /\ Redirect(c, <<"auth">>)
         \/ /\ client[c].user /= NoUser /\ client[c].method /= "GET"
            /\ Answer(c, "method not allowed")
         \/ get /\ id \in own /\ Answer(c, id)
         \/ get /\ id \in Ids \ own /\ Answer(c, "not found")
         \/ get /\ (id \notin Ids \/ Faults) /\ Answer(c, "internal")
  /\ UNCHANGED <<live, files, embedded>>

\* A call: the service that has the procedure, or nothing, behind the
\* interceptor.  What procedures do is in the modules of their services, but for
\* GetUser, the answer of which is who the call runs as, and the one below.
Call(c) ==
  /\ client[c].at = "call"
  /\ LET path == client[c].path
         u == Caller(client[c])
     IN  \/ ~IsProcedure(path) /\ Answer(c, "not found")
         \/ IsProcedure(path) /\ path[2] = "AuthService" /\ Answer(c, "called")
         \/ /\ IsProcedure(path) /\ path[2] /= "AuthService" /\ u = NoUser
            /\ Answer(c, "unauthenticated")
         \/ /\ IsProcedure(path) /\ u /= NoUser
            /\ \/ path[3] = "GetUser" /\ Answer(c, u)
               \/ path[3] = "UpdateProfilePicture" /\ Goes(c, "upload", u)
               \/ path[3] \notin {"GetUser", "UpdateProfilePicture"} /\ Answer(c, "called")
  /\ UNCHANGED <<live, files, embedded>>

(***************************************************************************)
(* UpdateProfilePicture and SetProfilePicture.  The statement that looks   *)
(* for the user's file answers an error when there is none, so the branch  *)
(* that inserts one is never taken.                                        *)
(***************************************************************************)

\* Fault: what is sent is taken for a picture whatever its type.
FindAnyPicture(c) ==
  /\ client[c].at = "upload"
  /\ \E i \in DOMAIN files :
       /\ files[i].user = client[c].user
       /\ client' = [client EXCEPT ![c] = [@ EXCEPT !.at = "store", !.id = i]]
  /\ UNCHANGED <<live, files, embedded>>

\* The handler looks at the type of what is sent, then for a file of the user.
FindPicture(c) ==
  /\ client[c].at = "upload"
  /\ LET own == {i \in DOMAIN files : files[i].user = client[c].user}
     IN  \/ client[c].data \notin Data /\ Answer(c, "invalid argument")
         \/ /\ client[c].data \in Data
            /\ \/ \E i \in own :
                    client' = [client EXCEPT ![c] = [@ EXCEPT !.at = "store", !.id = i]]
               \/ (own = {} \/ Faults) /\ Answer(c, "internal")
  /\ UNCHANGED <<live, files, embedded>>

\* The file found is written over by its id.
SetProfilePicture(c) ==
  /\ client[c].at = "store"
  /\ \/ /\ files' = [files EXCEPT ![client[c].id].data = client[c].data]
        /\ Answer(c, "called")
     \/ Faults /\ Answer(c, "internal") /\ UNCHANGED files
  /\ UNCHANGED <<live, embedded>>

\* Eight hours pass since a token was signed.
Expire(t) ==
  /\ t \in live
  /\ live' = live \ {t}
  /\ UNCHANGED <<files, embedded, client>>

Init ==
  /\ live = Tokens
  /\ files \in Stored
  /\ embedded \in BOOLEAN
  /\ client = [c \in Clients |-> Idle("none")]

Handle(c) ==
  \/ Route(c) \/ WithAuthRedirect(c) \/ ServeClient(c) \/ ServeFile(c)
  \/ Call(c) \/ FindPicture(c) \/ SetProfilePicture(c)

Next ==
  \/ \E c \in Clients : (\E r \in Requests : Send(c, r)) \/ Handle(c)
  \/ \E t \in Tokens : Expire(t)

\* The server goes on with a request it has, and the client follows where it is
\* sent; nobody has to send one and no token has to expire.
Fairness == \A c \in Clients : WF_vars(Handle(c))

Spec == Init /\ [][Next]_vars /\ Fairness

(***************************************************************************)
(* Properties.                                                             *)
(***************************************************************************)

\* A request holds the user of a token it came with, and the id of a file.
TypeOK ==
  /\ live \subseteq Tokens
  /\ DOMAIN files \subseteq Ids
  /\ \A i \in DOMAIN files : files[i] \in File
  /\ embedded \in BOOLEAN
  /\ \A c \in Clients :
       \/ client[c].at = "idle"
       \/ /\ client[c].at \in {"sent", "guard", "serve", "call", "upload", "store"}
          /\ client[c].user \in Users \cup {NoUser}
          /\ client[c].at \in {"upload", "store"} => client[c].user \in Users
          /\ client[c].at = "store" =>
               client[c].id \in DOMAIN files /\ client[c].data \in Data

\* The users whose tokens a request came with.
Holds(r) == {Owner[t] : t \in Range(r.cookies \o <<r.bearer>>) \cap Tokens}

\* file.go, user.go: a file is shown to, or changed by, only a request that came
\* with a token of the user whose file it is, through however many redirects and
\* whoever else's tokens it came with.
FilesOfCaller ==
  [][/\ \A c \in Clients :
          (client[c].at = "serve" /\ client'[c].at = "idle" /\ client'[c].answer \in Ids)
            => files[client'[c].answer].user \in Holds(client[c])
     /\ \A i \in DOMAIN files :
          files'[i] /= files[i] =>
            \E c \in Clients :
              client[c] /= client'[c] /\ files[i].user \in Holds(client[c])]_vars

\* redirect.go and auth.go read the same cookies by rules of their own.  They may
\* differ on whether a request has a user, never on who: whom the pages take a
\* client for is whom a call with the same headers would run as.
PagesAndCallsAgree ==
  [][\A c \in Clients :
       (client[c].at = "guard" /\ client'[c].at = "serve" /\ client'[c].user \in Users)
         => client'[c].user = WrapUnary(client[c])]_vars

\* redirect.go: a client is not sent in circles, between the login and the pages
\* behind it, whenever its token expires: each request has its answer.
RedirectsEnd ==
  \A c \in Clients : client[c].at = "sent" ~> client[c].at = "idle"

\* user.go: "SetProfilePicture sets a users profile picture."  What a user of a
\* valid token uploads is stored, when no statement fails.
PicturesStored ==
  [][\A c \in Clients :
       (client[c].at = "upload" /\ client[c].data \in Data /\ client'[c].at = "idle")
         => client'[c].answer = "called"]_vars
==============================================================================
