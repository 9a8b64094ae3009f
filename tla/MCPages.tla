------------------------------- MODULE MCPages -------------------------------
(***************************************************************************)
(* Small instances of Pages for TLC.                                       *)
(***************************************************************************)
EXTENDS Pages, TLC

CONSTANTS ann, bob, a, b, f, g, p, q

OwnerOf == a :> ann @@ b :> bob

Get(path, cookies) ==
  [path |-> path, method |-> "GET", cookies |-> cookies, bearer |-> NoToken,
   data |-> NoData]

CookieLists == {<<>>, <<a>>, <<b, a>>}

Views ==
  {Get(path, cookies) : path \in {<<"">>, <<"auth">>, <<"file", f>>}, cookies \in CookieLists}
  \cup {Get(<<"_app">>, <<>>), Get(<<"file">>, <<a>>), Get(<<"file", "x">>, <<a>>),
        Get(<<"file", g>>, <<b>>), [Get(<<"file", f>>, <<a>>) EXCEPT !.method = "POST"]}

CallOf(service, procedure, cookies, bearer, data) ==
  [path |-> <<"grpc", service, procedure>>, method |-> "POST",
   cookies |-> cookies, bearer |-> bearer, data |-> data]

Calls ==
  {CallOf("UserService", "GetUser", cookies, b, NoData) : cookies \in CookieLists}
  \cup {CallOf("UserService", "UpdateProfilePicture", <<a>>, NoToken, data) :
          data \in {q, NoData}}
  \cup {CallOf("UserService", "UpdateProfilePicture", <<b>>, a, p),
        CallOf("AuthService", "Login", <<a>>, NoToken, NoData),
        CallOf("ItemService", "GetItems", <<>>, a, NoData),
        CallOf("ItemService", "Login", <<a>>, NoToken, NoData)}

ViewsAndCalls == Views \cup Calls

\* Each has a file; bob has none; ann has two, which the table allows.
SomeFiles ==
  LET Of(u) == [user |-> u, data |-> p]
  IN  {f :> Of(ann) @@ g :> Of(bob), f :> Of(ann), f :> Of(ann) @@ g :> Of(ann)}
==============================================================================
