----------------------------- MODULE MCFactory -----------------------------
(***************************************************************************)
(* Small instances of Factory for TLC.                                     *)
(***************************************************************************)
EXTENDS Factory

CONSTANT a  \* the value of the columns that are neither key nor link

\* Every new user is to have a file.
SomeBaseMods ==
  [t \in Tables |->
     [c \in Range(Relations(t)) |-> IF t = "user" /\ c = "file" THEN <<1>> ELSE <<>>]]

\* A user and its picture.
SomeTables ==
  {[t \in Tables |->
      CASE t = "user" -> <<("username" :> a) @@ ("profile_picture_id" :> 1)>>
        [] t = "file" -> <<("name" :> a) @@ ("user_id" :> 1)>>
        [] OTHER -> <<>>]}
============================================================================
