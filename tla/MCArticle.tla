------------------------------ MODULE MCArticle ------------------------------
(***************************************************************************)
(* Two articles on a plain board, one of them on the community board and   *)
(* in a group.                                                             *)
(***************************************************************************)
EXTENDS Article

MCBoards == {"plain", "community"}
MCListing == [b \in MCBoards \cup {"group"} |-> IF b = "plain" THEN <<1, 2>> ELSE <<2>>]
=============================================================================
