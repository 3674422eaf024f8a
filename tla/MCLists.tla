------------------------------ MODULE MCLists -------------------------------
(* Instance of Lists for TLC: two screens, one of which may be left with   *)
(* its request unanswered while the other is used.                         *)
EXTENDS Lists
=============================================================================
