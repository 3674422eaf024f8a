---------------------------- MODULE MCBoardList ----------------------------
(* TLC instances of BoardList: one page has more than 3 rows, so that it   *)
(* is enough to allow paging, and the board has two pages and a short      *)
(* third one past which the answers are empty.                             *)
EXTENDS BoardList
=============================================================================
