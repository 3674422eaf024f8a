----------------------------- MODULE MCSession -----------------------------
(* TLC instances of Session: two accounts, notices that differ between two *)
(* answers (one was posted in between), eight loading screens.             *)
EXTENDS Session

CONSTANTS a, b, n1, n2

TwoLists == {<<n1>>, <<n2, n1>>}
=============================================================================
