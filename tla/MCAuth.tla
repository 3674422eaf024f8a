------------------------------- MODULE MCAuth -------------------------------
(* TLC instances of Auth: two numbers, one of them a test number, so that  *)
(* the phone can change under an unanswered check; two requests at a time. *)
EXTENDS Auth

CONSTANTS p1, p2
=============================================================================
