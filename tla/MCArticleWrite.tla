--------------------------- MODULE MCArticleWrite ---------------------------
(* TLC instances of ArticleWrite: two files are enough for one upload to   *)
(* overtake or fail beside another, two taps for a retry.                  *)
EXTENDS ArticleWrite

CONSTANTS f1, f2
=============================================================================
