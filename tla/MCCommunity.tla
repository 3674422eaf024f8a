---------------------------- MODULE MCCommunity ----------------------------
(* Instance of Community for TLC: three groups, listed by number.          *)
EXTENDS Community
MCGroups == 1 .. 3
MCListing == [S \in SUBSET MCGroups |-> SetToSortSeq(S, LAMBDA a, b : a < b)]
=============================================================================
