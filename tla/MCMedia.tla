------------------------------ MODULE MCMedia ------------------------------
(* Instance of Media for TLC: one view that is given two pictures, a video *)
(* and an item without an address in any order, and three files of which   *)
(* two have the same name.                                                 *)
EXTENDS Media

MCKind == [photo |-> "picture", poster |-> "picture", clip |-> "video", blank |-> "none"]
MCItems == DOMAIN MCKind
MCName == [plan |-> "a.pdf", notice |-> "a.pdf", map |-> "b.pdf"]
MCFiles == DOMAIN MCName
=============================================================================
