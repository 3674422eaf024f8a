----------------------------- MODULE MCParking -----------------------------
(* Instance of Parking for TLC: pages of four rows, as few as the paging   *)
(* gesture ("more than 3 rows") needs.                                     *)
EXTENDS Parking
=============================================================================
