---------------------------- MODULE SelectedList ----------------------------
(***************************************************************************)
(* What a screen with one list promises, whether its tabs share the list   *)
(* (BoardList, Parking) or every screen has its own (Lists).  The list is  *)
(* emptied to be asked for; then rows of what is selected arrive at its    *)
(* end, once or page by page; and it never changes with nothing asked for. *)
(* A resident who asks for another list over an unanswered request crosses *)
(* its own requests: nothing is promised then until the list is emptied    *)
(* with nothing unanswered.                                                *)
(***************************************************************************)
EXTENDS Naturals, Sequences

CONSTANTS
    Of(_),      \* what a row was asked for
    Paged       \* the selections whose rows come page by page

VARIABLES
    selection,  \* what is selected: a tab, a month
    shown,      \* the rows of the list
    waiting,    \* a request of the list is unanswered
    crossed     \* the list was asked for over an unanswered request

vars == <<selection, shown, waiting, crossed>>

Init == shown = <<>> /\ ~crossed

(* The list is emptied, for the selection before or another.               *)
Ask ==
    /\ shown' = <<>>
    /\ crossed' => crossed \/ waiting

(* Rows arrive, after those that are shown.                                *)
Receive ==
    /\ waiting
    /\ shown = <<>> \/ selection \in Paged
    /\ Len(shown) <= Len(shown') /\ SubSeq(shown', 1, Len(shown)) = shown
    /\ \A i \in DOMAIN shown' : Of(shown'[i]) = selection
    /\ UNCHANGED <<selection, crossed>>

(* A page is asked for, or an answer brings no rows.                       *)
Wait == UNCHANGED <<selection, shown, crossed>>

(* A list that is not emptied is asked for again or loses its selection.   *)
Cross == crossed' /\ shown' = shown

(* Answers to several requests mix, in one list.                           *)
Confused == crossed /\ crossed'

Next == Ask \/ Receive \/ Wait \/ Cross \/ Confused

Spec == Init /\ [][Next]_vars
=============================================================================
