------------------------------ MODULE Calendar ------------------------------
(***************************************************************************)
(* The schedule screens (menus of VC_SOSIK whose name contains             *)
(* "schedule"): the calendar cell S_CALENDAR, the list of entries under it *)
(* and GET_SOSIK_L2 of P_SOSIK.                                            *)
(*                                                                         *)
(* The screen keeps three lists: OBJ_SOSIK (the entries loaded),           *)
(* OBJ_CALENDAR (the entries shown under the calendar) and the cell's copy *)
(* of OBJ_SOSIK, from which a day is looked up and its dot is drawn.  The  *)
(* copy is renewed only when the table draws the cell again, after the     *)
(* handler that called reloadData has returned.  What interleaves are the  *)
(* user's swipes and taps, the end of the calendar's animation, the        *)
(* redrawing and the answers, in any order.                                *)
(***************************************************************************)
EXTENDS Naturals, Sequences, SequencesExt

CONSTANTS
    LastMonth,      \* the months are 1 .. LastMonth, next to each other
    LastDay,        \* the days of a month are 1 .. LastDay
    ThisMonth,      \* the month and the day of today
    Today,
    Entries,        \* for each month the days of its entries, as the server lists them
    MaxRequests     \* bound: requests sent by the screen

Months == 1 .. LastMonth
Days == 1 .. LastDay

ASSUME CalendarAssumption ==
    /\ LastMonth \in Nat /\ ThisMonth \in Months
    /\ LastDay \in Nat /\ Today \in Days
    /\ Entries \in [Months -> Seq(Days)]
    /\ MaxRequests \in Nat

VARIABLES
    OBJ_SOSIK,      \* the entries loaded
    OBJ_CALENDAR,   \* the entries shown under the calendar
    copy,           \* OBJ_SOSIK of the cell
    dirty,          \* reloadData was called and the cell is not drawn yet
    MONTH,          \* the month named above the calendar
    selected,       \* the highlighted day (that of MONTH or, during the
                    \* animation, the day of a neighbouring month tapped)
    settling,       \* the calendar moves to the month of a tapped day
    inflight,       \* requests sent and not yet answered
    sent,           \* how many requests were sent (names the next one)
    crossed,        \* history: the last month was asked for while another
                    \* request was unanswered
    chosen          \* history: selected was chosen with every request
                    \* answered and the cell drawn

vars == <<OBJ_SOSIK, OBJ_CALENDAR, copy, dirty, MONTH, selected, settling, inflight, sent,
          crossed, chosen>>

Row == [month : Months, pos : Nat, day : Days]
Request == [id : Nat, month : Months]

(* What the server answers for target_month (external): the entries of the *)
(* month, in its own order.                                                *)
MonthRows(month) ==
    [i \in 1 .. Len(Entries[month]) |->
        [month |-> month, pos |-> i, day |-> Entries[month][i]]]

(* The rows of a list whose date is the given one, looked at one after the *)
(* other.                                                                  *)
RowsOfDay(rows, month, day) ==
    LET upTo[n \in 0 .. Len(rows)] ==
            IF n = 0 THEN <<>>
            ELSE IF rows[n].month = month /\ rows[n].day = day
            THEN Append(upTo[n - 1], rows[n])
            ELSE upTo[n - 1]
    IN  upTo[Len(rows)]

-----------------------------------------------------------------------------
(* The screen opens: viewDidLoad asks for the month "", which the server   *)
(* takes for this month; the calendar shows this month and highlights      *)
(* today.                                                                  *)
Init ==
    /\ OBJ_SOSIK = <<>> /\ OBJ_CALENDAR = <<>> /\ copy = <<>> /\ dirty = TRUE
    /\ MONTH = ThisMonth /\ selected = Today /\ settling = FALSE
    /\ crossed = FALSE /\ chosen = FALSE
    /\ \/ inflight = {} /\ sent = 0
       \/ inflight = {[id |-> 0, month |-> ThisMonth]} /\ sent = 1

(* Mutant of presentedDateUpdated: the entries of the month before stay    *)
(* in the cell.                                                            *)
PresentKeepingCopy(month, online) ==
    /\ MONTH' = month
    /\ copy' = copy
    /\ OBJ_SOSIK' = <<>>
    /\ dirty' = TRUE
    /\ inflight' = IF online THEN inflight \cup {[id |-> sent, month |-> month]} ELSE inflight
    /\ sent' = IF online THEN sent + 1 ELSE sent
    /\ crossed' = (inflight # {})

(* presentedDateUpdated for another month than the one named: the label    *)
(* changes, the cell's copy is emptied and GET_SOSIK_L2 empties both lists *)
(* before it looks at the network.  Every caller goes on with              *)
(* didSelectDayView in the same handler, which gives OBJ_CALENDAR its      *)
(* value.                                                                  *)
presentedDateUpdated(month, online) ==
    /\ MONTH' = month
    /\ copy' = <<>>
    /\ OBJ_SOSIK' = <<>>
    /\ dirty' = TRUE
    /\ inflight' = IF online THEN inflight \cup {[id |-> sent, month |-> month]} ELSE inflight
    /\ sent' = IF online THEN sent + 1 ELSE sent
    /\ crossed' = (inflight # {})

(* Mutant of didSelectDayView: the list is not emptied first.              *)
SelectWithoutClearing(month, day, rows) ==
    /\ selected' = day
    /\ OBJ_CALENDAR' = OBJ_CALENDAR \o RowsOfDay(rows, month, day)

(* didSelectDayView: the list becomes the day's rows of the cell's copy,   *)
(* in the copy's order, and the table is reloaded.                         *)
didSelectDayView(month, day, rows) ==
    /\ selected' = day
    /\ OBJ_CALENDAR' = RowsOfDay(rows, month, day)

(* Mutant of AutoDay: days counted from 0.                                 *)
AutoDayFromZero(month) == IF month = ThisMonth THEN Today ELSE 0

(* The day the calendar selects by itself in a month it moves to.          *)
AutoDay(month) == IF month = ThisMonth THEN Today ELSE 1

Neighbours(month) == {m \in Months : m = month + 1 \/ m + 1 = month}

(* A swipe to the month before or after: updateSelection presents it and   *)
(* selects a day of it at once.                                            *)
SwipeToMonth ==
    /\ ~settling
    /\ \E month \in Neighbours(MONTH), online \in BOOLEAN :
        /\ online => sent < MaxRequests
        /\ presentedDateUpdated(month, online)
        /\ didSelectDayView(month, AutoDay(month), copy')
    /\ chosen' = FALSE
    /\ UNCHANGED settling

(* A tap on a day of the month shown.                                      *)
TapDay ==
    /\ ~settling
    /\ \E day \in Days : didSelectDayView(MONTH, day, copy)
    /\ dirty' = TRUE
    /\ chosen' = (inflight = {} /\ ~dirty)
    /\ UNCHANGED <<OBJ_SOSIK, copy, MONTH, settling, inflight, sent, crossed>>

(* A tap on a day of the neighbouring month in the first or last week:     *)
(* that month is presented and the day looked up at once, then the         *)
(* calendar moves there (half a second, during which its days take no      *)
(* touch).                                                                 *)
TapOutDay ==
    /\ ~settling
    /\ \E month \in Neighbours(MONTH), day \in Days, online \in BOOLEAN :
        /\ online => sent < MaxRequests
        /\ presentedDateUpdated(month, online)
        /\ didSelectDayView(month, day, copy')
    /\ settling' = TRUE
    /\ chosen' = FALSE

(* The calendar has moved: updateSelection finds the month named already   *)
(* and selects a day of it, not the day that was tapped.                   *)
Settle ==
    /\ settling
    /\ settling' = FALSE
    /\ didSelectDayView(MONTH, AutoDay(MONTH), copy)
    /\ dirty' = TRUE
    /\ chosen' = (inflight = {} /\ ~dirty)
    /\ UNCHANGED <<OBJ_SOSIK, copy, MONTH, inflight, sent, crossed>>

(* The table draws the cell: it gets the entries loaded by now.            *)
Draw ==
    /\ dirty
    /\ dirty' = FALSE
    /\ copy' = OBJ_SOSIK
    /\ UNCHANGED <<OBJ_SOSIK, OBJ_CALENDAR, MONTH, selected, settling, inflight, sent, crossed,
                   chosen>>

(* Mutant of Complete: an answer does not turn the list around.            *)
CompleteInServerOrder(r, rows) ==
    /\ inflight' = inflight \ {r}
    /\ OBJ_SOSIK' = OBJ_SOSIK \o rows
    /\ OBJ_CALENDAR' = OBJ_CALENDAR \o rows
    /\ dirty' = TRUE
    /\ UNCHANGED <<copy, MONTH, selected, settling, sent, crossed, chosen>>

(* The completion handler: the rows of the answer are appended to both     *)
(* lists, then the list shown is turned around, whatever it held before    *)
(* and whatever the answer was.                                            *)
Complete(r, rows) ==
    /\ inflight' = inflight \ {r}
    /\ OBJ_SOSIK' = OBJ_SOSIK \o rows
    /\ OBJ_CALENDAR' = Reverse(OBJ_CALENDAR \o rows)
    /\ dirty' = TRUE
    /\ UNCHANGED <<copy, MONTH, selected, settling, sent, crossed, chosen>>

(* The answer is an array of entries.                                      *)
AnswerMonth(r) == Complete(r, MonthRows(r.month))

(* A failure (time-out, connection lost), or an answer that is no array.   *)
AnswerFailure(r) == Complete(r, <<>>)

Next ==
    \/ SwipeToMonth \/ TapDay \/ TapOutDay \/ Settle \/ Draw
    \/ \E r \in inflight : AnswerMonth(r) \/ AnswerFailure(r)

Spec == Init /\ [][Next]_vars
-----------------------------------------------------------------------------
(* Properties.                                                             *)

(* Types of the lists and of the calendar's state (VC_SOSIK 22-23,         *)
(* S_CALENDAR 13-22).                                                      *)
TypeOK ==
    /\ OBJ_SOSIK \in Seq(Row) /\ OBJ_CALENDAR \in Seq(Row) /\ copy \in Seq(Row)
    /\ dirty \in BOOLEAN /\ settling \in BOOLEAN
    /\ MONTH \in Months /\ selected \in Days
    /\ inflight \subseteq Request /\ sent \in Nat
    /\ crossed \in BOOLEAN /\ chosen \in BOOLEAN

(* Every entry shown under the calendar is an entry loaded, so that it has *)
(* its dot once the cell is drawn: the cell's copy, which is older than    *)
(* OBJ_SOSIK between an answer and the redrawing, is never the copy of     *)
(* another month (S_CALENDAR 92 empties it in the handler that empties     *)
(* OBJ_SOSIK, P_SOSIK 16, and before the day selected by itself is looked  *)
(* up in it).                                                              *)
ShownHasDot ==
    /\ IsPrefix(copy, OBJ_SOSIK)
    /\ ~dirty => copy = OBJ_SOSIK
    /\ ToSet(OBJ_CALENDAR) \subseteq ToSet(OBJ_SOSIK)

(* The list belongs to the month named above the calendar: it is empty,    *)
(* that month's entries in the reverse of the server's order, or the       *)
(* entries of the highlighted day in the server's order, unless the month  *)
(* was asked for while another request was unanswered.  Nothing else keeps *)
(* a late answer out: the completion handler (P_SOSIK 87, 98) does not     *)
(* look at the month it was asked for.                                     *)
MonthShown ==
    ~crossed =>
        \/ OBJ_CALENDAR = <<>>
        \/ OBJ_CALENDAR = Reverse(MonthRows(MONTH))
        \/ OBJ_CALENDAR = RowsOfDay(MonthRows(MONTH), MONTH, selected)

(* A day chosen when every request was answered and the cell drawn shows   *)
(* exactly its entries, whatever is redrawn or moves afterwards, until     *)
(* another day or month is chosen (S_CALENDAR 103).  A day chosen while    *)
(* its month is loading, or between the answer and the redrawing, is       *)
(* looked up in an empty copy and its list is overwritten or left empty.   *)
DayShown ==
    chosen => OBJ_CALENDAR = RowsOfDay(OBJ_SOSIK, MONTH, selected)

=============================================================================
