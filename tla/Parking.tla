------------------------------ MODULE Parking ------------------------------
(***************************************************************************)
(* The parking screen: VC_PARKING with P_PARKING (three tabs over one      *)
(* list: visits, household cars, passages; paging and deletion of visits), *)
(* the registration form VC_PARKING_2 with P_PARKING_1, and the two        *)
(* counters of the "my home" tab (TBC_2) that both of them write.          *)
(*                                                                         *)
(* The tabs share OBJ_PARKING; an answer is appended to it whichever tab   *)
(* is shown by then, and the answer to a deletion reloads the visits       *)
(* without asking which tab that is.                                       *)
(***************************************************************************)
EXTENDS Integers, Sequences, FiniteSets, SequencesExt

CONSTANTS
    ITEM_COUNT,     \* visits of one page (20 in the code)
    TEMP_CAR,       \* visits registered when the session was loaded
    PERM_CAR,       \* household cars registered then
    Passages,       \* rows of the passage tab
    Faults,         \* "offline": the network check fails; "answer": an answer is lost
    MaxPage,        \* bound: pages scrolled to
    MaxRequests     \* bound: requests sent

ASSUME ParkingAssumption ==
    /\ ITEM_COUNT \in Nat \ {0}
    /\ TEMP_CAR \in Nat /\ PERM_CAR \in Nat /\ Passages \in Nat
    /\ Faults \subseteq {"offline", "answer"}
    /\ MaxPage \in Nat /\ MaxRequests \in Nat

VARIABLES
    MN_POSITION,    \* the tab: 0 visits, 1 household cars, 2 passages
    OBJ_PARKING,    \* the rows shown
    FETCHING_MORE,  \* the lock of the paging gesture
    PAGE_NUMBER,    \* the last page of visits asked for by that gesture
    inflight,       \* requests unanswered
    sent,           \* how many were sent (names the next one)
    visits,         \* server: idx of the visits, newest first
    cars,           \* server: how many household cars
    PARKING_L,      \* TBC_2's labels: visits and household cars
    crossed,        \* history: the tab shown was entered with a request of the
                    \* list unanswered
    unsent,         \* history: the page PAGE_NUMBER was not asked for, for
                    \* want of a network
    lost,           \* history: the answer of a registration or deletion was lost
    changes         \* history: registrations and deletions the server made

server == <<visits, cars>>
vars == <<MN_POSITION, OBJ_PARKING, FETCHING_MORE, PAGE_NUMBER, inflight, sent, server,
          PARKING_L, crossed, unsent, lost, changes>>

Kinds == {"visit", "household", "in_out"}
KindOf(tab) == CASE tab = 0 -> "visit" [] tab = 1 -> "household" [] tab = 2 -> "in_out"

(* The rows of the three tables are numbered independently: an idx names a *)
(* row only together with its table.                                       *)
Row == [kind : Kinds, idx : Nat]

(* A request: `op` is the list asked for, "delete" or "insert"; `row` is   *)
(* the row it was made for; `sure` tells that crossed was false then.      *)
Request == [id : Nat, op : Kinds \cup {"delete", "insert"}, page : Nat, row : Row,
            sure : BOOLEAN, served : BOOLEAN, rows : Seq(Row), success : BOOLEAN]

NoRow == [kind |-> "visit", idx |-> 0]

NewRequest(op, page, row) ==
    [id |-> sent, op |-> op, page |-> page, row |-> row, sure |-> ~crossed,
     served |-> FALSE, rows |-> <<>>, success |-> FALSE]

OfList(r) == r.op # "insert"
Pending == \E r \in inflight : OfList(r)

Smaller(a, b) == IF a < b THEN a ELSE b

-----------------------------------------------------------------------------
(* What the server answers to a list request.                              *)
PageRows(page) ==
    [i \in 1 .. Smaller(ITEM_COUNT, IF Len(visits) <= page * ITEM_COUNT THEN 0
                                    ELSE Len(visits) - page * ITEM_COUNT) |->
        [kind |-> "visit", idx |-> visits[page * ITEM_COUNT + i]]]

ListRows(r) ==
    CASE r.op = "visit" -> PageRows(r.page)
      [] r.op = "household" -> [i \in 1 .. cars |-> [kind |-> "household", idx |-> i]]
      [] r.op = "in_out" -> [i \in 1 .. Passages |-> [kind |-> "in_out", idx |-> i]]

Send(r, pending) ==
    /\ sent < MaxRequests
    /\ inflight' = pending \cup {r}
    /\ sent' = sent + 1

(* Mutant of GetList: only the visits are emptied before a reload.         *)
GetListKeepingRows(op, page, pending) ==
    /\ OBJ_PARKING' = IF op = "visit" /\ page = 0 THEN <<>> ELSE OBJ_PARKING
    /\ \/ Send(NewRequest(op, page, NoRow), pending)
       \/ "offline" \in Faults /\ inflight' = pending /\ UNCHANGED sent

(* GET_PARKING_L1 (page 0 empties the list, a later one does not) and      *)
(* GET_PARKING_L2 (always empties it), with `pending` unanswered.          *)
GetList(op, page, pending) ==
    /\ OBJ_PARKING' = IF page = 0 THEN <<>> ELSE OBJ_PARKING
    /\ \/ Send(NewRequest(op, page, NoRow), pending)
       \/ "offline" \in Faults /\ inflight' = pending /\ UNCHANGED sent

-----------------------------------------------------------------------------
(* viewDidLoad asks for the first page of visits.                          *)
Init ==
    /\ MN_POSITION = 0 /\ OBJ_PARKING = <<>>
    /\ FETCHING_MORE = FALSE /\ PAGE_NUMBER = 0
    /\ \/ /\ sent = 1
          /\ inflight = {[id |-> 0, op |-> "visit", page |-> 0, row |-> NoRow, sure |-> TRUE,
                          served |-> FALSE, rows |-> <<>>, success |-> FALSE]}
       \/ "offline" \in Faults /\ sent = 0 /\ inflight = {}
    /\ visits = [i \in 1 .. TEMP_CAR |-> TEMP_CAR + 1 - i]
    /\ cars = PERM_CAR
    /\ PARKING_L = [visit |-> TEMP_CAR, household |-> PERM_CAR]
    /\ crossed = FALSE /\ unsent = FALSE /\ lost = FALSE /\ changes = 0

(* MENU_V: the tab changes, its list is asked for.  PAGE_NUMBER and        *)
(* FETCHING_MORE are left as they are.                                     *)
MENU_V(tab) ==
    /\ MN_POSITION' = tab
    /\ GetList(KindOf(tab), 0, inflight)
    /\ crossed' = Pending
    /\ UNCHANGED <<FETCHING_MORE, PAGE_NUMBER, server, PARKING_L, unsent, lost, changes>>

(* scrollViewDidEndDecelerating at the end of the table.                   *)
ScrollToEnd ==
    /\ MN_POSITION = 0 /\ Len(OBJ_PARKING) > 3 /\ ~FETCHING_MORE
    /\ PAGE_NUMBER < MaxPage
    /\ FETCHING_MORE' = TRUE
    /\ PAGE_NUMBER' = PAGE_NUMBER + 1
    /\ GetList("visit", PAGE_NUMBER + 1, inflight)
    /\ unsent' = (sent' = sent)
    /\ UNCHANGED <<MN_POSITION, server, PARKING_L, crossed, lost, changes>>

(* Mutant of CANCEL_B: the button is not hidden on the other tabs.         *)
CancelAnyTab(tag) ==
    /\ Send(NewRequest("delete", 0, OBJ_PARKING[tag]), inflight)
    /\ UNCHANGED <<MN_POSITION, OBJ_PARKING, FETCHING_MORE, PAGE_NUMBER, server, PARKING_L,
                   crossed, unsent, lost, changes>>

(* CANCEL_B, on the rows of the visit tab only: the idx of the row at the  *)
(* button's place is sent, without a network check.                        *)
CANCEL_B(tag) ==
    /\ MN_POSITION = 0
    /\ Send(NewRequest("delete", 0, OBJ_PARKING[tag]), inflight)
    /\ UNCHANGED <<MN_POSITION, OBJ_PARKING, FETCHING_MORE, PAGE_NUMBER, server, PARKING_L,
                   crossed, unsent, lost, changes>>

(* EDIT_B of VC_PARKING_2: a car is registered, for a visit or for good.   *)
Register(kind) ==
    /\ Send(NewRequest("insert", 0, [kind |-> kind, idx |-> 0]), inflight)
    /\ UNCHANGED <<MN_POSITION, OBJ_PARKING, FETCHING_MORE, PAGE_NUMBER, server, PARKING_L,
                   crossed, unsent, lost, changes>>

-----------------------------------------------------------------------------
(* The server handles a request ...                                        *)
Served(r, rows, success) ==
    /\ ~r.served
    /\ inflight' = (inflight \ {r}) \cup
                     {[r EXCEPT !.served = TRUE, !.rows = rows, !.success = success]}
    /\ UNCHANGED <<MN_POSITION, OBJ_PARKING, FETCHING_MORE, PAGE_NUMBER, sent, PARKING_L, crossed,
                   unsent, lost>>

ServeList(r) ==
    /\ r.op \in Kinds
    /\ Served(r, ListRows(r), TRUE)
    /\ UNCHANGED <<server, changes>>

(* ... a deletion of the visit with that idx, if there is one ...          *)
ServeDelete(r) ==
    /\ r.op = "delete"
    /\ Served(r, <<>>, TRUE)
    /\ \E i \in DOMAIN visits : visits[i] = r.row.idx /\ visits' = RemoveAt(visits, i)
    /\ changes' = changes + 1
    /\ UNCHANGED cars

(* ... a registration ...                                                  *)
ServeInsert(r) ==
    /\ r.op = "insert"
    /\ Served(r, <<>>, TRUE)
    /\ IF r.row.kind = "visit"
       THEN visits' = <<TEMP_CAR + 1 + r.id>> \o visits /\ UNCHANGED cars
       ELSE cars' = cars + 1 /\ UNCHANGED visits
    /\ changes' = changes + 1

(* ... or refuses it (there is no visit with that idx, for one).           *)
Refuse(r) ==
    /\ r.op \in {"delete", "insert"}
    /\ Served(r, <<>>, FALSE)
    /\ UNCHANGED <<server, changes>>

Unlocked(r) == IF r.op = "visit" THEN FALSE ELSE FETCHING_MORE

(* Mutant of AnswerList: only a reload releases the lock.                  *)
AnswerListKeepingLock(r) ==
    /\ r.op \in Kinds /\ r.served
    /\ inflight' = inflight \ {r}
    /\ OBJ_PARKING' = OBJ_PARKING \o r.rows
    /\ FETCHING_MORE' = (FETCHING_MORE /\ r.page # 0)
    /\ UNCHANGED <<MN_POSITION, PAGE_NUMBER, sent, server, PARKING_L, crossed, unsent, lost,
                   changes>>

(* The completion handlers of GET_PARKING_L1 and GET_PARKING_L2: the rows  *)
(* are appended to the list of whatever tab is shown; only the former      *)
(* releases the lock.  Without rows the answer is no array: on a list that *)
(* is not empty an alert says that there is no more data.                  *)
AnswerList(r) ==
    /\ r.op \in Kinds /\ r.served
    /\ inflight' = inflight \ {r}
    /\ OBJ_PARKING' = OBJ_PARKING \o r.rows
    /\ FETCHING_MORE' = Unlocked(r)
    /\ UNCHANGED <<MN_POSITION, PAGE_NUMBER, sent, server, PARKING_L, crossed, unsent, lost,
                   changes>>

(* Mutant of AnswerDeleted: the sign of the registration form.             *)
AnswerDeletedAddingOne(r) ==
    /\ r.op = "delete" /\ r.served /\ r.success
    /\ GetList("visit", 0, inflight \ {r})
    /\ PARKING_L' = [PARKING_L EXCEPT !.visit = TEMP_CAR + 1]
    /\ UNCHANGED <<MN_POSITION, FETCHING_MORE, PAGE_NUMBER, server, crossed, unsent, lost, changes>>

(* The completion handler of PUT_PARKING, "success": the visits are        *)
(* reloaded and the label is set, counting from the number loaded once.    *)
AnswerDeleted(r) ==
    /\ r.op = "delete" /\ r.served /\ r.success
    /\ GetList("visit", 0, inflight \ {r})
    /\ PARKING_L' = [PARKING_L EXCEPT !.visit = TEMP_CAR - 1]
    /\ UNCHANGED <<MN_POSITION, FETCHING_MORE, PAGE_NUMBER, server, crossed, unsent, lost, changes>>

(* The completion handler of PUT_PARKING_2, "success": the form closes, a  *)
(* label is set; the list behind is not reloaded.                          *)
AnswerInserted(r) ==
    /\ r.op = "insert" /\ r.served /\ r.success
    /\ inflight' = inflight \ {r}
    /\ PARKING_L' = IF r.row.kind = "visit"
                    THEN [PARKING_L EXCEPT !.visit = TEMP_CAR + 1]
                    ELSE [PARKING_L EXCEPT !.household = PERM_CAR + 1]
    /\ UNCHANGED <<MN_POSITION, OBJ_PARKING, FETCHING_MORE, PAGE_NUMBER, sent, server, crossed,
                   unsent, lost, changes>>

(* A deletion or registration that was refused: a notice.                  *)
AnswerRefused(r) ==
    /\ r.op \in {"delete", "insert"} /\ r.served /\ ~r.success
    /\ inflight' = inflight \ {r}
    /\ UNCHANGED <<MN_POSITION, OBJ_PARKING, FETCHING_MORE, PAGE_NUMBER, sent, server, PARKING_L,
                   crossed, unsent, lost, changes>>

(* No answer, before or after the server handled the request.              *)
NoAnswer(r) ==
    /\ "answer" \in Faults
    /\ inflight' = inflight \ {r}
    /\ FETCHING_MORE' = Unlocked(r)
    /\ lost' = (lost \/ r.op \notin Kinds)
    /\ UNCHANGED <<MN_POSITION, OBJ_PARKING, PAGE_NUMBER, sent, server, PARKING_L, crossed,
                   unsent, changes>>

Next ==
    \/ \E tab \in 0 .. 2 : MENU_V(tab)
    \/ ScrollToEnd
    \/ \E tag \in DOMAIN OBJ_PARKING : CANCEL_B(tag)
    \/ \E kind \in {"visit", "household"} : Register(kind)
    \/ \E r \in inflight :
        \/ ServeList(r) \/ ServeDelete(r) \/ ServeInsert(r) \/ Refuse(r)
        \/ AnswerList(r) \/ AnswerDeleted(r) \/ AnswerInserted(r) \/ AnswerRefused(r) \/ NoAnswer(r)

Spec == Init /\ [][Next]_vars
-----------------------------------------------------------------------------
(* Properties.                                                             *)

(* Types of the screen's fields, its requests and the two labels.          *)
TypeOK ==
    /\ MN_POSITION \in 0 .. 2
    /\ OBJ_PARKING \in Seq(Row)
    /\ FETCHING_MORE \in BOOLEAN
    /\ PAGE_NUMBER \in Nat
    /\ inflight \subseteq Request
    /\ sent \in Nat
    /\ visits \in Seq(Nat)
    /\ cars \in Nat
    /\ PARKING_L \in [visit : Int, household : Int]
    /\ crossed \in BOOLEAN /\ unsent \in BOOLEAN /\ lost \in BOOLEAN
    /\ changes \in Nat

(* A tab shows rows of its own table, unless it was entered while a list   *)
(* or a deletion was unanswered: nothing else keeps the answers of three   *)
(* lists in one array apart (P_PARKING 64, 147, 180).                      *)
TabShowsItsRows ==
    ~crossed => \A i \in DOMAIN OBJ_PARKING : OBJ_PARKING[i].kind = KindOf(MN_POSITION)

(* A visit the server deletes is one whose row was tapped: the idx sent by *)
(* VC_PARKING 155 was a visit's - under the same condition, at the tap.    *)
(* Otherwise it may be the number of a household car or a passage, which   *)
(* some other visit bears.                                                 *)
DeletesWhatWasTapped ==
    [][\A r \in inflight :
          ServeDelete(r) /\ r.sure => r.row.kind = "visit"]_vars

(* Unless the page was asked for without a network, the paging lock is     *)
(* only held while a request is under way that will release it - although  *)
(* switching tabs ignores the lock and the other tabs' answers do not      *)
(* release it.                                                             *)
LockHasRequest ==
    FETCHING_MORE /\ ~unsent => \E r \in inflight : r.op = "visit"

Settled == \A r \in inflight : r.op \in Kinds

(* The labels are right after the first change: both are set from the      *)
(* numbers loaded with the session (P_PARKING 182, P_PARKING_1 59, 64),    *)
(* which no change updates - if its answer arrives.  From the second       *)
(* change on they need not be.                                             *)
LabelsAfterOneChange ==
    ~lost /\ Settled /\ changes <= 1 =>
        PARKING_L = [visit |-> Len(visits), household |-> cars]

(* The list keeps the promise of SelectedList: visits arrive page by page, *)
(* cars and passages once, whatever is deleted and registered meanwhile    *)
(* (P_PARKING 64, 147, 180).                                               *)
TableOf(row) == row.kind

Selected == INSTANCE SelectedList WITH
    Of <- TableOf,
    Paged <- {"visit"},
    selection <- KindOf(MN_POSITION),
    shown <- OBJ_PARKING,
    waiting <- Pending

KeepsSelection == Selected!Spec

=============================================================================
