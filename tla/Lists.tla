------------------------------- MODULE Lists --------------------------------
(***************************************************************************)
(* The list screens that load whole lists: elevator calls (VC_ELEVATOR),   *)
(* the monthly bill (VC_EXPENESE), chargers (VC_EVCAR), parcels            *)
(* (VC_DELIVERY) and contacts (VC_CONTACT; the screens of the family, of   *)
(* cameras, facilities and restaurants are like it), with the sheets that  *)
(* call an elevator, choose a month and register a parcel.                 *)
(*                                                                         *)
(* A screen empties its list, asks for another and appends what answers    *)
(* come.  All screens share one label, "no data".  A screen that was left *)
(* stays alive as long as its requests are unanswered.                     *)
(***************************************************************************)
EXTENDS Naturals, SequencesExt

CONSTANTS
    Months,         \* the months a bill can be asked for ...
    ThisMonth,      \* ... and the one a bill opens with
    Faults,         \* "offline": S_NETWORK fails; "answer": answers are lost,
                    \* no arrays, or refusals
    MaxScreens,     \* bound: screens opened
    MaxSheets,      \* bound: sheets opened on a screen
    MaxRequests     \* bound: requests sent

ASSUME ListsAssumption ==
    /\ ThisMonth \in Months
    /\ Faults \subseteq {"offline", "answer"}
    /\ MaxScreens \in Nat /\ MaxSheets \in Nat /\ MaxRequests \in Nat

VARIABLES
    screens,        \* the screens opened so far, in that order, see Screen
    top,            \* the screen shown, 0 for the main tabs
    NODATA_L,       \* where the label "no data" is
    inflight,       \* the requests sent and not done with
    sent,           \* how many requests were sent
    stored,         \* calls and parcels the server has stored ...
    told,           \* ... and the latest the resident was told of
    crashed

vars == <<screens, top, NODATA_L, inflight, sent, stored, told, crashed>>

Kinds == {"elevator", "bill", "chargers", "parcels", "contacts"}

(* What a list is asked for: the tab selected and the month of DATE_L.     *)
Selection == [tab : {0, 1}, month : Months]

(* A row: what it was asked for, its number on the server and, of a bill,  *)
(* whether it comes without figures to compare it with.                    *)
Row == [sel : Selection, n : Nat, bare : BOOLEAN]

(* A screen; form counts the sheets it opened; the last one may be up, or  *)
(* covered by the alert that asks whether to leave it; companies: it has   *)
(* its list of companies.  History: crossed, the list was emptied over an  *)
(* unanswered request; kept, a tab was changed without emptying it.        *)
Screen == [kind : Kinds, sel : Selection, rows : Seq(Row), sheet : {"none", "up", "asking"},
           form : Nat, companies : BOOLEAN, crossed : BOOLEAN, kept : BOOLEAN]

(* A request; of a list, seen is how much of it the server had already.    *)
(* Of a call or a parcel, no is its number once the server stored it and   *)
(* waiting ends with the app's patience.                                   *)
Request == [id : Nat, op : {"list", "companies", "put"}, screen : Nat, sel : Selection,
            form : Nat, seen : Nat, no : Nat, waiting : BOOLEAN]

Nowhere == [screen |-> 0, view |-> "none"]

-----------------------------------------------------------------------------
Init ==
    /\ screens = <<>> /\ top = 0 /\ NODATA_L = Nowhere
    /\ inflight = {} /\ sent = 0
    /\ stored = [kind \in Kinds |-> 0] /\ told = stored
    /\ crashed = FALSE

(* The gestures on a screen and on its sheet.                              *)
On(kind) == ~crashed /\ top # 0 /\ screens[top].kind = kind
OnList(kind) == On(kind) /\ screens[top].sheet = "none"
OnSheet(kind) == On(kind) /\ screens[top].sheet = "up"

(* VC_ELEVATOR_DEL, VC_DELIVERY_DEL, VC_EXPENESE_DEL: the screen of that   *)
(* kind made last.                                                         *)
Delegate(kind) ==
    CHOOSE i \in DOMAIN screens :
        /\ screens[i].kind = kind
        /\ \A j \in DOMAIN screens : screens[j].kind = kind => j <= i

ListRequests(i, requests) == {r \in requests : r.op = "list" /\ r.screen = i}

NewRequest(op, i, screen) ==
    [id |-> sent, op |-> op, screen |-> i, sel |-> screen.sel, form |-> screen.form,
     seen |-> stored[screen.kind], no |-> 0, waiting |-> TRUE]

(* The label is moved to the view.                                         *)
NODATA(i, view) == NODATA_L' = [screen |-> i, view |-> view]

(* Mutant of GET: the list is not emptied.                                 *)
GETKeepingRows(i, scr, requests) ==
    /\ screens' = [scr EXCEPT ![i].crossed = ListRequests(i, requests) # {}]
    /\ NODATA(i, "list")
    /\ sent < MaxRequests
    /\ inflight' = requests \cup {NewRequest("list", i, scr[i])}
    /\ sent' = sent + 1

(* The start of GET_EXPENESE_L1 and of its likes, on screen i of scr: the  *)
(* list is emptied and, unless there is no network, asked for again.       *)
GET(i, scr, requests) ==
    /\ screens' = [scr EXCEPT ![i].rows = <<>>, ![i].kept = FALSE,
                              ![i].crossed = ListRequests(i, requests) # {}]
    /\ NODATA(i, "list")
    /\ \/ /\ sent < MaxRequests
          /\ inflight' = requests \cup {NewRequest("list", i, scr[i])}
          /\ sent' = sent + 1
       \/ /\ "offline" \in Faults
          /\ inflight' = requests
          /\ UNCHANGED sent

(* A button of the main tabs: the screen is pushed and loads its list.     *)
Open(kind) ==
    /\ ~crashed /\ top = 0
    /\ Len(screens) < MaxScreens
    /\ top' = Len(screens) + 1
    /\ GET(top', Append(screens, [kind |-> kind, sel |-> [tab |-> 0, month |-> ThisMonth],
                                  rows |-> <<>>, sheet |-> "none", form |-> 0,
                                  companies |-> FALSE, crossed |-> FALSE, kept |-> FALSE]),
           inflight)
    /\ UNCHANGED <<stored, told, crashed>>

Back ==
    /\ ~crashed /\ top # 0 /\ screens[top].sheet = "none"
    /\ top' = 0
    /\ UNCHANGED <<screens, NODATA_L, inflight, sent, stored, told, crashed>>

(* MENU_V of the bill.  The second tab only empties the list - and without *)
(* a network not even that.                                                *)
SelectBill(tab) ==
    /\ OnList("bill")
    /\ LET scr == [screens EXCEPT ![top].sel.tab = tab]
       IN  \/ tab = 0 /\ GET(top, scr, inflight)
           \/ /\ tab = 1
              /\ NODATA(top, "list")
              /\ \/ screens' = [scr EXCEPT ![top].rows = <<>>, ![top].kept = FALSE,
                                    ![top].crossed = ListRequests(top, inflight) # {}]
                 \/ /\ "offline" \in Faults
                    /\ screens' = [scr EXCEPT ![top].kept = TRUE, ![top].crossed = TRUE]
              /\ UNCHANGED <<inflight, sent>>
    /\ UNCHANGED <<top, stored, told, crashed>>

(* MENU_V of the chargers.                                                 *)
SelectChargers(tab) ==
    /\ OnList("chargers")
    /\ GET(top, [screens EXCEPT ![top].sel.tab = tab], inflight)
    /\ UNCHANGED <<top, stored, told, crashed>>

-----------------------------------------------------------------------------
(* Sheets.                                                                 *)

(* EV_CONTROL of the elevator, EDIT_B of the bill.                         *)
OpenSheet(kind) ==
    /\ kind \in {"elevator", "bill"} /\ OnList(kind)
    /\ screens[top].form < MaxSheets
    /\ screens' = [screens EXCEPT ![top].sheet = "up", ![top].form = @ + 1]
    /\ UNCHANGED <<top, NODATA_L, inflight, sent, stored, told, crashed>>

(* EDIT_B of the parcels: the form asks for the companies.                 *)
OpenForm ==
    /\ OnList("parcels")
    /\ screens[top].form < MaxSheets
    /\ screens' = [screens EXCEPT ![top].sheet = "up", ![top].form = @ + 1,
                                  ![top].companies = FALSE]
    /\ NODATA(top, "form")
    /\ \/ /\ sent < MaxRequests
          /\ inflight' = inflight \cup {NewRequest("companies", top, screens'[top])}
          /\ sent' = sent + 1
       \/ "offline" \in Faults /\ UNCHANGED <<inflight, sent>>
    /\ UNCHANGED <<top, stored, told, crashed>>

(* BACK_B.  With a number filled in, the form of a parcel asks first: the  *)
(* answers are to delete the draft and to go on.                           *)
CloseSheet ==
    /\ ~crashed /\ top # 0
    /\ \E sheet \in {"none", "up", "asking"} :
        /\ \/ screens[top].sheet = "up" /\ sheet = "none"
           \/ screens[top].sheet = "up" /\ sheet = "asking" /\ screens[top].kind = "parcels"
           \/ screens[top].sheet = "asking" /\ sheet # "asking"
        /\ screens' = [screens EXCEPT ![top].sheet = sheet]
    /\ UNCHANGED <<top, NODATA_L, inflight, sent, stored, told, crashed>>

(* EDIT_B of VC_EXPENESE_1: DATE_L changes, the first tab loads again.     *)
ChooseMonth(month) ==
    /\ OnSheet("bill")
    /\ LET i == Delegate("bill")
           scr == [screens EXCEPT ![i].sel.month = month, ![top].sheet = "none"]
       IN  IF screens[i].sel.tab = 0
           THEN GET(i, scr, inflight)
           ELSE screens' = scr /\ UNCHANGED <<NODATA_L, inflight, sent>>
    /\ UNCHANGED <<top, stored, told, crashed>>

Put ==
    /\ sent < MaxRequests
    /\ inflight' = inflight \cup {NewRequest("put", top, screens[top])}
    /\ sent' = sent + 1
    /\ UNCHANGED <<screens, top, NODATA_L, stored, told>>

(* EV_CALL: one request per tap, the sheet stays until it is answered.     *)
Call == OnSheet("elevator") /\ Put /\ UNCHANGED crashed

(* EDIT_B of the form, a number filled in: the company is taken out of a   *)
(* list that may be empty.                                                 *)
Register ==
    /\ OnSheet("parcels")
    /\ IF screens[top].companies
       THEN Put /\ UNCHANGED crashed
       ELSE /\ crashed' = TRUE
            /\ UNCHANGED <<screens, top, NODATA_L, inflight, sent, stored, told>>

-----------------------------------------------------------------------------
(* Answers.                                                                *)

(* Mutant of Shown: the label stays.                                       *)
ShownUnderLabel(rows) == NODATA_L' = NODATA_L

(* The end of every handler: rows shown take the label away, wherever it   *)
(* is by now.                                                              *)
Shown(rows) == NODATA_L' = IF rows # <<>> THEN Nowhere ELSE NODATA_L

Answered(r, kind, rows) ==
    /\ ~crashed
    /\ r.op = "list" /\ screens[r.screen].kind = kind
    /\ screens' = [screens EXCEPT ![r.screen].rows = rows]
    /\ inflight' = inflight \ {r}
    /\ Shown(rows)
    /\ UNCHANGED <<top, sent, stored, told>>

(* Rows 1 .. k of what was asked for, oldest first.                        *)
RowsUpTo(sel, k) == [n \in 1 .. k |-> [sel |-> sel, n |-> n, bare |-> FALSE]]

(* The list as the server had it at some time since it was asked; nothing, *)
(* if the answer is lost or no array.                                      *)
Answers(r, least, most) ==
    {RowsUpTo(r.sel, k) : k \in least .. most}
        \cup (IF "answer" \in Faults THEN {<<>>} ELSE {})

(* Calls: the whole list is reversed, whatever was received.               *)
AnswerCalls(r) ==
    /\ \E list \in Answers(r, r.seen, stored["elevator"]) :
           Answered(r, "elevator", Reverse(screens[r.screen].rows \o list))
    /\ UNCHANGED crashed

(* VC_EXPENESE 122-125: the first bill is compared with an average over a  *)
(* number of homes, which is 0 without figures to compare with.            *)
BillDrawn(i, rows) ==
    crashed' = (i = top /\ rows # <<>> /\ rows[1].bare)

AnswerBill(r) ==
    \E list \in Answers(r, 0, 1), bare \in BOOLEAN :
        LET rows == screens[r.screen].rows \o
                        [n \in DOMAIN list |-> [list[n] EXCEPT !.bare = bare]]
        IN  Answered(r, "bill", rows) /\ BillDrawn(r.screen, rows)

AnswerChargers(r) ==
    /\ \E list \in Answers(r, 0, 1) : Answered(r, "chargers", screens[r.screen].rows \o list)
    /\ UNCHANGED crashed

AnswerParcels(r) ==
    /\ \E list \in Answers(r, r.seen, stored["parcels"]) :
           Answered(r, "parcels", screens[r.screen].rows \o list)
    /\ UNCHANGED crashed

AnswerContacts(r) ==
    /\ \E list \in Answers(r, 0, 1) : Answered(r, "contacts", screens[r.screen].rows \o list)
    /\ UNCHANGED crashed

(* The form's companies arrive, or do not.                                 *)
AnswerCompanies(r) ==
    /\ ~crashed /\ r.op = "companies"
    /\ inflight' = inflight \ {r}
    /\ \/ /\ screens' = [screens EXCEPT ![r.screen].companies =
                                            @ \/ r.form = screens[r.screen].form]
          /\ NODATA_L' = Nowhere
       \/ "answer" \in Faults /\ UNCHANGED <<screens, NODATA_L>>
    /\ UNCHANGED <<top, sent, stored, told, crashed>>

(* The server stores a call or a parcel, maybe after the app gave up.      *)
Store(r) ==
    /\ ~crashed /\ r.op = "put" /\ r.no = 0
    /\ LET kind == screens[r.screen].kind
       IN  /\ stored' = [stored EXCEPT ![kind] = @ + 1]
           /\ inflight' = (inflight \ {r}) \cup
                              (IF r.waiting THEN {[r EXCEPT !.no = stored'[kind]]} ELSE {})
    /\ UNCHANGED <<screens, top, NODATA_L, sent, told, crashed>>

(* What dismiss does to the sheet of a request, if it is still there: the  *)
(* alert over it goes first, and then the sheet stays.                     *)
Dismissed(r) ==
    IF r.form # screens[r.screen].form THEN screens[r.screen].sheet
    ELSE IF screens[r.screen].sheet = "asking" THEN "up" ELSE "none"

(* Success: the last screen of the kind loads again and the sheet goes.    *)
PutSucceeds(r) ==
    /\ ~crashed /\ r.op = "put" /\ r.no # 0
    /\ LET kind == screens[r.screen].kind
       IN  /\ told' = [told EXCEPT ![kind] = IF @ < r.no THEN r.no ELSE @]
           /\ GET(Delegate(kind),
                  [screens EXCEPT ![r.screen].sheet = Dismissed(r)],
                  inflight \ {r})
    /\ UNCHANGED <<top, stored, crashed>>

(* A refusal, or no answer; the server may still store it.                 *)
PutFails(r) ==
    /\ ~crashed /\ r.op = "put" /\ r.waiting
    /\ "answer" \in Faults
    /\ \/ inflight' = inflight \ {r}
       \/ r.no = 0 /\ inflight' = (inflight \ {r}) \cup {[r EXCEPT !.waiting = FALSE]}
    /\ UNCHANGED <<screens, top, NODATA_L, sent, stored, told, crashed>>

Next ==
    \/ \E kind \in Kinds : Open(kind)
    \/ Back
    \/ \E tab \in {0, 1} : SelectBill(tab) \/ SelectChargers(tab)
    \/ \E kind \in Kinds : OpenSheet(kind)
    \/ OpenForm \/ CloseSheet
    \/ \E month \in Months : ChooseMonth(month)
    \/ Call \/ Register
    \/ \E r \in inflight :
        \/ AnswerCalls(r) \/ AnswerBill(r) \/ AnswerChargers(r) \/ AnswerParcels(r)
        \/ AnswerContacts(r) \/ AnswerCompanies(r)
        \/ Store(r) \/ PutSucceeds(r) \/ PutFails(r)

Spec == Init /\ [][Next]_vars
-----------------------------------------------------------------------------
(* Properties.                                                             *)

(* Types of the screens, the label, the requests and the server's counts.  *)
TypeOK ==
    /\ screens \in Seq(Screen)
    /\ top \in 0 .. Len(screens)
    /\ NODATA_L = Nowhere \/ NODATA_L \in [screen : DOMAIN screens, view : {"list", "form"}]
    /\ inflight \subseteq Request
    /\ \A r \in inflight : r.screen \in DOMAIN screens
    /\ sent \in Nat
    /\ stored \in [Kinds -> Nat] /\ told \in [Kinds -> Nat]
    /\ crashed \in BOOLEAN

(* One answer to what is selected, calls newest first.                     *)
OneAnswer(screen) ==
    \A j \in DOMAIN screen.rows :
        /\ screen.rows[j].sel = screen.sel
        /\ screen.rows[j].n = IF screen.kind = "elevator" THEN Len(screen.rows) + 1 - j ELSE j

(* A list shows one answer, for the tab and the month on the screen, and   *)
(* calls newest first (P_EXPENESE 59, P_EVCAR 52, P_ELEVATOR 57); and the  *)
(* last list of calls or parcels has every one that the resident was told  *)
(* of (P_ELEVATOR_1 39, P_DELIVERY_1 88).  All unless the list was emptied *)
(* over an unanswered request, or not emptied for lack of a network.       *)
ListIsOneAnswer ==
    \A i \in DOMAIN screens :
        LET screen == screens[i]
        IN  ~screen.crossed /\ screen.rows # <<>> =>
                /\ OneAnswer(screen)
                /\ i = Delegate(screen.kind) => told[screen.kind] <= Len(screen.rows)

(* "No data" never covers rows, on whatever screens the label was since    *)
(* and whichever screen's answer took it away; only the bill's second tab, *)
(* without a network, puts it over the first one's (VC_EXPENESE 183).  And *)
(* a screen that had the app for itself says so when it has none.          *)
NoDataIsTrue ==
    /\ \A i \in DOMAIN screens :
        NODATA_L = [screen |-> i, view |-> "list"] => screens[i].rows = <<>> \/ screens[i].kept
    /\ Len(screens) = 1 /\ screens[1].form = 0 /\ screens[1].rows = <<>> =>
        NODATA_L = [screen |-> 1, view |-> "list"]

(* Every screen's list, from before it is opened, keeps the promise of     *)
(* SelectedList: what is selected arrives once, whichever screens and      *)
(* sheets are open and whoever made it reload (P_EXPENESE 59, P_EVCAR 52,  *)
(* P_ELEVATOR_1 39, VC_EXPENESE_1).                                        *)
SelectionOf(row) == row.sel

ScreenNo(i) ==
    IF i \in DOMAIN screens THEN screens[i]
    ELSE [sel |-> [tab |-> 0, month |-> ThisMonth], rows |-> <<>>, crossed |-> FALSE]

Selected(i) == INSTANCE SelectedList WITH
    Of <- SelectionOf,
    Paged <- {},
    selection <- ScreenNo(i).sel,
    shown <- ScreenNo(i).rows,
    waiting <- ListRequests(i, inflight) # {},
    crossed <- ScreenNo(i).crossed

KeepsSelection ==
    /\ \A i \in 1 .. MaxScreens : Selected(i)!Init
    /\ [][\A i \in 1 .. MaxScreens : [Selected(i)!Next]_(Selected(i)!vars)]_vars

=============================================================================
