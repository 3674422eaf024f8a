----------------------------- MODULE BoardList -----------------------------
(***************************************************************************)
(* The paged article list of one board screen: VC_SOSIK with P_SOSIK (the  *)
(* menus whose name does not contain "schedule") and, with the same code,  *)
(* VC_COMMUNITY_1 with P_COMMUNITY_1; and the list of hospitals and        *)
(* pharmacies, VC_MEDICAL with P_MEDICAL, the same code with two tabs over *)
(* one list, one lock and one page number.  A board has the one tab 0.     *)
(*                                                                         *)
(* Every handler runs to completion on the main queue, so a handler is one *)
(* action.  What interleaves are the user's gestures, the answers of the   *)
(* requests already sent, in any order, and other people's posts.          *)
(***************************************************************************)
EXTENDS Naturals, Sequences, FiniteSets

CONSTANTS
    ITEM_COUNT,     \* rows of one page (20 in the code)
    LastTab,        \* the tabs are 0 .. LastTab
    BoardSize,      \* articles of each tab when the screen opens
    MaxPage,        \* bound: pages the user scrolls to
    MaxRequests,    \* bound: requests sent by the screen
    MaxPosts        \* bound: articles other residents post meanwhile

ASSUME BoardAssumption ==
    /\ ITEM_COUNT \in Nat \ {0}
    /\ LastTab \in Nat
    /\ BoardSize \in Nat
    /\ MaxPage \in Nat
    /\ MaxRequests \in Nat
    /\ MaxPosts \in Nat

VARIABLES
    OBJ_SOSIK,      \* the rows shown, in the order shown
    FETCHING_MORE,  \* the lock of the paging gesture
    PAGE_NUMBER,    \* the last page asked for
    MN_POSITION,    \* the tab selected
    inflight,       \* requests sent and not yet answered
    sent,           \* how many requests were sent (names the next one)
    board,          \* the server's articles of each tab, newest first
    overlap,        \* history: two requests were unanswered together since
                    \* the last reload that found none unanswered
    reloaded        \* history: the list was reloaded

vars == <<OBJ_SOSIK, FETCHING_MORE, PAGE_NUMBER, MN_POSITION, inflight, sent, board, overlap,
          reloaded>>

Tabs == 0 .. LastTab
Article == Nat

(* A row remembers where it came from: the tab and page of the request     *)
(* that fetched it and its place in that page.                             *)
Row == [tab : Tabs, art : Article, page : Nat, pos : Nat]

Request == [id : Nat, tab : Tabs, page : Nat, served : BOOLEAN, rows : Seq(Row)]

-----------------------------------------------------------------------------
(* What the server answers for limit_start = page * ITEM_COUNT.            *)
PageLength(tab, page) ==
    IF Len(board[tab]) <= page * ITEM_COUNT THEN 0
    ELSE IF Len(board[tab]) - page * ITEM_COUNT < ITEM_COUNT
         THEN Len(board[tab]) - page * ITEM_COUNT
         ELSE ITEM_COUNT

PageRows(tab, page) ==
    [i \in 1 .. PageLength(tab, page) |->
        [tab |-> tab, art |-> board[tab][page * ITEM_COUNT + i], page |-> page, pos |-> i]]

NewRequest(tab, page) ==
    [id |-> sent, tab |-> tab, page |-> page, served |-> FALSE, rows |-> <<>>]

(* Mutant of GET_SOSIK_L2: a reload does not empty the list.               *)
GetWithoutClearing(tab, page, online) ==
    /\ OBJ_SOSIK' = OBJ_SOSIK
    /\ inflight' = IF online THEN inflight \cup {NewRequest(tab, page)} ELSE inflight
    /\ sent' = IF online THEN sent + 1 ELSE sent
    /\ overlap' = \/ inflight # {} /\ (online \/ page = 0)
                  \/ page # 0 /\ overlap

(* GET_SOSIK_L2 (GET_MEDICAL_L): LM_START = 0 empties the list at the      *)
(* call; a request goes out only if the network check succeeds (online).   *)
GET_SOSIK_L2(tab, page, online) ==
    /\ OBJ_SOSIK' = IF page = 0 THEN <<>> ELSE OBJ_SOSIK
    /\ inflight' = IF online THEN inflight \cup {NewRequest(tab, page)} ELSE inflight
    /\ sent' = IF online THEN sent + 1 ELSE sent
    /\ overlap' = \/ inflight # {} /\ (online \/ page = 0)
                  \/ page # 0 /\ overlap

-----------------------------------------------------------------------------
(* The screen opens: viewDidLoad (viewWillAppear for the community menu)   *)
(* asks for page 0.                                                        *)
Init ==
    /\ OBJ_SOSIK = <<>>
    /\ FETCHING_MORE = FALSE
    /\ PAGE_NUMBER = 0
    /\ MN_POSITION = 0
    /\ board = [tab \in Tabs |-> [i \in 1 .. BoardSize |-> BoardSize + 1 - i]]
    /\ overlap = FALSE /\ reloaded = FALSE
    /\ \/ inflight = {} /\ sent = 0
       \/ /\ inflight = {[id |-> 0, tab |-> 0, page |-> 0, served |-> FALSE, rows |-> <<>>]}
          /\ sent = 1

(* Mutant of ScrollToEnd: the gesture does not look at the lock.           *)
ScrollToEndUnlocked ==
    /\ Len(OBJ_SOSIK) > 3
    /\ PAGE_NUMBER < MaxPage
    /\ FETCHING_MORE' = TRUE
    /\ PAGE_NUMBER' = PAGE_NUMBER + 1
    /\ \E online \in BOOLEAN :
        /\ online => sent < MaxRequests
        /\ GET_SOSIK_L2(MN_POSITION, PAGE_NUMBER + 1, online)
    /\ UNCHANGED <<MN_POSITION, board, reloaded>>

(* scrollViewDidEndDecelerating at the end of the table.                   *)
ScrollToEnd ==
    /\ Len(OBJ_SOSIK) > 3
    /\ ~FETCHING_MORE
    /\ PAGE_NUMBER < MaxPage
    /\ FETCHING_MORE' = TRUE
    /\ PAGE_NUMBER' = PAGE_NUMBER + 1
    /\ \E online \in BOOLEAN :
        /\ online => sent < MaxRequests
        /\ GET_SOSIK_L2(MN_POSITION, PAGE_NUMBER + 1, online)
    /\ UNCHANGED <<MN_POSITION, board, reloaded>>

(* GET_SOSIK_L2(LM_START: 0) on a screen already shown: the answer of      *)
(* PUT_WRITE, viewWillAppear of the community menu with an empty list, or  *)
(* MENU_V for the tab already selected.  PAGE_NUMBER and FETCHING_MORE are *)
(* left as they are.                                                       *)
Refresh ==
    /\ reloaded' = TRUE
    /\ \E online \in BOOLEAN :
        /\ online => sent < MaxRequests
        /\ GET_SOSIK_L2(MN_POSITION, 0, online)
    /\ UNCHANGED <<FETCHING_MORE, PAGE_NUMBER, MN_POSITION, board>>

(* MENU_V: another tab is selected and its page 0 is asked for.            *)
(* PAGE_NUMBER and FETCHING_MORE stay those of the tab before.             *)
MENU_V(tab) ==
    /\ tab # MN_POSITION
    /\ MN_POSITION' = tab
    /\ reloaded' = TRUE
    /\ \E online \in BOOLEAN :
        /\ online => sent < MaxRequests
        /\ GET_SOSIK_L2(tab, 0, online)
    /\ UNCHANGED <<FETCHING_MORE, PAGE_NUMBER, board>>

(* Another resident posts an article (a place is added to the list).       *)
Post(tab) ==
    /\ Len(board[tab]) < BoardSize + MaxPosts
    /\ board' = [board EXCEPT ![tab] = <<Len(board[tab]) + 1>> \o board[tab]]
    /\ UNCHANGED <<OBJ_SOSIK, FETCHING_MORE, PAGE_NUMBER, MN_POSITION, inflight, sent, overlap,
                   reloaded>>

(* The server reads the page; the answer travels back afterwards.          *)
Serve(r) ==
    /\ ~r.served
    /\ inflight' = (inflight \ {r}) \cup
                     {[r EXCEPT !.served = TRUE, !.rows = PageRows(r.tab, r.page)]}
    /\ UNCHANGED <<OBJ_SOSIK, FETCHING_MORE, PAGE_NUMBER, MN_POSITION, sent, board, overlap,
                   reloaded>>

(* The completion handler, whatever the answer: it ends with               *)
(* FETCHING_MORE = false.                                                  *)
Complete(r) ==
    /\ inflight' = inflight \ {r}
    /\ FETCHING_MORE' = FALSE
    /\ UNCHANGED <<PAGE_NUMBER, MN_POSITION, sent, board, overlap, reloaded>>

(* Mutant of AnswerRows: the loop over the array starts one row late.      *)
AnswerRowsButFirst(r) ==
    /\ r.served /\ r.rows # <<>>
    /\ OBJ_SOSIK' = OBJ_SOSIK \o Tail(r.rows)
    /\ Complete(r)

(* The answer is an array: its rows are appended to whatever is shown now. *)
AnswerRows(r) ==
    /\ r.served /\ r.rows # <<>>
    /\ OBJ_SOSIK' = OBJ_SOSIK \o r.rows
    /\ Complete(r)

(* The answer is not an array: the end of the board.  With a list on the   *)
(* screen the user is told that there is no more data.                     *)
AnswerNoMore(r) ==
    /\ r.served /\ r.rows = <<>>
    /\ UNCHANGED OBJ_SOSIK
    /\ Complete(r)

(* Mutant of AnswerFailure: a failure returns before the lock is released. *)
AnswerFailureKeepingLock(r) ==
    /\ inflight' = inflight \ {r}
    /\ UNCHANGED <<OBJ_SOSIK, FETCHING_MORE, PAGE_NUMBER, MN_POSITION, sent, board, overlap,
                   reloaded>>

(* No answer (time-out, connection lost) or one that is not JSON.          *)
AnswerFailure(r) ==
    /\ UNCHANGED OBJ_SOSIK
    /\ Complete(r)

Answer(r) == AnswerRows(r) \/ AnswerNoMore(r) \/ AnswerFailure(r)

Next ==
    \/ ScrollToEnd
    \/ Refresh
    \/ \E tab \in Tabs : MENU_V(tab) \/ Post(tab)
    \/ \E r \in inflight : Serve(r) \/ Answer(r)

Spec == Init /\ [][Next]_vars

(* A request is answered or fails after the time-out of the session; the   *)
(* user and the other residents need never act.                            *)
AnswerNumber(n) == \E r \in inflight : r.id = n /\ Answer(r)

FairSpec == Spec /\ \A n \in 0 .. MaxRequests - 1 : WF_vars(AnswerNumber(n))
-----------------------------------------------------------------------------
(* Properties.                                                             *)

(* Types of the list, its lock and its requests (VC_SOSIK 22-27).          *)
TypeOK ==
    /\ OBJ_SOSIK \in Seq(Row)
    /\ FETCHING_MORE \in BOOLEAN
    /\ PAGE_NUMBER \in Nat
    /\ MN_POSITION \in Tabs
    /\ inflight \subseteq Request
    /\ sent \in Nat
    /\ board \in [Tabs -> Seq(Article)]
    /\ overlap \in BOOLEAN
    /\ reloaded \in BOOLEAN

Before(a, b) == a.page < b.page \/ (a.page = b.page /\ a.pos < b.pos)

(* However reloads, tabs and pages interleave, a row of a later page is    *)
(* never shown twice: PAGE_NUMBER only grows, whatever the tab, so each    *)
(* later page is fetched once (VC_SOSIK 253).  Only the first page can     *)
(* repeat.                                                                 *)
LaterRowsOnce ==
    \A i, j \in DOMAIN OBJ_SOSIK :
        /\ OBJ_SOSIK[i].page = OBJ_SOSIK[j].page
        /\ OBJ_SOSIK[i].pos = OBJ_SOSIK[j].pos
        => i = j \/ OBJ_SOSIK[i].page = 0

(* The list shows rows of the selected tab, in the server's order, none of *)
(* them fetched twice, unless two requests of the screen were unanswered   *)
(* together since the last clean reload: the completion handler appends to *)
(* whatever list is there when it runs (P_SOSIK 87, P_MEDICAL 76) and this *)
(* is all that protects it.  Rows of later pages are never shown twice.    *)
InServerOrder ==
    /\ ~overlap =>
           /\ \A i \in DOMAIN OBJ_SOSIK : OBJ_SOSIK[i].tab = MN_POSITION
           /\ \A i, j \in DOMAIN OBJ_SOSIK :
                  i < j => Before(OBJ_SOSIK[i], OBJ_SOSIK[j])
    /\ LaterRowsOnce

PagesShown == {OBJ_SOSIK[i].page : i \in DOMAIN OBJ_SOSIK}
ArticlesShown == {OBJ_SOSIK[i].art : i \in DOMAIN OBJ_SOSIK}
FirstPageShown == {OBJ_SOSIK[i].art : i \in {j \in DOMAIN OBJ_SOSIK : OBJ_SOSIK[j].page = 0}}

(* Paging by offset while others post: as long as no page was lost and no  *)
(* requests overlapped, no article is missing from the list down from any  *)
(* of its first page (articles may be shown twice, never skipped).  Of     *)
(* those posted since, some may be missing: a later page can begin above   *)
(* the first one.  Pages are lost by a failure, and by MENU_V, after which *)
(* the next page asked for follows the last one of the other tab           *)
(* (VC_MEDICAL 110, 152).                                                  *)
NoArticleMissed ==
    (~overlap /\ \A p \in PagesShown : \A q \in 0 .. p : q \in PagesShown) =>
        \A a \in ArticlesShown, b \in FirstPageShown : a .. b \subseteq ArticlesShown

(* Until the list is reloaded, the lock and the "more than 3 rows" guard   *)
(* keep the requests one at a time: the first load hides behind the empty  *)
(* list, every later one behind FETCHING_MORE (VC_SOSIK 252).              *)
OneRequestAtATime == ~reloaded => ~overlap

PagePending == \E r \in inflight : r.page = PAGE_NUMBER

(* A paging lock whose request is really under way is released or keeps    *)
(* that request: only the offline early return (P_SOSIK 16), which skips  *)
(* the completion handler, leaves the lock set with nothing to release it. *)
LockKept ==
    [][FETCHING_MORE /\ PagePending /\ FETCHING_MORE' => PagePending']_vars

(* ... and such a lock is released in the end.                             *)
LockReleased == (FETCHING_MORE /\ PagePending) ~> ~FETCHING_MORE

(* What the alert of P_SOSIK 90 ("no more data to load") says: when it is *)
(* shown on a list that was not reloaded, every article of the board is in *)
(* the list.                                                               *)
NoMoreDataIsTrue ==
    [][\A r \in inflight : AnswerNoMore(r) /\ OBJ_SOSIK # <<>> /\ ~reloaded =>
           \A i \in DOMAIN board[MN_POSITION] : board[MN_POSITION][i] \in ArticlesShown]_vars

(* The list keeps the promise of SelectedList, for each tab page by page:  *)
(* the gestures and the answers' one handler (P_SOSIK 29, 87) make no list *)
(* of two tabs, and change no row shown but by emptying the list.          *)
TabOf(row) == row.tab

Selected == INSTANCE SelectedList WITH
    Of <- TabOf,
    Paged <- Tabs,
    selection <- MN_POSITION,
    shown <- OBJ_SOSIK,
    waiting <- inflight # {},
    crossed <- overlap

KeepsSelection == Selected!Spec

=============================================================================
