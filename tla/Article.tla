------------------------------ MODULE Article ------------------------------
(***************************************************************************)
(* An article's page VC_SOSIK_1 with its comments (P_SOSIK_1), and the     *)
(* screens it is opened from: the home tab TBC_0, a board VC_SOSIK, and,   *)
(* over the community board, a group's page VC_COMMUNITY_1.                *)
(*                                                                         *)
(* The lists are known to the page only as APPDELEGATE.VC_SOSIK_DEL and    *)
(* VC_COMMUNITY_1_DEL, set when a list loads and cleared when the home tab *)
(* (or the list of groups) appears.  Opening an article and commenting on  *)
(* it count at the POSITION the page was given, in whatever list these     *)
(* refer to by then.                                                       *)
(***************************************************************************)
EXTENDS Naturals, Sequences, FiniteSets

CONSTANTS
    Articles,
    Boards,         \* kinds of board; over "community" are the groups
    Listing,        \* articles listed by each board and by "group"
    Deleted,        \* articles still listed whose content is gone
    Texts,          \* comments a resident writes
    MaxPages,       \* bound: articles opened
    MaxRequests     \* bound: requests sent

ASSUME ArticleAssumption ==
    /\ Listing \in [Boards \cup {"group"} -> Seq(Articles)]
    /\ Deleted \subseteq Articles
    /\ MaxPages \in Nat /\ MaxRequests \in Nat

NoText == "empty"

VARIABLES
    screen,         \* the screen shown
    tab,            \* the tab selected: "home" or another
    kind,           \* the kind of the board opened last
    OBJ_SOSIK,      \* rows of that board
    groupRows,      \* OBJ_SOSIK of the group's page opened last
    VC_SOSIK_DEL, VC_COMMUNITY_1_DEL,      \* whether they are referred to
    pages,          \* the article pages opened, in order
    inflight, sent,
    comments,       \* server: the comments of each article
    crashed         \* an index was out of range

lists == <<kind, OBJ_SOSIK, groupRows, VC_SOSIK_DEL, VC_COMMUNITY_1_DEL>>
nav == <<screen, tab>>
vars == <<nav, lists, pages, inflight, sent, comments, crashed>>

(* A comment is named by the request that sent it.                         *)
Comment == [id : Nat, text : Texts \cup {NoText}]

Row == [art : Articles, READ_CNT : Nat, COMMENT_CNT : Nat]

(* from: what was tapped.  early, crossed, left are history: a comment was *)
(* sent before the article was shown; the field changed, or a second       *)
(* comment was sent, with one unanswered; one was answered after the page  *)
(* was left.                                                               *)
Page == [art : Articles, from : {"row", "picture", "home", "group"}, POSITION : Nat,
         OBJ_SOSIK : BOOLEAN, OBJ_COMMENT : Seq(Comment), COMMENT_TF : Texts \cup {NoText},
         alert : BOOLEAN, early : BOOLEAN, crossed : BOOLEAN, left : BOOLEAN]

(* op "board" or "group": a list; "detail", "insert": of the page.         *)
Request == [id : Nat, op : {"board", "group", "detail", "insert"}, page : Nat,
            text : Texts \cup {NoText}, served : BOOLEAN, success : BOOLEAN,
            rows : Seq(Row), found : Seq(Comment)]

NewRequest(id, op, page, text) ==
    [id |-> id, op |-> op, page |-> page, text |-> text, served |-> FALSE, success |-> FALSE,
     rows |-> <<>>, found |-> <<>>]

open == Len(pages)      \* the page shown on screen "article"
Unanswered(op, page) == \E r \in inflight : r.op = op /\ r.page = page

-----------------------------------------------------------------------------
(* Requests go out only if the network check succeeds.                     *)
Send(pending, ops) ==
    \/ /\ sent + Cardinality(ops) <= MaxRequests
       /\ inflight' = pending \cup {NewRequest(sent, op, 0, NoText) : op \in ops}
       /\ sent' = sent + Cardinality(ops)
    \/ inflight' = pending /\ UNCHANGED sent

(* What is left of the lists and their requests once neither the stack nor *)
(* a reference holds them: the board below the home tab, the group below   *)
(* the list of groups.                                                     *)
BoardGone == screen' = "home"
GroupGone == screen' \in {"home", "board", "groups"}
Held == {r \in inflight : ~(r.op = "board" /\ BoardGone) /\ ~(r.op = "group" /\ GroupGone)}

(* Mutant of Forgotten: the home tab does not clear VC_SOSIK_DEL.          *)
ForgottenByGroups(s) ==
    /\ VC_SOSIK_DEL' = VC_SOSIK_DEL
    /\ VC_COMMUNITY_1_DEL' = (VC_COMMUNITY_1_DEL /\ s \notin {"home", "groups"})

Forgotten(s) ==
    /\ VC_SOSIK_DEL' = (VC_SOSIK_DEL /\ s # "home")
    /\ VC_COMMUNITY_1_DEL' = (VC_COMMUNITY_1_DEL /\ s \notin {"home", "groups"})

(* viewWillAppear of a screen: the home tab and the list of groups forget  *)
(* the lists; the community board asks for its rows while it has none.     *)
Appear(s) ==
    /\ Forgotten(s)
    /\ OBJ_SOSIK' = (IF BoardGone THEN <<>> ELSE OBJ_SOSIK)
    /\ groupRows' = (IF GroupGone THEN <<>> ELSE groupRows)
    /\ IF s = "board" /\ kind = "community" /\ OBJ_SOSIK = <<>>
       THEN Send(Held, {"board"})
       ELSE inflight' = Held /\ UNCHANGED sent
    /\ UNCHANGED kind

(* The screen below the one shown.                                         *)
Below == CASE screen = "board" -> tab
           [] screen = "groups" -> "board"
           [] screen = "group" -> "groups"
           [] screen = "article" ->
                CASE pages[open].from = "home" -> "home"
                  [] pages[open].from = "group" -> "group"
                  [] OTHER -> "board"
           [] OTHER -> screen

(* The screen can be left: it is no tab, and no alert covers it.           *)
CanGoBack == screen \notin {"home", "tab"} /\ (screen = "article" => ~pages[open].alert)

-----------------------------------------------------------------------------
Init ==
    /\ screen = "home" /\ tab = "home"
    /\ kind \in Boards /\ OBJ_SOSIK = <<>> /\ groupRows = <<>>
    /\ VC_SOSIK_DEL = FALSE /\ VC_COMMUNITY_1_DEL = FALSE
    /\ pages = <<>> /\ inflight = {} /\ sent = 0
    /\ comments = [a \in Articles |-> <<>>]
    /\ crashed = FALSE

SwitchTab ==
    /\ screen \in {"home", "tab"}
    /\ tab' = (IF tab = "home" THEN "tab" ELSE "home")
    /\ screen' = tab'
    /\ Appear(tab')
    /\ UNCHANGED <<pages, comments, crashed>>

(* loadView and viewDidLoad (viewWillAppear) of VC_SOSIK.                  *)
OpenBoard(k) ==
    /\ screen \in {"home", "tab"}
    /\ screen' = "board"
    /\ kind' = k /\ OBJ_SOSIK' = <<>> /\ VC_SOSIK_DEL' = TRUE
    /\ Send({r \in inflight : r.op # "board"}, {"board"})
    /\ UNCHANGED <<tab, groupRows, VC_COMMUNITY_1_DEL, pages, comments, crashed>>

(* DETAIL_B of the community board; then a group.                          *)
OpenGroups ==
    /\ screen = "board" /\ kind = "community" /\ screen' = "groups"
    /\ Appear("groups")
    /\ UNCHANGED <<tab, pages, comments, crashed>>

OpenGroup ==
    /\ screen = "groups" /\ screen' = "group"
    /\ groupRows' = <<>> /\ VC_COMMUNITY_1_DEL' = TRUE
    /\ Send({r \in inflight : r.op # "group"}, {"group"})
    /\ UNCHANGED <<tab, kind, OBJ_SOSIK, VC_SOSIK_DEL, pages, comments, crashed>>

(* A swipe back, completed or let go: the screen below appears either way. *)
Swipe(completed) ==
    /\ CanGoBack
    /\ screen' = (IF completed THEN Below ELSE screen)
    /\ Appear(Below)
    /\ UNCHANGED <<tab, pages, comments, crashed>>

(* An article was written from the list shown: PUT_WRITE reloads the lists *)
(* referred to.                                                            *)
Reload ==
    /\ screen \in {"board", "group"} /\ (screen = "board" => kind # "community")
    /\ OBJ_SOSIK' = (IF VC_SOSIK_DEL THEN <<>> ELSE OBJ_SOSIK)
    /\ groupRows' = (IF VC_COMMUNITY_1_DEL THEN <<>> ELSE groupRows)
    /\ Send(inflight, {op \in {"board", "group"} :
                         \/ op = "board" /\ VC_SOSIK_DEL
                         \/ op = "group" /\ VC_COMMUNITY_1_DEL})
    /\ UNCHANGED <<nav, kind, VC_SOSIK_DEL, VC_COMMUNITY_1_DEL, pages, comments, crashed>>

NewPage(art, from, position) ==
    [art |-> art, from |-> from, POSITION |-> position, OBJ_SOSIK |-> FALSE, OBJ_COMMENT |-> <<>>,
     COMMENT_TF |-> NoText, alert |-> FALSE, early |-> FALSE, crossed |-> FALSE, left |-> FALSE]

(* viewDidLoad of VC_SOSIK_1: a reading is counted, the article asked for. *)
(* (The group's table has no section 3 to redraw a row of.)                *)
OpenArticle(art, from, position) ==
    /\ open < MaxPages
    /\ screen' = "article"
    /\ pages' = Append(pages, NewPage(art, from, position))
    /\ IF ~VC_SOSIK_DEL THEN UNCHANGED OBJ_SOSIK
       ELSE IF position \in DOMAIN OBJ_SOSIK
       THEN OBJ_SOSIK' = [OBJ_SOSIK EXCEPT ![position].READ_CNT = @ + 1]
       ELSE UNCHANGED OBJ_SOSIK
    /\ crashed' = \/ VC_SOSIK_DEL /\ position \notin DOMAIN OBJ_SOSIK
                  \/ VC_COMMUNITY_1_DEL
    /\ \/ /\ sent < MaxRequests
          /\ inflight' = inflight \cup {NewRequest(sent, "detail", open + 1, NoText)}
          /\ sent' = sent + 1
       \/ UNCHANGED <<inflight, sent>>
    /\ UNCHANGED <<tab, kind, groupRows, VC_SOSIK_DEL, VC_COMMUNITY_1_DEL, comments>>

(* A row of the board or of a group; a picture in a row, which passes no   *)
(* POSITION; a notice of the home tab, or a push.                          *)
TapRow(i) == screen = "board" /\ OpenArticle(OBJ_SOSIK[i].art, "row", i)
TapPicture(i) == screen = "board" /\ OpenArticle(OBJ_SOSIK[i].art, "picture", 1)
TapGroupRow(i) == screen = "group" /\ OpenArticle(groupRows[i].art, "group", i)
TapGroupPicture(i) == screen = "group" /\ OpenArticle(groupRows[i].art, "group", 1)
TapNotice(art) == screen = "home" /\ OpenArticle(art, "home", 1)

-----------------------------------------------------------------------------
OnPage == screen = "article" /\ ~pages[open].alert

(* COMMENT_TF: the field is edited.                                        *)
Edit(text) ==
    /\ OnPage /\ text # pages[open].COMMENT_TF
    /\ pages' = [pages EXCEPT ![open].COMMENT_TF = text,
                              ![open].crossed = @ \/ Unanswered("insert", open)]
    /\ UNCHANGED <<nav, lists, inflight, sent, comments, crashed>>

(* COMMENT_B, PUT_COMMENT.  (Offline, or with an empty field, a notice.)   *)
COMMENT_B ==
    /\ OnPage /\ pages[open].COMMENT_TF # NoText
    /\ sent < MaxRequests
    /\ inflight' = inflight \cup {NewRequest(sent, "insert", open, pages[open].COMMENT_TF)}
    /\ sent' = sent + 1
    /\ pages' = [pages EXCEPT ![open].early = @ \/ ~pages[open].OBJ_SOSIK,
                              ![open].crossed = @ \/ Unanswered("insert", open)]
    /\ UNCHANGED <<nav, lists, comments, crashed>>

(* The alert of deleted content: its button leaves the page.               *)
LeaveDeleted ==
    /\ screen = "article" /\ pages[open].alert
    /\ screen' = Below
    /\ Appear(Below)
    /\ pages' = [pages EXCEPT ![open].alert = FALSE]
    /\ UNCHANGED <<tab, comments, crashed>>

-----------------------------------------------------------------------------
(* A list, newest first, of which the newest may not be there yet.     *)
RowsOf(name, missing) ==
    LET listed == SubSeq(Listing[name], missing + 1, Len(Listing[name]))
    IN  [i \in DOMAIN listed |->
            [art |-> listed[i], READ_CNT |-> 0, COMMENT_CNT |-> Len(comments[listed[i]])]]

Served(r, s) == inflight' = (inflight \ {r}) \cup {s}

(* The server answers: a list; an article, none when it is deleted; ...    *)
Serve(r, missing) ==
    /\ ~r.served /\ r.op # "insert"
    /\ r.op = "detail" => missing = 0
    /\ Served(r, [r EXCEPT
          !.served = TRUE,
          !.rows = CASE r.op = "board" -> RowsOf(kind, missing)
                     [] r.op = "group" -> RowsOf("group", missing)
                     [] r.op = "detail" -> <<>>,
          !.found = IF r.op = "detail" THEN comments[pages[r.page].art] ELSE <<>>])
    /\ UNCHANGED <<nav, lists, pages, sent, comments, crashed>>

(* ... and adds a comment, or refuses it.                                  *)
ServeInsert(r, success) ==
    /\ ~r.served /\ r.op = "insert"
    /\ Served(r, [r EXCEPT !.served = TRUE, !.success = success])
    /\ comments' = IF success
                   THEN [comments EXCEPT ![pages[r.page].art] =
                            Append(@, [id |-> r.id, text |-> r.text])]
                   ELSE comments
    /\ UNCHANGED <<nav, lists, pages, sent, crashed>>

(* Mutant of AnswerList: the newest answer is put on top.                  *)
AnswerListOnTop(r) ==
    /\ r.served /\ r.op \in {"board", "group"}
    /\ inflight' = inflight \ {r}
    /\ OBJ_SOSIK' = (IF r.op = "board" THEN r.rows \o OBJ_SOSIK ELSE OBJ_SOSIK)
    /\ groupRows' = (IF r.op = "group" THEN r.rows \o groupRows ELSE groupRows)
    /\ UNCHANGED <<nav, kind, VC_SOSIK_DEL, VC_COMMUNITY_1_DEL, pages, sent, comments, crashed>>

(* Completion handlers: of GET_SOSIK_L2, ...                               *)
AnswerList(r) ==
    /\ r.served /\ r.op \in {"board", "group"}
    /\ inflight' = inflight \ {r}
    /\ OBJ_SOSIK' = (IF r.op = "board" THEN OBJ_SOSIK \o r.rows ELSE OBJ_SOSIK)
    /\ groupRows' = (IF r.op = "group" THEN groupRows \o r.rows ELSE groupRows)
    /\ UNCHANGED <<nav, kind, VC_SOSIK_DEL, VC_COMMUNITY_1_DEL, pages, sent, comments, crashed>>

(* ... of GET_SOSIK_D1 (GET_SOSIK_DL, GET_COMMENT), ...                    *)
AnswerDetail(r) ==
    /\ r.served /\ r.op = "detail"
    /\ inflight' = inflight \ {r}
    /\ pages' = [pages EXCEPT
          ![r.page].OBJ_SOSIK = TRUE,
          ![r.page].OBJ_COMMENT = @ \o r.found,
          ![r.page].alert = screen = "article" /\ r.page = open
                            /\ pages[r.page].art \in Deleted]
    /\ UNCHANGED <<nav, lists, sent, comments, crashed>>

(* Mutant of CountComment: the count goes down.                            *)
CountDown(position) ==
    /\ OBJ_SOSIK' = IF VC_SOSIK_DEL /\ position \in DOMAIN OBJ_SOSIK
                    THEN [OBJ_SOSIK EXCEPT ![position].COMMENT_CNT = @ - 1]
                    ELSE OBJ_SOSIK
    /\ UNCHANGED <<kind, groupRows, VC_SOSIK_DEL, VC_COMMUNITY_1_DEL>>

(* The row at the page's POSITION, in the board referred to by now.        *)
CountComment(position) ==
    /\ OBJ_SOSIK' = IF VC_SOSIK_DEL /\ position \in DOMAIN OBJ_SOSIK
                    THEN [OBJ_SOSIK EXCEPT ![position].COMMENT_CNT = @ + 1]
                    ELSE OBJ_SOSIK
    /\ UNCHANGED <<kind, groupRows, VC_SOSIK_DEL, VC_COMMUNITY_1_DEL>>

(* Mutant of ShownText: the field is emptied first.                        *)
ShownTextEmptied(page) == NoText

ShownText(page) == page.COMMENT_TF

(* ... of PUT_COMMENT, "success": the comment shown is what the field      *)
(* holds now; the page scrolls to it, in section 4 of a table that has no  *)
(* sections before the article is there; ...                               *)
AnswerInsert(r) ==
    /\ r.served /\ r.op = "insert" /\ r.success
    /\ inflight' = inflight \ {r}
    /\ CountComment(pages[r.page].POSITION)
    /\ pages' = [pages EXCEPT
          ![r.page].OBJ_COMMENT = <<[id |-> r.id, text |-> ShownText(pages[r.page])]>> \o @,
          ![r.page].COMMENT_TF = NoText,
          ![r.page].left = @ \/ screen # "article" \/ r.page # open]
    /\ crashed' = \/ VC_SOSIK_DEL /\ pages[r.page].POSITION \notin DOMAIN OBJ_SOSIK
                  \/ ~pages[r.page].OBJ_SOSIK
    /\ UNCHANGED <<nav, sent, comments>>

(* ... refused: a notice; any of them lost: an alert, nothing else.        *)
Unheard(r) ==
    /\ inflight' = inflight \ {r}
    /\ UNCHANGED <<nav, lists, pages, sent, comments, crashed>>

Next ==
    /\ ~crashed
    /\ \/ SwitchTab \/ OpenGroups \/ OpenGroup \/ Reload
       \/ \E k \in Boards : OpenBoard(k)
       \/ \E completed \in BOOLEAN : Swipe(completed)
       \/ \E i \in DOMAIN OBJ_SOSIK : TapRow(i) \/ TapPicture(i)
       \/ \E i \in DOMAIN groupRows : TapGroupRow(i) \/ TapGroupPicture(i)
       \/ \E art \in Articles : TapNotice(art)
       \/ \E text \in Texts \cup {NoText} : Edit(text)
       \/ COMMENT_B \/ LeaveDeleted
       \/ \E r \in inflight :
            \/ \E missing \in {0, 1} : Serve(r, missing)
            \/ AnswerList(r) \/ AnswerDetail(r) \/ AnswerInsert(r) \/ Unheard(r)
            \/ \E success \in BOOLEAN : ServeInsert(r, success)

Spec == Init /\ [][Next]_vars
-----------------------------------------------------------------------------
(* Properties.                                                             *)

(* Types of the screens, the pages and the requests.                       *)
TypeOK ==
    /\ screen \in {"home", "tab", "board", "groups", "group", "article"}
    /\ tab \in {"home", "tab"}
    /\ kind \in Boards
    /\ OBJ_SOSIK \in Seq(Row) /\ groupRows \in Seq(Row)
    /\ VC_SOSIK_DEL \in BOOLEAN /\ VC_COMMUNITY_1_DEL \in BOOLEAN
    /\ pages \in Seq(Page)
    /\ inflight \subseteq Request /\ sent \in Nat
    /\ comments \in [Articles -> Seq(Comment)]
    /\ crashed \in BOOLEAN

(* While an article opened by tapping its row of a board is shown, the     *)
(* POSITION it was given stays that row: answers on their way only add     *)
(* rows below, and nothing empties the board (P_SOSIK 87, VC_SOSIK 234).   *)
RowIsItsArticle ==
    screen = "article" /\ pages[open].from = "row" =>
        /\ pages[open].POSITION \in DOMAIN OBJ_SOSIK
        /\ OBJ_SOSIK[pages[open].POSITION].art = pages[open].art

(* An article opened from the home tab counts in no list: the lists left   *)
(* behind were forgotten when the tab appeared (TBC_0 202, VC_SOSIK_1 55). *)
NoticeCountsNowhere ==
    screen = "article" /\ pages[open].from = "home" => ~VC_SOSIK_DEL /\ ~VC_COMMUNITY_1_DEL

(* Both: an article counts in the row it was opened by, or in none.        *)
CountsInItsRow == RowIsItsArticle /\ NoticeCountsNowhere

(* A resident who opens articles by their rows or from the home tab, lets  *)
(* them load before commenting, and stays for the answer.                  *)
Patient(p) == ~pages[p].early /\ ~pages[p].left
Careful == \A p \in DOMAIN pages : Patient(p) /\ pages[p].from \in {"row", "home"}

(* The counts of a row, "read n, comments n", are never ahead: each        *)
(* comment counted is one the server has of that article, each reading one *)
(* of its openings (P_SOSIK_1 152, VC_SOSIK_1 56).                         *)
CountsTrue ==
    \A i \in DOMAIN OBJ_SOSIK :
        /\ OBJ_SOSIK[i].COMMENT_CNT <= Len(comments[OBJ_SOSIK[i].art])
        /\ OBJ_SOSIK[i].READ_CNT <=
               Cardinality({p \in DOMAIN pages : pages[p].art = OBJ_SOSIK[i].art})

(* A careful resident sees no count ahead and meets no index out of range  *)
(* (VC_SOSIK_1 56, P_SOSIK_1 152, 164), whatever lists were opened and     *)
(* reloaded before.                                                        *)
CarefulIsSafe == Careful => CountsTrue /\ ~crashed

(* A comment shown has the text the server has under its name, unless the  *)
(* field was edited, or used again, before the answer (P_SOSIK_1 157).     *)
ShownAsSent ==
    \A p \in DOMAIN pages : ~pages[p].crossed =>
        \A i \in DOMAIN pages[p].OBJ_COMMENT :
            \E j \in DOMAIN comments[pages[p].art] :
                comments[pages[p].art][j] = pages[p].OBJ_COMMENT[i]

(* No comment is shown twice, unless one was sent before the page's own    *)
(* answer, which then holds it too (P_SOSIK_1 161, 122).                   *)
ShownOnce ==
    \A p \in DOMAIN pages : ~pages[p].early =>
        \A i, j \in DOMAIN pages[p].OBJ_COMMENT :
            pages[p].OBJ_COMMENT[i].id = pages[p].OBJ_COMMENT[j].id => i = j

(* Both: a page shows comments of the server, each once.                   *)
CommentsAreTrue == ShownAsSent /\ ShownOnce
=============================================================================
