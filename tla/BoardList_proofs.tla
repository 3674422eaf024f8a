-------------------------- MODULE BoardList_proofs --------------------------
(***************************************************************************)
(* Safety of the paged list for every page length, board and schedule.     *)
(***************************************************************************)
EXTENDS BoardList, SequenceTheorems, TLAPS

(* Every page shown or asked for was reached by the paging gesture.        *)
PagesReached ==
    /\ \A i \in DOMAIN OBJ_SOSIK : OBJ_SOSIK[i].page <= PAGE_NUMBER
    /\ \A r \in inflight : r.page <= PAGE_NUMBER

(* The rows travelling back are those of the page asked for, in order.     *)
RowsOfPage ==
    \A r \in inflight : \A k \in DOMAIN r.rows :
        r.rows[k].tab = r.tab /\ r.rows[k].page = r.page /\ r.rows[k].pos = k

(* A later page is under way at most once, and never when it is shown.     *)
LaterPagesOnce ==
    /\ \A r, s \in inflight : r.page = s.page => r = s \/ r.page = 0
    /\ \A r \in inflight, i \in DOMAIN OBJ_SOSIK :
           r.page # 0 => OBJ_SOSIK[i].page # r.page

(* Without overlap one request at most is under way, for the tab selected  *)
(* and a page after all those shown.                                       *)
OneAhead ==
    ~overlap => /\ \A r, s \in inflight : r = s
                /\ \A r \in inflight : r.tab = MN_POSITION
                /\ \A r \in inflight, i \in DOMAIN OBJ_SOSIK :
                       OBJ_SOSIK[i].page < r.page

(* Until the list is reloaded a request hides behind the lock or behind    *)
(* the list being empty.                                                   *)
Hidden ==
    ~reloaded => /\ ~overlap
                 /\ inflight # {} => FETCHING_MORE \/ OBJ_SOSIK = <<>>

IInv ==
    /\ TypeOK /\ PagesReached /\ RowsOfPage /\ LaterPagesOnce
    /\ OneAhead /\ InServerOrder /\ Hidden

-----------------------------------------------------------------------------
(* What the server answers is a sequence of rows, tagged with its page and *)
(* numbered from 1.                                                        *)
LEMMA PageRowsOfPage ==
    ASSUME NEW tab \in Tabs, NEW page \in Nat, board \in [Tabs -> Seq(Article)]
    PROVE  /\ PageRows(tab, page) \in Seq(Row)
           /\ \A k \in DOMAIN PageRows(tab, page) :
                  /\ PageRows(tab, page)[k].tab = tab
                  /\ PageRows(tab, page)[k].page = page
                  /\ PageRows(tab, page)[k].pos = k
<1> DEFINE start == page * ITEM_COUNT
           n == PageLength(tab, page)
           rows == board[tab]
<1>1. start \in Nat
  BY BoardAssumption
<1>0. rows \in Seq(Article)
  OBVIOUS
<1>2. n \in Nat /\ (n > 0 => start + n <= Len(rows))
  <2>1. Len(rows) \in Nat
    BY <1>0, LenProperties
  <2>2. n = IF Len(rows) <= start THEN 0
            ELSE IF Len(rows) - start < ITEM_COUNT THEN Len(rows) - start
                 ELSE ITEM_COUNT
    BY DEF PageLength
  <2> HIDE DEF start, n, rows
  <2>3. QED
    BY <1>1, <2>1, <2>2, BoardAssumption
<1>3. \A i \in 1 .. n : rows[start + i] \in Article
  <2> HIDE DEF start, n, rows
  <2>1. QED
    BY <1>0, <1>1, <1>2, ElementOfSeq
<1>4. PageRows(tab, page) =
        [i \in 1 .. n |-> [tab |-> tab, art |-> rows[start + i], page |-> page, pos |-> i]]
  BY DEF PageRows
<1> HIDE DEF start, n, rows
<1>5. \A i \in 1 .. n :
        [tab |-> tab, art |-> rows[start + i], page |-> page, pos |-> i] \in Row
  BY <1>2, <1>3 DEF Row
<1>6. PageRows(tab, page) \in Seq(Row)
  BY <1>2, <1>4, <1>5
<1>7. QED
  BY <1>4, <1>6

(* The screen opens in a state that satisfies the invariant.               *)
LEMMA InitInv == Init => IInv
<1> SUFFICES ASSUME Init PROVE IInv
  OBVIOUS
<1>1. board \in [Tabs -> Seq(Article)] /\ MN_POSITION = 0 /\ 0 \in Tabs
  BY BoardAssumption DEF Init, Article, Tabs
<1>2. <<>> \in Seq(Row) /\ DOMAIN <<>> = {}
  BY EmptySeq
<1>3. [id |-> 0, tab |-> 0, page |-> 0, served |-> FALSE, rows |-> <<>>] \in Request
  BY <1>1, <1>2 DEF Request
<1> DEFINE q == [id |-> 0, tab |-> 0, page |-> 0, served |-> FALSE, rows |-> <<>>]
<1>4. /\ OBJ_SOSIK = <<>> /\ FETCHING_MORE = FALSE /\ PAGE_NUMBER = 0
      /\ overlap = FALSE /\ reloaded = FALSE /\ sent \in Nat
      /\ (inflight = {} \/ inflight = {q})
  <2>1. /\ OBJ_SOSIK = <<>> /\ FETCHING_MORE = FALSE /\ PAGE_NUMBER = 0
        /\ overlap = FALSE /\ reloaded = FALSE
    BY DEF Init
  <2>2. (inflight = {} /\ sent = 0) \/ (inflight = {q} /\ sent = 1)
    BY Zenon DEF Init
  <2> HIDE DEF q
  <2>3. QED
    BY <2>1, <2>2
<1>5. q \in Request /\ q.page = 0 /\ q.tab = 0 /\ DOMAIN q.rows = {}
  BY <1>2, <1>3
<1> HIDE DEF q
<1>6. TypeOK
  BY <1>1, <1>2, <1>4, <1>5 DEF TypeOK
<1>7. QED
  BY <1>1, <1>2, <1>4, <1>5, <1>6 DEF IInv, PagesReached, RowsOfPage, LaterPagesOnce, LaterRowsOnce,
              OneAhead, InServerOrder, Hidden

(* A gesture or a reload that calls GET_SOSIK_L2 with page 0, or with the  *)
(* page after all those asked for when no lock is set.                     *)
LEMMA ScrollInv == IInv /\ ScrollToEnd => IInv'
<1> SUFFICES ASSUME IInv, ScrollToEnd PROVE IInv'
  OBVIOUS
<1> DEFINE q == NewRequest(MN_POSITION, PAGE_NUMBER + 1)
<1>1. PICK online \in BOOLEAN : GET_SOSIK_L2(MN_POSITION, PAGE_NUMBER + 1, online)
  BY DEF ScrollToEnd
<1>2. /\ PAGE_NUMBER \in Nat /\ PAGE_NUMBER' = PAGE_NUMBER + 1 /\ sent \in Nat
      /\ MN_POSITION \in Tabs /\ MN_POSITION' = MN_POSITION
  BY DEF IInv, TypeOK, ScrollToEnd
<1>3. OBJ_SOSIK' = OBJ_SOSIK /\ FETCHING_MORE' = TRUE
  BY <1>1, <1>2 DEF GET_SOSIK_L2, ScrollToEnd
<1>4. q \in Request /\ q.page = PAGE_NUMBER' /\ q.tab = MN_POSITION /\ q.rows = <<>>
  BY <1>2 DEF NewRequest, Request, Row
<1>5. inflight' = inflight \/ inflight' = inflight \cup {q}
  BY <1>1 DEF GET_SOSIK_L2
<1>6. overlap' <=> (overlap \/ (inflight # {} /\ online))
  <2>1. PAGE_NUMBER + 1 # 0
    BY <1>2
  <2>2. QED
    BY <1>1, <2>1 DEF GET_SOSIK_L2
<1>7. inflight' # inflight => online
  BY <1>1 DEF GET_SOSIK_L2
<1>8. \A r \in inflight : r \in Request /\ r.page <= PAGE_NUMBER /\ r.page \in Nat
  BY DEF IInv, TypeOK, PagesReached, Request
<1>9. \A i \in DOMAIN OBJ_SOSIK :
        OBJ_SOSIK[i].page \in Nat /\ OBJ_SOSIK[i].page <= PAGE_NUMBER
  <2>1. \A i \in DOMAIN OBJ_SOSIK : OBJ_SOSIK[i] \in Row
    BY ElementOfSeq, LenProperties DEF IInv, TypeOK
  <2>2. QED
    BY <2>1 DEF IInv, PagesReached, Row
<1> HIDE DEF q
<1>10. TypeOK'
  <2>1. /\ sent' \in Nat /\ overlap' \in BOOLEAN
        /\ UNCHANGED <<board, reloaded>>
    BY <1>1, <1>2 DEF GET_SOSIK_L2, ScrollToEnd
  <2>2. QED
    BY <2>1, <1>2, <1>3, <1>4, <1>5 DEF IInv, TypeOK
<1>11. PagesReached'
  BY <1>2, <1>3, <1>4, <1>5, <1>8, <1>9 DEF PagesReached
<1>12. RowsOfPage'
  BY <1>4, <1>5 DEF IInv, RowsOfPage
<1>13. LaterPagesOnce'
  BY <1>2, <1>3, <1>4, <1>5, <1>8, <1>9 DEF IInv, LaterPagesOnce
<1>14. InServerOrder'
  BY <1>2, <1>3, <1>6 DEF IInv, LaterRowsOnce, InServerOrder, Before
<1>15. OneAhead'
  <2> SUFFICES ASSUME ~overlap'
               PROVE  /\ \A r, s \in inflight' : r = s
                      /\ \A r \in inflight' : r.tab = MN_POSITION
                      /\ \A r \in inflight', i \in DOMAIN OBJ_SOSIK :
                             OBJ_SOSIK[i].page < r.page
    BY <1>2, <1>3 DEF OneAhead
  <2>1. ~overlap /\ (inflight = {} \/ ~online)
    BY <1>6
  <2>2. CASE ~online
    BY <2>1, <2>2, <1>7 DEF IInv, OneAhead
  <2>3. CASE inflight = {}
    BY <2>3, <1>2, <1>4, <1>5, <1>9
  <2>4. QED
    BY <2>1, <2>2, <2>3
<1>16. Hidden'
  <2>0. reloaded' = reloaded
    BY DEF ScrollToEnd
  <2>1. ~reloaded => inflight = {}
    BY DEF IInv, Hidden, ScrollToEnd, TypeOK
  <2>2. ~reloaded => ~overlap
    BY DEF IInv, Hidden
  <2>3. ~reloaded' => ~overlap'
    BY <2>0, <2>1, <2>2, <1>6
  <2>4. QED
    BY <2>3, <1>3 DEF Hidden
<1>17. QED
  BY <1>10, <1>11, <1>12, <1>13, <1>14, <1>15, <1>16 DEF IInv

(* A reload, of the tab selected or of another one.                        *)
LEMMA ReloadInv ==
    ASSUME IInv, NEW tab \in Tabs, MN_POSITION' = tab, reloaded',
           NEW online \in BOOLEAN, GET_SOSIK_L2(tab, 0, online),
           UNCHANGED <<FETCHING_MORE, PAGE_NUMBER, board>>
    PROVE  IInv'
<1> DEFINE q == NewRequest(tab, 0)
<1>1. OBJ_SOSIK' = <<>> /\ overlap' = (inflight # {})
  BY DEF GET_SOSIK_L2
<1>2. q \in Request /\ q.page = 0 /\ q.tab = tab /\ q.rows = <<>>
  BY DEF NewRequest, Request, Row, IInv, TypeOK
<1>3. inflight' = inflight \/ inflight' = inflight \cup {q}
  BY DEF GET_SOSIK_L2
<1>4. DOMAIN OBJ_SOSIK' = {}
  BY <1>1
<1> HIDE DEF q
<1>5. TypeOK'
  <2>1. sent' \in Nat
    BY DEF GET_SOSIK_L2, IInv, TypeOK
  <2>2. QED
    BY <2>1, <1>1, <1>2, <1>3 DEF IInv, TypeOK
<1>6. PagesReached' /\ RowsOfPage'
  <2>1. DOMAIN q.rows = {} /\ PAGE_NUMBER' = PAGE_NUMBER /\ PAGE_NUMBER \in Nat
    BY <1>2, EmptySeq DEF IInv, TypeOK
  <2>2. RowsOfPage'
    BY <2>1, <1>3 DEF IInv, RowsOfPage
  <2>3. PagesReached'
    BY <2>1, <1>2, <1>3, <1>4 DEF IInv, PagesReached
  <2>4. QED
    BY <2>2, <2>3
<1>7. LaterPagesOnce'
  BY <1>2, <1>3, <1>4 DEF IInv, LaterPagesOnce
<1>8. InServerOrder'
  BY <1>4 DEF LaterRowsOnce, InServerOrder
<1>9. OneAhead'
  BY <1>1, <1>2, <1>3, <1>4 DEF OneAhead
<1>10. Hidden'
  BY DEF Hidden
<1>11. QED
  BY <1>5, <1>6, <1>7, <1>8, <1>9, <1>10 DEF IInv

LEMMA RefreshInv == IInv /\ Refresh => IInv'
<1> SUFFICES ASSUME IInv, Refresh PROVE IInv'
  OBVIOUS
<1>1. PICK online \in BOOLEAN : GET_SOSIK_L2(MN_POSITION, 0, online)
  BY DEF Refresh
<1>2. reloaded' /\ UNCHANGED <<FETCHING_MORE, PAGE_NUMBER, MN_POSITION, board>>
  BY DEF Refresh
<1>3. MN_POSITION \in Tabs
  BY DEF IInv, TypeOK
<1>4. QED
  BY <1>1, <1>2, <1>3, ReloadInv

LEMMA MenuInv == ASSUME IInv, NEW tab \in Tabs, MENU_V(tab) PROVE IInv'
<1>1. PICK online \in BOOLEAN : GET_SOSIK_L2(tab, 0, online)
  BY DEF MENU_V
<1>2. /\ MN_POSITION' = tab /\ reloaded'
      /\ UNCHANGED <<FETCHING_MORE, PAGE_NUMBER, board>>
  BY DEF MENU_V
<1>3. QED
  BY <1>1, <1>2, ReloadInv

LEMMA PostInv == ASSUME IInv, NEW tab \in Tabs, Post(tab) PROVE IInv'
<1>1. board' \in [Tabs -> Seq(Article)]
  <2>1. board[tab] \in Seq(Article)
    BY DEF IInv, TypeOK
  <2>2. <<Len(board[tab]) + 1>> \in Seq(Article)
    BY <2>1, LenProperties DEF Article
  <2>3. <<Len(board[tab]) + 1>> \o board[tab] \in Seq(Article)
    BY <2>1, <2>2, ConcatProperties
  <2> DEFINE new == <<Len(board[tab]) + 1>> \o board[tab]
  <2>4. board' = [board EXCEPT ![tab] = new]
    BY DEF Post
  <2> HIDE DEF new
  <2>5. new \in Seq(Article)
    BY <2>3 DEF new
  <2>6. QED
    BY <2>4, <2>5 DEF IInv, TypeOK
<1>2. UNCHANGED <<OBJ_SOSIK, FETCHING_MORE, PAGE_NUMBER, MN_POSITION, inflight, sent, overlap,
                  reloaded>>
  BY DEF Post
<1>3. TypeOK'
  BY <1>1, <1>2 DEF IInv, TypeOK
<1>4. QED
  BY <1>2, <1>3 DEF IInv, PagesReached, RowsOfPage, LaterPagesOnce,
              LaterRowsOnce, OneAhead, InServerOrder, Before, Hidden

LEMMA ServeInv == ASSUME NEW r \in inflight, IInv, Serve(r) PROVE IInv'
<1> DEFINE rows == PageRows(r.tab, r.page)
           q == [r EXCEPT !.served = TRUE, !.rows = rows]
<1>1. /\ r \in Request /\ r.page \in Nat /\ r.tab \in Tabs
      /\ board \in [Tabs -> Seq(Article)]
  BY DEF IInv, TypeOK, Request
<1>2. /\ q \in Request /\ q.page = r.page /\ q.tab = r.tab
      /\ \A k \in DOMAIN q.rows :
             q.rows[k].tab = q.tab /\ q.rows[k].page = q.page /\ q.rows[k].pos = k
  <2>1. /\ rows \in Seq(Row)
        /\ \A k \in DOMAIN rows :
               rows[k].tab = r.tab /\ rows[k].page = r.page /\ rows[k].pos = k
    <3> DEFINE tab == r.tab
               page == r.page
    <3>1. tab \in Tabs /\ page \in Nat
      BY <1>1
    <3> HIDE DEF tab, page
    <3>2. /\ PageRows(tab, page) \in Seq(Row)
          /\ \A k \in DOMAIN PageRows(tab, page) :
                 /\ PageRows(tab, page)[k].tab = tab
                 /\ PageRows(tab, page)[k].page = page
                 /\ PageRows(tab, page)[k].pos = k
      BY <1>1, <3>1, PageRowsOfPage
    <3>3. QED
      BY <3>2 DEF tab, page
  <2> HIDE DEF rows
  <2>2. q \in Request /\ q.page = r.page /\ q.tab = r.tab /\ q.rows = rows
    BY <1>1, <2>1 DEF Request
  <2> HIDE DEF q
  <2>3. QED
    BY <2>1, <2>2
<1>3. inflight' = (inflight \ {r}) \cup {q}
  BY DEF Serve
<1>4. UNCHANGED <<OBJ_SOSIK, FETCHING_MORE, PAGE_NUMBER, MN_POSITION, sent, board, overlap,
                  reloaded>>
  BY DEF Serve
<1> HIDE DEF rows, q
<1>5. TypeOK'
  BY <1>2, <1>3, <1>4 DEF IInv, TypeOK
<1>6. PagesReached' /\ RowsOfPage'
  BY <1>2, <1>3, <1>4 DEF IInv, PagesReached, RowsOfPage
<1>7. LaterPagesOnce'
  BY <1>2, <1>3, <1>4 DEF IInv, LaterPagesOnce
<1>8. InServerOrder'
  BY <1>4 DEF IInv, LaterRowsOnce, InServerOrder, Before
<1>9. OneAhead'
  BY <1>2, <1>3, <1>4 DEF IInv, OneAhead
<1>10. Hidden'
  BY <1>3, <1>4 DEF IInv, Hidden
<1>11. QED
  BY <1>5, <1>6, <1>7, <1>8, <1>9, <1>10 DEF IInv

(* An answer that leaves the list as it is.                                *)
LEMMA EmptyAnswerInv ==
    ASSUME NEW r \in inflight, IInv, AnswerNoMore(r) \/ AnswerFailure(r)
    PROVE  IInv'
<1>1. /\ inflight' = inflight \ {r} /\ FETCHING_MORE' = FALSE
      /\ UNCHANGED <<OBJ_SOSIK, PAGE_NUMBER, MN_POSITION, sent, board, overlap, reloaded>>
  BY DEF AnswerNoMore, AnswerFailure, Complete
<1>2. TypeOK' /\ PagesReached' /\ RowsOfPage' /\ LaterPagesOnce'
  BY <1>1 DEF IInv, TypeOK, PagesReached, RowsOfPage, LaterPagesOnce
<1>3. InServerOrder' /\ OneAhead'
  BY <1>1 DEF IInv, LaterRowsOnce, InServerOrder, OneAhead, Before
<1>4. Hidden'
  BY <1>1 DEF IInv, Hidden, OneAhead
<1>5. QED
  BY <1>2, <1>3, <1>4 DEF IInv

(* Appending the rows of an answer: each row of the new list is an old row *)
(* or a row of the page answered, numbered after all the old ones.         *)
LEMMA AnswerRowsInv == ASSUME NEW r \in inflight, IInv, AnswerRows(r) PROVE IInv'
<1> DEFINE m == Len(OBJ_SOSIK)
           n == Len(r.rows)
<1>1. /\ inflight' = inflight \ {r} /\ FETCHING_MORE' = FALSE
      /\ OBJ_SOSIK' = OBJ_SOSIK \o r.rows
      /\ UNCHANGED <<PAGE_NUMBER, MN_POSITION, sent, board, overlap, reloaded>>
  BY DEF AnswerRows, Complete
<1>2. /\ r \in Request /\ r.page \in Nat /\ r.rows \in Seq(Row)
      /\ OBJ_SOSIK \in Seq(Row)
  BY DEF IInv, TypeOK, Request
<1>3. /\ m \in Nat /\ n \in Nat
      /\ DOMAIN OBJ_SOSIK = 1 .. m /\ DOMAIN r.rows = 1 .. n
      /\ OBJ_SOSIK' \in Seq(Row) /\ DOMAIN OBJ_SOSIK' = 1 .. m + n
      /\ \A i \in 1 .. m + n :
            OBJ_SOSIK'[i] = IF i <= m THEN OBJ_SOSIK[i] ELSE r.rows[i - m]
  BY <1>1, <1>2, ConcatProperties, LenProperties
<1> HIDE DEF m, n
<1>4. \A i \in 1 .. m : /\ i \in 1 .. m + n /\ OBJ_SOSIK'[i] = OBJ_SOSIK[i]
                        /\ OBJ_SOSIK[i].page \in Nat /\ OBJ_SOSIK[i].pos \in Nat
  <2>1. \A i \in 1 .. m : OBJ_SOSIK[i] \in Row
    BY <1>2, <1>3, ElementOfSeq, LenProperties
  <2>2. QED
    BY <2>1, <1>3 DEF Row
<1>5. \A i \in (m + 1) .. (m + n) :
        /\ OBJ_SOSIK'[i].tab = r.tab
        /\ OBJ_SOSIK'[i].page = r.page /\ OBJ_SOSIK'[i].pos = i - m
  <2>1. \A k \in 1 .. n : /\ r.rows[k].tab = r.tab
                          /\ r.rows[k].page = r.page /\ r.rows[k].pos = k
    BY <1>3 DEF IInv, RowsOfPage
  <2>2. ASSUME NEW i \in (m + 1) .. (m + n)
        PROVE  i - m \in 1 .. n /\ OBJ_SOSIK'[i] = r.rows[i - m]
    <3>1. i \in Int /\ i - m \in 1 .. n /\ i \in 1 .. m + n /\ ~(i <= m)
      BY <1>3
    <3>2. QED
      BY <1>3, <3>1
  <2>3. QED
    BY <2>1, <2>2
<1>6. \A i \in 1 .. m + n : i \in 1 .. m \/ i \in (m + 1) .. (m + n)
  BY <1>3
<1>7. TypeOK'
  BY <1>1, <1>3 DEF IInv, TypeOK
<1>8. PagesReached' /\ RowsOfPage'
  <2>1. r.page <= PAGE_NUMBER
    BY DEF IInv, PagesReached
  <2>2. \A i \in 1 .. m : OBJ_SOSIK[i].page <= PAGE_NUMBER
    BY <1>3 DEF IInv, PagesReached
  <2>3. \A i \in 1 .. m + n : OBJ_SOSIK'[i].page <= PAGE_NUMBER
    BY <2>1, <2>2, <1>4, <1>5, <1>6
  <2>4. QED
    BY <2>3, <1>1, <1>3 DEF IInv, PagesReached, RowsOfPage
<1>9. LaterPagesOnce'
  <2>1. ASSUME NEW s \in inflight', s.page # 0, NEW i \in 1 .. m + n
        PROVE  OBJ_SOSIK'[i].page # s.page
    <3>1. s \in inflight /\ s # r
      BY <2>1, <1>1
    <3>2. CASE i \in 1 .. m
      BY <2>1, <3>1, <3>2, <1>3, <1>4 DEF IInv, LaterPagesOnce
    <3>3. CASE i \in (m + 1) .. (m + n)
      BY <2>1, <3>1, <3>3, <1>5 DEF IInv, LaterPagesOnce
    <3>4. QED
      BY <3>2, <3>3, <1>6
  <2>2. QED
    BY <2>1, <1>1, <1>3 DEF IInv, LaterPagesOnce
<1>10. LaterRowsOnce'
  <2>1. ASSUME NEW i \in 1 .. m + n, NEW j \in 1 .. m + n,
               OBJ_SOSIK'[i].page = OBJ_SOSIK'[j].page,
               OBJ_SOSIK'[i].pos = OBJ_SOSIK'[j].pos
        PROVE  i = j \/ OBJ_SOSIK'[i].page = 0
    <3>1. CASE i \in 1 .. m /\ j \in 1 .. m
      BY <2>1, <3>1, <1>3, <1>4 DEF IInv, InServerOrder, LaterRowsOnce
    <3>2. CASE i \in (m + 1) .. (m + n) /\ j \in (m + 1) .. (m + n)
      BY <2>1, <3>2, <1>3, <1>5
    <3>3. CASE i \in 1 .. m /\ j \in (m + 1) .. (m + n)
      <4>1. OBJ_SOSIK[i].page = r.page /\ OBJ_SOSIK'[i].page = r.page
        BY <2>1, <3>3, <1>4, <1>5
      <4>2. r.page = 0
        BY <3>3, <4>1, <1>3 DEF IInv, LaterPagesOnce
      <4>3. QED
        BY <4>1, <4>2
    <3>4. CASE i \in (m + 1) .. (m + n) /\ j \in 1 .. m
      <4>1. OBJ_SOSIK[j].page = r.page
        BY <2>1, <3>4, <1>4, <1>5
      <4>2. r.page = 0
        BY <3>4, <4>1, <1>3 DEF IInv, LaterPagesOnce
      <4>3. QED
        BY <3>4, <4>2, <1>5
    <3>5. QED
      BY <3>1, <3>2, <3>3, <3>4, <1>6
  <2>2. QED
    BY <2>1, <1>3 DEF LaterRowsOnce
<1>11. InServerOrder'
  <2>1. ASSUME ~overlap, NEW i \in 1 .. m + n, NEW j \in 1 .. m + n, i < j
        PROVE  Before(OBJ_SOSIK'[i], OBJ_SOSIK'[j])
    <3>1. CASE i \in 1 .. m /\ j \in 1 .. m
      <4>1. Before(OBJ_SOSIK[i], OBJ_SOSIK[j])
        BY <2>1, <3>1, <1>3 DEF IInv, InServerOrder
      <4>2. OBJ_SOSIK'[i] = OBJ_SOSIK[i] /\ OBJ_SOSIK'[j] = OBJ_SOSIK[j]
        BY <3>1, <1>4
      <4>3. QED
        BY <4>1, <4>2
    <3>2. CASE i \in (m + 1) .. (m + n) /\ j \in (m + 1) .. (m + n)
      BY <2>1, <3>2, <1>3, <1>5 DEF Before
    <3>3. CASE i \in 1 .. m /\ j \in (m + 1) .. (m + n)
      BY <2>1, <3>3, <1>3, <1>4, <1>5 DEF IInv, OneAhead, Before
    <3>4. ~(i \in (m + 1) .. (m + n) /\ j \in 1 .. m)
      BY <2>1, <1>3
    <3>5. i \in 1 .. m \/ i \in (m + 1) .. (m + n)
      BY <1>6
    <3>6. j \in 1 .. m \/ j \in (m + 1) .. (m + n)
      BY <1>6
    <3>7. QED
      BY <3>1, <3>2, <3>3, <3>4, <3>5, <3>6
  <2>2. ASSUME ~overlap, NEW i \in 1 .. m + n PROVE OBJ_SOSIK'[i].tab = MN_POSITION
    <3>1. CASE i \in 1 .. m
      BY <2>2, <3>1, <1>3, <1>4 DEF IInv, InServerOrder
    <3>2. CASE i \in (m + 1) .. (m + n)
      BY <2>2, <3>2, <1>5 DEF IInv, OneAhead
    <3>3. QED
      BY <3>1, <3>2, <1>6
  <2>3. QED
    BY <2>1, <2>2, <1>1, <1>3, <1>10 DEF InServerOrder
<1>12. OneAhead' /\ Hidden'
  BY <1>1 DEF IInv, OneAhead, Hidden
<1>13. QED
  BY <1>7, <1>8, <1>9, <1>11, <1>12 DEF IInv

LEMMA NextInv == IInv /\ [Next]_vars => IInv'
<1> SUFFICES ASSUME IInv, [Next]_vars PROVE IInv'
  OBVIOUS
<1>1. CASE ScrollToEnd
  BY <1>1, ScrollInv
<1>2. CASE Refresh
  BY <1>2, RefreshInv
<1>3. ASSUME NEW tab \in Tabs, MENU_V(tab) \/ Post(tab) PROVE IInv'
  BY <1>3, MenuInv, PostInv
<1>4. ASSUME NEW r \in inflight, Serve(r) PROVE IInv'
  BY <1>4, ServeInv
<1>5. ASSUME NEW r \in inflight, Answer(r) PROVE IInv'
  BY <1>5, AnswerRowsInv, EmptyAnswerInv DEF Answer
<1>6. CASE UNCHANGED vars
  BY <1>6 DEF vars, IInv, TypeOK, PagesReached, RowsOfPage, LaterPagesOnce,
              LaterRowsOnce, OneAhead, InServerOrder, Before, Hidden
<1>7. QED
  BY <1>1, <1>2, <1>3, <1>4, <1>5, <1>6 DEF Next

LEMMA InvariantHolds == Spec => []IInv
  BY InitInv, NextInv, PTL DEF Spec

-----------------------------------------------------------------------------
(* The list, the lock and the requests keep their types (VC_SOSIK 22-27).  *)
THEOREM TypeCorrect == Spec => []TypeOK
<1>1. IInv => TypeOK
  BY DEF IInv
<1>2. QED
  BY <1>1, InvariantHolds, PTL

(* Whatever the page length, the tabs, the boards and the schedule, the    *)
(* list is of the tab selected and in the server's order unless requests   *)
(* overlapped (P_SOSIK 87).                                                *)
THEOREM ListInServerOrder == Spec => []InServerOrder
<1>1. IInv => InServerOrder
  BY DEF IInv
<1>2. QED
  BY <1>1, InvariantHolds, PTL

(* A row of a later page is never shown twice (VC_SOSIK 253).              *)
THEOREM LaterRowsShownOnce == Spec => []LaterRowsOnce
<1>1. IInv => LaterRowsOnce
  BY DEF IInv, InServerOrder
<1>2. QED
  BY <1>1, InvariantHolds, PTL

(* Until the list is reloaded requests never overlap (VC_SOSIK 252).       *)
THEOREM ReadOnlyNeverOverlaps == Spec => []OneRequestAtATime
<1>1. IInv => OneRequestAtATime
  BY DEF IInv, Hidden, OneRequestAtATime
<1>2. QED
  BY <1>1, InvariantHolds, PTL

(* A paging lock whose request is under way is not lost (P_SOSIK 96).      *)
THEOREM PagingLockKept == Spec => LockKept
<1>1. IInv /\ [Next]_vars =>
        [FETCHING_MORE /\ PagePending /\ FETCHING_MORE' => PagePending']_vars
  <2> SUFFICES ASSUME IInv, Next, FETCHING_MORE, PagePending, FETCHING_MORE'
               PROVE  PagePending'
    OBVIOUS
  <2>1. CASE ScrollToEnd
    BY <2>1 DEF ScrollToEnd
  <2>2. CASE Refresh
    BY <2>2 DEF Refresh, GET_SOSIK_L2, PagePending
  <2>3. ASSUME NEW tab \in Tabs, MENU_V(tab) \/ Post(tab) PROVE PagePending'
    BY <2>3 DEF MENU_V, GET_SOSIK_L2, Post, PagePending
  <2>4. ASSUME NEW r \in inflight, Serve(r) PROVE PagePending'
    <3> DEFINE q == [r EXCEPT !.served = TRUE, !.rows = PageRows(r.tab, r.page)]
    <3>1. r \in Request
      BY DEF IInv, TypeOK
    <3>2. q.page = r.page
      BY <3>1 DEF Request
    <3>3. inflight' = (inflight \ {r}) \cup {q} /\ PAGE_NUMBER' = PAGE_NUMBER
      BY <2>4 DEF Serve
    <3> HIDE DEF q
    <3>4. QED
      BY <3>2, <3>3 DEF PagePending
  <2>5. ASSUME NEW r \in inflight, Answer(r) PROVE FALSE
    BY <2>5 DEF Answer, AnswerRows, AnswerNoMore, AnswerFailure, Complete
  <2>6. QED
    BY <2>1, <2>2, <2>3, <2>4, <2>5 DEF Next
<1>2. QED
  BY <1>1, InvariantHolds, PTL DEF Spec, LockKept

-----------------------------------------------------------------------------
(* No article is missed.  Offsets name other articles as the board grows,  *)
(* but a later page is served no earlier: it begins at or above the place  *)
(* below the page before.                                                  *)

(* Articles are numbered as they are posted and the board is newest first. *)
NewestFirst ==
    \A tab \in Tabs : \A i \in DOMAIN board[tab] : board[tab][i] = Len(board[tab]) + 1 - i

(* One more than the length of the board when the row was served.          *)
Top(row) == row.art + row.page * ITEM_COUNT + row.pos

(* The rows travelling back are successive articles, and end with the      *)
(* page or with the board.                                                 *)
AnswersOfBoard ==
    \A r \in inflight : \A k \in DOMAIN r.rows :
        /\ r.rows[k].art >= 1
        /\ Top(r.rows[k]) <= Len(board[r.tab]) + 1
        /\ \A l \in DOMAIN r.rows : r.rows[l].art + l = r.rows[k].art + k
        /\ Len(r.rows) = ITEM_COUNT \/ r.rows[Len(r.rows)].art = 1

(* The rows shown are not younger than those travelling back, and each of  *)
(* their pages is shown to its end.                                        *)
ListOfBoard ==
    ~overlap =>
        \A i \in DOMAIN OBJ_SOSIK :
            /\ Top(OBJ_SOSIK[i]) <= Len(board[MN_POSITION]) + 1
            /\ \A r \in inflight : \A k \in DOMAIN r.rows : Top(OBJ_SOSIK[i]) <= Top(r.rows[k])
            /\ \E j \in DOMAIN OBJ_SOSIK :
                  \/ OBJ_SOSIK[j].art = 1
                  \/ OBJ_SOSIK[j].art + ITEM_COUNT <= OBJ_SOSIK[i].art + OBJ_SOSIK[i].pos

PagesInv == NewestFirst /\ AnswersOfBoard /\ ListOfBoard /\ NoArticleMissed

-----------------------------------------------------------------------------
(* What the server answers, in numbers.                                    *)
LEMMA PageRowsOfBoard ==
    ASSUME TypeOK, NewestFirst, NEW tab \in Tabs, NEW page \in Nat
    PROVE  \A k \in DOMAIN PageRows(tab, page) :
              /\ PageRows(tab, page)[k].art >= 1
              /\ Top(PageRows(tab, page)[k]) = Len(board[tab]) + 1
              /\ \A l \in DOMAIN PageRows(tab, page) :
                    PageRows(tab, page)[l].art + l = PageRows(tab, page)[k].art + k
              /\ \/ Len(PageRows(tab, page)) = ITEM_COUNT
                 \/ PageRows(tab, page)[Len(PageRows(tab, page))].art = 1
<1> DEFINE start == page * ITEM_COUNT
           n == PageLength(tab, page)
           rows == board[tab]
           top == Len(rows)
           answer == PageRows(tab, page)
<1>1. start \in Nat
  BY BoardAssumption
<1>2. rows \in Seq(Article)
  BY DEF TypeOK
<1>3. top \in Nat /\ DOMAIN rows = 1 .. top
  BY <1>2, LenProperties
<1>4. n = IF top <= start THEN 0 ELSE IF top - start < ITEM_COUNT THEN top - start ELSE ITEM_COUNT
  BY DEF PageLength
<1>5. answer =
        [i \in 1 .. n |-> [tab |-> tab, art |-> rows[start + i], page |-> page, pos |-> i]]
  BY DEF PageRows
<1>6. \A i \in DOMAIN rows : rows[i] = top + 1 - i
  BY DEF NewestFirst
<1>7. ASSUME NEW row PROVE row.page = page => Top(row) = row.art + start + row.pos
  BY DEF Top
<1> HIDE DEF start, n, rows, top, answer
<1>8. n \in Nat /\ (n > 0 => start + n <= top) /\ (n > 0 => n = ITEM_COUNT \/ start + n = top)
  BY <1>1, <1>3, <1>4, BoardAssumption
<1>9. DOMAIN answer = 1 .. n /\ (n > 0 => Len(answer) = n)
  BY <1>5, <1>8
<1>10. ASSUME NEW k \in 1 .. n
       PROVE  /\ answer[k].art = top + 1 - (start + k) /\ answer[k].page = page
              /\ answer[k].pos = k /\ k \in Nat /\ k <= n
  <2>1. start + k \in DOMAIN rows /\ k \in Nat /\ k <= n
    BY <1>1, <1>3, <1>8
  <2>2. QED
    BY <1>5, <1>6, <2>1
<1>11. ASSUME NEW k \in 1 .. n
       PROVE  /\ answer[k].art >= 1
              /\ Top(answer[k]) = top + 1
              /\ \A l \in 1 .. n : answer[l].art + l = answer[k].art + k
              /\ Len(answer) = ITEM_COUNT \/ answer[Len(answer)].art = 1
  <2>1. answer[k].art >= 1
    BY <1>1, <1>3, <1>8, <1>10
  <2>2. Top(answer[k]) = top + 1
    <3>1. Top(answer[k]) = answer[k].art + start + answer[k].pos
      BY <1>7, <1>10
    <3>2. QED
      BY <1>1, <1>3, <1>10, <3>1
  <2>3. ASSUME NEW l \in 1 .. n PROVE answer[l].art + l = answer[k].art + k
    BY <1>1, <1>3, <1>10
  <2>4. n > 0 /\ n \in 1 .. n /\ Len(answer) = n
    BY <1>8, <1>9
  <2>5. n = ITEM_COUNT \/ answer[n].art = 1
    BY <1>1, <1>3, <1>8, <1>10, <2>4
  <2>6. QED
    BY <2>1, <2>2, <2>3, <2>4, <2>5
<1>12. QED
  BY <1>9, <1>11 DEF answer, top, rows

(* Fields of the rows shown and of those travelling back.                  *)
LEMMA RowFields ==
    ASSUME TypeOK
    PROVE  /\ \A i \in DOMAIN OBJ_SOSIK :
                 /\ OBJ_SOSIK[i].art \in Nat /\ OBJ_SOSIK[i].page \in Nat
                 /\ OBJ_SOSIK[i].pos \in Nat
           /\ \A r \in inflight :
                 /\ r \in Request /\ r.tab \in Tabs /\ r.page \in Nat /\ r.rows \in Seq(Row)
                 /\ \A k \in DOMAIN r.rows :
                       r.rows[k].art \in Nat /\ r.rows[k].page \in Nat /\ r.rows[k].pos \in Nat
           /\ \A tab \in Tabs : board[tab] \in Seq(Article) /\ Len(board[tab]) \in Nat
<1>1. \A s \in Seq(Row) : \A i \in DOMAIN s :
         s[i].art \in Nat /\ s[i].page \in Nat /\ s[i].pos \in Nat
  <2>1. \A s \in Seq(Row) : \A i \in DOMAIN s : s[i] \in Row
    BY ElementOfSeq, LenProperties
  <2>2. QED
    BY <2>1 DEF Row, Article
<1>2. \A r \in inflight : r \in Request /\ r.tab \in Tabs /\ r.page \in Nat /\ r.rows \in Seq(Row)
  BY DEF TypeOK, Request
<1>3. OBJ_SOSIK \in Seq(Row)
  BY DEF TypeOK
<1>4. \A tab \in Tabs : board[tab] \in Seq(Article) /\ Len(board[tab]) \in Nat
  BY LenProperties DEF TypeOK
<1>5. QED
  BY <1>1, <1>2, <1>3, <1>4

LEMMA EmptyRows == DOMAIN <<>> = {} /\ <<>> \in Seq(Row)
BY EmptySeq

LEMMA InitPages == Init => PagesInv
<1> SUFFICES ASSUME Init PROVE PagesInv
  OBVIOUS
<1>1. DOMAIN OBJ_SOSIK = {}
  BY EmptyRows DEF Init
<1>2. NewestFirst
  <2> DEFINE numbered == [i \in 1 .. BoardSize |-> BoardSize + 1 - i]
  <2>1. Len(numbered) = BoardSize /\ \A i \in DOMAIN numbered : numbered[i] = BoardSize + 1 - i
    BY BoardAssumption
  <2>2. board = [tab \in Tabs |-> numbered]
    BY DEF Init
  <2> HIDE DEF numbered
  <2>3. \A tab \in Tabs : board[tab] = numbered
    BY <2>2
  <2>4. QED
    BY <2>1, <2>3 DEF NewestFirst
<1>3. \A r \in inflight : DOMAIN r.rows = {}
  <2> DEFINE q == [id |-> 0, tab |-> 0, page |-> 0, served |-> FALSE, rows |-> <<>>]
  <2>1. inflight = {} \/ inflight = {q}
    BY Zenon DEF Init
  <2>2. q.rows = <<>>
    OBVIOUS
  <2> HIDE DEF q
  <2>3. QED
    BY <2>1, <2>2, EmptyRows
<1>4. QED
  BY <1>1, <1>2, <1>3 DEF PagesInv, AnswersOfBoard, ListOfBoard, NoArticleMissed, ArticlesShown,
                          FirstPageShown

(* A request goes out: the list is emptied or stays.                       *)
LEMMA GetPages ==
    ASSUME PagesInv, TypeOK, NEW tab \in Tabs, NEW page \in Nat, NEW online \in BOOLEAN,
           GET_SOSIK_L2(tab, page, online), MN_POSITION' = tab, board' = board,
           page # 0 => tab = MN_POSITION
    PROVE  PagesInv'
<1> DEFINE q == NewRequest(tab, page)
<1>1. DOMAIN q.rows = {}
  BY EmptyRows DEF NewRequest
<1>2. \A r \in inflight' : r \in inflight \/ r = q
  BY DEF GET_SOSIK_L2
<1> HIDE DEF q
<1>3. NewestFirst' /\ AnswersOfBoard'
  BY <1>1, <1>2 DEF PagesInv, NewestFirst, AnswersOfBoard, Top
<1>4. CASE page = 0
  <2>1. DOMAIN OBJ_SOSIK' = {}
    BY <1>4, EmptyRows DEF GET_SOSIK_L2
  <2>2. QED
    BY <1>3, <2>1 DEF PagesInv, ListOfBoard, NoArticleMissed, ArticlesShown, FirstPageShown
<1>5. CASE page # 0
  <2>1. OBJ_SOSIK' = OBJ_SOSIK /\ MN_POSITION' = MN_POSITION /\ (~overlap' => ~overlap)
    BY <1>5 DEF GET_SOSIK_L2
  <2>2. ListOfBoard'
    BY <1>1, <1>2, <2>1 DEF PagesInv, ListOfBoard, Top
  <2>3. NoArticleMissed'
    BY <2>1 DEF PagesInv, NoArticleMissed, ArticlesShown, FirstPageShown, PagesShown
  <2>4. QED
    BY <1>3, <2>2, <2>3 DEF PagesInv
<1>6. QED
  BY <1>4, <1>5

LEMMA ScreenPages ==
    ASSUME IInv, PagesInv
    PROVE  /\ ScrollToEnd => PagesInv'
           /\ Refresh => PagesInv'
           /\ \A tab \in Tabs : MENU_V(tab) => PagesInv'
<1>1. TypeOK /\ MN_POSITION \in Tabs /\ PAGE_NUMBER + 1 \in Nat /\ 0 \in Nat
  BY DEF IInv, TypeOK
<1>2. ASSUME ScrollToEnd PROVE PagesInv'
  <2>1. PICK online \in BOOLEAN : GET_SOSIK_L2(MN_POSITION, PAGE_NUMBER + 1, online)
    BY <1>2 DEF ScrollToEnd
  <2>2. MN_POSITION' = MN_POSITION /\ board' = board
    BY <1>2 DEF ScrollToEnd
  <2>3. QED
    BY <1>1, <2>1, <2>2, GetPages
<1>3. ASSUME Refresh PROVE PagesInv'
  <2>1. PICK online \in BOOLEAN : GET_SOSIK_L2(MN_POSITION, 0, online)
    BY <1>3 DEF Refresh
  <2>2. MN_POSITION' = MN_POSITION /\ board' = board
    BY <1>3 DEF Refresh
  <2>3. QED
    BY <1>1, <2>1, <2>2, GetPages
<1>4. ASSUME NEW tab \in Tabs, MENU_V(tab) PROVE PagesInv'
  <2>1. PICK online \in BOOLEAN : GET_SOSIK_L2(tab, 0, online)
    BY <1>4 DEF MENU_V
  <2>2. MN_POSITION' = tab /\ board' = board
    BY <1>4 DEF MENU_V
  <2>3. QED
    BY <1>1, <2>1, <2>2, GetPages
<1>5. QED
  BY <1>2, <1>3, <1>4

(* A post puts one article above all others.                               *)
LEMMA PostPages == ASSUME IInv, PagesInv, NEW tab \in Tabs, Post(tab) PROVE PagesInv'
<1> DEFINE old == board[tab]
           m == Len(old)
           new == <<m + 1>> \o old
<1>1. /\ board' = [board EXCEPT ![tab] = new]
      /\ UNCHANGED <<OBJ_SOSIK, MN_POSITION, inflight, overlap>>
  BY DEF Post
<1>2. TypeOK /\ board \in [Tabs -> Seq(Article)] /\ old \in Seq(Article) /\ MN_POSITION \in Tabs
  BY DEF IInv, TypeOK
<1>3. /\ m \in Nat /\ m = Len(old) /\ DOMAIN old = 1 .. m
      /\ \A i \in 1 .. m : old[i] = m + 1 - i
  BY <1>2, LenProperties DEF PagesInv, NewestFirst
<1> HIDE DEF old, m
<1>4. <<m + 1>> \in Seq(Article) /\ Len(<<m + 1>>) = 1 /\ <<m + 1>>[1] = m + 1
  BY <1>3 DEF Article
<1>5. /\ Len(new) = m + 1
      /\ \A i \in 1 .. m + 1 : new[i] = IF i <= 1 THEN m + 1 ELSE old[i - 1]
  <2> DEFINE one == <<m + 1>>
  <2>1. one \in Seq(Article) /\ Len(one) = 1 /\ one[1] = m + 1
    BY <1>4
  <2> HIDE DEF one
  <2>2. \A s, t \in Seq(Article) :
           /\ Len(s \o t) = Len(s) + Len(t)
           /\ \A i \in 1 .. Len(s) + Len(t) :
                 (s \o t)[i] = IF i <= Len(s) THEN s[i] ELSE t[i - Len(s)]
    BY ConcatProperties
  <2>3. /\ Len(one \o old) = Len(one) + Len(old)
        /\ \A i \in 1 .. Len(one) + Len(old) :
              (one \o old)[i] = IF i <= Len(one) THEN one[i] ELSE old[i - Len(one)]
    BY <1>2, <2>1, <2>2, Zenon
  <2>4. 1 + m = m + 1 /\ \A i \in 1 .. m + 1 : i <= 1 => i = 1
    BY <1>3
  <2>5. Len(one \o old) = m + 1
    BY <1>3, <2>1, <2>3, <2>4, Zenon
  <2>6. \A i \in 1 .. m + 1 : (one \o old)[i] = IF i <= 1 THEN one[i] ELSE old[i - 1]
    BY <1>3, <2>1, <2>3, <2>4, Zenon
  <2>7. \A i \in 1 .. m + 1 : i <= 1 => one[i] = m + 1
    BY <2>1, <2>4, Zenon
  <2> DEFINE both == one \o old
  <2>8. Len(both) = m + 1
    BY <2>5
  <2>9. \A i \in 1 .. m + 1 : both[i] = IF i <= 1 THEN m + 1 ELSE old[i - 1]
    BY <2>6, <2>7
  <2>10. new = both
    BY DEF one
  <2> HIDE DEF both
  <2>11. QED
    BY <2>8, <2>9, <2>10
<1>6. DOMAIN new = 1 .. m + 1
  <2> DEFINE one == <<m + 1>>
  <2>1. one \o old \in Seq(Article)
    BY <1>2, <1>4, ConcatProperties
  <2>2. QED
    BY <1>5, <2>1, LenProperties
<1> HIDE DEF new
<1>7. \A i \in DOMAIN new : new[i] = Len(new) + 1 - i
  <2> SUFFICES ASSUME NEW i \in 1 .. m + 1 PROVE new[i] = m + 1 + 1 - i
    BY <1>5, <1>6
  <2>1. CASE i <= 1
    BY <1>3, <1>5, <2>1
  <2>2. CASE i > 1
    <3>1. i - 1 \in 1 .. m
      BY <1>3, <2>2
    <3>2. old[i - 1] = m + 1 - (i - 1)
      BY <1>3, <3>1
    <3>3. QED
      BY <1>3, <1>5, <2>2, <3>2
  <2>3. QED
    BY <2>1, <2>2
<1>8. \A t \in Tabs : board'[t] = IF t = tab THEN new ELSE board[t]
  BY <1>1, <1>2
<1>9. NewestFirst'
  BY <1>7, <1>8 DEF PagesInv, NewestFirst
<1>10. \A t \in Tabs : /\ Len(board[t]) \in Nat /\ Len(board'[t]) \in Nat
                       /\ Len(board[t]) <= Len(board'[t])
  <2>1. \A t \in Tabs : Len(board[t]) \in Nat
    BY <1>2, RowFields
  <2>2. Len(board[tab]) = m
    BY DEF m, old
  <2>3. QED
    BY <1>3, <1>5, <1>8, <2>1, <2>2
<1>11. AnswersOfBoard'
  <2> SUFFICES ASSUME NEW r \in inflight, NEW k \in DOMAIN r.rows
               PROVE  Top(r.rows[k]) <= Len(board'[r.tab]) + 1
    BY <1>1 DEF PagesInv, AnswersOfBoard, Top
  <2>1. Top(r.rows[k]) \in Int
    <3>1. r.rows[k].art \in Nat /\ r.rows[k].pos \in Nat /\ r.rows[k].page \in Nat
      BY <1>2, RowFields
    <3>2. r.rows[k].page * ITEM_COUNT \in Nat
      BY <3>1, BoardAssumption
    <3>3. QED
      BY <3>1, <3>2 DEF Top
  <2>2. Top(r.rows[k]) <= Len(board[r.tab]) + 1 /\ r.tab \in Tabs
    BY <1>2, RowFields DEF PagesInv, AnswersOfBoard
  <2>3. QED
    BY <1>10, <2>1, <2>2
<1>12. ListOfBoard'
  <2> SUFFICES ASSUME ~overlap, NEW i \in DOMAIN OBJ_SOSIK
               PROVE  Top(OBJ_SOSIK[i]) <= Len(board'[MN_POSITION]) + 1
    BY <1>1 DEF PagesInv, ListOfBoard, Top
  <2>1. Top(OBJ_SOSIK[i]) \in Int
    <3>1. OBJ_SOSIK[i].art \in Nat /\ OBJ_SOSIK[i].pos \in Nat /\ OBJ_SOSIK[i].page \in Nat
      BY <1>2, RowFields
    <3>2. OBJ_SOSIK[i].page * ITEM_COUNT \in Nat
      BY <3>1, BoardAssumption
    <3>3. QED
      BY <3>1, <3>2 DEF Top
  <2>2. Top(OBJ_SOSIK[i]) <= Len(board[MN_POSITION]) + 1
    BY DEF PagesInv, ListOfBoard
  <2>3. QED
    BY <1>2, <1>10, <2>1, <2>2
<1>13. NoArticleMissed'
  BY <1>1 DEF PagesInv, NoArticleMissed, ArticlesShown, FirstPageShown, PagesShown
<1>14. QED
  BY <1>9, <1>11, <1>12, <1>13 DEF PagesInv

(* The server reads a page of the board as it is now.                      *)
LEMMA ServePages == ASSUME IInv, PagesInv, NEW r \in inflight, Serve(r) PROVE PagesInv'
<1> DEFINE rows == PageRows(r.tab, r.page)
           q == [r EXCEPT !.served = TRUE, !.rows = rows]
<1>1. /\ r \in Request /\ r.tab \in Tabs /\ r.page \in Nat /\ TypeOK /\ NewestFirst
      /\ Len(board[r.tab]) \in Nat
  BY RowFields DEF IInv, PagesInv
<1>2. /\ inflight' = (inflight \ {r}) \cup {q}
      /\ UNCHANGED <<OBJ_SOSIK, MN_POSITION, board, overlap>>
  BY DEF Serve
<1>3. /\ \A k \in DOMAIN rows :
            /\ rows[k].art >= 1
            /\ Top(rows[k]) = Len(board[r.tab]) + 1
            /\ \A l \in DOMAIN rows : rows[l].art + l = rows[k].art + k
            /\ Len(rows) = ITEM_COUNT \/ rows[Len(rows)].art = 1
  <2> DEFINE tab == r.tab
             page == r.page
  <2>1. tab \in Tabs /\ page \in Nat
    BY <1>1
  <2> HIDE DEF tab, page
  <2>2. \A k \in DOMAIN PageRows(tab, page) :
            /\ PageRows(tab, page)[k].art >= 1
            /\ Top(PageRows(tab, page)[k]) = Len(board[tab]) + 1
            /\ \A l \in DOMAIN PageRows(tab, page) :
                  PageRows(tab, page)[l].art + l = PageRows(tab, page)[k].art + k
            /\ \/ Len(PageRows(tab, page)) = ITEM_COUNT
               \/ PageRows(tab, page)[Len(PageRows(tab, page))].art = 1
    BY <1>1, <2>1, PageRowsOfBoard
  <2>3. QED
    BY <2>2 DEF tab, page
<1> HIDE DEF rows
<1>4. q.rows = rows /\ q.tab = r.tab
  BY <1>1 DEF Request
<1> HIDE DEF q
<1>5. NewestFirst'
  BY <1>2 DEF PagesInv, NewestFirst
<1>6. AnswersOfBoard'
  <2> SUFFICES ASSUME NEW s \in inflight', NEW k \in DOMAIN s.rows
               PROVE  /\ s.rows[k].art >= 1
                      /\ Top(s.rows[k]) <= Len(board[s.tab]) + 1
                      /\ \A l \in DOMAIN s.rows : s.rows[l].art + l = s.rows[k].art + k
                      /\ Len(s.rows) = ITEM_COUNT \/ s.rows[Len(s.rows)].art = 1
    BY <1>2 DEF AnswersOfBoard, Top
  <2>1. CASE s \in inflight
    BY <2>1 DEF PagesInv, AnswersOfBoard
  <2>2. CASE s = q
    BY <1>1, <1>3, <1>4, <2>2
  <2>3. QED
    BY <1>2, <2>1, <2>2
<1>7. ListOfBoard'
  <2> SUFFICES ASSUME ~overlap, NEW i \in DOMAIN OBJ_SOSIK, NEW s \in inflight',
                      NEW k \in DOMAIN s.rows
               PROVE  Top(OBJ_SOSIK[i]) <= Top(s.rows[k])
    BY <1>2 DEF PagesInv, ListOfBoard, Top
  <2>1. CASE s \in inflight
    BY <2>1 DEF PagesInv, ListOfBoard
  <2>2. CASE s = q
    <3>1. r.tab = MN_POSITION
      BY DEF IInv, OneAhead
    <3>2. Top(OBJ_SOSIK[i]) <= Len(board[MN_POSITION]) + 1
      BY DEF PagesInv, ListOfBoard
    <3>3. QED
      BY <1>3, <1>4, <2>2, <3>1, <3>2
  <2>3. QED
    BY <1>2, <2>1, <2>2
<1>8. NoArticleMissed'
  BY <1>2 DEF PagesInv, NoArticleMissed, ArticlesShown, FirstPageShown, PagesShown
<1>9. QED
  BY <1>5, <1>6, <1>7, <1>8 DEF PagesInv

LEMMA EmptyAnswerPages ==
    ASSUME PagesInv, NEW r \in inflight, AnswerNoMore(r) \/ AnswerFailure(r)
    PROVE  PagesInv'
<1>1. inflight' = inflight \ {r} /\ UNCHANGED <<OBJ_SOSIK, MN_POSITION, board, overlap>>
  BY DEF AnswerNoMore, AnswerFailure, Complete
<1>2. NewestFirst' /\ AnswersOfBoard'
  BY <1>1 DEF PagesInv, NewestFirst, AnswersOfBoard, Top
<1>3. ListOfBoard'
  BY <1>1 DEF PagesInv, ListOfBoard, Top
<1>4. NoArticleMissed'
  BY <1>1 DEF PagesInv, NoArticleMissed, ArticlesShown, FirstPageShown, PagesShown
<1>5. QED
  BY <1>2, <1>3, <1>4 DEF PagesInv

(* The rows of the list after an answer: those shown before, then those of *)
(* the answer.                                                             *)
LEMMA AppendedRows ==
    ASSUME TypeOK, NEW r \in inflight, AnswerRows(r)
    PROVE  /\ \A i \in DOMAIN OBJ_SOSIK : i \in DOMAIN OBJ_SOSIK' /\ OBJ_SOSIK'[i] = OBJ_SOSIK[i]
           /\ \A k \in DOMAIN r.rows :
                 \E j \in DOMAIN OBJ_SOSIK' : OBJ_SOSIK'[j] = r.rows[k]
           /\ \A j \in DOMAIN OBJ_SOSIK' :
                 \/ j \in DOMAIN OBJ_SOSIK
                 \/ \E k \in DOMAIN r.rows : OBJ_SOSIK'[j] = r.rows[k]
<1> DEFINE m == Len(OBJ_SOSIK)
           n == Len(r.rows)
<1>1. OBJ_SOSIK \in Seq(Row) /\ r.rows \in Seq(Row) /\ OBJ_SOSIK' = OBJ_SOSIK \o r.rows
  BY RowFields DEF TypeOK, AnswerRows
<1>2. /\ m \in Nat /\ n \in Nat
      /\ DOMAIN OBJ_SOSIK = 1 .. m /\ DOMAIN r.rows = 1 .. n
      /\ DOMAIN OBJ_SOSIK' = 1 .. m + n
      /\ \A i \in 1 .. m + n :
            OBJ_SOSIK'[i] = IF i <= m THEN OBJ_SOSIK[i] ELSE r.rows[i - m]
  BY <1>1, ConcatProperties, LenProperties
<1> HIDE DEF m, n
<1>3. \A i \in 1 .. m : i \in 1 .. m + n /\ OBJ_SOSIK'[i] = OBJ_SOSIK[i]
  BY <1>2
<1>4. \A k \in 1 .. n : m + k \in 1 .. m + n /\ OBJ_SOSIK'[m + k] = r.rows[k]
  <2> SUFFICES ASSUME NEW k \in 1 .. n
               PROVE  m + k \in 1 .. m + n /\ OBJ_SOSIK'[m + k] = r.rows[k]
    OBVIOUS
  <2>1. m + k \in 1 .. m + n /\ ~(m + k <= m) /\ (m + k) - m = k
    BY <1>2
  <2>2. QED
    BY <1>2, <2>1
<1>5. ASSUME NEW j \in 1 .. m + n
      PROVE  j \in 1 .. m \/ \E k \in 1 .. n : OBJ_SOSIK'[j] = r.rows[k]
  <2>1. CASE j > m
    <3>1. j - m \in 1 .. n /\ m + (j - m) = j
      BY <1>2, <2>1
    <3>2. QED
      BY <1>2, <2>1, <3>1
  <2>2. QED
    BY <1>2, <2>1
<1>6. QED
  BY <1>2, <1>3, <1>4, <1>5

(* The place, among k numbers that fall by one from x + k - 1 to x, of one  *)
(* that is among them.                                                     *)
LEMMA Between ==
    ASSUME NEW x \in Int, NEW k \in Int, NEW c \in Int, x <= c, c < x + k
    PROVE  x + k - c \in Int /\ x + k - c >= 1 /\ x + k - c <= k /\ x + k - (x + k - c) = c
OBVIOUS

(* The rows of an answer are successive articles: any article between two  *)
(* of them, or above the last and not above the first, is one of them.     *)
LEMMA Successive ==
    ASSUME IInv, PagesInv, NEW r \in inflight, NEW k \in DOMAIN r.rows, NEW c \in Int,
           r.rows[k].art <= c, c < r.rows[k].art + k
    PROVE  \E l \in DOMAIN r.rows : r.rows[l].art = c
<1>1. /\ r.rows \in Seq(Row) /\ \A l \in DOMAIN r.rows : r.rows[l].art \in Nat
  BY RowFields DEF IInv
<1>2. DOMAIN r.rows = 1 .. Len(r.rows) /\ Len(r.rows) \in Nat
  BY <1>1, LenProperties
<1>3. \A l \in DOMAIN r.rows : r.rows[l].art + l = r.rows[k].art + k
  BY DEF PagesInv, AnswersOfBoard
<1> DEFINE l == r.rows[k].art + k - c
           x == r.rows[k].art
<1>4. x \in Nat /\ k \in 1 .. Len(r.rows) /\ x <= c /\ c < x + k
  BY <1>1, <1>2
<1>5. l = x + k - c
  OBVIOUS
<1> HIDE DEF l
<1>6. l \in Int /\ l >= 1 /\ l <= k /\ x + k - l = c
  <2>1. x \in Int /\ k \in Int
    BY <1>2, <1>4
  <2> HIDE DEF x
  <2>2. x + k - c \in Int /\ x + k - c >= 1 /\ x + k - c <= k /\ x + k - (x + k - c) = c
    BY <1>4, <2>1, Between
  <2> QED BY <1>5, <2>2
<1>7. l \in DOMAIN r.rows
  <2>1. k \in Nat /\ k <= Len(r.rows)
    BY <1>2, <1>4
  <2>2. l \in 1 .. Len(r.rows)
    BY <1>2, <1>6, <2>1
  <2>3. QED
    BY <1>2, <2>2
<1>8. r.rows[l].art \in Nat /\ r.rows[l].art + l = x + k
  BY <1>1, <1>3, <1>7
<1>9. r.rows[l].art = c
  <2> DEFINE y == r.rows[l].art
  <2>1. x \in Int /\ k \in Int /\ l \in Int /\ y \in Int /\ y + l = x + k /\ x + k - l = c
    BY <1>2, <1>4, <1>6, <1>8
  <2> HIDE DEF x, y
  <2>2. y = c
    BY <2>1
  <2>3. QED
    BY <2>2 DEF y
<1>10. QED
  BY <1>7, <1>9

LEMMA AnswerRowsPages ==
    ASSUME IInv, PagesInv, NEW r \in inflight, AnswerRows(r) PROVE PagesInv'
<1>0. /\ TypeOK /\ r.page \in Nat /\ r.rows \in Seq(Row) /\ ITEM_COUNT \in Nat
      /\ \A k \in DOMAIN r.rows : /\ r.rows[k].art \in Nat /\ r.rows[k].page = r.page
                                  /\ r.rows[k].pos = k
  BY RowFields, BoardAssumption DEF IInv, RowsOfPage
<1>1. /\ inflight' = inflight \ {r} /\ r.rows # <<>>
      /\ UNCHANGED <<MN_POSITION, board, overlap>>
  BY DEF AnswerRows, Complete
<1>2. /\ DOMAIN r.rows = 1 .. Len(r.rows) /\ Len(r.rows) \in Nat
      /\ 1 \in DOMAIN r.rows /\ Len(r.rows) \in DOMAIN r.rows
  <2>1. DOMAIN r.rows = 1 .. Len(r.rows) /\ Len(r.rows) \in Nat /\ Len(r.rows) # 0
    BY <1>0, <1>1, LenProperties, EmptySeq
  <2>2. QED
    BY <2>1
<1>3. /\ \A i \in DOMAIN OBJ_SOSIK : i \in DOMAIN OBJ_SOSIK' /\ OBJ_SOSIK'[i] = OBJ_SOSIK[i]
      /\ \A k \in DOMAIN r.rows : \E j \in DOMAIN OBJ_SOSIK' : OBJ_SOSIK'[j] = r.rows[k]
      /\ \A j \in DOMAIN OBJ_SOSIK' :
            \/ j \in DOMAIN OBJ_SOSIK
            \/ \E k \in DOMAIN r.rows : OBJ_SOSIK'[j] = r.rows[k]
  BY <1>0, AppendedRows
<1>4. NewestFirst' /\ AnswersOfBoard'
  BY <1>1 DEF PagesInv, NewestFirst, AnswersOfBoard, Top
<1>5. \A k \in DOMAIN r.rows :
        /\ r.rows[k].art >= 1
        /\ Top(r.rows[k]) <= Len(board[r.tab]) + 1
        /\ \A l \in DOMAIN r.rows : r.rows[l].art + l = r.rows[k].art + k
        /\ Len(r.rows) = ITEM_COUNT \/ r.rows[Len(r.rows)].art = 1
  BY DEF PagesInv, AnswersOfBoard
<1>6. ASSUME ~overlap
      PROVE  /\ \A s \in inflight : s = r
             /\ r.tab = MN_POSITION
             /\ \A i \in DOMAIN OBJ_SOSIK : OBJ_SOSIK[i].page < r.page
             /\ \A i \in DOMAIN OBJ_SOSIK :
                  /\ Top(OBJ_SOSIK[i]) <= Len(board[MN_POSITION]) + 1
                  /\ \A k \in DOMAIN r.rows : Top(OBJ_SOSIK[i]) <= Top(r.rows[k])
                  /\ \E j \in DOMAIN OBJ_SOSIK :
                        \/ OBJ_SOSIK[j].art = 1
                        \/ OBJ_SOSIK[j].art + ITEM_COUNT <= OBJ_SOSIK[i].art + OBJ_SOSIK[i].pos
  BY <1>6 DEF IInv, OneAhead, PagesInv, ListOfBoard
<1>7. ListOfBoard'
  <2> SUFFICES ASSUME ~overlap, NEW i \in DOMAIN OBJ_SOSIK'
               PROVE  /\ Top(OBJ_SOSIK'[i]) <= Len(board[MN_POSITION]) + 1
                      /\ \E j \in DOMAIN OBJ_SOSIK' :
                            \/ OBJ_SOSIK'[j].art = 1
                            \/ OBJ_SOSIK'[j].art + ITEM_COUNT
                                 <= OBJ_SOSIK'[i].art + OBJ_SOSIK'[i].pos
    BY <1>1, <1>6 DEF ListOfBoard, Top
  <2>1. CASE i \in DOMAIN OBJ_SOSIK
    BY <1>3, <1>6, <2>1
  <2>2. ASSUME NEW k \in DOMAIN r.rows, OBJ_SOSIK'[i] = r.rows[k]
        PROVE  /\ Top(OBJ_SOSIK'[i]) <= Len(board[MN_POSITION]) + 1
               /\ \E j \in DOMAIN OBJ_SOSIK' :
                     \/ OBJ_SOSIK'[j].art = 1
                     \/ OBJ_SOSIK'[j].art + ITEM_COUNT
                          <= OBJ_SOSIK'[i].art + OBJ_SOSIK'[i].pos
    <3> DEFINE n == Len(r.rows)
    <3>1. PICK j \in DOMAIN OBJ_SOSIK' : OBJ_SOSIK'[j] = r.rows[n]
      BY <1>2, <1>3
    <3>2. n \in DOMAIN r.rows /\ r.rows[n].art + n = r.rows[k].art + k
      BY <1>2, <1>5
    <3>3. n = ITEM_COUNT \/ r.rows[n].art = 1
      BY <1>5
    <3>4. r.rows[k].pos = k
      BY <1>0
    <3> HIDE DEF n
    <3>5. r.rows[n].art \in Nat /\ r.rows[k].art \in Nat /\ k \in Nat
      BY <1>0, <1>2, <3>2
    <3>6. CASE r.rows[n].art = 1
      BY <1>5, <1>6, <2>2, <3>1, <3>6
    <3>7. CASE n = ITEM_COUNT
      <4>1. r.rows[n].art + ITEM_COUNT <= r.rows[k].art + r.rows[k].pos
        BY <1>0, <3>2, <3>4, <3>5, <3>7
      <4>2. QED
        BY <1>5, <1>6, <2>2, <3>1, <4>1
    <3>8. QED
      BY <3>3, <3>6, <3>7
  <2>3. QED
    BY <1>3, <2>1, <2>2
<1>8. NoArticleMissed'
  <2> SUFFICES ASSUME ~overlap, \A p \in PagesShown' : \A q \in 0 .. p : q \in PagesShown',
                      NEW a \in ArticlesShown', NEW b \in FirstPageShown', NEW c \in a .. b
               PROVE  c \in ArticlesShown'
    BY <1>1 DEF NoArticleMissed
  <2>1. /\ ArticlesShown \subseteq ArticlesShown'
        /\ \A k \in DOMAIN r.rows : r.rows[k].art \in ArticlesShown'
        /\ \A x \in ArticlesShown' :
              x \in ArticlesShown \/ \E k \in DOMAIN r.rows : x = r.rows[k].art
    BY <1>3 DEF ArticlesShown
  <2>2. \A p \in PagesShown : p \in Nat /\ p < r.page /\ p \in PagesShown'
    BY <1>0, <1>3, <1>6, RowFields DEF PagesShown
  <2>3. r.page \in PagesShown' /\ \A p \in PagesShown' : p \in PagesShown \/ p = r.page
    BY <1>0, <1>2, <1>3 DEF PagesShown
  <2>4. \A p \in PagesShown : \A q \in 0 .. p : q \in PagesShown
    <3> SUFFICES ASSUME NEW p \in PagesShown, NEW q \in 0 .. p PROVE q \in PagesShown
      OBVIOUS
    <3>1. q \in PagesShown' /\ p \in Nat /\ p < r.page
      BY <2>2
    <3>2. q # r.page
      BY <1>0, <3>1
    <3>3. QED
      BY <2>3, <3>1, <3>2
  <2>5. /\ a \in Nat /\ b \in Nat /\ c \in Int /\ a <= c /\ c <= b
    <3>1. \A x \in ArticlesShown' : x \in Nat
      <4>1. \A x \in ArticlesShown : x \in Nat
        BY <1>0, RowFields DEF ArticlesShown
      <4>2. QED
        BY <1>0, <2>1, <4>1
    <3>2. b \in ArticlesShown'
      BY DEF ArticlesShown, FirstPageShown
    <3>3. a \in Nat /\ b \in Nat
      BY <3>1, <3>2
    <3>4. QED
      BY <3>3
  <2>6. CASE r.page = 0
    <3>1. DOMAIN OBJ_SOSIK = {}
      <4>1. \A i \in DOMAIN OBJ_SOSIK : OBJ_SOSIK[i].page \in PagesShown
        BY DEF PagesShown
      <4>2. \A i \in DOMAIN OBJ_SOSIK : OBJ_SOSIK[i].page \in Nat /\ OBJ_SOSIK[i].page < 0
        BY <2>2, <2>6, <4>1, Zenon
      <4>3. \A n \in Nat : ~(n < 0)
        OBVIOUS
      <4>4. QED
        BY <4>2, <4>3, Zenon
    <3>2. /\ \E k \in DOMAIN r.rows : a = r.rows[k].art
          /\ \E k \in DOMAIN r.rows : b = r.rows[k].art
      BY <1>3, <3>1 DEF ArticlesShown, FirstPageShown
    <3>3. PICK k \in DOMAIN r.rows : a = r.rows[k].art
      BY <3>2
    <3>4. PICK l \in DOMAIN r.rows : b = r.rows[l].art
      BY <3>2
    <3>5. k \in Nat /\ l \in Nat /\ l >= 1 /\ b + l = a + k
      BY <1>2, <1>5, <3>3, <3>4
    <3>6. a <= c /\ c < a + k
      BY <2>5, <3>5
    <3>7. \E x \in DOMAIN r.rows : r.rows[x].art = c
      BY <2>5, <3>3, <3>6, Successive
    <3>8. QED
      BY <2>1, <3>7
  <2>7. CASE r.page # 0
    <3>1. b \in FirstPageShown
      BY <1>0, <1>3, <2>7 DEF FirstPageShown
    <3>2. \A x \in ArticlesShown : x .. b \subseteq ArticlesShown
      BY <2>4, <3>1 DEF PagesInv, NoArticleMissed
    <3>3. CASE a \in ArticlesShown
      BY <2>1, <3>2, <3>3
    <3>4. ASSUME NEW k \in DOMAIN r.rows, a = r.rows[k].art PROVE c \in ArticlesShown'
      <4>1. k \in Nat /\ a >= 1
        BY <1>2, <1>5, <3>4
      <4>2. CASE c < a + k
        <5>1. \E x \in DOMAIN r.rows : r.rows[x].art = c
          BY <2>5, <3>4, <4>2, Successive
        <5>2. QED
          BY <2>1, <5>1
      <4>3. CASE c >= a + k
        <5>1. r.page - 1 \in 0 .. r.page /\ r.page - 1 # r.page
          BY <1>0, <2>7
        <5>2. r.page - 1 \in PagesShown
          BY <2>3, <5>1
        <5>3. PICK i \in DOMAIN OBJ_SOSIK : OBJ_SOSIK[i].page = r.page - 1
          BY <5>2 DEF PagesShown
        <5> DEFINE x == OBJ_SOSIK[i].art
                   y == OBJ_SOSIK[i].pos
        <5>4. x \in Nat /\ y \in Nat
          BY <1>0, RowFields
        <5>5. x + (r.page - 1) * ITEM_COUNT + y <= a + r.page * ITEM_COUNT + k
          BY <1>0, <1>6, <3>4, <5>3 DEF Top
        <5>6. PICK j \in DOMAIN OBJ_SOSIK :
                 OBJ_SOSIK[j].art = 1 \/ OBJ_SOSIK[j].art + ITEM_COUNT <= x + y
          BY <1>6
        <5> HIDE DEF x, y
        <5> DEFINE z == OBJ_SOSIK[j].art
        <5>7. z \in Nat /\ z \in ArticlesShown /\ (z = 1 \/ z + ITEM_COUNT <= x + y)
          BY <1>0, <5>6, RowFields DEF ArticlesShown
        <5> HIDE DEF z
        <5>8. x + y <= a + k + ITEM_COUNT
          <6> DEFINE u == r.page * ITEM_COUNT
                     v == (r.page - 1) * ITEM_COUNT
          <6>1. u \in Nat /\ v = u - ITEM_COUNT
            BY <1>0
          <6>2. x + v + y <= a + u + k
            BY <5>5
          <6> HIDE DEF u, v
          <6>3. QED
            BY <1>0, <2>5, <4>1, <5>4, <6>1, <6>2
        <5>9. z <= c
          BY <1>0, <2>5, <4>1, <4>3, <5>4, <5>7, <5>8
        <5>10. c \in z .. b
          BY <2>5, <5>7, <5>9
        <5>11. QED
          BY <2>1, <3>2, <5>7, <5>10
      <4>4. QED
        BY <2>5, <4>1, <4>2, <4>3
    <3>5. QED
      BY <2>1, <3>3, <3>4
  <2>8. QED
    BY <2>6, <2>7
<1>9. QED
  BY <1>4, <1>7, <1>8 DEF PagesInv

LEMMA NextPages == IInv /\ PagesInv /\ [Next]_vars => PagesInv'
<1> SUFFICES ASSUME IInv, PagesInv, [Next]_vars PROVE PagesInv'
  OBVIOUS
<1>1. CASE UNCHANGED vars
  BY <1>1 DEF vars, PagesInv, NewestFirst, AnswersOfBoard, ListOfBoard, Top, NoArticleMissed,
              PagesShown, ArticlesShown, FirstPageShown
<1>2. CASE Next
  BY <1>2, ScreenPages, PostPages, ServePages, EmptyAnswerPages, AnswerRowsPages DEF Next, Answer
<1>3. QED
  BY <1>1, <1>2

(* However many articles are posted between two pages, wherever the page   *)
(* ends and whatever the tabs, offset paging skips no article from the     *)
(* first page down to the oldest row shown, unless requests overlapped or  *)
(* a page was lost (VC_SOSIK 253-254, P_SOSIK 87).                         *)
THEOREM PagingMissesNothing == Spec => []NoArticleMissed
<1>1. Init => IInv /\ PagesInv
  BY InitInv, InitPages
<1>2. IInv /\ PagesInv /\ [Next]_vars => (IInv /\ PagesInv)'
  BY NextInv, NextPages
<1>3. IInv /\ PagesInv => NoArticleMissed
  BY DEF PagesInv
<1>4. QED
  BY <1>1, <1>2, <1>3, PTL DEF Spec

-----------------------------------------------------------------------------
(* A sequence is a prefix of what it is continued to.                      *)
LEMMA Continued ==
    ASSUME NEW s \in Seq(Row), NEW t \in Seq(Row)
    PROVE  Len(s) <= Len(s \o t) /\ SubSeq(s \o t, 1, Len(s)) = s
<1>1. /\ s \o t \in Seq(Row) /\ Len(s \o t) = Len(s) + Len(t)
      /\ Len(s) \in Nat /\ Len(t) \in Nat
  BY ConcatProperties, LenProperties
<1>2. SubSeq(s \o t, 1, Len(s)) = s
  BY SubSeqOfConcat1
<1>3. QED
  BY <1>1, <1>2

(* However tabs, reloads and pages follow each other, the list is a list   *)
(* of what is selected: rows arrive at its end, of the tab selected, and   *)
(* none changes or goes but with the whole list (P_SOSIK 29, 87).          *)
THEOREM BoardKeepsSelection == Spec => KeepsSelection
<1>1. Init => Selected!Init
  BY DEF Init, Selected!Init
<1>2. IInv /\ IInv' /\ [Next]_vars => [Selected!Next]_(Selected!vars)
  <2> SUFFICES ASSUME IInv, IInv', Next PROVE [Selected!Next]_(Selected!vars)
    BY DEF vars, Selected!vars
  <2> USE DEF Selected!Next
  <2>1. CASE ScrollToEnd
    <3>1. PICK online \in BOOLEAN : GET_SOSIK_L2(MN_POSITION, PAGE_NUMBER + 1, online)
      BY <2>1 DEF ScrollToEnd
    <3>2. PAGE_NUMBER + 1 # 0
      BY DEF IInv, TypeOK
    <3>3. OBJ_SOSIK' = OBJ_SOSIK /\ MN_POSITION' = MN_POSITION /\ (overlap' = overlap \/ overlap')
      BY <2>1, <3>1, <3>2 DEF ScrollToEnd, GET_SOSIK_L2, IInv, TypeOK
    <3>4. QED
      BY <3>3 DEF Selected!Wait, Selected!Cross
  <2>2. CASE Refresh
    BY <2>2 DEF Refresh, GET_SOSIK_L2, Selected!Ask
  <2>3. ASSUME NEW tab \in Tabs, MENU_V(tab) PROVE Selected!Ask
    BY <2>3 DEF MENU_V, GET_SOSIK_L2, Selected!Ask
  <2>4. ASSUME NEW tab \in Tabs, Post(tab) PROVE Selected!Wait
    BY <2>4 DEF Post, Selected!Wait
  <2>5. ASSUME NEW r \in inflight, Serve(r) PROVE Selected!Wait
    BY <2>5 DEF Serve, Selected!Wait
  <2>6. ASSUME NEW r \in inflight, AnswerNoMore(r) \/ AnswerFailure(r) PROVE Selected!Wait
    BY <2>6 DEF AnswerNoMore, AnswerFailure, Complete, Selected!Wait
  <2>7. ASSUME NEW r \in inflight, AnswerRows(r)
        PROVE  Selected!Receive \/ Selected!Confused
    <3>1. /\ OBJ_SOSIK' = OBJ_SOSIK \o r.rows
          /\ MN_POSITION' = MN_POSITION /\ overlap' = overlap
      BY <2>7 DEF AnswerRows, Complete
    <3>2. OBJ_SOSIK \in Seq(Row) /\ r.rows \in Seq(Row) /\ MN_POSITION \in Tabs
      BY DEF IInv, TypeOK, Request
    <3>3. Len(OBJ_SOSIK) <= Len(OBJ_SOSIK') /\ SubSeq(OBJ_SOSIK', 1, Len(OBJ_SOSIK)) = OBJ_SOSIK
      BY <3>1, <3>2, Continued
    <3>4. ~overlap => \A i \in DOMAIN OBJ_SOSIK' : TabOf(OBJ_SOSIK'[i]) = MN_POSITION
      BY <3>1 DEF IInv, InServerOrder, TabOf
    <3>5. QED
      BY <3>1, <3>2, <3>3, <3>4 DEF Selected!Receive, Selected!Confused
  <2>8. QED
    BY <2>1, <2>2, <2>3, <2>4, <2>5, <2>6, <2>7 DEF Next, Answer
<1>3. QED
  BY <1>1, <1>2, InvariantHolds, PTL DEF Spec, KeepsSelection, Selected!Spec
=============================================================================
