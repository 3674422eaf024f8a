--------------------------- MODULE Article_proofs ---------------------------
(***************************************************************************)
(* Proofs about Article: its types, the row an article counts in, what a   *)
(* careful resident sees, and the comments shown, for any articles,        *)
(* boards and listings, and any number of pages and requests; and about    *)
(* Media: what the views show and which files are opened.                  *)
(*                                                                         *)
(* The invariant has two halves that do not look at each other's           *)
(* variables: the comments on pages, on the server and under way           *)
(* (CommentInv), and the lists, the references to them and their counts    *)
(* (CountInv).                                                             *)
(***************************************************************************)
EXTENDS Article, Media, FiniteSetTheorems, SequenceTheorems, TLAPS

Inserts == {r \in inflight : r.op = "insert"}
Details == {r \in inflight : r.op = "detail"}
IsIn(c, seq) == \E j \in DOMAIN seq : seq[j] = c
Named(id, seq) == \E j \in DOMAIN seq : seq[j].id = id
NamedOnce(seq) == \A i, j \in DOMAIN seq : seq[i].id = seq[j].id => i = j

(* Requests were sent before, from pages that were opened; a page sends    *)
(* one request for its article, and comments have different names.         *)
RequestsKnown ==
    /\ \A r \in inflight : r.id < sent
    /\ \A r \in Details \cup Inserts : r.page \in DOMAIN pages
    /\ \A r, s \in Details : r.page = s.page => r = s
    /\ \A r, s \in Inserts : r.id = s.id => r = s

(* The server's comments have different names, older than the next one; a  *)
(* comment under way has none of them before it arrives, and is there      *)
(* afterwards.                                                             *)
ServerComments ==
    /\ \A a \in Articles :
        /\ NamedOnce(comments[a])
        /\ \A j \in DOMAIN comments[a] : comments[a][j].id < sent
    /\ \A r \in Inserts :
        /\ ~r.served => ~Named(r.id, comments[pages[r.page].art])
        /\ r.served /\ r.success =>
               IsIn([id |-> r.id, text |-> r.text], comments[pages[r.page].art])

(* What an answer with an article holds is on the server, and such an      *)
(* answer comes to a page that has none yet.                               *)
FoundTrue ==
    \A r \in Details :
        /\ ~pages[r.page].OBJ_SOSIK
        /\ NamedOnce(r.found)
        /\ \A j \in DOMAIN r.found : IsIn(r.found[j], comments[pages[r.page].art])

(* A comment under way has the text of the field, and is alone, as long as *)
(* nothing crossed it.                                                     *)
FieldIsSent ==
    \A r \in Inserts : ~pages[r.page].crossed =>
        /\ r.text = pages[r.page].COMMENT_TF
        /\ \A s \in Inserts : s.page = r.page => s = r

(* Names shown are old, and those under way are not among them; a page     *)
(* without its article shows none and has sent none: unless it commented   *)
(* early.                                                                  *)
ShownOrUnderWay ==
    /\ \A p \in DOMAIN pages :
        /\ \A j \in DOMAIN pages[p].OBJ_COMMENT : pages[p].OBJ_COMMENT[j].id < sent
        /\ ~pages[p].early /\ ~pages[p].OBJ_SOSIK => pages[p].OBJ_COMMENT = <<>>
    /\ \A r \in Inserts : ~pages[r.page].early =>
        /\ pages[r.page].OBJ_SOSIK
        /\ ~Named(r.id, pages[r.page].OBJ_COMMENT)

CommentInv ==
    /\ RequestsKnown /\ ServerComments /\ FoundTrue /\ FieldIsSent /\ ShownOrUnderWay
    /\ ShownAsSent /\ ShownOnce

(* Which lists the screens shown leave referred to.                        *)
References ==
    /\ screen = "article" => pages # <<>>
    /\ screen = "home" => ~VC_SOSIK_DEL
    /\ screen \in {"home", "tab", "board", "groups"} => ~VC_COMMUNITY_1_DEL
    /\ screen = "article" /\ pages[open].from # "group" => ~VC_COMMUNITY_1_DEL

(* Rows under way have no readings, and no comments ahead of the server.   *)
RowsUnderWay ==
    \A r \in inflight : \A i \in DOMAIN r.rows :
        /\ r.rows[i].READ_CNT = 0
        /\ r.rows[i].COMMENT_CNT <= Len(comments[r.rows[i].art])

(* Comments of page p that the server has and whose answer is under way.   *)
Uncounted(p) == {r \in Inserts : r.page = p /\ r.served /\ r.success}

(* The row of the article shown has room for them.                         *)
RoomForAnswers ==
    Careful /\ screen = "article" /\ pages[open].from = "row" =>
        LET row == OBJ_SOSIK[pages[open].POSITION]
        IN  row.COMMENT_CNT + Cardinality(Uncounted(open)) <= Len(comments[row.art])

CountInv ==
    /\ IsFiniteSet(inflight)
    /\ References /\ RowsUnderWay /\ RoomForAnswers
    /\ CountsInItsRow /\ CarefulIsSafe

IInv == TypeOK /\ CommentInv /\ CountInv

-----------------------------------------------------------------------------
(* Operators of the model.                                                 *)

LEMMA NewRequestType ==
    ASSUME NEW id \in Nat, NEW op \in {"board", "group", "detail", "insert"}, NEW page \in Nat,
           NEW text \in Texts \cup {NoText}
    PROVE  NewRequest(id, op, page, text) \in Request
<1>1. <<>> \in Seq(Row) /\ <<>> \in Seq(Comment)
  BY EmptySeq
<1>2. QED
  BY <1>1 DEF NewRequest, Request

LEMMA FinitePair ==
    ASSUME NEW a, NEW b, NEW S, S \subseteq {a, b}
    PROVE  IsFiniteSet(S)
<1>1. IsFiniteSet({a})
  BY FS_Singleton
<1>2. IsFiniteSet({a} \cup {b})
  BY <1>1, FS_AddElement
<1>3. {a} \cup {b} = {a, b}
  OBVIOUS
<1>4. QED
  BY <1>2, <1>3, FS_Subset

(* A request in flight as seen by the lists: there before, or new, for a   *)
(* list, and without rows.                                                 *)
OnlyLists ==
    \A r \in inflight' :
        \/ r \in inflight
        \/ r.op \in {"board", "group"} /\ r.id < sent' /\ r.rows = <<>> /\ ~r.served

LEMMA SendFacts ==
    ASSUME TypeOK, NEW pending \in SUBSET inflight, NEW ops \in SUBSET {"board", "group"},
           Send(pending, ops)
    PROVE  /\ sent' \in Nat /\ sent <= sent'
           /\ inflight' \subseteq Request
           /\ IsFiniteSet(inflight) => IsFiniteSet(inflight')
           /\ OnlyLists
<1> DEFINE new == {NewRequest(sent, op, 0, NoText) : op \in ops}
<1>1. sent \in Nat /\ inflight \subseteq Request
  BY DEF TypeOK
<1>2. IsFiniteSet(ops) /\ Cardinality(ops) \in Nat /\ (Cardinality(ops) = 0 <=> ops = {})
  <2>1. IsFiniteSet(ops)
    BY FinitePair
  <2>2. Cardinality(ops) \in Nat
    BY <2>1, FS_CardinalityType
  <2>3. Cardinality(ops) = 0 <=> ops = {}
    BY <2>1, FS_EmptySet
  <2>4. QED
    BY <2>1, <2>2, <2>3
<1>3. \A r \in new : /\ r \in Request /\ r.op \in {"board", "group"} /\ r.id = sent
                     /\ r.rows = <<>> /\ ~r.served
  <2>1. ASSUME NEW op \in ops PROVE NewRequest(sent, op, 0, NoText) \in Request
    BY <1>1, NewRequestType
  <2>2. \A op \in ops : LET r == NewRequest(sent, op, 0, NoText)
                        IN  r.op = op /\ r.id = sent /\ r.rows = <<>> /\ ~r.served
    BY DEF NewRequest
  <2>3. QED
    BY <2>1, <2>2
<1>4. IsFiniteSet(new)
  <2>1. new \subseteq {NewRequest(sent, "board", 0, NoText), NewRequest(sent, "group", 0, NoText)}
    OBVIOUS
  <2> HIDE DEF new
  <2>2. QED
    BY <2>1, FinitePair
<1>5. CASE inflight' = pending \cup new /\ sent' = sent + Cardinality(ops)
  <2>1. new # {} => sent < sent'
    BY <1>1, <1>2, <1>5
  <2>2. IsFiniteSet(inflight) => IsFiniteSet(inflight')
    BY <1>4, <1>5, FS_Subset, FS_Union
  <2>3. sent' \in Nat /\ sent <= sent'
    BY <1>1, <1>2, <1>5
  <2> HIDE DEF new
  <2>4. QED
    BY <1>1, <1>3, <1>5, <2>1, <2>2, <2>3 DEF OnlyLists
<1>6. CASE inflight' = pending /\ sent' = sent
  BY <1>1, <1>6, FS_Subset DEF OnlyLists
<1>7. QED
  BY <1>5, <1>6 DEF Send

(* What a screen that appears does to the lists.                           *)
LEMMA AppearFacts ==
    ASSUME TypeOK, NEW s, Appear(s)
    PROVE  /\ kind' = kind
           /\ (OBJ_SOSIK' = <<>> /\ screen' = "home") \/ OBJ_SOSIK' = OBJ_SOSIK
           /\ groupRows' = <<>> \/ groupRows' = groupRows
           /\ OBJ_SOSIK' \in Seq(Row) /\ groupRows' \in Seq(Row)
           /\ VC_SOSIK_DEL' \in BOOLEAN /\ VC_COMMUNITY_1_DEL' \in BOOLEAN
           /\ VC_SOSIK_DEL' => VC_SOSIK_DEL /\ s # "home"
           /\ VC_COMMUNITY_1_DEL' => VC_COMMUNITY_1_DEL /\ s \notin {"home", "groups"}
           /\ sent' \in Nat /\ sent <= sent'
           /\ inflight' \subseteq Request
           /\ IsFiniteSet(inflight) => IsFiniteSet(inflight')
           /\ OnlyLists
<1>1. Held \subseteq inflight
  BY DEF Held
<1>2. /\ sent' \in Nat /\ sent <= sent' /\ inflight' \subseteq Request
      /\ IsFiniteSet(inflight) => IsFiniteSet(inflight')
      /\ OnlyLists
  <2>1. CASE Send(Held, {"board"})
    BY <1>1, <2>1, SendFacts
  <2>2. CASE inflight' = Held /\ sent' = sent
    BY <1>1, <2>2, FS_Subset DEF OnlyLists, TypeOK
  <2>3. QED
    BY <2>1, <2>2 DEF Appear
<1>3. (OBJ_SOSIK' = <<>> /\ screen' = "home") \/ OBJ_SOSIK' = OBJ_SOSIK
  BY DEF Appear, BoardGone
<1>4. groupRows' = <<>> \/ groupRows' = groupRows
  BY DEF Appear
<1>5. OBJ_SOSIK' \in Seq(Row) /\ groupRows' \in Seq(Row)
  BY <1>3, <1>4, EmptySeq DEF TypeOK
<1>6. /\ VC_SOSIK_DEL' \in BOOLEAN /\ VC_COMMUNITY_1_DEL' \in BOOLEAN
      /\ VC_SOSIK_DEL' => VC_SOSIK_DEL /\ s # "home"
      /\ VC_COMMUNITY_1_DEL' => VC_COMMUNITY_1_DEL /\ s \notin {"home", "groups"}
  BY Zenon DEF Appear, Forgotten, TypeOK
<1>7. kind' = kind
  BY DEF Appear
<1>8. QED
  BY <1>2, <1>3, <1>4, <1>5, <1>6, <1>7

(* The screen below is one of the stack.                                   *)
LEMMA BelowFacts ==
    ASSUME TypeOK, References, CanGoBack \/ screen = "article"
    PROVE  /\ Below \in {"home", "tab", "board", "groups", "group"}
           /\ screen = "article" => /\ Below = "home" <=> pages[open].from = "home"
                                    /\ Below = "group" <=> pages[open].from = "group"
                                    /\ Below \notin {"tab", "groups"}
           /\ screen = "board" => Below \in {"home", "tab"}
           /\ screen = "groups" => Below = "board"
           /\ screen = "group" => Below = "groups"
<1>1. screen = "article" => pages[open].from \in {"row", "picture", "home", "group"}
  <2> SUFFICES ASSUME screen = "article" PROVE pages[open].from \in {"row", "picture", "home", "group"}
    OBVIOUS
  <2>1. pages \in Seq(Page) /\ pages # <<>>
    BY DEF TypeOK, References
  <2>2. pages[open] \in Page
    BY <2>1, LenProperties, ElementOfSeq, EmptySeq DEF open
  <2>3. QED
    BY <2>2 DEF Page
<1>2. tab \in {"home", "tab"} /\ screen \in {"home", "tab", "board", "groups", "group", "article"}
  BY DEF TypeOK
<1>3. CASE screen = "article"
  BY <1>1, <1>3 DEF Below
<1>4. CASE screen # "article"
  BY <1>2, <1>4 DEF Below, CanGoBack
<1>5. QED
  BY <1>3, <1>4

-----------------------------------------------------------------------------
(* Steps of the lists: the pages keep everything but the alert, the server *)
(* its comments, and only requests for lists are added.                    *)
SameContent(p) ==
    /\ pages'[p].art = pages[p].art /\ pages'[p].from = pages[p].from
    /\ pages'[p].POSITION = pages[p].POSITION
    /\ pages'[p].OBJ_SOSIK = pages[p].OBJ_SOSIK
    /\ pages'[p].OBJ_COMMENT = pages[p].OBJ_COMMENT
    /\ pages'[p].COMMENT_TF = pages[p].COMMENT_TF
    /\ pages'[p].early = pages[p].early
    /\ pages'[p].crossed = pages[p].crossed
    /\ pages'[p].left = pages[p].left

SamePages ==
    /\ pages' \in Seq(Page) /\ Len(pages') = Len(pages)
    /\ \A p \in DOMAIN pages : SameContent(p)

ListsStep ==
    /\ SamePages /\ comments' = comments
    /\ sent' \in Nat /\ sent <= sent'
    /\ inflight' \subseteq Request
    /\ IsFiniteSet(inflight) => IsFiniteSet(inflight')
    /\ OnlyLists

LEMMA DomainOfPages ==
    ASSUME TypeOK
    PROVE  /\ Len(pages) \in Nat /\ DOMAIN pages = 1 .. Len(pages)
           /\ \A p \in DOMAIN pages : pages[p] \in Page
           /\ pages # <<>> => open \in DOMAIN pages
<1>1. pages \in Seq(Page)
  BY DEF TypeOK
<1>2. Len(pages) \in Nat /\ DOMAIN pages = 1 .. Len(pages)
  BY <1>1, LenProperties
<1>3. \A p \in DOMAIN pages : pages[p] \in Page
  BY <1>1, <1>2, ElementOfSeq
<1>4. pages # <<>> => Len(pages) # 0
  BY <1>1, EmptySeq
<1>5. QED
  BY <1>2, <1>3, <1>4 DEF open

LEMMA UnchangedPages ==
    ASSUME TypeOK, pages' = pages
    PROVE  SamePages
BY DEF TypeOK, SamePages, SameContent

LEMMA ListsStepComments ==
    ASSUME TypeOK, CommentInv, ListsStep
    PROVE  CommentInv'
<1> USE DEF ListsStep, SamePages
<1>1. DOMAIN pages' = DOMAIN pages
  BY DomainOfPages, LenProperties
<1>2. Inserts' \subseteq Inserts /\ Details' \subseteq Details
  BY DEF Inserts, Details, OnlyLists
<1>3. \A r \in Inserts \cup Details : r.page \in DOMAIN pages
  BY DEF CommentInv, RequestsKnown
<1>4. sent \in Nat /\ inflight \subseteq Request
  BY DEF TypeOK
<1>5. RequestsKnown'
  <2>1. \A r \in inflight' : r.id < sent'
    <3> SUFFICES ASSUME NEW r \in inflight', r \in inflight PROVE r.id < sent'
      BY DEF OnlyLists
    <3>1. r.id \in Nat /\ r.id < sent
      BY <1>4 DEF CommentInv, RequestsKnown, Request
    <3>2. QED
      BY <1>4, <3>1
  <2>2. \A r \in Details' \cup Inserts' : r.page \in DOMAIN pages'
    BY <1>1, <1>2, <1>3
  <2>3. QED
    BY <1>2, <2>1, <2>2 DEF CommentInv, RequestsKnown
<1>6. ServerComments'
  <2>1. \A a \in Articles : NamedOnce(comments'[a])
    BY DEF CommentInv, ServerComments
  <2>2. \A a \in Articles : \A j \in DOMAIN comments'[a] : comments'[a][j].id < sent'
    <3> SUFFICES ASSUME NEW a \in Articles, NEW j \in DOMAIN comments[a]
                 PROVE  comments[a][j].id < sent'
      OBVIOUS
    <3>1. comments[a] \in Seq(Comment)
      BY DEF TypeOK
    <3>2. comments[a][j] \in Comment
      BY <3>1, LenProperties, ElementOfSeq
    <3>3. comments[a][j].id \in Nat /\ comments[a][j].id < sent
      BY <3>2 DEF CommentInv, ServerComments, Comment
    <3>4. QED
      BY <1>4, <3>3
  <2>3. \A r \in Inserts' :
          /\ ~r.served => ~Named(r.id, comments'[pages'[r.page].art])
          /\ r.served /\ r.success => IsIn([id |-> r.id, text |-> r.text], comments'[pages'[r.page].art])
    BY <1>2, <1>3 DEF CommentInv, ServerComments, SameContent
  <2>4. QED
    BY <2>1, <2>2, <2>3 DEF ServerComments
<1>7. FoundTrue'
  BY <1>2, <1>3 DEF CommentInv, FoundTrue, SameContent
<1>8. FieldIsSent'
  BY <1>2, <1>3 DEF CommentInv, FieldIsSent, SameContent
<1>9. ShownOrUnderWay'
  <2>1. \A p \in DOMAIN pages' : \A j \in DOMAIN pages'[p].OBJ_COMMENT :
            pages'[p].OBJ_COMMENT[j].id < sent'
    <3> SUFFICES ASSUME NEW p \in DOMAIN pages, NEW j \in DOMAIN pages[p].OBJ_COMMENT
                 PROVE  pages[p].OBJ_COMMENT[j].id < sent'
      BY <1>1 DEF SameContent
    <3>1. pages[p].OBJ_COMMENT \in Seq(Comment)
      BY DomainOfPages DEF Page
    <3>2. pages[p].OBJ_COMMENT[j] \in Comment
      BY <3>1, LenProperties, ElementOfSeq
    <3>3. pages[p].OBJ_COMMENT[j].id \in Nat /\ pages[p].OBJ_COMMENT[j].id < sent
      BY <3>2 DEF CommentInv, ShownOrUnderWay, Comment
    <3>4. QED
      BY <1>4, <3>3
  <2>2. \A p \in DOMAIN pages' :
            ~pages'[p].early /\ ~pages'[p].OBJ_SOSIK => pages'[p].OBJ_COMMENT = <<>>
    BY <1>1 DEF CommentInv, ShownOrUnderWay, SameContent
  <2>3. \A r \in Inserts' : ~pages'[r.page].early =>
            pages'[r.page].OBJ_SOSIK /\ ~Named(r.id, pages'[r.page].OBJ_COMMENT)
    BY <1>2, <1>3 DEF CommentInv, ShownOrUnderWay, SameContent
  <2>4. QED
    BY <2>1, <2>2, <2>3 DEF ShownOrUnderWay
<1>10. ShownAsSent' /\ ShownOnce'
  BY <1>1 DEF CommentInv, ShownAsSent, ShownOnce, SameContent
<1>11. QED
  BY <1>5, <1>6, <1>7, <1>8, <1>9, <1>10 DEF CommentInv

LEMMA FinitePages ==
    ASSUME TypeOK, NEW S, S \subseteq DOMAIN pages
    PROVE  IsFiniteSet(S) /\ Cardinality(S) \in Nat
<1>1. IsFiniteSet(DOMAIN pages)
  BY DomainOfPages, FS_Interval
<1>2. IsFiniteSet(S)
  BY <1>1, FS_Subset
<1>3. QED
  BY <1>2, FS_CardinalityType

(* A row as CountsTrue has it.                                             *)
Counted(row) ==
    /\ row.COMMENT_CNT <= Len(comments[row.art])
    /\ row.READ_CNT <= Cardinality({p \in DOMAIN pages : pages[p].art = row.art})

Arrived(row) ==
    \/ \E i \in DOMAIN OBJ_SOSIK : OBJ_SOSIK[i] = row
    \/ \E r \in inflight : \E i \in DOMAIN r.rows : r.rows[i] = row

LEMMA ArrivedCounted ==
    ASSUME TypeOK, CountInv, Careful, NEW row, Arrived(row)
    PROVE  Counted(row)
<1>1. CASE \E i \in DOMAIN OBJ_SOSIK : OBJ_SOSIK[i] = row
  BY <1>1 DEF CountInv, CarefulIsSafe, CountsTrue, Counted
<1>2. CASE \E r \in inflight : \E i \in DOMAIN r.rows : r.rows[i] = row
  <2>1. Cardinality({p \in DOMAIN pages : pages[p].art = row.art}) \in Nat
    BY FinitePages
  <2>2. row.READ_CNT = 0 /\ row.COMMENT_CNT <= Len(comments[row.art])
    BY <1>2 DEF CountInv, RowsUnderWay
  <2>3. QED
    BY <2>1, <2>2 DEF Counted
<1>3. QED
  BY <1>1, <1>2 DEF Arrived

(* Steps after which every page is where it was, and the comments counted  *)
(* under way are none but those before.                                    *)
SamePlace(p) ==
    /\ pages'[p].art = pages[p].art /\ pages'[p].from = pages[p].from
    /\ pages'[p].POSITION = pages[p].POSITION
    /\ Patient(p)' => Patient(p)

CountsStep ==
    /\ pages' \in Seq(Page) /\ Len(pages') = Len(pages)
    /\ \A p \in DOMAIN pages : SamePlace(p)
    /\ comments' = comments
    /\ IsFiniteSet(inflight')
    /\ \A r \in inflight' : r \in inflight \/ (r.rows = <<>> /\ ~r.served)

LEMMA CountsStepCounts ==
    ASSUME TypeOK, CountInv, CountsStep, References', crashed' = crashed,
           \A i \in DOMAIN OBJ_SOSIK' : Arrived(OBJ_SOSIK'[i]),
           screen' = "article" =>
               /\ screen = "article"
               /\ VC_SOSIK_DEL' => VC_SOSIK_DEL
               /\ VC_COMMUNITY_1_DEL' => VC_COMMUNITY_1_DEL
               /\ \A i \in DOMAIN OBJ_SOSIK : i \in DOMAIN OBJ_SOSIK' /\ OBJ_SOSIK'[i] = OBJ_SOSIK[i]
    PROVE  CountInv'
<1> USE DEF CountsStep
<1>1. DOMAIN pages' = DOMAIN pages /\ open' = open
  BY DomainOfPages, LenProperties DEF open
<1>2. Uncounted(open)' \subseteq Uncounted(open)
  BY <1>1 DEF Uncounted, Inserts
<1>3. RowsUnderWay'
  <2> SUFFICES ASSUME NEW r \in inflight', NEW i \in DOMAIN r.rows
               PROVE  /\ r.rows[i].READ_CNT = 0
                      /\ r.rows[i].COMMENT_CNT <= Len(comments[r.rows[i].art])
    BY DEF RowsUnderWay
  <2>1. r \in inflight
    BY EmptySeq
  <2>2. QED
    BY <2>1 DEF CountInv, RowsUnderWay
<1>4. screen' = "article" => open \in DOMAIN pages
  <2>1. screen' = "article" => pages # <<>>
    BY DEF CountInv, References
  <2>2. QED
    BY <2>1, DomainOfPages
<1>5. Careful' => Careful
  BY <1>1 DEF Careful, SamePlace
<1>6. CountsInItsRow'
  <2>1. RowIsItsArticle'
    <3> SUFFICES ASSUME screen' = "article", pages'[open].from = "row"
                 PROVE  /\ pages'[open].POSITION \in DOMAIN OBJ_SOSIK'
                        /\ OBJ_SOSIK'[pages'[open].POSITION].art = pages'[open].art
      BY <1>1 DEF RowIsItsArticle
    <3>1. SamePlace(open)
      BY <1>4
    <3>2. QED
      BY <3>1 DEF SamePlace, CountInv, CountsInItsRow, RowIsItsArticle
  <2>2. NoticeCountsNowhere'
    BY <1>1, <1>4 DEF NoticeCountsNowhere, SamePlace, CountInv, CountsInItsRow
  <2>3. QED
    BY <2>1, <2>2 DEF CountsInItsRow
<1>7. RoomForAnswers'
  <2> SUFFICES ASSUME Careful, screen' = "article", pages'[open].from = "row"
               PROVE  LET row == OBJ_SOSIK'[pages'[open].POSITION]
                      IN  row.COMMENT_CNT + Cardinality(Uncounted(open)') <= Len(comments[row.art])
    BY <1>1, <1>5 DEF RoomForAnswers
  <2>1. SamePlace(open)
    BY <1>4
  <2> DEFINE row == OBJ_SOSIK[pages[open].POSITION]
  <2>2. /\ screen = "article" /\ pages[open].from = "row"
        /\ pages'[open].POSITION = pages[open].POSITION
    BY <2>1 DEF SamePlace
  <2>3. pages[open].POSITION \in DOMAIN OBJ_SOSIK
    BY <2>2 DEF CountInv, CountsInItsRow, RowIsItsArticle
  <2>4. row.COMMENT_CNT + Cardinality(Uncounted(open)) <= Len(comments[row.art])
    BY <2>2 DEF CountInv, RoomForAnswers
  <2>5. OBJ_SOSIK'[pages'[open].POSITION] = row
    BY <2>2, <2>3
  <2>6. /\ Cardinality(Uncounted(open)') <= Cardinality(Uncounted(open))
        /\ Cardinality(Uncounted(open)') \in Nat /\ Cardinality(Uncounted(open)) \in Nat
    <3>1. IsFiniteSet(inflight)
      BY DEF CountInv
    <3>2. Uncounted(open) \subseteq inflight
      BY DEF Uncounted, Inserts
    <3>3. IsFiniteSet(Uncounted(open))
      BY <3>1, <3>2, FS_Subset
    <3>4. QED
      BY <1>2, <3>3, FS_Subset, FS_CardinalityType
  <2>7. row.COMMENT_CNT \in Nat /\ Len(comments[row.art]) \in Nat
    <3>1. row \in Row
      BY <2>3, LenProperties, ElementOfSeq DEF TypeOK
    <3>2. row.COMMENT_CNT \in Nat /\ row.art \in Articles
      BY <3>1 DEF Row
    <3>3. comments[row.art] \in Seq(Comment)
      BY <3>2 DEF TypeOK
    <3>4. QED
      BY <3>2, <3>3, LenProperties
  <2> HIDE DEF row
  <2>8. QED
    BY <2>4, <2>5, <2>6, <2>7
<1>8. CarefulIsSafe'
  <2> SUFFICES ASSUME Careful, NEW i \in DOMAIN OBJ_SOSIK'
               PROVE  /\ OBJ_SOSIK'[i].COMMENT_CNT <= Len(comments[OBJ_SOSIK'[i].art])
                      /\ OBJ_SOSIK'[i].READ_CNT <=
                             Cardinality({p \in DOMAIN pages' : pages'[p].art = OBJ_SOSIK'[i].art})
    BY <1>5 DEF CarefulIsSafe, CountsTrue, CountInv
  <2>1. Counted(OBJ_SOSIK'[i])
    BY ArrivedCounted
  <2>2. {p \in DOMAIN pages' : pages'[p].art = OBJ_SOSIK'[i].art} =
        {p \in DOMAIN pages : pages[p].art = OBJ_SOSIK'[i].art}
    BY <1>1 DEF SamePlace
  <2>3. QED
    BY <2>1, <2>2 DEF Counted
<1>9. QED
  BY <1>3, <1>6, <1>7, <1>8 DEF CountInv

LEMMA ListsStepCountsStep ==
    ASSUME CountInv, ListsStep
    PROVE  CountsStep
<1>1. \A p \in DOMAIN pages : SamePlace(p)
  BY DEF ListsStep, SamePages, SameContent, SamePlace, Patient
<1>2. QED
  BY <1>1 DEF CountInv, ListsStep, SamePages, OnlyLists, CountsStep

(* A step of the lists that adds no rows: all but the answer with a list.  *)
LEMMA ListsStepIInv ==
    ASSUME IInv, ListsStep, References', crashed' = crashed,
           screen' \in {"home", "tab", "board", "groups", "group", "article"},
           tab' \in {"home", "tab"}, kind' \in Boards,
           groupRows' \in Seq(Row),
           VC_SOSIK_DEL' \in BOOLEAN, VC_COMMUNITY_1_DEL' \in BOOLEAN,
           (OBJ_SOSIK' = <<>> /\ screen' # "article") \/ OBJ_SOSIK' = OBJ_SOSIK,
           screen' = "article" =>
               /\ screen = "article"
               /\ VC_SOSIK_DEL' => VC_SOSIK_DEL
               /\ VC_COMMUNITY_1_DEL' => VC_COMMUNITY_1_DEL
    PROVE  IInv'
<1>1. OBJ_SOSIK' \in Seq(Row)
  BY EmptySeq DEF IInv, TypeOK
<1>2. TypeOK'
  <2>1. comments' \in [Articles -> Seq(Comment)] /\ crashed' \in BOOLEAN
    BY DEF IInv, TypeOK, ListsStep
  <2>2. pages' \in Seq(Page) /\ inflight' \subseteq Request /\ sent' \in Nat
    BY DEF ListsStep, SamePages
  <2>3. QED
    BY <1>1, <2>1, <2>2 DEF TypeOK
<1>3. CommentInv'
  BY ListsStepComments DEF IInv
<1>4. \A i \in DOMAIN OBJ_SOSIK' : Arrived(OBJ_SOSIK'[i])
  <2>1. CASE OBJ_SOSIK' = <<>>
    BY <2>1, EmptySeq
  <2>2. CASE OBJ_SOSIK' = OBJ_SOSIK
    BY <2>2 DEF Arrived
  <2>3. QED
    BY <2>1, <2>2
<1>5. screen' = "article" =>
        \A i \in DOMAIN OBJ_SOSIK : i \in DOMAIN OBJ_SOSIK' /\ OBJ_SOSIK'[i] = OBJ_SOSIK[i]
  OBVIOUS
<1>6. CountInv'
  BY <1>4, <1>5, ListsStepCountsStep, CountsStepCounts DEF IInv
<1>7. QED
  BY <1>2, <1>3, <1>6 DEF IInv

(* The screens that appear.                                                *)
LEMMA AppearIInv ==
    ASSUME IInv, SwitchTab \/ OpenGroups \/ (\E completed \in BOOLEAN : Swipe(completed)) \/ LeaveDeleted
    PROVE  IInv'
<1>1. /\ TypeOK /\ References
      /\ screen \in {"home", "tab", "board", "groups", "group", "article"} /\ tab \in {"home", "tab"}
      /\ kind \in Boards /\ OBJ_SOSIK \in Seq(Row) /\ groupRows \in Seq(Row)
      /\ VC_SOSIK_DEL \in BOOLEAN /\ VC_COMMUNITY_1_DEL \in BOOLEAN
  BY DEF IInv, CountInv, TypeOK
<1>2. CASE SwitchTab
  <2>1. /\ screen \in {"home", "tab"} /\ tab' \in {"home", "tab"} /\ screen' = tab' /\ Appear(tab')
        /\ pages' = pages /\ comments' = comments /\ crashed' = crashed
    BY <1>2 DEF SwitchTab
  <2>2. ListsStep
    BY <1>1, <2>1, UnchangedPages, AppearFacts DEF ListsStep
  <2>3. References'
    BY <1>1, <2>1, AppearFacts DEF References
  <2>4. QED
    BY <1>1, <2>1, <2>2, <2>3, AppearFacts, ListsStepIInv
<1>3. CASE OpenGroups
  <2>1. /\ screen = "board" /\ screen' = "groups" /\ Appear("groups") /\ tab' = tab
        /\ pages' = pages /\ comments' = comments /\ crashed' = crashed
    BY <1>3 DEF OpenGroups
  <2>2. ListsStep
    BY <1>1, <2>1, UnchangedPages, AppearFacts DEF ListsStep
  <2>3. References'
    BY <1>1, <2>1, AppearFacts DEF References
  <2>4. QED
    BY <1>1, <2>1, <2>2, <2>3, AppearFacts, ListsStepIInv
<1>4. ASSUME NEW completed \in BOOLEAN, Swipe(completed) PROVE IInv'
  <2>1. /\ CanGoBack /\ screen' = (IF completed THEN Below ELSE screen) /\ Appear(Below) /\ tab' = tab
        /\ pages' = pages /\ comments' = comments /\ crashed' = crashed
    BY <1>4 DEF Swipe
  <2>2. ListsStep
    BY <1>1, <2>1, UnchangedPages, AppearFacts DEF ListsStep
  <2>3. References'
    <3>1. screen \notin {"home", "tab"}
      BY <2>1 DEF CanGoBack
    <3>2. screen' = Below \/ screen' = screen
      BY <2>1
    <3>3. screen' = "article" => screen = "article" /\ pages' # <<>> /\ open' = open
      BY <1>1, <2>1, <3>2, BelowFacts DEF References, open
    <3>4. screen' = "home" => ~VC_SOSIK_DEL'
      BY <1>1, <2>1, <3>1, <3>2, BelowFacts, AppearFacts
    <3>5. screen' \in {"home", "tab", "board", "groups"} => ~VC_COMMUNITY_1_DEL'
      BY <1>1, <2>1, <3>1, <3>2, BelowFacts, AppearFacts DEF References
    <3>6. screen' = "article" /\ pages'[open'].from # "group" => ~VC_COMMUNITY_1_DEL'
      BY <1>1, <2>1, <3>3, AppearFacts DEF References
    <3>7. QED
      BY <3>3, <3>4, <3>5, <3>6 DEF References
  <2>4. screen' = "article" => screen = "article"
    BY <1>1, <2>1, BelowFacts
  <2>5. screen' \in {"home", "tab", "board", "groups", "group", "article"}
    BY <1>1, <2>1, BelowFacts
  <2>6. (OBJ_SOSIK' = <<>> /\ screen' # "article") \/ OBJ_SOSIK' = OBJ_SOSIK
    BY <1>1, <2>1, AppearFacts
  <2>7. QED
    BY <1>1, <2>1, <2>2, <2>3, <2>4, <2>5, <2>6, AppearFacts, ListsStepIInv
<1>5. CASE LeaveDeleted
  <2>1. /\ screen = "article" /\ screen' = Below /\ Appear(Below) /\ tab' = tab
        /\ pages' = [pages EXCEPT ![open].alert = FALSE]
        /\ comments' = comments /\ crashed' = crashed
    BY <1>5 DEF LeaveDeleted
  <2>2. open \in DOMAIN pages /\ pages[open] \in Page /\ pages \in Seq(Page)
    BY <1>1, <2>1, DomainOfPages DEF References, TypeOK
  <2>3. SamePages
    <3> DEFINE q == [pages[open] EXCEPT !.alert = FALSE]
    <3>1. q \in Page
      BY <2>2 DEF Page
    <3>2. pages' = [pages EXCEPT ![open] = q]
      BY <2>1
    <3>3. /\ q.art = pages[open].art /\ q.from = pages[open].from
          /\ q.POSITION = pages[open].POSITION /\ q.OBJ_SOSIK = pages[open].OBJ_SOSIK
          /\ q.OBJ_COMMENT = pages[open].OBJ_COMMENT /\ q.COMMENT_TF = pages[open].COMMENT_TF
          /\ q.early = pages[open].early /\ q.crossed = pages[open].crossed
          /\ q.left = pages[open].left
      BY <2>2 DEF Page
    <3> HIDE DEF q
    <3>4. \A p \in DOMAIN pages : pages'[p] = IF p = open THEN q ELSE pages[p]
      BY <2>2, <3>2
    <3>5. pages' \in Seq(Page) /\ Len(pages') = Len(pages)
      BY <1>1, <2>2, <3>1, <3>2, DomainOfPages, ExceptSeq
    <3>6. QED
      BY <3>3, <3>4, <3>5 DEF SamePages, SameContent
  <2>4. ListsStep
    BY <1>1, <2>1, <2>3, AppearFacts DEF ListsStep
  <2>5. Below \in {"home", "board", "group"} /\ (Below = "group" <=> pages[open].from = "group")
    BY <1>1, <2>1, BelowFacts
  <2>6. References'
    BY <1>1, <2>1, <2>5, AppearFacts DEF References
  <2>7. QED
    BY <1>1, <2>1, <2>4, <2>5, <2>6, AppearFacts, ListsStepIInv
<1>6. QED
  BY <1>2, <1>3, <1>4, <1>5

(* The lists asked for: by a screen made, or again.                        *)
LEMMA AskIInv ==
    ASSUME IInv, (\E k \in Boards : OpenBoard(k)) \/ OpenGroup \/ Reload
    PROVE  IInv'
<1>1. /\ TypeOK /\ References
      /\ screen \in {"home", "tab", "board", "groups", "group", "article"} /\ tab \in {"home", "tab"}
      /\ kind \in Boards /\ OBJ_SOSIK \in Seq(Row) /\ groupRows \in Seq(Row)
      /\ VC_SOSIK_DEL \in BOOLEAN /\ VC_COMMUNITY_1_DEL \in BOOLEAN
  BY DEF IInv, CountInv, TypeOK
<1>2. <<>> \in Seq(Row)
  BY EmptySeq
<1>3. ASSUME NEW k \in Boards, OpenBoard(k) PROVE IInv'
  <2>1. /\ screen \in {"home", "tab"} /\ screen' = "board" /\ tab' = tab
        /\ kind' = k /\ OBJ_SOSIK' = <<>> /\ groupRows' = groupRows
        /\ VC_SOSIK_DEL' = TRUE /\ VC_COMMUNITY_1_DEL' = VC_COMMUNITY_1_DEL
        /\ pages' = pages /\ comments' = comments /\ crashed' = crashed
    BY <1>3 DEF OpenBoard
  <2>2. Send({r \in inflight : r.op # "board"}, {"board"})
    BY <1>3 DEF OpenBoard
  <2>3. ListsStep
    BY <1>1, <2>1, <2>2, UnchangedPages, SendFacts DEF ListsStep
  <2>4. References'
    BY <1>1, <2>1 DEF References
  <2>5. QED
    BY <1>1, <2>1, <2>3, <2>4, ListsStepIInv
<1>4. CASE OpenGroup
  <2>1. /\ screen = "groups" /\ screen' = "group" /\ tab' = tab
        /\ kind' = kind /\ OBJ_SOSIK' = OBJ_SOSIK /\ groupRows' = <<>>
        /\ VC_SOSIK_DEL' = VC_SOSIK_DEL /\ VC_COMMUNITY_1_DEL' = TRUE
        /\ pages' = pages /\ comments' = comments /\ crashed' = crashed
    BY <1>4 DEF OpenGroup
  <2>2. Send({r \in inflight : r.op # "group"}, {"group"})
    BY <1>4 DEF OpenGroup
  <2>3. ListsStep
    BY <1>1, <2>1, <2>2, UnchangedPages, SendFacts DEF ListsStep
  <2>4. References'
    BY <1>1, <2>1 DEF References
  <2>5. QED
    BY <1>1, <1>2, <2>1, <2>3, <2>4, ListsStepIInv
<1>5. CASE Reload
  <2>1. /\ screen \in {"board", "group"} /\ screen' = screen /\ tab' = tab
        /\ kind' = kind /\ OBJ_SOSIK' \in {<<>>, OBJ_SOSIK} /\ groupRows' \in {<<>>, groupRows}
        /\ VC_SOSIK_DEL' = VC_SOSIK_DEL /\ VC_COMMUNITY_1_DEL' = VC_COMMUNITY_1_DEL
        /\ pages' = pages /\ comments' = comments /\ crashed' = crashed
    BY <1>5 DEF Reload, nav
  <2> DEFINE ops == {op \in {"board", "group"} : \/ op = "board" /\ VC_SOSIK_DEL
                                                 \/ op = "group" /\ VC_COMMUNITY_1_DEL}
  <2>2. Send(inflight, ops) /\ ops \in SUBSET {"board", "group"}
    BY <1>5 DEF Reload
  <2> HIDE DEF ops
  <2>3. ListsStep
    BY <1>1, <2>1, <2>2, UnchangedPages, SendFacts DEF ListsStep
  <2>4. References'
    BY <1>1, <2>1 DEF References
  <2>5. QED
    BY <1>1, <1>2, <2>1, <2>3, <2>4, ListsStepIInv
<1>6. QED
  BY <1>3, <1>4, <1>5

(* Requests answered by a list, or by nothing that is heard.               *)
LEMMA UnheardIInv ==
    ASSUME IInv, NEW r \in inflight, Unheard(r)
    PROVE  IInv'
<1>1. /\ inflight' = inflight \ {r} /\ screen' = screen /\ tab' = tab /\ kind' = kind
      /\ OBJ_SOSIK' = OBJ_SOSIK /\ groupRows' = groupRows
      /\ VC_SOSIK_DEL' = VC_SOSIK_DEL /\ VC_COMMUNITY_1_DEL' = VC_COMMUNITY_1_DEL
      /\ pages' = pages /\ sent' = sent /\ comments' = comments /\ crashed' = crashed
  BY DEF Unheard, nav, lists
<1>2. ListsStep
  BY <1>1, UnchangedPages, FS_RemoveElement DEF ListsStep, OnlyLists, IInv, TypeOK
<1>3. References' /\ TypeOK
  BY <1>1 DEF IInv, CountInv, References, open
<1>4. QED
  BY <1>1, <1>2, <1>3, ListsStepIInv DEF TypeOK

LEMMA AnswerListIInv ==
    ASSUME IInv, NEW r \in inflight, AnswerList(r)
    PROVE  IInv'
<1>1. /\ inflight' = inflight \ {r} /\ screen' = screen /\ tab' = tab /\ kind' = kind
      /\ OBJ_SOSIK' \in {OBJ_SOSIK \o r.rows, OBJ_SOSIK}
      /\ groupRows' \in {groupRows \o r.rows, groupRows}
      /\ VC_SOSIK_DEL' = VC_SOSIK_DEL /\ VC_COMMUNITY_1_DEL' = VC_COMMUNITY_1_DEL
      /\ pages' = pages /\ sent' = sent /\ comments' = comments /\ crashed' = crashed
  BY DEF AnswerList, nav
<1>2. TypeOK /\ r.rows \in Seq(Row) /\ OBJ_SOSIK \in Seq(Row) /\ groupRows \in Seq(Row)
  BY DEF IInv, TypeOK, Request
<1>3. ListsStep
  BY <1>1, UnchangedPages, FS_RemoveElement DEF ListsStep, OnlyLists, IInv, TypeOK
<1>4. References'
  BY <1>1 DEF IInv, CountInv, References, open
<1>5. OBJ_SOSIK' \in Seq(Row) /\ groupRows' \in Seq(Row)
  BY <1>1, <1>2, ConcatProperties
<1>6. /\ \A i \in DOMAIN OBJ_SOSIK' : Arrived(OBJ_SOSIK'[i])
      /\ \A i \in DOMAIN OBJ_SOSIK : i \in DOMAIN OBJ_SOSIK' /\ OBJ_SOSIK'[i] = OBJ_SOSIK[i]
  <2>1. CASE OBJ_SOSIK' = OBJ_SOSIK
    BY <2>1 DEF Arrived
  <2>2. CASE OBJ_SOSIK' = OBJ_SOSIK \o r.rows
    <3>1. /\ Len(OBJ_SOSIK) \in Nat /\ Len(r.rows) \in Nat
          /\ DOMAIN OBJ_SOSIK = 1 .. Len(OBJ_SOSIK) /\ DOMAIN r.rows = 1 .. Len(r.rows)
      BY <1>2, LenProperties
    <3>2. DOMAIN OBJ_SOSIK' = 1 .. Len(OBJ_SOSIK) + Len(r.rows)
      BY <1>2, <1>5, <2>2, ConcatProperties, LenProperties
    <3>3. \A i \in 1 .. Len(OBJ_SOSIK) + Len(r.rows) :
            OBJ_SOSIK'[i] = IF i <= Len(OBJ_SOSIK) THEN OBJ_SOSIK[i] ELSE r.rows[i - Len(OBJ_SOSIK)]
      BY <1>2, <2>2, ConcatProperties
    <3>4. \A i \in DOMAIN OBJ_SOSIK : i \in DOMAIN OBJ_SOSIK' /\ OBJ_SOSIK'[i] = OBJ_SOSIK[i]
      BY <3>1, <3>2, <3>3
    <3>5. ASSUME NEW i \in DOMAIN OBJ_SOSIK' PROVE Arrived(OBJ_SOSIK'[i])
      <4>1. CASE i <= Len(OBJ_SOSIK)
        BY <3>1, <3>2, <3>3, <4>1 DEF Arrived
      <4>2. CASE ~(i <= Len(OBJ_SOSIK))
        <5>1. i - Len(OBJ_SOSIK) \in DOMAIN r.rows /\ OBJ_SOSIK'[i] = r.rows[i - Len(OBJ_SOSIK)]
          BY <3>1, <3>2, <3>3, <4>2
        <5>2. QED
          BY <5>1 DEF Arrived
      <4>3. QED
        BY <4>1, <4>2
    <3>6. QED
      BY <3>4, <3>5
  <2>3. QED
    BY <1>1, <2>1, <2>2
<1>7. CountInv'
  BY <1>1, <1>3, <1>4, <1>6, ListsStepCountsStep, CountsStepCounts DEF IInv
<1>8. CommentInv'
  BY <1>3, ListsStepComments DEF IInv
<1>9. TypeOK'
  <2>1. inflight' \subseteq Request
    BY <1>1, <1>2 DEF TypeOK
  <2>2. QED
    BY <1>1, <1>2, <1>5, <2>1 DEF TypeOK
<1>10. QED
  BY <1>7, <1>8, <1>9 DEF IInv

-----------------------------------------------------------------------------
(* The server.                                                             *)
LEMMA RowsOfFacts ==
    ASSUME TypeOK, NEW name \in Boards \cup {"group"}, NEW missing \in {0, 1}
    PROVE  /\ RowsOf(name, missing) \in Seq(Row)
           /\ \A i \in DOMAIN RowsOf(name, missing) :
                /\ RowsOf(name, missing)[i].READ_CNT = 0
                /\ RowsOf(name, missing)[i].COMMENT_CNT = Len(comments[RowsOf(name, missing)[i].art])
<1> DEFINE listed == SubSeq(Listing[name], missing + 1, Len(Listing[name]))
           row(i) == [art |-> listed[i], READ_CNT |-> 0, COMMENT_CNT |-> Len(comments[listed[i]])]
<1>1. listed \in Seq(Articles)
  <2>1. Listing[name] \in Seq(Articles)
    BY ArticleAssumption
  <2>2. Len(Listing[name]) \in Nat /\ DOMAIN Listing[name] = 1 .. Len(Listing[name])
    BY <2>1, LenProperties
  <2>3. \A i \in (missing + 1) .. Len(Listing[name]) : Listing[name][i] \in Articles
    BY <2>1, <2>2, ElementOfSeq
  <2>4. missing + 1 \in Int /\ Len(Listing[name]) \in Int
    BY <2>2
  <2>5. QED
    BY <2>1, <2>2, SubSeqProperties
<1>2. Len(listed) \in Nat /\ DOMAIN listed = 1 .. Len(listed)
  BY <1>1, LenProperties
<1>3. RowsOf(name, missing) = [i \in DOMAIN listed |-> row(i)]
  BY DEF RowsOf
<1> HIDE DEF listed
<1>4. ASSUME NEW i \in DOMAIN listed PROVE row(i) \in Row
  <2>1. listed[i] \in Articles
    BY <1>1, <1>2, ElementOfSeq
  <2>2. Len(comments[listed[i]]) \in Nat
    BY <2>1, LenProperties DEF TypeOK
  <2>3. QED
    BY <2>1, <2>2 DEF Row
<1>5. \A i \in DOMAIN listed : /\ row(i).READ_CNT = 0
                               /\ row(i).COMMENT_CNT = Len(comments[row(i).art])
  OBVIOUS
<1> HIDE DEF row
<1>6. RowsOf(name, missing) \in Seq(Row)
  BY <1>2, <1>3, <1>4, IsASeq
<1>7. QED
  BY <1>3, <1>5, <1>6

LEMMA ServeIInv ==
    ASSUME IInv, NEW r \in inflight, NEW missing \in {0, 1}, Serve(r, missing)
    PROVE  IInv'
<1> DEFINE rows == CASE r.op = "board" -> RowsOf(kind, missing)
                     [] r.op = "group" -> RowsOf("group", missing)
                     [] r.op = "detail" -> <<>>
           found == IF r.op = "detail" THEN comments[pages[r.page].art] ELSE <<>>
           s == [r EXCEPT !.served = TRUE, !.rows = rows, !.found = found]
<1>1. /\ inflight' = (inflight \ {r}) \cup {s}
      /\ r.op # "insert" /\ screen' = screen /\ tab' = tab /\ kind' = kind
      /\ OBJ_SOSIK' = OBJ_SOSIK /\ groupRows' = groupRows
      /\ VC_SOSIK_DEL' = VC_SOSIK_DEL /\ VC_COMMUNITY_1_DEL' = VC_COMMUNITY_1_DEL
      /\ pages' = pages /\ sent' = sent /\ comments' = comments /\ crashed' = crashed
  BY DEF Serve, Served, nav, lists
<1>2. TypeOK /\ r \in Request /\ kind \in Boards
  BY DEF IInv, TypeOK
<1>3. /\ rows \in Seq(Row)
      /\ \A i \in DOMAIN rows : /\ rows[i].READ_CNT = 0
                                /\ rows[i].COMMENT_CNT = Len(comments[rows[i].art])
  <2>1. r.op \in {"board", "group", "detail"}
    BY <1>1, <1>2 DEF Request
  <2>2. CASE r.op = "board"
    <3>1. rows = RowsOf(kind, missing)
      BY <2>2
    <3> HIDE DEF rows
    <3>2. QED
      BY <1>2, <3>1, RowsOfFacts
  <2>3. CASE r.op = "group"
    <3>1. rows = RowsOf("group", missing)
      BY <2>3
    <3> HIDE DEF rows
    <3>2. QED
      BY <1>2, <3>1, RowsOfFacts
  <2>4. CASE r.op = "detail"
    <3>1. rows = <<>>
      BY <2>4
    <3> HIDE DEF rows
    <3>2. QED
      BY <3>1, EmptySeq
  <2>5. QED
    BY <2>1, <2>2, <2>3, <2>4
<1>4. /\ found \in Seq(Comment)
      /\ r.op = "detail" => found = comments[pages[r.page].art] /\ pages[r.page].art \in Articles
  <2>1. CASE r.op = "detail"
    <3>1. r.page \in DOMAIN pages
      BY <2>1 DEF IInv, CommentInv, RequestsKnown, Details
    <3>2. pages[r.page].art \in Articles
      BY <1>2, <3>1, DomainOfPages DEF Page
    <3>3. QED
      BY <1>2, <2>1, <3>2 DEF TypeOK
  <2>2. CASE r.op # "detail"
    BY <2>2, EmptySeq
  <2>3. QED
    BY <2>1, <2>2
<1> HIDE DEF rows, found
<1>5. /\ s \in Request /\ s.id = r.id /\ s.op = r.op /\ s.page = r.page
      /\ s.rows = rows /\ s.found = found
  <2>1. s \in Request
    BY <1>2, <1>3, <1>4 DEF Request
  <2>2. QED
    BY <1>2, <2>1 DEF Request
<1> HIDE DEF s
<1>6. TypeOK'
  <2>1. inflight' \subseteq Request
    BY <1>1, <1>2, <1>5 DEF TypeOK
  <2>2. QED
    BY <1>1, <2>1 DEF IInv, TypeOK
<1>7. Inserts' = Inserts
  BY <1>1, <1>5 DEF Inserts
<1>8. r.op # "detail" => Details' = Details
  BY <1>1, <1>5 DEF Details
<1>9. r.op = "detail" => r \in Details /\ Details' = (Details \ {r}) \cup {s}
  BY <1>1, <1>5 DEF Details
<1>10. CommentInv'
  <2>1. RequestsKnown'
    <3>1. \A q \in inflight' : q.id < sent'
      BY <1>1, <1>5 DEF IInv, CommentInv, RequestsKnown
    <3>2. \A q \in Details' : q.page \in DOMAIN pages
      BY <1>5, <1>8, <1>9 DEF IInv, CommentInv, RequestsKnown
    <3>3. \A p, q \in Details' : p.page = q.page => p = q
      BY <1>5, <1>8, <1>9 DEF IInv, CommentInv, RequestsKnown
    <3>4. QED
      BY <1>1, <1>7, <3>1, <3>2, <3>3 DEF IInv, CommentInv, RequestsKnown
  <2>2. FoundTrue'
    <3>1. r.op = "detail" =>
            /\ ~pages[r.page].OBJ_SOSIK
            /\ NamedOnce(found)
            /\ \A j \in DOMAIN found : IsIn(found[j], comments[pages[r.page].art])
      BY <1>4, <1>9 DEF IInv, CommentInv, FoundTrue, ServerComments, IsIn
    <3>2. QED
      BY <1>1, <1>5, <1>8, <1>9, <3>1 DEF IInv, CommentInv, FoundTrue
  <2>3. ServerComments' /\ FieldIsSent' /\ ShownOrUnderWay'
    BY <1>1, <1>7 DEF IInv, CommentInv, ServerComments, FieldIsSent, ShownOrUnderWay
  <2>4. ShownAsSent' /\ ShownOnce'
    BY <1>1 DEF IInv, CommentInv, ShownAsSent, ShownOnce
  <2>5. QED
    BY <2>1, <2>2, <2>3, <2>4 DEF CommentInv
<1>11. CountInv'
  <2>1. IsFiniteSet(inflight')
    BY <1>1, FS_RemoveElement, FS_AddElement DEF IInv, CountInv
  <2>2. RowsUnderWay'
    <3>1. \A i \in DOMAIN s.rows : /\ s.rows[i].READ_CNT = 0
                                   /\ s.rows[i].COMMENT_CNT <= Len(comments[s.rows[i].art])
      <4> SUFFICES ASSUME NEW i \in DOMAIN rows
                   PROVE  rows[i].READ_CNT = 0 /\ rows[i].COMMENT_CNT <= Len(comments[rows[i].art])
        BY <1>5
      <4>1. rows[i] \in Row
        BY <1>3, LenProperties, ElementOfSeq
      <4>2. rows[i].COMMENT_CNT \in Nat
        BY <4>1 DEF Row
      <4>3. QED
        BY <1>3, <4>2
    <3>2. QED
      BY <1>1, <3>1 DEF IInv, CountInv, RowsUnderWay
  <2>3. open' = open /\ (Careful' <=> Careful)
    BY <1>1 DEF open, Careful, Patient
  <2>4. References'
    BY <1>1, <2>3 DEF IInv, CountInv, References
  <2>5. RoomForAnswers'
    <3>1. Uncounted(open)' = Uncounted(open)
      BY <1>7, <2>3 DEF Uncounted
    <3>2. QED
      BY <1>1, <2>3, <3>1 DEF IInv, CountInv, RoomForAnswers
  <2>6. CountsInItsRow'
    BY <1>1, <2>3 DEF IInv, CountInv, CountsInItsRow, RowIsItsArticle, NoticeCountsNowhere
  <2>7. CarefulIsSafe'
    BY <1>1, <2>3 DEF IInv, CountInv, CarefulIsSafe, CountsTrue
  <2>8. QED
    BY <2>1, <2>2, <2>4, <2>5, <2>6, <2>7 DEF CountInv
<1>12. QED
  BY <1>6, <1>10, <1>11 DEF IInv

LEMMA AppendFacts ==
    ASSUME NEW seq \in Seq(Comment), NEW c \in Comment
    PROVE  /\ Append(seq, c) \in Seq(Comment)
           /\ Len(Append(seq, c)) = Len(seq) + 1
           /\ DOMAIN Append(seq, c) = 1 .. Len(seq) + 1
           /\ \A j \in 1 .. Len(seq) : j \in DOMAIN seq /\ Append(seq, c)[j] = seq[j]
           /\ \A j \in DOMAIN seq : j \in DOMAIN Append(seq, c) /\ Append(seq, c)[j] = seq[j]
           /\ Append(seq, c)[Len(seq) + 1] = c
<1>1. Len(seq) \in Nat /\ DOMAIN seq = 1 .. Len(seq)
  BY LenProperties
<1>2. /\ Append(seq, c) \in Seq(Comment)
      /\ Len(Append(seq, c)) = Len(seq) + 1
      /\ \A j \in 1 .. Len(seq) : Append(seq, c)[j] = seq[j]
      /\ Append(seq, c)[Len(seq) + 1] = c
  BY AppendProperties
<1>3. DOMAIN Append(seq, c) = 1 .. Len(seq) + 1
  BY <1>2, LenProperties
<1>4. QED
  BY <1>1, <1>2, <1>3

LEMMA ServeInsertIInv ==
    ASSUME IInv, NEW r \in inflight, NEW success \in BOOLEAN, ServeInsert(r, success)
    PROVE  IInv'
<1> DEFINE a == pages[r.page].art
           c == [id |-> r.id, text |-> r.text]
           s == [r EXCEPT !.served = TRUE, !.success = success]
<1>1. /\ inflight' = (inflight \ {r}) \cup {s}
      /\ ~r.served /\ r.op = "insert" /\ screen' = screen /\ tab' = tab /\ kind' = kind
      /\ OBJ_SOSIK' = OBJ_SOSIK /\ groupRows' = groupRows
      /\ VC_SOSIK_DEL' = VC_SOSIK_DEL /\ VC_COMMUNITY_1_DEL' = VC_COMMUNITY_1_DEL
      /\ pages' = pages /\ sent' = sent /\ crashed' = crashed
      /\ comments' = IF success THEN [comments EXCEPT ![a] = Append(@, c)] ELSE comments
  BY DEF ServeInsert, Served, nav, lists
<1>2. TypeOK /\ r \in Request /\ r \in Inserts /\ comments \in [Articles -> Seq(Comment)]
  BY <1>1 DEF IInv, TypeOK, Inserts
<1>3. \A p \in DOMAIN pages : pages[p].art \in Articles
  BY <1>2, DomainOfPages DEF Page
<1>4. r.page \in DOMAIN pages /\ a \in Articles /\ comments[a] \in Seq(Comment)
  BY <1>2, <1>3 DEF IInv, CommentInv, RequestsKnown
<1>5. c \in Comment /\ c.id = r.id /\ c.text = r.text
  BY <1>2 DEF Request, Comment
<1>6. /\ s \in Request /\ s.id = r.id /\ s.op = r.op /\ s.page = r.page /\ s.text = r.text
      /\ s.served = TRUE /\ s.success = success /\ s.rows = r.rows /\ s.found = r.found
  BY <1>2 DEF Request
<1> HIDE DEF s, a
<1>7. Inserts' = (Inserts \ {r}) \cup {s} /\ Details' = Details
  BY <1>1, <1>6 DEF Inserts, Details
<1>8. /\ comments' \in [Articles -> Seq(Comment)]
      /\ success => comments'[a] = Append(comments[a], c)
      /\ \A b \in Articles : comments'[b] = comments[b] \/ (b = a /\ success)
  <2> DEFINE d == Append(comments[a], c)
  <2>1. d \in Seq(Comment)
    BY <1>4, <1>5, AppendFacts
  <2>2. comments' = IF success THEN [comments EXCEPT ![a] = d] ELSE comments
    BY <1>1
  <2> HIDE DEF d
  <2>3. /\ comments' \in [Articles -> Seq(Comment)]
        /\ success => comments'[a] = d
        /\ \A b \in Articles : comments'[b] = comments[b] \/ (b = a /\ success)
    <3>1. CASE success
      <4>1. comments' = [comments EXCEPT ![a] = d]
        BY <2>2, <3>1
      <4>2. QED
        BY <1>2, <1>4, <2>1, <3>1, <4>1
    <3>2. CASE ~success
      <4>1. comments' = comments
        BY <2>2, <3>2
      <4>2. QED
        BY <1>2, <3>2, <4>1
    <3>3. QED
      BY <3>1, <3>2
  <2>4. QED
    BY <2>3 DEF d
<1> HIDE DEF c
<1>9. \A b \in Articles :
        /\ Len(comments[b]) \in Nat /\ Len(comments'[b]) \in Nat /\ Len(comments[b]) <= Len(comments'[b])
        /\ \A j \in DOMAIN comments[b] : j \in DOMAIN comments'[b] /\ comments'[b][j] = comments[b][j]
        /\ \A j \in DOMAIN comments'[b] : \/ j \in DOMAIN comments[b] /\ comments'[b][j] = comments[b][j]
                                          \/ b = a /\ success /\ comments'[b][j] = c /\ j = Len(comments[b]) + 1
  <2> TAKE b \in Articles
  <2>1. comments[b] \in Seq(Comment) /\ comments'[b] \in Seq(Comment)
    BY <1>2, <1>8
  <2>2. Len(comments[b]) \in Nat /\ Len(comments'[b]) \in Nat
    BY <2>1, LenProperties
  <2>3. CASE comments'[b] = comments[b]
    BY <2>2, <2>3
  <2>4. CASE b = a /\ success
    <3>1. comments'[b] = Append(comments[b], c)
      BY <1>8, <2>4
    <3>2. /\ Len(comments'[b]) = Len(comments[b]) + 1
          /\ DOMAIN comments'[b] = 1 .. Len(comments[b]) + 1
          /\ \A j \in 1 .. Len(comments[b]) : j \in DOMAIN comments[b] /\ comments'[b][j] = comments[b][j]
          /\ \A j \in DOMAIN comments[b] : j \in DOMAIN comments'[b] /\ comments'[b][j] = comments[b][j]
          /\ comments'[b][Len(comments[b]) + 1] = c
      BY <1>5, <2>1, <3>1, AppendFacts
    <3>3. \A j \in DOMAIN comments'[b] : j \in 1 .. Len(comments[b]) \/ j = Len(comments[b]) + 1
      BY <2>2, <3>2
    <3>4. QED
      BY <2>2, <2>4, <3>2, <3>3
  <2>5. QED
    BY <1>8, <2>3, <2>4
<1>10. \A b \in Articles :
        /\ \A x : IsIn(x, comments[b]) => IsIn(x, comments'[b])
        /\ \A id : Named(id, comments'[b]) => Named(id, comments[b]) \/ id = r.id
  BY <1>5, <1>9 DEF IsIn, Named
<1>11. success => IsIn(c, comments'[a])
  <2>1. success => Len(comments[a]) + 1 \in DOMAIN comments'[a] /\ comments'[a][Len(comments[a]) + 1] = c
    <3>1. Len(comments[a]) \in Nat
      BY <1>4, <1>9
    <3>2. QED
      BY <1>4, <1>5, <1>8, <3>1, AppendFacts
  <2>2. QED
    BY <2>1 DEF IsIn
<1>12. TypeOK'
  <2>1. inflight' \subseteq Request
    BY <1>1, <1>2, <1>6 DEF TypeOK
  <2>2. QED
    BY <1>1, <1>8, <2>1 DEF IInv, TypeOK
<1>13. \A q \in Inserts : q # r => q.id # r.id
  BY <1>2 DEF IInv, CommentInv, RequestsKnown
<1>14. CommentInv'
  <2>1. RequestsKnown'
    <3>1. \A q \in inflight' : q.id < sent'
      BY <1>1, <1>6 DEF IInv, CommentInv, RequestsKnown
    <3>2. \A q \in Inserts' \cup Details' : q.page \in DOMAIN pages
      BY <1>4, <1>6, <1>7 DEF IInv, CommentInv, RequestsKnown
    <3>3. \A p, q \in Inserts' : p.id = q.id => p = q
      BY <1>6, <1>7, <1>13 DEF IInv, CommentInv, RequestsKnown
    <3>4. \A p, q \in Details' : p.page = q.page => p = q
      BY <1>7 DEF IInv, CommentInv, RequestsKnown
    <3>5. QED
      BY <1>1, <3>1, <3>2, <3>3, <3>4 DEF RequestsKnown
  <2>2. ServerComments'
    <3>1. ASSUME NEW b \in Articles PROVE NamedOnce(comments'[b])
      <4>1. NamedOnce(comments[b])
        BY DEF IInv, CommentInv, ServerComments
      <4>2. ~Named(r.id, comments[a])
        BY <1>1, <1>2 DEF IInv, CommentInv, ServerComments, a
      <4>3. \A j \in DOMAIN comments'[b] : \/ j \in DOMAIN comments[b] /\ comments'[b][j] = comments[b][j]
                                           \/ /\ b = a /\ comments'[b][j] = c /\ j = Len(comments[b]) + 1
        BY <1>9
      <4>4. QED
        BY <1>5, <4>1, <4>2, <4>3 DEF NamedOnce, Named
    <3>2. ASSUME NEW b \in Articles, NEW j \in DOMAIN comments'[b] PROVE comments'[b][j].id < sent'
      <4>1. CASE j \in DOMAIN comments[b] /\ comments'[b][j] = comments[b][j]
        BY <1>1, <4>1 DEF IInv, CommentInv, ServerComments
      <4>2. CASE comments'[b][j] = c
        BY <1>1, <1>5, <4>2 DEF IInv, CommentInv, RequestsKnown
      <4>3. QED
        BY <1>9, <4>1, <4>2
    <3>3. ASSUME NEW q \in Inserts'
          PROVE  /\ ~q.served => ~Named(q.id, comments'[pages[q.page].art])
                 /\ q.served /\ q.success =>
                        IsIn([id |-> q.id, text |-> q.text], comments'[pages[q.page].art])
      <4>1. CASE q = s
        <5>1. [id |-> q.id, text |-> q.text] = c /\ pages[q.page].art = a
          BY <1>6, <4>1 DEF c, a
        <5>2. QED
          BY <1>6, <1>11, <4>1, <5>1
      <4>2. CASE q \in Inserts /\ q # r
        <5>1. q.id # r.id /\ pages[q.page].art \in Articles
          BY <1>3, <1>13, <4>2 DEF IInv, CommentInv, RequestsKnown
        <5>2. /\ ~q.served => ~Named(q.id, comments[pages[q.page].art])
              /\ q.served /\ q.success =>
                     IsIn([id |-> q.id, text |-> q.text], comments[pages[q.page].art])
          BY <4>2 DEF IInv, CommentInv, ServerComments
        <5>3. QED
          BY <1>10, <5>1, <5>2
      <4>3. QED
        BY <1>7, <4>1, <4>2
    <3>4. QED
      BY <1>1, <3>1, <3>2, <3>3 DEF ServerComments
  <2>3. FoundTrue'
    <3>1. \A q \in Details : pages[q.page].art \in Articles
      BY <1>3 DEF IInv, CommentInv, RequestsKnown
    <3>2. QED
      BY <1>1, <1>7, <1>10, <3>1 DEF IInv, CommentInv, FoundTrue
  <2>4. FieldIsSent'
    BY <1>1, <1>2, <1>6, <1>7 DEF IInv, CommentInv, FieldIsSent
  <2>5. ShownOrUnderWay'
    BY <1>1, <1>2, <1>6, <1>7 DEF IInv, CommentInv, ShownOrUnderWay
  <2>6. ShownAsSent'
    <3>1. \A p \in DOMAIN pages : ~pages[p].crossed => \A i \in DOMAIN pages[p].OBJ_COMMENT :
            IsIn(pages[p].OBJ_COMMENT[i], comments[pages[p].art])
      BY DEF IInv, CommentInv, ShownAsSent, IsIn
    <3>2. \A p \in DOMAIN pages : ~pages[p].crossed => \A i \in DOMAIN pages[p].OBJ_COMMENT :
            IsIn(pages[p].OBJ_COMMENT[i], comments'[pages[p].art])
      BY <1>3, <1>10, <3>1
    <3>3. QED
      BY <1>1, <3>2 DEF ShownAsSent, IsIn
  <2>7. ShownOnce'
    BY <1>1 DEF IInv, CommentInv, ShownOnce
  <2>8. QED
    BY <2>1, <2>2, <2>3, <2>4, <2>5, <2>6, <2>7 DEF CommentInv
<1>15. CountInv'
  <2>1. IsFiniteSet(inflight')
    BY <1>1, FS_RemoveElement, FS_AddElement DEF IInv, CountInv
  <2>2. ASSUME NEW row \in Row, row.COMMENT_CNT <= Len(comments[row.art])
        PROVE  row.COMMENT_CNT <= Len(comments'[row.art])
    <3>1. row.art \in Articles /\ row.COMMENT_CNT \in Nat
      BY DEF Row
    <3>2. QED
      BY <1>9, <2>2, <3>1
  <2>3. RowsUnderWay'
    <3>1. \A q \in inflight : \A i \in DOMAIN q.rows :
            q.rows[i].READ_CNT = 0 /\ q.rows[i].COMMENT_CNT <= Len(comments'[q.rows[i].art])
      <4> TAKE q \in inflight
      <4> TAKE i \in DOMAIN q.rows
      <4>1. q.rows[i] \in Row
        BY <1>2, LenProperties, ElementOfSeq DEF TypeOK, Request
      <4>2. q.rows[i].READ_CNT = 0 /\ q.rows[i].COMMENT_CNT <= Len(comments[q.rows[i].art])
        BY DEF IInv, CountInv, RowsUnderWay
      <4>3. QED
        BY <2>2, <4>1, <4>2
    <3>2. QED
      BY <1>1, <1>6, <3>1 DEF RowsUnderWay
  <2>4. open' = open /\ (Careful' <=> Careful)
    BY <1>1 DEF open, Careful, Patient
  <2>5. References'
    BY <1>1, <2>4 DEF IInv, CountInv, References
  <2>6. CountsInItsRow'
    BY <1>1, <2>4 DEF IInv, CountInv, CountsInItsRow, RowIsItsArticle, NoticeCountsNowhere
  <2>7. RoomForAnswers'
    <3> DEFINE row == OBJ_SOSIK[pages[open].POSITION]
    <3> SUFFICES ASSUME Careful, screen = "article", pages[open].from = "row"
                 PROVE  row.COMMENT_CNT + Cardinality(Uncounted(open)') <= Len(comments'[row.art])
      BY <1>1, <2>4 DEF RoomForAnswers
    <3>1. pages[open].POSITION \in DOMAIN OBJ_SOSIK /\ row.art = pages[open].art
      BY DEF IInv, CountInv, CountsInItsRow, RowIsItsArticle
    <3>2. row \in Row
      BY <1>2, <3>1, LenProperties, ElementOfSeq DEF TypeOK
    <3>3. row.COMMENT_CNT \in Nat /\ row.art \in Articles
      BY <3>2 DEF Row
    <3>4. row.COMMENT_CNT + Cardinality(Uncounted(open)) <= Len(comments[row.art])
      BY DEF IInv, CountInv, RoomForAnswers
    <3>5. IsFiniteSet(Uncounted(open)) /\ Cardinality(Uncounted(open)) \in Nat
      <4>1. Uncounted(open) \subseteq inflight
        BY DEF Uncounted, Inserts
      <4>2. IsFiniteSet(Uncounted(open))
        BY <4>1, FS_Subset DEF IInv, CountInv
      <4>3. QED
        BY <4>2, FS_CardinalityType
    <3> HIDE DEF row
    <3>6. CASE r.page = open /\ success
      <4>1. Uncounted(open)' \subseteq Uncounted(open) \cup {s}
        BY <1>7, <2>4 DEF Uncounted
      <4>2. /\ IsFiniteSet(Uncounted(open) \cup {s})
            /\ Cardinality(Uncounted(open) \cup {s}) <= Cardinality(Uncounted(open)) + 1
            /\ Cardinality(Uncounted(open) \cup {s}) \in Nat
        <5> DEFINE U == Uncounted(open)
        <5> HIDE DEF U
        <5>1. IsFiniteSet(U) /\ Cardinality(U) \in Nat
          BY <3>5 DEF U
        <5>2. /\ IsFiniteSet(U \cup {s})
              /\ Cardinality(U \cup {s}) = IF s \in U THEN Cardinality(U) ELSE Cardinality(U) + 1
          BY <5>1, FS_AddElement
        <5>3. IsFiniteSet(U \cup {s}) /\ Cardinality(U \cup {s}) <= Cardinality(U) + 1
              /\ Cardinality(U \cup {s}) \in Nat
          BY <5>1, <5>2
        <5>4. QED
          BY <5>3 DEF U
      <4>3. /\ Cardinality(Uncounted(open)') <= Cardinality(Uncounted(open) \cup {s})
            /\ Cardinality(Uncounted(open)') \in Nat
        BY <4>1, <4>2, FS_Subset, FS_CardinalityType
      <4>4. row.art = a
        BY <3>1, <3>6 DEF a
      <4>5. Len(comments'[a]) = Len(comments[a]) + 1 /\ Len(comments[a]) \in Nat
        BY <1>4, <1>5, <1>8, <1>9, <3>6, AppendFacts
      <4>6. QED
        BY <3>3, <3>4, <3>5, <4>2, <4>3, <4>4, <4>5
    <3>7. CASE ~(r.page = open /\ success)
      <4>1. Uncounted(open)' \subseteq Uncounted(open)
        <5>1. \A q \in Inserts' : q = s \/ q \in Inserts
          BY <1>7
        <5>2. s.page = open => ~s.success
          BY <1>6, <3>7
        <5>3. QED
          BY <2>4, <5>1, <5>2 DEF Uncounted
      <4>2. /\ Cardinality(Uncounted(open)') <= Cardinality(Uncounted(open))
            /\ Cardinality(Uncounted(open)') \in Nat
        BY <3>5, <4>1, FS_Subset, FS_CardinalityType
      <4>3. /\ Len(comments[row.art]) <= Len(comments'[row.art])
            /\ Len(comments[row.art]) \in Nat /\ Len(comments'[row.art]) \in Nat
        BY <1>9, <3>3
      <4>4. QED
        BY <3>3, <3>4, <3>5, <4>2, <4>3
    <3>8. QED
      BY <3>6, <3>7
  <2>8. CarefulIsSafe'
    <3>1. \A i \in DOMAIN OBJ_SOSIK : OBJ_SOSIK[i] \in Row
      BY <1>2, LenProperties, ElementOfSeq DEF TypeOK
    <3>2. QED
      BY <1>1, <2>2, <2>4, <3>1 DEF IInv, CountInv, CarefulIsSafe, CountsTrue
  <2>9. QED
    BY <2>1, <2>3, <2>5, <2>6, <2>7, <2>8 DEF CountInv
<1>16. QED
  BY <1>12, <1>14, <1>15 DEF IInv

-----------------------------------------------------------------------------
(* An article is opened.                                                   *)
LEMMA OpenArticleIInv ==
    ASSUME IInv, NEW art \in Articles, NEW from \in {"row", "picture", "home", "group"},
           NEW position \in Nat, OpenArticle(art, from, position),
           from = "row" => position \in DOMAIN OBJ_SOSIK /\ OBJ_SOSIK[position].art = art,
           from \in {"row", "picture"} => screen = "board",
           from = "home" => screen = "home"
    PROVE  IInv'
<1> DEFINE new == NewPage(art, from, position)
           n == Len(pages) + 1
           q == NewRequest(sent, "detail", n, NoText)
           row == [OBJ_SOSIK[position] EXCEPT !.READ_CNT = @ + 1]
           same == OBJ_SOSIK' = OBJ_SOSIK
           counted == VC_SOSIK_DEL /\ position \in DOMAIN OBJ_SOSIK
                      /\ OBJ_SOSIK' = [OBJ_SOSIK EXCEPT ![position] = row]
<1>1. /\ screen' = "article" /\ tab' = tab /\ kind' = kind /\ groupRows' = groupRows
      /\ VC_SOSIK_DEL' = VC_SOSIK_DEL /\ VC_COMMUNITY_1_DEL' = VC_COMMUNITY_1_DEL
      /\ comments' = comments /\ pages' = Append(pages, new)
  BY DEF OpenArticle
<1>2. \/ inflight' = inflight \cup {q} /\ sent' = sent + 1
      \/ inflight' = inflight /\ sent' = sent
  BY DEF OpenArticle, open
<1>3. counted \/ (same /\ (VC_SOSIK_DEL => position \notin DOMAIN OBJ_SOSIK))
  BY DEF OpenArticle
<1>4. crashed' = (\/ VC_SOSIK_DEL /\ position \notin DOMAIN OBJ_SOSIK
                  \/ VC_COMMUNITY_1_DEL)
  BY DEF OpenArticle
<1>5. /\ TypeOK /\ sent \in Nat /\ OBJ_SOSIK \in Seq(Row) /\ pages \in Seq(Page)
      /\ Len(pages) \in Nat /\ DOMAIN pages = 1 .. Len(pages)
  BY DomainOfPages DEF IInv, TypeOK
<1>6. /\ new \in Page /\ new.art = art /\ new.from = from /\ new.POSITION = position
      /\ new.OBJ_SOSIK = FALSE /\ new.OBJ_COMMENT = <<>> /\ new.COMMENT_TF = NoText
      /\ new.early = FALSE /\ new.crossed = FALSE /\ new.left = FALSE
  BY EmptySeq DEF NewPage, Page
<1> HIDE DEF new
<1>7. /\ pages' \in Seq(Page) /\ Len(pages') = n /\ DOMAIN pages' = 1 .. n /\ pages'[n] = new
      /\ \A p \in DOMAIN pages : p \in DOMAIN pages' /\ pages'[p] = pages[p]
      /\ \A p \in DOMAIN pages' : p = n \/ p \in DOMAIN pages
      /\ n \in DOMAIN pages' /\ n \notin DOMAIN pages
  <2>1. /\ pages' \in Seq(Page) /\ Len(pages') = n /\ pages'[n] = new
        /\ \A p \in 1 .. Len(pages) : pages'[p] = pages[p]
    BY <1>1, <1>5, <1>6, AppendProperties
  <2>2. DOMAIN pages' = 1 .. n
    BY <2>1, LenProperties
  <2>3. QED
    BY <1>5, <2>1, <2>2
<1>8. open' = n
  BY <1>7 DEF open
<1>9. /\ q \in Request /\ q.id = sent /\ q.op = "detail" /\ q.page = n
      /\ q.rows = <<>> /\ q.found = <<>>
  <2>1. n \in Nat
    BY <1>5
  <2>2. q \in Request
    BY <1>5, <2>1, NewRequestType
  <2>3. QED
    BY <2>2 DEF NewRequest
<1> HIDE DEF q, n
<1>10. Inserts' = Inserts
  BY <1>2, <1>9 DEF Inserts
<1>11. Details' = Details \cup {q} \/ Details' = Details
  BY <1>2, <1>9 DEF Details
<1>12. \A r \in Inserts \cup Details : r.page \in DOMAIN pages
  BY DEF IInv, CommentInv, RequestsKnown
<1>13. sent' \in Nat /\ sent <= sent' /\ (q \in inflight' /\ q \notin inflight => sent' = sent + 1)
  BY <1>2, <1>5
<1>14. \A i \in DOMAIN OBJ_SOSIK : OBJ_SOSIK[i] \in Row
  BY <1>5, LenProperties, ElementOfSeq
<1>15. position \in DOMAIN OBJ_SOSIK =>
         /\ row \in Row /\ row.art = OBJ_SOSIK[position].art
         /\ row.READ_CNT = OBJ_SOSIK[position].READ_CNT + 1
         /\ row.COMMENT_CNT = OBJ_SOSIK[position].COMMENT_CNT
  BY <1>14 DEF Row
<1> HIDE DEF row
<1>16. /\ OBJ_SOSIK' \in Seq(Row) /\ DOMAIN OBJ_SOSIK' = DOMAIN OBJ_SOSIK
       /\ \A i \in DOMAIN OBJ_SOSIK :
            /\ OBJ_SOSIK'[i].art = OBJ_SOSIK[i].art
            /\ OBJ_SOSIK'[i].COMMENT_CNT = OBJ_SOSIK[i].COMMENT_CNT
            /\ \/ OBJ_SOSIK'[i].READ_CNT = OBJ_SOSIK[i].READ_CNT
               \/ /\ i = position /\ VC_SOSIK_DEL
                  /\ OBJ_SOSIK'[i].READ_CNT = OBJ_SOSIK[i].READ_CNT + 1
  <2>1. CASE same
    BY <1>5, <2>1
  <2>2. CASE counted
    <3>1. /\ OBJ_SOSIK' = [OBJ_SOSIK EXCEPT ![position] = row]
          /\ position \in DOMAIN OBJ_SOSIK /\ VC_SOSIK_DEL
      BY <2>2
    <3>2. DOMAIN OBJ_SOSIK' = DOMAIN OBJ_SOSIK
      BY <3>1
    <3>3. \A i \in DOMAIN OBJ_SOSIK : OBJ_SOSIK'[i] = IF i = position THEN row ELSE OBJ_SOSIK[i]
      BY <3>1
    <3>4. OBJ_SOSIK' \in Seq(Row)
      <4>1. position \in 1 .. Len(OBJ_SOSIK)
        BY <1>5, <3>1, LenProperties
      <4>2. QED
        BY <1>5, <1>15, <3>1, <4>1, ExceptSeq
    <3>5. QED
      BY <1>15, <3>1, <3>2, <3>3, <3>4
  <2>3. QED
    BY <1>3, <2>1, <2>2
<1>17. TypeOK'
  <2>1. inflight' \subseteq Request
    BY <1>2, <1>5, <1>9 DEF TypeOK
  <2>2. crashed' \in BOOLEAN
    BY <1>4
  <2>3. QED
    BY <1>1, <1>5, <1>7, <1>13, <1>16, <2>1, <2>2 DEF TypeOK
<1>18. CommentInv'
  <2>1. RequestsKnown'
    <3>1. \A r \in inflight' : r.id < sent'
      <4> TAKE r \in inflight'
      <4>1. CASE r \in inflight
        <5>1. r.id \in Nat /\ r.id < sent
          BY <1>5, <4>1 DEF IInv, CommentInv, RequestsKnown, TypeOK, Request
        <5>2. QED
          BY <1>5, <1>13, <5>1
      <4>2. CASE r = q /\ sent' = sent + 1
        BY <1>5, <1>9, <4>2
      <4>3. QED
        BY <1>2, <4>1, <4>2
    <3>2. \A r \in Details' \cup Inserts' : r.page \in DOMAIN pages'
      BY <1>7, <1>9, <1>10, <1>11, <1>12
    <3>3. \A r, s \in Details' : r.page = s.page => r = s
      BY <1>7, <1>9, <1>11, <1>12 DEF IInv, CommentInv, RequestsKnown
    <3>4. \A r, s \in Inserts' : r.id = s.id => r = s
      BY <1>10 DEF IInv, CommentInv, RequestsKnown
    <3>5. QED
      BY <3>1, <3>2, <3>3, <3>4 DEF RequestsKnown
  <2>2. ServerComments'
    <3>1. \A a \in Articles : NamedOnce(comments'[a])
      BY <1>1 DEF IInv, CommentInv, ServerComments
    <3>2. ASSUME NEW a \in Articles, NEW j \in DOMAIN comments'[a] PROVE comments'[a][j].id < sent'
      <4>1. comments[a] \in Seq(Comment)
        BY <1>5 DEF TypeOK
      <4>2. comments[a][j] \in Comment
        BY <1>1, <4>1, LenProperties, ElementOfSeq
      <4>3. comments[a][j].id \in Nat /\ comments[a][j].id < sent
        BY <1>1, <4>2 DEF IInv, CommentInv, ServerComments, Comment
      <4>4. QED
        BY <1>1, <1>5, <1>13, <4>3
    <3>3. \A r \in Inserts' :
            /\ ~r.served => ~Named(r.id, comments'[pages'[r.page].art])
            /\ r.served /\ r.success => IsIn([id |-> r.id, text |-> r.text], comments'[pages'[r.page].art])
      BY <1>1, <1>7, <1>10, <1>12 DEF IInv, CommentInv, ServerComments
    <3>4. QED
      BY <3>1, <3>2, <3>3 DEF ServerComments
  <2>3. FoundTrue'
    <3>1. \A r \in Details : r.page \in DOMAIN pages /\ pages'[r.page] = pages[r.page]
      BY <1>7, <1>12
    <3>2. DOMAIN q.found = {}
      BY <1>9, EmptySeq
    <3>3. /\ ~pages'[q.page].OBJ_SOSIK /\ NamedOnce(q.found)
          /\ \A j \in DOMAIN q.found : IsIn(q.found[j], comments'[pages'[q.page].art])
      BY <1>6, <1>7, <1>9, <3>2 DEF NamedOnce
    <3>4. \A r \in Details :
            /\ ~pages'[r.page].OBJ_SOSIK /\ NamedOnce(r.found)
            /\ \A j \in DOMAIN r.found : IsIn(r.found[j], comments'[pages'[r.page].art])
      BY <1>1, <3>1 DEF IInv, CommentInv, FoundTrue
    <3>5. QED
      BY <1>11, <3>3, <3>4 DEF FoundTrue
  <2>4. FieldIsSent'
    BY <1>7, <1>10, <1>12 DEF IInv, CommentInv, FieldIsSent
  <2>5. ShownOrUnderWay'
    <3>1. ASSUME NEW p \in DOMAIN pages'
          PROVE  /\ \A j \in DOMAIN pages'[p].OBJ_COMMENT : pages'[p].OBJ_COMMENT[j].id < sent'
                 /\ ~pages'[p].early /\ ~pages'[p].OBJ_SOSIK => pages'[p].OBJ_COMMENT = <<>>
      <4>1. CASE p = n
        BY <1>6, <1>7, <4>1, EmptySeq
      <4>2. CASE p \in DOMAIN pages
        <5>1. pages'[p] = pages[p]
          BY <1>7, <4>2
        <5>2. \A j \in DOMAIN pages[p].OBJ_COMMENT : pages[p].OBJ_COMMENT[j].id < sent'
          <6> TAKE j \in DOMAIN pages[p].OBJ_COMMENT
          <6>1. pages[p].OBJ_COMMENT \in Seq(Comment)
            BY <1>5, <4>2, DomainOfPages DEF Page
          <6>2. pages[p].OBJ_COMMENT[j] \in Comment
            BY <6>1, LenProperties, ElementOfSeq
          <6>3. pages[p].OBJ_COMMENT[j].id \in Nat /\ pages[p].OBJ_COMMENT[j].id < sent
            BY <4>2, <6>2 DEF IInv, CommentInv, ShownOrUnderWay, Comment
          <6>4. QED
            BY <1>5, <1>13, <6>3
        <5>3. QED
          BY <4>2, <5>1, <5>2 DEF IInv, CommentInv, ShownOrUnderWay
      <4>3. QED
        BY <1>7, <4>1, <4>2
    <3>2. \A r \in Inserts' : ~pages'[r.page].early =>
            pages'[r.page].OBJ_SOSIK /\ ~Named(r.id, pages'[r.page].OBJ_COMMENT)
      BY <1>7, <1>10, <1>12 DEF IInv, CommentInv, ShownOrUnderWay
    <3>3. QED
      BY <3>1, <3>2 DEF ShownOrUnderWay
  <2>6. ShownAsSent' /\ ShownOnce'
    <3>1. ASSUME NEW p \in DOMAIN pages'
          PROVE  pages'[p].OBJ_COMMENT = <<>> \/ (p \in DOMAIN pages /\ pages'[p] = pages[p])
      BY <1>6, <1>7
    <3>2. DOMAIN <<>> = {}
      BY EmptySeq
    <3>3. ShownAsSent'
      BY <1>1, <3>1, <3>2 DEF IInv, CommentInv, ShownAsSent
    <3>4. ShownOnce'
      BY <3>1, <3>2 DEF IInv, CommentInv, ShownOnce
    <3>5. QED
      BY <3>3, <3>4
  <2>7. QED
    BY <2>1, <2>2, <2>3, <2>4, <2>5, <2>6 DEF CommentInv
<1>19. CountInv'
  <2>1. IsFiniteSet(inflight')
    BY <1>2, FS_AddElement DEF IInv, CountInv
  <2>2. from # "group" => ~VC_COMMUNITY_1_DEL
    BY DEF IInv, CountInv, References
  <2>3. from = "home" => ~VC_SOSIK_DEL
    BY DEF IInv, CountInv, References
  <2>4. References'
    <3>1. pages' # <<>>
      BY <1>7, EmptySeq
    <3>2. pages'[open'].from = from
      BY <1>6, <1>7, <1>8
    <3>3. QED
      BY <1>1, <2>2, <3>1, <3>2 DEF References
  <2>5. RowsUnderWay'
    BY <1>1, <1>2, <1>9, EmptySeq DEF IInv, CountInv, RowsUnderWay
  <2>6. CountsInItsRow'
    <3>1. pages'[open'] = new
      BY <1>7, <1>8
    <3>2. RowIsItsArticle'
      BY <1>6, <1>16, <3>1 DEF RowIsItsArticle
    <3>3. NoticeCountsNowhere'
      BY <1>1, <1>6, <2>2, <2>3, <3>1 DEF NoticeCountsNowhere
    <3>4. QED
      BY <3>2, <3>3 DEF CountsInItsRow
  <2>7. ASSUME Careful'
        PROVE  Careful /\ from \in {"row", "home"} /\ CountsTrue
    <3>1. Careful
      BY <1>7, <2>7 DEF Careful, Patient
    <3>2. from \in {"row", "home"}
      BY <1>6, <1>7, <2>7 DEF Careful
    <3>3. QED
      BY <3>1, <3>2 DEF IInv, CountInv, CarefulIsSafe
  <2>8. RoomForAnswers'
    <3> SUFFICES ASSUME Careful', from = "row"
                 PROVE  LET it == OBJ_SOSIK'[position]
                        IN  it.COMMENT_CNT + Cardinality(Uncounted(open)') <= Len(comments[it.art])
      BY <1>1, <1>6, <1>7, <1>8 DEF RoomForAnswers
    <3>1. Uncounted(open)' = {}
      BY <1>7, <1>8, <1>10, <1>12 DEF Uncounted
    <3>2. Cardinality(Uncounted(open)') = 0
      BY <3>1, FS_EmptySet
    <3>3. position \in DOMAIN OBJ_SOSIK
      OBVIOUS
    <3>4. /\ OBJ_SOSIK'[position].art = OBJ_SOSIK[position].art
          /\ OBJ_SOSIK'[position].COMMENT_CNT = OBJ_SOSIK[position].COMMENT_CNT
      BY <1>16, <3>3
    <3>5. /\ OBJ_SOSIK[position].COMMENT_CNT \in Nat
          /\ OBJ_SOSIK[position].COMMENT_CNT <= Len(comments[OBJ_SOSIK[position].art])
      BY <1>14, <2>7, <3>3 DEF CountsTrue, Row
    <3>6. QED
      BY <3>2, <3>4, <3>5
  <2>9. CarefulIsSafe'
    <3> SUFFICES ASSUME Careful' PROVE CountsTrue' /\ ~crashed'
      BY DEF CarefulIsSafe
    <3>1. ~crashed'
      BY <1>4, <2>2, <2>3, <2>7
    <3>2. ASSUME NEW i \in DOMAIN OBJ_SOSIK'
          PROVE  /\ OBJ_SOSIK'[i].COMMENT_CNT <= Len(comments'[OBJ_SOSIK'[i].art])
                 /\ OBJ_SOSIK'[i].READ_CNT <=
                        Cardinality({p \in DOMAIN pages' : pages'[p].art = OBJ_SOSIK'[i].art})
      <4> DEFINE old == {p \in DOMAIN pages : pages[p].art = OBJ_SOSIK[i].art}
                 opened == {p \in DOMAIN pages' : pages'[p].art = OBJ_SOSIK'[i].art}
      <4>1. /\ i \in DOMAIN OBJ_SOSIK /\ OBJ_SOSIK'[i].art = OBJ_SOSIK[i].art
            /\ OBJ_SOSIK'[i].COMMENT_CNT = OBJ_SOSIK[i].COMMENT_CNT
        BY <1>16
      <4>2. /\ OBJ_SOSIK[i].COMMENT_CNT <= Len(comments[OBJ_SOSIK[i].art])
            /\ OBJ_SOSIK[i].READ_CNT <= Cardinality(old)
            /\ OBJ_SOSIK[i].READ_CNT \in Nat
        BY <1>14, <2>7, <4>1 DEF CountsTrue, Row
      <4>3. IsFiniteSet(old) /\ Cardinality(old) \in Nat
        BY <1>5, FinitePages
      <4>4. IsFiniteSet(opened) /\ Cardinality(opened) \in Nat
        <5>1. opened \subseteq old \cup {n}
          BY <1>7, <4>1
        <5>2. IsFiniteSet(old \cup {n})
          BY <4>3, FS_AddElement
        <5>3. QED
          BY <5>1, <5>2, FS_Subset, FS_CardinalityType
      <4>5. old \subseteq opened
        BY <1>7, <4>1
      <4>6. Cardinality(old) <= Cardinality(opened)
        BY <4>4, <4>5, FS_Subset
      <4>7. CASE OBJ_SOSIK'[i].READ_CNT = OBJ_SOSIK[i].READ_CNT
        <5> HIDE DEF old, opened
        <5>1. OBJ_SOSIK'[i].READ_CNT <= Cardinality(opened)
          BY <4>2, <4>3, <4>4, <4>6, <4>7
        <5>2. QED
          BY <1>1, <4>1, <4>2, <5>1 DEF opened
      <4>8. CASE i = position /\ VC_SOSIK_DEL /\ OBJ_SOSIK'[i].READ_CNT = OBJ_SOSIK[i].READ_CNT + 1
        <5>1. from = "row" /\ OBJ_SOSIK[i].art = art
          BY <2>3, <2>7, <4>8
        <5>2. opened = old \cup {n} /\ n \notin old
          BY <1>6, <1>7, <4>1, <5>1
        <5> HIDE DEF old, opened
        <5>3. Cardinality(opened) = Cardinality(old) + 1
          BY <4>3, <5>2, FS_AddElement
        <5>4. OBJ_SOSIK'[i].READ_CNT <= Cardinality(opened)
          BY <4>2, <4>3, <4>8, <5>3
        <5>5. QED
          BY <1>1, <4>1, <4>2, <5>4 DEF opened
      <4>9. QED
        BY <1>16, <4>1, <4>7, <4>8
    <3>3. QED
      BY <3>1, <3>2 DEF CountsTrue
  <2>10. QED
    BY <2>1, <2>4, <2>5, <2>6, <2>8, <2>9 DEF CountInv
<1>20. QED
  BY <1>17, <1>18, <1>19 DEF IInv

-----------------------------------------------------------------------------
(* The page itself: one page changes.                                      *)
LEMMA OnePage ==
    ASSUME TypeOK, NEW p \in DOMAIN pages, NEW q \in Page, pages' = [pages EXCEPT ![p] = q]
    PROVE  /\ pages' \in Seq(Page) /\ Len(pages') = Len(pages) /\ DOMAIN pages' = DOMAIN pages
           /\ open' = open
           /\ pages'[p] = q
           /\ \A k \in DOMAIN pages : pages'[k] = IF k = p THEN q ELSE pages[k]
<1>1. pages \in Seq(Page) /\ p \in 1 .. Len(pages)
  BY DomainOfPages DEF TypeOK
<1>2. pages' \in Seq(Page) /\ Len(pages') = Len(pages)
  BY <1>1, ExceptSeq
<1>3. DOMAIN pages' = DOMAIN pages /\ \A k \in DOMAIN pages : pages'[k] = IF k = p THEN q ELSE pages[k]
  OBVIOUS
<1>4. QED
  BY <1>2, <1>3 DEF open

(* Counts when what changes on the page is none of their business.         *)
LEMMA OnePageCounts ==
    ASSUME IInv, NEW p \in DOMAIN pages, NEW q \in Page, pages' = [pages EXCEPT ![p] = q],
           q.art = pages[p].art, q.from = pages[p].from, q.POSITION = pages[p].POSITION,
           q.left = pages[p].left, ~q.early => ~pages[p].early,
           screen' = screen, OBJ_SOSIK' = OBJ_SOSIK,
           VC_SOSIK_DEL' = VC_SOSIK_DEL, VC_COMMUNITY_1_DEL' = VC_COMMUNITY_1_DEL,
           comments' = comments, crashed' = crashed,
           IsFiniteSet(inflight'),
           \A r \in inflight' : r \in inflight \/ (r.rows = <<>> /\ ~r.served)
    PROVE  CountInv'
<1>1. TypeOK
  BY DEF IInv
<1>2. /\ pages' \in Seq(Page) /\ Len(pages') = Len(pages) /\ DOMAIN pages' = DOMAIN pages
      /\ open' = open /\ \A k \in DOMAIN pages : pages'[k] = IF k = p THEN q ELSE pages[k]
  BY <1>1, OnePage
<1>3. \A k \in DOMAIN pages : SamePlace(k)
  BY <1>2 DEF SamePlace, Patient
<1>4. CountsStep
  BY <1>2, <1>3 DEF CountsStep
<1>5. References'
  <2>1. screen = "article" => pages # <<>> /\ open \in DOMAIN pages
    BY <1>1, DomainOfPages DEF IInv, CountInv, References
  <2>2. screen = "article" => pages' # <<>> /\ pages'[open].from = pages[open].from
    BY <1>2, <1>3, <2>1, EmptySeq DEF SamePlace
  <2>3. QED
    BY <1>2, <2>2 DEF IInv, CountInv, References
<1>6. \A i \in DOMAIN OBJ_SOSIK' : Arrived(OBJ_SOSIK'[i])
  BY DEF Arrived
<1>7. QED
  BY <1>1, <1>4, <1>5, <1>6, CountsStepCounts DEF IInv

LEMMA OpenIsAPage ==
    ASSUME IInv, OnPage
    PROVE  TypeOK /\ open \in DOMAIN pages /\ pages[open] \in Page
BY DomainOfPages DEF IInv, CountInv, References, OnPage

LEMMA EditIInv ==
    ASSUME IInv, NEW text \in Texts \cup {NoText}, Edit(text)
    PROVE  IInv'
<1> DEFINE crossed == pages[open].crossed \/ Unanswered("insert", open)
           q == [pages[open] EXCEPT !.COMMENT_TF = text, !.crossed = crossed]
<1>1. /\ OnPage /\ screen' = screen /\ tab' = tab /\ kind' = kind
      /\ OBJ_SOSIK' = OBJ_SOSIK /\ groupRows' = groupRows
      /\ VC_SOSIK_DEL' = VC_SOSIK_DEL /\ VC_COMMUNITY_1_DEL' = VC_COMMUNITY_1_DEL
      /\ inflight' = inflight /\ sent' = sent /\ comments' = comments /\ crashed' = crashed
  BY DEF Edit, nav, lists
<1>2. TypeOK /\ open \in DOMAIN pages /\ pages[open] \in Page
  BY <1>1, OpenIsAPage
<1>3. pages' = [pages EXCEPT ![open] = q]
  BY <1>2 DEF Edit
<1>4. crossed \in BOOLEAN
  BY <1>2 DEF Page
<1>5. (~crossed => ~pages[open].crossed /\ ~Unanswered("insert", open))
  OBVIOUS
<1> HIDE DEF crossed
<1>6. /\ q \in Page /\ q.art = pages[open].art /\ q.from = pages[open].from
      /\ q.POSITION = pages[open].POSITION /\ q.OBJ_SOSIK = pages[open].OBJ_SOSIK
      /\ q.OBJ_COMMENT = pages[open].OBJ_COMMENT /\ q.COMMENT_TF = text
      /\ q.early = pages[open].early /\ q.left = pages[open].left
      /\ q.crossed = crossed
  BY <1>2, <1>4 DEF Page
<1> HIDE DEF q
<1>7. /\ pages' \in Seq(Page) /\ DOMAIN pages' = DOMAIN pages
      /\ \A k \in DOMAIN pages : pages'[k] = IF k = open THEN q ELSE pages[k]
  BY <1>2, <1>3, <1>6, OnePage
<1>8. \A k \in DOMAIN pages :
        /\ pages'[k].art = pages[k].art /\ pages'[k].OBJ_SOSIK = pages[k].OBJ_SOSIK
        /\ pages'[k].OBJ_COMMENT = pages[k].OBJ_COMMENT /\ pages'[k].early = pages[k].early
        /\ ~pages'[k].crossed => ~pages[k].crossed
        /\ k # open => pages'[k] = pages[k]
        /\ k = open /\ ~pages'[k].crossed => ~Unanswered("insert", open)
  BY <1>5, <1>6, <1>7
<1>9. TypeOK'
  BY <1>1, <1>7 DEF IInv, TypeOK
<1>10. \A r \in Inserts \cup Details : r.page \in DOMAIN pages
  BY DEF IInv, CommentInv, RequestsKnown
<1>11. Inserts' = Inserts /\ Details' = Details
  BY <1>1 DEF Inserts, Details
<1>12. CommentInv'
  <2>1. RequestsKnown' /\ ServerComments' /\ FoundTrue' /\ ShownOrUnderWay'
    BY <1>1, <1>7, <1>8, <1>10, <1>11
       DEF IInv, CommentInv, RequestsKnown, ServerComments, FoundTrue, ShownOrUnderWay
  <2>2. FieldIsSent'
    <3> SUFFICES ASSUME NEW r \in Inserts, ~pages'[r.page].crossed
                 PROVE  /\ r.text = pages'[r.page].COMMENT_TF
                        /\ \A s \in Inserts : s.page = r.page => s = r
      BY <1>11 DEF FieldIsSent
    <3>1. r.page # open
      BY <1>8, <1>10 DEF Unanswered, Inserts
    <3>2. QED
      BY <1>8, <1>10, <3>1 DEF IInv, CommentInv, FieldIsSent
  <2>3. ShownAsSent' /\ ShownOnce'
    BY <1>1, <1>7, <1>8 DEF IInv, CommentInv, ShownAsSent, ShownOnce
  <2>4. QED
    BY <2>1, <2>2, <2>3 DEF CommentInv
<1>13. CountInv'
  <2>1. IsFiniteSet(inflight')
    BY <1>1 DEF IInv, CountInv
  <2>2. QED
    BY <1>1, <1>2, <1>3, <1>6, <2>1, OnePageCounts
<1>14. QED
  BY <1>9, <1>12, <1>13 DEF IInv

LEMMA CommentIInv ==
    ASSUME IInv, COMMENT_B
    PROVE  IInv'
<1> DEFINE early == pages[open].early \/ ~pages[open].OBJ_SOSIK
           crossed == pages[open].crossed \/ Unanswered("insert", open)
           q == [pages[open] EXCEPT !.early = early, !.crossed = crossed]
           n == NewRequest(sent, "insert", open, pages[open].COMMENT_TF)
<1>1. /\ OnPage /\ screen' = screen /\ tab' = tab /\ kind' = kind
      /\ OBJ_SOSIK' = OBJ_SOSIK /\ groupRows' = groupRows
      /\ VC_SOSIK_DEL' = VC_SOSIK_DEL /\ VC_COMMUNITY_1_DEL' = VC_COMMUNITY_1_DEL
      /\ inflight' = inflight \cup {n} /\ sent' = sent + 1
      /\ comments' = comments /\ crashed' = crashed
  BY DEF COMMENT_B, nav, lists
<1>2. TypeOK /\ open \in DOMAIN pages /\ pages[open] \in Page /\ sent \in Nat /\ open \in Nat
  BY <1>1, OpenIsAPage, DomainOfPages DEF TypeOK, open
<1>3. pages' = [pages EXCEPT ![open] = q]
  BY <1>2 DEF COMMENT_B
<1>4. early \in BOOLEAN /\ crossed \in BOOLEAN
  BY <1>2 DEF Page
<1>5. /\ ~early => ~pages[open].early /\ pages[open].OBJ_SOSIK
      /\ ~crossed => ~pages[open].crossed /\ ~Unanswered("insert", open)
  OBVIOUS
<1> HIDE DEF early, crossed
<1>6. /\ q \in Page /\ q.art = pages[open].art /\ q.from = pages[open].from
      /\ q.POSITION = pages[open].POSITION /\ q.OBJ_SOSIK = pages[open].OBJ_SOSIK
      /\ q.OBJ_COMMENT = pages[open].OBJ_COMMENT /\ q.COMMENT_TF = pages[open].COMMENT_TF
      /\ q.left = pages[open].left /\ q.early = early /\ q.crossed = crossed
  BY <1>2, <1>4 DEF Page
<1> HIDE DEF q
<1>7. /\ pages' \in Seq(Page) /\ DOMAIN pages' = DOMAIN pages
      /\ \A k \in DOMAIN pages : pages'[k] = IF k = open THEN q ELSE pages[k]
  BY <1>2, <1>3, <1>6, OnePage
<1>8. /\ n \in Request /\ n.id = sent /\ n.op = "insert" /\ n.page = open
      /\ n.text = pages[open].COMMENT_TF /\ n.rows = <<>> /\ ~n.served
  <2>1. pages[open].COMMENT_TF \in Texts \cup {NoText}
    BY <1>2 DEF Page
  <2>2. n \in Request
    BY <1>2, <2>1, NewRequestType
  <2>3. QED
    BY <2>2 DEF NewRequest
<1> HIDE DEF n
<1>9. \A k \in DOMAIN pages :
        /\ pages'[k].art = pages[k].art /\ pages'[k].OBJ_SOSIK = pages[k].OBJ_SOSIK
        /\ pages'[k].OBJ_COMMENT = pages[k].OBJ_COMMENT /\ pages'[k].COMMENT_TF = pages[k].COMMENT_TF
        /\ ~pages'[k].crossed => ~pages[k].crossed
        /\ ~pages'[k].early => ~pages[k].early
        /\ k = open /\ ~pages'[k].crossed => ~Unanswered("insert", open)
        /\ k = open /\ ~pages'[k].early => pages[k].OBJ_SOSIK
  BY <1>5, <1>6, <1>7
<1>10. \A r \in Inserts \cup Details : r.page \in DOMAIN pages
  BY DEF IInv, CommentInv, RequestsKnown
<1>11. Inserts' = Inserts \cup {n} /\ Details' = Details
  BY <1>1, <1>8 DEF Inserts, Details
<1>12. \A r \in inflight : r.id \in Nat /\ r.id < sent
  BY <1>2 DEF IInv, CommentInv, RequestsKnown, TypeOK, Request
<1>13. \A a \in Articles : \A j \in DOMAIN comments[a] :
         comments[a][j].id \in Nat /\ comments[a][j].id < sent
  <2> TAKE a \in Articles
  <2> TAKE j \in DOMAIN comments[a]
  <2>1. comments[a] \in Seq(Comment)
    BY <1>2 DEF TypeOK
  <2>2. comments[a][j] \in Comment
    BY <2>1, LenProperties, ElementOfSeq
  <2>3. QED
    BY <2>2 DEF IInv, CommentInv, ServerComments, Comment
<1>14. \A p \in DOMAIN pages : \A j \in DOMAIN pages[p].OBJ_COMMENT :
         pages[p].OBJ_COMMENT[j].id \in Nat /\ pages[p].OBJ_COMMENT[j].id < sent
  <2> TAKE p \in DOMAIN pages
  <2> TAKE j \in DOMAIN pages[p].OBJ_COMMENT
  <2>1. pages[p].OBJ_COMMENT \in Seq(Comment)
    BY <1>2, DomainOfPages DEF Page
  <2>2. pages[p].OBJ_COMMENT[j] \in Comment
    BY <2>1, LenProperties, ElementOfSeq
  <2>3. QED
    BY <2>2 DEF IInv, CommentInv, ShownOrUnderWay, Comment
<1>15. TypeOK'
  <2>1. inflight' \subseteq Request /\ sent' \in Nat
    BY <1>1, <1>2, <1>8 DEF TypeOK
  <2>2. QED
    BY <1>1, <1>7, <2>1 DEF IInv, TypeOK
<1>16. CommentInv'
  <2>1. RequestsKnown'
    <3>1. \A r \in inflight' : r.id < sent'
      BY <1>1, <1>2, <1>8, <1>12
    <3>2. \A r \in Details' \cup Inserts' : r.page \in DOMAIN pages'
      BY <1>2, <1>7, <1>8, <1>10, <1>11
    <3>3. \A r \in Inserts : r.id # n.id
      BY <1>8, <1>12 DEF Inserts
    <3>4. \A r, s \in Inserts' : r.id = s.id => r = s
      BY <1>11, <3>3 DEF IInv, CommentInv, RequestsKnown
    <3>5. \A r, s \in Details' : r.page = s.page => r = s
      BY <1>11 DEF IInv, CommentInv, RequestsKnown
    <3>6. QED
      BY <3>1, <3>2, <3>4, <3>5 DEF RequestsKnown
  <2>2. ServerComments'
    <3>1. \A a \in Articles : NamedOnce(comments'[a])
      BY <1>1 DEF IInv, CommentInv, ServerComments
    <3>2. \A a \in Articles : \A j \in DOMAIN comments'[a] : comments'[a][j].id < sent'
      BY <1>1, <1>2, <1>13
    <3>3. /\ ~Named(n.id, comments'[pages'[n.page].art]) /\ ~n.served
      <4>1. pages'[n.page].art \in Articles
        BY <1>2, <1>6, <1>7, <1>8 DEF Page
      <4>2. QED
        BY <1>1, <1>8, <1>13, <4>1 DEF Named
    <3>4. \A r \in Inserts :
            /\ ~r.served => ~Named(r.id, comments'[pages'[r.page].art])
            /\ r.served /\ r.success => IsIn([id |-> r.id, text |-> r.text], comments'[pages'[r.page].art])
      BY <1>1, <1>9, <1>10 DEF IInv, CommentInv, ServerComments
    <3>5. QED
      BY <1>11, <3>1, <3>2, <3>3, <3>4 DEF ServerComments
  <2>3. FoundTrue'
    BY <1>1, <1>9, <1>10, <1>11 DEF IInv, CommentInv, FoundTrue
  <2>4. FieldIsSent'
    <3> SUFFICES ASSUME NEW r \in Inserts', ~pages'[r.page].crossed
                 PROVE  /\ r.text = pages'[r.page].COMMENT_TF
                        /\ \A s \in Inserts' : s.page = r.page => s = r
      BY DEF FieldIsSent
    <3>1. ~pages'[open].crossed => \A s \in Inserts : s.page # open
      BY <1>2, <1>9 DEF Unanswered, Inserts
    <3>2. CASE r = n
      BY <1>2, <1>8, <1>9, <1>11, <3>1, <3>2
    <3>3. CASE r \in Inserts
      <4>1. r.page # open
        BY <3>1, <3>3
      <4>2. QED
        BY <1>8, <1>9, <1>10, <1>11, <3>3, <4>1 DEF IInv, CommentInv, FieldIsSent
    <3>4. QED
      BY <1>11, <3>2, <3>3
  <2>5. ShownOrUnderWay'
    <3>1. \A p \in DOMAIN pages' :
            /\ \A j \in DOMAIN pages'[p].OBJ_COMMENT : pages'[p].OBJ_COMMENT[j].id < sent'
            /\ ~pages'[p].early /\ ~pages'[p].OBJ_SOSIK => pages'[p].OBJ_COMMENT = <<>>
      <4> TAKE p \in DOMAIN pages'
      <4>1. \A j \in DOMAIN pages'[p].OBJ_COMMENT : pages'[p].OBJ_COMMENT[j].id < sent'
        BY <1>1, <1>2, <1>7, <1>9, <1>14
      <4>2. ~pages'[p].early /\ ~pages'[p].OBJ_SOSIK => pages'[p].OBJ_COMMENT = <<>>
        BY <1>7, <1>9 DEF IInv, CommentInv, ShownOrUnderWay
      <4>3. QED
        BY <4>1, <4>2
    <3>2. ~pages'[n.page].early =>
            pages'[n.page].OBJ_SOSIK /\ ~Named(n.id, pages'[n.page].OBJ_COMMENT)
      BY <1>2, <1>8, <1>9, <1>14 DEF Named
    <3>3. \A r \in Inserts : ~pages'[r.page].early =>
            pages'[r.page].OBJ_SOSIK /\ ~Named(r.id, pages'[r.page].OBJ_COMMENT)
      BY <1>9, <1>10 DEF IInv, CommentInv, ShownOrUnderWay
    <3>4. QED
      BY <1>11, <3>1, <3>2, <3>3 DEF ShownOrUnderWay
  <2>6. ShownAsSent' /\ ShownOnce'
    BY <1>1, <1>7, <1>9 DEF IInv, CommentInv, ShownAsSent, ShownOnce
  <2>7. QED
    BY <2>1, <2>2, <2>3, <2>4, <2>5, <2>6 DEF CommentInv
<1>17. CountInv'
  <2>1. IsFiniteSet(inflight')
    BY <1>1, FS_AddElement DEF IInv, CountInv
  <2>2. ~q.early => ~pages[open].early
    BY <1>5, <1>6
  <2>3. \A r \in inflight' : r \in inflight \/ (r.rows = <<>> /\ ~r.served)
    BY <1>1, <1>8
  <2>4. QED
    BY <1>1, <1>2, <1>3, <1>6, <2>1, <2>2, <2>3, OnePageCounts
<1>18. QED
  BY <1>15, <1>16, <1>17 DEF IInv

(* The answer with the article, and its comments.                          *)
LEMMA AnswerDetailIInv ==
    ASSUME IInv, NEW r \in inflight, AnswerDetail(r)
    PROVE  IInv'
<1> DEFINE p == r.page
           alert == screen = "article" /\ p = open /\ pages[p].art \in Deleted
           shown == pages[p].OBJ_COMMENT \o r.found
           q == [pages[p] EXCEPT !.OBJ_SOSIK = TRUE, !.OBJ_COMMENT = shown, !.alert = alert]
<1>1. /\ r.op = "detail" /\ screen' = screen /\ tab' = tab /\ kind' = kind
      /\ OBJ_SOSIK' = OBJ_SOSIK /\ groupRows' = groupRows
      /\ VC_SOSIK_DEL' = VC_SOSIK_DEL /\ VC_COMMUNITY_1_DEL' = VC_COMMUNITY_1_DEL
      /\ inflight' = inflight \ {r} /\ sent' = sent
      /\ comments' = comments /\ crashed' = crashed
  BY DEF AnswerDetail, nav, lists
<1>2. TypeOK /\ r \in Details /\ r \in Request
  BY <1>1 DEF IInv, TypeOK, Details
<1>3. p \in DOMAIN pages /\ pages[p] \in Page
  BY <1>2, DomainOfPages DEF IInv, CommentInv, RequestsKnown
<1>4. pages' = [pages EXCEPT ![p] = q]
  BY <1>3 DEF AnswerDetail
<1>5. alert \in BOOLEAN
  OBVIOUS
<1>6. /\ pages[p].OBJ_COMMENT \in Seq(Comment) /\ r.found \in Seq(Comment)
      /\ shown \in Seq(Comment)
  BY <1>2, <1>3, ConcatProperties DEF Page, Request
<1>7. /\ ~pages[p].OBJ_SOSIK /\ NamedOnce(r.found)
      /\ \A j \in DOMAIN r.found : IsIn(r.found[j], comments[pages[p].art])
      /\ pages[p].art \in Articles
  BY <1>2, <1>3 DEF IInv, CommentInv, FoundTrue, Page
<1>8. ~pages[p].early => shown = r.found
  <2>1. ~pages[p].early => pages[p].OBJ_COMMENT = <<>>
    BY <1>3, <1>7 DEF IInv, CommentInv, ShownOrUnderWay
  <2>2. <<>> \o r.found = r.found
    BY <1>6, ConcatEmptySeq
  <2>3. QED
    BY <2>1, <2>2
<1>9. \A i \in DOMAIN shown : \/ \E j \in DOMAIN pages[p].OBJ_COMMENT : shown[i] = pages[p].OBJ_COMMENT[j]
                              \/ \E j \in DOMAIN r.found : shown[i] = r.found[j]
  <2> DEFINE old == pages[p].OBJ_COMMENT
  <2> HIDE DEF old
  <2>1. old \in Seq(Comment) /\ shown = old \o r.found
    BY <1>6 DEF old
  <2>2. /\ Len(old) \in Nat /\ Len(r.found) \in Nat
        /\ DOMAIN old = 1 .. Len(old) /\ DOMAIN r.found = 1 .. Len(r.found)
    BY <1>6, <2>1, LenProperties
  <2>3. /\ DOMAIN shown = 1 .. Len(old) + Len(r.found)
        /\ \A i \in 1 .. Len(old) + Len(r.found) :
             shown[i] = IF i <= Len(old) THEN old[i] ELSE r.found[i - Len(old)]
    <3>1. Len(shown) = Len(old) + Len(r.found)
      BY <1>6, <2>1, ConcatProperties
    <3>2. DOMAIN shown = 1 .. Len(old) + Len(r.found)
      BY <1>6, <3>1, LenProperties
    <3>3. QED
      BY <1>6, <2>1, <3>2, ConcatProperties
  <2> HIDE DEF shown
  <2>4. ASSUME NEW i \in DOMAIN shown
        PROVE  \/ \E j \in DOMAIN old : shown[i] = old[j]
               \/ \E j \in DOMAIN r.found : shown[i] = r.found[j]
    <3>1. CASE i <= Len(old)
      BY <2>2, <2>3, <3>1
    <3>2. CASE ~(i <= Len(old))
      <4>1. i - Len(old) \in DOMAIN r.found /\ shown[i] = r.found[i - Len(old)]
        BY <2>2, <2>3, <3>2
      <4>2. QED
        BY <4>1
    <3>3. QED
      BY <3>1, <3>2
  <2>5. QED
    BY <2>4 DEF old
<1> HIDE DEF alert, shown
<1>10. /\ q \in Page /\ q.art = pages[p].art /\ q.from = pages[p].from
       /\ q.POSITION = pages[p].POSITION /\ q.OBJ_SOSIK = TRUE
       /\ q.OBJ_COMMENT = shown /\ q.COMMENT_TF = pages[p].COMMENT_TF
       /\ q.left = pages[p].left /\ q.early = pages[p].early /\ q.crossed = pages[p].crossed
  BY <1>3, <1>5, <1>6 DEF Page
<1> HIDE DEF q
<1>11. /\ pages' \in Seq(Page) /\ DOMAIN pages' = DOMAIN pages
       /\ \A k \in DOMAIN pages : pages'[k] = IF k = p THEN q ELSE pages[k]
  BY <1>2, <1>3, <1>4, <1>10, OnePage
<1> HIDE DEF p
<1>12. \A k \in DOMAIN pages :
         /\ pages'[k].art = pages[k].art /\ pages'[k].COMMENT_TF = pages[k].COMMENT_TF
         /\ pages'[k].crossed = pages[k].crossed /\ pages'[k].early = pages[k].early
         /\ k # p => pages'[k] = pages[k]
  BY <1>10, <1>11
<1>13. \A s \in Inserts \cup Details : s.page \in DOMAIN pages
  BY DEF IInv, CommentInv, RequestsKnown
<1>14. /\ Inserts' = Inserts /\ Details' = Details \ {r}
       /\ \A s \in Details' : s.page # p
  <2>1. Inserts' = Inserts /\ Details' = Details \ {r}
    BY <1>1 DEF Inserts, Details
  <2>2. QED
    BY <1>2, <2>1 DEF IInv, CommentInv, RequestsKnown, p
<1>15. TypeOK'
  <2>1. inflight' \subseteq Request
    BY <1>1, <1>2 DEF TypeOK
  <2>2. QED
    BY <1>1, <1>11, <2>1 DEF IInv, TypeOK
<1>16. CommentInv'
  <2>1. RequestsKnown' /\ ServerComments' /\ FieldIsSent'
    BY <1>1, <1>11, <1>12, <1>13, <1>14 DEF IInv, CommentInv, RequestsKnown, ServerComments, FieldIsSent
  <2>2. FoundTrue'
    BY <1>1, <1>12, <1>13, <1>14 DEF IInv, CommentInv, FoundTrue
  <2>3. ShownOrUnderWay'
    <3>1. \A j \in DOMAIN shown : shown[j].id < sent
      <4>1. \A j \in DOMAIN r.found : r.found[j].id < sent
        BY <1>7 DEF IInv, CommentInv, ServerComments, IsIn
      <4>2. QED
        BY <1>3, <1>9, <4>1 DEF IInv, CommentInv, ShownOrUnderWay
    <3>2. \A k \in DOMAIN pages' :
            /\ \A j \in DOMAIN pages'[k].OBJ_COMMENT : pages'[k].OBJ_COMMENT[j].id < sent'
            /\ ~pages'[k].early /\ ~pages'[k].OBJ_SOSIK => pages'[k].OBJ_COMMENT = <<>>
      BY <1>1, <1>10, <1>11, <3>1 DEF IInv, CommentInv, ShownOrUnderWay
    <3>3. \A s \in Inserts' : ~pages'[s.page].early =>
            pages'[s.page].OBJ_SOSIK /\ ~Named(s.id, pages'[s.page].OBJ_COMMENT)
      <4> SUFFICES ASSUME NEW s \in Inserts, ~pages'[s.page].early
                   PROVE  pages'[s.page].OBJ_SOSIK /\ ~Named(s.id, pages'[s.page].OBJ_COMMENT)
        BY <1>14
      <4>1. s.page \in DOMAIN pages /\ ~pages[s.page].early
        BY <1>12, <1>13
      <4>2. pages[s.page].OBJ_SOSIK /\ ~Named(s.id, pages[s.page].OBJ_COMMENT)
        BY <4>1 DEF IInv, CommentInv, ShownOrUnderWay
      <4>3. s.page # p
        BY <1>7, <4>2
      <4>4. QED
        BY <1>12, <4>1, <4>2, <4>3
    <3>4. QED
      BY <3>2, <3>3 DEF ShownOrUnderWay
  <2>4. ShownAsSent'
    <3>1. ~pages[p].crossed => \A i \in DOMAIN shown : IsIn(shown[i], comments[pages[p].art])
      BY <1>3, <1>7, <1>9 DEF IInv, CommentInv, ShownAsSent, IsIn
    <3>2. QED
      BY <1>1, <1>10, <1>11, <1>12, <3>1 DEF IInv, CommentInv, ShownAsSent, IsIn
  <2>5. ShownOnce'
    <3>1. ~pages[p].early => NamedOnce(shown)
      BY <1>7, <1>8
    <3>2. QED
      BY <1>10, <1>11, <1>12, <3>1 DEF IInv, CommentInv, ShownOnce, NamedOnce
  <2>6. QED
    BY <2>1, <2>2, <2>3, <2>4, <2>5 DEF CommentInv
<1>17. CountInv'
  <2>1. IsFiniteSet(inflight')
    BY <1>1, FS_RemoveElement DEF IInv, CountInv
  <2>2. QED
    BY <1>1, <1>3, <1>4, <1>10, <2>1, OnePageCounts DEF p
<1>18. QED
  BY <1>15, <1>16, <1>17 DEF IInv

(* The answer to a comment: it is shown, and counted.                      *)
LEMMA AnswerInsertIInv ==
    ASSUME IInv, NEW r \in inflight, AnswerInsert(r)
    PROVE  IInv'
<1> DEFINE p == r.page
           c == [id |-> r.id, text |-> pages[p].COMMENT_TF]
           shown == <<c>> \o pages[p].OBJ_COMMENT
           left == pages[p].left \/ screen # "article" \/ p # open
           q == [pages[p] EXCEPT !.OBJ_COMMENT = shown, !.COMMENT_TF = NoText, !.left = left]
           position == pages[p].POSITION
           row == [OBJ_SOSIK[position] EXCEPT !.COMMENT_CNT = @ + 1]
           counted == VC_SOSIK_DEL /\ position \in DOMAIN OBJ_SOSIK
                      /\ OBJ_SOSIK' = [OBJ_SOSIK EXCEPT ![position] = row]
           same == OBJ_SOSIK' = OBJ_SOSIK /\ ~(VC_SOSIK_DEL /\ position \in DOMAIN OBJ_SOSIK)
<1>1. /\ r.served /\ r.op = "insert" /\ r.success
      /\ screen' = screen /\ tab' = tab /\ kind' = kind /\ groupRows' = groupRows
      /\ VC_SOSIK_DEL' = VC_SOSIK_DEL /\ VC_COMMUNITY_1_DEL' = VC_COMMUNITY_1_DEL
      /\ inflight' = inflight \ {r} /\ sent' = sent
      /\ comments' = comments
      /\ crashed' = (\/ VC_SOSIK_DEL /\ position \notin DOMAIN OBJ_SOSIK
                     \/ ~pages[p].OBJ_SOSIK)
  BY DEF AnswerInsert, CountComment, nav
<1>2. counted \/ same
  BY DEF AnswerInsert, CountComment
<1>3. TypeOK /\ r \in Inserts /\ r \in Request /\ OBJ_SOSIK \in Seq(Row)
  BY <1>1 DEF IInv, TypeOK, Inserts
<1>4. p \in DOMAIN pages /\ pages[p] \in Page
  BY <1>3, DomainOfPages DEF IInv, CommentInv, RequestsKnown
<1>5. pages' = [pages EXCEPT ![p] = q]
  BY <1>4 DEF AnswerInsert, ShownText
<1>6. left \in BOOLEAN /\ (~left => ~pages[p].left /\ screen = "article" /\ p = open)
  BY <1>4 DEF Page
<1>7. /\ c \in Comment /\ c.id = r.id /\ pages[p].OBJ_COMMENT \in Seq(Comment)
      /\ pages[p].art \in Articles /\ position \in Nat
  BY <1>3, <1>4 DEF Comment, Page, Request
<1>8. ~pages[p].crossed => IsIn(c, comments[pages[p].art])
  <2>1. ~pages[p].crossed => c = [id |-> r.id, text |-> r.text]
    BY <1>3 DEF IInv, CommentInv, FieldIsSent
  <2>2. IsIn([id |-> r.id, text |-> r.text], comments[pages[p].art])
    BY <1>1, <1>3 DEF IInv, CommentInv, ServerComments
  <2>3. QED
    BY <2>1, <2>2
<1> HIDE DEF c
<1>9. /\ shown \in Seq(Comment)
      /\ shown # <<>>
      /\ \A i \in DOMAIN shown : \/ i = 1 /\ shown[i] = c
                                 \/ i - 1 \in DOMAIN pages[p].OBJ_COMMENT /\ i # 1
                                    /\ shown[i] = pages[p].OBJ_COMMENT[i - 1] /\ i \in Nat
  <2> DEFINE old == pages[p].OBJ_COMMENT
  <2> HIDE DEF old
  <2>1. <<c>> \in Seq(Comment) /\ Len(<<c>>) = 1 /\ <<c>>[1] = c
    BY <1>7
  <2>2. old \in Seq(Comment) /\ shown = <<c>> \o old
    BY <1>7 DEF old
  <2>3. Len(old) \in Nat /\ DOMAIN old = 1 .. Len(old)
    BY <2>2, LenProperties
  <2>4. /\ shown \in Seq(Comment) /\ Len(shown) = 1 + Len(old)
        /\ \A i \in 1 .. 1 + Len(old) : shown[i] = IF i <= 1 THEN <<c>>[i] ELSE old[i - 1]
    <3> DEFINE one == <<c>>
    <3>1. one \in Seq(Comment) /\ Len(one) = 1 /\ one[1] = c /\ shown = one \o old
      BY <2>1, <2>2
    <3> HIDE DEF one, shown
    <3>2. /\ shown \in Seq(Comment) /\ Len(shown) = 1 + Len(old)
          /\ \A i \in 1 .. 1 + Len(old) : shown[i] = IF i <= 1 THEN one[i] ELSE old[i - 1]
      BY <2>2, <3>1, ConcatProperties
    <3>3. QED
      BY <3>2 DEF one
  <2>5. DOMAIN shown = 1 .. 1 + Len(old)
    BY <2>4, LenProperties
  <2> HIDE DEF shown
  <2>6. shown # <<>>
    BY <2>3, <2>4, EmptySeq
  <2>7. ASSUME NEW i \in DOMAIN shown
        PROVE  \/ i = 1 /\ shown[i] = c
               \/ i - 1 \in DOMAIN old /\ i # 1 /\ shown[i] = old[i - 1] /\ i \in Nat
    <3>1. i \in Nat /\ 1 <= i /\ i <= 1 + Len(old)
      BY <2>3, <2>5
    <3>2. CASE i = 1
      BY <2>1, <2>3, <2>4, <3>2
    <3>3. CASE i # 1
      BY <2>3, <2>4, <3>1, <3>3
    <3>4. QED
      BY <3>2, <3>3
  <2>8. QED
    BY <2>4, <2>6, <2>7 DEF old
<1> HIDE DEF shown, left
<1>10. /\ q \in Page /\ q.art = pages[p].art /\ q.from = pages[p].from
       /\ q.POSITION = pages[p].POSITION /\ q.OBJ_SOSIK = pages[p].OBJ_SOSIK
       /\ q.OBJ_COMMENT = shown /\ q.COMMENT_TF = NoText
       /\ q.left = left /\ q.early = pages[p].early /\ q.crossed = pages[p].crossed
  BY <1>4, <1>6, <1>9 DEF Page
<1> HIDE DEF q
<1>11. /\ pages' \in Seq(Page) /\ DOMAIN pages' = DOMAIN pages /\ open' = open
       /\ \A k \in DOMAIN pages : pages'[k] = IF k = p THEN q ELSE pages[k]
  BY <1>3, <1>4, <1>5, <1>10, OnePage
<1>12. \A i \in DOMAIN OBJ_SOSIK : OBJ_SOSIK[i] \in Row
  BY <1>3, LenProperties, ElementOfSeq
<1>13. position \in DOMAIN OBJ_SOSIK =>
         /\ row \in Row /\ row.art = OBJ_SOSIK[position].art
         /\ row.COMMENT_CNT = OBJ_SOSIK[position].COMMENT_CNT + 1
         /\ row.READ_CNT = OBJ_SOSIK[position].READ_CNT
  BY <1>12 DEF Row
<1> HIDE DEF row, p
<1>14. /\ OBJ_SOSIK' \in Seq(Row) /\ DOMAIN OBJ_SOSIK' = DOMAIN OBJ_SOSIK
       /\ \A i \in DOMAIN OBJ_SOSIK :
            /\ OBJ_SOSIK'[i].art = OBJ_SOSIK[i].art
            /\ OBJ_SOSIK'[i].READ_CNT = OBJ_SOSIK[i].READ_CNT
            /\ \/ OBJ_SOSIK'[i].COMMENT_CNT = OBJ_SOSIK[i].COMMENT_CNT
               \/ /\ i = position /\ VC_SOSIK_DEL
                  /\ OBJ_SOSIK'[i].COMMENT_CNT = OBJ_SOSIK[i].COMMENT_CNT + 1
  <2>1. CASE same
    BY <1>3, <2>1
  <2>2. CASE counted
    <3>1. /\ OBJ_SOSIK' = [OBJ_SOSIK EXCEPT ![position] = row]
          /\ position \in DOMAIN OBJ_SOSIK /\ VC_SOSIK_DEL
      BY <2>2
    <3> HIDE DEF position
    <3>2. DOMAIN OBJ_SOSIK' = DOMAIN OBJ_SOSIK
      BY <3>1
    <3>3. \A i \in DOMAIN OBJ_SOSIK : OBJ_SOSIK'[i] = IF i = position THEN row ELSE OBJ_SOSIK[i]
      BY <3>1
    <3>4. OBJ_SOSIK' \in Seq(Row)
      <4>1. position \in 1 .. Len(OBJ_SOSIK)
        BY <1>3, <3>1, LenProperties
      <4>2. QED
        BY <1>3, <1>13, <3>1, <4>1, ExceptSeq
    <3>5. QED
      BY <1>13, <3>1, <3>2, <3>3, <3>4
  <2>3. QED
    BY <1>2, <2>1, <2>2
<1>15. \A k \in DOMAIN pages :
         /\ pages'[k].art = pages[k].art /\ pages'[k].from = pages[k].from
         /\ pages'[k].POSITION = pages[k].POSITION /\ pages'[k].OBJ_SOSIK = pages[k].OBJ_SOSIK
         /\ pages'[k].crossed = pages[k].crossed /\ pages'[k].early = pages[k].early
         /\ k # p => pages'[k] = pages[k]
  BY <1>10, <1>11
<1>16. \A s \in Inserts \cup Details : s.page \in DOMAIN pages
  BY DEF IInv, CommentInv, RequestsKnown
<1>17. Inserts' = Inserts \ {r} /\ Details' = Details
  BY <1>1 DEF Inserts, Details
<1>18. \A s \in Inserts' : s.id # r.id
  BY <1>3, <1>17 DEF IInv, CommentInv, RequestsKnown
<1>19. TypeOK'
  <2>1. inflight' \subseteq Request /\ crashed' \in BOOLEAN
    BY <1>1, <1>3 DEF TypeOK
  <2>2. QED
    BY <1>1, <1>11, <1>14, <2>1 DEF IInv, TypeOK
<1>20. CommentInv'
  <2>1. RequestsKnown' /\ ServerComments' /\ FoundTrue'
    BY <1>1, <1>11, <1>15, <1>16, <1>17 DEF IInv, CommentInv, RequestsKnown, ServerComments, FoundTrue
  <2>2. FieldIsSent'
    <3> SUFFICES ASSUME NEW s \in Inserts', ~pages'[s.page].crossed
                 PROVE  /\ s.text = pages'[s.page].COMMENT_TF
                        /\ \A t \in Inserts' : t.page = s.page => t = s
      BY DEF FieldIsSent
    <3>1. s \in Inserts /\ s # r /\ s.page \in DOMAIN pages /\ ~pages[s.page].crossed
      BY <1>15, <1>16, <1>17
    <3>2. s.page # p
      BY <1>3, <3>1 DEF IInv, CommentInv, FieldIsSent, p
    <3>3. QED
      BY <1>15, <1>17, <3>1, <3>2 DEF IInv, CommentInv, FieldIsSent
  <2>3. ShownOrUnderWay'
    <3>1. \A j \in DOMAIN shown : shown[j].id < sent
      <4>1. c.id < sent
        BY <1>7 DEF IInv, CommentInv, RequestsKnown
      <4>2. QED
        BY <1>4, <1>9, <4>1 DEF IInv, CommentInv, ShownOrUnderWay
    <3>2. \A k \in DOMAIN pages' : \A j \in DOMAIN pages'[k].OBJ_COMMENT :
             pages'[k].OBJ_COMMENT[j].id < sent'
      BY <1>1, <1>10, <1>11, <3>1 DEF IInv, CommentInv, ShownOrUnderWay
    <3>3. ~pages[p].early => pages[p].OBJ_SOSIK
      BY <1>3 DEF IInv, CommentInv, ShownOrUnderWay, p
    <3>4. \A k \in DOMAIN pages' :
             ~pages'[k].early /\ ~pages'[k].OBJ_SOSIK => pages'[k].OBJ_COMMENT = <<>>
      BY <1>11, <1>15, <3>3 DEF IInv, CommentInv, ShownOrUnderWay
    <3>5. \A s \in Inserts' : ~pages'[s.page].early =>
            pages'[s.page].OBJ_SOSIK /\ ~Named(s.id, pages'[s.page].OBJ_COMMENT)
      <4> SUFFICES ASSUME NEW s \in Inserts', ~pages'[s.page].early
                   PROVE  pages'[s.page].OBJ_SOSIK /\ ~Named(s.id, pages'[s.page].OBJ_COMMENT)
        OBVIOUS
      <4>1. s \in Inserts /\ s.id # r.id /\ s.page \in DOMAIN pages /\ ~pages[s.page].early
        BY <1>15, <1>16, <1>17, <1>18
      <4>2. pages[s.page].OBJ_SOSIK /\ ~Named(s.id, pages[s.page].OBJ_COMMENT)
        BY <4>1 DEF IInv, CommentInv, ShownOrUnderWay
      <4>3. s.page = p => ~Named(s.id, shown)
        BY <1>7, <1>9, <4>1, <4>2 DEF Named
      <4>4. QED
        BY <1>10, <1>11, <1>15, <4>1, <4>2, <4>3
    <3>6. QED
      BY <3>2, <3>4, <3>5 DEF ShownOrUnderWay
  <2>4. ShownAsSent'
    <3>1. ~pages[p].crossed => \A i \in DOMAIN shown : IsIn(shown[i], comments[pages[p].art])
      BY <1>4, <1>8, <1>9 DEF IInv, CommentInv, ShownAsSent, IsIn
    <3>2. QED
      BY <1>1, <1>10, <1>11, <1>15, <3>1 DEF IInv, CommentInv, ShownAsSent, IsIn
  <2>5. ShownOnce'
    <3>1. ~pages[p].early => ~Named(r.id, pages[p].OBJ_COMMENT) /\ NamedOnce(pages[p].OBJ_COMMENT)
      BY <1>3, <1>4 DEF IInv, CommentInv, ShownOrUnderWay, ShownOnce, NamedOnce, p
    <3>2. ~pages[p].early => NamedOnce(shown)
      <4> SUFFICES ASSUME ~pages[p].early, NEW i \in DOMAIN shown, NEW j \in DOMAIN shown,
                          shown[i].id = shown[j].id
                   PROVE  i = j
        BY DEF NamedOnce
      <4>1. CASE i = 1 /\ j = 1
        BY <4>1
      <4>2. CASE i # 1 /\ j # 1
        <5>1. i - 1 = j - 1 /\ i \in Nat /\ j \in Nat
          BY <1>9, <3>1, <4>2 DEF NamedOnce
        <5>2. QED
          BY <5>1
      <4>3. CASE i = 1 /\ j # 1
        BY <1>7, <1>9, <3>1, <4>3 DEF Named
      <4>4. CASE i # 1 /\ j = 1
        BY <1>7, <1>9, <3>1, <4>4 DEF Named
      <4>5. QED
        BY <4>1, <4>2, <4>3, <4>4
    <3>3. QED
      BY <1>10, <1>11, <1>15, <3>2 DEF IInv, CommentInv, ShownOnce, NamedOnce
  <2>6. QED
    BY <2>1, <2>2, <2>3, <2>4, <2>5 DEF CommentInv
<1>21. CountInv'
  <2>1. IsFiniteSet(inflight')
    BY <1>1, FS_RemoveElement DEF IInv, CountInv
  <2>2. screen = "article" => open \in DOMAIN pages /\ pages # <<>> /\ pages' # <<>>
    <3>1. screen = "article" => pages # <<>> /\ open \in DOMAIN pages
      BY <1>3, DomainOfPages DEF IInv, CountInv, References
    <3>2. QED
      BY <1>11, <3>1, EmptySeq
  <2>3. References'
    BY <1>1, <1>11, <1>15, <2>2 DEF IInv, CountInv, References
  <2>4. RowsUnderWay'
    BY <1>1 DEF IInv, CountInv, RowsUnderWay
  <2>5. CountsInItsRow'
    BY <1>1, <1>11, <1>14, <1>15, <2>2
       DEF IInv, CountInv, CountsInItsRow, RowIsItsArticle, NoticeCountsNowhere
  <2>6. ASSUME Careful'
        PROVE  /\ Careful /\ screen = "article" /\ p = open
               /\ pages[p].from \in {"row", "home"} /\ ~pages[p].early
    <3>1. Careful
      <4>1. \A k \in DOMAIN pages : Patient(k)' => Patient(k)
        BY <1>6, <1>10, <1>11, <1>15 DEF Patient, p
      <4>2. QED
        BY <1>11, <1>15, <2>6, <4>1 DEF Careful
    <3>2. ~left
      BY <1>4, <1>10, <1>11, <2>6 DEF Careful, Patient, p
    <3>3. QED
      BY <1>4, <1>6, <3>1, <3>2 DEF Careful, Patient, p
  <2>7. ASSUME Careful' PROVE ~crashed'
    <3>1. pages[p].OBJ_SOSIK
      BY <1>3, <2>6, <2>7 DEF IInv, CommentInv, ShownOrUnderWay, p
    <3>2. VC_SOSIK_DEL => position \in DOMAIN OBJ_SOSIK
      BY <2>6, <2>7 DEF IInv, CountInv, CountsInItsRow, RowIsItsArticle, NoticeCountsNowhere
    <3>3. QED
      BY <1>1, <3>1, <3>2 DEF p
  <2>8. ASSUME Careful', pages[p].from = "row"
        PROVE  /\ position \in DOMAIN OBJ_SOSIK
               /\ OBJ_SOSIK'[position].COMMENT_CNT \in Nat
               /\ Cardinality(Uncounted(open)') \in Nat
               /\ OBJ_SOSIK'[position].COMMENT_CNT + Cardinality(Uncounted(open)') <=
                      Len(comments[OBJ_SOSIK[position].art])
    <3> DEFINE it == OBJ_SOSIK[position]
               U == Uncounted(open)
    <3>1. position \in DOMAIN OBJ_SOSIK
      BY <2>6, <2>8 DEF IInv, CountInv, CountsInItsRow, RowIsItsArticle
    <3>2. it.COMMENT_CNT \in Nat /\ it.art \in Articles
      BY <1>12, <3>1 DEF Row
    <3>3. Len(comments[it.art]) \in Nat
      BY <1>3, <3>2, LenProperties DEF TypeOK
    <3>4. it.COMMENT_CNT + Cardinality(U) <= Len(comments[it.art])
      BY <2>6, <2>8 DEF IInv, CountInv, RoomForAnswers
    <3>5. IsFiniteSet(U)
      <4>1. U \subseteq inflight
        BY DEF Uncounted, Inserts
      <4>2. QED
        BY <4>1, FS_Subset DEF IInv, CountInv
    <3>6. r \in U /\ Uncounted(open)' = U \ {r}
      BY <1>1, <1>3, <1>11, <1>17, <2>6, <2>8 DEF Uncounted, p
    <3> HIDE DEF U
    <3>7. Cardinality(Uncounted(open)') = Cardinality(U) - 1 /\ Cardinality(U) \in Nat
          /\ Cardinality(Uncounted(open)') \in Nat
      BY <3>5, <3>6, FS_RemoveElement, FS_CardinalityType
    <3> DEFINE now == OBJ_SOSIK'[position].COMMENT_CNT
               under == Cardinality(Uncounted(open)')
    <3>8. now \in {it.COMMENT_CNT, it.COMMENT_CNT + 1}
      BY <1>14, <3>1
    <3>9. under = Cardinality(U) - 1 /\ under \in Nat
      BY <3>7
    <3> HIDE DEF it, now, under
    <3>10. now \in Nat /\ now + under <= Len(comments[it.art])
      BY <3>2, <3>3, <3>4, <3>7, <3>8, <3>9
    <3>11. QED
      BY <3>1, <3>9, <3>10 DEF it, now, under
  <2>9. RoomForAnswers'
    <3> SUFFICES ASSUME Careful', screen' = "article", pages'[open].from = "row"
                 PROVE  LET it == OBJ_SOSIK'[pages'[open].POSITION]
                        IN  it.COMMENT_CNT + Cardinality(Uncounted(open)') <= Len(comments[it.art])
      BY <1>1, <1>11 DEF RoomForAnswers
    <3>1. p = open /\ pages[p].from = "row" /\ pages'[open].POSITION = position
      BY <1>4, <1>15, <2>6 DEF p
    <3>2. OBJ_SOSIK'[position].art = OBJ_SOSIK[position].art
      BY <1>14, <2>8, <3>1
    <3>3. QED
      BY <2>8, <3>1, <3>2
  <2>10. CarefulIsSafe'
    <3> SUFFICES ASSUME Careful' PROVE CountsTrue' /\ ~crashed'
      BY DEF CarefulIsSafe
    <3>1. CountsTrue
      BY <2>6 DEF IInv, CountInv, CarefulIsSafe
    <3>2. ASSUME NEW i \in DOMAIN OBJ_SOSIK'
          PROVE  /\ OBJ_SOSIK'[i].COMMENT_CNT <= Len(comments'[OBJ_SOSIK'[i].art])
                 /\ OBJ_SOSIK'[i].READ_CNT <=
                        Cardinality({k \in DOMAIN pages' : pages'[k].art = OBJ_SOSIK'[i].art})
      <4>1. i \in DOMAIN OBJ_SOSIK /\ OBJ_SOSIK'[i].art = OBJ_SOSIK[i].art
        BY <1>14
      <4>2. {k \in DOMAIN pages' : pages'[k].art = OBJ_SOSIK'[i].art} =
            {k \in DOMAIN pages : pages[k].art = OBJ_SOSIK[i].art}
        BY <1>11, <1>15, <4>1
      <4>3. OBJ_SOSIK'[i].READ_CNT <=
                Cardinality({k \in DOMAIN pages' : pages'[k].art = OBJ_SOSIK'[i].art})
        BY <1>14, <3>1, <4>1, <4>2 DEF CountsTrue
      <4>4. CASE OBJ_SOSIK'[i].COMMENT_CNT = OBJ_SOSIK[i].COMMENT_CNT
        BY <1>1, <3>1, <4>1, <4>3, <4>4 DEF CountsTrue
      <4>5. CASE i = position /\ VC_SOSIK_DEL
        <5>1. pages[p].from = "row"
          BY <2>6, <4>5 DEF IInv, CountInv, CountsInItsRow, NoticeCountsNowhere
        <5>2. Len(comments[OBJ_SOSIK[position].art]) \in Nat
          <6>1. OBJ_SOSIK[position].art \in Articles
            BY <1>12, <4>1, <4>5 DEF Row
          <6>2. QED
            BY <1>3, <6>1, LenProperties DEF TypeOK
        <5>3. OBJ_SOSIK'[position].COMMENT_CNT <= Len(comments[OBJ_SOSIK[position].art])
          BY <2>8, <5>1, <5>2
        <5>4. QED
          BY <1>1, <4>1, <4>3, <4>5, <5>3
      <4>6. QED
        BY <1>14, <4>1, <4>4, <4>5
    <3>3. QED
      BY <2>7, <3>2 DEF CountsTrue
  <2>11. QED
    BY <2>1, <2>3, <2>4, <2>5, <2>9, <2>10 DEF CountInv
<1>22. QED
  BY <1>19, <1>20, <1>21 DEF IInv

-----------------------------------------------------------------------------
LEMMA InitIInv == Init => IInv
<1> SUFFICES ASSUME Init PROVE IInv
  OBVIOUS
<1> USE DEF Init
<1>1. /\ <<>> \in Seq(Row) /\ <<>> \in Seq(Page) /\ <<>> \in Seq(Comment)
      /\ DOMAIN <<>> = {}
  BY EmptySeq
<1>2. TypeOK
  BY <1>1 DEF TypeOK
<1>3. Inserts = {} /\ Details = {}
  BY DEF Inserts, Details
<1>4. CommentInv
  BY <1>1, <1>3 DEF CommentInv, RequestsKnown, ServerComments, FoundTrue, FieldIsSent, ShownOrUnderWay,
     ShownAsSent, ShownOnce, NamedOnce
<1>5. CountInv
  BY <1>1, FS_EmptySet DEF CountInv, References, RowsUnderWay, RoomForAnswers, CountsInItsRow,
     RowIsItsArticle, NoticeCountsNowhere, CarefulIsSafe, CountsTrue
<1>6. QED
  BY <1>2, <1>4, <1>5 DEF IInv

(* Every way to open an article tells where it was found.                  *)
LEMMA TapIInv ==
    ASSUME IInv,
           \/ \E i \in DOMAIN OBJ_SOSIK : TapRow(i) \/ TapPicture(i)
           \/ \E i \in DOMAIN groupRows : TapGroupRow(i) \/ TapGroupPicture(i)
           \/ \E art \in Articles : TapNotice(art)
    PROVE  IInv'
<1>1. OBJ_SOSIK \in Seq(Row) /\ groupRows \in Seq(Row)
  BY DEF IInv, TypeOK
<1>2. \A i \in DOMAIN OBJ_SOSIK : i \in Nat /\ OBJ_SOSIK[i].art \in Articles
  <2> TAKE i \in DOMAIN OBJ_SOSIK
  <2>1. i \in Nat /\ OBJ_SOSIK[i] \in Row
    BY <1>1, LenProperties, ElementOfSeq
  <2>2. QED
    BY <2>1 DEF Row
<1>3. \A i \in DOMAIN groupRows : i \in Nat /\ groupRows[i].art \in Articles
  <2> TAKE i \in DOMAIN groupRows
  <2>1. i \in Nat /\ groupRows[i] \in Row
    BY <1>1, LenProperties, ElementOfSeq
  <2>2. QED
    BY <2>1 DEF Row
<1>4. ASSUME NEW i \in DOMAIN OBJ_SOSIK, TapRow(i) PROVE IInv'
  <2>1. screen = "board" /\ OpenArticle(OBJ_SOSIK[i].art, "row", i)
    BY <1>4 DEF TapRow
  <2>2. QED
    BY <1>2, <2>1, OpenArticleIInv
<1>5. ASSUME NEW i \in DOMAIN OBJ_SOSIK, TapPicture(i) PROVE IInv'
  <2>1. screen = "board" /\ OpenArticle(OBJ_SOSIK[i].art, "picture", 1)
    BY <1>5 DEF TapPicture
  <2>2. QED
    BY <1>2, <2>1, OpenArticleIInv
<1>6. ASSUME NEW i \in DOMAIN groupRows, TapGroupRow(i) \/ TapGroupPicture(i) PROVE IInv'
  <2>1. OpenArticle(groupRows[i].art, "group", i) \/ OpenArticle(groupRows[i].art, "group", 1)
    BY <1>6 DEF TapGroupRow, TapGroupPicture
  <2>2. QED
    BY <1>3, <2>1, OpenArticleIInv
<1>7. ASSUME NEW art \in Articles, TapNotice(art) PROVE IInv'
  <2>1. screen = "home" /\ OpenArticle(art, "home", 1)
    BY <1>7 DEF TapNotice
  <2>2. QED
    BY <2>1, OpenArticleIInv
<1>8. QED
  BY <1>4, <1>5, <1>6, <1>7

LEMMA NextIInv == IInv /\ [Next]_vars => IInv'
<1> SUFFICES ASSUME IInv, [Next]_vars PROVE IInv'
  OBVIOUS
<1>1. CASE UNCHANGED vars
  <2>1. /\ inflight' = inflight /\ screen' = screen /\ tab' = tab /\ kind' = kind
        /\ OBJ_SOSIK' = OBJ_SOSIK /\ groupRows' = groupRows
        /\ VC_SOSIK_DEL' = VC_SOSIK_DEL /\ VC_COMMUNITY_1_DEL' = VC_COMMUNITY_1_DEL
        /\ pages' = pages /\ sent' = sent /\ comments' = comments /\ crashed' = crashed
    BY <1>1 DEF vars, nav, lists
  <2>2. ListsStep
    BY <2>1, UnchangedPages DEF ListsStep, OnlyLists, IInv, TypeOK
  <2>3. References' /\ TypeOK
    BY <2>1 DEF IInv, CountInv, References, open
  <2>4. QED
    BY <2>1, <2>2, <2>3, ListsStepIInv DEF TypeOK
<1>2. ASSUME NEW r \in inflight,
             \/ \E missing \in {0, 1} : Serve(r, missing)
             \/ AnswerList(r) \/ AnswerDetail(r) \/ AnswerInsert(r) \/ Unheard(r)
             \/ \E success \in BOOLEAN : ServeInsert(r, success)
      PROVE  IInv'
  BY <1>2, ServeIInv, AnswerListIInv, AnswerDetailIInv, AnswerInsertIInv, UnheardIInv, ServeInsertIInv
<1>3. QED
  BY <1>1, <1>2, AppearIInv, AskIInv, TapIInv, EditIInv, CommentIInv DEF Next

THEOREM Invariant == Spec => []IInv
<1>1. QED
  BY InitIInv, NextIInv, PTL DEF Spec

-----------------------------------------------------------------------------
(* The screens, the lists, the pages and the requests keep their types, in *)
(* any order of taps, answers and losses.                                  *)
THEOREM ArticleTypeCorrect == Spec => []TypeOK
<1>1. IInv => TypeOK
  BY DEF IInv
<1>2. QED
  BY <1>1, Invariant, PTL

(* An article opened by its row counts in that row, and one opened from    *)
(* the home tab in none: VC_SOSIK_DEL and VC_COMMUNITY_1_DEL, cleared when *)
(* screens appear (TBC_0 202), never refer to another list by then.        *)
THEOREM ArticleCountsInItsRow == Spec => []CountsInItsRow
<1>1. IInv => CountsInItsRow
  BY DEF IInv, CountInv
<1>2. QED
  BY <1>1, Invariant, PTL

(* For a resident who opens by rows or from the home tab, lets the article *)
(* load and stays for the answer, PUT_COMMENT and viewDidLoad of           *)
(* VC_SOSIK_1 never count ahead and never index out of range.              *)
THEOREM CarefulResidentIsSafe == Spec => []CarefulIsSafe
<1>1. IInv => CarefulIsSafe
  BY DEF IInv, CountInv
<1>2. QED
  BY <1>1, Invariant, PTL

(* The comments of a page are comments of the server, each once, except as *)
(* the history says: the field or a second comment crossed an answer, or   *)
(* one was sent before the article was there (P_SOSIK_1 122, 157, 161).    *)
THEOREM CommentsShownAreTrue == Spec => []CommentsAreTrue
<1>1. IInv => CommentsAreTrue
  BY DEF IInv, CommentInv, CommentsAreTrue
<1>2. QED
  BY <1>1, Invariant, PTL
-----------------------------------------------------------------------------
(* Pictures, thumbnails and attached files: what a view shows and which    *)
(* document is opened, for any views, items, files and names, and any      *)
(* number of loads, downloads and restarts.                                *)

(* Only items with an address are loaded, and a view that was not given    *)
(* its item over a load of another has no load of another item.            *)
OwnTasks ==
    \A t \in tasks :
        /\ Kind[t.item] \in {"picture", "video"}
        /\ ~astray[t.view] => t.item = item[t.view]

(* What lies at a path was answered under its name, and something lies     *)
(* where a download was stored.                                            *)
StoredArrived ==
    /\ \A name \in Names : Documents[name] \in arrived[name] \cup {Nothing}
    /\ \A d \in downloads : d.stored => Documents[Name[d.file]] # Nothing

MediaInv == MediaTypeOK /\ OwnTasks /\ ShowsItsOwn /\ StoredArrived /\ FileIsTheOneChosen

-----------------------------------------------------------------------------
LEMMA InitMediaInv == MediaInit => MediaInv
<1> SUFFICES ASSUME MediaInit PROVE MediaInv
  OBVIOUS
<1>1. MediaTypeOK
  BY DEF MediaInit, MediaTypeOK
<1>2. OwnTasks /\ ShowsItsOwn /\ StoredArrived /\ FileIsTheOneChosen
  BY DEF MediaInit, OwnTasks, ShowsItsOwn, StoredArrived, FileIsTheOneChosen
<1> QED BY <1>1, <1>2 DEF MediaInv

(* The documents' half of the invariant does not look at the views, nor    *)
(* the other way round.                                                    *)
LEMMA DocumentsKept ==
    ASSUME MediaInv, UNCHANGED documents
    PROVE  StoredArrived' /\ FileIsTheOneChosen'
BY DEF MediaInv, StoredArrived, FileIsTheOneChosen, documents

LEMMA ViewsKept ==
    ASSUME MediaInv, UNCHANGED views
    PROVE  OwnTasks' /\ ShowsItsOwn'
BY DEF MediaInv, OwnTasks, ShowsItsOwn, views

LEMMA NewTaskType ==
    ASSUME MediaTypeOK, NEW view \in Views, NEW i \in Items
    PROVE  /\ NewTask(view, i) \in Task
           /\ NewTask(view, i).view = view
           /\ NewTask(view, i).item = i
BY DEF MediaTypeOK, Task, NewTask

(* The loads of a view that is given an item, which nothing else's load    *)
(* goes on in, are the item's.                                             *)
LEMMA DrawTasks ==
    ASSUME MediaTypeOK, OwnTasks, NEW view \in Views, NEW i \in Items, Draw(view, i)
    PROVE  \A t \in tasks' :
               /\ Kind[t.item] \in {"picture", "video"}
               /\ \/ t \in tasks /\ t.view # view
                  \/ t.view = view /\ (GoesOn(view, i) \/ t.item = i)
<1> DEFINE new == NewTask(view, i)
<1>1. new.view = view /\ new.item = i
  BY NewTaskType
<1> HIDE DEF new
<1> SUFFICES ASSUME NEW t \in tasks'
             PROVE  /\ Kind[t.item] \in {"picture", "video"}
                    /\ \/ t \in tasks /\ t.view # view
                       \/ t.view = view /\ (GoesOn(view, i) \/ t.item = i)
  OBVIOUS
<1>2. Kind[i] \in {"picture", "video", "none"}
  BY MediaAssumption
<1>3. ASSUME t \in tasks PROVE Kind[t.item] \in {"picture", "video"}
  BY <1>3 DEF OwnTasks
<1>4. CASE Kind[i] = "video"
  <2>1. tasks' = tasks \cup {new}
    BY <1>4 DEF Draw, SDWEBVIDEO, new
  <2>2. CASE t = new
    BY <2>2, <1>1, <1>4
  <2>3. CASE t \in tasks
    BY <2>3, <1>3, <1>4 DEF GoesOn
  <2> QED BY <2>1, <2>2, <2>3
<1>5. CASE Kind[i] = "picture"
  <2>1. tasks' = {u \in tasks : ~(u.view = view /\ Kind[u.item] = "picture")} \cup {new}
    BY <1>5 DEF Draw, SDWEBIMAGE, new
  <2>2. CASE t = new
    BY <2>2, <1>1, <1>5
  <2>3. CASE t \in tasks /\ ~(t.view = view /\ Kind[t.item] = "picture")
    BY <2>3, <1>3, <1>5 DEF GoesOn
  <2> QED BY <2>1, <2>2, <2>3
<1>6. CASE Kind[i] = "none"
  <2>1. t \in tasks
    BY <1>6 DEF Draw, SDWEBIMAGE
  <2> QED BY <2>1, <1>3, <1>6 DEF GoesOn
<1> QED BY <1>2, <1>4, <1>5, <1>6

LEMMA DrawTypes ==
    ASSUME MediaTypeOK, NEW view \in Views, NEW i \in Items, Draw(view, i)
    PROVE  MediaTypeOK'
<1>1. NewTask(view, i) \in Task
  BY NewTaskType
<1>2. GoesOn(view, i) \in BOOLEAN
  BY DEF GoesOn
<1>3. tasks' \subseteq Task /\ started' \in Nat /\ image' \in [Views -> Items \cup {Placeholder}]
  <2>1. CASE SDWEBVIDEO(view, i)
    BY <2>1, <1>1 DEF SDWEBVIDEO, MediaTypeOK
  <2>2. CASE SDWEBIMAGE(view, i)
    BY <2>2, <1>1 DEF SDWEBIMAGE, MediaTypeOK
  <2> QED BY <2>1, <2>2 DEF Draw
<1>4. item' \in [Views -> Items \cup {NoItem}]
  BY DEF Draw, MediaTypeOK
<1>5. astray' \in [Views -> BOOLEAN]
  BY <1>2 DEF Draw, MediaTypeOK
<1> QED BY <1>3, <1>4, <1>5 DEF Draw, MediaTypeOK, documents

LEMMA DrawKeeps ==
    ASSUME MediaInv, NEW view \in Views, NEW i \in Items, Draw(view, i)
    PROVE  MediaInv'
<1>0. MediaTypeOK /\ OwnTasks /\ ShowsItsOwn
  BY DEF MediaInv
<1>1. MediaTypeOK'
  BY <1>0, DrawTypes
<1>2. StoredArrived' /\ FileIsTheOneChosen'
  BY DocumentsKept DEF Draw
<1>3. \A v \in Views \ {view} : item'[v] = item[v] /\ (astray'[v] <=> astray[v])
  BY <1>0 DEF MediaTypeOK, Draw
<1>4. item'[view] = i /\ (astray'[view] <=> GoesOn(view, i))
  BY <1>0 DEF MediaTypeOK, Draw
<1>5. OwnTasks'
  <2> SUFFICES ASSUME NEW t \in tasks'
               PROVE  /\ Kind[t.item] \in {"picture", "video"}
                      /\ ~astray'[t.view] => t.item = item'[t.view]
    BY DEF OwnTasks
  <2>1. /\ Kind[t.item] \in {"picture", "video"}
        /\ \/ t \in tasks /\ t.view # view
           \/ t.view = view /\ (GoesOn(view, i) \/ t.item = i)
    BY <1>0, DrawTasks
  <2>2. CASE t \in tasks /\ t.view # view
    <3>1. t.view \in Views \ {view}
      BY <2>2, <1>0 DEF MediaTypeOK, Task
    <3> QED BY <3>1, <2>1, <2>2, <1>0, <1>3 DEF OwnTasks
  <2>3. CASE t.view = view /\ (GoesOn(view, i) \/ t.item = i)
    BY <2>3, <2>1, <1>4
  <2> QED BY <2>1, <2>2, <2>3
<1>6. ShowsItsOwn'
  <2> SUFFICES ASSUME NEW v \in Views
               PROVE  \/ astray'[v]
                      \/ image'[v] \in {Placeholder, item'[v]}
                      \/ \E t \in tasks' : /\ t.view = v /\ Kind[t.item] = "video"
                                           /\ t.item = item'[v]
    BY DEF ShowsItsOwn
  <2>1. CASE v = view /\ Kind[i] = "video"
    <3>1. NewTask(view, i) \in tasks'
      BY <2>1 DEF Draw, SDWEBVIDEO
    <3> QED BY <3>1, <2>1, <1>4, <1>0, NewTaskType
  <2>2. CASE v = view /\ Kind[i] # "video"
    BY <2>2, <1>0 DEF Draw, SDWEBIMAGE, MediaTypeOK
  <2>3. CASE v # view
    <3>1. image'[v] = image[v]
      <4>1. CASE SDWEBVIDEO(view, i)
        BY <4>1 DEF SDWEBVIDEO
      <4>2. CASE SDWEBIMAGE(view, i)
        BY <4>2, <2>3, <1>0 DEF SDWEBIMAGE, MediaTypeOK
      <4> QED BY <4>1, <4>2 DEF Draw
    <3>2. \A t \in tasks : t.view = v => t \in tasks'
      <4>1. CASE SDWEBVIDEO(view, i)
        BY <4>1 DEF SDWEBVIDEO
      <4>2. CASE SDWEBIMAGE(view, i)
        BY <4>2, <2>3 DEF SDWEBIMAGE
      <4> QED BY <4>1, <4>2 DEF Draw
    <3>3. item'[v] = item[v] /\ (astray'[v] <=> astray[v])
      BY <1>3, <2>3
    <3> QED BY <3>1, <3>2, <3>3, <1>0 DEF ShowsItsOwn
  <2> QED BY <2>1, <2>2, <2>3
<1> QED BY <1>1, <1>2, <1>5, <1>6 DEF MediaInv

(* The end of a load t: only its view can change, and only to the image of *)
(* t or the placeholder.                                                   *)
LEMMA LoadEnds ==
    ASSUME MediaInv, NEW t \in tasks, Loaded(t) \/ PictureFails(t) \/ ThumbnailFails(t)
    PROVE  MediaInv'
<1>0. /\ MediaTypeOK /\ OwnTasks /\ ShowsItsOwn
      /\ tasks' = tasks \ {t} /\ UNCHANGED <<item, documents>>
  BY DEF MediaInv, Loaded, PictureFails, ThumbnailFails
<1>1. t \in Task /\ t.view \in Views /\ t.item \in Items
  BY <1>0 DEF MediaTypeOK, Task
<1>2. /\ image' \in [Views -> Items \cup {Placeholder}]
      /\ \A v \in Views \ {t.view} : image'[v] = image[v]
  BY <1>0, <1>1 DEF MediaTypeOK, Loaded, PictureFails, ThumbnailFails
<1>3. astray' \in [Views -> BOOLEAN] /\ \A v \in Views : astray[v] => astray'[v]
  <2>1. CASE astray' = astray
    BY <2>1, <1>0 DEF MediaTypeOK
  <2>2. CASE astray' = [astray EXCEPT ![t.view] = TRUE]
    BY <2>2, <1>0 DEF MediaTypeOK
  <2> QED BY <2>1, <2>2 DEF Loaded, PictureFails, ThumbnailFails
<1>4. MediaTypeOK'
  BY <1>0, <1>2, <1>3 DEF MediaTypeOK, documents, Loaded, PictureFails, ThumbnailFails
<1>5. StoredArrived' /\ FileIsTheOneChosen'
  BY <1>0, DocumentsKept
<1>6. OwnTasks'
  <2> SUFFICES ASSUME NEW u \in tasks'
               PROVE  /\ Kind[u.item] \in {"picture", "video"}
                      /\ ~astray'[u.view] => u.item = item'[u.view]
    BY DEF OwnTasks
  <2>1. u \in tasks /\ u.view \in Views
    BY <1>0 DEF MediaTypeOK, Task
  <2> QED BY <2>1, <1>0, <1>3 DEF OwnTasks
<1>7. ShowsItsOwn'
  <2> SUFFICES ASSUME NEW v \in Views, ~astray'[v]
               PROVE  \/ image'[v] \in {Placeholder, item'[v]}
                      \/ \E u \in tasks' : /\ u.view = v /\ Kind[u.item] = "video"
                                           /\ u.item = item'[v]
    BY DEF ShowsItsOwn
  <2>1. ~astray[v]
    BY <1>3
  <2>2. CASE v # t.view
    <3>1. \A u \in tasks : u.view = v => u \in tasks'
      BY <2>2, <1>0
    <3> QED BY <3>1, <2>1, <2>2, <1>0, <1>2 DEF ShowsItsOwn
  <2>3. CASE v = t.view
    <3>1. t.item = item[v]
      BY <2>1, <2>3, <1>0 DEF OwnTasks
    <3>2. CASE Loaded(t)
      BY <3>1, <3>2, <2>3, <1>0, <1>1 DEF Loaded, MediaTypeOK
    <3>3. CASE PictureFails(t)
      <4>1. Kind[item[v]] # "video" /\ image' = image
        BY <3>1, <3>3 DEF PictureFails
      <4> QED BY <4>1, <2>1, <1>0 DEF ShowsItsOwn
    <3>4. CASE ThumbnailFails(t)
      <4>1. astray'[v]
        BY <3>4, <2>3, <1>0, <1>1 DEF ThumbnailFails, MediaTypeOK
      <4> QED BY <4>1
    <3> QED BY <3>2, <3>3, <3>4
  <2> QED BY <2>2, <2>3
<1> QED BY <1>4, <1>5, <1>6, <1>7 DEF MediaInv
-----------------------------------------------------------------------------
LEMMA DownloadKeeps ==
    ASSUME MediaInv, NEW file \in Files, DOWNLOAD(file)
    PROVE  MediaInv'
<1>1. OwnTasks' /\ ShowsItsOwn'
  BY ViewsKept DEF DOWNLOAD
<1> DEFINE asking == [id |-> asked, file |-> file, stored |-> FALSE]
<1>0. MediaTypeOK
  BY DEF MediaInv
<1>a. asking \in Download /\ ~asking.stored
  BY <1>0 DEF MediaTypeOK, Download
<1> HIDE DEF asking
<1>b. /\ downloads' = downloads \cup {asking}
      /\ asked' = asked + 1
      /\ UNCHANGED <<views, Documents, DIC, arrived>>
  BY DEF DOWNLOAD, asking
<1>c. downloads' \subseteq Download /\ asked' \in Nat
  BY <1>0, <1>a, <1>b DEF MediaTypeOK
<1>2. MediaTypeOK'
  BY <1>0, <1>b, <1>c DEF MediaTypeOK, views
<1>3. StoredArrived' /\ FileIsTheOneChosen'
  BY <1>a, <1>b DEF MediaInv, StoredArrived, FileIsTheOneChosen
<1> QED BY <1>1, <1>2, <1>3 DEF MediaInv

LEMMA StoreKeeps ==
    ASSUME MediaInv, NEW d \in downloads, NEW body \in {d.file, ErrorPage}, Store(d, body)
    PROVE  MediaInv'
<1> DEFINE name == Name[d.file]
           now == [d EXCEPT !.stored = TRUE]
<1>0. MediaTypeOK /\ StoredArrived /\ FileIsTheOneChosen
  BY DEF MediaInv
<1>1. d \in Download /\ d.file \in Files /\ name \in Names /\ body \in Bodies
  BY <1>0 DEF MediaTypeOK, Download, Names, Bodies
<1>2. now \in Download /\ now.file = d.file
  BY <1>1 DEF Download
<1> HIDE DEF name, now
<1>3. /\ Documents' = [Documents EXCEPT ![name] = IF @ = Nothing THEN body ELSE @]
      /\ downloads' = (downloads \ {d}) \cup {now}
      /\ arrived' = [arrived EXCEPT ![name] = @ \cup {body}]
      /\ DIC' = DIC /\ UNCHANGED views
  BY DEF Store, Path, name, now
<1>4. OwnTasks' /\ ShowsItsOwn'
  BY <1>3, ViewsKept
<1>5. /\ Documents' \in [Names -> Bodies \cup {Nothing}]
      /\ arrived' \in [Names -> SUBSET Bodies]
  BY <1>0, <1>1, <1>3 DEF MediaTypeOK
<1>6. MediaTypeOK'
  BY <1>0, <1>2, <1>3, <1>5 DEF MediaTypeOK, views, Store
<1>7. /\ \A n \in Names : arrived[n] \subseteq arrived'[n]
      /\ \A n \in Names \ {name} : Documents'[n] = Documents[n]
      /\ Documents'[name] = (IF Documents[name] = Nothing THEN body ELSE Documents[name])
      /\ body \in arrived'[name]
  BY <1>0, <1>1, <1>3 DEF MediaTypeOK
<1>8. StoredArrived'
  <2>1. ASSUME NEW n \in Names PROVE Documents'[n] \in arrived'[n] \cup {Nothing}
    BY <1>0, <1>7 DEF StoredArrived
  <2>2. Documents'[name] # Nothing
    BY <1>1, <1>7, MediaAssumption
  <2>3. ASSUME NEW e \in downloads', e.stored PROVE Documents'[Name[e.file]] # Nothing
    <3>1. CASE e = now
      BY <3>1, <2>2, <1>2 DEF name
    <3>2. CASE e \in downloads
      <4>1. Documents[Name[e.file]] # Nothing /\ Name[e.file] \in Names
        BY <3>2, <2>3, <1>0 DEF StoredArrived, MediaTypeOK, Download, Names
      <4> QED BY <4>1, <1>7, <2>2
    <3> QED BY <3>1, <3>2, <1>3
  <2> QED BY <2>1, <2>3 DEF StoredArrived
<1>9. FileIsTheOneChosen'
  <2> SUFFICES ASSUME NEW document \in DIC
               PROVE  \/ document.body = document.file
                      \/ arrived'[Name[document.file]] \ {document.file} # {}
    BY <1>3 DEF FileIsTheOneChosen
  <2>1. Name[document.file] \in Names
    BY <1>0 DEF MediaTypeOK, Document, Names
  <2> QED BY <2>1, <1>0, <1>7 DEF FileIsTheOneChosen
<1> QED BY <1>4, <1>6, <1>8, <1>9 DEF MediaInv

LEMMA OpenKeeps ==
    ASSUME MediaInv, NEW d \in downloads, Open(d)
    PROVE  MediaInv'
<1> DEFINE name == Name[d.file]
           opened == [file |-> d.file, body |-> Documents[name]]
<1>0. MediaTypeOK /\ StoredArrived
  BY DEF MediaInv
<1>1. d.file \in Files /\ name \in Names
  BY <1>0 DEF MediaTypeOK, Download, Names
<1>2. opened.file = d.file /\ opened.body = Documents[name] /\ opened \in Document
  BY <1>0, <1>1 DEF MediaTypeOK, Document
<1>3. Documents[name] \in arrived[name]
  BY <1>0, <1>1 DEF StoredArrived, Open
<1> HIDE DEF opened
<1>4. /\ DIC' = {opened} /\ downloads' = downloads \ {d}
      /\ UNCHANGED <<views, Documents, asked, arrived>>
  BY DEF Open, Path, opened
<1>5. OwnTasks' /\ ShowsItsOwn'
  BY <1>4, ViewsKept
<1>6. MediaTypeOK'
  BY <1>0, <1>2, <1>4 DEF MediaTypeOK, views
<1>7. StoredArrived'
  BY <1>0, <1>4 DEF StoredArrived
<1>8. FileIsTheOneChosen'
  BY <1>2, <1>3, <1>4 DEF FileIsTheOneChosen
<1> QED BY <1>5, <1>6, <1>7, <1>8 DEF MediaInv

LEMMA RestartKeeps ==
    ASSUME MediaInv, Restart
    PROVE  MediaInv'
<1>1. MediaTypeOK'
  BY DEF MediaInv, MediaTypeOK, Restart
<1>2. OwnTasks' /\ ShowsItsOwn'
  BY DEF Restart, OwnTasks, ShowsItsOwn
<1>3. StoredArrived' /\ FileIsTheOneChosen'
  BY DEF MediaInv, Restart, StoredArrived, FileIsTheOneChosen
<1> QED BY <1>1, <1>2, <1>3 DEF MediaInv

LEMMA NextMediaInv == MediaInv /\ [MediaNext]_mediaVars => MediaInv'
<1> SUFFICES ASSUME MediaInv, [MediaNext]_mediaVars PROVE MediaInv'
  OBVIOUS
<1>1. CASE \E view \in Views, i \in Items : Draw(view, i)
  BY <1>1, DrawKeeps
<1>2. CASE \E t \in tasks : Loaded(t) \/ PictureFails(t) \/ ThumbnailFails(t)
  BY <1>2, LoadEnds
<1>3. CASE \E file \in Files : DOWNLOAD(file)
  BY <1>3, DownloadKeeps
<1>4. CASE \E d \in downloads : \E body \in {d.file, ErrorPage} : Store(d, body)
  BY <1>4, StoreKeeps
<1>5. CASE \E d \in downloads : Open(d)
  BY <1>5, OpenKeeps
<1>6. CASE Restart \/ \E d \in downloads : DownloadFails(d)
  BY <1>6, RestartKeeps DEF DownloadFails
<1>7. CASE UNCHANGED mediaVars
  <2>1. UNCHANGED documents /\ UNCHANGED views
    BY <1>7 DEF mediaVars
  <2>2. MediaTypeOK'
    BY <2>1 DEF MediaInv, MediaTypeOK, views, documents
  <2> QED BY <2>1, <2>2, DocumentsKept, ViewsKept DEF MediaInv
<1> QED BY <1>1, <1>2, <1>3, <1>4, <1>5, <1>6, <1>7 DEF MediaNext

LEMMA MediaInvHolds == MediaSpec => []MediaInv
<1>1. MediaInv /\ [MediaNext]_mediaVars => MediaInv'
  BY NextMediaInv
<1> QED BY InitMediaInv, <1>1, PTL DEF MediaSpec
-----------------------------------------------------------------------------
(* Every state of the views and documents has its types (S_IMAGE, S_BASE). *)
THEOREM MediaTypeCorrect == MediaSpec => []MediaTypeOK
BY MediaInvHolds, PTL DEF MediaInv

(* Whatever views are given to whatever items while loads run, fail and    *)
(* come late, a view shows its own item unless one of the cases S_IMAGE    *)
(* does not cancel happened to it.                                         *)
THEOREM ViewShowsItsOwn == MediaSpec => []ShowsItsOwn
BY MediaInvHolds, PTL DEF MediaInv

(* Whatever downloads overlap, fail or were made before a restart, the     *)
(* document opened is the file chosen unless its name was answered with    *)
(* another body (S_BASE 117-122).                                          *)
THEOREM OpensTheFileChosen == MediaSpec => []FileIsTheOneChosen
BY MediaInvHolds, PTL DEF MediaInv
=============================================================================
