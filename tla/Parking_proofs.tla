--------------------------- MODULE Parking_proofs ---------------------------
(***************************************************************************)
(* Safety of the parking screen for every number of visits, cars and       *)
(* passages, every page length and every schedule of requests.             *)
(***************************************************************************)
EXTENDS Parking, SequenceTheorems, TLAPS

(* Unless the tab was entered over unanswered requests, what is under way  *)
(* will put only its own rows on it.                                       *)
OfTab ==
    ~crossed => \A r \in inflight :
                   /\ r.op \in Kinds => r.op = KindOf(MN_POSITION)
                   /\ r.op = "delete" => MN_POSITION = 0

(* An answered list request carries rows of the list it asked for.         *)
RowsOfList ==
    \A r \in inflight : r.op \in Kinds => \A k \in DOMAIN r.rows : r.rows[k].kind = r.op

(* A deletion tapped on an orderly tab names a visit.                      *)
SureRows ==
    \A r \in inflight : r.op = "delete" /\ r.sure => r.row.kind = "visit"

IInv ==
    /\ TypeOK /\ OfTab /\ RowsOfList /\ SureRows
    /\ TabShowsItsRows /\ LockHasRequest

-----------------------------------------------------------------------------
LEMMA KindsOfTabs ==
    /\ \A tab \in 0 .. 2 : KindOf(tab) \in Kinds
    /\ KindOf(0) = "visit"
BY DEF KindOf, Kinds

LEMMA ListFields ==
    ASSUME TypeOK
    PROVE  \A i \in DOMAIN OBJ_PARKING : OBJ_PARKING[i] \in Row
BY ElementOfSeq, LenProperties DEF TypeOK

LEMMA RequestFields ==
    ASSUME TypeOK, NEW r \in inflight
    PROVE  /\ r \in Request /\ r.id \in Nat /\ r.page \in Nat /\ r.row \in Row
           /\ r.row.idx \in Nat /\ r.rows \in Seq(Row)
           /\ r.op \in Kinds \cup {"delete", "insert"}
BY DEF TypeOK, Request, Row

(* A page of visits is a sequence of rows of visits.                       *)
LEMMA PageRowsAreVisits ==
    ASSUME NEW page \in Nat, visits \in Seq(Nat)
    PROVE  /\ PageRows(page) \in Seq(Row)
           /\ \A k \in DOMAIN PageRows(page) : PageRows(page)[k].kind = "visit"
<1> DEFINE start == page * ITEM_COUNT
           n == Smaller(ITEM_COUNT, IF Len(visits) <= page * ITEM_COUNT THEN 0
                                    ELSE Len(visits) - page * ITEM_COUNT)
<1>1. start \in Nat
  BY ParkingAssumption
<1>2. n \in Nat /\ (n > 0 => start + n <= Len(visits))
  <2>1. Len(visits) \in Nat
    BY LenProperties
  <2>2. n = Smaller(ITEM_COUNT, IF Len(visits) <= start THEN 0 ELSE Len(visits) - start)
    OBVIOUS
  <2> HIDE DEF start, n
  <2>3. QED
    BY <1>1, <2>1, <2>2, ParkingAssumption DEF Smaller
<1>3. PageRows(page) = [i \in 1 .. n |-> [kind |-> "visit", idx |-> visits[start + i]]]
  BY DEF PageRows
<1> HIDE DEF start, n
<1>4. \A i \in 1 .. n : visits[start + i] \in Nat
  BY <1>1, <1>2, ElementOfSeq
<1>5. \A i \in 1 .. n : [kind |-> "visit", idx |-> visits[start + i]] \in Row
  BY <1>4 DEF Row, Kinds
<1>6. QED
  BY <1>2, <1>3, <1>5

(* What the server answers are rows of the table asked for.                *)
LEMMA ListRowsOfList ==
    ASSUME TypeOK, NEW r \in inflight, r.op \in Kinds
    PROVE  /\ ListRows(r) \in Seq(Row)
           /\ \A k \in DOMAIN ListRows(r) : ListRows(r)[k].kind = r.op
<1>1. r.page \in Nat /\ visits \in Seq(Nat)
  BY RequestFields DEF TypeOK
<1>2. CASE r.op = "visit"
  BY <1>1, <1>2, PageRowsAreVisits DEF ListRows
<1>3. CASE r.op = "household"
  <2>1. ListRows(r) = [i \in 1 .. cars |-> [kind |-> "household", idx |-> i]]
    BY <1>3 DEF ListRows
  <2>2. cars \in Nat /\ \A i \in 1 .. cars : [kind |-> "household", idx |-> i] \in Row
    BY DEF TypeOK, Row, Kinds
  <2>3. QED
    BY <2>1, <2>2, <1>3
<1>4. CASE r.op = "in_out"
  <2>1. ListRows(r) = [i \in 1 .. Passages |-> [kind |-> "in_out", idx |-> i]]
    BY <1>4 DEF ListRows
  <2>2. Passages \in Nat /\ \A i \in 1 .. Passages : [kind |-> "in_out", idx |-> i] \in Row
    BY ParkingAssumption DEF Row, Kinds
  <2>3. QED
    BY <2>1, <2>2, <1>4
<1>5. QED
  BY <1>2, <1>3, <1>4 DEF Kinds

LEMMA NewRequestFields ==
    ASSUME TypeOK, NEW op \in Kinds \cup {"delete", "insert"}, NEW page \in Nat,
           NEW row \in Row
    PROVE  LET q == NewRequest(op, page, row)
           IN  /\ q \in Request /\ q.op = op /\ q.row = row /\ q.sure = ~crossed
               /\ DOMAIN q.rows = {}
<1>1. <<>> \in Seq(Row) /\ DOMAIN <<>> = {}
  BY EmptySeq
<1>2. QED
  BY <1>1 DEF NewRequest, Request, TypeOK

LEMMA NoRowIsRow == NoRow \in Row
BY DEF NoRow, Row, Kinds

(* GET_PARKING_L1 and GET_PARKING_L2 keep the lists apart when what stays  *)
(* under way and the request made are of the tab shown afterwards.         *)
LEMMA GetListEffect ==
    ASSUME TypeOK, NEW op \in Kinds, NEW page \in Nat, NEW pending,
           GetList(op, page, pending)
    PROVE  /\ sent' \in Nat
           /\ OBJ_PARKING' = IF page = 0 THEN <<>> ELSE OBJ_PARKING
           /\ \/ inflight' = pending /\ sent' = sent
              \/ inflight' = pending \cup {NewRequest(op, page, NoRow)} /\ sent' # sent
BY DEF GetList, Send, TypeOK

LEMMA EmptyList == <<>> \in Seq(Row) /\ DOMAIN <<>> = {}
BY EmptySeq

-----------------------------------------------------------------------------
LEMMA InitInv == Init => IInv
<1> SUFFICES ASSUME Init PROVE IInv
  OBVIOUS
<1> DEFINE q == [id |-> 0, op |-> "visit", page |-> 0, row |-> NoRow, sure |-> TRUE,
                 served |-> FALSE, rows |-> <<>>, success |-> FALSE]
<1>1. q \in Request /\ q.op = "visit" /\ DOMAIN q.rows = {}
  BY NoRowIsRow, EmptyList DEF Request, Kinds
<1>2. sent \in Nat /\ (inflight = {q} \/ inflight = {})
  <2>1. (inflight = {q} /\ sent = 1) \/ (inflight = {} /\ sent = 0)
    BY Zenon DEF Init
  <2> HIDE DEF q
  <2>2. QED
    BY <2>1
<1> HIDE DEF q
<1>3. /\ MN_POSITION = 0 /\ OBJ_PARKING = <<>> /\ FETCHING_MORE = FALSE /\ crossed = FALSE
      /\ unsent = FALSE /\ lost = FALSE
  BY DEF Init
<1>4. visits \in Seq(Nat)
  <2>1. visits = [i \in 1 .. TEMP_CAR |-> TEMP_CAR + 1 - i]
    BY DEF Init
  <2>2. TEMP_CAR \in Nat /\ \A i \in 1 .. TEMP_CAR : TEMP_CAR + 1 - i \in Nat
    BY ParkingAssumption
  <2>3. QED
    BY <2>1, <2>2
<1>5. PARKING_L \in [visit : Int, household : Int] /\ cars \in Nat
  BY ParkingAssumption DEF Init
<1>6. PAGE_NUMBER \in Nat /\ changes \in Nat
  BY DEF Init
<1>7. TypeOK
  <2>0. /\ FETCHING_MORE \in BOOLEAN /\ crossed \in BOOLEAN
        /\ unsent \in BOOLEAN /\ lost \in BOOLEAN
    BY <1>3, Zenon
  <2>1. MN_POSITION \in 0 .. 2
    BY <1>3
  <2>2. OBJ_PARKING \in Seq(Row)
    BY <1>3, EmptyList
  <2>3. inflight \subseteq Request
    BY <1>1, <1>2
  <2>4. QED
    BY <1>2, <1>4, <1>5, <1>6, <2>0, <2>1, <2>2, <2>3 DEF TypeOK
<1>8. OfTab /\ RowsOfList /\ SureRows
  BY <1>1, <1>2, <1>3, KindsOfTabs DEF OfTab, RowsOfList, SureRows
<1>9. TabShowsItsRows /\ LockHasRequest
  BY <1>3, EmptyList DEF TabShowsItsRows, LockHasRequest
<1>10. QED
  BY <1>7, <1>8, <1>9 DEF IInv

LEMMA MenuInv == ASSUME IInv, NEW tab \in 0 .. 2, MENU_V(tab) PROVE IInv'
<1> DEFINE q == NewRequest(KindOf(tab), 0, NoRow)
<1>1. TypeOK
  BY DEF IInv
<1>2. /\ MN_POSITION' = tab /\ crossed' = Pending
      /\ UNCHANGED <<FETCHING_MORE, PAGE_NUMBER, visits, cars, PARKING_L,
                     unsent, lost, changes>>
  BY DEF MENU_V, server
<1>3. KindOf(tab) \in Kinds
  BY KindsOfTabs
<1>4. /\ sent' \in Nat /\ OBJ_PARKING' = <<>>
      /\ inflight' = inflight \/ inflight' = inflight \cup {q}
  BY <1>1, <1>3, GetListEffect DEF MENU_V
<1>5. q \in Request /\ q.op = KindOf(tab) /\ DOMAIN q.rows = {}
  BY <1>1, <1>3, NewRequestFields, NoRowIsRow
<1> HIDE DEF q
<1>6. TypeOK'
  BY <1>1, <1>2, <1>4, <1>5, EmptyList DEF TypeOK, Pending
<1>7. OfTab'
  <2> SUFFICES ASSUME ~Pending, NEW r \in inflight'
               PROVE  /\ r.op \in Kinds => r.op = KindOf(tab)
                      /\ r.op = "delete" => tab = 0
    BY <1>2 DEF OfTab
  <2>1. \A s \in inflight : s.op = "insert"
    BY DEF Pending, OfList
  <2>2. QED
    BY <2>1, <1>3, <1>4, <1>5 DEF Kinds
<1>8. RowsOfList'
  BY <1>4, <1>5 DEF IInv, RowsOfList
<1>9. SureRows'
  BY <1>3, <1>4, <1>5 DEF IInv, SureRows, Kinds
<1>10. TabShowsItsRows'
  BY <1>4, EmptyList DEF TabShowsItsRows
<1>11. LockHasRequest'
  BY <1>2, <1>4 DEF IInv, LockHasRequest
<1>12. QED
  BY <1>6, <1>7, <1>8, <1>9, <1>10, <1>11 DEF IInv

LEMMA ScrollInv == ASSUME IInv, ScrollToEnd PROVE IInv'
<1> DEFINE q == NewRequest("visit", PAGE_NUMBER + 1, NoRow)
<1>1. TypeOK /\ PAGE_NUMBER + 1 \in Nat /\ PAGE_NUMBER + 1 # 0 /\ "visit" \in Kinds
  BY DEF IInv, TypeOK, Kinds
<1>2. /\ MN_POSITION = 0 /\ FETCHING_MORE' = TRUE /\ PAGE_NUMBER' = PAGE_NUMBER + 1
      /\ unsent' = (sent' = sent)
      /\ UNCHANGED <<MN_POSITION, visits, cars, PARKING_L, crossed, lost, changes>>
  BY DEF ScrollToEnd, server
<1>3. /\ sent' \in Nat /\ OBJ_PARKING' = OBJ_PARKING
      /\ \/ inflight' = inflight /\ sent' = sent
         \/ inflight' = inflight \cup {q} /\ sent' # sent
  BY <1>1, GetListEffect DEF ScrollToEnd
<1>4. q \in Request /\ q.op = "visit" /\ DOMAIN q.rows = {}
  BY <1>1, NewRequestFields, NoRowIsRow
<1> HIDE DEF q
<1>5. TypeOK'
  BY <1>1, <1>2, <1>3, <1>4 DEF TypeOK
<1>6. OfTab'
  BY <1>2, <1>3, <1>4, KindsOfTabs DEF IInv, OfTab
<1>7. RowsOfList' /\ SureRows'
  BY <1>3, <1>4 DEF IInv, RowsOfList, SureRows
<1>8. TabShowsItsRows'
  BY <1>2, <1>3 DEF IInv, TabShowsItsRows
<1>9. LockHasRequest'
  BY <1>2, <1>3, <1>4 DEF LockHasRequest
<1>10. QED
  BY <1>5, <1>6, <1>7, <1>8, <1>9 DEF IInv

(* A tap that sends a request without touching the list.                   *)
LEMMA SendInv ==
    ASSUME IInv, NEW op \in {"delete", "insert"}, NEW row \in Row,
           Send(NewRequest(op, 0, row), inflight),
           UNCHANGED <<MN_POSITION, OBJ_PARKING, FETCHING_MORE, PAGE_NUMBER, server,
                       PARKING_L, crossed, unsent, lost, changes>>,
           op = "delete" => MN_POSITION = 0 /\ (~crossed => row.kind = "visit")
    PROVE  IInv'
<1> DEFINE q == NewRequest(op, 0, row)
<1>1. TypeOK /\ 0 \in Nat
  BY DEF IInv
<1>2. inflight' = inflight \cup {q} /\ sent' = sent + 1
  BY DEF Send
<1>3. q \in Request /\ q.op = op /\ q.row = row /\ q.sure = ~crossed /\ DOMAIN q.rows = {}
  BY <1>1, NewRequestFields
<1> HIDE DEF q
<1>4. visits' = visits /\ cars' = cars
  BY DEF server
<1>5. TypeOK'
  BY <1>1, <1>2, <1>3, <1>4 DEF TypeOK
<1>6. OfTab'
  BY <1>2, <1>3 DEF IInv, OfTab, Kinds
<1>7. RowsOfList'
  BY <1>2, <1>3 DEF IInv, RowsOfList
<1>8. SureRows'
  BY <1>2, <1>3 DEF IInv, SureRows
<1>9. TabShowsItsRows'
  BY DEF IInv, TabShowsItsRows
<1>10. LockHasRequest'
  BY <1>2 DEF IInv, LockHasRequest
<1>11. QED
  BY <1>5, <1>6, <1>7, <1>8, <1>9, <1>10 DEF IInv

LEMMA CancelInv == ASSUME IInv, NEW tag \in DOMAIN OBJ_PARKING, CANCEL_B(tag) PROVE IInv'
<1>1. OBJ_PARKING[tag] \in Row
  BY ListFields DEF IInv
<1>2. MN_POSITION = 0 /\ (~crossed => OBJ_PARKING[tag].kind = "visit")
  BY KindsOfTabs DEF CANCEL_B, IInv, TabShowsItsRows
<1>3. QED
  BY <1>1, <1>2, SendInv DEF CANCEL_B

LEMMA RegisterInv ==
    ASSUME IInv, NEW kind \in {"visit", "household"}, Register(kind) PROVE IInv'
<1>1. [kind |-> kind, idx |-> 0] \in Row
  BY DEF Row, Kinds
<1>2. QED
  BY <1>1, SendInv DEF Register

-----------------------------------------------------------------------------
(* The server's step: the request keeps all but its answer.                *)
LEMMA ServedInv ==
    ASSUME IInv, NEW r \in inflight, NEW rows \in Seq(Row), NEW success \in BOOLEAN,
           Served(r, rows, success),
           visits' \in Seq(Nat), cars' \in Nat, changes' \in Nat, PAGE_NUMBER' = PAGE_NUMBER,
           r.op \in Kinds => \A k \in DOMAIN rows : rows[k].kind = r.op
    PROVE  IInv'
<1> DEFINE q == [r EXCEPT !.served = TRUE, !.rows = rows, !.success = success]
<1>1. TypeOK /\ r \in Request
  BY DEF IInv, TypeOK
<1>2. /\ inflight' = (inflight \ {r}) \cup {q}
      /\ UNCHANGED <<MN_POSITION, OBJ_PARKING, FETCHING_MORE, PAGE_NUMBER, sent, PARKING_L,
                     crossed, unsent, lost>>
  BY DEF Served
<1>3. q \in Request /\ q.op = r.op /\ q.rows = rows /\ q.row = r.row /\ q.sure = r.sure
  BY <1>1 DEF Request
<1> HIDE DEF q
<1>4. TypeOK'
  BY <1>1, <1>2, <1>3 DEF TypeOK
<1>5. OfTab' /\ RowsOfList' /\ SureRows'
  BY <1>2, <1>3 DEF IInv, OfTab, RowsOfList, SureRows
<1>6. TabShowsItsRows'
  BY <1>2 DEF IInv, TabShowsItsRows
<1>7. LockHasRequest'
  BY <1>2, <1>3 DEF IInv, LockHasRequest
<1>8. QED
  BY <1>4, <1>5, <1>6, <1>7 DEF IInv

LEMMA ServeInv ==
    ASSUME IInv, NEW r \in inflight,
           ServeList(r) \/ ServeDelete(r) \/ ServeInsert(r) \/ Refuse(r)
    PROVE  IInv'
<1>1. TypeOK /\ visits \in Seq(Nat) /\ cars \in Nat /\ changes \in Nat
  BY DEF IInv, TypeOK
<1>2. r.id \in Nat
  BY <1>1, RequestFields
<1>3. CASE ServeList(r)
  <2>1. r.op \in Kinds /\ Served(r, ListRows(r), TRUE)
    BY <1>3 DEF ServeList
  <2>2. /\ ListRows(r) \in Seq(Row)
        /\ \A k \in DOMAIN ListRows(r) : ListRows(r)[k].kind = r.op
    BY <1>1, <2>1, ListRowsOfList
  <2>3. visits' = visits /\ cars' = cars /\ changes' = changes /\ PAGE_NUMBER' = PAGE_NUMBER
    BY <1>3, <2>1 DEF ServeList, Served, server
  <2>4. QED
    BY <1>1, <2>1, <2>2, <2>3, ServedInv
<1>4. CASE ServeDelete(r)
  <2>1. r.op \notin Kinds /\ Served(r, <<>>, TRUE)
    BY <1>4 DEF ServeDelete, Kinds
  <2>2. visits' \in Seq(Nat)
    <3>1. PICK i \in DOMAIN visits : visits' = RemoveAt(visits, i)
      BY <1>4 DEF ServeDelete
    <3>2. Len(visits) \in Nat /\ i \in 1 .. Len(visits)
      BY <1>1, LenProperties
    <3>3. \A k \in 1 .. Len(visits) : visits[k] \in Nat
      BY <1>1, ElementOfSeq
    <3>4. SubSeq(visits, 1, i - 1) \in Seq(Nat)
      <4>1. i - 1 \in Int /\ \A k \in 1 .. i - 1 : visits[k] \in Nat
        BY <3>2, <3>3
      <4>2. QED
        BY <4>1, SubSeqProperties
    <3>5. SubSeq(visits, i + 1, Len(visits)) \in Seq(Nat)
      <4>1. /\ i + 1 \in Int /\ Len(visits) \in Int
            /\ \A k \in i + 1 .. Len(visits) : visits[k] \in Nat
        BY <3>2, <3>3
      <4>2. QED
        BY <4>1, SubSeqProperties
    <3>6. QED
      BY <3>1, <3>4, <3>5, ConcatProperties DEF RemoveAt
  <2>3. cars' \in Nat /\ changes' \in Nat /\ PAGE_NUMBER' = PAGE_NUMBER
    BY <1>1, <1>4, <2>1 DEF ServeDelete, Served
  <2>4. QED
    BY <2>1, <2>2, <2>3, EmptyList, ServedInv
<1>5. CASE ServeInsert(r)
  <2>1. r.op \notin Kinds /\ Served(r, <<>>, TRUE)
    BY <1>5 DEF ServeInsert, Kinds
  <2>2. visits' \in Seq(Nat) /\ cars' \in Nat
    <3>1. <<TEMP_CAR + 1 + r.id>> \in Seq(Nat)
      BY <1>2, ParkingAssumption
    <3>2. <<TEMP_CAR + 1 + r.id>> \o visits \in Seq(Nat)
      BY <1>1, <3>1, ConcatProperties
    <3> DEFINE one == <<TEMP_CAR + 1 + r.id>> \o visits
    <3>3. \/ visits' = one /\ cars' = cars
          \/ visits' = visits /\ cars' = cars + 1
      BY <1>5 DEF ServeInsert
    <3> HIDE DEF one
    <3>4. one \in Seq(Nat)
      BY <3>2 DEF one
    <3>5. QED
      BY <1>1, <3>3, <3>4
  <2>3. changes' \in Nat /\ PAGE_NUMBER' = PAGE_NUMBER
    BY <1>1, <1>5, <2>1 DEF ServeInsert, Served
  <2>4. QED
    BY <2>1, <2>2, <2>3, EmptyList, ServedInv
<1>6. CASE Refuse(r)
  <2>1. r.op \notin Kinds /\ Served(r, <<>>, FALSE)
    BY <1>6 DEF Refuse, Kinds
  <2>2. visits' = visits /\ cars' = cars /\ changes' = changes /\ PAGE_NUMBER' = PAGE_NUMBER
    BY <1>6, <2>1 DEF Refuse, Served, server
  <2>3. QED
    BY <1>1, <2>1, <2>2, EmptyList, ServedInv
<1>7. QED
  BY <1>3, <1>4, <1>5, <1>6

-----------------------------------------------------------------------------
(* Taking a request away keeps what is said of the others.                 *)
LEMMA RemovedInv ==
    ASSUME IInv, NEW r \in inflight, inflight' = inflight \ {r},
           UNCHANGED <<MN_POSITION, crossed>>
    PROVE  OfTab' /\ RowsOfList' /\ SureRows'
BY DEF IInv, OfTab, RowsOfList, SureRows

(* A lock that survives an answer has its request among the others.        *)
LEMMA UnlockedInv ==
    ASSUME IInv, NEW r \in inflight, inflight' = inflight \ {r}, FETCHING_MORE' = Unlocked(r),
           unsent' = unsent
    PROVE  LockHasRequest' /\ FETCHING_MORE' \in BOOLEAN
<1>1. FETCHING_MORE \in BOOLEAN
  BY DEF IInv, TypeOK
<1>2. CASE r.op = "visit"
  BY <1>2 DEF Unlocked, LockHasRequest
<1>3. CASE r.op # "visit"
  BY <1>1, <1>3 DEF Unlocked, LockHasRequest, IInv
<1>4. QED
  BY <1>2, <1>3

LEMMA AnswerListInv == ASSUME IInv, NEW r \in inflight, AnswerList(r) PROVE IInv'
<1>1. /\ r.op \in Kinds /\ inflight' = inflight \ {r}
      /\ OBJ_PARKING' = OBJ_PARKING \o r.rows /\ FETCHING_MORE' = Unlocked(r)
      /\ UNCHANGED <<MN_POSITION, PAGE_NUMBER, sent, visits, cars, PARKING_L, crossed,
                     unsent, lost, changes>>
  BY DEF AnswerList, server
<1>2. TypeOK /\ OBJ_PARKING \in Seq(Row) /\ r.rows \in Seq(Row)
  BY RequestFields DEF IInv, TypeOK
<1> DEFINE m == Len(OBJ_PARKING)
           n == Len(r.rows)
<1>3. /\ m \in Nat /\ n \in Nat /\ DOMAIN OBJ_PARKING = 1 .. m /\ DOMAIN r.rows = 1 .. n
      /\ OBJ_PARKING' \in Seq(Row) /\ DOMAIN OBJ_PARKING' = 1 .. m + n
      /\ \A i \in 1 .. m + n :
            OBJ_PARKING'[i] = IF i <= m THEN OBJ_PARKING[i] ELSE r.rows[i - m]
  BY <1>1, <1>2, ConcatProperties, LenProperties
<1> HIDE DEF m, n
<1>4. OfTab' /\ RowsOfList' /\ SureRows'
  BY <1>1, RemovedInv
<1>5. LockHasRequest' /\ FETCHING_MORE' \in BOOLEAN
  BY <1>1, UnlockedInv
<1>6. TypeOK'
  BY <1>1, <1>2, <1>3, <1>5 DEF TypeOK
<1>7. TabShowsItsRows'
  <2> SUFFICES ASSUME ~crossed, NEW i \in 1 .. m + n
               PROVE  OBJ_PARKING'[i].kind = KindOf(MN_POSITION)
    BY <1>1, <1>3 DEF TabShowsItsRows
  <2>1. r.op = KindOf(MN_POSITION)
    BY <1>1 DEF IInv, OfTab
  <2>2. CASE i <= m
    BY <2>2, <1>3 DEF IInv, TabShowsItsRows
  <2>3. CASE i > m
    <3>1. i - m \in 1 .. n
      BY <2>3, <1>3
    <3>2. r.rows[i - m].kind = r.op
      BY <3>1, <1>1, <1>3 DEF IInv, RowsOfList
    <3>3. QED
      BY <2>1, <2>3, <3>2, <1>3
  <2>4. QED
    BY <2>2, <2>3, <1>3
<1>8. QED
  BY <1>4, <1>5, <1>6, <1>7 DEF IInv

LEMMA AnswerDeletedInv == ASSUME IInv, NEW r \in inflight, AnswerDeleted(r) PROVE IInv'
<1> DEFINE q == NewRequest("visit", 0, NoRow)
<1>1. TypeOK /\ r.op = "delete" /\ "visit" \in Kinds /\ 0 \in Nat
  BY DEF IInv, AnswerDeleted, Kinds
<1>2. /\ PARKING_L' = [PARKING_L EXCEPT !.visit = TEMP_CAR - 1]
      /\ UNCHANGED <<MN_POSITION, FETCHING_MORE, PAGE_NUMBER, visits, cars, crossed,
                     unsent, lost, changes>>
  BY DEF AnswerDeleted, server
<1>3. /\ sent' \in Nat /\ OBJ_PARKING' = <<>>
      /\ inflight' = inflight \ {r} \/ inflight' = (inflight \ {r}) \cup {q}
  BY <1>1, GetListEffect DEF AnswerDeleted
<1>4. q \in Request /\ q.op = "visit" /\ DOMAIN q.rows = {}
  BY <1>1, NewRequestFields, NoRowIsRow
<1> HIDE DEF q
<1>5. PARKING_L' \in [visit : Int, household : Int]
  <2>1. PARKING_L \in [visit : Int, household : Int] /\ TEMP_CAR - 1 \in Int
    BY <1>1, ParkingAssumption DEF TypeOK
  <2>2. QED
    BY <1>2, <2>1
<1>6. TypeOK'
  BY <1>1, <1>2, <1>3, <1>4, <1>5, EmptyList DEF TypeOK
<1>7. ~crossed => MN_POSITION = 0
  BY <1>1 DEF IInv, OfTab
<1>8. OfTab'
  BY <1>2, <1>3, <1>4, <1>7, KindsOfTabs DEF IInv, OfTab
<1>9. RowsOfList' /\ SureRows'
  BY <1>3, <1>4 DEF IInv, RowsOfList, SureRows
<1>10. TabShowsItsRows'
  BY <1>3, EmptyList DEF TabShowsItsRows
<1>11. LockHasRequest'
  BY <1>1, <1>2, <1>3 DEF IInv, LockHasRequest
<1>12. QED
  BY <1>6, <1>8, <1>9, <1>10, <1>11 DEF IInv

(* The other answers leave the list alone.                                 *)
LEMMA OtherAnswersInv ==
    ASSUME IInv, NEW r \in inflight, AnswerInserted(r) \/ AnswerRefused(r) \/ NoAnswer(r)
    PROVE  IInv'
<1>1. /\ inflight' = inflight \ {r} /\ FETCHING_MORE' = Unlocked(r)
      /\ UNCHANGED <<MN_POSITION, OBJ_PARKING, PAGE_NUMBER, sent, visits, cars, crossed,
                     unsent, changes>>
  BY DEF AnswerInserted, AnswerRefused, NoAnswer, Unlocked, server
<1>2. PARKING_L' \in [visit : Int, household : Int]
  <2>1. PARKING_L \in [visit : Int, household : Int]
    BY DEF IInv, TypeOK
  <2>2. CASE AnswerInserted(r)
    BY <2>1, <2>2, ParkingAssumption DEF AnswerInserted
  <2>3. CASE AnswerRefused(r) \/ NoAnswer(r)
    BY <2>1, <2>3 DEF AnswerRefused, NoAnswer
  <2>4. QED
    BY <2>2, <2>3
<1>3. OfTab' /\ RowsOfList' /\ SureRows'
  BY <1>1, RemovedInv
<1>4. LockHasRequest' /\ FETCHING_MORE' \in BOOLEAN
  BY <1>1, UnlockedInv
<1>5. TypeOK'
  <2>1. lost \in BOOLEAN
    BY DEF IInv, TypeOK
  <2>2. lost' \in BOOLEAN
    BY <2>1 DEF AnswerInserted, AnswerRefused, NoAnswer
  <2>3. QED
    BY <1>1, <1>2, <1>4, <2>2 DEF IInv, TypeOK
<1>6. TabShowsItsRows'
  BY <1>1 DEF IInv, TabShowsItsRows
<1>7. QED
  BY <1>3, <1>4, <1>5, <1>6 DEF IInv

LEMMA NextInv == IInv /\ [Next]_vars => IInv'
<1> SUFFICES ASSUME IInv, [Next]_vars PROVE IInv'
  OBVIOUS
<1>1. ASSUME NEW tab \in 0 .. 2, MENU_V(tab) PROVE IInv'
  BY <1>1, MenuInv
<1>2. CASE ScrollToEnd
  BY <1>2, ScrollInv
<1>3. ASSUME NEW tag \in DOMAIN OBJ_PARKING, CANCEL_B(tag) PROVE IInv'
  BY <1>3, CancelInv
<1>4. ASSUME NEW kind \in {"visit", "household"}, Register(kind) PROVE IInv'
  BY <1>4, RegisterInv
<1>5. ASSUME NEW r \in inflight, ServeList(r) \/ ServeDelete(r) \/ ServeInsert(r) \/ Refuse(r)
      PROVE  IInv'
  BY <1>5, ServeInv
<1>6. ASSUME NEW r \in inflight, AnswerList(r) PROVE IInv'
  BY <1>6, AnswerListInv
<1>7. ASSUME NEW r \in inflight, AnswerDeleted(r) PROVE IInv'
  BY <1>7, AnswerDeletedInv
<1>8. ASSUME NEW r \in inflight, AnswerInserted(r) \/ AnswerRefused(r) \/ NoAnswer(r)
      PROVE  IInv'
  BY <1>8, OtherAnswersInv
<1>9. CASE UNCHANGED vars
  BY <1>9 DEF vars, server, IInv, TypeOK, OfTab, RowsOfList, SureRows, TabShowsItsRows,
              LockHasRequest
<1>10. QED
  BY <1>1, <1>2, <1>3, <1>4, <1>5, <1>6, <1>7, <1>8, <1>9 DEF Next

THEOREM InvariantHolds == Spec => []IInv
BY InitInv, NextInv, PTL DEF Spec

-----------------------------------------------------------------------------
(* The screen's fields, its requests and the labels keep their types       *)
(* (VC_PARKING 14-20).                                                     *)
THEOREM ParkingTypeCorrect == Spec => []TypeOK
<1>1. IInv => TypeOK
  BY DEF IInv
<1>2. QED
  BY <1>1, InvariantHolds, PTL

(* A tab entered with nothing unanswered shows its own rows, whatever is   *)
(* tapped afterwards (P_PARKING 64, 147, 180).                             *)
THEOREM TabsKeptApart == Spec => []TabShowsItsRows
<1>1. IInv => TabShowsItsRows
  BY DEF IInv
<1>2. QED
  BY <1>1, InvariantHolds, PTL

(* Unless the page was asked for offline, the paging lock has a request    *)
(* that will release it (P_PARKING 73, VC_PARKING 171).                    *)
THEOREM LockIsReleasable == Spec => []LockHasRequest
<1>1. IInv => LockHasRequest
  BY DEF IInv
<1>2. QED
  BY <1>1, InvariantHolds, PTL

(* Under the same condition as TabsKeptApart, what the server deletes is   *)
(* the visit whose button was tapped (VC_PARKING 155).                     *)
THEOREM DeletionIsOfTheTappedRow == Spec => DeletesWhatWasTapped
<1>1. IInv /\ [Next]_vars =>
        [\A r \in inflight : ServeDelete(r) /\ r.sure => r.row.kind = "visit"]_vars
  BY DEF IInv, SureRows, ServeDelete
<1>2. QED
  BY <1>1, InvariantHolds, PTL DEF Spec, DeletesWhatWasTapped

-----------------------------------------------------------------------------
(* The labels.  A change is made by the server before the label of the     *)
(* other screen follows: between the two, the request of the change is     *)
(* the only one of its kind.                                               *)

(* A change the server made and the phone does not know of yet.            *)
Made(r) == r.op \notin Kinds /\ r.served /\ r.success

AsLoaded == [visit |-> TEMP_CAR, household |-> PERM_CAR]
AsServer == [visit |-> Len(visits), household |-> cars]

(* What the answer to r sets the labels to.                                *)
LabelsAfter(r) ==
    IF r.op = "delete" THEN [AsLoaded EXCEPT !.visit = TEMP_CAR - 1]
    ELSE IF r.row.kind = "visit" THEN [AsLoaded EXCEPT !.visit = TEMP_CAR + 1]
         ELSE [AsLoaded EXCEPT !.household = PERM_CAR + 1]

LabelsTruth ==
    ~lost =>
        /\ changes = 0 => /\ AsServer = AsLoaded /\ PARKING_L = AsLoaded
                          /\ \A r \in inflight : ~Made(r)
        /\ changes = 1 => \/ PARKING_L = AsServer /\ \A r \in inflight : ~Made(r)
                          \/ /\ PARKING_L = AsLoaded
                             /\ \E r \in inflight : Made(r) /\ AsServer = LabelsAfter(r)
                             /\ \A r, s \in inflight : Made(r) /\ Made(s) => r = s

-----------------------------------------------------------------------------
LEMMA InitLabels == Init => LabelsTruth
<1> SUFFICES ASSUME Init PROVE LabelsTruth
  OBVIOUS
<1> DEFINE q == [id |-> 0, op |-> "visit", page |-> 0, row |-> NoRow, sure |-> TRUE,
                 served |-> FALSE, rows |-> <<>>, success |-> FALSE]
<1>1. inflight = {q} \/ inflight = {}
  BY Zenon DEF Init
<1>2. ~Made(q)
  BY DEF Made
<1> HIDE DEF q
<1>3. \A r \in inflight : ~Made(r)
  BY <1>1, <1>2
<1>4. PARKING_L = AsLoaded /\ cars = PERM_CAR /\ changes = 0
  BY DEF Init, AsLoaded
<1>5. Len(visits) = TEMP_CAR
  <2>1. visits = [i \in 1 .. TEMP_CAR |-> TEMP_CAR + 1 - i]
    BY DEF Init
  <2>2. QED
    BY <2>1, ParkingAssumption
<1>6. QED
  BY <1>3, <1>4, <1>5 DEF LabelsTruth, AsServer, AsLoaded

(* A step that leaves the server and the labels alone, and takes no change *)
(* away unless its answer is lost.                                         *)
LEMMA LabelsFrame ==
    ASSUME LabelsTruth, UNCHANGED <<visits, cars, PARKING_L, changes>>, ~lost' => ~lost,
           \A r \in inflight' : Made(r) => r \in inflight,
           ~lost' => \A r \in inflight : Made(r) => r \in inflight'
    PROVE  LabelsTruth'
BY DEF LabelsTruth, AsServer

(* A request that goes out is not a change made.                           *)
LEMMA NewIsNotMade == \A op, page, row : ~Made(NewRequest(op, page, row))
BY DEF Made, NewRequest

LEMMA GetListLabels ==
    ASSUME NEW op, NEW page, NEW pending, GetList(op, page, pending)
    PROVE  /\ \A r \in inflight' : Made(r) => r \in pending
           /\ \A r \in pending : r \in inflight'
<1> DEFINE q == NewRequest(op, page, NoRow)
<1>1. inflight' = pending \/ inflight' = pending \cup {q}
  BY DEF GetList, Send
<1>2. ~Made(q)
  BY NewIsNotMade
<1> HIDE DEF q
<1>3. QED
  BY <1>1, <1>2

LEMMA ScreenLabels ==
    ASSUME LabelsTruth
    PROVE  /\ \A tab \in 0 .. 2 : MENU_V(tab) => LabelsTruth'
           /\ ScrollToEnd => LabelsTruth'
           /\ \A tag \in DOMAIN OBJ_PARKING : CANCEL_B(tag) => LabelsTruth'
           /\ \A kind \in {"visit", "household"} : Register(kind) => LabelsTruth'
<1>1. ASSUME NEW op, NEW page, GetList(op, page, inflight),
             UNCHANGED <<server, PARKING_L, lost, changes>>
      PROVE  LabelsTruth'
  BY <1>1, GetListLabels, LabelsFrame DEF server
<1>2. ASSUME NEW op, NEW row, Send(NewRequest(op, 0, row), inflight),
             UNCHANGED <<server, PARKING_L, lost, changes>>
      PROVE  LabelsTruth'
  <2> DEFINE q == NewRequest(op, 0, row)
  <2>1. inflight' = inflight \cup {q} /\ ~Made(q)
    BY <1>2, NewIsNotMade DEF Send
  <2> HIDE DEF q
  <2>2. QED
    BY <1>2, <2>1, LabelsFrame DEF server
<1>3. ASSUME NEW tab \in 0 .. 2, MENU_V(tab) PROVE LabelsTruth'
  BY <1>1, <1>3 DEF MENU_V
<1>4. ASSUME ScrollToEnd PROVE LabelsTruth'
  BY <1>1, <1>4 DEF ScrollToEnd
<1>5. ASSUME NEW tag \in DOMAIN OBJ_PARKING, CANCEL_B(tag) PROVE LabelsTruth'
  BY <1>2, <1>5 DEF CANCEL_B
<1>6. ASSUME NEW kind \in {"visit", "household"}, Register(kind) PROVE LabelsTruth'
  BY <1>2, <1>6 DEF Register
<1>7. QED
  BY <1>3, <1>4, <1>5, <1>6

-----------------------------------------------------------------------------
(* The server's answer replaces the request.                               *)
LEMMA ServedRequest ==
    ASSUME TypeOK, NEW r \in inflight, NEW rows, NEW success \in BOOLEAN, Served(r, rows, success)
    PROVE  \E q : /\ inflight' = (inflight \ {r}) \cup {q}
                  /\ q.op = r.op /\ q.row = r.row /\ q.served /\ (q.success <=> success)
                  /\ ~Made(r) /\ UNCHANGED <<PARKING_L, lost>>
<1> DEFINE q == [r EXCEPT !.served = TRUE, !.rows = rows, !.success = success]
<1>1. r \in Request
  BY RequestFields
<1>2. q.op = r.op /\ q.row = r.row /\ q.served /\ (q.success <=> success)
  BY <1>1 DEF Request
<1>3. ~r.served /\ inflight' = (inflight \ {r}) \cup {q} /\ UNCHANGED <<PARKING_L, lost>>
  BY DEF Served
<1> HIDE DEF q
<1>4. QED
  BY <1>2, <1>3 DEF Made

(* The first change: it is under way, alone, and the server is as its      *)
(* answer will say.                                                        *)
LEMMA FirstChange ==
    ASSUME LabelsTruth, changes \in Nat, changes' = changes + 1, NEW r \in inflight, NEW q, Made(q),
           inflight' = (inflight \ {r}) \cup {q}, UNCHANGED <<PARKING_L, lost>>,
           AsServer = AsLoaded => AsServer' = LabelsAfter(q)
    PROVE  LabelsTruth'
<1> SUFFICES ASSUME ~lost' PROVE LabelsTruth'
  BY DEF LabelsTruth
<1>1. changes' # 0 /\ (changes' = 1 => changes = 0)
  OBVIOUS
<1>2. changes = 0 => /\ AsServer = AsLoaded /\ PARKING_L = AsLoaded
                     /\ \A s \in inflight : ~Made(s)
  BY DEF LabelsTruth
<1>3. ASSUME changes = 0
      PROVE  /\ PARKING_L' = AsLoaded /\ q \in inflight' /\ AsServer' = LabelsAfter(q)
             /\ \A s \in inflight' : Made(s) => s = q
  BY <1>2, <1>3
<1>4. QED
  BY <1>1, <1>3 DEF LabelsTruth

LEMMA ServerLabels ==
    ASSUME IInv, LabelsTruth, NEW r \in inflight
    PROVE  ServeList(r) \/ ServeDelete(r) \/ ServeInsert(r) \/ Refuse(r) => LabelsTruth'
<1>0. TypeOK /\ changes \in Nat /\ visits \in Seq(Nat) /\ cars \in Nat /\ r.id \in Nat
  BY RequestFields DEF IInv, TypeOK
<1>1. ASSUME ServeList(r) \/ Refuse(r) PROVE LabelsTruth'
  <2>1. ~Made(r) /\ UNCHANGED <<PARKING_L, lost>> /\ UNCHANGED <<visits, cars, changes>>
    BY <1>1 DEF ServeList, Refuse, Served, Made, server
  <2>2. PICK q : inflight' = (inflight \ {r}) \cup {q} /\ ~Made(q)
    <3>1. CASE ServeList(r)
      <4>1. Served(r, ListRows(r), TRUE) /\ r.op \in Kinds
        BY <3>1 DEF ServeList
      <4>2. PICK q : inflight' = (inflight \ {r}) \cup {q} /\ q.op = r.op
        BY <1>0, <4>1, ServedRequest
      <4>3. ~Made(q)
        BY <4>1, <4>2 DEF Made
      <4>4. QED
        BY <4>2, <4>3
    <3>2. CASE Refuse(r)
      <4>1. Served(r, <<>>, FALSE)
        BY <3>2 DEF Refuse
      <4>2. PICK q : inflight' = (inflight \ {r}) \cup {q} /\ (q.success <=> FALSE)
        BY <1>0, <4>1, ServedRequest
      <4>3. ~Made(q)
        BY <4>2 DEF Made
      <4>4. QED
        BY <4>2, <4>3
    <3>3. QED
      BY <1>1, <3>1, <3>2
  <2>3. QED
    BY <2>1, <2>2, LabelsFrame
<1>2. ASSUME ServeDelete(r) PROVE LabelsTruth'
  <2>1. PICK q : /\ inflight' = (inflight \ {r}) \cup {q}
                 /\ q.op = r.op /\ q.row = r.row /\ q.served /\ (q.success <=> TRUE)
                 /\ ~Made(r) /\ UNCHANGED <<PARKING_L, lost>>
    BY <1>0, <1>2, ServedRequest DEF ServeDelete
  <2>2. q.op = "delete" /\ Made(q) /\ changes' = changes + 1 /\ cars' = cars
    BY <1>2, <2>1 DEF ServeDelete, Made, Kinds
  <2>3. Len(visits') = Len(visits) - 1
    <3>1. PICK i \in DOMAIN visits : visits' = RemoveAt(visits, i)
      BY <1>2 DEF ServeDelete
    <3> DEFINE n == Len(visits)
               front == SubSeq(visits, 1, i - 1)
               back == SubSeq(visits, i + 1, n)
    <3>2. n \in Nat /\ i \in 1 .. n /\ \A k \in 1 .. n : visits[k] \in Nat
      BY <1>0, LenProperties, ElementOfSeq
    <3>3. visits' = front \o back
      BY <3>1 DEF RemoveAt
    <3> HIDE DEF n
    <3>4. front \in Seq(Nat) /\ Len(front) = i - 1
      <4>1. i - 1 \in Int /\ 1 \in Int /\ \A k \in 1 .. i - 1 : visits[k] \in Nat
        BY <3>2
      <4>2. front \in Seq(Nat) /\ Len(front) = IF 1 <= i - 1 THEN i - 1 - 1 + 1 ELSE 0
        BY <4>1, SubSeqProperties
      <4>3. QED
        BY <3>2, <4>2
    <3>5. back \in Seq(Nat) /\ Len(back) = n - i
      <4>1. i + 1 \in Int /\ n \in Int /\ \A k \in i + 1 .. n : visits[k] \in Nat
        BY <3>2
      <4>2. back \in Seq(Nat) /\ Len(back) = IF i + 1 <= n THEN n - (i + 1) + 1 ELSE 0
        BY <4>1, SubSeqProperties
      <4>3. QED
        BY <3>2, <4>2
    <3> HIDE DEF front, back
    <3>6. Len(visits') = Len(front) + Len(back)
      BY <3>3, <3>4, <3>5, ConcatProperties
    <3>7. Len(visits') = n - 1
      BY <3>2, <3>4, <3>5, <3>6
    <3>8. QED
      BY <3>7 DEF n
  <2>4. AsServer = AsLoaded => AsServer' = LabelsAfter(q)
    <3> SUFFICES ASSUME AsServer = AsLoaded PROVE AsServer' = LabelsAfter(q)
      OBVIOUS
    <3>1. Len(visits) = TEMP_CAR /\ cars = PERM_CAR
      BY DEF AsServer, AsLoaded
    <3>2. AsServer' = [visit |-> TEMP_CAR - 1, household |-> PERM_CAR]
      BY <2>2, <2>3, <3>1 DEF AsServer
    <3>3. QED
      BY <2>2, <3>2 DEF LabelsAfter, AsLoaded
  <2>5. QED
    BY <1>0, <2>1, <2>2, <2>4, FirstChange
<1>3. ASSUME ServeInsert(r) PROVE LabelsTruth'
  <2>1. PICK q : /\ inflight' = (inflight \ {r}) \cup {q}
                 /\ q.op = r.op /\ q.row = r.row /\ q.served /\ (q.success <=> TRUE)
                 /\ ~Made(r) /\ UNCHANGED <<PARKING_L, lost>>
    BY <1>0, <1>3, ServedRequest DEF ServeInsert
  <2>2. q.op = "insert" /\ Made(q) /\ changes' = changes + 1
    BY <1>3, <2>1 DEF ServeInsert, Made, Kinds
  <2>3. IF r.row.kind = "visit" THEN Len(visits') = Len(visits) + 1 /\ cars' = cars
                                ELSE visits' = visits /\ cars' = cars + 1
    <3> DEFINE one == <<TEMP_CAR + 1 + r.id>>
    <3>1. IF r.row.kind = "visit" THEN visits' = one \o visits /\ cars' = cars
                                  ELSE visits' = visits /\ cars' = cars + 1
      BY <1>3 DEF ServeInsert
    <3>2. one \in Seq(Nat) /\ Len(one) = 1
      BY <1>0, ParkingAssumption
    <3> HIDE DEF one
    <3>3. Len(one \o visits) = Len(one) + Len(visits)
      BY <1>0, <3>2, ConcatProperties
    <3>4. Len(visits) \in Nat
      BY <1>0, LenProperties
    <3>5. Len(one \o visits) = Len(visits) + 1
      BY <3>2, <3>3, <3>4
    <3>6. QED
      BY <3>1, <3>5
  <2>4. AsServer = AsLoaded => AsServer' = LabelsAfter(q)
    <3> SUFFICES ASSUME AsServer = AsLoaded PROVE AsServer' = LabelsAfter(q)
      OBVIOUS
    <3>1. Len(visits) = TEMP_CAR /\ cars = PERM_CAR
      BY DEF AsServer, AsLoaded
    <3>2. CASE r.row.kind = "visit"
      <4>1. AsServer' = [visit |-> TEMP_CAR + 1, household |-> PERM_CAR]
        BY <2>3, <3>1, <3>2 DEF AsServer
      <4>2. QED
        BY <2>1, <2>2, <3>2, <4>1 DEF LabelsAfter, AsLoaded
    <3>3. CASE r.row.kind # "visit"
      <4>1. AsServer' = [visit |-> TEMP_CAR, household |-> PERM_CAR + 1]
        BY <2>3, <3>1, <3>3 DEF AsServer
      <4>2. QED
        BY <2>1, <2>2, <3>3, <4>1 DEF LabelsAfter, AsLoaded
    <3>4. QED
      BY <3>2, <3>3
  <2>5. QED
    BY <1>0, <2>1, <2>2, <2>4, FirstChange
<1>4. QED
  BY <1>1, <1>2, <1>3

-----------------------------------------------------------------------------
(* The answer to the first change sets the labels.                         *)
LEMMA ChangeAnswered ==
    ASSUME LabelsTruth, NEW r \in inflight, Made(r), UNCHANGED <<visits, cars, lost, changes>>,
           \A s \in inflight' : Made(s) => s \in inflight \ {r},
           PARKING_L = AsLoaded => PARKING_L' = LabelsAfter(r)
    PROVE  LabelsTruth'
<1> SUFFICES ASSUME ~lost' PROVE LabelsTruth'
  BY DEF LabelsTruth
<1>1. changes # 0
  BY DEF LabelsTruth
<1>2. ASSUME changes = 1
      PROVE  PARKING_L' = AsServer' /\ \A s \in inflight' : ~Made(s)
  <2>1. /\ PARKING_L = AsLoaded
        /\ \E s \in inflight : Made(s) /\ AsServer = LabelsAfter(s)
        /\ \A s, t \in inflight : Made(s) /\ Made(t) => s = t
    BY <1>2 DEF LabelsTruth
  <2>2. AsServer = LabelsAfter(r)
    BY <2>1
  <2>3. AsServer' = AsServer
    BY DEF AsServer
  <2>4. QED
    BY <2>1, <2>2, <2>3
<1>3. QED
  BY <1>1, <1>2 DEF LabelsTruth

LEMMA AnswerLabels ==
    ASSUME IInv, LabelsTruth, NEW r \in inflight
    PROVE  AnswerList(r) \/ AnswerDeleted(r) \/ AnswerInserted(r) \/ AnswerRefused(r) \/ NoAnswer(r)
             => LabelsTruth'
<1>1. ASSUME AnswerList(r) \/ AnswerRefused(r) \/ NoAnswer(r) PROVE LabelsTruth'
  <2>1. inflight' = inflight \ {r} /\ UNCHANGED <<visits, cars, PARKING_L, changes>>
    BY <1>1 DEF AnswerList, AnswerRefused, NoAnswer, server
  <2>2. ~lost' => ~lost /\ ~Made(r)
    <3>1. CASE AnswerList(r) \/ AnswerRefused(r)
      BY <3>1 DEF AnswerList, AnswerRefused, Made
    <3>2. CASE NoAnswer(r)
      <4>1. lost' <=> lost \/ r.op \notin Kinds
        BY <3>2, Zenon DEF NoAnswer
      <4>2. QED
        BY <4>1 DEF Made
    <3>3. QED
      BY <1>1, <3>1, <3>2
  <2>3. QED
    BY <2>1, <2>2, LabelsFrame
<1>2. ASSUME AnswerDeleted(r) PROVE LabelsTruth'
  <2>1. /\ Made(r) /\ r.op = "delete" /\ GetList("visit", 0, inflight \ {r})
        /\ PARKING_L' = [PARKING_L EXCEPT !.visit = TEMP_CAR - 1]
        /\ UNCHANGED <<visits, cars, lost, changes>>
    BY <1>2 DEF AnswerDeleted, Made, Kinds, server
  <2>2. \A s \in inflight' : Made(s) => s \in inflight \ {r}
    BY <2>1, GetListLabels
  <2>3. PARKING_L = AsLoaded => PARKING_L' = LabelsAfter(r)
    BY <2>1 DEF LabelsAfter
  <2>4. QED
    BY <2>1, <2>2, <2>3, ChangeAnswered
<1>3. ASSUME AnswerInserted(r) PROVE LabelsTruth'
  <2>1. /\ Made(r) /\ r.op # "delete" /\ inflight' = inflight \ {r}
        /\ PARKING_L' = IF r.row.kind = "visit"
                        THEN [PARKING_L EXCEPT !.visit = TEMP_CAR + 1]
                        ELSE [PARKING_L EXCEPT !.household = PERM_CAR + 1]
        /\ UNCHANGED <<visits, cars, lost, changes>>
    BY <1>3 DEF AnswerInserted, Made, Kinds, server
  <2>2. PARKING_L = AsLoaded => PARKING_L' = LabelsAfter(r)
    BY <2>1 DEF LabelsAfter
  <2>3. QED
    BY <2>1, <2>2, ChangeAnswered
<1>4. QED
  BY <1>1, <1>2, <1>3

LEMMA NextLabels == IInv /\ LabelsTruth /\ [Next]_vars => LabelsTruth'
<1> SUFFICES ASSUME IInv, LabelsTruth, [Next]_vars PROVE LabelsTruth'
  OBVIOUS
<1>1. CASE UNCHANGED vars
  BY <1>1 DEF vars, server, LabelsTruth, AsServer
<1>2. CASE Next
  BY <1>2, ScreenLabels, ServerLabels, AnswerLabels DEF Next
<1>3. QED
  BY <1>1, <1>2

(* Until a second change, and unless an answer was lost, the labels of the *)
(* "my home" tab are the numbers the server has - for any numbers loaded   *)
(* and whatever change comes first (P_PARKING 182, P_PARKING_1 59, 64).    *)
THEOREM FirstChangeIsLabelled == Spec => []LabelsAfterOneChange
<1>1. IInv /\ LabelsTruth => LabelsAfterOneChange
  <2> SUFFICES ASSUME IInv, LabelsTruth, ~lost, Settled, changes <= 1
               PROVE  PARKING_L = [visit |-> Len(visits), household |-> cars]
    BY DEF LabelsAfterOneChange
  <2>1. changes = 0 \/ changes = 1
    BY DEF IInv, TypeOK
  <2>2. \A r \in inflight : ~Made(r)
    BY DEF Settled, Made
  <2>3. PARKING_L = AsServer
    BY <2>1, <2>2 DEF LabelsTruth
  <2>4. QED
    BY <2>3 DEF AsServer
<1>2. Init => IInv /\ LabelsTruth
  BY InitInv, InitLabels
<1>3. IInv /\ LabelsTruth /\ [Next]_vars => (IInv /\ LabelsTruth)'
  BY NextInv, NextLabels
<1>4. QED
  BY <1>1, <1>2, <1>3, PTL DEF Spec

-----------------------------------------------------------------------------
(* The list implements SelectedList.  What has to be known besides is that *)
(* a tab other than the visits has one request under way, over an empty    *)
(* list: only the visits are scrolled, deleted and reloaded by themselves. *)
OnceOnly ==
    ~crossed /\ MN_POSITION # 0 =>
        \A r \in inflight : OfList(r) => /\ OBJ_PARKING = <<>>
                                         /\ \A s \in inflight : OfList(s) => s = r

LEMMA ScreenOnce ==
    ASSUME IInv, OnceOnly,
           \/ \E tab \in 0 .. 2 : MENU_V(tab)
           \/ ScrollToEnd
           \/ \E tag \in DOMAIN OBJ_PARKING : CANCEL_B(tag)
           \/ \E kind \in {"visit", "household"} : Register(kind)
    PROVE  OnceOnly'
<1>0. TypeOK /\ 0 \in Nat
  BY DEF IInv
<1>1. ASSUME NEW tab \in 0 .. 2, MENU_V(tab) PROVE OnceOnly'
  <2> DEFINE q == NewRequest(KindOf(tab), 0, NoRow)
  <2>1. /\ crossed' = Pending /\ OBJ_PARKING' = <<>>
        /\ inflight' = inflight \/ inflight' = inflight \cup {q}
    BY <1>0, <1>1, KindsOfTabs, GetListEffect DEF MENU_V
  <2> HIDE DEF q
  <2>2. ~Pending => \A r \in inflight : ~OfList(r)
    BY DEF Pending
  <2>3. QED
    BY <2>1, <2>2 DEF OnceOnly
<1>2. ASSUME ScrollToEnd \/ \E tag \in DOMAIN OBJ_PARKING : CANCEL_B(tag) PROVE OnceOnly'
  BY <1>2 DEF ScrollToEnd, CANCEL_B, OnceOnly
<1>3. ASSUME NEW kind \in {"visit", "household"}, Register(kind) PROVE OnceOnly'
  <2> DEFINE q == NewRequest("insert", 0, [kind |-> kind, idx |-> 0])
  <2>1. ~OfList(q)
    BY DEF NewRequest, OfList
  <2>2. inflight' = inflight \cup {q} /\ UNCHANGED <<MN_POSITION, OBJ_PARKING, crossed>>
    BY <1>3 DEF Register, Send
  <2> HIDE DEF q
  <2>3. QED
    BY <2>1, <2>2 DEF OnceOnly, OfList
<1>4. QED
  BY <1>1, <1>2, <1>3

LEMMA ServerOnce ==
    ASSUME IInv, OnceOnly, NEW r \in inflight,
           ServeList(r) \/ ServeDelete(r) \/ ServeInsert(r) \/ Refuse(r)
    PROVE  OnceOnly'
<1>1. PICK rows, success : Served(r, rows, success)
  BY DEF ServeList, ServeDelete, ServeInsert, Refuse
<1> DEFINE q == [r EXCEPT !.served = TRUE, !.rows = rows, !.success = success]
<1>2. inflight' = (inflight \ {r}) \cup {q} /\ UNCHANGED <<MN_POSITION, OBJ_PARKING, crossed>>
  BY <1>1 DEF Served
<1>3. r \in Request
  BY DEF IInv, TypeOK
<1>4. OfList(q) = OfList(r)
  BY <1>3 DEF OfList, Request
<1> HIDE DEF q
<1>5. QED
  BY <1>2, <1>4 DEF OnceOnly

LEMMA AnswerOnce ==
    ASSUME IInv, OnceOnly, NEW r \in inflight,
           \/ AnswerList(r) \/ AnswerDeleted(r) \/ AnswerInserted(r)
           \/ AnswerRefused(r) \/ NoAnswer(r)
    PROVE  OnceOnly'
<1>1. CASE AnswerList(r)
  <2>1. OfList(r)
    BY <1>1 DEF AnswerList, OfList, Kinds
  <2>2. QED
    BY <1>1, <2>1 DEF AnswerList, OnceOnly
<1>2. CASE AnswerDeleted(r)
  BY <1>2 DEF AnswerDeleted, IInv, OfTab, OnceOnly
<1>3. CASE AnswerInserted(r) \/ AnswerRefused(r) \/ NoAnswer(r)
  BY <1>3 DEF AnswerInserted, AnswerRefused, NoAnswer, OnceOnly
<1>4. QED
  BY <1>1, <1>2, <1>3

LEMMA NextOnce == IInv /\ OnceOnly /\ [Next]_vars => OnceOnly'
<1> SUFFICES ASSUME IInv, OnceOnly, [Next]_vars PROVE OnceOnly'
  OBVIOUS
<1>1. CASE UNCHANGED vars
  BY <1>1 DEF vars, OnceOnly
<1>2. CASE Next
  BY <1>2, ScreenOnce, ServerOnce, AnswerOnce DEF Next
<1>3. QED
  BY <1>1, <1>2

(* A sequence is a prefix of what it is continued to.                      *)
LEMMA Continued ==
    ASSUME NEW s \in Seq(Row), NEW t \in Seq(Row)
    PROVE  Len(s) <= Len(s \o t) /\ SubSeq(s \o t, 1, Len(s)) = s
<1>1. /\ s \o t \in Seq(Row) /\ Len(s \o t) = Len(s) + Len(t)
      /\ Len(s) \in Nat /\ Len(t) \in Nat
  BY ConcatProperties, LenProperties
<1>2. SubSeq(s \o t, 1, Len(s)) = s
  BY SubSeqOfConcat1
<1>3. QED
  BY <1>1, <1>2

(* Three tables in one list, registrations and deletions: rows arrive at   *)
(* the end of the list and only those of the tab shown, cars and passages  *)
(* once, and nothing else changes the list but emptying it - unless a tab  *)
(* was entered over an unanswered request (P_PARKING 64, 147, 180).        *)
THEOREM ParkingKeepsSelection == Spec => KeepsSelection
<1>1. Init => IInv /\ OnceOnly
  BY InitInv DEF Init, OnceOnly
<1>2. IInv /\ OnceOnly /\ [Next]_vars => (IInv /\ OnceOnly)'
  BY NextInv, NextOnce
<1>3. Init => Selected!Init
  BY DEF Init, Selected!Init
<1>4. IInv /\ OnceOnly /\ IInv' /\ [Next]_vars => [Selected!Next]_(Selected!vars)
  <2> SUFFICES ASSUME IInv, OnceOnly, IInv', Next PROVE [Selected!Next]_(Selected!vars)
    BY DEF vars, Selected!vars, Pending
  <2> USE DEF Selected!Next
  <2>0. TypeOK /\ 0 \in Nat /\ "visit" \in Kinds
    BY DEF IInv, Kinds
  <2>1. ASSUME NEW tab \in 0 .. 2, MENU_V(tab) PROVE Selected!Ask
    BY <2>0, <2>1, KindsOfTabs, GetListEffect DEF MENU_V, Selected!Ask
  <2>2. CASE ScrollToEnd
    <3>1. PAGE_NUMBER + 1 \in Nat /\ PAGE_NUMBER + 1 # 0
      BY <2>0 DEF TypeOK
    <3>2. UNCHANGED <<MN_POSITION, OBJ_PARKING, crossed>>
      BY <2>0, <2>2, <3>1, GetListEffect DEF ScrollToEnd
    <3>3. QED
      BY <3>2 DEF Selected!Wait
  <2>3. ASSUME NEW tag \in DOMAIN OBJ_PARKING, CANCEL_B(tag) PROVE Selected!Wait
    BY <2>3 DEF CANCEL_B, Selected!Wait
  <2>4. ASSUME NEW kind \in {"visit", "household"}, Register(kind) PROVE Selected!Wait
    BY <2>4 DEF Register, Selected!Wait
  <2>5. ASSUME NEW r \in inflight, ServeList(r) \/ ServeDelete(r) \/ ServeInsert(r) \/ Refuse(r)
        PROVE  Selected!Wait
    BY <2>5 DEF ServeList, ServeDelete, ServeInsert, Refuse, Served, Selected!Wait
  <2>6. ASSUME NEW r \in inflight, AnswerInserted(r) \/ AnswerRefused(r) \/ NoAnswer(r)
        PROVE  Selected!Wait
    BY <2>6 DEF AnswerInserted, AnswerRefused, NoAnswer, Selected!Wait
  <2>7. ASSUME NEW r \in inflight, AnswerDeleted(r) PROVE Selected!Ask
    <3>1. OBJ_PARKING' = <<>> /\ crossed' = crossed
      BY <2>0, <2>7, GetListEffect DEF AnswerDeleted
    <3>2. QED
      BY <3>1 DEF Selected!Ask
  <2>8. ASSUME NEW r \in inflight, AnswerList(r)
        PROVE  Selected!Receive \/ Selected!Confused
    <3>1. /\ OBJ_PARKING' = OBJ_PARKING \o r.rows
          /\ MN_POSITION' = MN_POSITION /\ crossed' = crossed /\ OfList(r)
      BY <2>8 DEF AnswerList, OfList, Kinds
    <3>2. OBJ_PARKING \in Seq(Row) /\ r.rows \in Seq(Row)
      BY <2>0, RequestFields DEF TypeOK
    <3>3. Len(OBJ_PARKING) <= Len(OBJ_PARKING') /\ SubSeq(OBJ_PARKING', 1, Len(OBJ_PARKING)) = OBJ_PARKING
      BY <3>1, <3>2, Continued
    <3>4. ~crossed => \A i \in DOMAIN OBJ_PARKING' : TableOf(OBJ_PARKING'[i]) = KindOf(MN_POSITION)
      BY <3>1 DEF IInv, TabShowsItsRows, TableOf
    <3>5. ~crossed => OBJ_PARKING = <<>> \/ KindOf(MN_POSITION) \in {"visit"}
      BY <3>1, KindsOfTabs DEF OnceOnly
    <3>6. Pending
      BY <3>1 DEF Pending
    <3>7. KindOf(MN_POSITION)' = KindOf(MN_POSITION)
      BY <3>1
    <3>8. QED
      BY <3>1, <3>3, <3>4, <3>5, <3>6, <3>7 DEF Selected!Receive, Selected!Confused
  <2>9. QED
    BY <2>1, <2>2, <2>3, <2>4, <2>5, <2>6, <2>7, <2>8 DEF Next
<1>5. QED
  BY <1>1, <1>2, <1>3, <1>4, PTL DEF Spec, KeepsSelection, Selected!Spec
=============================================================================
