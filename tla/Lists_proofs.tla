---------------------------- MODULE Lists_proofs ----------------------------
(***************************************************************************)
(* Proofs about Lists: its types, what the lists show, where the label     *)
(* "no data" is, and that every screen's list implements SelectedList, for *)
(* any months and faults and any number of screens, sheets and requests.   *)
(***************************************************************************)
EXTENDS Lists, SequenceTheorems, WellFoundedInduction, TLAPS

(* Calls and parcels are put on the server; the screens above the main     *)
(* tabs are one.                                                           *)
PutKinds == {"elevator", "parcels"}

TopIsLast == top \in {0, Len(screens)}

SheetsHaveForm == \A i \in DOMAIN screens : screens[i].sheet # "none" => screens[i].form # 0

(* Only a sheet asks for companies or puts something; the server has at    *)
(* least what a request has seen and what it gave a number.                *)
RequestOK(r, scr, server) ==
    /\ r.op # "list" => scr[r.screen].form # 0
    /\ r.op = "put" => scr[r.screen].kind \in PutKinds /\ r.no <= server[scr[r.screen].kind]
    /\ r.op = "list" => r.seen <= server[scr[r.screen].kind]

RequestsInv == \A r \in inflight : RequestOK(r, screens, stored)

ToldInv ==
    \A kind \in Kinds : told[kind] <= stored[kind] /\ (kind \notin PutKinds => told[kind] = 0)

LastOf(kind, scr) ==
    CHOOSE i \in DOMAIN scr :
        /\ scr[i].kind = kind
        /\ \A j \in DOMAIN scr : scr[j].kind = kind => j <= i

(* A list that was not emptied over an unanswered request has at most one  *)
(* under way and is then empty; the request asks for what is selected, and *)
(* what the resident was told of was stored when it went out.  Otherwise   *)
(* the list is one answer.  The second tab of the bill asks for nothing.   *)
ScreenInv(i, s, scr, requests, known) ==
    ~s.crossed =>
        /\ \A r \in ListRequests(i, requests) :
             /\ s.rows = <<>> /\ r.sel = s.sel /\ ListRequests(i, requests) = {r}
             /\ i = LastOf(s.kind, scr) => known[s.kind] <= r.seen
        /\ s.kind = "bill" /\ s.sel.tab = 1 =>
             s.rows = <<>> /\ ListRequests(i, requests) = {}
        /\ s.rows # <<>> =>
             /\ OneAnswer(s)
             /\ i = LastOf(s.kind, scr) => known[s.kind] <= Len(s.rows)

ScreensInv == \A i \in DOMAIN screens : ScreenInv(i, screens[i], screens, inflight, told)

IInv ==
    /\ TypeOK /\ TopIsLast /\ SheetsHaveForm /\ RequestsInv /\ ToldInv /\ ScreensInv
    /\ NoDataIsTrue

-----------------------------------------------------------------------------
(* The screen of a kind made last.                                         *)
LEMMA LeastNatural ==
    ASSUME NEW T \in SUBSET Nat, T # {}
    PROVE  \E n \in T : \A m \in T : ~(m < n)
<1>1. PICK n \in T : \A m \in T : <<m, n>> \notin OpToRel(<, Nat)
  BY NatLessThanWellFounded, WFMin, Zenon
<1>2. ASSUME NEW m \in T, m < n PROVE FALSE
  <2>1. m \in Nat /\ n \in Nat
    OBVIOUS
  <2>2. <<m, n>> \in Nat \X Nat /\ <<m, n>>[1] = m /\ <<m, n>>[2] = n
    BY <2>1
  <2>3. <<m, n>> \in OpToRel(<, Nat)
    BY <1>2, <2>2, Zenon DEF OpToRel
  <2> QED BY <1>1, <2>3, Zenon
<1> QED BY <1>1, <1>2

IsLast(i, kind, scr) ==
    /\ i \in DOMAIN scr /\ scr[i].kind = kind
    /\ \A j \in DOMAIN scr : scr[j].kind = kind => j <= i

LEMMA LastExists ==
    ASSUME NEW scr, NEW n \in Nat, DOMAIN scr = 1 .. n, NEW i \in 1 .. n
    PROVE  IsLast(LastOf(scr[i].kind, scr), scr[i].kind, scr)
<1> DEFINE kind == scr[i].kind
           T == {m \in 0 .. n : n - m \in 1 .. n /\ scr[n - m].kind = kind}
<1>1. n - i \in T /\ T \in SUBSET Nat
  <2>1. n - i \in 0 .. n /\ n - (n - i) = i
    OBVIOUS
  <2> QED BY <2>1
<1>2. PICK m \in T : \A l \in T : ~(l < m)
  BY <1>1, LeastNatural
<1>3. IsLast(n - m, kind, scr)
  <2>1. n - m \in 1 .. n /\ scr[n - m].kind = kind /\ m \in 0 .. n
    BY <1>2
  <2>2. ASSUME NEW j \in 1 .. n, scr[j].kind = kind, ~(j <= n - m) PROVE FALSE
    <3>1. n - j \in 0 .. n /\ n - (n - j) = j /\ n - j < m
      BY <2>1, <2>2
    <3>2. n - j \in T
      BY <2>2, <3>1
    <3> QED BY <1>2, <3>1, <3>2
  <2> QED BY <2>1, <2>2 DEF IsLast
<1> HIDE DEF kind
<1>4. \E j \in DOMAIN scr :
        /\ scr[j].kind = kind
        /\ \A k \in DOMAIN scr : scr[k].kind = kind => k <= j
  BY <1>3 DEF IsLast
<1>5. IsLast(LastOf(kind, scr), kind, scr)
  BY <1>4, Zenon DEF LastOf, IsLast
<1> QED BY <1>5 DEF kind

LEMMA LastIsOne ==
    ASSUME NEW scr, NEW n \in Nat, DOMAIN scr = 1 .. n, NEW i, NEW j, NEW kind,
           IsLast(i, kind, scr), IsLast(j, kind, scr)
    PROVE  i = j
<1>1. i \in 1 .. n /\ j \in 1 .. n /\ i <= j /\ j <= i
  BY DEF IsLast
<1> QED BY <1>1

LEMMA LastIs ==
    ASSUME NEW scr, NEW n \in Nat, DOMAIN scr = 1 .. n, NEW i, NEW kind, IsLast(i, kind, scr)
    PROVE  i = LastOf(kind, scr)
<1>1. i \in 1 .. n /\ scr[i].kind = kind
  BY DEF IsLast
<1>2. IsLast(LastOf(kind, scr), kind, scr)
  BY <1>1, LastExists
<1> QED BY <1>2, LastIsOne

(* A screen that is the last of its kind was it before another was opened. *)
LEMMA LastKept ==
    ASSUME NEW n \in Nat, DOMAIN screens = 1 .. n, NEW n2 \in Nat, DOMAIN screens' = 1 .. n2,
           n <= n2, \A j \in 1 .. n : screens'[j].kind = screens[j].kind
    PROVE  \A i \in 1 .. n : \A kind :
               kind = screens[i].kind /\ i = LastOf(kind, screens') => i = LastOf(kind, screens)
<1> SUFFICES ASSUME NEW i \in 1 .. n, NEW kind, kind = screens[i].kind, i = LastOf(kind, screens')
             PROVE  i = LastOf(kind, screens)
  OBVIOUS
<1>1. i \in 1 .. n2 /\ screens'[i].kind = kind
  OBVIOUS
<1>2. IsLast(i, kind, screens')
  BY <1>1, LastExists
<1>3. \A j \in 1 .. n : j \in 1 .. n2
  OBVIOUS
<1>4. IsLast(i, kind, screens)
  BY <1>2, <1>3 DEF IsLast
<1> QED BY <1>4, LastIs

-----------------------------------------------------------------------------
(* One screen: it is touched, emptied, answered.                           *)
LEMMA ScreenKept ==
    ASSUME NEW i, NEW s, NEW t, NEW scr, NEW scr2, NEW requests, NEW requests2,
           NEW known, NEW known2,
           ScreenInv(i, s, scr, requests, known),
           t.kind = s.kind, t.rows = s.rows,
           ~t.crossed => /\ ~s.crossed
                         /\ \/ t.sel = s.sel
                            \/ s.kind = "bill" /\ s.sel.tab = 1 /\ t.sel.tab = 1,
           ListRequests(i, requests2) \subseteq ListRequests(i, requests),
           i = LastOf(s.kind, scr2) =>
               i = LastOf(s.kind, scr) /\ known2[s.kind] = known[s.kind]
    PROVE  ScreenInv(i, t, scr2, requests2, known2)
<1> SUFFICES ASSUME ~t.crossed PROVE ScreenInv(i, t, scr2, requests2, known2)
  BY DEF ScreenInv
<1> DEFINE old == ListRequests(i, requests)
           new == ListRequests(i, requests2)
<1>1. /\ \A r \in old :
           /\ s.rows = <<>> /\ r.sel = s.sel /\ old = {r}
           /\ i = LastOf(s.kind, scr) => known[s.kind] <= r.seen
      /\ s.kind = "bill" /\ s.sel.tab = 1 => s.rows = <<>> /\ old = {}
      /\ s.rows # <<>> =>
           /\ OneAnswer(s)
           /\ i = LastOf(s.kind, scr) => known[s.kind] <= Len(s.rows)
  BY DEF ScreenInv
<1>2. new \subseteq old
  OBVIOUS
<1> HIDE DEF old, new
<1>3. CASE t.sel = s.sel
  <2>1. OneAnswer(s) => OneAnswer(t)
    BY <1>3 DEF OneAnswer
  <2>2. \A r \in new : new = {r} /\ r \in old
    BY <1>1, <1>2
  <2> QED BY <1>1, <1>2, <1>3, <2>1, <2>2 DEF ScreenInv, new
<1>4. CASE s.kind = "bill" /\ s.sel.tab = 1 /\ t.sel.tab = 1
  <2>1. s.rows = <<>> /\ new = {}
    BY <1>1, <1>2, <1>4
  <2> QED BY <2>1 DEF ScreenInv, new
<1> QED BY <1>3, <1>4

LEMMA ScreenEmptied ==
    ASSUME NEW i, NEW t, NEW scr, NEW requests, NEW requests2, NEW known,
           t.rows = <<>>, ~t.crossed => ListRequests(i, requests) = {},
           \/ requests2 = requests
           \/ \E q : /\ requests2 = requests \cup {q}
                     /\ q.sel = t.sel /\ known[t.kind] <= q.seen
                     /\ ~(t.kind = "bill" /\ t.sel.tab = 1)
    PROVE  ScreenInv(i, t, scr, requests2, known)
<1> SUFFICES ASSUME ~t.crossed PROVE ScreenInv(i, t, scr, requests2, known)
  BY DEF ScreenInv
<1>1. CASE requests2 = requests
  BY <1>1 DEF ScreenInv
<1>2. ASSUME NEW q, requests2 = requests \cup {q}, q.sel = t.sel, known[t.kind] <= q.seen,
             ~(t.kind = "bill" /\ t.sel.tab = 1)
      PROVE  ScreenInv(i, t, scr, requests2, known)
  <2>1. ListRequests(i, requests2) \in {{}, {q}}
    BY <1>2 DEF ListRequests
  <2> QED BY <1>2, <2>1 DEF ScreenInv
<1> QED BY <1>1, <1>2

LEMMA ScreenAnswered ==
    ASSUME NEW i, NEW s, NEW t, NEW scr, NEW scr2, NEW requests, NEW known,
           ScreenInv(i, s, scr, requests, known), NEW r \in ListRequests(i, requests),
           t.kind = s.kind, t.sel = s.sel, t.crossed = s.crossed,
           ~s.crossed /\ t.rows # <<>> =>
               OneAnswer(t) /\ (known[s.kind] <= r.seen => known[s.kind] <= Len(t.rows)),
           i = LastOf(s.kind, scr2) => i = LastOf(s.kind, scr)
    PROVE  ScreenInv(i, t, scr2, requests \ {r}, known)
<1> SUFFICES ASSUME ~t.crossed PROVE ScreenInv(i, t, scr2, requests \ {r}, known)
  BY DEF ScreenInv
<1>1. /\ ListRequests(i, requests) = {r}
      /\ i = LastOf(s.kind, scr) => known[s.kind] <= r.seen
      /\ ~(s.kind = "bill" /\ s.sel.tab = 1)
  BY DEF ScreenInv
<1>2. ListRequests(i, requests \ {r}) = {}
  BY <1>1 DEF ListRequests
<1>3. t.rows # <<>> =>
        /\ OneAnswer(t)
        /\ i = LastOf(t.kind, scr2) => known[t.kind] <= Len(t.rows)
  BY <1>1
<1>4. ~(t.kind = "bill" /\ t.sel.tab = 1)
  BY <1>1
<1> QED BY <1>2, <1>3, <1>4, Zenon DEF ScreenInv

-----------------------------------------------------------------------------
(* Types.                                                                  *)
LEMMA ScreenFields ==
    ASSUME NEW s \in Screen
    PROVE  /\ s.kind \in Kinds /\ s.sel \in Selection /\ s.rows \in Seq(Row)
           /\ s.sheet \in {"none", "up", "asking"} /\ s.form \in Nat
           /\ s.companies \in BOOLEAN /\ s.crossed \in BOOLEAN /\ s.kept \in BOOLEAN
BY DEF Screen

LEMMA RequestFields ==
    ASSUME NEW r \in Request
    PROVE  /\ r.op \in {"list", "companies", "put"} /\ r.screen \in Nat /\ r.sel \in Selection
           /\ r.form \in Nat /\ r.seen \in Nat /\ r.no \in Nat /\ r.waiting \in BOOLEAN
BY DEF Request

LEMMA ScreensType ==
    ASSUME TypeOK
    PROVE  /\ Len(screens) \in Nat /\ DOMAIN screens = 1 .. Len(screens)
           /\ \A i \in DOMAIN screens : screens[i] \in Screen
BY LenProperties, ElementOfSeq DEF TypeOK

LEMMA NewRequestType ==
    ASSUME TypeOK, NEW op \in {"list", "companies", "put"}, NEW i \in Nat, NEW s \in Screen
    PROVE  /\ NewRequest(op, i, s) \in Request
           /\ NewRequest(op, i, s).op = op /\ NewRequest(op, i, s).screen = i
           /\ NewRequest(op, i, s).sel = s.sel /\ NewRequest(op, i, s).no = 0
           /\ NewRequest(op, i, s).seen = stored[s.kind]
BY ScreenFields DEF TypeOK, NewRequest, Request

(* One screen of the list replaced.                                        *)
LEMMA OneScreen ==
    ASSUME NEW scr \in Seq(Screen), NEW i \in 1 .. Len(scr), NEW t \in Screen
    PROVE  /\ [scr EXCEPT ![i] = t] \in Seq(Screen)
           /\ Len([scr EXCEPT ![i] = t]) = Len(scr)
           /\ [scr EXCEPT ![i] = t][i] = t
           /\ \A j \in 1 .. Len(scr) : j # i => [scr EXCEPT ![i] = t][j] = scr[j]
BY ExceptSeq

-----------------------------------------------------------------------------
(* What every step does: the invariant is kept, and the list of every      *)
(* screen is a list of what is selected, see SelectedList.                 *)
ListStep(i) == [Selected(i)!Next]_(Selected(i)!vars)

GoodStep == IInv' /\ \A i \in 1 .. MaxScreens : ListStep(i)

(* A screen keeps its list and what is selected, or is not opened yet; its *)
(* list is emptied; it loses its selection; it is answered.                *)
LEMMA ListKept ==
    ASSUME NEW i, ScreenNo(i).sel' = ScreenNo(i).sel, ScreenNo(i).rows' = ScreenNo(i).rows,
           ScreenNo(i).crossed' = ScreenNo(i).crossed
    PROVE  ListStep(i)
BY DEF ListStep, Selected!Next, Selected!Wait

LEMMA ListNotOpened ==
    ASSUME NEW i, i \notin DOMAIN screens, i \notin DOMAIN screens'
    PROVE  ListStep(i)
<1>1. ScreenNo(i)' = ScreenNo(i)
  BY DEF ScreenNo
<1> QED BY <1>1, ListKept

LEMMA ListEmptied ==
    ASSUME NEW i, ScreenNo(i).rows' = <<>>,
           ScreenNo(i).crossed' => ScreenNo(i).crossed \/ ListRequests(i, inflight) # {}
    PROVE  ListStep(i)
BY DEF ListStep, Selected!Next, Selected!Ask

LEMMA ListCrossed ==
    ASSUME NEW i, ScreenNo(i).rows' = ScreenNo(i).rows, ScreenNo(i).crossed'
    PROVE  ListStep(i)
BY DEF ListStep, Selected!Next, Selected!Cross

LEMMA ListAnswered ==
    ASSUME NEW i, ListRequests(i, inflight) # {},
           ScreenNo(i).sel' = ScreenNo(i).sel, ScreenNo(i).crossed' = ScreenNo(i).crossed,
           ~ScreenNo(i).crossed =>
               /\ ScreenNo(i).rows = <<>> /\ ScreenNo(i).rows' \in Seq(Row)
               /\ \A j \in DOMAIN ScreenNo(i).rows' :
                    ScreenNo(i).rows'[j].sel = ScreenNo(i).sel
    PROVE  ListStep(i)
<1>1. CASE ScreenNo(i).crossed
  BY <1>1 DEF ListStep, Selected!Next, Selected!Confused
<1>2. CASE ~ScreenNo(i).crossed
  <2>1. /\ Len(ScreenNo(i).rows) <= Len(ScreenNo(i).rows')
        /\ SubSeq(ScreenNo(i).rows', 1, Len(ScreenNo(i).rows)) = ScreenNo(i).rows
    <3> DEFINE rows == ScreenNo(i).rows'
    <3>1. rows \in Seq(Row) /\ Len(rows) \in Nat
      BY <1>2, LenProperties
    <3> HIDE DEF rows
    <3>2. Len(rows) >= 0 /\ SubSeq(rows, 1, 0) = <<>>
      BY <3>1
    <3> QED BY <1>2, <3>2 DEF rows
  <2>2. Selected(i)!Receive
    BY <1>2, <2>1 DEF Selected!Receive, SelectionOf
  <2> QED BY <2>2 DEF ListStep, Selected!Next
<1> QED BY <1>1, <1>2

-----------------------------------------------------------------------------
(* A step that leaves the rows of every screen alone.                      *)
LEMMA TouchedInv ==
    ASSUME IInv, screens' \in Seq(Screen), Len(screens') = Len(screens),
           \A i \in DOMAIN screens :
               /\ screens'[i].kind = screens[i].kind /\ screens'[i].rows = screens[i].rows
               /\ screens[i].form # 0 => screens'[i].form # 0
               /\ screens'[i].sheet # "none" => screens'[i].form # 0
               /\ screens[i].kept => screens'[i].kept
               /\ ~screens'[i].crossed =>
                    /\ ~screens[i].crossed
                    /\ \/ screens'[i].sel = screens[i].sel
                       \/ /\ screens[i].kind = "bill"
                          /\ screens[i].sel.tab = 1 /\ screens'[i].sel.tab = 1,
           top' \in {0, Len(screens)},
           \/ NODATA_L' \in {NODATA_L, Nowhere}
           \/ \E i \in DOMAIN screens : NODATA_L' = [screen |-> i, view |-> "form"]
           \/ \E i \in DOMAIN screens :
                 NODATA_L' = [screen |-> i, view |-> "list"] /\ screens'[i].kept,
           Len(screens) = 1 /\ screens'[1].form = 0 =>
               \/ NODATA_L' = NODATA_L /\ screens[1].form = 0
               \/ NODATA_L' = [screen |-> 1, view |-> "list"],
           inflight' \subseteq Request,
           \A r \in inflight' :
               /\ r.screen \in DOMAIN screens
               /\ r \in inflight \/ (r.op # "list" /\ RequestOK(r, screens', stored')),
           sent' \in Nat, crashed' \in BOOLEAN, told' = told,
           stored' \in [Kinds -> Nat], \A kind \in Kinds : stored[kind] <= stored'[kind]
    PROVE  GoodStep
<1>1. TypeOK /\ TypeOK'
  <2>1. DOMAIN screens' = DOMAIN screens
    BY LenProperties DEF IInv, TypeOK
  <2>2. top' \in 0 .. Len(screens')
    BY ScreensType DEF IInv
  <2>3. NODATA_L' = Nowhere
            \/ NODATA_L' \in [screen : DOMAIN screens, view : {"list", "form"}]
    BY DEF IInv, TypeOK
  <2> QED BY <2>1, <2>2, <2>3 DEF IInv, TypeOK
<1>2. /\ Len(screens) \in Nat /\ DOMAIN screens = 1 .. Len(screens)
      /\ DOMAIN screens' = 1 .. Len(screens) /\ DOMAIN screens' = DOMAIN screens
      /\ \A i \in DOMAIN screens : screens[i] \in Screen
  BY <1>1, ScreensType, LenProperties
<1>3. TopIsLast' /\ SheetsHaveForm'
  BY <1>2 DEF TopIsLast, SheetsHaveForm
<1>4. RequestsInv'
  <2> SUFFICES ASSUME NEW r \in inflight' PROVE RequestOK(r, screens', stored')
    BY DEF RequestsInv
  <2>1. CASE r \in inflight
    <3>1. RequestOK(r, screens, stored) /\ r.screen \in DOMAIN screens /\ r \in Request
      BY <2>1 DEF IInv, RequestsInv
    <3> DEFINE s == screens[r.screen]
    <3>2. s.kind \in Kinds /\ screens'[r.screen].kind = s.kind
      BY <1>2, <3>1, ScreenFields
    <3>3. /\ stored[s.kind] <= stored'[s.kind] /\ stored[s.kind] \in Nat
          /\ stored'[s.kind] \in Nat
      BY <1>1, <3>2 DEF TypeOK
    <3>4. r.seen \in Nat /\ r.no \in Nat
      BY <3>1, RequestFields
    <3> QED BY <3>1, <3>2, <3>3, <3>4 DEF RequestOK
  <2> QED BY <2>1
<1>5. ToldInv'
  <2> SUFFICES ASSUME NEW kind \in Kinds
               PROVE  told[kind] <= stored'[kind] /\ (kind \notin PutKinds => told[kind] = 0)
    BY DEF ToldInv
  <2>1. told[kind] \in Nat /\ stored[kind] \in Nat /\ stored'[kind] \in Nat
    BY <1>1 DEF TypeOK
  <2> QED BY <2>1 DEF IInv, ToldInv
<1>6. ScreensInv'
  <2> SUFFICES ASSUME NEW i \in DOMAIN screens
               PROVE  ScreenInv(i, screens'[i], screens', inflight', told')
    BY <1>2 DEF ScreensInv
  <2> DEFINE s == screens[i]
             t == screens'[i]
  <2>1. ScreenInv(i, s, screens, inflight, told)
    BY DEF IInv, ScreensInv
  <2>2. ListRequests(i, inflight') \subseteq ListRequests(i, inflight)
    BY DEF ListRequests
  <2>3. i = LastOf(s.kind, screens') => i = LastOf(s.kind, screens)
    <3> DEFINE n == Len(screens)
    <3>1. /\ n \in Nat /\ n <= n /\ i \in 1 .. n
          /\ DOMAIN screens = 1 .. n /\ DOMAIN screens' = 1 .. n
          /\ \A j \in 1 .. n : screens'[j].kind = screens[j].kind
      BY <1>2
    <3> HIDE DEF n
    <3> QED BY <3>1, LastKept
  <2>4. /\ t.kind = s.kind /\ t.rows = s.rows
        /\ ~t.crossed => /\ ~s.crossed
                         /\ \/ t.sel = s.sel
                            \/ s.kind = "bill" /\ s.sel.tab = 1 /\ t.sel.tab = 1
    OBVIOUS
  <2> HIDE DEF s, t
  <2>5. ScreenInv(i, t, screens', inflight', told')
    BY <2>1, <2>2, <2>3, <2>4, ScreenKept
  <2> QED BY <2>5 DEF t
<1>7. NoDataIsTrue'
  <2>1. ASSUME NEW i \in DOMAIN screens', NODATA_L' = [screen |-> i, view |-> "list"]
        PROVE  screens'[i].rows = <<>> \/ screens'[i].kept
    <3>1. CASE NODATA_L' = NODATA_L
      BY <1>2, <2>1, <3>1 DEF IInv, NoDataIsTrue
    <3>2. NODATA_L' # Nowhere /\ \A j : NODATA_L' # [screen |-> j, view |-> "form"]
      <4>1. NODATA_L'.view = "list"
        BY <2>1
      <4> QED BY <4>1 DEF Nowhere
    <3>3. ASSUME NEW j \in DOMAIN screens, NODATA_L' = [screen |-> j, view |-> "list"],
                 screens'[j].kept
          PROVE  screens'[i].kept
      <4>1. i = j
        <5>1. NODATA_L'.screen = i /\ NODATA_L'.screen = j
          BY <2>1, <3>3
        <5> QED BY <5>1
      <4> QED BY <3>3, <4>1
    <3> QED BY <3>1, <3>2, <3>3
  <2>2. ASSUME Len(screens') = 1, screens'[1].form = 0, screens'[1].rows = <<>>
        PROVE  NODATA_L' = [screen |-> 1, view |-> "list"]
    <3>1. 1 \in DOMAIN screens /\ Len(screens) = 1 /\ screens[1].rows = <<>>
      BY <1>2, <2>2
    <3> QED BY <2>2, <3>1 DEF IInv, NoDataIsTrue
  <2> QED BY <2>1, <2>2 DEF NoDataIsTrue
<1>8. ASSUME NEW i \in 1 .. MaxScreens PROVE ListStep(i)
  <2>1. CASE i \notin DOMAIN screens
    BY <1>2, <2>1, ListNotOpened
  <2>2. CASE i \in DOMAIN screens
    <3> DEFINE s == screens[i]
               t == screens'[i]
    <3>1. ScreenNo(i) = s /\ ScreenNo(i)' = t
      BY <1>2, <2>2 DEF ScreenNo
    <3>2. /\ t.rows = s.rows /\ s.crossed \in BOOLEAN /\ t.crossed \in BOOLEAN
          /\ ~t.crossed => /\ ~s.crossed
                           /\ \/ t.sel = s.sel
                              \/ s.kind = "bill" /\ s.sel.tab = 1
      <4>1. t \in Screen
        BY <1>1, <1>2, <2>2, ElementOfSeq DEF TypeOK
      <4> QED BY <1>2, <2>2, <4>1, ScreenFields
    <3>3. ScreenInv(i, s, screens, inflight, told)
      BY <2>2 DEF IInv, ScreensInv
    <3> HIDE DEF s, t
    <3>4. CASE t.crossed
      BY <3>1, <3>2, <3>4, ListCrossed
    <3>5. CASE ~t.crossed /\ t.sel = s.sel
      BY <3>1, <3>2, <3>5, ListKept
    <3>6. CASE ~t.crossed /\ s.kind = "bill" /\ s.sel.tab = 1
      <4>1. s.rows = <<>>
        BY <3>2, <3>3, <3>6 DEF ScreenInv
      <4> QED BY <3>1, <3>2, <3>6, <4>1, ListEmptied
    <3> QED BY <3>2, <3>4, <3>5, <3>6
  <2> QED BY <2>1, <2>2
<1> QED BY <1>1, <1>3, <1>4, <1>5, <1>6, <1>7, <1>8 DEF GoodStep, IInv

(* A step that empties the list of screen i, with or without a request.    *)
LEMMA LoadedInv ==
    ASSUME IInv, screens' \in Seq(Screen), NEW i \in 1 .. Len(screens'),
           \/ Len(screens') = Len(screens)
           \/ Len(screens') = Len(screens) + 1 /\ i = Len(screens'),
           \A j \in DOMAIN screens :
               /\ screens'[j].kind = screens[j].kind /\ screens'[j].form = screens[j].form
               /\ j # i =>
                    /\ screens'[j].rows = screens[j].rows /\ screens'[j].sel = screens[j].sel
                    /\ screens'[j].crossed = screens[j].crossed
                    /\ screens'[j].kept = screens[j].kept,
           \A j \in 1 .. Len(screens') : screens'[j].sheet # "none" => screens'[j].form # 0,
           screens'[i].rows = <<>>,
           NEW requests \in SUBSET inflight,
           screens'[i].crossed <=> ListRequests(i, requests) # {},
           \/ inflight' = requests
           \/ \E q \in Request :
                 /\ inflight' = requests \cup {q}
                 /\ q.op = "list" /\ q.screen = i /\ q.sel = screens'[i].sel
                 /\ q.seen = stored[screens'[i].kind]
                 /\ ~(screens'[i].kind = "bill" /\ screens'[i].sel.tab = 1),
           NODATA_L' = [screen |-> i, view |-> "list"],
           top' \in {0, Len(screens')}, sent' \in Nat, crashed' \in BOOLEAN, stored' = stored,
           told' \in [Kinds -> Nat],
           \A kind \in Kinds :
               /\ told'[kind] <= stored[kind]
               /\ kind \notin PutKinds => told'[kind] = 0
               /\ told'[kind] = told[kind] \/ i = LastOf(kind, screens')
    PROVE  GoodStep
<1>1. TypeOK
  BY DEF IInv
<1> DEFINE n == Len(screens)
           n2 == Len(screens')
<1>2. /\ n \in Nat /\ DOMAIN screens = 1 .. n /\ \A j \in 1 .. n : screens[j] \in Screen
      /\ n2 \in Nat /\ DOMAIN screens' = 1 .. n2 /\ \A j \in 1 .. n2 : screens'[j] \in Screen
  BY <1>1, ScreensType, LenProperties, ElementOfSeq
<1>a. (n2 = n \/ (n2 = n + 1 /\ i = n2)) /\ i \in 1 .. n2
  OBVIOUS
<1>b. top' \in {0, n2}
  OBVIOUS
<1> HIDE DEF n, n2
<1>3. n <= n2 /\ (n2 = n \/ (n2 = n + 1 /\ i = n2)) /\ \A j \in 1 .. n : j \in 1 .. n2
  BY <1>2, <1>a, SMTT(30)
<1>4. i \in 1 .. n2 /\ \A j \in 1 .. n2 : j # i => j \in 1 .. n
  BY <1>2, <1>a, SMTT(30)
<1>c. \A j \in 1 .. n : \A kind :
        kind = screens[j].kind /\ j = LastOf(kind, screens') => j = LastOf(kind, screens)
  <2>1. \A j \in 1 .. n : screens'[j].kind = screens[j].kind
    BY <1>2
  <2> QED BY <1>2, <1>3, <2>1, LastKept
<1>5. \A r \in inflight' : \/ r \in requests
                           \/ /\ r \in Request /\ r.op = "list" /\ r.screen = i
                              /\ r.seen = stored[screens'[i].kind]
  OBVIOUS
<1>6. TypeOK'
  <2>1. inflight' \subseteq Request /\ \A r \in inflight' : r.screen \in DOMAIN screens'
    BY <1>1, <1>2, <1>3, <1>4, <1>5 DEF TypeOK
  <2>2. top' \in 0 .. Len(screens')
    <3>1. top' \in 0 .. n2
      BY <1>2, <1>b
    <3> QED BY <3>1 DEF n2
  <2>3. NODATA_L' \in [screen : DOMAIN screens', view : {"list", "form"}]
    BY <1>2, <1>4
  <2>4. stored' \in [Kinds -> Nat]
    BY <1>1 DEF TypeOK
  <2> QED BY <2>1, <2>2, <2>3, <2>4 DEF TypeOK
<1>7. TopIsLast' /\ SheetsHaveForm'
  BY <1>2 DEF TopIsLast, SheetsHaveForm, n2
<1>8. RequestsInv'
  <2> SUFFICES ASSUME NEW r \in inflight' PROVE RequestOK(r, screens', stored)
    BY DEF RequestsInv
  <2>1. CASE r \in requests
    <3>1. RequestOK(r, screens, stored) /\ r.screen \in DOMAIN screens
      BY <1>1, <2>1 DEF IInv, RequestsInv, TypeOK
    <3>2. /\ screens'[r.screen].kind = screens[r.screen].kind
          /\ screens'[r.screen].form = screens[r.screen].form
      BY <3>1
    <3> QED BY <3>1, <3>2 DEF RequestOK
  <2>2. CASE r \notin requests
    <3>1. r.op = "list" /\ r.screen = i /\ r.seen = stored[screens'[i].kind]
      BY <1>5, <2>2
    <3>2. stored[screens'[i].kind] \in Nat
      BY <1>1, <1>2, <1>4, ScreenFields DEF TypeOK
    <3> QED BY <3>1, <3>2 DEF RequestOK
  <2> QED BY <2>1, <2>2
<1>9. ToldInv'
  BY DEF ToldInv
<1>10. ScreensInv'
  <2> SUFFICES ASSUME NEW j \in 1 .. n2
               PROVE  ScreenInv(j, screens'[j], screens', inflight', told')
    BY <1>2 DEF ScreensInv
  <2>1. CASE j = i
    <3> DEFINE t == screens'[i]
    <3>1. t.rows = <<>> /\ (~t.crossed => ListRequests(i, requests) = {})
      OBVIOUS
    <3>2. t.kind \in Kinds /\ told'[t.kind] <= stored[t.kind]
      BY <1>2, <1>4, ScreenFields
    <3>3. \/ inflight' = requests
          \/ \E q : /\ inflight' = requests \cup {q}
                    /\ q.sel = t.sel /\ told'[t.kind] <= q.seen
                    /\ ~(t.kind = "bill" /\ t.sel.tab = 1)
      BY <3>2
    <3> HIDE DEF t
    <3>4. ScreenInv(i, t, screens', inflight', told')
      BY <3>1, <3>3, ScreenEmptied
    <3> QED BY <2>1, <3>4 DEF t
  <2>2. CASE j # i
    <3> DEFINE s == screens[j]
               t == screens'[j]
    <3>1. j \in 1 .. n /\ j \in DOMAIN screens
      BY <1>2, <1>4, <2>2
    <3>2. ScreenInv(j, s, screens, inflight, told)
      BY <3>1 DEF IInv, ScreensInv
    <3>3. t.kind = s.kind /\ t.rows = s.rows /\ t.sel = s.sel /\ t.crossed = s.crossed
      BY <2>2, <3>1
    <3>4. ListRequests(j, inflight') \subseteq ListRequests(j, inflight)
      BY <1>5, <2>2 DEF ListRequests
    <3>5. j = LastOf(s.kind, screens') => j = LastOf(s.kind, screens)
      BY <1>c, <3>1
    <3>6. j = LastOf(s.kind, screens') => told'[s.kind] = told[s.kind]
      <4>1. s.kind \in Kinds
        BY <1>2, <3>1, ScreenFields
      <4> QED BY <2>2, <4>1
    <3> HIDE DEF s, t
    <3>7. ScreenInv(j, t, screens', inflight', told')
      BY <3>2, <3>3, <3>4, <3>5, <3>6, ScreenKept
    <3> QED BY <3>7 DEF t
  <2> QED BY <2>1, <2>2
<1>11. NoDataIsTrue'
  <2>1. ASSUME NEW j \in DOMAIN screens', NODATA_L' = [screen |-> j, view |-> "list"]
        PROVE  screens'[j].rows = <<>>
    <3>1. NODATA_L'.screen = j /\ NODATA_L'.screen = i
      BY <2>1
    <3> QED BY <3>1
  <2>2. ASSUME Len(screens') = 1 PROVE NODATA_L' = [screen |-> 1, view |-> "list"]
    <3>1. i = 1
      BY <1>2, <1>4, <2>2 DEF n2
    <3> QED BY <3>1
  <2> QED BY <2>1, <2>2 DEF NoDataIsTrue
<1>12. ASSUME NEW j \in 1 .. MaxScreens PROVE ListStep(j)
  <2>1. CASE j \notin 1 .. n2
    BY <1>2, <1>3, <2>1, ListNotOpened
  <2>2. CASE j = i
    <3>1. ScreenNo(i)' = screens'[i]
      BY <1>2, <1>4 DEF ScreenNo
    <3>2. ListRequests(i, requests) \subseteq ListRequests(i, inflight)
      BY DEF ListRequests
    <3>3. ListRequests(i, requests) # {} => ListRequests(i, inflight) # {}
      BY <3>2
    <3> QED BY <2>2, <3>1, <3>3, ListEmptied
  <2>3. CASE j \in 1 .. n2 /\ j # i
    <3>1. j \in 1 .. n /\ j \in DOMAIN screens
      BY <1>2, <1>4, <2>3
    <3>2. ScreenNo(j)' = screens'[j] /\ ScreenNo(j) = screens[j]
      BY <1>2, <2>3, <3>1 DEF ScreenNo
    <3>3. /\ screens'[j].rows = screens[j].rows /\ screens'[j].sel = screens[j].sel
          /\ screens'[j].crossed = screens[j].crossed
      BY <2>3, <3>1
    <3> QED BY <3>2, <3>3, ListKept
  <2> QED BY <2>1, <2>2, <2>3
<1> QED BY <1>6, <1>7, <1>8, <1>9, <1>10, <1>11, <1>12 DEF GoodStep, IInv

(* An answer that changes the rows of the screen it is of.                 *)
LEMMA AnsweredInv ==
    ASSUME IInv, NEW r \in inflight, NEW kind, NEW rows \in Seq(Row), Answered(r, kind, rows),
           crashed' \in BOOLEAN,
           rows = <<>> => screens[r.screen].rows = <<>>,
           ~screens[r.screen].crossed /\ rows # <<>> =>
               /\ OneAnswer([screens[r.screen] EXCEPT !.rows = rows])
               /\ told[kind] <= r.seen => told[kind] <= Len(rows)
    PROVE  GoodStep
<1>1. TypeOK
  BY DEF IInv
<1> DEFINE n == Len(screens)
           i == r.screen
           s == screens[i]
           t == [s EXCEPT !.rows = rows]
<1>2. n \in Nat /\ DOMAIN screens = 1 .. n /\ \A j \in 1 .. n : screens[j] \in Screen
  BY <1>1, ScreensType
<1>3. r \in Request /\ r.op = "list" /\ i \in 1 .. n /\ s.kind = kind
  BY <1>1, <1>2 DEF TypeOK, Answered
<1>4. s \in Screen
  BY <1>2, <1>3
<1>5. /\ t \in Screen /\ t.rows = rows /\ t.kind = s.kind /\ t.sel = s.sel /\ t.sheet = s.sheet
      /\ t.form = s.form /\ t.crossed = s.crossed /\ t.kept = s.kept
  BY <1>4 DEF Screen
<1>6. /\ screens' = [screens EXCEPT ![i] = t] /\ inflight' = inflight \ {r}
      /\ NODATA_L' = (IF rows # <<>> THEN Nowhere ELSE NODATA_L)
      /\ UNCHANGED <<top, sent, stored, told>>
  BY DEF Answered, Shown
<1> HIDE DEF t
<1>7. /\ screens' \in Seq(Screen) /\ Len(screens') = n /\ screens'[i] = t
      /\ \A j \in 1 .. n : j # i => screens'[j] = screens[j]
  BY <1>1, <1>3, <1>5, <1>6, OneScreen DEF TypeOK
<1>8. DOMAIN screens' = 1 .. n
  BY <1>7, LenProperties
<1> HIDE DEF n, i, s
<1>9. \A j \in 1 .. n :
        /\ screens'[j].kind = screens[j].kind /\ screens'[j].form = screens[j].form
        /\ screens'[j].sheet = screens[j].sheet /\ screens'[j].kept = screens[j].kept
  BY <1>3, <1>5, <1>7 DEF s
<1>10. TypeOK'
  <2>1. top' \in 0 .. Len(screens')
    BY <1>1, <1>6, <1>7 DEF TypeOK, n
  <2>2. \/ NODATA_L' = Nowhere
        \/ NODATA_L' \in [screen : DOMAIN screens', view : {"list", "form"}]
    BY <1>1, <1>2, <1>6, <1>8 DEF TypeOK
  <2>3. inflight' \subseteq Request /\ \A q \in inflight' : q.screen \in DOMAIN screens'
    BY <1>1, <1>2, <1>6, <1>8 DEF TypeOK
  <2> QED BY <1>1, <1>6, <1>7, <2>1, <2>2, <2>3 DEF TypeOK
<1>11. TopIsLast' /\ SheetsHaveForm'
  BY <1>2, <1>6, <1>7, <1>8, <1>9 DEF IInv, TopIsLast, SheetsHaveForm, n
<1>12. RequestsInv'
  <2> SUFFICES ASSUME NEW q \in inflight' PROVE RequestOK(q, screens', stored)
    BY <1>6 DEF RequestsInv
  <2>1. RequestOK(q, screens, stored) /\ q.screen \in 1 .. n
    BY <1>1, <1>2, <1>6 DEF IInv, RequestsInv, TypeOK
  <2> QED BY <1>9, <2>1 DEF RequestOK
<1>13. ToldInv'
  BY <1>6 DEF IInv, ToldInv
<1>14. ScreensInv'
  <2> SUFFICES ASSUME NEW j \in 1 .. n
               PROVE  ScreenInv(j, screens'[j], screens', inflight \ {r}, told)
    BY <1>6, <1>8 DEF ScreensInv
  <2>1. ScreenInv(j, screens[j], screens, inflight, told)
    BY <1>2 DEF IInv, ScreensInv
  <2>2. j = LastOf(screens[j].kind, screens') => j = LastOf(screens[j].kind, screens)
    <3>1. n <= n /\ \A k \in 1 .. n : screens'[k].kind = screens[k].kind
      BY <1>2, <1>9
    <3> QED BY <1>2, <1>8, <3>1, LastKept
  <2>3. CASE j = i
    <3>1. r \in ListRequests(i, inflight)
      BY <1>3 DEF ListRequests, i
    <3>2. ~s.crossed /\ rows # <<>> =>
              OneAnswer(t) /\ (told[kind] <= r.seen => told[kind] <= Len(rows))
      BY DEF t, s, i
    <3>3. ScreenInv(i, s, screens, inflight, told)
      BY <2>1, <2>3 DEF s
    <3>4. i = LastOf(s.kind, screens') => i = LastOf(s.kind, screens)
      BY <2>2, <2>3 DEF s
    <3>5. ScreenInv(i, t, screens', inflight \ {r}, told)
      BY <1>3, <1>5, <3>1, <3>2, <3>3, <3>4, ScreenAnswered
    <3> QED BY <1>7, <2>3, <3>5
  <2>4. CASE j # i
    <3>1. screens'[j] = screens[j]
      BY <1>7, <2>4
    <3>2. ListRequests(j, inflight \ {r}) \subseteq ListRequests(j, inflight)
      BY DEF ListRequests
    <3>3. ScreenInv(j, screens[j], screens', inflight \ {r}, told)
      BY <2>1, <2>2, <3>2, ScreenKept
    <3> QED BY <3>1, <3>3
  <2> QED BY <2>3, <2>4
<1>15. NoDataIsTrue'
  <2>1. ASSUME NEW j \in 1 .. n, NODATA_L' = [screen |-> j, view |-> "list"]
        PROVE  screens'[j].rows = <<>> \/ screens'[j].kept
    <3>1. rows = <<>> /\ NODATA_L' = NODATA_L
      <4>1. NODATA_L' # Nowhere
        <5>1. NODATA_L'.view = "list"
          BY <2>1
        <5> QED BY <5>1 DEF Nowhere
      <4> QED BY <1>6, <4>1
    <3>2. CASE j = i
      BY <1>5, <1>7, <3>1, <3>2
    <3>3. CASE j # i
      BY <1>2, <1>7, <2>1, <3>1, <3>3 DEF IInv, NoDataIsTrue
    <3> QED BY <3>2, <3>3
  <2>2. ASSUME n = 1, screens'[1].form = 0, screens'[1].rows = <<>>
        PROVE  NODATA_L' = [screen |-> 1, view |-> "list"]
    <3>1. i = 1 /\ rows = <<>> /\ screens[1].rows = <<>> /\ screens[1].form = 0
      <4>1. i = 1
        BY <1>3, <2>2
      <4>2. rows = <<>>
        BY <1>5, <1>7, <2>2, <4>1
      <4> QED BY <1>9, <2>2, <4>1, <4>2 DEF i
    <3> QED BY <1>6, <2>2, <3>1 DEF IInv, NoDataIsTrue, n
  <2> QED BY <1>7, <1>8, <2>1, <2>2 DEF NoDataIsTrue
<1>16. ASSUME NEW j \in 1 .. MaxScreens PROVE ListStep(j)
  <2>1. CASE j \notin 1 .. n
    BY <1>2, <1>8, <2>1, ListNotOpened
  <2>2. CASE j = i
    <3>1. ScreenNo(i) = s /\ ScreenNo(i)' = t
      BY <1>2, <1>3, <1>7, <1>8 DEF ScreenNo, s
    <3>2. r \in ListRequests(i, inflight)
      BY <1>3 DEF ListRequests, i
    <3>3. ~s.crossed => s.rows = <<>>
      <4>1. ScreenInv(i, s, screens, inflight, told)
        BY <1>2, <1>3 DEF IInv, ScreensInv, s
      <4> QED BY <3>2, <4>1 DEF ScreenInv
    <3>4. ~s.crossed => \A k \in DOMAIN rows : rows[k].sel = s.sel
      <4>1. CASE rows = <<>>
        BY <4>1
      <4>2. CASE rows # <<>>
        <5>1. ~s.crossed => OneAnswer(t)
          BY <4>2 DEF t, s, i
        <5> QED BY <1>5, <5>1 DEF OneAnswer
      <4> QED BY <4>1, <4>2
    <3>5. t.rows \in Seq(Row) /\ t.sel = s.sel /\ t.crossed = s.crossed /\ t.rows = rows
      BY <1>5
    <3> QED BY <2>2, <3>1, <3>2, <3>3, <3>4, <3>5, ListAnswered
  <2>3. CASE j \in 1 .. n /\ j # i
    <3>1. ScreenNo(j)' = ScreenNo(j)
      BY <1>2, <1>7, <1>8, <2>3 DEF ScreenNo
    <3> QED BY <3>1, ListKept
  <2> QED BY <2>1, <2>2, <2>3
<1> QED BY <1>10, <1>11, <1>12, <1>13, <1>14, <1>15, <1>16 DEF GoodStep, IInv

LEMMA InRange == ASSUME NEW n \in Nat, NEW i \in 1 .. n PROVE i \in Nat
OBVIOUS

LEMMA InLonger ==
    ASSUME NEW n \in Nat, NEW m \in Nat, m = n \/ m = n + 1
    PROVE  \A j \in 1 .. n : j \in 1 .. m
OBVIOUS

(* GET_EXPENESE_L1 and its likes, on screen i of scr.                      *)
LEMMA GETInv ==
    ASSUME IInv, NEW scr \in Seq(Screen), NEW i \in 1 .. Len(scr),
           NEW requests \in SUBSET inflight, GET(i, scr, requests),
           \/ Len(scr) = Len(screens)
           \/ Len(scr) = Len(screens) + 1 /\ i = Len(scr),
           \A j \in DOMAIN screens :
               /\ scr[j].kind = screens[j].kind /\ scr[j].form = screens[j].form
               /\ j # i =>
                    /\ scr[j].rows = screens[j].rows /\ scr[j].sel = screens[j].sel
                    /\ scr[j].crossed = screens[j].crossed /\ scr[j].kept = screens[j].kept,
           \A j \in 1 .. Len(scr) : scr[j].sheet # "none" => scr[j].form # 0,
           ~(scr[i].kind = "bill" /\ scr[i].sel.tab = 1),
           top' \in {0, Len(scr)}, crashed' \in BOOLEAN, stored' = stored,
           told' \in [Kinds -> Nat],
           \A kind \in Kinds :
               /\ told'[kind] <= stored[kind]
               /\ kind \notin PutKinds => told'[kind] = 0
               /\ told'[kind] = told[kind] \/ i = LastOf(kind, scr)
    PROVE  GoodStep
<1> DEFINE crossed == ListRequests(i, requests) # {}
           t == [scr[i] EXCEPT !.rows = <<>>, !.kept = FALSE, !.crossed = crossed]
           q == NewRequest("list", i, scr[i])
<1>1. Len(scr) \in Nat /\ DOMAIN scr = 1 .. Len(scr) /\ \A j \in 1 .. Len(scr) : scr[j] \in Screen
  BY LenProperties, ElementOfSeq
<1>2. scr[i] \in Screen /\ i \in Nat /\ crossed \in BOOLEAN /\ <<>> \in Seq(Row)
  <2>1. crossed \in BOOLEAN /\ <<>> \in Seq(Row)
    OBVIOUS
  <2>2. scr[i] \in Screen
    BY <1>1, Zenon
  <2>3. i \in Nat
    BY <1>1, InRange
  <2> QED BY <2>1, <2>2, <2>3
<1>3. /\ t \in Screen /\ t.kind = scr[i].kind /\ t.sel = scr[i].sel /\ t.rows = <<>>
      /\ t.sheet = scr[i].sheet /\ t.form = scr[i].form /\ (t.crossed <=> crossed)
  <2> HIDE DEF crossed
  <2> QED BY <1>2 DEF Screen
<1>4. screens' = [scr EXCEPT ![i] = t]
  BY DEF GET
<1>5. NODATA_L' = [screen |-> i, view |-> "list"]
  BY DEF GET, NODATA
<1>6. \/ inflight' = requests /\ sent' = sent
      \/ inflight' = requests \cup {q} /\ sent' = sent + 1
  BY DEF GET
<1>7. /\ q \in Request /\ q.op = "list" /\ q.screen = i /\ q.sel = t.sel
      /\ q.seen = stored[t.kind]
  <2>1. TypeOK
    BY DEF IInv
  <2> HIDE DEF t
  <2>2. /\ q \in Request /\ q.op = "list" /\ q.screen = i /\ q.sel = scr[i].sel
        /\ q.seen = stored[scr[i].kind]
    BY <1>2, <2>1, NewRequestType
  <2> HIDE DEF q
  <2> QED BY <1>3, <2>2
<1>8. sent' \in Nat
  BY <1>6 DEF IInv, TypeOK
<1> HIDE DEF t, q
<1>9. /\ screens' \in Seq(Screen) /\ Len(screens') = Len(scr) /\ screens'[i] = t
      /\ \A j \in 1 .. Len(scr) : j # i => screens'[j] = scr[j]
  BY <1>3, <1>4, OneScreen
<1>10. \A j \in 1 .. Len(scr) :
         /\ screens'[j].kind = scr[j].kind /\ screens'[j].form = scr[j].form
         /\ screens'[j].sheet = scr[j].sheet
  BY <1>3, <1>9
<1>11. \A j \in DOMAIN screens : j \in 1 .. Len(scr)
  <2>1. Len(screens) \in Nat /\ DOMAIN screens = 1 .. Len(screens)
    BY ScreensType DEF IInv
  <2>2. Len(scr) = Len(screens) \/ Len(scr) = Len(screens) + 1
    OBVIOUS
  <2> QED BY <1>1, <2>1, <2>2, InLonger
<1>12. \A kind \in Kinds : i = LastOf(kind, scr) => i = LastOf(kind, screens')
  <2> SUFFICES ASSUME NEW kind \in Kinds, i = LastOf(kind, scr) PROVE i = LastOf(kind, screens')
    OBVIOUS
  <2>1. DOMAIN screens' = DOMAIN scr
    BY <1>1, <1>9, LenProperties
  <2>2. \A j : (/\ j \in DOMAIN scr /\ scr[j].kind = kind
                /\ \A k \in DOMAIN scr : scr[k].kind = kind => k <= j)
           <=> (/\ j \in DOMAIN screens' /\ screens'[j].kind = kind
                /\ \A k \in DOMAIN screens' : screens'[k].kind = kind => k <= j)
    BY <1>1, <1>10, <2>1
  <2>3. LastOf(kind, screens') = LastOf(kind, scr)
    BY <2>1, <2>2 DEF LastOf
  <2> QED BY <2>3
<1>13. \A j \in DOMAIN screens :
         /\ screens'[j].kind = screens[j].kind /\ screens'[j].form = screens[j].form
         /\ j # i =>
              /\ screens'[j].rows = screens[j].rows /\ screens'[j].sel = screens[j].sel
              /\ screens'[j].crossed = screens[j].crossed
              /\ screens'[j].kept = screens[j].kept
  BY <1>9, <1>10, <1>11
<1>14. \A j \in 1 .. Len(screens') : screens'[j].sheet # "none" => screens'[j].form # 0
  BY <1>9, <1>10
<1>15. /\ screens'[i].rows = <<>> /\ (screens'[i].crossed <=> ListRequests(i, requests) # {})
       /\ ~(screens'[i].kind = "bill" /\ screens'[i].sel.tab = 1)
  BY <1>3, <1>9
<1>16. \/ inflight' = requests
       \/ /\ inflight' = requests \cup {q} /\ q \in Request
          /\ q.op = "list" /\ q.screen = i /\ q.sel = screens'[i].sel
          /\ q.seen = stored[screens'[i].kind]
  BY <1>6, <1>7, <1>9
<1>17. i \in 1 .. Len(screens') /\ top' \in {0, Len(screens')}
       /\ (Len(screens') = Len(screens) \/ (Len(screens') = Len(screens) + 1 /\ i = Len(screens')))
  BY <1>9
<1>18. \A kind \in Kinds :
         /\ told'[kind] <= stored[kind]
         /\ kind \notin PutKinds => told'[kind] = 0
         /\ told'[kind] = told[kind] \/ i = LastOf(kind, screens')
  BY <1>12
<1> HIDE DEF crossed
<1> QED
  BY <1>5, <1>8, <1>9, <1>13, <1>14, <1>15, <1>16, <1>17, <1>18, LoadedInv

-----------------------------------------------------------------------------
(* Two special cases of TouchedInv: no screen changes, and one does.       *)
LEMMA QuietInv ==
    ASSUME IInv, UNCHANGED <<screens, NODATA_L, told>>, top' \in {0, top},
           inflight' \subseteq Request,
           \A r \in inflight' :
               \/ r \in inflight
               \/ r.screen \in DOMAIN screens /\ r.op # "list" /\ RequestOK(r, screens, stored'),
           sent' \in Nat, crashed' \in BOOLEAN,
           stored' \in [Kinds -> Nat], \A kind \in Kinds : stored[kind] <= stored'[kind]
    PROVE  GoodStep
<1>1. /\ screens' \in Seq(Screen) /\ Len(screens') = Len(screens)
      /\ top' \in {0, Len(screens)} /\ NODATA_L' \in {NODATA_L, Nowhere}
  BY DEF IInv, TypeOK, TopIsLast
<1>2. \A i \in DOMAIN screens :
        /\ screens'[i] = screens[i]
        /\ screens'[i].sheet # "none" => screens'[i].form # 0
  BY DEF IInv, SheetsHaveForm
<1>3. \A r \in inflight' :
        /\ r.screen \in DOMAIN screens
        /\ r \in inflight \/ (r.op # "list" /\ RequestOK(r, screens', stored'))
  BY DEF IInv, TypeOK
<1> QED BY <1>1, <1>2, <1>3, TouchedInv

LEMMA TouchOneInv ==
    ASSUME IInv, NEW i \in DOMAIN screens, NEW s, s = screens[i], NEW t \in Screen,
           screens' = [screens EXCEPT ![i] = t],
           t.kind = s.kind, t.rows = s.rows, s.form # 0 => t.form # 0,
           t.sheet # "none" => t.form # 0, s.kept => t.kept,
           ~t.crossed => /\ ~s.crossed
                         /\ \/ t.sel = s.sel
                            \/ s.kind = "bill" /\ s.sel.tab = 1 /\ t.sel.tab = 1,
           top' = top,
           \/ NODATA_L' = NODATA_L /\ (t.form = 0 => s.form = 0)
           \/ t.form # 0 /\ NODATA_L' \in {Nowhere, [screen |-> i, view |-> "form"]}
           \/ t.kept /\ NODATA_L' = [screen |-> i, view |-> "list"],
           \/ inflight' \subseteq inflight
           \/ \E q \in Request :
                 /\ inflight' = inflight \cup {q}
                 /\ q.op = "companies" /\ q.screen = i /\ t.form # 0,
           sent' \in Nat, crashed' \in BOOLEAN, UNCHANGED <<stored, told>>
    PROVE  GoodStep
<1>1. TypeOK
  BY DEF IInv
<1> DEFINE n == Len(screens)
<1>2. n \in Nat /\ DOMAIN screens = 1 .. n /\ \A j \in 1 .. n : screens[j] \in Screen
  BY <1>1, ScreensType
<1>3. /\ screens' \in Seq(Screen) /\ Len(screens') = n /\ screens'[i] = t
      /\ \A j \in 1 .. n : j # i => screens'[j] = screens[j]
  BY <1>1, <1>2, OneScreen DEF TypeOK
<1> HIDE DEF n
<1>4. \A j \in DOMAIN screens : screens[j].sheet # "none" => screens[j].form # 0
  BY DEF IInv, SheetsHaveForm
<1>5. \A j \in DOMAIN screens :
        /\ screens'[j].kind = screens[j].kind /\ screens'[j].rows = screens[j].rows
        /\ screens[j].form # 0 => screens'[j].form # 0
        /\ screens'[j].sheet # "none" => screens'[j].form # 0
        /\ screens[j].kept => screens'[j].kept
        /\ ~screens'[j].crossed =>
             /\ ~screens[j].crossed
             /\ \/ screens'[j].sel = screens[j].sel
                \/ /\ screens[j].kind = "bill"
                   /\ screens[j].sel.tab = 1 /\ screens'[j].sel.tab = 1
  <2> SUFFICES ASSUME NEW j \in 1 .. n
               PROVE  /\ screens'[j].kind = screens[j].kind /\ screens'[j].rows = screens[j].rows
                      /\ screens[j].form # 0 => screens'[j].form # 0
                      /\ screens'[j].sheet # "none" => screens'[j].form # 0
                      /\ screens[j].kept => screens'[j].kept
                      /\ ~screens'[j].crossed =>
                           /\ ~screens[j].crossed
                           /\ \/ screens'[j].sel = screens[j].sel
                              \/ /\ screens[j].kind = "bill"
                                 /\ screens[j].sel.tab = 1 /\ screens'[j].sel.tab = 1
    BY <1>2
  <2>1. CASE j = i
    BY <1>3, <2>1
  <2>2. CASE j # i
    BY <1>2, <1>3, <1>4, <2>2
  <2> QED BY <2>1, <2>2
<1>6. top' \in {0, n}
  BY DEF IInv, TopIsLast, n
<1>7. \/ NODATA_L' \in {NODATA_L, Nowhere}
      \/ \E j \in DOMAIN screens : NODATA_L' = [screen |-> j, view |-> "form"]
      \/ \E j \in DOMAIN screens :
            NODATA_L' = [screen |-> j, view |-> "list"] /\ screens'[j].kept
  BY <1>3
<1>8. n = 1 /\ screens'[1].form = 0 =>
          \/ NODATA_L' = NODATA_L /\ screens[1].form = 0
          \/ NODATA_L' = [screen |-> 1, view |-> "list"]
  <2> SUFFICES ASSUME n = 1, screens'[1].form = 0
               PROVE  \/ NODATA_L' = NODATA_L /\ screens[1].form = 0
                      \/ NODATA_L' = [screen |-> 1, view |-> "list"]
    OBVIOUS
  <2>1. i = 1
    BY <1>2
  <2> QED BY <1>3, <2>1
<1>9. inflight' \subseteq Request
  BY <1>1 DEF TypeOK
<1>10. \A r \in inflight' :
         /\ r.screen \in DOMAIN screens
         /\ r \in inflight \/ (r.op # "list" /\ RequestOK(r, screens', stored'))
  <2> SUFFICES ASSUME NEW r \in inflight'
               PROVE  /\ r.screen \in DOMAIN screens
                      /\ r \in inflight \/ (r.op # "list" /\ RequestOK(r, screens', stored'))
    OBVIOUS
  <2>1. CASE r \in inflight
    BY <1>1, <2>1 DEF TypeOK
  <2>2. CASE r \notin inflight
    <3>1. r.op = "companies" /\ r.screen = i /\ t.form # 0
      BY <2>2
    <3> QED BY <1>3, <3>1 DEF RequestOK
  <2> QED BY <2>1, <2>2
<1>11. stored' \in [Kinds -> Nat] /\ \A kind \in Kinds : stored[kind] <= stored'[kind]
  BY <1>1 DEF TypeOK
<1> QED
  BY <1>3, <1>5, <1>6, <1>7, <1>8, <1>9, <1>10, <1>11, TouchedInv DEF n

-----------------------------------------------------------------------------
LEMMA InitIInv == Init => IInv
<1> SUFFICES ASSUME Init PROVE IInv
  OBVIOUS
<1>1. screens = <<>> /\ Len(screens) = 0 /\ DOMAIN screens = {} /\ inflight = {}
  BY DEF Init
<1>2. TypeOK
  <2>1. screens \in Seq(Screen) /\ top \in 0 .. Len(screens)
    BY <1>1 DEF Init
  <2>2. stored \in [Kinds -> Nat] /\ told \in [Kinds -> Nat]
    BY DEF Init
  <2> QED BY <1>1, <2>1, <2>2 DEF Init, TypeOK
<1>3. TopIsLast /\ SheetsHaveForm /\ RequestsInv /\ ScreensInv /\ NoDataIsTrue
  BY <1>1 DEF Init, TopIsLast, SheetsHaveForm, RequestsInv, ScreensInv, NoDataIsTrue
<1>4. ToldInv
  BY DEF Init, ToldInv
<1> QED BY <1>2, <1>3, <1>4 DEF IInv

(* The screen shown is the last one, and the delegate of its kind.         *)
LEMMA TopScreen ==
    ASSUME IInv, NEW kind, On(kind)
    PROVE  /\ top \in DOMAIN screens /\ top \in 1 .. Len(screens) /\ top = Len(screens)
           /\ screens[top] \in Screen /\ screens[top].kind = kind /\ ~crashed
<1>1. Len(screens) \in Nat /\ DOMAIN screens = 1 .. Len(screens)
      /\ \A i \in DOMAIN screens : screens[i] \in Screen
  BY ScreensType DEF IInv
<1>2. top = Len(screens) /\ top # 0
  BY DEF IInv, TopIsLast, On
<1> QED BY <1>1, <1>2 DEF On

LEMMA DelegateOfTop ==
    ASSUME IInv, NEW kind, On(kind)
    PROVE  Delegate(kind) = top
<1>1. Len(screens) \in Nat /\ DOMAIN screens = 1 .. Len(screens)
  BY ScreensType DEF IInv
<1>2. top \in 1 .. Len(screens) /\ top = Len(screens) /\ screens[top].kind = kind
  BY TopScreen
<1>3. IsLast(top, kind, screens)
  BY <1>1, <1>2 DEF IsLast
<1>4. Delegate(kind) = LastOf(kind, screens)
  BY DEF Delegate, LastOf
<1> QED BY <1>1, <1>3, <1>4, LastIs

LEMMA ToldKept ==
    ASSUME IInv, UNCHANGED <<stored, told>>
    PROVE  /\ told' \in [Kinds -> Nat] /\ stored' = stored
           /\ \A kind \in Kinds : /\ told'[kind] <= stored[kind]
                                  /\ kind \notin PutKinds => told'[kind] = 0
                                  /\ told'[kind] = told[kind]
BY DEF IInv, TypeOK, ToldInv

LEMMA OpenInv ==
    ASSUME IInv, NEW kind \in Kinds, Open(kind)
    PROVE  GoodStep
<1> DEFINE t == [kind |-> kind, sel |-> [tab |-> 0, month |-> ThisMonth], rows |-> <<>>,
                 sheet |-> "none", form |-> 0, companies |-> FALSE, crossed |-> FALSE,
                 kept |-> FALSE]
           scr == Append(screens, t)
           n == Len(screens)
<1>1. t \in Screen /\ t.sheet = "none" /\ t.sel.tab = 0
  BY ListsAssumption DEF Screen, Selection
<1>2. /\ GET(n + 1, scr, inflight) /\ top' = n + 1 /\ crashed' = crashed
      /\ UNCHANGED <<stored, told>>
  BY DEF Open
<1>3. n \in Nat /\ DOMAIN screens = 1 .. n
  BY ScreensType DEF IInv
<1> HIDE DEF t
<1>4. /\ scr \in Seq(Screen) /\ Len(scr) = n + 1 /\ scr[n + 1] = t
      /\ \A j \in 1 .. n : scr[j] = screens[j]
  BY <1>1, AppendProperties DEF IInv, TypeOK
<1> HIDE DEF scr, n
<1>5. \A j \in 1 .. n + 1 : scr[j].sheet # "none" => scr[j].form # 0
  <2> SUFFICES ASSUME NEW j \in 1 .. n + 1, scr[j].sheet # "none" PROVE scr[j].form # 0
    OBVIOUS
  <2>1. j # n + 1
    BY <1>1, <1>4
  <2>2. j \in 1 .. n
    BY <1>3, <2>1
  <2> QED BY <1>3, <1>4, <2>2 DEF IInv, SheetsHaveForm
<1>6. ~(scr[n + 1].sel.tab = 1)
  BY <1>1, <1>4
<1>7. n + 1 \in 1 .. Len(scr) /\ inflight \in SUBSET inflight /\ top' \in {0, Len(scr)}
  BY <1>2, <1>3, <1>4
<1>8. Len(scr) = Len(screens) + 1
  BY <1>4 DEF n
<1>9. \A j \in DOMAIN screens : scr[j] = screens[j]
  BY <1>3, <1>4
<1>10. crashed' \in BOOLEAN
  BY <1>2 DEF IInv, TypeOK
<1> QED
  BY <1>2, <1>4, <1>5, <1>6, <1>7, <1>8, <1>9, <1>10, ToldKept, GETInv

(* The screen on top loads its list again, maybe for something else, and   *)
(* without its sheet.                                                      *)
LEMMA ReloadInv ==
    ASSUME IInv, NEW kind, On(kind), NEW t \in Screen,
           t.kind = kind, t.form = screens[top].form, t.sheet \in {screens[top].sheet, "none"},
           ~(t.kind = "bill" /\ t.sel.tab = 1),
           GET(top, [screens EXCEPT ![top] = t], inflight),
           UNCHANGED <<top, stored, told, crashed>>
    PROVE  GoodStep
<1> DEFINE scr == [screens EXCEPT ![top] = t]
           n == Len(screens)
<1>1. n \in Nat /\ DOMAIN screens = 1 .. n
  BY ScreensType DEF IInv
<1>2. top \in 1 .. n /\ top = n /\ screens[top].kind = kind
  BY TopScreen
<1>3. /\ scr \in Seq(Screen) /\ Len(scr) = n /\ scr[top] = t
      /\ \A j \in 1 .. n : j # top => scr[j] = screens[j]
  BY <1>2, OneScreen DEF IInv, TypeOK
<1>4. GET(top, scr, inflight)
  OBVIOUS
<1> HIDE DEF scr, n
<1>5. \A j \in 1 .. n : screens[j].sheet # "none" => screens[j].form # 0
  BY <1>1 DEF IInv, SheetsHaveForm
<1>6. \A j \in 1 .. n : scr[j].sheet # "none" => scr[j].form # 0
  BY <1>2, <1>3, <1>5
<1>7. \A j \in DOMAIN screens :
        /\ scr[j].kind = screens[j].kind /\ scr[j].form = screens[j].form
        /\ j # top =>
             /\ scr[j].rows = screens[j].rows /\ scr[j].sel = screens[j].sel
             /\ scr[j].crossed = screens[j].crossed /\ scr[j].kept = screens[j].kept
  BY <1>1, <1>2, <1>3
<1>8. /\ top' \in {0, Len(scr)} /\ crashed' \in BOOLEAN /\ inflight \in SUBSET inflight
      /\ Len(scr) = Len(screens) /\ top \in 1 .. Len(scr)
      /\ ~(scr[top].kind = "bill" /\ scr[top].sel.tab = 1)
  BY <1>2, <1>3 DEF IInv, TypeOK, n
<1> QED
  BY <1>3, <1>4, <1>6, <1>7, <1>8, ToldKept, GETInv DEF n

LEMMA SelectedTab ==
    ASSUME NEW s \in Screen, NEW tab \in {0, 1}
    PROVE  LET t == [s EXCEPT !.sel.tab = tab]
           IN  /\ t \in Screen /\ t.kind = s.kind /\ t.sel.tab = tab /\ t.rows = s.rows
               /\ t.sheet = s.sheet /\ t.form = s.form /\ t.crossed = s.crossed
               /\ t.kept = s.kept
<1> DEFINE sel == [s.sel EXCEPT !.tab = tab]
           t == [s EXCEPT !.sel = sel]
<1>1. sel \in Selection /\ sel.tab = tab
  BY ScreenFields DEF Selection
<1> HIDE DEF sel
<1>2. /\ t \in Screen /\ t.kind = s.kind /\ t.sel = sel /\ t.rows = s.rows
      /\ t.sheet = s.sheet /\ t.form = s.form /\ t.crossed = s.crossed /\ t.kept = s.kept
  BY <1>1 DEF Screen
<1> QED BY <1>1, <1>2 DEF sel

LEMMA SelectBillInv ==
    ASSUME IInv, NEW tab \in {0, 1}, SelectBill(tab)
    PROVE  GoodStep
<1> DEFINE s == screens[top]
           t == [s EXCEPT !.sel.tab = tab]
           scr == [screens EXCEPT ![top].sel.tab = tab]
           n == Len(screens)
<1>1. On("bill") /\ s.sheet = "none"
  BY DEF SelectBill, OnList
<1>2. /\ top \in 1 .. n /\ top \in DOMAIN screens /\ top = n /\ s \in Screen /\ s.kind = "bill"
      /\ ~crashed
  BY <1>1, TopScreen
<1>3. /\ t \in Screen /\ t.kind = "bill" /\ t.sel.tab = tab /\ t.rows = s.rows
      /\ t.sheet = s.sheet /\ t.form = s.form /\ t.crossed = s.crossed /\ t.kept = s.kept
  BY <1>2, SelectedTab
<1>4. scr = [screens EXCEPT ![top] = t]
  OBVIOUS
<1>5. UNCHANGED <<top, stored, told, crashed>>
  BY DEF SelectBill
<1>6. ASSUME tab = 0, GET(top, scr, inflight) PROVE GoodStep
  <2>1. GET(top, [screens EXCEPT ![top] = t], inflight)
    BY <1>4, <1>6
  <2> HIDE DEF scr, t
  <2> QED BY <1>1, <1>3, <1>5, <1>6, <2>1, ReloadInv
<1>7. ASSUME tab = 1, NODATA(top, "list"), UNCHANGED <<inflight, sent>>,
             screens' = [scr EXCEPT ![top].rows = <<>>, ![top].kept = FALSE,
                             ![top].crossed = ListRequests(top, inflight) # {}]
      PROVE  GoodStep
  <2> DEFINE crossed == ListRequests(top, inflight) # {}
             u == [t EXCEPT !.rows = <<>>, !.kept = FALSE, !.crossed = crossed]
  <2>1. crossed \in BOOLEAN /\ <<>> \in Seq(Row)
    OBVIOUS
  <2>2. /\ u \in Screen /\ u.kind = "bill" /\ u.rows = <<>> /\ u.sheet = "none"
        /\ u.form = s.form /\ (u.crossed <=> crossed)
    <3> HIDE DEF crossed, t
    <3> QED BY <1>1, <1>3, <2>1 DEF Screen
  <2>3. screens' = [screens EXCEPT ![top] = u]
    <3> HIDE DEF t, crossed, s
    <3>1. scr[top] = t
      BY <1>2, <1>4
    <3>2. screens' = [scr EXCEPT ![top] = u]
      BY <1>7, <3>1 DEF crossed
    <3> HIDE DEF u
    <3> QED BY <1>2, <1>4, <3>2
  <2> HIDE DEF u, scr, t
  <2>4. /\ screens' \in Seq(Screen) /\ Len(screens') = n /\ screens'[top] = u
        /\ \A j \in 1 .. n : j # top => screens'[j] = screens[j]
    BY <1>2, <2>2, <2>3, OneScreen DEF IInv, TypeOK
  <2>5. n \in Nat /\ DOMAIN screens = 1 .. n
    BY ScreensType DEF IInv
  <2>6. \A j \in DOMAIN screens :
          /\ screens'[j].kind = screens[j].kind /\ screens'[j].form = screens[j].form
          /\ j # top =>
               /\ screens'[j].rows = screens[j].rows /\ screens'[j].sel = screens[j].sel
               /\ screens'[j].crossed = screens[j].crossed
               /\ screens'[j].kept = screens[j].kept
    BY <1>2, <2>2, <2>4, <2>5
  <2>7. \A j \in 1 .. Len(screens') : screens'[j].sheet # "none" => screens'[j].form # 0
    BY <1>2, <2>2, <2>4, <2>5 DEF IInv, SheetsHaveForm
  <2>8. /\ NODATA_L' = [screen |-> top, view |-> "list"] /\ inflight' = inflight
        /\ top' \in {0, Len(screens')} /\ sent' \in Nat /\ crashed' \in BOOLEAN
        /\ top \in 1 .. Len(screens') /\ screens'[top].rows = <<>>
        /\ screens'[top].crossed <=> ListRequests(top, inflight) # {}
    BY <1>2, <1>5, <1>7, <2>2, <2>4 DEF NODATA, IInv, TypeOK, crossed
  <2>9. inflight \in SUBSET inflight
    OBVIOUS
  <2> HIDE DEF s
  <2> QED
    BY <1>5, <2>4, <2>6, <2>7, <2>8, <2>9, ToldKept, LoadedInv DEF n
<1>8. ASSUME tab = 1, NODATA(top, "list"), UNCHANGED <<inflight, sent>>,
             screens' = [scr EXCEPT ![top].kept = TRUE, ![top].crossed = TRUE]
      PROVE  GoodStep
  <2> DEFINE u == [t EXCEPT !.kept = TRUE, !.crossed = TRUE]
  <2>1. /\ u \in Screen /\ u.kind = s.kind /\ u.rows = s.rows /\ u.sheet = "none"
        /\ u.form = s.form /\ u.crossed /\ u.kept
    <3> HIDE DEF t
    <3> QED BY <1>1, <1>2, <1>3 DEF Screen
  <2>2. screens' = [screens EXCEPT ![top] = u]
    <3> HIDE DEF t, s
    <3>1. scr[top] = t
      BY <1>2, <1>4
    <3>2. screens' = [scr EXCEPT ![top] = u]
      BY <1>8, <3>1
    <3> HIDE DEF u
    <3> QED BY <1>2, <1>4, <3>2
  <2>3. /\ NODATA_L' = [screen |-> top, view |-> "list"] /\ inflight' \subseteq inflight
        /\ sent' \in Nat /\ crashed' \in BOOLEAN
    BY <1>5, <1>8 DEF NODATA, IInv, TypeOK
  <2> HIDE DEF u, scr, t
  <2> QED BY <1>2, <1>5, <2>1, <2>2, <2>3, TouchOneInv
<1> QED
  <2>1. \/ tab = 0 /\ GET(top, scr, inflight)
        \/ /\ tab = 1 /\ NODATA(top, "list") /\ UNCHANGED <<inflight, sent>>
           /\ \/ screens' = [scr EXCEPT ![top].rows = <<>>, ![top].kept = FALSE,
                                 ![top].crossed = ListRequests(top, inflight) # {}]
              \/ screens' = [scr EXCEPT ![top].kept = TRUE, ![top].crossed = TRUE]
    BY DEF SelectBill
  <2> HIDE DEF scr, t, s
  <2> QED BY <1>6, <1>7, <1>8, <2>1

LEMMA SelectChargersInv ==
    ASSUME IInv, NEW tab \in {0, 1}, SelectChargers(tab)
    PROVE  GoodStep
<1> DEFINE s == screens[top]
           t == [s EXCEPT !.sel.tab = tab]
<1>1. On("chargers") /\ s.sheet = "none"
  BY DEF SelectChargers, OnList
<1>2. s \in Screen /\ s.kind = "chargers"
  BY <1>1, TopScreen
<1>3. t \in Screen /\ t.kind = "chargers" /\ t.sheet = s.sheet /\ t.form = s.form
  BY <1>2, SelectedTab
<1>4. GET(top, [screens EXCEPT ![top] = t], inflight) /\ UNCHANGED <<top, stored, told, crashed>>
  BY DEF SelectChargers
<1> HIDE DEF t
<1> QED BY <1>1, <1>3, <1>4, ReloadInv

LEMMA BackInv == ASSUME IInv, Back PROVE GoodStep
<1>1. UNCHANGED <<screens, NODATA_L, inflight, sent, stored, told, crashed>> /\ top' = 0
  BY DEF Back
<1>2. TypeOK /\ RequestsInv
  BY DEF IInv
<1>3. stored' \in [Kinds -> Nat] /\ \A kind \in Kinds : stored[kind] <= stored'[kind]
  BY <1>1, <1>2 DEF TypeOK
<1>4. inflight' \subseteq Request /\ sent' \in Nat /\ crashed' \in BOOLEAN
  BY <1>1, <1>2 DEF TypeOK
<1> QED BY <1>1, <1>3, <1>4, QuietInv

(* The sheet of the screen on top opens, closes or is asked about.         *)
LEMMA SheetInv ==
    ASSUME IInv, NEW kind, On(kind), NEW t \in Screen, NEW s, s = screens[top],
           screens' = [screens EXCEPT ![top] = t],
           t.kind = s.kind, t.rows = s.rows, t.sel = s.sel, t.crossed = s.crossed,
           t.kept = s.kept, t.form # 0, UNCHANGED <<top, stored, told, crashed>>,
           NODATA_L' \in {NODATA_L, [screen |-> top, view |-> "form"]},
           \/ inflight' = inflight
           \/ \E q \in Request :
                 inflight' = inflight \cup {q} /\ q.op = "companies" /\ q.screen = top,
           sent' \in Nat
    PROVE  GoodStep
<1>1. top \in DOMAIN screens
  BY TopScreen
<1>2. crashed' \in BOOLEAN
  BY DEF IInv, TypeOK
<1>3. \/ inflight' \subseteq inflight
      \/ \E q \in Request :
            /\ inflight' = inflight \cup {q}
            /\ q.op = "companies" /\ q.screen = top /\ t.form # 0
  OBVIOUS
<1>4. \/ NODATA_L' = NODATA_L /\ (t.form = 0 => s.form = 0)
      \/ t.form # 0 /\ NODATA_L' \in {Nowhere, [screen |-> top, view |-> "form"]}
  OBVIOUS
<1>5. /\ ~t.crossed => ~s.crossed /\ t.sel = s.sel
      /\ s.kept => t.kept
      /\ s.form # 0 => t.form # 0
      /\ t.sheet # "none" => t.form # 0
  OBVIOUS
<1> QED BY <1>1, <1>2, <1>3, <1>4, <1>5, TouchOneInv

LEMMA OpenSheetInv == ASSUME IInv, NEW kind \in Kinds, OpenSheet(kind) PROVE GoodStep
<1> DEFINE s == screens[top]
           t == [s EXCEPT !.sheet = "up", !.form = @ + 1]
<1>1. On(kind) /\ screens' = [screens EXCEPT ![top] = t]
      /\ UNCHANGED <<top, NODATA_L, inflight, sent, stored, told, crashed>>
  BY DEF OpenSheet, OnList
<1>2. s \in Screen
  BY <1>1, TopScreen
<1>3. /\ t \in Screen /\ t.kind = s.kind /\ t.rows = s.rows /\ t.sel = s.sel
      /\ t.crossed = s.crossed /\ t.kept = s.kept /\ t.form # 0
  <2>1. s.form \in Nat /\ s.form + 1 \in Nat /\ s.form + 1 # 0
    BY <1>2, ScreenFields
  <2> QED BY <1>2, <2>1 DEF Screen
<1>4. sent' \in Nat
  BY <1>1 DEF IInv, TypeOK
<1> HIDE DEF t
<1> QED BY <1>1, <1>3, <1>4, SheetInv

LEMMA OpenFormInv == ASSUME IInv, OpenForm PROVE GoodStep
<1> DEFINE s == screens[top]
           t == [s EXCEPT !.sheet = "up", !.form = @ + 1, !.companies = FALSE]
           q == NewRequest("companies", top, t)
<1>1. /\ On("parcels") /\ screens' = [screens EXCEPT ![top] = t]
      /\ UNCHANGED <<top, stored, told, crashed>>
      /\ NODATA_L' = [screen |-> top, view |-> "form"]
  BY DEF OpenForm, OnList, NODATA
<1>2. s \in Screen /\ top \in Nat /\ top \in 1 .. Len(screens)
  BY <1>1, TopScreen DEF IInv, TypeOK
<1>3. /\ t \in Screen /\ t.kind = s.kind /\ t.rows = s.rows /\ t.sel = s.sel
      /\ t.crossed = s.crossed /\ t.kept = s.kept /\ t.form # 0
  <2>1. s.form \in Nat /\ s.form + 1 \in Nat /\ s.form + 1 # 0
    BY <1>2, ScreenFields
  <2> QED BY <1>2, <2>1 DEF Screen
<1>4. screens'[top] = t
  <2> HIDE DEF t
  <2> QED BY <1>1, <1>2, <1>3, OneScreen DEF IInv, TypeOK
<1>5. \/ inflight' = inflight /\ sent' = sent
      \/ inflight' = inflight \cup {q} /\ sent' = sent + 1
  <2> HIDE DEF t
  <2> QED BY <1>4 DEF OpenForm
<1>6. sent' \in Nat
  BY <1>5 DEF IInv, TypeOK
<1> HIDE DEF t
<1>7. q \in Request /\ q.op = "companies" /\ q.screen = top
  BY <1>2, <1>3, NewRequestType DEF IInv
<1> HIDE DEF q
<1>8. \/ inflight' = inflight
      \/ \E p \in Request :
            inflight' = inflight \cup {p} /\ p.op = "companies" /\ p.screen = top
  BY <1>5, <1>7
<1> QED BY <1>1, <1>3, <1>6, <1>8, SheetInv

LEMMA CloseSheetInv == ASSUME IInv, CloseSheet PROVE GoodStep
<1>1. PICK sheet \in {"none", "up", "asking"} :
        screens[top].sheet # "none" /\ screens' = [screens EXCEPT ![top].sheet = sheet]
  BY DEF CloseSheet
<1> DEFINE s == screens[top]
           t == [s EXCEPT !.sheet = sheet]
<1>2. /\ On(s.kind) /\ UNCHANGED <<top, NODATA_L, inflight, sent, stored, told, crashed>>
      /\ screens' = [screens EXCEPT ![top] = t]
  BY <1>1 DEF CloseSheet, On
<1>3. s \in Screen /\ top \in DOMAIN screens
  BY <1>2, TopScreen
<1>4. s.form # 0
  BY <1>1, <1>3 DEF IInv, SheetsHaveForm
<1>5. /\ t \in Screen /\ t.kind = s.kind /\ t.rows = s.rows /\ t.sel = s.sel
      /\ t.crossed = s.crossed /\ t.kept = s.kept /\ t.form # 0
  BY <1>3, <1>4 DEF Screen
<1>6. sent' \in Nat
  BY <1>2 DEF IInv, TypeOK
<1> HIDE DEF t
<1> QED BY <1>2, <1>5, <1>6, SheetInv

LEMMA ChooseMonthInv == ASSUME IInv, NEW month \in Months, ChooseMonth(month) PROVE GoodStep
<1> DEFINE s == screens[top]
           sel == [s.sel EXCEPT !.month = month]
           t == [s EXCEPT !.sel = sel, !.sheet = "none"]
           scr == [screens EXCEPT ![top].sel.month = month, ![top].sheet = "none"]
<1>1. On("bill") /\ Delegate("bill") = top
  BY DelegateOfTop DEF ChooseMonth, OnSheet
<1>2. s \in Screen /\ s.kind = "bill" /\ top \in DOMAIN screens /\ top \in 1 .. Len(screens)
      /\ s.sheet = "up"
  BY <1>1, TopScreen DEF ChooseMonth, OnSheet
<1>3. UNCHANGED <<top, stored, told, crashed>>
  BY DEF ChooseMonth
<1>4. sel \in Selection /\ sel.tab = s.sel.tab /\ s.sel.tab \in {0, 1}
  BY <1>2, ScreenFields DEF Selection
<1>5. scr = [screens EXCEPT ![top] = t]
  <2> DEFINE a == [s EXCEPT !.sel = sel]
  <2>1. [screens EXCEPT ![top] = a][top] = a /\ t = [a EXCEPT !.sheet = "none"]
    <3> HIDE DEF a
    <3>1. [screens EXCEPT ![top] = a][top] = a
      BY <1>2
    <3> QED BY <3>1 DEF a
  <2>2. scr = [[screens EXCEPT ![top] = a] EXCEPT ![top].sheet = "none"]
    OBVIOUS
  <2> HIDE DEF a, t, scr
  <2>3. scr = [[screens EXCEPT ![top] = a] EXCEPT ![top] = t]
    BY <2>1, <2>2
  <2> QED BY <1>2, <2>3
<1> HIDE DEF sel
<1>6. /\ t \in Screen /\ t.kind = s.kind /\ t.rows = s.rows /\ t.sel = sel /\ t.sheet = "none"
      /\ t.form = s.form /\ t.crossed = s.crossed /\ t.kept = s.kept
  BY <1>2, <1>4 DEF Screen
<1>7. \/ s.sel.tab = 0 /\ GET(top, scr, inflight)
      \/ s.sel.tab # 0 /\ screens' = scr /\ UNCHANGED <<NODATA_L, inflight, sent>>
  <2> HIDE DEF scr
  <2>1. /\ s.sel.tab = 0 => GET(top, scr, inflight)
        /\ s.sel.tab # 0 => screens' = scr /\ UNCHANGED <<NODATA_L, inflight, sent>>
    BY <1>1 DEF ChooseMonth, scr
  <2> QED BY <2>1
<1> HIDE DEF t, scr
<1>8. CASE s.sel.tab = 0 /\ GET(top, scr, inflight)
  <2>1. ~(t.kind = "bill" /\ t.sel.tab = 1)
    BY <1>4, <1>6, <1>8
  <2>2. GET(top, [screens EXCEPT ![top] = t], inflight)
    BY <1>5, <1>8
  <2> QED BY <1>1, <1>2, <1>3, <1>6, <2>1, <2>2, ReloadInv
<1>9. CASE s.sel.tab # 0 /\ screens' = scr /\ UNCHANGED <<NODATA_L, inflight, sent>>
  <2>1. s.form # 0
    BY <1>2 DEF IInv, SheetsHaveForm
  <2>2. sent' \in Nat /\ crashed' \in BOOLEAN
    BY <1>3, <1>9 DEF IInv, TypeOK
  <2>3. s.kind = "bill" /\ s.sel.tab = 1 /\ t.sel.tab = 1
    BY <1>2, <1>4, <1>6, <1>9
  <2>4. screens' = [screens EXCEPT ![top] = t] /\ inflight' \subseteq inflight
    BY <1>5, <1>9
  <2>5. UNCHANGED <<top, NODATA_L, stored, told>>
    BY <1>3, <1>9
  <2> HIDE DEF s
  <2> QED
    BY <1>2, <1>6, <2>1, <2>2, <2>3, <2>4, <2>5, TouchOneInv DEF s
<1> QED BY <1>7, <1>8, <1>9

(* Calls and parcels.                                                      *)
LEMMA PutInv ==
    ASSUME IInv, NEW kind \in PutKinds, OnSheet(kind), Put, crashed' \in BOOLEAN
    PROVE  GoodStep
<1> DEFINE s == screens[top]
           q == NewRequest("put", top, s)
<1>1. s \in Screen /\ s.kind = kind /\ top \in DOMAIN screens /\ top \in Nat
  BY TopScreen DEF OnSheet, IInv, TypeOK
<1>2. s.form # 0
  BY <1>1 DEF OnSheet, IInv, SheetsHaveForm
<1>3. /\ inflight' = inflight \cup {q} /\ sent' = sent + 1
      /\ UNCHANGED <<screens, top, NODATA_L, stored, told>>
  BY DEF Put
<1>4. q \in Request /\ q.op = "put" /\ q.screen = top /\ q.no = 0
  BY <1>1, NewRequestType DEF IInv
<1> HIDE DEF q
<1>5. TypeOK
  BY DEF IInv
<1>6. stored' \in [Kinds -> Nat] /\ \A k \in Kinds : stored[k] <= stored'[k]
  BY <1>3, <1>5 DEF TypeOK
<1>7. RequestOK(q, screens, stored')
  <2>1. stored'[kind] \in Nat
    BY <1>6 DEF PutKinds, Kinds
  <2> QED BY <1>1, <1>2, <1>4, <2>1 DEF RequestOK
<1>8. inflight' \subseteq Request /\ sent' \in Nat
  BY <1>3, <1>4, <1>5 DEF TypeOK
<1>9. \A r \in inflight' :
        \/ r \in inflight
        \/ r.screen \in DOMAIN screens /\ r.op # "list" /\ RequestOK(r, screens, stored')
  BY <1>1, <1>3, <1>4, <1>7
<1> QED BY <1>3, <1>6, <1>8, <1>9, QuietInv

LEMMA CallInv == ASSUME IInv, Call PROVE GoodStep
<1>1. OnSheet("elevator") /\ Put /\ crashed' \in BOOLEAN /\ "elevator" \in PutKinds
  BY DEF Call, PutKinds, IInv, TypeOK
<1> QED BY <1>1, PutInv

LEMMA RegisterInv == ASSUME IInv, Register PROVE GoodStep
<1>1. CASE Put /\ UNCHANGED crashed
  <2>1. OnSheet("parcels") /\ crashed' \in BOOLEAN /\ "parcels" \in PutKinds
    BY <1>1 DEF Register, PutKinds, IInv, TypeOK
  <2> QED BY <1>1, <2>1, PutInv
<1>2. CASE crashed' = TRUE /\ UNCHANGED <<screens, top, NODATA_L, inflight, sent, stored, told>>
  <2>1. /\ inflight' \subseteq Request /\ sent' \in Nat /\ crashed' \in BOOLEAN
        /\ stored' \in [Kinds -> Nat] /\ \A kind \in Kinds : stored[kind] <= stored'[kind]
    BY <1>2 DEF IInv, TypeOK
  <2> QED BY <1>2, <2>1, QuietInv
<1> QED BY <1>1, <1>2 DEF Register

-----------------------------------------------------------------------------
(* Answers.                                                                *)

(* A list as the server had it is one answer to what was asked for.        *)
Answer(list, sel) ==
    list \in Seq(Row) /\ \A n \in 1 .. Len(list) : list[n].sel = sel /\ list[n].n = n

LEMMA RowsUpToIs ==
    ASSUME NEW sel \in Selection, NEW k \in Nat
    PROVE  Answer(RowsUpTo(sel, k), sel) /\ Len(RowsUpTo(sel, k)) = k
<1> DEFINE list == [n \in 1 .. k |-> [sel |-> sel, n |-> n, bare |-> FALSE]]
<1>1. \A n \in 1 .. k : [sel |-> sel, n |-> n, bare |-> FALSE] \in Row
  BY DEF Row
<1>2. list \in Seq(Row) /\ Len(list) = k
  <2>1. list \in [1 .. k -> Row]
    BY <1>1
  <2>2. DOMAIN list = 1 .. k
    OBVIOUS
  <2> HIDE DEF list
  <2>3. list \in Seq(Row)
    BY <2>1, SeqDef
  <2> QED BY <2>2, <2>3, LenProperties
<1> QED BY <1>2 DEF RowsUpTo, Answer

LEMMA AnswerIs ==
    ASSUME NEW r \in Request, NEW least \in Nat, NEW most \in Nat,
           NEW list \in Answers(r, least, most)
    PROVE  Answer(list, r.sel) /\ (list # <<>> => least <= Len(list))
<1>1. r.sel \in Selection
  BY RequestFields
<1>2. CASE list = <<>>
  BY <1>2 DEF Answer
<1>3. ASSUME NEW k \in least .. most, list = RowsUpTo(r.sel, k)
      PROVE  Answer(list, r.sel) /\ least <= Len(list)
  <2>1. k \in Nat /\ least <= k
    OBVIOUS
  <2> QED BY <1>1, <1>3, <2>1, RowsUpToIs
<1> QED BY <1>2, <1>3 DEF Answers

LEMMA ReverseIs ==
    ASSUME NEW list \in Seq(Row)
    PROVE  /\ Reverse(list) \in Seq(Row) /\ Len(Reverse(list)) = Len(list)
           /\ \A j \in 1 .. Len(list) : Reverse(list)[j] = list[Len(list) + 1 - j]
<1> DEFINE n == Len(list)
           back == [i \in 1 .. n |-> list[(n - i) + 1]]
<1>1. n \in Nat /\ \A i \in 1 .. n : list[i] \in Row
  BY LenProperties, ElementOfSeq
<1>2. \A i \in 1 .. n : (n - i) + 1 \in 1 .. n /\ (n - i) + 1 = n + 1 - i
  <2> HIDE DEF n
  <2> QED BY <1>1
<1>3. Reverse(list) = back
  BY DEF Reverse
<1> HIDE DEF n
<1>4. back \in [1 .. n -> Row] /\ DOMAIN back = 1 .. n
  BY <1>1, <1>2
<1>5. \A j \in 1 .. n : back[j] = list[n + 1 - j]
  BY <1>2
<1> HIDE DEF back
<1>6. back \in Seq(Row) /\ Len(back) = n
  <2>1. back \in Seq(Row)
    BY <1>1, <1>4, SeqDef
  <2> QED BY <1>1, <1>4, <2>1, LenProperties
<1> QED BY <1>3, <1>5, <1>6 DEF n

(* The list of a screen that may be trusted is empty when its answer comes *)
(* and selects what was asked for.                                         *)
LEMMA AskedFor ==
    ASSUME IInv, NEW r \in inflight, r.op = "list"
    PROVE  /\ r \in Request /\ screens[r.screen] \in Screen
           /\ screens[r.screen].rows \in Seq(Row)
           /\ ~screens[r.screen].crossed =>
                screens[r.screen].rows = <<>> /\ r.sel = screens[r.screen].sel
<1>1. r \in Request /\ r.screen \in DOMAIN screens
  BY DEF IInv, TypeOK
<1>2. screens[r.screen] \in Screen
  BY <1>1, ScreensType DEF IInv
<1>3. ScreenInv(r.screen, screens[r.screen], screens, inflight, told)
  BY <1>1 DEF IInv, ScreensInv
<1>4. r \in ListRequests(r.screen, inflight)
  BY DEF ListRequests
<1> QED BY <1>1, <1>2, <1>3, <1>4, ScreenFields DEF ScreenInv

LEMMA ConcatIs ==
    ASSUME NEW rows \in Seq(Row), NEW list \in Seq(Row)
    PROVE  /\ rows \o list \in Seq(Row)
           /\ rows \o list = <<>> => rows = <<>>
           /\ rows = <<>> => rows \o list = list
<1>1. rows \o list \in Seq(Row) /\ Len(rows \o list) = Len(rows) + Len(list)
  BY ConcatProperties
<1>2. ASSUME rows \o list = <<>> PROVE rows = <<>>
  <2>1. Len(rows) \in Nat /\ Len(list) \in Nat
    BY LenProperties
  <2>2. Len(rows) = 0
    BY <1>1, <1>2, <2>1
  <2> QED BY <2>2, EmptySeq
<1>3. ASSUME rows = <<>> PROVE rows \o list = list
  BY <1>3, ConcatEmptySeq
<1> QED BY <1>1, <1>2, <1>3

(* An answer that is appended.                                             *)
LEMMA AppendedInv ==
    ASSUME IInv, NEW r \in inflight, NEW kind, kind # "elevator", NEW list,
           Answer(list, r.sel), kind \in PutKinds /\ list # <<>> => r.seen <= Len(list),
           kind \in Kinds,
           Answered(r, kind, screens[r.screen].rows \o list), crashed' \in BOOLEAN
    PROVE  GoodStep
<1> DEFINE s == screens[r.screen]
           rows == s.rows \o list
           t == [s EXCEPT !.rows = rows]
<1>1. r.op = "list" /\ s.kind = kind
  BY DEF Answered
<1>2. /\ r \in Request /\ s \in Screen /\ s.rows \in Seq(Row)
      /\ ~s.crossed => s.rows = <<>> /\ r.sel = s.sel
  BY <1>1, AskedFor
<1>3. list \in Seq(Row)
  BY DEF Answer
<1>4. rows \in Seq(Row) /\ (rows = <<>> => s.rows = <<>>) /\ (s.rows = <<>> => rows = list)
  BY <1>2, <1>3, ConcatIs
<1> HIDE DEF rows
<1>5. t.rows = rows /\ t.kind = kind /\ t.sel = s.sel
  BY <1>1, <1>2 DEF Screen
<1>6. ASSUME ~s.crossed, rows # <<>>
      PROVE  OneAnswer(t) /\ (told[kind] <= r.seen => told[kind] <= Len(rows))
  <2>1. rows = list /\ r.sel = t.sel
    BY <1>2, <1>4, <1>5, <1>6
  <2>2. OneAnswer(t)
    <3>1. DOMAIN list = 1 .. Len(list)
      BY <1>3, LenProperties
    <3> HIDE DEF t
    <3> QED BY <1>5, <2>1, <3>1 DEF OneAnswer, Answer
  <2>3. told[kind] <= r.seen => told[kind] <= Len(list)
    <3>1. Len(list) \in Nat /\ told[kind] \in Nat /\ r.seen \in Nat
      BY <1>2, <1>3, LenProperties, RequestFields DEF IInv, TypeOK
    <3>2. kind \notin PutKinds => told[kind] = 0
      BY DEF IInv, ToldInv
    <3> QED BY <1>6, <2>1, <3>1, <3>2
  <2> QED BY <2>1, <2>2, <2>3
<1>7. Answered(r, kind, rows)
  BY DEF rows
<1> QED BY <1>4, <1>6, <1>7, AnsweredInv

LEMMA AnswerCallsInv == ASSUME IInv, NEW r \in inflight, AnswerCalls(r) PROVE GoodStep
<1> DEFINE s == screens[r.screen]
<1>1. PICK list \in Answers(r, r.seen, stored["elevator"]) :
        Answered(r, "elevator", Reverse(s.rows \o list)) /\ crashed' = crashed
  BY DEF AnswerCalls
<1> DEFINE both == s.rows \o list
           rows == Reverse(both)
           t == [s EXCEPT !.rows = rows]
<1>2. r.op = "list" /\ s.kind = "elevator" /\ crashed' \in BOOLEAN
  BY <1>1 DEF Answered, IInv, TypeOK
<1>3. /\ r \in Request /\ s \in Screen /\ s.rows \in Seq(Row)
      /\ ~s.crossed => s.rows = <<>> /\ r.sel = s.sel
  BY <1>2, AskedFor
<1>4. r.seen \in Nat /\ stored["elevator"] \in Nat /\ told["elevator"] \in Nat
  BY <1>3, RequestFields DEF IInv, TypeOK, Kinds
<1>5. Answer(list, r.sel) /\ (list # <<>> => r.seen <= Len(list))
  BY <1>3, <1>4, AnswerIs
<1>6. list \in Seq(Row)
  BY <1>5 DEF Answer
<1>7. both \in Seq(Row) /\ (both = <<>> => s.rows = <<>>) /\ (s.rows = <<>> => both = list)
  BY <1>3, <1>6, ConcatIs
<1> HIDE DEF both
<1>8. /\ rows \in Seq(Row) /\ Len(rows) = Len(both)
      /\ \A j \in 1 .. Len(both) : rows[j] = both[Len(both) + 1 - j]
  BY <1>7, ReverseIs
<1> HIDE DEF rows
<1>9. t.rows = rows /\ t.kind = "elevator" /\ t.sel = s.sel
  BY <1>2, <1>3 DEF Screen
<1>10. rows = <<>> <=> both = <<>>
  <2>1. /\ rows = <<>> <=> Len(rows) = 0
        /\ both = <<>> <=> Len(both) = 0
    BY <1>7, <1>8, EmptySeq
  <2> QED BY <1>8, <2>1
<1>11. ASSUME ~s.crossed, rows # <<>>
       PROVE  OneAnswer(t) /\ (told["elevator"] <= r.seen => told["elevator"] <= Len(rows))
  <2>1. both = list /\ r.sel = t.sel /\ list # <<>>
    BY <1>3, <1>7, <1>9, <1>10, <1>11
  <2>2. Len(list) \in Nat /\ DOMAIN rows = 1 .. Len(list) /\ Len(rows) = Len(list)
    BY <1>6, <1>8, <2>1, LenProperties
  <2>3. OneAnswer(t)
    <3> SUFFICES ASSUME NEW j \in 1 .. Len(list)
                 PROVE  rows[j].sel = t.sel /\ rows[j].n = Len(list) + 1 - j
      <4> HIDE DEF t
      <4> QED BY <1>9, <2>2 DEF OneAnswer
    <3>1. Len(list) + 1 - j \in 1 .. Len(list)
      BY <2>2
    <3>2. rows[j] = list[Len(list) + 1 - j]
      BY <1>8, <2>1
    <3> QED BY <1>5, <2>1, <3>1, <3>2 DEF Answer
  <2>4. told["elevator"] <= r.seen => told["elevator"] <= Len(rows)
    BY <1>4, <1>5, <2>1, <2>2
  <2> QED BY <2>3, <2>4
<1>12. Answered(r, "elevator", rows)
  BY <1>1 DEF rows, both
<1> QED BY <1>2, <1>7, <1>8, <1>10, <1>11, <1>12, AnsweredInv

LEMMA AnswerBillInv == ASSUME IInv, NEW r \in inflight, AnswerBill(r) PROVE GoodStep
<1>1. PICK list \in Answers(r, 0, 1), bare \in BOOLEAN :
        LET drawn == [n \in DOMAIN list |-> [list[n] EXCEPT !.bare = bare]]
        IN  /\ Answered(r, "bill", screens[r.screen].rows \o drawn)
            /\ BillDrawn(r.screen, screens[r.screen].rows \o drawn)
  BY DEF AnswerBill
<1> DEFINE drawn == [n \in DOMAIN list |-> [list[n] EXCEPT !.bare = bare]]
<1>2. r \in Request /\ crashed' \in BOOLEAN
  BY <1>1 DEF IInv, TypeOK, BillDrawn
<1>3. Answer(list, r.sel)
  BY <1>2, AnswerIs
<1>4. Answer(drawn, r.sel)
  <2> DEFINE m == Len(list)
  <2>1. m \in Nat /\ DOMAIN list = 1 .. m /\ \A n \in 1 .. m : list[n] \in Row
    BY <1>3, LenProperties, ElementOfSeq DEF Answer
  <2>2. \A n \in 1 .. m : /\ [list[n] EXCEPT !.bare = bare] \in Row
                          /\ [list[n] EXCEPT !.bare = bare].sel = list[n].sel
                          /\ [list[n] EXCEPT !.bare = bare].n = list[n].n
    BY <2>1 DEF Row
  <2>3. /\ drawn \in [1 .. m -> Row] /\ DOMAIN drawn = 1 .. m
        /\ \A n \in 1 .. m : drawn[n].sel = list[n].sel /\ drawn[n].n = list[n].n
    BY <2>1, <2>2
  <2> HIDE DEF drawn, m
  <2>4. drawn \in Seq(Row) /\ Len(drawn) = m
    <3>1. drawn \in Seq(Row)
      BY <2>1, <2>3, SeqDef
    <3> QED BY <2>1, <2>3, <3>1, LenProperties
  <2> QED BY <1>3, <2>3, <2>4 DEF Answer, m
<1>5. Answered(r, "bill", screens[r.screen].rows \o drawn)
  BY <1>1
<1> HIDE DEF drawn
<1>6. "bill" \in Kinds /\ "bill" \notin PutKinds
  BY DEF Kinds, PutKinds
<1> QED BY <1>2, <1>4, <1>5, <1>6, AppendedInv

LEMMA AnswerChargersInv == ASSUME IInv, NEW r \in inflight, AnswerChargers(r) PROVE GoodStep
<1>1. PICK list \in Answers(r, 0, 1) :
        Answered(r, "chargers", screens[r.screen].rows \o list) /\ crashed' = crashed
  BY DEF AnswerChargers
<1>2. r \in Request /\ crashed' \in BOOLEAN
  BY <1>1 DEF IInv, TypeOK
<1>3. Answer(list, r.sel)
  BY <1>2, AnswerIs
<1>4. "chargers" \in Kinds /\ "chargers" \notin PutKinds
  BY DEF Kinds, PutKinds
<1> QED BY <1>1, <1>2, <1>3, <1>4, AppendedInv

LEMMA AnswerContactsInv == ASSUME IInv, NEW r \in inflight, AnswerContacts(r) PROVE GoodStep
<1>1. PICK list \in Answers(r, 0, 1) :
        Answered(r, "contacts", screens[r.screen].rows \o list) /\ crashed' = crashed
  BY DEF AnswerContacts
<1>2. r \in Request /\ crashed' \in BOOLEAN
  BY <1>1 DEF IInv, TypeOK
<1>3. Answer(list, r.sel)
  BY <1>2, AnswerIs
<1>4. "contacts" \in Kinds /\ "contacts" \notin PutKinds
  BY DEF Kinds, PutKinds
<1> QED BY <1>1, <1>2, <1>3, <1>4, AppendedInv

LEMMA AnswerParcelsInv == ASSUME IInv, NEW r \in inflight, AnswerParcels(r) PROVE GoodStep
<1>1. PICK list \in Answers(r, r.seen, stored["parcels"]) :
        Answered(r, "parcels", screens[r.screen].rows \o list) /\ crashed' = crashed
  BY DEF AnswerParcels
<1>2. r \in Request /\ crashed' \in BOOLEAN /\ stored["parcels"] \in Nat
  BY <1>1 DEF IInv, TypeOK, Kinds
<1>3. Answer(list, r.sel) /\ (list # <<>> => r.seen <= Len(list))
  BY <1>2, AnswerIs, RequestFields
<1>4. "parcels" \in Kinds
  BY DEF Kinds
<1> QED BY <1>1, <1>2, <1>3, <1>4, AppendedInv

LEMMA AnswerCompaniesInv == ASSUME IInv, NEW r \in inflight, AnswerCompanies(r) PROVE GoodStep
<1>1. TypeOK
  BY DEF IInv
<1>2. r \in Request /\ r.screen \in DOMAIN screens /\ r.op = "companies"
  BY <1>1 DEF TypeOK, AnswerCompanies
<1>3. /\ inflight' \subseteq inflight /\ inflight' \subseteq Request
      /\ UNCHANGED <<top, sent, stored, told, crashed>>
      /\ sent' \in Nat /\ crashed' \in BOOLEAN
  BY <1>1 DEF AnswerCompanies, TypeOK
<1> DEFINE s == screens[r.screen]
           came == s.companies \/ r.form = s.form
           t == [s EXCEPT !.companies = came]
<1>4. s \in Screen /\ came \in BOOLEAN
  BY <1>1, <1>2, ScreensType, ScreenFields
<1>5. s.form # 0
  BY <1>2 DEF IInv, RequestsInv, RequestOK
<1>6. CASE screens' = [screens EXCEPT ![r.screen].companies = @ \/ r.form = screens[r.screen].form]
           /\ NODATA_L' = Nowhere
  <2>1. screens' = [screens EXCEPT ![r.screen] = t]
    BY <1>6
  <2> HIDE DEF came
  <2>2. /\ t \in Screen /\ t.kind = s.kind /\ t.rows = s.rows /\ t.sel = s.sel
        /\ t.form = s.form /\ (t.crossed <=> s.crossed) /\ (t.kept <=> s.kept)
    BY <1>4 DEF Screen
  <2> HIDE DEF t
  <2> QED BY <1>2, <1>3, <1>5, <1>6, <2>1, <2>2, TouchOneInv
<1>7. CASE UNCHANGED <<screens, NODATA_L>>
  <2>1. stored' \in [Kinds -> Nat] /\ \A kind \in Kinds : stored[kind] <= stored'[kind]
    BY <1>1, <1>3 DEF TypeOK
  <2> QED BY <1>3, <1>7, <2>1, QuietInv
<1> QED BY <1>6, <1>7 DEF AnswerCompanies

-----------------------------------------------------------------------------
LEMMA StoreInv == ASSUME IInv, NEW r \in inflight, Store(r) PROVE GoodStep
<1> DEFINE kind == screens[r.screen].kind
           q == [r EXCEPT !.no = stored'[kind]]
<1>1. TypeOK
  BY DEF IInv
<1>2. /\ r \in Request /\ r.screen \in DOMAIN screens /\ r.op = "put"
      /\ RequestOK(r, screens, stored)
  BY <1>1 DEF IInv, RequestsInv, TypeOK, Store
<1>3. kind \in Kinds
  BY <1>1, <1>2, ScreensType, ScreenFields
<1>4. /\ stored' = [stored EXCEPT ![kind] = @ + 1]
      /\ UNCHANGED <<screens, top, NODATA_L, sent, told, crashed>>
  BY DEF Store
<1>5. inflight' \in {inflight \ {r}, (inflight \ {r}) \cup {q}}
  BY DEF Store
<1> HIDE DEF kind
<1>6. /\ stored' \in [Kinds -> Nat] /\ \A k \in Kinds : stored[k] <= stored'[k]
      /\ stored'[kind] \in Nat
  BY <1>1, <1>3, <1>4 DEF TypeOK
<1>7. /\ q \in Request /\ q.op = "put" /\ q.screen = r.screen /\ q.no = stored'[kind]
  BY <1>2, <1>6 DEF Request
<1> HIDE DEF q
<1>8. RequestOK(q, screens, stored')
  BY <1>2, <1>6, <1>7 DEF RequestOK, kind
<1>9. inflight' \subseteq Request /\ sent' \in Nat /\ crashed' \in BOOLEAN
  BY <1>1, <1>4, <1>5, <1>7 DEF TypeOK
<1>10. \A p \in inflight' :
         \/ p \in inflight
         \/ p.screen \in DOMAIN screens /\ p.op # "list" /\ RequestOK(p, screens, stored')
  BY <1>2, <1>5, <1>7, <1>8
<1> QED BY <1>4, <1>6, <1>9, <1>10, QuietInv

LEMMA PutFailsInv == ASSUME IInv, NEW r \in inflight, PutFails(r) PROVE GoodStep
<1> DEFINE q == [r EXCEPT !.waiting = FALSE]
<1>1. TypeOK
  BY DEF IInv
<1>2. /\ r \in Request /\ r.screen \in DOMAIN screens /\ r.op = "put"
      /\ RequestOK(r, screens, stored)
  BY <1>1 DEF IInv, RequestsInv, TypeOK, PutFails
<1>3. UNCHANGED <<screens, top, NODATA_L, sent, stored, told, crashed>>
      /\ inflight' \in {inflight \ {r}, (inflight \ {r}) \cup {q}}
  BY DEF PutFails
<1>4. q \in Request /\ q.op = "put" /\ q.screen = r.screen /\ q.no = r.no
  BY <1>2 DEF Request
<1> HIDE DEF q
<1>5. RequestOK(q, screens, stored')
  BY <1>2, <1>3, <1>4 DEF RequestOK
<1>6. /\ inflight' \subseteq Request /\ sent' \in Nat /\ crashed' \in BOOLEAN
      /\ stored' \in [Kinds -> Nat] /\ \A kind \in Kinds : stored[kind] <= stored'[kind]
  BY <1>1, <1>3, <1>4 DEF TypeOK
<1>7. \A p \in inflight' :
        \/ p \in inflight
        \/ p.screen \in DOMAIN screens /\ p.op # "list" /\ RequestOK(p, screens, stored')
  BY <1>2, <1>3, <1>4, <1>5
<1> QED BY <1>3, <1>6, <1>7, QuietInv

(* The delegate is the last screen of the kind; it has at least the rows   *)
(* the resident is told of, for it asks for them now.                      *)
LEMMA PutSucceedsInv == ASSUME IInv, NEW r \in inflight, PutSucceeds(r) PROVE GoodStep
<1> DEFINE s == screens[r.screen]
           kind == s.kind
           t == [s EXCEPT !.sheet = Dismissed(r)]
           scr == [screens EXCEPT ![r.screen] = t]
           n == Len(screens)
           i == Delegate(kind)
<1>1. TypeOK
  BY DEF IInv
<1>2. n \in Nat /\ DOMAIN screens = 1 .. n /\ \A j \in 1 .. n : screens[j] \in Screen
  BY <1>1, ScreensType
<1>3. /\ r \in Request /\ r.screen \in 1 .. n /\ r.op = "put" /\ s \in Screen
      /\ RequestOK(r, screens, stored)
  BY <1>1, <1>2 DEF IInv, RequestsInv, TypeOK, PutSucceeds
<1>4. s.form # 0 /\ kind \in PutKinds /\ r.no <= stored[kind]
  BY <1>3 DEF RequestOK
<1>5. /\ told' = [told EXCEPT ![kind] = IF @ < r.no THEN r.no ELSE @]
      /\ GET(i, scr, inflight \ {r})
      /\ UNCHANGED <<top, stored, crashed>>
  BY DEF PutSucceeds
<1>6. Dismissed(r) \in {"none", "up", "asking"}
  BY <1>3, ScreenFields DEF Dismissed
<1>7. /\ t \in Screen /\ t.kind = kind /\ t.rows = s.rows /\ t.sel = s.sel /\ t.form = s.form
      /\ t.crossed = s.crossed /\ t.kept = s.kept
  BY <1>3, <1>6 DEF Screen
<1>8. IsLast(i, kind, screens)
  <2>1. i = LastOf(kind, screens)
    BY DEF Delegate, LastOf
  <2>2. IsLast(LastOf(kind, screens), kind, screens)
    BY <1>2, <1>3, LastExists
  <2> QED BY <2>1, <2>2
<1> HIDE DEF t
<1>9. /\ scr \in Seq(Screen) /\ Len(scr) = n /\ scr[r.screen] = t
      /\ \A j \in 1 .. n : j # r.screen => scr[j] = screens[j]
  BY <1>1, <1>3, <1>7, OneScreen DEF TypeOK
<1>10. DOMAIN scr = 1 .. n
  BY <1>9, LenProperties
<1>11. \A j \in 1 .. n : /\ scr[j].kind = screens[j].kind /\ scr[j].rows = screens[j].rows
                         /\ scr[j].sel = screens[j].sel /\ scr[j].form = screens[j].form
                         /\ scr[j].crossed = screens[j].crossed /\ scr[j].kept = screens[j].kept
  BY <1>3, <1>7, <1>9
<1>12. \A j \in 1 .. n : scr[j].sheet # "none" => scr[j].form # 0
  <2> SUFFICES ASSUME NEW j \in 1 .. n, scr[j].sheet # "none" PROVE scr[j].form # 0
    OBVIOUS
  <2>1. CASE j = r.screen
    BY <1>4, <1>7, <1>9, <2>1
  <2>2. CASE j # r.screen
    BY <1>2, <1>9, <2>2 DEF IInv, SheetsHaveForm
  <2> QED BY <2>1, <2>2
<1> HIDE DEF i, scr, n, kind
<1>13. IsLast(i, kind, scr) /\ i \in 1 .. n /\ scr[i].kind = kind
  BY <1>2, <1>8, <1>10, <1>11 DEF IsLast
<1>14. i = LastOf(kind, scr)
  BY <1>2, <1>10, <1>13, LastIs
<1>15. ~(scr[i].kind = "bill" /\ scr[i].sel.tab = 1)
  BY <1>4, <1>13 DEF PutKinds
<1>16. told' \in [Kinds -> Nat]
       /\ \A k \in Kinds : /\ told'[k] <= stored[k]
                           /\ k \notin PutKinds => told'[k] = 0
                           /\ told'[k] = told[k] \/ i = LastOf(k, scr)
  <2>1. r.no \in Nat /\ kind \in Kinds
    BY <1>3, <1>4, RequestFields DEF PutKinds, Kinds
  <2>2. told \in [Kinds -> Nat]
    BY <1>1 DEF TypeOK
  <2>3. told' \in [Kinds -> Nat] /\ told'[kind] \in {told[kind], r.no}
        /\ \A k \in Kinds : k # kind => told'[k] = told[k]
    BY <1>5, <2>1, <2>2
  <2>4. \A k \in Kinds : told[k] <= stored[k] /\ (k \notin PutKinds => told[k] = 0)
    BY DEF IInv, ToldInv
  <2> SUFFICES ASSUME NEW k \in Kinds
               PROVE  /\ told'[k] <= stored[k]
                      /\ k \notin PutKinds => told'[k] = 0
                      /\ told'[k] = told[k] \/ i = LastOf(k, scr)
    BY <2>3
  <2>5. CASE k = kind
    BY <1>4, <1>14, <2>3, <2>4, <2>5
  <2>6. CASE k # kind
    BY <2>3, <2>4, <2>6
  <2> QED BY <2>5, <2>6
<1>17. top' \in {0, Len(scr)} /\ crashed' \in BOOLEAN /\ stored' = stored
  BY <1>5, <1>9 DEF IInv, TypeOK, TopIsLast, n
<1>18. /\ inflight \ {r} \in SUBSET inflight /\ i \in 1 .. Len(scr) /\ Len(scr) = Len(screens)
       /\ GET(i, scr, inflight \ {r})
       /\ \A j \in 1 .. Len(scr) : scr[j].sheet # "none" => scr[j].form # 0
  BY <1>5, <1>9, <1>12, <1>13 DEF n
<1>19. \A j \in DOMAIN screens :
         /\ scr[j].kind = screens[j].kind /\ scr[j].form = screens[j].form
         /\ j # i =>
              /\ scr[j].rows = screens[j].rows /\ scr[j].sel = screens[j].sel
              /\ scr[j].crossed = screens[j].crossed /\ scr[j].kept = screens[j].kept
  BY <1>2, <1>11
<1> QED
  BY <1>9, <1>15, <1>16, <1>17, <1>18, <1>19, GETInv

-----------------------------------------------------------------------------
LEMMA NextGoodStep == IInv /\ [Next]_vars => GoodStep
<1> SUFFICES ASSUME IInv, [Next]_vars PROVE GoodStep
  OBVIOUS
<1>1. ASSUME NEW kind \in Kinds, Open(kind) PROVE GoodStep
  BY <1>1, OpenInv
<1>2. CASE Back
  BY <1>2, BackInv
<1>3. ASSUME NEW tab \in {0, 1}, SelectBill(tab) \/ SelectChargers(tab) PROVE GoodStep
  BY <1>3, SelectBillInv, SelectChargersInv
<1>4. ASSUME NEW kind \in Kinds, OpenSheet(kind) PROVE GoodStep
  BY <1>4, OpenSheetInv
<1>5. CASE OpenForm
  BY <1>5, OpenFormInv
<1>6. CASE CloseSheet
  BY <1>6, CloseSheetInv
<1>7. ASSUME NEW month \in Months, ChooseMonth(month) PROVE GoodStep
  BY <1>7, ChooseMonthInv
<1>8. CASE Call
  BY <1>8, CallInv
<1>9. CASE Register
  BY <1>9, RegisterInv
<1>10. ASSUME NEW r \in inflight,
              \/ AnswerCalls(r) \/ AnswerBill(r) \/ AnswerChargers(r)
              \/ AnswerParcels(r) \/ AnswerContacts(r) \/ AnswerCompanies(r)
       PROVE  GoodStep
  BY <1>10, AnswerCallsInv, AnswerBillInv, AnswerChargersInv, AnswerParcelsInv,
     AnswerContactsInv, AnswerCompaniesInv
<1>11. ASSUME NEW r \in inflight, Store(r) \/ PutSucceeds(r) \/ PutFails(r) PROVE GoodStep
  BY <1>11, StoreInv, PutSucceedsInv, PutFailsInv
<1>12. CASE UNCHANGED vars
  <2>1. UNCHANGED <<screens, NODATA_L, told, top, inflight, sent, stored, crashed>>
    BY <1>12 DEF vars
  <2>2. /\ inflight' \subseteq Request /\ sent' \in Nat /\ crashed' \in BOOLEAN
        /\ stored' \in [Kinds -> Nat] /\ \A kind \in Kinds : stored[kind] <= stored'[kind]
    BY <2>1 DEF IInv, TypeOK
  <2> QED BY <2>1, <2>2, QuietInv
<1> QED
  BY <1>1, <1>2, <1>3, <1>4, <1>5, <1>6, <1>7, <1>8, <1>9, <1>10, <1>11, <1>12, Zenon DEF Next

LEMMA IInvHolds == Spec => []IInv
<1>1. IInv /\ [Next]_vars => IInv'
  BY NextGoodStep DEF GoodStep
<1> QED BY <1>1, InitIInv, PTL DEF Spec

(* Screens, label, requests and the server's counts keep their types,      *)
(* whatever is opened and however late answers come.                       *)
THEOREM ListsTypeCorrect == Spec => []TypeOK
<1>1. IInv => TypeOK
  BY DEF IInv
<1> QED BY <1>1, IInvHolds, PTL

(* GET_EXPENESE_L1 and its likes append what comes: a list still shows one *)
(* answer to what is selected, with all that the resident was told of,     *)
(* unless it was emptied over an unanswered request.                       *)
THEOREM ListShowsOneAnswer == Spec => []ListIsOneAnswer
<1>1. IInv => ListIsOneAnswer
  <2> SUFFICES ASSUME IInv, NEW i \in DOMAIN screens,
                      ~screens[i].crossed, screens[i].rows # <<>>
               PROVE  /\ OneAnswer(screens[i])
                      /\ i = Delegate(screens[i].kind) =>
                           told[screens[i].kind] <= Len(screens[i].rows)
    BY DEF ListIsOneAnswer
  <2>1. ScreenInv(i, screens[i], screens, inflight, told)
    BY DEF IInv, ScreensInv
  <2>2. Delegate(screens[i].kind) = LastOf(screens[i].kind, screens)
    BY DEF Delegate, LastOf
  <2> QED BY <2>1, <2>2, Zenon DEF ScreenInv
<1> QED BY <1>1, IInvHolds, PTL

(* NODATA: the one label never covers rows, except on the second tab of    *)
(* the bill without a network, and the only screen ever opened shows it    *)
(* when it has none.                                                       *)
THEOREM NoDataTellsTruth == Spec => []NoDataIsTrue
<1>1. IInv => NoDataIsTrue
  BY DEF IInv
<1> QED BY <1>1, IInvHolds, PTL

(* Whatever screens and sheets are open and whoever makes a list load      *)
(* again, every screen's list is emptied, receives one answer to what is   *)
(* selected, and does not change otherwise (P_EXPENESE 59, P_EVCAR 52,     *)
(* P_ELEVATOR_1 39), unless requests crossed.                              *)
THEOREM ListsKeepSelection == Spec => KeepsSelection
<1>1. Init => \A i \in 1 .. MaxScreens : Selected(i)!Init
  BY DEF Init, ScreenNo, Selected!Init
<1>2. IInv /\ [Next]_vars =>
        \A i \in 1 .. MaxScreens : [Selected(i)!Next]_(Selected(i)!vars)
  BY NextGoodStep DEF GoodStep, ListStep
<1> QED BY <1>1, <1>2, IInvHolds, PTL DEF Spec, KeepsSelection

=============================================================================
