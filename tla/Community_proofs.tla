-------------------------- MODULE Community_proofs --------------------------
(***************************************************************************)
(* Membership shown by a group's page, for any groups, listing order, page *)
(* length and schedule of requests.                                        *)
(***************************************************************************)
EXTENDS Community, SequenceTheorems, TLAPS

(* The groups of a sequence are in S.                                      *)
Within(s, S) == \A i \in DOMAIN s : s[i] \in S

(* The sections and the answers on their way tell the truth about the      *)
(* changes the phone knows of.                                             *)
ListTruth ==
    ~astray /\ Quiet =>
        /\ Within(OBJ_COMMUNITY_L1, member) /\ Within(tiles, member)
        /\ Within(OBJ_COMMUNITY_L2, Groups \ member)
        /\ \A r \in inflight : Within(r.sign, member) /\ Within(r.nosign, Groups \ member)

(* Only answers of the list carry rows, and nothing succeeds before the    *)
(* server has it.                                                          *)
ChangesCarryNoRows ==
    \A r \in inflight :
        /\ r.op \in Changes => r.sign = <<>> /\ r.nosign = <<>>
        /\ r.success => r.served

(* Only the page on the screen is known to PUT_COMMUNITY; it shows an      *)
(* entry of its array.                                                     *)
PageOnScreen ==
    /\ VC_COMMUNITY_1_DEL => screen = "group"
    /\ screen = "group" => POSITION \in DOMAIN OBJ_COMMUNITY

(* A page opened and changed with nothing unanswered: one change at most   *)
(* is under way, of its own group, remembered by its own place.            *)
PageTruth ==
    VC_COMMUNITY_1_DEL /\ ~blurred =>
        /\ Quiet => (OBJ_COMMUNITY[POSITION].JOIN <=> OBJ_COMMUNITY[POSITION].cc \in member)
        /\ \A r \in inflight : r.op \in Changes =>
              /\ r.place = POSITION /\ r.cc = {OBJ_COMMUNITY[POSITION].cc}
              /\ Unknown(r) => (r.op = "register" <=> OBJ_COMMUNITY[POSITION].cc \in member)
        /\ \A r, s \in inflight : r.op \in Changes /\ s.op \in Changes => r = s

IInv == TypeOK /\ ListTruth /\ ChangesCarryNoRows /\ PageOnScreen /\ PageTruth /\ CrashNeedsCrossing

-----------------------------------------------------------------------------
LEMMA EmptyList ==
    /\ <<>> \in Seq(Groups) /\ <<>> \in Seq(Entry) /\ DOMAIN <<>> = {}
    /\ \A S : Within(<<>>, S)
BY EmptySeq DEF Within

LEMMA ChangesAreNotLists == "list" \notin Changes
BY DEF Changes

LEMMA RequestFields ==
    ASSUME TypeOK, NEW r \in inflight
    PROVE  /\ r \in Request /\ r.op \in {"list"} \cup Changes /\ r.page \in Nat
           /\ r.cc \in SUBSET Groups /\ r.place \in Nat
           /\ r.sign \in Seq(Groups) /\ r.nosign \in Seq(Groups)
BY DEF TypeOK, Request

LEMMA NewRequestFields ==
    ASSUME TypeOK, NEW op \in {"list"} \cup Changes, NEW page \in Nat,
           NEW cc \in SUBSET Groups, NEW place \in Nat
    PROVE  LET q == NewRequest(op, page, cc, place)
           IN  /\ q \in Request /\ q.op = op /\ q.cc = cc /\ q.place = place
               /\ q.sign = <<>> /\ q.nosign = <<>> /\ ~q.served /\ ~q.success
BY EmptyList DEF NewRequest, Request, TypeOK

(* Every element of a sequence over S is in S, and conversely.             *)
LEMMA WithinConcat ==
    ASSUME NEW S, NEW s \in Seq(Groups), NEW t \in Seq(Groups), Within(s, S), Within(t, S)
    PROVE  Within(s \o t, S)
<1> DEFINE m == Len(s)
           n == Len(t)
<1>1. /\ m \in Nat /\ n \in Nat /\ DOMAIN s = 1 .. m /\ DOMAIN t = 1 .. n
      /\ DOMAIN (s \o t) = 1 .. m + n
      /\ \A i \in 1 .. m + n : (s \o t)[i] = IF i <= m THEN s[i] ELSE t[i - m]
  BY ConcatProperties, LenProperties
<1> HIDE DEF m, n
<1>2. ASSUME NEW i \in 1 .. m + n PROVE (s \o t)[i] \in S
  <2>1. CASE i <= m
    BY <1>1, <2>1 DEF Within
  <2>2. CASE i > m
    <3>1. i - m \in 1 .. n
      BY <1>1, <2>2
    <3>2. t[i - m] \in S
      BY <1>1, <3>1 DEF Within
    <3>3. QED
      BY <1>1, <2>2, <3>2
  <2>3. QED
    BY <1>1, <2>1, <2>2
<1>3. QED
  BY <1>1, <1>2 DEF Within

(* A page of a list holds groups of that list.                             *)
LEMMA PageOfWithin ==
    ASSUME NEW S \in SUBSET Groups, NEW s \in Seq(Groups), Within(s, S), NEW page \in Nat
    PROVE  PageOf(s, page) \in Seq(Groups) /\ Within(PageOf(s, page), S)
<1> DEFINE a == page * ITEM_COUNT + 1
           top == (page + 1) * ITEM_COUNT
           b == IF Len(s) < top THEN Len(s) ELSE top
<1>1. a \in Int /\ a >= 1 /\ top \in Int
  <2>1. page * ITEM_COUNT \in Nat /\ (page + 1) * ITEM_COUNT \in Nat
    BY CommunityAssumption
  <2>2. QED
    BY <2>1
<1>2. PageOf(s, page) = SubSeq(s, a, b)
  BY DEF PageOf
<1>3. Len(s) \in Nat /\ DOMAIN s = 1 .. Len(s)
  BY LenProperties
<1> HIDE DEF a, top
<1>4. b \in Int /\ b <= Len(s)
  BY <1>1, <1>3
<1> HIDE DEF b
<1>5. \A i \in a .. b : i \in 1 .. Len(s)
  BY <1>1, <1>3, <1>4
<1>6. \A i \in a .. b : s[i] \in S
  BY <1>3, <1>5 DEF Within
<1>7. SubSeq(s, a, b) \in Seq(S)
  BY <1>1, <1>4, <1>6, SubSeqProperties
<1>8. \A i \in DOMAIN SubSeq(s, a, b) : SubSeq(s, a, b)[i] \in S
  BY <1>7, ElementOfSeq, LenProperties
<1>9. SubSeq(s, a, b) \in Seq(Groups)
  <2>1. \A i \in a .. b : s[i] \in Groups
    BY <1>6
  <2>2. QED
    BY <1>1, <1>4, <2>1, SubSeqProperties
<1>10. QED
  BY <1>2, <1>8, <1>9 DEF Within

LEMMA ListingWithin ==
    ASSUME NEW S \in SUBSET Groups
    PROVE  Listing[S] \in Seq(Groups) /\ Within(Listing[S], S)
<1>1. Listing[S] \in Seq(Groups) /\ ToSet(Listing[S]) = S
  BY CommunityAssumption
<1>2. QED
  BY <1>1 DEF Within, ToSet

(* The effect of GET_COMMNUNITY_L.                                         *)
LEMMA GetEffect ==
    ASSUME TypeOK, NEW page \in Nat, NEW pending \in SUBSET inflight,
           GET_COMMNUNITY_L(page, pending)
    PROVE  \E q \in Request :
              /\ q.op = "list" /\ q.sign = <<>> /\ q.nosign = <<>> /\ ~q.success
              /\ inflight' = pending \/ inflight' = pending \cup {q}
              /\ sent' \in Nat /\ astray' \in BOOLEAN
              /\ OBJ_COMMUNITY_L1' = <<>>
              /\ IF page = 0 THEN OBJ_COMMUNITY_L2' = <<>> /\ tiles' = <<>>
                             ELSE UNCHANGED <<OBJ_COMMUNITY_L2, tiles>>
              /\ ~astray' => ListsOf(pending) = {} /\ (page = 0 \/ ~astray)
<1> DEFINE q == NewRequest("list", page, {}, 0)
<1>1. /\ q \in Request /\ q.op = "list" /\ q.sign = <<>> /\ q.nosign = <<>> /\ ~q.success
  <2>1. "list" \in {"list"} \cup Changes /\ {} \in SUBSET Groups /\ 0 \in Nat
    OBVIOUS
  <2>2. QED
    BY <2>1, NewRequestFields, SMTT(30)
<1> HIDE DEF q
<1>3. \/ /\ inflight' = pending \cup {q} /\ sent' = sent + 1
         /\ astray' = (ListsOf(pending) # {} \/ (page # 0 /\ astray))
      \/ inflight' = pending /\ astray' = TRUE /\ sent' = sent
  BY DEF GET_COMMNUNITY_L, q
<1>4. sent' \in Nat
  BY <1>3 DEF TypeOK
<1>5. astray' \in BOOLEAN /\ (~astray' => ListsOf(pending) = {} /\ (page = 0 \/ ~astray))
  BY <1>3, Zenon
<1>6. /\ OBJ_COMMUNITY_L1' = <<>>
      /\ IF page = 0 THEN OBJ_COMMUNITY_L2' = <<>> /\ tiles' = <<>>
                     ELSE UNCHANGED <<OBJ_COMMUNITY_L2, tiles>>
  BY DEF GET_COMMNUNITY_L
<1>7. inflight' = pending \/ inflight' = pending \cup {q}
  BY <1>3
<1>8. QED
  BY <1>1, <1>4, <1>5, <1>6, <1>7

-----------------------------------------------------------------------------
LEMMA InitInv == Init => IInv
<1> SUFFICES ASSUME Init PROVE IInv
  OBVIOUS
<1> DEFINE q == [id |-> 0, op |-> "list", page |-> 0, cc |-> {}, place |-> 0,
                 served |-> FALSE, success |-> FALSE, sign |-> <<>>, nosign |-> <<>>]
<1>1. /\ q \in Request /\ q.op = "list" /\ ~q.served /\ ~q.success /\ q.sign = <<>> /\ q.nosign = <<>>
      /\ q.op \notin Changes
  BY EmptyList, ChangesAreNotLists DEF Request
<1>2. inflight = {q}
  BY DEF Init
<1> HIDE DEF q
<1>3. TypeOK
  <2>1. inflight \subseteq Request
    BY <1>1, <1>2
  <2>2. /\ OBJ_COMMUNITY_L1 \in Seq(Groups) /\ OBJ_COMMUNITY_L2 \in Seq(Groups)
        /\ tiles \in Seq(Groups) /\ OBJ_COMMUNITY \in Seq(Entry)
    BY EmptyList DEF Init
  <2>3. FETCHING_MORE \in BOOLEAN /\ VC_COMMUNITY_1_DEL \in BOOLEAN
    BY Zenon DEF Init
  <2>4. crashed \in BOOLEAN /\ astray \in BOOLEAN /\ blurred \in BOOLEAN
    BY Zenon DEF Init
  <2>5. screen \in {"list", "group"} /\ PAGE_NUMBER \in Nat /\ POSITION \in Nat /\ sent \in Nat
    BY DEF Init
  <2>6. member \subseteq Groups
    BY CommunityAssumption DEF Init
  <2>7. QED
    BY <2>1, <2>2, <2>3, <2>4, <2>5, <2>6 DEF TypeOK
<1>4. /\ Within(OBJ_COMMUNITY_L1, member) /\ Within(tiles, member)
      /\ Within(OBJ_COMMUNITY_L2, Groups \ member)
      /\ Within(q.sign, member) /\ Within(q.nosign, Groups \ member)
  BY <1>1, EmptyList DEF Init
<1>5. ListTruth
  BY <1>2, <1>4 DEF ListTruth
<1>6. ChangesCarryNoRows /\ PageOnScreen /\ PageTruth /\ CrashNeedsCrossing
  BY <1>1, <1>2 DEF Init, ChangesCarryNoRows, PageOnScreen, PageTruth, CrashNeedsCrossing
<1>7. QED
  BY <1>3, <1>5, <1>6 DEF IInv

-----------------------------------------------------------------------------
(* A reload, of the whole list or of a page of it, with nothing taken from *)
(* what is on its way but changes the phone knows of.                      *)
LEMMA GetKeepsLists ==
    ASSUME IInv, NEW page \in Nat, NEW pending \in SUBSET inflight,
           GET_COMMNUNITY_L(page, pending), member' = member,
           pending = inflight \/ page = 0
    PROVE  /\ inflight' \subseteq Request /\ sent' \in Nat /\ astray' \in BOOLEAN
           /\ OBJ_COMMUNITY_L1' \in Seq(Groups) /\ OBJ_COMMUNITY_L2' \in Seq(Groups)
           /\ tiles' \in Seq(Groups)
           /\ ListTruth' /\ ChangesCarryNoRows'
           /\ \A r \in inflight' : r.op \in Changes => r \in pending
           /\ Quiet' <=> \A r \in pending : ~Unknown(r)
<1>0. TypeOK /\ ListTruth /\ ChangesCarryNoRows
  BY DEF IInv
<1>1. PICK q \in Request :
         /\ q.op = "list" /\ q.sign = <<>> /\ q.nosign = <<>> /\ ~q.success
         /\ inflight' = pending \/ inflight' = pending \cup {q}
         /\ sent' \in Nat /\ astray' \in BOOLEAN
         /\ OBJ_COMMUNITY_L1' = <<>>
         /\ IF page = 0 THEN OBJ_COMMUNITY_L2' = <<>> /\ tiles' = <<>>
                        ELSE UNCHANGED <<OBJ_COMMUNITY_L2, tiles>>
         /\ ~astray' => ListsOf(pending) = {} /\ (page = 0 \/ ~astray)
  BY <1>0, GetEffect
<1>2. inflight' \subseteq Request
  BY <1>0, <1>1 DEF TypeOK
<1>3. /\ OBJ_COMMUNITY_L1' \in Seq(Groups) /\ OBJ_COMMUNITY_L2' \in Seq(Groups)
      /\ tiles' \in Seq(Groups)
  BY <1>0, <1>1, EmptyList DEF TypeOK
<1>4. \A r \in inflight' : r.op \in Changes => r \in pending
  BY <1>1, ChangesAreNotLists
<1>5. ChangesCarryNoRows'
  BY <1>0, <1>1, <1>4, ChangesAreNotLists DEF ChangesCarryNoRows
<1>6. Quiet' <=> \A r \in pending : ~Unknown(r)
  BY <1>1 DEF Quiet, Unknown
<1>7. ASSUME ~astray', Quiet'
      PROVE  /\ Within(OBJ_COMMUNITY_L1', member) /\ Within(tiles', member)
             /\ Within(OBJ_COMMUNITY_L2', Groups \ member)
             /\ \A r \in inflight' : Within(r.sign, member) /\ Within(r.nosign, Groups \ member)
  <2>1. Within(OBJ_COMMUNITY_L1', member)
    BY <1>1, EmptyList
  <2>2. Within(tiles', member) /\ Within(OBJ_COMMUNITY_L2', Groups \ member)
    <3>1. CASE page = 0
      BY <1>1, <3>1, EmptyList
    <3>2. CASE page # 0
      <4>1. pending = inflight /\ ~astray /\ Quiet
        BY <1>1, <1>6, <1>7, <3>2 DEF Quiet
      <4>2. QED
        BY <1>0, <1>1, <3>2, <4>1 DEF ListTruth
    <3>3. QED
      BY <3>1, <3>2
  <2>3. ASSUME NEW r \in inflight' PROVE r.sign = <<>> /\ r.nosign = <<>>
    <3>1. CASE r = q
      BY <1>1, <3>1
    <3>2. CASE r \in pending
      <4>1. r.op # "list"
        BY <1>1, <1>7, <3>2 DEF ListsOf
      <4>2. r.op \in Changes
        BY <1>0, <3>2, <4>1, RequestFields
      <4>3. QED
        BY <1>0, <3>2, <4>2 DEF ChangesCarryNoRows
    <3>3. QED
      BY <1>1, <3>1, <3>2
  <2>4. QED
    BY <2>1, <2>2, <2>3, EmptyList
<1>8. ListTruth'
  BY <1>7 DEF ListTruth
<1>9. QED
  BY <1>1, <1>2, <1>3, <1>4, <1>5, <1>6, <1>8

LEMMA ScrollToEndInv == IInv /\ ScrollToEnd => IInv'
<1> SUFFICES ASSUME IInv, ScrollToEnd PROVE IInv'
  OBVIOUS
<1>1. /\ TypeOK /\ GET_COMMNUNITY_L(PAGE_NUMBER + 1, inflight)
      /\ PAGE_NUMBER + 1 \in Nat /\ inflight \in SUBSET inflight
      /\ FETCHING_MORE' = TRUE /\ PAGE_NUMBER' = PAGE_NUMBER + 1
      /\ UNCHANGED <<page1, member, crashed, blurred>>
  BY DEF ScrollToEnd, IInv, TypeOK
<1>2. /\ inflight' \subseteq Request /\ sent' \in Nat /\ astray' \in BOOLEAN
      /\ OBJ_COMMUNITY_L1' \in Seq(Groups) /\ OBJ_COMMUNITY_L2' \in Seq(Groups)
      /\ tiles' \in Seq(Groups)
      /\ ListTruth' /\ ChangesCarryNoRows'
      /\ \A r \in inflight' : r.op \in Changes => r \in inflight
      /\ Quiet' <=> \A r \in inflight : ~Unknown(r)
  BY <1>1, GetKeepsLists
<1>3. TypeOK'
  BY <1>1, <1>2 DEF TypeOK, page1
<1>4. PageOnScreen' /\ CrashNeedsCrossing'
  BY <1>1 DEF IInv, PageOnScreen, CrashNeedsCrossing, page1
<1>5. PageTruth'
  <2>1. Quiet' <=> Quiet
    BY <1>2 DEF Quiet
  <2>2. QED
    BY <1>1, <1>2, <2>1 DEF IInv, PageTruth, Unknown, page1
<1>6. QED
  BY <1>2, <1>3, <1>4, <1>5 DEF IInv

LEMMA ListAppearsInv == ASSUME NEW goes \in BOOLEAN PROVE IInv /\ ListAppears(goes) => IInv'
<1> SUFFICES ASSUME IInv, ListAppears(goes) PROVE IInv'
  OBVIOUS
<1>1. /\ TypeOK /\ GET_COMMNUNITY_L(0, inflight) /\ inflight \in SUBSET inflight /\ 0 \in Nat
      /\ screen' \in {"list", "group"} /\ screen = "group" /\ VC_COMMUNITY_1_DEL' = FALSE
      /\ UNCHANGED <<OBJ_COMMUNITY, POSITION, paging, member, crashed, blurred>>
  BY DEF ListAppears, IInv
<1>2. /\ inflight' \subseteq Request /\ sent' \in Nat /\ astray' \in BOOLEAN
      /\ OBJ_COMMUNITY_L1' \in Seq(Groups) /\ OBJ_COMMUNITY_L2' \in Seq(Groups)
      /\ tiles' \in Seq(Groups)
      /\ ListTruth' /\ ChangesCarryNoRows'
  BY <1>1, GetKeepsLists
<1>3. TypeOK'
  BY <1>1, <1>2 DEF TypeOK, paging
<1>4. PageOnScreen' /\ PageTruth' /\ CrashNeedsCrossing'
  BY <1>1 DEF IInv, PageOnScreen, PageTruth, CrashNeedsCrossing
<1>5. QED
  BY <1>2, <1>3, <1>4 DEF IInv

-----------------------------------------------------------------------------
(* A change is sent: from the list, with no page; or from the page.        *)
LEMMA PutEffect ==
    ASSUME IInv, NEW op \in Changes, NEW cc \in Groups, NEW place \in Nat,
           PUT_COMMUNITY(op, cc, place)
    PROVE  \E q \in Request :
              /\ q.op = op /\ q.cc = {cc} /\ q.place = place /\ ~Unknown(q)
              /\ inflight' = inflight \cup {q}
              /\ blurred' <=> blurred \/ ChangePending
              /\ Quiet' <=> Quiet
              /\ TypeOK' /\ ListTruth' /\ ChangesCarryNoRows' /\ PageOnScreen'
              /\ CrashNeedsCrossing'
<1> DEFINE q == NewRequest(op, 0, {cc}, place)
<1>1. /\ q \in Request /\ q.op = op /\ q.cc = {cc} /\ q.place = place
      /\ q.sign = <<>> /\ q.nosign = <<>> /\ ~q.served /\ ~q.success
  <2>1. TypeOK /\ op \in {"list"} \cup Changes /\ {cc} \in SUBSET Groups /\ 0 \in Nat
    BY DEF IInv
  <2>2. QED
    BY <2>1, NewRequestFields
<1>2. /\ inflight' = inflight \cup {q} /\ sent' = sent + 1
      /\ UNCHANGED <<list, paging, page1, member, crashed, astray>>
  BY DEF PUT_COMMUNITY
<1>3. blurred' <=> blurred \/ ChangePending
  BY Zenon DEF PUT_COMMUNITY
<1> HIDE DEF q
<1>4. ~Unknown(q)
  BY <1>1 DEF Unknown
<1>5. Quiet' <=> Quiet
  BY <1>2, <1>4 DEF Quiet, Unknown
<1>6. TypeOK'
  <2>1. inflight' \subseteq Request /\ sent' \in Nat
    BY <1>1, <1>2 DEF IInv, TypeOK
  <2>2. blurred' \in BOOLEAN
    BY Zenon DEF PUT_COMMUNITY
  <2>3. QED
    BY <1>2, <2>1, <2>2 DEF IInv, TypeOK, list, paging, page1
<1>7. Within(q.sign, member) /\ Within(q.nosign, Groups \ member)
  BY <1>1, EmptyList
<1>8. ListTruth'
  BY <1>2, <1>5, <1>7 DEF IInv, ListTruth, list
<1>9. ChangesCarryNoRows' /\ PageOnScreen' /\ CrashNeedsCrossing'
  BY <1>1, <1>2, <1>3 DEF IInv, ChangesCarryNoRows, PageOnScreen, CrashNeedsCrossing, page1
<1>10. QED
  BY <1>1, <1>2, <1>3, <1>4, <1>5, <1>6, <1>8, <1>9

LEMMA JoinFromListInv ==
    ASSUME NEW tag \in DOMAIN OBJ_COMMUNITY_L2
    PROVE  IInv /\ JoinFromList(tag) => IInv'
<1> SUFFICES ASSUME IInv, JoinFromList(tag) PROVE IInv'
  OBVIOUS
<1>1. /\ "register" \in Changes /\ tag \in Nat /\ OBJ_COMMUNITY_L2[tag] \in Groups
      /\ PUT_COMMUNITY("register", OBJ_COMMUNITY_L2[tag], tag)
  BY LenProperties, ElementOfSeq DEF IInv, TypeOK, JoinFromList, Changes
<1>2. ~VC_COMMUNITY_1_DEL'
  BY DEF IInv, PageOnScreen, JoinFromList, PUT_COMMUNITY, page1
<1>3. PageTruth'
  BY <1>2 DEF PageTruth
<1>4. QED
  BY <1>1, <1>3, PutEffect DEF IInv

LEMMA JoinOrLeaveInv == IInv /\ JoinOrLeave => IInv'
<1> SUFFICES ASSUME IInv, JoinOrLeave PROVE IInv'
  OBVIOUS
<1> DEFINE entry == OBJ_COMMUNITY[POSITION]
           verb == IF entry.JOIN THEN "out" ELSE "register"
<1>1. entry \in Entry
  BY ElementOfSeq, LenProperties DEF IInv, PageOnScreen, TypeOK, JoinOrLeave
<1>2. /\ verb \in Changes /\ verb = (IF entry.JOIN THEN "out" ELSE "register")
      /\ entry.cc \in Groups /\ POSITION \in Nat
      /\ PUT_COMMUNITY(verb, entry.cc, POSITION)
  BY <1>1 DEF Entry, Changes, IInv, TypeOK, JoinOrLeave
<1> HIDE DEF verb, entry
<1>3. PICK q \in Request :
         /\ q.op = verb /\ q.cc = {entry.cc} /\ q.place = POSITION /\ ~Unknown(q)
         /\ inflight' = inflight \cup {q}
         /\ blurred' <=> blurred \/ ChangePending
         /\ Quiet' <=> Quiet
         /\ TypeOK' /\ ListTruth' /\ ChangesCarryNoRows' /\ PageOnScreen'
         /\ CrashNeedsCrossing'
  BY <1>2, PutEffect, SMTT(60)
<1> USE DEF entry
<1>4. UNCHANGED <<page1, member>>
  BY DEF JoinOrLeave, PUT_COMMUNITY
<1>5. ASSUME VC_COMMUNITY_1_DEL, ~blurred, ~ChangePending
      PROVE  /\ entry.JOIN <=> entry.cc \in member
             /\ \A r \in inflight' : r.op \in Changes => r = q
  <2>1. Quiet
    BY <1>5 DEF Quiet, Unknown, ChangePending
  <2>2. entry.JOIN <=> entry.cc \in member
    BY <1>5, <2>1 DEF IInv, PageTruth
  <2>3. \A r \in inflight' : r.op \in Changes => r = q
    BY <1>3, <1>5 DEF ChangePending
  <2>4. QED
    BY <2>2, <2>3
<1>6. PageTruth'
  BY <1>2, <1>3, <1>4, <1>5 DEF PageTruth, Unknown, page1
<1>7. QED
  BY <1>3, <1>6 DEF IInv

-----------------------------------------------------------------------------
(* The page opens: from a row, which is not joined; or a tile, which is.   *)
LEMMA OpenGroupInv ==
    ASSUME NEW groups \in Seq(Groups), NEW join \in BOOLEAN, NEW item \in DOMAIN groups,
           IInv, ~crashed, OpenGroup(groups, join, item),
           ~astray /\ Quiet => (join <=> groups[item] \in member)
    PROVE  IInv'
<1>1. /\ OBJ_COMMUNITY' = [i \in DOMAIN groups |-> [cc |-> groups[i], JOIN |-> join]]
      /\ screen' = "group" /\ POSITION' = item /\ VC_COMMUNITY_1_DEL' = TRUE
      /\ UNCHANGED <<list, paging, inflight, sent, member, crashed, astray>>
  BY DEF OpenGroup
<1>2. blurred' <=> astray \/ ChangePending
  BY Zenon DEF OpenGroup
<1>3. OBJ_COMMUNITY' \in Seq(Entry) /\ item \in Nat
  <2>1. /\ Len(groups) \in Nat /\ DOMAIN groups = 1 .. Len(groups)
        /\ \A i \in 1 .. Len(groups) : groups[i] \in Groups
    BY LenProperties, ElementOfSeq
  <2>2. \A i \in 1 .. Len(groups) : [cc |-> groups[i], JOIN |-> join] \in Entry
    BY <2>1 DEF Entry
  <2>3. OBJ_COMMUNITY' \in Seq(Entry)
    BY <1>1, <2>1, <2>2, IsASeq
  <2>4. QED
    BY <2>1, <2>3
<1>4. TypeOK'
  <2>1. blurred' \in BOOLEAN
    BY Zenon DEF OpenGroup, IInv, TypeOK
  <2>2. VC_COMMUNITY_1_DEL' \in BOOLEAN /\ screen' \in {"list", "group"} /\ POSITION' \in Nat
    BY <1>1, <1>3
  <2>3. QED
    BY <1>1, <1>3, <2>1, <2>2 DEF IInv, TypeOK, list, paging
<1>5. ListTruth' /\ ChangesCarryNoRows'
  BY <1>1 DEF IInv, ListTruth, ChangesCarryNoRows, Quiet, Unknown, list
<1>6. PageOnScreen'
  BY <1>1 DEF PageOnScreen
<1>7. ASSUME ~blurred'
      PROVE  /\ OBJ_COMMUNITY'[item].JOIN <=> OBJ_COMMUNITY'[item].cc \in member
             /\ \A r \in inflight : r.op \notin Changes
  <2>1. ~astray /\ Quiet /\ \A r \in inflight : r.op \notin Changes
    BY <1>2, <1>7 DEF ChangePending, Quiet, Unknown
  <2>2. OBJ_COMMUNITY'[item] = [cc |-> groups[item], JOIN |-> join]
    BY <1>1
  <2>3. QED
    BY <2>1, <2>2
<1>8. PageTruth'
  BY <1>1, <1>7 DEF PageTruth
<1>9. CrashNeedsCrossing'
  BY <1>1 DEF CrashNeedsCrossing
<1>10. QED
  BY <1>4, <1>5, <1>6, <1>8, <1>9 DEF IInv

LEMMA OpenFromList ==
    /\ \A item \in DOMAIN OBJ_COMMUNITY_L2 :
          IInv /\ ~crashed /\ OpenGroup(OBJ_COMMUNITY_L2, FALSE, item) => IInv'
    /\ \A item \in DOMAIN tiles :
          IInv /\ ~crashed /\ OpenGroup(tiles, TRUE, item) => IInv'
<1>1. ASSUME NEW item \in DOMAIN OBJ_COMMUNITY_L2, IInv, ~crashed,
             OpenGroup(OBJ_COMMUNITY_L2, FALSE, item)
      PROVE  IInv'
  <2>1. ~astray /\ Quiet => (FALSE <=> OBJ_COMMUNITY_L2[item] \in member)
    BY <1>1 DEF IInv, ListTruth, Within
  <2>2. OBJ_COMMUNITY_L2 \in Seq(Groups) /\ FALSE \in BOOLEAN
    BY <1>1 DEF IInv, TypeOK
  <2>3. QED
    BY <1>1, <2>1, <2>2, OpenGroupInv
<1>2. ASSUME NEW item \in DOMAIN tiles, IInv, ~crashed, OpenGroup(tiles, TRUE, item)
      PROVE  IInv'
  <2>1. ~astray /\ Quiet => (TRUE <=> tiles[item] \in member)
    BY <1>2 DEF IInv, ListTruth, Within
  <2>2. tiles \in Seq(Groups) /\ TRUE \in BOOLEAN
    BY <1>2 DEF IInv, TypeOK
  <2>3. QED
    BY <1>2, <2>1, <2>2, OpenGroupInv
<1>3. QED
  BY <1>1, <1>2

-----------------------------------------------------------------------------
(* What the server does to a request leaves the phone alone.               *)
LEMMA ServedEffect ==
    ASSUME IInv, NEW r \in inflight, NEW t \in Request, Served(r, t), ~crashed,
           t.op = r.op, t.cc = r.cc, t.place = r.place, t.served,
           member' \in SUBSET Groups,
           t.op \in Changes => t.sign = r.sign /\ t.nosign = r.nosign,
           Unknown(t) => (t.op = "register" => member' = member \cup t.cc),
           Unknown(t) => (t.op # "register" => member' = member \ t.cc),
           ~Unknown(t) => /\ member' = member
                          /\ Within(t.sign, member) /\ Within(t.nosign, Groups \ member)
    PROVE  IInv'
<1>1. /\ ~r.served /\ inflight' = (inflight \ {r}) \cup {t}
      /\ UNCHANGED <<list, paging, page1, sent, crashed, astray, blurred>>
  BY DEF Served
<1>2. TypeOK'
  BY <1>1 DEF IInv, TypeOK, list, paging, page1
<1>3. ChangesCarryNoRows'
  BY <1>1 DEF IInv, ChangesCarryNoRows
<1>4. ~Unknown(r)
  BY <1>1 DEF Unknown
<1>5. Quiet' <=> Quiet /\ ~Unknown(t)
  BY <1>1, <1>4 DEF Quiet, Unknown
<1>6. ListTruth'
  BY <1>1, <1>5 DEF IInv, ListTruth, list
<1>7. PageOnScreen' /\ CrashNeedsCrossing'
  BY <1>1 DEF IInv, PageOnScreen, CrashNeedsCrossing, page1
<1>8. ASSUME VC_COMMUNITY_1_DEL, ~blurred PROVE PageTruth'
  <2> DEFINE entry == OBJ_COMMUNITY[POSITION]
  <2>1. /\ Quiet => (entry.JOIN <=> entry.cc \in member)
        /\ \A s \in inflight : s.op \in Changes =>
              /\ s.place = POSITION /\ s.cc = {entry.cc}
              /\ Unknown(s) => (s.op = "register" <=> entry.cc \in member)
        /\ \A s, u \in inflight : s.op \in Changes /\ u.op \in Changes => s = u
    BY <1>8 DEF IInv, PageTruth
  <2>2. \A s, u \in inflight' : s.op \in Changes /\ u.op \in Changes => s = u
    BY <1>1, <2>1
  <2>3. CASE Unknown(t)
    <3>1. t.op \in Changes /\ t.cc = {entry.cc} /\ t.place = POSITION
      BY <2>1, <2>3 DEF Unknown
    <3>2. t.op = "register" <=> entry.cc \in member'
      BY <2>3, <3>1
    <3>3. \A s \in inflight' : s.op \in Changes => s = t
      BY <1>1, <2>1, <3>1
    <3>4. ~Quiet'
      BY <1>5, <2>3
    <3>5. QED
      BY <1>1, <2>2, <3>1, <3>2, <3>3, <3>4 DEF PageTruth, Unknown, page1
  <2>4. CASE ~Unknown(t)
    <3>1. member' = member /\ (Quiet' <=> Quiet)
      BY <1>5, <2>4
    <3>2. \A s \in inflight' : s.op \in Changes =>
              /\ s.place = POSITION /\ s.cc = {entry.cc}
              /\ Unknown(s) => (s.op = "register" <=> entry.cc \in member)
      BY <1>1, <2>1, <2>4
    <3>3. QED
      BY <1>1, <2>1, <2>2, <3>1, <3>2 DEF PageTruth, Unknown, page1
  <2>5. QED
    BY <2>3, <2>4
<1>9. PageTruth'
  BY <1>1, <1>8 DEF PageTruth, page1
<1>10. QED
  BY <1>2, <1>3, <1>6, <1>7, <1>9 DEF IInv

LEMMA ServerInv ==
    ASSUME NEW r \in inflight
    PROVE  IInv /\ ~crashed /\ (ServeList(r) \/ ServeChange(r) \/ Refuse(r)) => IInv'
<1> SUFFICES ASSUME IInv, ~crashed PROVE ServeList(r) \/ ServeChange(r) \/ Refuse(r) => IInv'
  OBVIOUS
<1>0. /\ r \in Request /\ r.op \in {"list"} \cup Changes /\ r.page \in Nat
      /\ r.cc \in SUBSET Groups /\ member \in SUBSET Groups
  BY RequestFields DEF IInv, TypeOK
<1>1. ASSUME ServeList(r) PROVE IInv'
  <2> DEFINE t == [r EXCEPT !.served = TRUE, !.sign = Listing[member],
                            !.nosign = PageOf(Listing[Groups \ member], r.page)]
  <2>1. /\ Listing[member] \in Seq(Groups) /\ Within(Listing[member], member)
        /\ Listing[Groups \ member] \in Seq(Groups)
        /\ Within(Listing[Groups \ member], Groups \ member)
    BY <1>0, ListingWithin
  <2>2. /\ PageOf(Listing[Groups \ member], r.page) \in Seq(Groups)
        /\ Within(PageOf(Listing[Groups \ member], r.page), Groups \ member)
    <3>1. Groups \ member \in SUBSET Groups
      OBVIOUS
    <3>2. QED
      BY <1>0, <2>1, <3>1, PageOfWithin
  <2>3. /\ t \in Request /\ t.op = r.op /\ t.cc = r.cc /\ t.place = r.place
        /\ t.served /\ t.sign = Listing[member] /\ t.nosign = PageOf(Listing[Groups \ member], r.page)
    BY <1>0, <2>1, <2>2 DEF Request
  <2>4. Served(r, t) /\ member' = member /\ r.op = "list"
    BY <1>1 DEF ServeList
  <2> HIDE DEF t
  <2>5. t.op \notin Changes /\ ~Unknown(t)
    BY <2>3, <2>4, ChangesAreNotLists DEF Unknown
  <2>6. QED
    BY <1>0, <2>1, <2>2, <2>3, <2>4, <2>5, ServedEffect
<1>2. ASSUME ServeChange(r) PROVE IInv'
  <2> DEFINE t == [r EXCEPT !.served = TRUE, !.success = TRUE]
  <2>1. /\ t \in Request /\ t.op = r.op /\ t.cc = r.cc /\ t.place = r.place
        /\ t.sign = r.sign /\ t.nosign = r.nosign /\ t.served /\ t.success
    BY <1>0 DEF Request
  <2>2. /\ Served(r, t) /\ r.op \in Changes
        /\ member' = IF r.op = "register" THEN member \cup r.cc ELSE member \ r.cc
    BY <1>2 DEF ServeChange
  <2> HIDE DEF t
  <2>3. member' \in SUBSET Groups /\ Unknown(t)
    BY <1>0, <2>1, <2>2 DEF Unknown
  <2>4. QED
    BY <2>1, <2>2, <2>3, <1>0, ServedEffect
<1>3. ASSUME Refuse(r) PROVE IInv'
  <2> DEFINE t == [r EXCEPT !.served = TRUE]
  <2>1. /\ t \in Request /\ t.op = r.op /\ t.cc = r.cc /\ t.place = r.place
        /\ t.sign = r.sign /\ t.nosign = r.nosign /\ t.served /\ (t.success <=> r.success)
    BY <1>0 DEF Request
  <2>2. Served(r, t) /\ r.op \in Changes /\ member' = member
    BY <1>3 DEF Refuse
  <2> HIDE DEF t
  <2>3. r.sign = <<>> /\ r.nosign = <<>> /\ ~r.success
    BY <2>2 DEF Served, IInv, ChangesCarryNoRows
  <2>4. Within(t.sign, member) /\ Within(t.nosign, Groups \ member)
    BY <2>1, <2>3, EmptyList
  <2>5. ~Unknown(t)
    BY <2>1, <2>3 DEF Unknown
  <2>6. QED
    BY <2>1, <2>2, <2>4, <2>5, <1>0, ServedEffect
<1>4. QED
  BY <1>1, <1>2, <1>3

-----------------------------------------------------------------------------
LEMMA AnswerListInv == ASSUME NEW r \in inflight PROVE IInv /\ AnswerList(r) => IInv'
<1> SUFFICES ASSUME IInv, AnswerList(r) PROVE IInv'
  OBVIOUS
<1>1. /\ r.op \notin Changes /\ inflight' = inflight \ {r}
      /\ OBJ_COMMUNITY_L1' = OBJ_COMMUNITY_L1 \o r.sign
      /\ OBJ_COMMUNITY_L2' = OBJ_COMMUNITY_L2 \o r.nosign
      /\ tiles' = OBJ_COMMUNITY_L1' /\ FETCHING_MORE' = FALSE
      /\ UNCHANGED <<PAGE_NUMBER, page1, sent, member, crashed, astray, blurred>>
  BY ChangesAreNotLists DEF AnswerList
<1>2. /\ r.sign \in Seq(Groups) /\ r.nosign \in Seq(Groups)
      /\ OBJ_COMMUNITY_L1 \in Seq(Groups) /\ OBJ_COMMUNITY_L2 \in Seq(Groups)
  BY RequestFields DEF IInv, TypeOK
<1>3. OBJ_COMMUNITY_L1' \in Seq(Groups) /\ OBJ_COMMUNITY_L2' \in Seq(Groups)
  BY <1>1, <1>2, ConcatProperties
<1>4. TypeOK'
  <2>1. FETCHING_MORE' \in BOOLEAN
    BY <1>1
  <2>2. QED
    BY <1>1, <1>3, <2>1 DEF IInv, TypeOK, page1
<1>5. Quiet' <=> Quiet
  BY <1>1 DEF Quiet, Unknown
<1>6. ASSUME ~astray, Quiet
      PROVE  /\ Within(OBJ_COMMUNITY_L1', member) /\ Within(OBJ_COMMUNITY_L2', Groups \ member)
             /\ \A s \in inflight : Within(s.sign, member) /\ Within(s.nosign, Groups \ member)
  <2>1. /\ Within(OBJ_COMMUNITY_L1, member) /\ Within(OBJ_COMMUNITY_L2, Groups \ member)
        /\ \A s \in inflight : Within(s.sign, member) /\ Within(s.nosign, Groups \ member)
    BY <1>6 DEF IInv, ListTruth
  <2>2. Within(r.sign, member) /\ Within(r.nosign, Groups \ member)
    BY <2>1
  <2>3. Within(OBJ_COMMUNITY_L1 \o r.sign, member)
    BY <1>2, <2>1, <2>2, WithinConcat
  <2>4. Within(OBJ_COMMUNITY_L2 \o r.nosign, Groups \ member)
    BY <1>2, <2>1, <2>2, WithinConcat
  <2>5. QED
    BY <1>1, <2>1, <2>3, <2>4
<1>7. ListTruth'
  BY <1>1, <1>5, <1>6 DEF ListTruth
<1>8. ChangesCarryNoRows' /\ PageOnScreen' /\ CrashNeedsCrossing'
  BY <1>1 DEF IInv, ChangesCarryNoRows, PageOnScreen, CrashNeedsCrossing, page1
<1>9. PageTruth'
  BY <1>1, <1>5 DEF IInv, PageTruth, Unknown, page1
<1>10. QED
  BY <1>4, <1>7, <1>8, <1>9 DEF IInv

LEMMA ListLostInv == ASSUME NEW r \in inflight PROVE IInv /\ ListLost(r) => IInv'
<1> SUFFICES ASSUME IInv, ListLost(r) PROVE IInv'
  OBVIOUS
<1>1. /\ r.op \notin Changes /\ inflight' = inflight \ {r}
      /\ tiles' = OBJ_COMMUNITY_L1 /\ FETCHING_MORE' = FALSE /\ astray' = TRUE
      /\ UNCHANGED <<OBJ_COMMUNITY_L1, OBJ_COMMUNITY_L2, PAGE_NUMBER, page1, sent, member, crashed,
                     blurred>>
  BY ChangesAreNotLists DEF ListLost
<1>2. TypeOK'
  <2>1. FETCHING_MORE' \in BOOLEAN /\ astray' \in BOOLEAN
    BY <1>1
  <2>2. QED
    BY <1>1, <2>1 DEF IInv, TypeOK, page1
<1>3. Quiet' <=> Quiet
  BY <1>1 DEF Quiet, Unknown
<1>4. ListTruth' /\ ChangesCarryNoRows' /\ PageOnScreen' /\ CrashNeedsCrossing'
  BY <1>1 DEF IInv, ListTruth, ChangesCarryNoRows, PageOnScreen, CrashNeedsCrossing, page1
<1>5. PageTruth'
  BY <1>1, <1>3 DEF IInv, PageTruth, Unknown, page1
<1>6. QED
  BY <1>2, <1>4, <1>5 DEF IInv

(* What MarkPage leaves as it is.                                          *)
LEMMA MarkPageEffect ==
    ASSUME TypeOK, NEW r, MarkPage(r)
    PROVE  /\ OBJ_COMMUNITY' \in Seq(Entry) /\ crashed' \in BOOLEAN
           /\ DOMAIN OBJ_COMMUNITY' = DOMAIN OBJ_COMMUNITY
           /\ VC_COMMUNITY_1_DEL /\ r.place \in DOMAIN OBJ_COMMUNITY =>
                 /\ OBJ_COMMUNITY'[r.place].cc = OBJ_COMMUNITY[r.place].cc
                 /\ OBJ_COMMUNITY'[r.place].JOIN <=> r.op = "register"
                 /\ crashed' = crashed
           /\ ~VC_COMMUNITY_1_DEL => crashed' = crashed
<1>1. /\ OBJ_COMMUNITY \in Seq(Entry) /\ DOMAIN OBJ_COMMUNITY = 1 .. Len(OBJ_COMMUNITY)
      /\ Len(OBJ_COMMUNITY) \in Nat /\ \A i \in DOMAIN OBJ_COMMUNITY : OBJ_COMMUNITY[i] \in Entry
      /\ crashed \in BOOLEAN
  BY LenProperties, ElementOfSeq DEF TypeOK
<1>2. CASE VC_COMMUNITY_1_DEL /\ r.place \in DOMAIN OBJ_COMMUNITY
  <2> DEFINE join == (r.op = "register")
             entry == [OBJ_COMMUNITY[r.place] EXCEPT !.JOIN = join]
  <2>1. OBJ_COMMUNITY # <<>>
    BY <1>2, EmptyList
  <2>2. OBJ_COMMUNITY' = [OBJ_COMMUNITY EXCEPT ![r.place] = entry] /\ crashed' = crashed
    BY <1>2, <2>1 DEF MarkPage
  <2>3. join \in BOOLEAN
    OBVIOUS
  <2> HIDE DEF join
  <2>4. entry \in Entry /\ entry.cc = OBJ_COMMUNITY[r.place].cc /\ (entry.JOIN <=> join)
    BY <1>1, <1>2, <2>3 DEF Entry
  <2> HIDE DEF entry
  <2>5. OBJ_COMMUNITY' \in Seq(Entry) /\ DOMAIN OBJ_COMMUNITY' = DOMAIN OBJ_COMMUNITY
    BY <1>1, <1>2, <2>2, <2>4, ExceptSeq
  <2>6. OBJ_COMMUNITY'[r.place] = entry
    BY <1>2, <2>2
  <2>7. QED
    BY <1>1, <1>2, <2>2, <2>4, <2>5, <2>6 DEF join
<1>3. CASE ~(VC_COMMUNITY_1_DEL /\ r.place \in DOMAIN OBJ_COMMUNITY)
  <2>1. /\ OBJ_COMMUNITY' = OBJ_COMMUNITY
        /\ \/ crashed' = crashed
           \/ VC_COMMUNITY_1_DEL /\ crashed' = TRUE
    BY <1>3, EmptyList DEF MarkPage
  <2>2. QED
    BY <1>1, <1>3, <2>1
<1>4. QED
  BY <1>2, <1>3

LEMMA AnswerChangedInv ==
    ASSUME NEW r \in inflight PROVE IInv /\ ~crashed /\ AnswerChanged(r) => IInv'
<1> SUFFICES ASSUME IInv, ~crashed, AnswerChanged(r) PROVE IInv'
  OBVIOUS
<1> DEFINE pending == inflight \ {r}
<1>1. /\ TypeOK /\ Unknown(r) /\ GET_COMMNUNITY_L(0, pending) /\ MarkPage(r)
      /\ pending \in SUBSET inflight /\ 0 \in Nat
      /\ UNCHANGED <<paging, screen, POSITION, VC_COMMUNITY_1_DEL, member, blurred>>
  BY DEF AnswerChanged, IInv
<1>2. /\ inflight' \subseteq Request /\ sent' \in Nat /\ astray' \in BOOLEAN
      /\ OBJ_COMMUNITY_L1' \in Seq(Groups) /\ OBJ_COMMUNITY_L2' \in Seq(Groups)
      /\ tiles' \in Seq(Groups)
      /\ ListTruth' /\ ChangesCarryNoRows'
      /\ \A s \in inflight' : s.op \in Changes => s \in pending
      /\ Quiet' <=> \A s \in pending : ~Unknown(s)
  BY <1>1, GetKeepsLists
<1>3. /\ OBJ_COMMUNITY' \in Seq(Entry) /\ crashed' \in BOOLEAN
      /\ DOMAIN OBJ_COMMUNITY' = DOMAIN OBJ_COMMUNITY
      /\ VC_COMMUNITY_1_DEL /\ r.place \in DOMAIN OBJ_COMMUNITY =>
            /\ OBJ_COMMUNITY'[r.place].cc = OBJ_COMMUNITY[r.place].cc
            /\ OBJ_COMMUNITY'[r.place].JOIN <=> r.op = "register"
            /\ crashed' = crashed
      /\ ~VC_COMMUNITY_1_DEL => crashed' = crashed
  BY <1>1, MarkPageEffect
<1>4. TypeOK'
  BY <1>1, <1>2, <1>3 DEF TypeOK, paging
<1>5. PageOnScreen'
  BY <1>1, <1>3 DEF IInv, PageOnScreen
<1>6. ASSUME VC_COMMUNITY_1_DEL, ~blurred
      PROVE  /\ OBJ_COMMUNITY'[POSITION].JOIN <=> OBJ_COMMUNITY'[POSITION].cc \in member
             /\ ~crashed'
             /\ \A s \in inflight' : s.op \notin Changes
  <2>1. r.op \in Changes
    BY <1>1 DEF Unknown
  <2>2. POSITION \in DOMAIN OBJ_COMMUNITY
    BY <1>6 DEF IInv, PageOnScreen
  <2>3. /\ r.place = POSITION
        /\ r.op = "register" <=> OBJ_COMMUNITY[POSITION].cc \in member
        /\ \A s \in inflight : s.op \in Changes => s = r
    BY <1>1, <1>6, <2>1 DEF IInv, PageTruth
  <2>4. QED
    BY <1>2, <1>3, <1>6, <2>2, <2>3
<1>7. PageTruth'
  BY <1>1, <1>6 DEF PageTruth
<1>8. CrashNeedsCrossing'
  BY <1>1, <1>3, <1>6 DEF CrashNeedsCrossing
<1>9. QED
  BY <1>2, <1>4, <1>5, <1>7, <1>8 DEF IInv

LEMMA AnswerRefusedInv == ASSUME NEW r \in inflight PROVE IInv /\ AnswerRefused(r) => IInv'
<1> SUFFICES ASSUME IInv, AnswerRefused(r) PROVE IInv'
  OBVIOUS
<1>1. /\ ~Unknown(r) /\ inflight' = inflight \ {r}
      /\ UNCHANGED <<list, paging, page1, sent, member, crashed, astray, blurred>>
  BY DEF AnswerRefused, Unknown
<1>2. Quiet' <=> Quiet
  BY <1>1 DEF Quiet, Unknown
<1>3. TypeOK'
  BY <1>1 DEF IInv, TypeOK, list, paging, page1
<1>4. ListTruth' /\ ChangesCarryNoRows' /\ PageOnScreen' /\ CrashNeedsCrossing'
  BY <1>1, <1>2 DEF IInv, ListTruth, ChangesCarryNoRows, PageOnScreen, CrashNeedsCrossing, page1,
                    list
<1>5. PageTruth'
  BY <1>1, <1>2 DEF IInv, PageTruth, Unknown, page1
<1>6. QED
  BY <1>3, <1>4, <1>5 DEF IInv

LEMMA ChangeLostInv == ASSUME NEW r \in inflight PROVE IInv /\ ChangeLost(r) => IInv'
<1> SUFFICES ASSUME IInv, ChangeLost(r) PROVE IInv'
  OBVIOUS
<1>1. /\ inflight' = inflight \ {r}
      /\ UNCHANGED <<list, paging, page1, sent, member, crashed>>
  BY DEF ChangeLost
<1>2. (astray' <=> astray \/ Unknown(r)) /\ (blurred' <=> blurred \/ Unknown(r))
  BY Zenon DEF ChangeLost
<1>3. astray' \in BOOLEAN /\ blurred' \in BOOLEAN
  BY Zenon DEF ChangeLost
<1>4. ~Unknown(r) => (Quiet' <=> Quiet)
  BY <1>1 DEF Quiet, Unknown
<1>5. TypeOK'
  BY <1>1, <1>3 DEF IInv, TypeOK, list, paging, page1
<1>6. ListTruth' /\ ChangesCarryNoRows' /\ PageOnScreen' /\ CrashNeedsCrossing'
  BY <1>1, <1>2, <1>4 DEF IInv, ListTruth, ChangesCarryNoRows, PageOnScreen, CrashNeedsCrossing,
                          page1, list
<1>7. PageTruth'
  BY <1>1, <1>2, <1>4 DEF IInv, PageTruth, Unknown, page1
<1>8. QED
  BY <1>5, <1>6, <1>7 DEF IInv

-----------------------------------------------------------------------------
LEMMA NextInv == IInv /\ [Next]_vars => IInv'
<1> SUFFICES ASSUME IInv, [Next]_vars PROVE IInv'
  OBVIOUS
<1>1. CASE UNCHANGED vars
  BY <1>1 DEF vars, list, paging, page1, IInv, TypeOK, ListTruth, ChangesCarryNoRows, PageOnScreen,
              PageTruth, CrashNeedsCrossing, Quiet, Unknown
<1>2. CASE Next
  <2>1. ~crashed
    BY <1>2 DEF Next
  <2>2. CASE ScrollToEnd
    BY <2>2, ScrollToEndInv
  <2>3. CASE \E tag \in DOMAIN OBJ_COMMUNITY_L2 : JoinFromList(tag)
    BY <2>3, JoinFromListInv
  <2>4. CASE \/ \E item \in DOMAIN OBJ_COMMUNITY_L2 : OpenGroup(OBJ_COMMUNITY_L2, FALSE, item)
             \/ \E item \in DOMAIN tiles : OpenGroup(tiles, TRUE, item)
    BY <2>1, <2>4, OpenFromList
  <2>5. CASE JoinOrLeave
    BY <2>5, JoinOrLeaveInv
  <2>6. CASE \E goes \in BOOLEAN : ListAppears(goes)
    BY <2>6, ListAppearsInv
  <2>7. ASSUME NEW r \in inflight, ServeList(r) \/ ServeChange(r) \/ Refuse(r) PROVE IInv'
    BY <2>1, <2>7, ServerInv
  <2>8. ASSUME NEW r \in inflight, AnswerList(r) \/ ListLost(r) PROVE IInv'
    BY <2>8, AnswerListInv, ListLostInv
  <2>9. ASSUME NEW r \in inflight, AnswerChanged(r) \/ AnswerRefused(r) \/ ChangeLost(r) PROVE IInv'
    BY <2>1, <2>9, AnswerChangedInv, AnswerRefusedInv, ChangeLostInv
  <2>10. QED
    BY <1>2, <2>2, <2>3, <2>4, <2>5, <2>6, <2>7, <2>8, <2>9 DEF Next
<1>3. QED
  BY <1>1, <1>2

LEMMA InvariantHolds == Spec => []IInv
BY InitInv, NextInv, PTL DEF Spec

(* The list, the page of a group and the requests keep their types.        *)
THEOREM CommunityTypeCorrect == Spec => []TypeOK
<1>1. IInv => TypeOK
  BY DEF IInv
<1>2. QED
  BY <1>1, InvariantHolds, PTL

(* A group's page that was opened, and its button tapped, with nothing     *)
(* unanswered offers the right thing (P_COMMUNITY 115-121).                *)
THEOREM PageIsTrue == Spec => []PageTellsMembership
<1>1. IInv => PageTellsMembership
  BY DEF IInv, PageTruth, PageTellsMembership
<1>2. QED
  BY <1>1, InvariantHolds, PTL

(* The remembered place is out of range only for a page opened or changed  *)
(* over an unanswered change (P_COMMUNITY 117, 119).                       *)
THEOREM CrashOnlyAcrossPages == Spec => []CrashNeedsCrossing
<1>1. IInv => CrashNeedsCrossing
  BY DEF IInv
<1>2. QED
  BY <1>1, InvariantHolds, PTL

-----------------------------------------------------------------------------
(* The sections.  Each request for a page empties L1, and each answer      *)
(* holds all of it; the pages of L2 are places of one listing, and grow.   *)

(* The groups of s are in the listing at places up to n.                   *)
Upto(s, listing, n) == \A i \in DOMAIN s : \E k \in DOMAIN listing : k <= n /\ s[i] = listing[k]

SectionsTruth ==
    ~astray /\ Quiet =>
        /\ \A r, s \in ListsOf(inflight) : r = s
        /\ \A r \in ListsOf(inflight) :
             /\ OBJ_COMMUNITY_L1 = <<>> /\ r.page <= PAGE_NUMBER
             /\ Upto(OBJ_COMMUNITY_L2, Listing[Groups \ member], r.page * ITEM_COUNT)
             /\ r.served => /\ r.sign = Listing[member]
                            /\ r.nosign = PageOf(Listing[Groups \ member], r.page)
        /\ ListsOf(inflight) = {} => /\ OBJ_COMMUNITY_L1 = Listing[member]
                                     /\ Upto(OBJ_COMMUNITY_L2, Listing[Groups \ member],
                                             (PAGE_NUMBER + 1) * ITEM_COUNT)
        /\ IsInjective(OBJ_COMMUNITY_L2)

(* A page of a listing starts after the places of the pages before, and    *)
(* has its groups in their order.                                          *)
LEMMA PageOfPlaces ==
    ASSUME NEW s \in Seq(Groups), NEW page \in Nat
    PROVE  \A i \in DOMAIN PageOf(s, page) :
              /\ i \in Nat
              /\ page * ITEM_COUNT + i \in DOMAIN s
              /\ page * ITEM_COUNT < page * ITEM_COUNT + i
              /\ page * ITEM_COUNT + i <= (page + 1) * ITEM_COUNT
              /\ PageOf(s, page)[i] = s[page * ITEM_COUNT + i]
<1> DEFINE a == page * ITEM_COUNT
           top == (page + 1) * ITEM_COUNT
           b == IF Len(s) < top THEN Len(s) ELSE top
           t == SubSeq(s, a + 1, b)
<1>1. a \in Nat /\ top \in Nat
  BY CommunityAssumption
<1>2. PageOf(s, page) = t
  BY DEF PageOf
<1>3. Len(s) \in Nat /\ DOMAIN s = 1 .. Len(s)
  BY LenProperties
<1> HIDE DEF a, top
<1>4. b \in Nat /\ b <= Len(s) /\ b <= top
  BY <1>1, <1>3
<1> HIDE DEF b
<1>5. /\ t \in Seq(Groups)
      /\ Len(t) = IF a + 1 <= b THEN b - (a + 1) + 1 ELSE 0
      /\ \A i \in 1 .. b - (a + 1) + 1 : t[i] = s[a + 1 + i - 1]
  <2>1. \A i \in a + 1 .. b : s[i] \in Groups
    BY <1>1, <1>3, <1>4, ElementOfSeq
  <2>2. a + 1 \in Int /\ b \in Int
    BY <1>1, <1>4
  <2>3. t \in Seq(Groups) /\ Len(t) = IF a + 1 <= b THEN b - (a + 1) + 1 ELSE 0
    BY <2>1, <2>2, SubSeqProperties
  <2>4. \A i \in 1 .. b - (a + 1) + 1 : t[i] = s[a + 1 + i - 1]
    BY <2>1, <2>2, SubSeqProperties
  <2>5. QED
    BY <2>3, <2>4
<1>6. DOMAIN t = 1 .. Len(t)
  BY <1>5, LenProperties
<1> HIDE DEF t
<1>7. ASSUME NEW i \in DOMAIN t
      PROVE  i \in Nat /\ a + i \in DOMAIN s /\ a < a + i /\ a + i <= top /\ t[i] = s[a + i]
  <2>1. a + 1 <= b /\ i \in 1 .. b - (a + 1) + 1
    BY <1>1, <1>4, <1>5, <1>6
  <2>2. a + 1 + i - 1 = a + i
    BY <1>1, <2>1
  <2>3. t[i] = s[a + i]
    BY <1>5, <2>1, <2>2
  <2>4. QED
    BY <1>1, <1>3, <1>4, <2>1, <2>3
<1>8. QED
  BY <1>2, <1>7 DEF a, top

(* The next page of the groups not joined extends L2.                      *)
LEMMA ExtendSection ==
    ASSUME NEW listing \in Seq(Groups), IsInjective(listing), NEW page \in Nat,
           NEW s \in Seq(Groups), IsInjective(s), Upto(s, listing, page * ITEM_COUNT)
    PROVE  /\ Upto(s \o PageOf(listing, page), listing, (page + 1) * ITEM_COUNT)
           /\ IsInjective(s \o PageOf(listing, page))
<1> DEFINE more == PageOf(listing, page)
           t == s \o more
           a == page * ITEM_COUNT
           top == (page + 1) * ITEM_COUNT
<1>1. DOMAIN listing = 1 .. Len(listing) /\ Len(listing) \in Nat
  BY LenProperties
<1>2. \A i \in DOMAIN more : /\ i \in Nat /\ a + i \in DOMAIN listing
                             /\ a < a + i /\ a + i <= top
                             /\ more[i] = listing[a + i]
  BY PageOfPlaces
<1>3. more \in Seq(Groups)
  <2>1. Groups \in SUBSET Groups /\ Within(listing, Groups)
    BY ElementOfSeq, LenProperties DEF Within
  <2>2. QED
    BY <2>1, PageOfWithin
<1>4. a \in Nat /\ top \in Nat /\ a <= top
  <2>1. page * ITEM_COUNT \in Nat /\ ITEM_COUNT \in Nat /\ (page + 1) * ITEM_COUNT = page * ITEM_COUNT + ITEM_COUNT
    BY CommunityAssumption
  <2>2. QED
    BY <2>1
<1>5. \A i \in DOMAIN s : \E k \in DOMAIN listing : k <= a /\ s[i] = listing[k]
  BY DEF Upto
<1> HIDE DEF more, a, top
<1>6. /\ Len(s) \in Nat /\ DOMAIN s = 1 .. Len(s)
      /\ Len(more) \in Nat /\ DOMAIN more = 1 .. Len(more)
  BY <1>3, LenProperties
<1>7. DOMAIN t = 1 .. Len(s) + Len(more)
  <2>1. t \in Seq(Groups) /\ Len(t) = Len(s) + Len(more)
    BY <1>3, ConcatProperties
  <2>2. QED
    BY <2>1, LenProperties
<1>8. \A i \in 1 .. Len(s) + Len(more) : t[i] = IF i <= Len(s) THEN s[i] ELSE more[i - Len(s)]
  BY <1>3, ConcatProperties
<1> HIDE DEF t
<1>9. \A i \in DOMAIN t : \/ i \in DOMAIN s /\ t[i] = s[i]
                          \/ /\ i \notin DOMAIN s /\ i - Len(s) \in DOMAIN more /\ i \in Nat
                             /\ t[i] = more[i - Len(s)]
  BY <1>6, <1>7, <1>8
<1>10. ASSUME NEW i \in DOMAIN t
       PROVE  \E k \in DOMAIN listing : /\ k \in Nat /\ k <= top /\ t[i] = listing[k]
                                        /\ i \in DOMAIN s => k <= a
                                        /\ i \notin DOMAIN s => k = a + (i - Len(s))
  <2>1. CASE i \in DOMAIN s /\ t[i] = s[i]
    <3>1. PICK k \in DOMAIN listing : k <= a /\ s[i] = listing[k]
      BY <1>5, <2>1
    <3>2. k \in Nat /\ k <= top
      BY <1>1, <1>4, <3>1
    <3>3. QED
      BY <2>1, <3>1, <3>2
  <2>2. CASE i \notin DOMAIN s /\ i - Len(s) \in DOMAIN more /\ t[i] = more[i - Len(s)]
    <3>1. /\ a + (i - Len(s)) \in DOMAIN listing /\ a + (i - Len(s)) <= top
          /\ t[i] = listing[a + (i - Len(s))]
      BY <1>2, <2>2
    <3>2. a + (i - Len(s)) \in Nat
      BY <1>1, <3>1
    <3>3. QED
      BY <2>2, <3>1, <3>2
  <2>3. QED
    BY <1>9, <2>1, <2>2
<1>11. Upto(t, listing, top)
  BY <1>10 DEF Upto
<1>12. IsInjective(t)
  <2> SUFFICES ASSUME NEW i \in DOMAIN t, NEW j \in DOMAIN t, t[i] = t[j] PROVE i = j
    BY DEF IsInjective
  <2>1. PICK k \in DOMAIN listing : /\ t[i] = listing[k]
                                    /\ i \in DOMAIN s => k <= a
                                    /\ i \notin DOMAIN s => k = a + (i - Len(s))
    BY <1>10
  <2>2. PICK l \in DOMAIN listing : /\ t[j] = listing[l]
                                    /\ j \in DOMAIN s => l <= a
                                    /\ j \notin DOMAIN s => l = a + (j - Len(s))
    BY <1>10
  <2>3. k = l
    BY <2>1, <2>2 DEF IsInjective
  <2>4. i \in Nat /\ j \in Nat /\ k \in Nat /\ l \in Nat
    BY <1>1, <1>7, <1>6
  <2>5. (i \notin DOMAIN s => i > Len(s)) /\ (j \notin DOMAIN s => j > Len(s))
    <3>1. i \in 1 .. Len(s) + Len(more) /\ j \in 1 .. Len(s) + Len(more)
      BY <1>7
    <3>2. QED
      BY <1>6, <2>4, <3>1
  <2>6. CASE i \in DOMAIN s /\ j \in DOMAIN s
    <3>1. t[i] = s[i] /\ t[j] = s[j]
      BY <1>9, <2>6
    <3>2. QED
      BY <2>6, <3>1 DEF IsInjective
  <2>7. CASE i \notin DOMAIN s /\ j \notin DOMAIN s
    BY <1>4, <1>6, <2>1, <2>2, <2>3, <2>4, <2>7
  <2>8. CASE i \in DOMAIN s /\ j \notin DOMAIN s
    <3>1. k <= a /\ l = a + (j - Len(s)) /\ j > Len(s)
      BY <2>1, <2>2, <2>5, <2>8
    <3>2. QED
      BY <1>4, <1>6, <2>3, <2>4, <3>1
  <2>9. CASE i \notin DOMAIN s /\ j \in DOMAIN s
    <3>1. l <= a /\ k = a + (i - Len(s)) /\ i > Len(s)
      BY <2>1, <2>2, <2>5, <2>9
    <3>2. QED
      BY <1>4, <1>6, <2>3, <2>4, <3>1
  <2>10. QED
    BY <2>6, <2>7, <2>8, <2>9
<1>13. QED
  BY <1>11, <1>12 DEF t, more, top

LEMMA ListingOrdered ==
    ASSUME NEW S \in SUBSET Groups
    PROVE  Listing[S] \in Seq(Groups) /\ IsInjective(Listing[S]) /\ ToSet(Listing[S]) = S
BY CommunityAssumption

LEMMA EmptySection ==
    \A listing, n : Upto(<<>>, listing, n) /\ IsInjective(<<>>)
BY EmptyList DEF Upto, IsInjective

(* A place up to n is one up to any later m.                               *)
LEMMA UptoLater ==
    ASSUME NEW listing \in Seq(Groups), NEW s, NEW n \in Nat, NEW m \in Nat, n <= m,
           Upto(s, listing, n)
    PROVE  Upto(s, listing, m)
<1>1. DOMAIN listing \subseteq Nat
  BY LenProperties
<1>2. \A k \in Nat : k <= n => k <= m
  OBVIOUS
<1>3. QED
  BY <1>1, <1>2 DEF Upto

-----------------------------------------------------------------------------
LEMMA InitSections == Init => SectionsTruth
<1> SUFFICES ASSUME Init PROVE SectionsTruth
  OBVIOUS
<1> DEFINE q == [id |-> 0, op |-> "list", page |-> 0, cc |-> {}, place |-> 0,
                 served |-> FALSE, success |-> FALSE, sign |-> <<>>, nosign |-> <<>>]
<1>1. inflight = {q} /\ OBJ_COMMUNITY_L1 = <<>> /\ OBJ_COMMUNITY_L2 = <<>> /\ PAGE_NUMBER = 0
  BY DEF Init
<1>2. q.op = "list" /\ q.page = 0 /\ ~q.served
  OBVIOUS
<1> HIDE DEF q
<1>3. ListsOf(inflight) = {q}
  BY <1>1, <1>2 DEF ListsOf
<1>4. \A n : Upto(OBJ_COMMUNITY_L2, Listing[Groups \ member], n) /\ IsInjective(OBJ_COMMUNITY_L2)
  BY <1>1, EmptySection
<1>5. ListsOf(inflight) # {} /\ \A r, s \in ListsOf(inflight) : r = s
  BY <1>3
<1>6. \A r \in ListsOf(inflight) :
        OBJ_COMMUNITY_L1 = <<>> /\ r.page <= PAGE_NUMBER /\ ~r.served
  BY <1>1, <1>2, <1>3
<1>7. QED
  BY <1>4, <1>5, <1>6 DEF SectionsTruth

(* A reload, of the whole list or of its next page: the sections wait for  *)
(* that page.                                                              *)
LEMMA GetSections ==
    ASSUME TypeOK, SectionsTruth, NEW page \in Nat, NEW pending \in SUBSET inflight,
           GET_COMMNUNITY_L(page, pending), member' = member,
           PAGE_NUMBER' \in Nat, page <= PAGE_NUMBER',
           page # 0 => page = PAGE_NUMBER + 1 /\ pending = inflight
    PROVE  SectionsTruth'
<1> SUFFICES ASSUME ~astray', Quiet' PROVE SectionsTruth'
  BY DEF SectionsTruth
<1> DEFINE q == NewRequest("list", page, {}, 0)
<1>1. q.op = "list" /\ q.page = page /\ ~q.served
  BY DEF NewRequest
<1>2. \/ inflight' = pending \cup {q} /\ astray' = (ListsOf(pending) # {} \/ (page # 0 /\ astray))
      \/ astray' = TRUE
  BY DEF GET_COMMNUNITY_L
<1>3. inflight' = pending \cup {q}
  BY <1>2
<1>4. ListsOf(pending) = {} /\ (page = 0 \/ ~astray)
  BY <1>2, Zenon
<1>5. /\ OBJ_COMMUNITY_L1' = <<>>
      /\ IF page = 0 THEN OBJ_COMMUNITY_L2' = <<>> ELSE OBJ_COMMUNITY_L2' = OBJ_COMMUNITY_L2
  BY DEF GET_COMMNUNITY_L
<1> HIDE DEF q
<1>6. ListsOf(inflight') = {q}
  BY <1>1, <1>3, <1>4 DEF ListsOf
<1>7. /\ Upto(OBJ_COMMUNITY_L2', Listing[Groups \ member], page * ITEM_COUNT)
      /\ IsInjective(OBJ_COMMUNITY_L2')
  <2>1. CASE page = 0
    BY <1>5, <2>1, EmptySection
  <2>2. CASE page # 0
    <3>1. /\ page = PAGE_NUMBER + 1 /\ pending = inflight /\ ~astray
          /\ OBJ_COMMUNITY_L2' = OBJ_COMMUNITY_L2
      BY <1>4, <1>5, <2>2
    <3>2. Quiet
      BY <1>3, <3>1 DEF Quiet, Unknown
    <3>3. /\ Upto(OBJ_COMMUNITY_L2, Listing[Groups \ member], (PAGE_NUMBER + 1) * ITEM_COUNT)
          /\ IsInjective(OBJ_COMMUNITY_L2)
      BY <1>4, <3>1, <3>2 DEF SectionsTruth
    <3>4. QED
      BY <3>1, <3>3
  <2>3. QED
    BY <2>1, <2>2
<1>8. QED
  BY <1>1, <1>5, <1>6, <1>7 DEF SectionsTruth

(* A step that leaves the list and its requests alone.                     *)
LEMMA SectionsFrame ==
    ASSUME SectionsTruth, UNCHANGED <<list, PAGE_NUMBER, member>>,
           ListsOf(inflight') = ListsOf(inflight),
           ~astray' /\ Quiet' => ~astray /\ Quiet
    PROVE  SectionsTruth'
BY DEF SectionsTruth, list

(* A change goes out, comes back refused or is lost.                       *)
LEMMA ListsWithChange ==
    ASSUME NEW r, r.op # "list"
    PROVE  /\ ListsOf(inflight \cup {r}) = ListsOf(inflight)
           /\ ListsOf(inflight \ {r}) = ListsOf(inflight)
BY DEF ListsOf

LEMMA PutSections ==
    ASSUME SectionsTruth, NEW op \in Changes, NEW cc, NEW place, PUT_COMMUNITY(op, cc, place)
    PROVE  SectionsTruth'
<1> DEFINE q == NewRequest(op, 0, {cc}, place)
<1>1. q.op = op /\ ~q.success
  BY DEF NewRequest
<1>2. inflight' = inflight \cup {q} /\ UNCHANGED <<list, PAGE_NUMBER, member, astray>>
  BY DEF PUT_COMMUNITY, paging
<1> HIDE DEF q
<1>3. ListsOf(inflight') = ListsOf(inflight)
  BY <1>1, <1>2, ListsWithChange, ChangesAreNotLists
<1>4. Quiet' => Quiet
  BY <1>2 DEF Quiet, Unknown
<1>5. QED
  BY <1>2, <1>3, <1>4, SectionsFrame

LEMMA ScreenSections ==
    ASSUME IInv, SectionsTruth
    PROVE  /\ ScrollToEnd => SectionsTruth'
           /\ \A goes \in BOOLEAN : ListAppears(goes) => SectionsTruth'
           /\ \A tag \in DOMAIN OBJ_COMMUNITY_L2 : JoinFromList(tag) => SectionsTruth'
           /\ JoinOrLeave => SectionsTruth'
           /\ \A groups, join, item : OpenGroup(groups, join, item) => SectionsTruth'
<1>0. TypeOK /\ PAGE_NUMBER \in Nat /\ inflight \in SUBSET inflight
  BY DEF IInv, TypeOK
<1>1. ASSUME ScrollToEnd PROVE SectionsTruth'
  <2>1. /\ GET_COMMNUNITY_L(PAGE_NUMBER + 1, inflight) /\ member' = member
        /\ PAGE_NUMBER + 1 \in Nat /\ PAGE_NUMBER' = PAGE_NUMBER + 1
        /\ PAGE_NUMBER + 1 <= PAGE_NUMBER'
    BY <1>0, <1>1 DEF ScrollToEnd
  <2>2. QED
    BY <1>0, <2>1, GetSections
<1>2. ASSUME NEW goes \in BOOLEAN, ListAppears(goes) PROVE SectionsTruth'
  <2>1. /\ GET_COMMNUNITY_L(0, inflight) /\ member' = member
        /\ PAGE_NUMBER' = PAGE_NUMBER /\ 0 \in Nat /\ 0 <= PAGE_NUMBER'
    BY <1>0, <1>2 DEF ListAppears, paging
  <2>2. QED
    BY <1>0, <2>1, GetSections
<1>3. ASSUME NEW tag \in DOMAIN OBJ_COMMUNITY_L2, JoinFromList(tag) PROVE SectionsTruth'
  <2>1. "register" \in Changes
    BY DEF Changes
  <2>2. QED
    BY <1>3, <2>1, PutSections DEF JoinFromList
<1>4. ASSUME JoinOrLeave PROVE SectionsTruth'
  <2> DEFINE verb == IF OBJ_COMMUNITY[POSITION].JOIN THEN "out" ELSE "register"
  <2>1. verb \in Changes
    BY DEF Changes
  <2>2. PUT_COMMUNITY(verb, OBJ_COMMUNITY[POSITION].cc, POSITION)
    BY <1>4 DEF JoinOrLeave
  <2> HIDE DEF verb
  <2>3. QED
    BY <2>1, <2>2, PutSections
<1>5. ASSUME NEW groups, NEW join, NEW item, OpenGroup(groups, join, item) PROVE SectionsTruth'
  <2>1. UNCHANGED <<list, PAGE_NUMBER, member, inflight, astray>>
    BY <1>5 DEF OpenGroup, paging
  <2>2. Quiet' => Quiet
    BY <2>1 DEF Quiet, Unknown
  <2>3. QED
    BY <2>1, <2>2, SectionsFrame
<1>6. QED
  BY <1>1, <1>2, <1>3, <1>4, <1>5

-----------------------------------------------------------------------------
(* The server answers a page, makes a change or refuses to.                *)
LEMMA ServerSections ==
    ASSUME IInv, SectionsTruth, NEW r \in inflight
    PROVE  ServeList(r) \/ ServeChange(r) \/ Refuse(r) => SectionsTruth'
<1>0. r \in Request /\ r.page \in Nat /\ (r.success => r.served)
  BY RequestFields DEF IInv, ChangesCarryNoRows
<1>1. ASSUME ServeList(r) PROVE SectionsTruth'
  <2> DEFINE t == [r EXCEPT !.served = TRUE, !.sign = Listing[member],
                            !.nosign = PageOf(Listing[Groups \ member], r.page)]
  <2>1. /\ r.op = "list" /\ t.op = "list" /\ t.page = r.page /\ t.sign = Listing[member]
        /\ t.nosign = PageOf(Listing[Groups \ member], r.page)
    BY <1>0, <1>1 DEF ServeList, Request
  <2>2. /\ inflight' = (inflight \ {r}) \cup {t}
        /\ UNCHANGED <<OBJ_COMMUNITY_L1, OBJ_COMMUNITY_L2, PAGE_NUMBER, member, astray>>
    BY <1>1 DEF ServeList, Served, list, paging
  <2> HIDE DEF t
  <2>3. ListsOf(inflight') = (ListsOf(inflight) \ {r}) \cup {t} /\ r \in ListsOf(inflight)
    BY <2>1, <2>2 DEF ListsOf
  <2>4. Quiet' => Quiet
    BY <2>1, <2>2, ChangesAreNotLists DEF Quiet, Unknown
  <2>5. ASSUME ~astray', Quiet' PROVE SectionsTruth'
    <3>1. /\ \A u \in ListsOf(inflight) : u = r
          /\ OBJ_COMMUNITY_L1 = <<>> /\ r.page <= PAGE_NUMBER
          /\ Upto(OBJ_COMMUNITY_L2, Listing[Groups \ member], r.page * ITEM_COUNT)
          /\ IsInjective(OBJ_COMMUNITY_L2)
      BY <2>2, <2>3, <2>4, <2>5 DEF SectionsTruth
    <3>2. ListsOf(inflight') = {t}
      BY <2>3, <3>1
    <3>3. QED
      BY <2>1, <2>2, <3>1, <3>2 DEF SectionsTruth
  <2>6. QED
    BY <2>5 DEF SectionsTruth
<1>2. ASSUME ServeChange(r) PROVE SectionsTruth'
  <2> DEFINE t == [r EXCEPT !.served = TRUE, !.success = TRUE]
  <2>1. t.op \in Changes /\ t.served /\ t.success
    BY <1>0, <1>2 DEF ServeChange, Request
  <2>2. inflight' = (inflight \ {r}) \cup {t}
    BY <1>2 DEF ServeChange, Served
  <2> HIDE DEF t
  <2>3. ~Quiet'
    BY <2>1, <2>2 DEF Quiet, Unknown
  <2>4. QED
    BY <2>3 DEF SectionsTruth
<1>3. ASSUME Refuse(r) PROVE SectionsTruth'
  <2> DEFINE t == [r EXCEPT !.served = TRUE]
  <2>1. r.op \in Changes /\ t.op = r.op
    BY <1>0, <1>3 DEF Refuse, Request
  <2>2. /\ ~r.served /\ inflight' = (inflight \ {r}) \cup {t}
        /\ UNCHANGED <<list, PAGE_NUMBER, member, astray>>
    BY <1>3 DEF Refuse, Served, paging
  <2> HIDE DEF t
  <2>3. ListsOf(inflight') = ListsOf(inflight)
    BY <2>1, <2>2, ChangesAreNotLists DEF ListsOf
  <2>4. Quiet' => Quiet
    BY <2>2 DEF Quiet, Unknown
  <2>5. QED
    BY <2>2, <2>3, <2>4, SectionsFrame
<1>4. QED
  BY <1>1, <1>2, <1>3

-----------------------------------------------------------------------------
(* An answer fills L1, and extends L2 by its page.                         *)
LEMMA AnswerListSections ==
    ASSUME IInv, SectionsTruth, NEW r \in inflight, AnswerList(r)
    PROVE  SectionsTruth'
<1> SUFFICES ASSUME ~astray', Quiet' PROVE SectionsTruth'
  BY DEF SectionsTruth
<1>1. /\ r.op = "list" /\ r.served /\ inflight' = inflight \ {r}
      /\ OBJ_COMMUNITY_L1' = OBJ_COMMUNITY_L1 \o r.sign
      /\ OBJ_COMMUNITY_L2' = OBJ_COMMUNITY_L2 \o r.nosign
      /\ UNCHANGED <<PAGE_NUMBER, member, astray>>
  BY DEF AnswerList
<1>2. /\ r.page \in Nat /\ PAGE_NUMBER \in Nat
      /\ OBJ_COMMUNITY_L2 \in Seq(Groups)
      /\ member \in SUBSET Groups /\ Groups \ member \in SUBSET Groups
  BY RequestFields DEF IInv, TypeOK
<1>3. Quiet /\ ~astray /\ r \in ListsOf(inflight)
  BY <1>1, ChangesAreNotLists DEF Quiet, Unknown, ListsOf
<1>4. /\ \A u \in ListsOf(inflight) : u = r
      /\ OBJ_COMMUNITY_L1 = <<>> /\ r.page <= PAGE_NUMBER
      /\ Upto(OBJ_COMMUNITY_L2, Listing[Groups \ member], r.page * ITEM_COUNT)
      /\ r.sign = Listing[member] /\ r.nosign = PageOf(Listing[Groups \ member], r.page)
      /\ IsInjective(OBJ_COMMUNITY_L2)
  BY <1>1, <1>3 DEF SectionsTruth
<1>5. ListsOf(inflight') = {}
  BY <1>1, <1>4 DEF ListsOf
<1>6. OBJ_COMMUNITY_L1' = Listing[member]
  <2>1. Listing[member] \in Seq(Groups)
    BY <1>2, ListingOrdered
  <2>2. QED
    BY <1>1, <1>4, <2>1, ConcatEmptySeq
<1>7. Listing[Groups \ member] \in Seq(Groups) /\ IsInjective(Listing[Groups \ member])
  BY <1>2, ListingOrdered
<1>8. /\ Upto(OBJ_COMMUNITY_L2', Listing[Groups \ member], (r.page + 1) * ITEM_COUNT)
      /\ IsInjective(OBJ_COMMUNITY_L2')
  BY <1>1, <1>2, <1>4, <1>7, ExtendSection
<1>9. /\ (r.page + 1) * ITEM_COUNT \in Nat /\ (PAGE_NUMBER + 1) * ITEM_COUNT \in Nat
      /\ (r.page + 1) * ITEM_COUNT <= (PAGE_NUMBER + 1) * ITEM_COUNT
  <2>1. PICK d \in Nat : PAGE_NUMBER = r.page + d
    <3>1. PAGE_NUMBER - r.page \in Nat /\ PAGE_NUMBER = r.page + (PAGE_NUMBER - r.page)
      BY <1>2, <1>4
    <3>2. QED
      BY <3>1
  <2>2. ITEM_COUNT \in Nat
    BY CommunityAssumption
  <2>3. d * ITEM_COUNT \in Nat /\ (r.page + 1) * ITEM_COUNT \in Nat
    BY <1>2, <2>2
  <2>4. (r.page + d + 1) * ITEM_COUNT = (r.page + 1) * ITEM_COUNT + d * ITEM_COUNT
    BY <1>2, <2>2
  <2>5. QED
    BY <1>2, <2>1, <2>3, <2>4
<1>10. Upto(OBJ_COMMUNITY_L2', Listing[Groups \ member], (PAGE_NUMBER + 1) * ITEM_COUNT)
  <2> DEFINE n == (r.page + 1) * ITEM_COUNT
             m == (PAGE_NUMBER + 1) * ITEM_COUNT
  <2>1. n \in Nat /\ m \in Nat /\ n <= m
    BY <1>9
  <2>2. Upto(OBJ_COMMUNITY_L2', Listing[Groups \ member], n)
    BY <1>8
  <2> HIDE DEF n, m
  <2>3. Upto(OBJ_COMMUNITY_L2', Listing[Groups \ member], m)
    BY <1>7, <2>1, <2>2, UptoLater
  <2>4. QED
    BY <2>3 DEF m
<1>11. QED
  BY <1>1, <1>5, <1>6, <1>8, <1>10 DEF SectionsTruth

LEMMA AnswerSections ==
    ASSUME IInv, SectionsTruth, NEW r \in inflight
    PROVE  AnswerList(r) \/ ListLost(r) \/ AnswerChanged(r) \/ AnswerRefused(r) \/ ChangeLost(r)
             => SectionsTruth'
<1>1. ASSUME ListLost(r) PROVE SectionsTruth'
  BY <1>1 DEF ListLost, SectionsTruth
<1>2. ASSUME AnswerChanged(r) PROVE SectionsTruth'
  <2> DEFINE pending == inflight \ {r}
  <2>1. /\ TypeOK /\ GET_COMMNUNITY_L(0, pending) /\ pending \in SUBSET inflight
        /\ member' = member /\ PAGE_NUMBER' = PAGE_NUMBER
        /\ 0 \in Nat /\ PAGE_NUMBER' \in Nat /\ 0 <= PAGE_NUMBER'
    BY <1>2 DEF AnswerChanged, paging, IInv, TypeOK
  <2> HIDE DEF pending
  <2>2. QED
    BY <2>1, GetSections
<1>3. ASSUME AnswerRefused(r) \/ ChangeLost(r) PROVE SectionsTruth'
  <2>1. /\ r.op \in Changes /\ inflight' = inflight \ {r}
        /\ UNCHANGED <<list, PAGE_NUMBER, member>>
    BY <1>3 DEF AnswerRefused, ChangeLost, paging
  <2>2. ~astray' => ~astray /\ ~Unknown(r)
    <3>1. CASE AnswerRefused(r)
      BY <3>1 DEF AnswerRefused, Unknown
    <3>2. CASE ChangeLost(r)
      BY <3>2, Zenon DEF ChangeLost
    <3>3. QED
      BY <1>3, <3>1, <3>2
  <2>3. ListsOf(inflight') = ListsOf(inflight)
    BY <2>1, ListsWithChange, ChangesAreNotLists
  <2>4. ~astray' /\ Quiet' => ~astray /\ Quiet
    BY <2>1, <2>2 DEF Quiet, Unknown
  <2>5. QED
    BY <2>1, <2>3, <2>4, SectionsFrame
<1>4. QED
  BY <1>1, <1>2, <1>3, AnswerListSections

-----------------------------------------------------------------------------
LEMMA NextSections == IInv /\ SectionsTruth /\ [Next]_vars => SectionsTruth'
<1> SUFFICES ASSUME IInv, SectionsTruth, [Next]_vars PROVE SectionsTruth'
  OBVIOUS
<1>1. CASE UNCHANGED vars
  <2>1. UNCHANGED <<list, PAGE_NUMBER, member, inflight, astray>>
    BY <1>1 DEF vars, paging
  <2>2. Quiet' => Quiet
    BY <2>1 DEF Quiet, Unknown
  <2>3. QED
    BY <2>1, <2>2, SectionsFrame
<1>2. CASE Next
  BY <1>2, ScreenSections, ServerSections, AnswerSections DEF Next
<1>3. QED
  BY <1>1, <1>2

(* With nothing on its way, the first section of the list is the server's  *)
(* list of the groups joined, and the second holds only others, once each  *)
(* - unless requests of the list overlapped or an answer was lost since    *)
(* the last clean reload (P_COMMUNITY 16: each request empties L1).        *)
THEOREM SectionsAreTrue == Spec => []SectionsTellMembership
<1>1. IInv /\ SectionsTruth => SectionsTellMembership
  <2> SUFFICES ASSUME IInv, SectionsTruth, ~astray, inflight = {}
               PROVE  /\ ToSet(OBJ_COMMUNITY_L1) = member
                      /\ ToSet(OBJ_COMMUNITY_L2) \cap member = {}
                      /\ IsInjective(OBJ_COMMUNITY_L1) /\ IsInjective(OBJ_COMMUNITY_L2)
    BY DEF SectionsTellMembership
  <2>1. Quiet /\ ListsOf(inflight) = {}
    BY DEF Quiet, ListsOf
  <2>2. /\ OBJ_COMMUNITY_L1 = Listing[member] /\ IsInjective(OBJ_COMMUNITY_L2)
        /\ Within(OBJ_COMMUNITY_L2, Groups \ member)
    BY <2>1 DEF SectionsTruth, IInv, ListTruth
  <2>3. member \in SUBSET Groups
    BY DEF IInv, TypeOK
  <2>4. ToSet(OBJ_COMMUNITY_L1) = member /\ IsInjective(OBJ_COMMUNITY_L1)
    BY <2>2, <2>3, ListingOrdered
  <2>5. ToSet(OBJ_COMMUNITY_L2) \cap member = {}
    BY <2>2 DEF Within, ToSet
  <2>6. QED
    BY <2>2, <2>4, <2>5
<1>2. Init => IInv /\ SectionsTruth
  BY InitInv, InitSections
<1>3. IInv /\ SectionsTruth /\ [Next]_vars => (IInv /\ SectionsTruth)'
  BY NextInv, NextSections
<1>4. QED
  BY <1>1, <1>2, <1>3, PTL DEF Spec
=============================================================================
