----------------------------- MODULE Community -----------------------------
(***************************************************************************)
(* The groups of a resident: the list VC_COMMUNITY (with VC_COMMUNITY_TC,  *)
(* P_COMMUNITY) and the membership part of a group's page VC_COMMUNITY_1.  *)
(* (The articles of that page are BoardList's.)                            *)
(*                                                                         *)
(* A group's page gets the whole array it was opened from and a POSITION   *)
(* in it.  PUT_COMMUNITY, called by both screens, remembers the position   *)
(* it was called with and, when it is answered, reloads the list and       *)
(* changes the entry at that position of whatever page is open by then.    *)
(***************************************************************************)
EXTENDS Integers, Sequences, FiniteSets, SequencesExt

CONSTANTS
    Groups,         \* the groups of the building (cc_code)
    Listing,        \* the order in which the server lists a set of groups
    ITEM_COUNT,     \* groups of one page (20 in the code)
    Joined,         \* the groups joined when the list appears
    Faults,         \* "offline": the network check fails; "answer": an answer is lost
    MaxPage,        \* bound: pages scrolled to
    MaxRequests     \* bound: requests sent

ASSUME CommunityAssumption ==
    /\ Listing \in [SUBSET Groups -> Seq(Groups)]
    /\ \A S \in SUBSET Groups : ToSet(Listing[S]) = S /\ IsInjective(Listing[S])
    /\ ITEM_COUNT \in Nat \ {0}
    /\ Joined \subseteq Groups
    /\ Faults \subseteq {"offline", "answer"}
    /\ MaxPage \in Nat /\ MaxRequests \in Nat

VARIABLES
    OBJ_COMMUNITY_L1, OBJ_COMMUNITY_L2,    \* groups joined; groups not joined
    tiles,          \* the groups joined, as the table last drew them
    FETCHING_MORE, PAGE_NUMBER,
    screen,         \* "list" or "group"
    OBJ_COMMUNITY, POSITION,    \* the group's page: its array and place in it
    VC_COMMUNITY_1_DEL,         \* whether PUT_COMMUNITY knows of that page
    inflight, sent,
    member,         \* server: the groups joined
    crashed,        \* an index was out of range
    astray,         \* history: the list mixes answers or misses a change
    blurred         \* history: the page was opened, or changed, over an
                    \* unanswered change

list == <<OBJ_COMMUNITY_L1, OBJ_COMMUNITY_L2, tiles>>
paging == <<FETCHING_MORE, PAGE_NUMBER>>
page1 == <<screen, OBJ_COMMUNITY, POSITION, VC_COMMUNITY_1_DEL>>
vars == <<list, paging, page1, inflight, sent, member, crashed, astray, blurred>>

(* An entry of the page's array.  (In the lists JOIN is given by the       *)
(* section: SET_JOIN is true in L1, false in L2.)                          *)
Entry == [cc : Groups, JOIN : BOOLEAN]

Changes == {"register", "out"}

(* op "list" asks for a page; a change names a group and the place of the  *)
(* button that was tapped.                                                 *)
Request == [id : Nat, op : {"list"} \cup Changes, page : Nat, cc : SUBSET Groups, place : Nat,
            served : BOOLEAN, success : BOOLEAN, sign : Seq(Groups), nosign : Seq(Groups)]

NewRequest(op, page, cc, place) ==
    [id |-> sent, op |-> op, page |-> page, cc |-> cc, place |-> place,
     served |-> FALSE, success |-> FALSE, sign |-> <<>>, nosign |-> <<>>]

ListsOf(pending) == {r \in pending : r.op = "list"}
ChangePending == \E r \in inflight : r.op \in Changes

(* A change the server made and the phone does not know of yet.            *)
Unknown(r) == r.op \in Changes /\ r.served /\ r.success

-----------------------------------------------------------------------------
(* Mutant of GET_COMMNUNITY_L: a later page leaves L1 as it is.            *)
GetKeepingJoined(page, pending) ==
    /\ IF page = 0 THEN OBJ_COMMUNITY_L1' = <<>> /\ OBJ_COMMUNITY_L2' = <<>> /\ tiles' = <<>>
                   ELSE UNCHANGED <<OBJ_COMMUNITY_L1, OBJ_COMMUNITY_L2, tiles>>
    /\ sent < MaxRequests
    /\ inflight' = pending \cup {NewRequest("list", page, {}, 0)}
    /\ sent' = sent + 1
    /\ astray' = (ListsOf(pending) # {} \/ (page # 0 /\ astray))

(* GET_COMMNUNITY_L with `pending` unanswered.  The first page empties     *)
(* both lists and redraws; a later one empties L1 and does not.            *)
GET_COMMNUNITY_L(page, pending) ==
    /\ OBJ_COMMUNITY_L1' = <<>>
    /\ IF page = 0 THEN OBJ_COMMUNITY_L2' = <<>> /\ tiles' = <<>>
                   ELSE UNCHANGED <<OBJ_COMMUNITY_L2, tiles>>
    /\ \/ /\ sent < MaxRequests
          /\ inflight' = pending \cup {NewRequest("list", page, {}, 0)}
          /\ sent' = sent + 1
          /\ astray' = (ListsOf(pending) # {} \/ (page # 0 /\ astray))
       \/ /\ "offline" \in Faults
          /\ inflight' = pending
          /\ astray' = TRUE
          /\ UNCHANGED sent

(* PUT_COMMUNITY.  (Offline it does nothing.)                              *)
PUT_COMMUNITY(op, cc, place) ==
    /\ sent < MaxRequests
    /\ inflight' = inflight \cup {NewRequest(op, 0, {cc}, place)}
    /\ sent' = sent + 1
    /\ blurred' = (blurred \/ ChangePending)
    /\ UNCHANGED <<list, paging, page1, member, crashed, astray>>

-----------------------------------------------------------------------------
(* viewWillAppear, the first time.                                         *)
Init ==
    /\ OBJ_COMMUNITY_L1 = <<>> /\ OBJ_COMMUNITY_L2 = <<>> /\ tiles = <<>>
    /\ FETCHING_MORE = FALSE /\ PAGE_NUMBER = 0
    /\ screen = "list" /\ OBJ_COMMUNITY = <<>> /\ POSITION = 0
    /\ VC_COMMUNITY_1_DEL = FALSE
    /\ inflight = {[id |-> 0, op |-> "list", page |-> 0, cc |-> {}, place |-> 0,
                    served |-> FALSE, success |-> FALSE, sign |-> <<>>, nosign |-> <<>>]}
    /\ sent = 1
    /\ member = Joined
    /\ crashed = FALSE /\ astray = FALSE /\ blurred = FALSE

(* scrollViewDidEndDecelerating at the end of the list.                    *)
ScrollToEnd ==
    /\ screen = "list" /\ OBJ_COMMUNITY_L2 # <<>> /\ ~FETCHING_MORE
    /\ PAGE_NUMBER < MaxPage
    /\ FETCHING_MORE' = TRUE
    /\ PAGE_NUMBER' = PAGE_NUMBER + 1
    /\ GET_COMMNUNITY_L(PAGE_NUMBER + 1, inflight)
    /\ UNCHANGED <<page1, member, crashed, blurred>>

(* JOIN_B of a row of the list.  (Its other branch is for an entry of L2   *)
(* with JOIN set: there is none.)                                          *)
JoinFromList(tag) ==
    /\ screen = "list"
    /\ PUT_COMMUNITY("register", OBJ_COMMUNITY_L2[tag], tag)

(* A group's page opens, from a row or a tile: the array, with JOIN as its *)
(* section says, and the place tapped.                                     *)
OpenGroup(groups, join, item) ==
    /\ screen = "list" /\ screen' = "group"
    /\ OBJ_COMMUNITY' = [i \in DOMAIN groups |-> [cc |-> groups[i], JOIN |-> join]]
    /\ POSITION' = item
    /\ VC_COMMUNITY_1_DEL' = TRUE
    /\ blurred' = (astray \/ ChangePending)
    /\ UNCHANGED <<list, paging, inflight, sent, member, crashed, astray>>

(* JOIN_B of a group's page.                                               *)
JoinOrLeave ==
    /\ screen = "group"
    /\ PUT_COMMUNITY(IF OBJ_COMMUNITY[POSITION].JOIN THEN "out" ELSE "register",
                     OBJ_COMMUNITY[POSITION].cc, POSITION)

(* Mutant of ListAppears: the page's reference is kept.                    *)
ListAppearsKeepingPage(goes) ==
    /\ screen = "group" /\ screen' = (IF goes THEN "list" ELSE "group")
    /\ GET_COMMNUNITY_L(0, inflight)
    /\ UNCHANGED <<OBJ_COMMUNITY, POSITION, VC_COMMUNITY_1_DEL, paging, member, crashed, blurred>>

(* viewWillAppear of the list: going back to it, or only starting to with  *)
(* the swipe and letting go - the page then stays, without its reference.  *)
ListAppears(goes) ==
    /\ screen = "group" /\ screen' = (IF goes THEN "list" ELSE "group")
    /\ VC_COMMUNITY_1_DEL' = FALSE
    /\ GET_COMMNUNITY_L(0, inflight)
    /\ UNCHANGED <<OBJ_COMMUNITY, POSITION, paging, member, crashed, blurred>>

-----------------------------------------------------------------------------
(* The server answers a page of the list: all groups joined, and a page of *)
(* the others.                                                             *)
PageOf(groups, page) ==
    SubSeq(groups, page * ITEM_COUNT + 1,
           IF Len(groups) < (page + 1) * ITEM_COUNT THEN Len(groups)
                                                    ELSE (page + 1) * ITEM_COUNT)

Served(r, served) ==
    /\ ~r.served
    /\ inflight' = (inflight \ {r}) \cup {served}
    /\ UNCHANGED <<list, paging, page1, sent, crashed, astray, blurred>>

ServeList(r) ==
    /\ r.op = "list"
    /\ Served(r, [r EXCEPT !.served = TRUE, !.sign = Listing[member],
                           !.nosign = PageOf(Listing[Groups \ member], r.page)])
    /\ UNCHANGED member

(* ... makes a change, or refuses to.                                      *)
ServeChange(r) ==
    /\ r.op \in Changes
    /\ Served(r, [r EXCEPT !.served = TRUE, !.success = TRUE])
    /\ member' = IF r.op = "register" THEN member \cup r.cc ELSE member \ r.cc

Refuse(r) ==
    /\ r.op \in Changes
    /\ Served(r, [r EXCEPT !.served = TRUE])
    /\ UNCHANGED member

(* The completion handler of GET_COMMNUNITY_L.  (Without rows the answer   *)
(* may be no dictionary: then an alert may say there is no more.)          *)
AnswerList(r) ==
    /\ r.op = "list" /\ r.served
    /\ inflight' = inflight \ {r}
    /\ OBJ_COMMUNITY_L1' = OBJ_COMMUNITY_L1 \o r.sign
    /\ OBJ_COMMUNITY_L2' = OBJ_COMMUNITY_L2 \o r.nosign
    /\ tiles' = OBJ_COMMUNITY_L1'
    /\ FETCHING_MORE' = FALSE
    /\ UNCHANGED <<PAGE_NUMBER, page1, sent, member, crashed, astray, blurred>>

(* ... without an answer: the table is redrawn, with L1 emptied.           *)
ListLost(r) ==
    /\ "answer" \in Faults /\ r.op = "list"
    /\ inflight' = inflight \ {r}
    /\ tiles' = OBJ_COMMUNITY_L1
    /\ FETCHING_MORE' = FALSE
    /\ astray' = TRUE
    /\ UNCHANGED <<OBJ_COMMUNITY_L1, OBJ_COMMUNITY_L2, PAGE_NUMBER, page1, sent, member, crashed,
                   blurred>>

(* What the handler of PUT_COMMUNITY does to the page that is open.        *)
MarkPage(r) ==
    IF ~VC_COMMUNITY_1_DEL \/ OBJ_COMMUNITY = <<>>
    THEN UNCHANGED <<OBJ_COMMUNITY, crashed>>
    ELSE IF r.place \in DOMAIN OBJ_COMMUNITY
    THEN /\ OBJ_COMMUNITY' = [OBJ_COMMUNITY EXCEPT ![r.place].JOIN = (r.op = "register")]
         /\ UNCHANGED crashed
    ELSE crashed' = TRUE /\ UNCHANGED OBJ_COMMUNITY

(* Mutant of AnswerChanged: leaving does not mark the page.                *)
AnswerChangedMarkingJoin(r) ==
    /\ Unknown(r)
    /\ GET_COMMNUNITY_L(0, inflight \ {r})
    /\ IF r.op = "register" THEN MarkPage(r) ELSE UNCHANGED <<OBJ_COMMUNITY, crashed>>
    /\ UNCHANGED <<paging, screen, POSITION, VC_COMMUNITY_1_DEL, member, blurred>>

(* The completion handler of PUT_COMMUNITY, "success".                     *)
AnswerChanged(r) ==
    /\ Unknown(r)
    /\ GET_COMMNUNITY_L(0, inflight \ {r})
    /\ MarkPage(r)
    /\ UNCHANGED <<paging, screen, POSITION, VC_COMMUNITY_1_DEL, member, blurred>>

(* ... refused: a notice; ... or no answer.                                *)
AnswerRefused(r) ==
    /\ r.op \in Changes /\ r.served /\ ~r.success
    /\ inflight' = inflight \ {r}
    /\ UNCHANGED <<list, paging, page1, sent, member, crashed, astray, blurred>>

ChangeLost(r) ==
    /\ "answer" \in Faults /\ r.op \in Changes
    /\ inflight' = inflight \ {r}
    /\ astray' = (astray \/ Unknown(r))
    /\ blurred' = (blurred \/ Unknown(r))
    /\ UNCHANGED <<list, paging, page1, sent, member, crashed>>

Next ==
    /\ ~crashed
    /\ \/ ScrollToEnd
       \/ \E tag \in DOMAIN OBJ_COMMUNITY_L2 : JoinFromList(tag)
       \/ \E item \in DOMAIN OBJ_COMMUNITY_L2 : OpenGroup(OBJ_COMMUNITY_L2, FALSE, item)
       \/ \E item \in DOMAIN tiles : OpenGroup(tiles, TRUE, item)
       \/ JoinOrLeave
       \/ \E goes \in BOOLEAN : ListAppears(goes)
       \/ \E r \in inflight :
            \/ ServeList(r) \/ ServeChange(r) \/ Refuse(r)
            \/ AnswerList(r) \/ ListLost(r)
            \/ AnswerChanged(r) \/ AnswerRefused(r) \/ ChangeLost(r)

Spec == Init /\ [][Next]_vars
-----------------------------------------------------------------------------
(* Properties.                                                             *)

(* Types of the two screens and of the requests.                           *)
TypeOK ==
    /\ OBJ_COMMUNITY_L1 \in Seq(Groups) /\ OBJ_COMMUNITY_L2 \in Seq(Groups)
    /\ tiles \in Seq(Groups)
    /\ FETCHING_MORE \in BOOLEAN /\ PAGE_NUMBER \in Nat
    /\ screen \in {"list", "group"}
    /\ OBJ_COMMUNITY \in Seq(Entry) /\ POSITION \in Nat
    /\ VC_COMMUNITY_1_DEL \in BOOLEAN
    /\ inflight \subseteq Request /\ sent \in Nat
    /\ member \subseteq Groups
    /\ crashed \in BOOLEAN /\ astray \in BOOLEAN /\ blurred \in BOOLEAN

Quiet == \A r \in inflight : ~Unknown(r)

(* The two sections of the list tell the truth: once nothing is on its     *)
(* way, section "joined" holds exactly the groups joined, "not joined"     *)
(* only others, and no group twice - unless two list requests overlapped   *)
(* or an answer was lost since the last clean reload.  (P_COMMUNITY 16: L1 *)
(* must be emptied for each page, since each answer holds all of it.)      *)
SectionsTellMembership ==
    ~astray /\ inflight = {} =>
        /\ ToSet(OBJ_COMMUNITY_L1) = member
        /\ ToSet(OBJ_COMMUNITY_L2) \cap member = {}
        /\ IsInjective(OBJ_COMMUNITY_L1) /\ IsInjective(OBJ_COMMUNITY_L2)

(* The page of a group offers to join a group the resident is not in, and  *)
(* to leave one the resident is in (VC_COMMUNITY_1 97, 163), as far as the *)
(* phone can know - unless it was opened or its button tapped while        *)
(* another change was unanswered, or the swipe cut it off.                 *)
PageTellsMembership ==
    screen = "group" /\ VC_COMMUNITY_1_DEL /\ ~blurred /\ Quiet =>
        (OBJ_COMMUNITY[POSITION].JOIN <=> OBJ_COMMUNITY[POSITION].cc \in member)

(* The place remembered by a change is out of the open page's array only   *)
(* when that page was opened, or changed, over an unanswered change        *)
(* (P_COMMUNITY 117, 119).                                                 *)
CrashNeedsCrossing == crashed => blurred
=============================================================================
