--------------------------- MODULE Session_proofs ---------------------------
(***************************************************************************)
(* Whose data the home screen, the stored session and the push topics are, *)
(* for any accounts, any notices, any faults and any number of loading     *)
(* screens.                                                                *)
(***************************************************************************)
EXTENDS Session, SequenceTheorems, TLAPS

(* A loading screen made asks once; the one on the window is still loading *)
(* while its request is unanswered.                                        *)
RequestsInv ==
    /\ \A r \in inflight :
        /\ r.loader <= loads
        /\ r.loader = loads => screen = "loading"
    /\ \A r, s \in inflight : r.loader = s.loader => r = s

(* The last record is the stored session, from the call of GET_LOGIN on    *)
(* and not only on the home screen.                                        *)
LastInv ==
    screen \in {"loading", "main"} =>
        /\ defaults # NoOne
        /\ OBJ_LOGIN # <<>> => OBJ_LOGIN[Len(OBJ_LOGIN)] = defaults

(* As long as none has overlapped, a request is the only one, asks for the *)
(* stored session, and finds the lists as its call left them.              *)
AloneInv ==
    ~overlapped =>
        /\ \A r, s \in inflight : r = s
        /\ \A r \in inflight : r.user = defaults
        /\ inflight # {} => /\ OBJ_LOGIN = <<>> /\ OBJ_SOSIK1 = <<>>
                            /\ screen \in {"loading", "stuck"}

(* With complete answers, the phone receives at most the pushes of the     *)
(* stored session, and the home screen has its record.                     *)
TopicsInv ==
    ~overlapped /\ ~lacking =>
        /\ topics \subseteq {defaults}
        /\ screen = "main" => OBJ_LOGIN = <<defaults>>

IInv ==
    /\ TypeOK /\ ButtonOpensItsNotice /\ HomeOfSession /\ LoggedOutStaysOut
    /\ RequestsInv /\ LastInv /\ AloneInv /\ TopicsInv

-----------------------------------------------------------------------------
LEMMA InitIInv == Init => IInv
<1> SUFFICES ASSUME Init PROVE IInv
  OBVIOUS
<1> USE DEF Init
<1>1. OBJ_LOGIN \in Seq(Users) /\ OBJ_SOSIK1 \in Seq(Notices) /\ shown \in Seq(Notices) /\ Len(shown) = 0
  BY EmptySeq
<1>2. TypeOK
  <2>1. loads \in 1 .. MaxLoads
    BY SessionAssumption
  <2>2. screen \in Screens /\ overlapped \in BOOLEAN /\ inflight \subseteq Request
    BY DEF Screens
  <2>3. QED
    BY <1>1, <2>1, <2>2 DEF TypeOK
<1>3. QED
  BY <1>1, <1>2 DEF IInv, ButtonOpensItsNotice, HomeOfSession, LoggedOutStaysOut, RequestsInv, LastInv,
     AloneInv, TopicsInv

(* A list the server sends is a sequence of notices, none twice.           *)
LEMMA HomeListType ==
    ASSUME NEW list \in HomeLists
    PROVE  list \in Seq(Notices) /\ IsInjective(list)
<1>1. list \in Seq(Range(list)) /\ IsInjective(list)
  BY SessionAssumption
<1>2. Range(list) \subseteq Notices
  BY DEF Notices
<1>3. QED
  BY <1>1, <1>2, SeqMonotonic

(* A new loading screen keeps the invariant, when what is passed to it     *)
(* continues the session: what is pending asks for that session, and the   *)
(* topics are its own.                                                     *)
LEMMA NewLoaderIInv ==
    ASSUME IInv,
           NEW session \in Users \cup {NoOne}, NEW pending \in SUBSET inflight,
           NEW login \in Seq(Users), NEW sosik \in Seq(Notices),
           NewLoader(session, pending, login, sosik),
           defaults' = session, topics' \subseteq Users,
           ~overlapped /\ pending # {} => session = defaults /\ login = OBJ_LOGIN /\ sosik = OBJ_SOSIK1,
           ~overlapped /\ ~lacking => topics' \subseteq {session},
           lacking' = lacking
    PROVE  IInv'
<1> DEFINE new == [loader |-> loads + 1, user |-> session]
<1>1. /\ loads < MaxLoads /\ loads' = loads + 1 /\ shown' = <<>>
      /\ \/ /\ session = NoOne /\ screen' = "auth" /\ inflight' = pending
            /\ OBJ_LOGIN' = login /\ OBJ_SOSIK1' = sosik /\ overlapped' = overlapped
         \/ /\ session # NoOne /\ screen' = "stuck" /\ inflight' = pending
            /\ OBJ_LOGIN' = login /\ OBJ_SOSIK1' = sosik /\ overlapped' = overlapped
         \/ /\ session # NoOne /\ screen' = "loading" /\ inflight' = pending \cup {new}
            /\ OBJ_LOGIN' = <<>> /\ OBJ_SOSIK1' = <<>>
            /\ overlapped' = (overlapped \/ pending # {})
  BY DEF NewLoader, GET_LOGIN
<1>2. loads \in Nat /\ loads' \in 1 .. MaxLoads /\ inflight \subseteq Request
  BY <1>1, SessionAssumption DEF IInv, TypeOK
<1>3. new.loader = loads' /\ new.user = session
  BY <1>1
<1>4. session # NoOne => new \in Request
  BY <1>1, <1>2 DEF Request
<1> HIDE DEF new
<1>5. TypeOK'
  <2>1. <<>> \in Seq(Users) /\ <<>> \in Seq(Notices)
    BY EmptySeq
  <2>2. inflight' \subseteq Request
    BY <1>1, <1>2, <1>4
  <2>3. OBJ_LOGIN' \in Seq(Users) /\ OBJ_SOSIK1' \in Seq(Notices) /\ shown' \in Seq(Notices)
    BY <1>1, <2>1
  <2>4. overlapped' \in BOOLEAN
    BY <1>1 DEF IInv, TypeOK
  <2>5. screen' \in Screens
    BY <1>1 DEF Screens
  <2>6. QED
    BY <1>2, <2>2, <2>3, <2>4, <2>5 DEF IInv, TypeOK
<1>6. ButtonOpensItsNotice'
  <2>1. Len(shown') = 0
    BY <1>1, EmptySeq
  <2>2. QED
    BY <2>1 DEF ButtonOpensItsNotice
<1>7. HomeOfSession' /\ TopicsInv'
  <2>1. screen' # "main"
    BY <1>1
  <2>2. ~overlapped' => ~overlapped
    BY <1>1, Zenon
  <2>3. HomeOfSession'
    BY <2>1 DEF HomeOfSession
  <2>4. QED
    BY <2>1, <2>2, <2>3 DEF TopicsInv
<1>8. RequestsInv'
  <2>1. \A r \in pending : r.loader <= loads /\ r.loader \in Nat
    BY <1>2 DEF IInv, RequestsInv, Request
  <2>2. \A r \in pending : r.loader <= loads' /\ r.loader # loads'
    BY <1>1, <1>2, <2>1
  <2>3. \A r, s \in pending : r.loader = s.loader => r = s
    BY DEF IInv, RequestsInv
  <2>4. \A r \in inflight' : r.loader <= loads' /\ (r.loader = loads' => screen' = "loading")
    BY <1>1, <1>2, <1>3, <2>2
  <2>5. \A r, s \in inflight' : r.loader = s.loader => r = s
    BY <1>1, <1>3, <2>2, <2>3
  <2>6. QED
    BY <2>4, <2>5 DEF RequestsInv
<1>9. LastInv' /\ LoggedOutStaysOut'
  BY <1>1 DEF LastInv, LoggedOutStaysOut
<1>10. AloneInv'
  <2> SUFFICES ASSUME ~overlapped' PROVE AloneInv'
    BY DEF AloneInv
  <2>1. ~overlapped
    BY <1>1
  <2>2. CASE pending = {}
    BY <1>1, <1>3, <2>2 DEF AloneInv
  <2>3. CASE pending # {}
    <3>1. /\ \A r, s \in pending : r = s
          /\ \A r \in pending : r.user = defaults
          /\ OBJ_LOGIN = <<>> /\ OBJ_SOSIK1 = <<>>
      BY <2>1, <2>3 DEF IInv, AloneInv
    <3>2. session # NoOne
      <4>1. PICK r \in pending : r.user = defaults
        BY <2>3, <3>1
      <4>2. r.user \in Users
        BY <1>2 DEF Request
      <4>3. QED
        BY <2>1, <2>3, <4>1, <4>2, SessionAssumption
    <3>3. screen' = "stuck" /\ inflight' = pending
      BY <1>1, <2>3, <3>2
    <3>4. OBJ_LOGIN' = <<>> /\ OBJ_SOSIK1' = <<>>
      BY <1>1, <2>1, <2>3, <3>1
    <3>5. QED
      BY <2>1, <2>3, <3>1, <3>3, <3>4 DEF AloneInv
  <2>4. QED
    BY <2>2, <2>3
<1>11. QED
  BY <1>5, <1>6, <1>7, <1>8, <1>9, <1>10 DEF IInv

(* The user, the system and pushes: every action that makes a loader.      *)
LEMMA LoaderIInv ==
    ASSUME IInv, Relaunch \/ PushTap \/ (\E u \in Users : SignIn(u)) \/ Logout
    PROVE  IInv'
<1>1. /\ defaults \in Users \cup {NoOne} /\ topics \subseteq Users
      /\ OBJ_LOGIN \in Seq(Users) /\ OBJ_SOSIK1 \in Seq(Notices)
  BY DEF IInv, TypeOK
<1>2. ~overlapped /\ ~lacking => topics \subseteq {defaults}
  BY DEF IInv, TopicsInv
<1>3. ~overlapped /\ screen \in {"auth", "main"} => inflight = {}
  BY DEF IInv, AloneInv
<1>4. CASE Relaunch
  <2>1. <<>> \in Seq(Users) /\ <<>> \in Seq(Notices)
    BY EmptySeq
  <2>2. /\ NewLoader(defaults, {}, <<>>, <<>>) /\ defaults' = defaults /\ topics' = topics
        /\ lacking' = lacking
    BY <1>4 DEF Relaunch
  <2>3. QED
    BY <1>1, <1>2, <2>1, <2>2, NewLoaderIInv
<1>5. CASE PushTap
  <2>1. /\ NewLoader(defaults, inflight, OBJ_LOGIN, OBJ_SOSIK1)
        /\ UNCHANGED <<defaults, topics, lacking>>
    BY <1>5 DEF PushTap
  <2>2. QED
    BY <1>1, <1>2, <2>1, NewLoaderIInv
<1>6. ASSUME NEW u \in Users, SignIn(u) PROVE IInv'
  <2>1. /\ screen = "auth" /\ defaults' = u /\ UNCHANGED <<topics, lacking>>
        /\ NewLoader(u, inflight, OBJ_LOGIN, OBJ_SOSIK1)
    BY <1>6 DEF SignIn
  <2>2. ~overlapped => defaults = NoOne
    BY <2>1 DEF IInv, LoggedOutStaysOut
  <2>3. ~overlapped /\ ~lacking => topics' \subseteq {u}
    BY <1>1, <1>2, <2>1, <2>2, SessionAssumption
  <2>4. QED
    BY <1>1, <1>3, <2>1, <2>3, NewLoaderIInv
<1>7. CASE Logout
  <2>1. /\ screen = "main" /\ topics' = topics \ Range(OBJ_LOGIN) /\ defaults' = NoOne
        /\ lacking' = lacking
        /\ NewLoader(NoOne, inflight, OBJ_LOGIN, OBJ_SOSIK1)
    BY <1>7 DEF Logout
  <2>2. ~overlapped /\ ~lacking => OBJ_LOGIN = <<defaults>>
    BY <2>1 DEF IInv, TopicsInv
  <2>3. defaults \in Range(<<defaults>>)
    BY DEF Range
  <2>4. ~overlapped /\ ~lacking => topics' \subseteq {NoOne}
    BY <1>2, <2>1, <2>2, <2>3
  <2>5. topics' \subseteq Users
    BY <1>1, <2>1
  <2>6. QED
    BY <1>1, <1>3, <2>1, <2>4, <2>5, NewLoaderIInv
<1>8. QED
  BY <1>4, <1>5, <1>6, <1>7

(* An answer without data: only the screen and the request change.         *)
LEMMA NoDataIInv ==
    ASSUME IInv, NEW r \in inflight, AnswerOtherBody(r) \/ AnswerFailed(r)
    PROVE  IInv'
<1> DEFINE after == IF OnWindow(r) THEN screen' \in {"stuck", "alert"} ELSE screen' = screen
<1>1. inflight' = inflight \ {r} /\ after
  BY DEF AnswerOtherBody, AnswerFailed
<1>2. UNCHANGED <<defaults, topics, lists, loads, shown, overlapped, lacking>>
  BY DEF AnswerOtherBody, AnswerFailed
<1> USE <1>2 DEF lists, OnWindow
<1>3. screen' \in {"stuck", "alert", screen}
  BY <1>1
<1>4. TypeOK'
  <2>1. screen' \in Screens
    BY <1>3 DEF IInv, TypeOK, Screens
  <2>2. inflight' \subseteq Request
    BY <1>1 DEF IInv, TypeOK
  <2>3. QED
    BY <2>1, <2>2 DEF IInv, TypeOK
<1>5. ButtonOpensItsNotice' /\ HomeOfSession' /\ LoggedOutStaysOut'
  BY <1>3 DEF IInv, ButtonOpensItsNotice, HomeOfSession, LoggedOutStaysOut
<1>6. RequestsInv'
  <2>1. /\ \A q \in inflight : q.loader <= loads /\ (q.loader = loads => screen = "loading")
        /\ \A q, s \in inflight : q.loader = s.loader => q = s
    BY DEF IInv, RequestsInv
  <2>2. ASSUME NEW q \in inflight', q.loader = loads PROVE screen' = "loading"
    <3>1. q \in inflight /\ q # r
      BY <1>1
    <3>2. r.loader # loads
      BY <2>1, <2>2, <3>1
    <3>3. QED
      BY <1>1, <2>1, <2>2, <3>1, <3>2
  <2>3. QED
    BY <1>1, <2>1, <2>2 DEF RequestsInv
<1>7. LastInv' /\ TopicsInv'
  BY <1>3 DEF IInv, LastInv, TopicsInv
<1>8. AloneInv'
  BY <1>1, <1>3 DEF IInv, AloneInv
<1>9. QED
  BY <1>4, <1>5, <1>6, <1>7, <1>8 DEF IInv

(* An answer with data: the lists grow, and the home screen is made if the *)
(* loader is the one on the window.                                        *)
LEMMA AnswerLoginIInv ==
    ASSUME IInv, NEW r \in inflight, AnswerLogin(r)
    PROVE  IInv'
<1> DEFINE stored  == StoreMember(r.user) /\ lacking' = lacking
           missing == lacking' = TRUE /\ UNCHANGED <<defaults, OBJ_LOGIN>>
<1>1. inflight' = inflight \ {r} /\ UNCHANGED <<loads, overlapped>> /\ ShowHome(r)
  BY DEF AnswerLogin
<1>2. stored \/ missing
  BY DEF AnswerLogin
<1>3. PICK list \in HomeLists : OBJ_SOSIK1' = OBJ_SOSIK1 \o list
  BY DEF AnswerLogin
<1>4. r.user \in Users /\ r.user # NoOne
  BY SessionAssumption DEF IInv, TypeOK, Request
<1>5. stored => /\ defaults' = r.user
                /\ OBJ_LOGIN' \in Seq(Users) /\ OBJ_LOGIN' # <<>>
                /\ OBJ_LOGIN'[Len(OBJ_LOGIN')] = r.user
  <2> SUFFICES ASSUME stored
               PROVE  /\ defaults' = r.user
                      /\ OBJ_LOGIN' \in Seq(Users) /\ OBJ_LOGIN' # <<>>
                      /\ OBJ_LOGIN'[Len(OBJ_LOGIN')] = r.user
    OBVIOUS
  <2>1. defaults' = r.user /\ OBJ_LOGIN' = Append(OBJ_LOGIN, r.user)
    BY DEF StoreMember
  <2>2. OBJ_LOGIN \in Seq(Users)
    BY DEF IInv, TypeOK
  <2>3. Append(OBJ_LOGIN, r.user) \in Seq(Users)
    BY <1>4, <2>2, AppendProperties
  <2>4. Append(OBJ_LOGIN, r.user) # <<>>
    BY <1>4, <2>2, AppendProperties
  <2>5. Append(OBJ_LOGIN, r.user)[Len(Append(OBJ_LOGIN, r.user))] = r.user
    BY <1>4, <2>2, AppendProperties
  <2>6. QED
    BY <2>1, <2>3, <2>4, <2>5
<1>6. /\ OBJ_SOSIK1' \in Seq(Notices)
      /\ \A i \in 1 .. Len(OBJ_SOSIK1) : i <= Len(OBJ_SOSIK1') /\ OBJ_SOSIK1'[i] = OBJ_SOSIK1[i]
  <2>1. OBJ_SOSIK1 \in Seq(Notices) /\ list \in Seq(Notices)
    BY HomeListType DEF IInv, TypeOK
  <2>2. /\ OBJ_SOSIK1 \o list \in Seq(Notices)
        /\ Len(OBJ_SOSIK1 \o list) = Len(OBJ_SOSIK1) + Len(list)
        /\ \A i \in 1 .. Len(OBJ_SOSIK1) + Len(list) :
             (OBJ_SOSIK1 \o list)[i] = IF i <= Len(OBJ_SOSIK1) THEN OBJ_SOSIK1[i] ELSE list[i - Len(OBJ_SOSIK1)]
    BY <2>1, ConcatProperties
  <2>3. Len(OBJ_SOSIK1) \in Nat /\ Len(list) \in Nat
    BY <2>1, LenProperties
  <2>4. QED
    BY <1>3, <2>2, <2>3
(* What the request of the loader on the window finds.                     *)
<1>7. r.loader = loads => screen = "loading"
  BY DEF IInv, RequestsInv
<1>8. ~overlapped => /\ inflight' = {} /\ screen \in {"loading", "stuck"}
                     /\ OBJ_LOGIN = <<>> /\ OBJ_SOSIK1 = <<>> /\ r.user = defaults
  BY <1>1 DEF IInv, AloneInv
<1>9. ~overlapped => /\ OBJ_SOSIK1' = list
                     /\ stored => OBJ_LOGIN' = <<defaults>>
                     /\ missing => OBJ_LOGIN' = <<>>
                     /\ defaults' = defaults
  <2> SUFFICES ASSUME ~overlapped
               PROVE  /\ OBJ_SOSIK1' = list
                      /\ stored => OBJ_LOGIN' = <<defaults>>
                      /\ missing => OBJ_LOGIN' = <<>>
                      /\ defaults' = defaults
    OBVIOUS
  <2>1. OBJ_SOSIK1' = list
    BY <1>3, <1>8, HomeListType, ConcatEmptySeq
  <2>2. Append(<<>>, defaults) = <<defaults>>
    OBVIOUS
  <2>3. stored => OBJ_LOGIN' = <<defaults>> /\ defaults' = defaults
    BY <1>8, <2>2 DEF StoreMember
  <2>4. missing => OBJ_LOGIN' = <<>> /\ defaults' = defaults
    BY <1>8
  <2>5. QED
    BY <1>2, <2>1, <2>3, <2>4
<1>10. CASE r.loader = loads
  <2>1. screen' = "main" /\ topics' = topics \cup Range(OBJ_LOGIN') /\ shown' = OBJ_SOSIK1'
    BY <1>1, <1>10 DEF ShowHome, OnWindow
  <2>2. OBJ_LOGIN' \in Seq(Users) /\ defaults' \in Users \cup {NoOne}
    BY <1>2, <1>4, <1>5 DEF IInv, TypeOK
  <2>3. Range(OBJ_LOGIN') \subseteq Users
    <3>1. \A i \in DOMAIN OBJ_LOGIN' : OBJ_LOGIN'[i] \in Users
      BY <2>2, ElementOfSeq, LenProperties
    <3>2. QED
      BY <3>1 DEF Range
  <2>4. TypeOK'
    <3>1. lacking' \in BOOLEAN
      BY <1>2 DEF IInv, TypeOK
    <3>2. QED
      BY <3>1, <1>1, <1>6, <2>1, <2>2, <2>3 DEF IInv, TypeOK, Screens
  <2>5. ButtonOpensItsNotice'
    <3>1. Len(OBJ_SOSIK1') \in Nat
      BY <1>6, LenProperties
    <3>2. QED
      BY <2>1, <3>1 DEF ButtonOpensItsNotice
  <2>6. HomeOfSession'
    BY <1>1, <1>2, <1>9, <2>1, HomeListType DEF HomeOfSession
  <2>7. LoggedOutStaysOut'
    BY <2>1 DEF LoggedOutStaysOut
  <2>8. RequestsInv'
    BY <1>1, <1>10 DEF IInv, RequestsInv
  <2>9. LastInv'
    BY <1>2, <1>4, <1>5, <1>7, <1>10 DEF IInv, LastInv
  <2>10. AloneInv'
    BY <1>1, <1>8 DEF AloneInv
  <2>11. TopicsInv'
    <3> SUFFICES ASSUME ~overlapped, ~lacking'
                 PROVE  topics' \subseteq {defaults'} /\ OBJ_LOGIN' = <<defaults'>>
      BY <1>1 DEF TopicsInv
    <3>0. stored /\ ~lacking
      BY <1>2
    <3>1. OBJ_LOGIN' = <<defaults>> /\ defaults' = defaults
      BY <3>0, <1>9
    <3>2. Range(<<defaults>>) = {defaults}
      BY DEF Range
    <3>3. topics \subseteq {defaults}
      BY <3>0 DEF IInv, TopicsInv
    <3>4. QED
      BY <2>1, <3>1, <3>2, <3>3
  <2>12. QED
    BY <2>4, <2>5, <2>6, <2>7, <2>8, <2>9, <2>10, <2>11 DEF IInv
<1>11. CASE r.loader # loads
  <2>1. screen' = screen /\ topics' = topics /\ shown' = shown
    BY <1>1, <1>11 DEF ShowHome, OnWindow
  <2>2. TypeOK'
    BY <1>1, <1>2, <1>4, <1>5, <1>6, <2>1 DEF IInv, TypeOK
  <2>3. ButtonOpensItsNotice'
    <3>1. \A i \in 1 .. Len(shown) : i \in 1 .. Len(OBJ_SOSIK1) /\ OBJ_SOSIK1[i] = shown[i]
      BY LenProperties DEF IInv, TypeOK, ButtonOpensItsNotice
    <3>2. QED
      BY <1>6, <2>1, <3>1 DEF ButtonOpensItsNotice
  <2>4. HomeOfSession' /\ LoggedOutStaysOut'
    BY <1>1, <1>8, <2>1 DEF HomeOfSession, LoggedOutStaysOut
  <2>5. RequestsInv'
    BY <1>1, <2>1 DEF IInv, RequestsInv
  <2>6. LastInv'
    BY <1>2, <1>4, <1>5, <2>1 DEF IInv, LastInv
  <2>7. AloneInv'
    BY <1>1, <1>8 DEF AloneInv
  <2>8. TopicsInv'
    <3>1. ~lacking' => ~lacking
      BY <1>2
    <3>2. QED
      BY <3>1, <1>1, <1>8, <1>9, <2>1 DEF IInv, TopicsInv
  <2>9. QED
    BY <2>2, <2>3, <2>4, <2>5, <2>6, <2>7, <2>8 DEF IInv
<1>12. QED
  BY <1>10, <1>11

LEMMA NextIInv == IInv /\ [Next]_vars => IInv'
<1>1. ASSUME IInv, Next PROVE IInv'
  BY <1>1, LoaderIInv, NoDataIInv, AnswerLoginIInv DEF Next, Answer
<1>2. ASSUME IInv, UNCHANGED vars PROVE IInv'
  BY <1>2 DEF vars, lists, IInv, TypeOK, ButtonOpensItsNotice, HomeOfSession, LoggedOutStaysOut,
     RequestsInv, LastInv, AloneInv, TopicsInv
<1>3. QED
  BY <1>1, <1>2

LEMMA AlwaysIInv == Spec => []IInv
  BY InitIInv, NextIInv, PTL DEF Spec

-----------------------------------------------------------------------------
(* Every variable has its type (GET_LOGIN, VC_LOADING, TBC_0, VC_SETTING). *)
THEOREM SessionTypeCorrect == Spec => []TypeOK
<1>1. IInv => TypeOK
  BY DEF IInv
<1>2. QED
  BY AlwaysIInv, <1>1, PTL

(* A notice button of the home screen opens the notice it was made for,    *)
(* whatever GET_LOGIN answers arrive after it was made (TBC_0.swift:190).  *)
THEOREM NoticeButtonsStayRight == Spec => []ButtonOpensItsNotice
<1>1. IInv => ButtonOpensItsNotice
  BY DEF IInv
<1>2. QED
  BY AlwaysIInv, <1>1, PTL

(* The account the screens show is the one their requests are made for,    *)
(* even when several GET_LOGIN ran at once (P_LOADING.swift:47, 87).       *)
THEOREM ShownAccountIsStored == Spec => []LastRecordIsStored
<1>1. IInv => LastRecordIsStored
  BY DEF IInv, LastInv, LastRecordIsStored
<1>2. QED
  BY AlwaysIInv, <1>1, PTL

(* Without overlapping requests the home screen is the session's alone.    *)
THEOREM SessionIsOwn == Spec => []HomeOfSession
<1>1. IInv => HomeOfSession
  BY DEF IInv
<1>2. QED
  BY AlwaysIInv, <1>1, PTL

(* After a logout, without overlapping requests, no late answer logs       *)
(* anybody in again, and, with member records in every answer, no          *)
(* account's pushes reach the phone (VC_SETTING.swift 132-141 undoes       *)
(* TBC_0.swift 72-81).                                                     *)
THEOREM LogoutLeavesNothing == Spec => []LogoutIsComplete
<1>1. IInv => LogoutIsComplete
  <2>1. IInv => LoggedOutStaysOut
    BY DEF IInv
  <2>2. ASSUME IInv, screen = "auth", ~overlapped, ~lacking PROVE topics = {}
    <3>1. defaults = NoOne /\ topics \subseteq {defaults} /\ topics \subseteq Users
      BY <2>2 DEF IInv, TypeOK, LoggedOutStaysOut, TopicsInv
    <3>2. QED
      BY <3>1, SessionAssumption
  <2>3. QED
    BY <2>1, <2>2 DEF LogoutIsComplete, TopicsLeft
<1>2. QED
  BY AlwaysIInv, <1>1, PTL
-----------------------------------------------------------------------------
(* What keeps a wait releasable: a loading screen has its request under    *)
(* way, whose answer will end it.                                          *)
LoadingHasRequest == screen = "loading" => \E r \in inflight : r.loader = loads

(* A new loading screen waits for its own request only.                    *)
LEMMA NewLoaderWaits ==
    ASSUME NEW session, NEW pending, NEW login, NEW sosik,
           NewLoader(session, pending, login, sosik)
    PROVE  LoadingHasRequest'
<1>1. loads' = loads + 1
  BY DEF NewLoader
<1>2. CASE screen' \in {"auth", "stuck"}
  BY <1>2 DEF LoadingHasRequest
<1>3. CASE [loader |-> loads + 1, user |-> session] \in inflight'
  BY <1>1, <1>3 DEF LoadingHasRequest
<1>4. QED
  BY <1>2, <1>3 DEF NewLoader, GET_LOGIN

(* The answer to it takes the screen on the window away, and no other      *)
(* answer does (P_LOADING.swift 42-107).                                   *)
LEMMA NextWaits == LoadingHasRequest /\ [Next]_vars => LoadingHasRequest'
<1> SUFFICES ASSUME LoadingHasRequest, [Next]_vars PROVE LoadingHasRequest'
  OBVIOUS
<1>1. ASSUME Relaunch \/ PushTap \/ (\E u \in Users : SignIn(u)) \/ Logout
      PROVE  LoadingHasRequest'
  BY <1>1, NewLoaderWaits DEF Relaunch, PushTap, SignIn, Logout
<1>2. ASSUME NEW r \in inflight, AnswerLogin(r) \/ AnswerOtherBody(r) \/ AnswerFailed(r)
      PROVE  LoadingHasRequest'
  <2>1. inflight' = inflight \ {r} /\ loads' = loads
    BY <1>2 DEF AnswerLogin, AnswerOtherBody, AnswerFailed
  <2>2. IF r.loader = loads THEN screen' # "loading" ELSE screen' = screen
    BY <1>2 DEF AnswerLogin, AnswerOtherBody, AnswerFailed, ShowHome, OnWindow
  <2>3. QED
    BY <2>1, <2>2 DEF LoadingHasRequest
<1>3. CASE UNCHANGED vars
  BY <1>3 DEF vars, LoadingHasRequest
<1>4. QED
  BY <1>1, <1>2, <1>3 DEF Next, Answer

(* The safety half of LoadingEnds: the loading screen on the window never  *)
(* waits for nothing.  Without a network it does not wait (it is stuck),   *)
(* and neither another loader's answer nor a push takes its request away.  *)
THEOREM LoadingIsAnswered == Spec => []LoadingHasRequest
<1>1. Init => LoadingHasRequest
  BY DEF Init, LoadingHasRequest
<1>2. QED
  BY <1>1, NextWaits, PTL DEF Spec
=============================================================================
