------------------------------ MODULE Session ------------------------------
(***************************************************************************)
(* The app from launch to the home screen and back: VC_LOADING (installed  *)
(* as the window's root by AppDelegate, by a tapped push, by a login or by *)
(* a logout), GET_LOGIN (P_LOADING), the home screen TBC_0 with its push   *)
(* topics and notice buttons, and the logout of VC_SETTING.                *)
(*                                                                         *)
(* GET_LOGIN empties the global lists when it is CALLED and appends to     *)
(* them when it is ANSWERED.  A tapped push replaces the root while the    *)
(* old loader's request runs on; its completion handler holds the old      *)
(* loader, so it still writes UserDefaults and the lists, though it can no *)
(* longer navigate.  Launching by a push is one such case: AppDelegate's   *)
(* loader and the push's both ask.                                         *)
(***************************************************************************)
EXTENDS Naturals, Sequences, Functions

CONSTANTS
    Users,          \* accounts
    NoOne,          \* UserDefaults without mb_id and home_code
    HomeLists,      \* what the server may send for the home screen's notices
    Faults,         \* what may go wrong, of the kinds below
    MaxLoads        \* bound: loading screens made

FaultKinds == {"offline", "missing", "body", "failure"}

ASSUME SessionAssumption ==
    /\ NoOne \notin Users
    /\ \A list \in HomeLists : list \in Seq(Range(list)) /\ IsInjective(list)
    /\ Faults \subseteq FaultKinds
    /\ MaxLoads \in Nat \ {0}

Notices == UNION {Range(list) : list \in HomeLists}

VARIABLES
    defaults,       \* UserDefaults: whose mb_id and home_code are stored
    topics,         \* the accounts whose push topics this phone receives
    OBJ_LOGIN,      \* accounts of the member records received
    OBJ_SOSIK1,     \* notices of the home screen received
    inflight,       \* GET_LOGIN requests unanswered
    loads,          \* loading screens made; the last one is on the window
    screen,         \* what the window shows
    shown,          \* the notices TBC_0 made buttons of, by tag - 10
    overlapped,     \* history: a GET_LOGIN was called with one unanswered
    lacking         \* history: an answer came without the member record

lists == <<OBJ_LOGIN, OBJ_SOSIK1>>
vars == <<defaults, topics, lists, inflight, loads, screen, shown, overlapped, lacking>>

Screens == {"loading", "stuck", "alert", "auth", "main"}
Request == [loader : 1 .. MaxLoads, user : Users]

-----------------------------------------------------------------------------
(* Mutant of GET_LOGIN: the lists are not emptied before the request.      *)
GetLoginKeepingLists(session, pending, login, sosik) ==
    /\ screen' = "loading"
    /\ inflight' = pending \cup {[loader |-> loads + 1, user |-> session]}
    /\ OBJ_LOGIN' = login /\ OBJ_SOSIK1' = sosik
    /\ overlapped' = (overlapped \/ pending # {})

(* GET_LOGIN of a new loader, while the requests `pending` are unanswered  *)
(* and the lists are `login` and `sosik`.  Without a network it gives up   *)
(* before it empties the lists, and nothing calls it again: the loading    *)
(* screen stays.                                                           *)
GET_LOGIN(session, pending, login, sosik) ==
    \/ /\ "offline" \in Faults
       /\ screen' = "stuck"
       /\ inflight' = pending
       /\ OBJ_LOGIN' = login /\ OBJ_SOSIK1' = sosik
       /\ UNCHANGED overlapped
    \/ /\ screen' = "loading"
       /\ inflight' = pending \cup {[loader |-> loads + 1, user |-> session]}
       /\ OBJ_LOGIN' = <<>> /\ OBJ_SOSIK1' = <<>>
       /\ overlapped' = (overlapped \/ pending # {})

(* viewDidLoad of a new VC_LOADING that finds `session` stored.            *)
NewLoader(session, pending, login, sosik) ==
    /\ loads < MaxLoads
    /\ loads' = loads + 1
    /\ shown' = <<>>
    /\ \/ /\ session = NoOne
          /\ screen' = "auth"
          /\ inflight' = pending
          /\ OBJ_LOGIN' = login /\ OBJ_SOSIK1' = sosik
          /\ UNCHANGED overlapped
       \/ /\ session # NoOne
          /\ GET_LOGIN(session, pending, login, sosik)

(* A first launch, with nothing stored.                                    *)
Init ==
    /\ defaults = NoOne
    /\ topics = {}
    /\ OBJ_LOGIN = <<>> /\ OBJ_SOSIK1 = <<>>
    /\ inflight = {}
    /\ loads = 1
    /\ screen = "auth"
    /\ shown = <<>>
    /\ overlapped = FALSE /\ lacking = FALSE

(* The process ends (by the system, the user, or exit(0) of the alert) and *)
(* is launched again: memory is lost, UserDefaults and topics are kept.    *)
Relaunch ==
    /\ NewLoader(defaults, {}, <<>>, <<>>)
    /\ UNCHANGED <<defaults, topics, lacking>>

(* A push is tapped, or delivered to didReceiveRemoteNotification: a new   *)
(* VC_LOADING replaces the root whatever the app is doing.                 *)
PushTap ==
    /\ NewLoader(defaults, inflight, OBJ_LOGIN, OBJ_SOSIK1)
    /\ UNCHANGED <<defaults, topics, lacking>>

(* The sign-in screens end (see Auth): the account is stored, a new        *)
(* VC_LOADING is pushed.                                                   *)
SignIn(u) ==
    /\ screen = "auth"
    /\ defaults' = u
    /\ NewLoader(u, inflight, OBJ_LOGIN, OBJ_SOSIK1)
    /\ UNCHANGED <<topics, lacking>>

(* Mutant of Logout: the topics are not left.                              *)
LogoutKeepingTopics ==
    /\ screen = "main"
    /\ defaults' = NoOne
    /\ NewLoader(NoOne, inflight, OBJ_LOGIN, OBJ_SOSIK1)
    /\ UNCHANGED <<topics, lacking>>

(* VC_SETTING, "로그아웃": the topics of the records at hand are left, the    *)
(* session is removed, a new VC_LOADING is pushed.                         *)
Logout ==
    /\ screen = "main"
    /\ topics' = topics \ Range(OBJ_LOGIN)
    /\ defaults' = NoOne
    /\ NewLoader(NoOne, inflight, OBJ_LOGIN, OBJ_SOSIK1)
    /\ UNCHANGED lacking

-----------------------------------------------------------------------------
(* The part of the completion handler that only the loader on the window   *)
(* performs.  TBC_0 subscribes to the topics of every record and makes a   *)
(* button of every notice.                                                 *)
OnWindow(r) == r.loader = loads

ShowHome(r) ==
    IF OnWindow(r)
    THEN /\ screen' = "main"
         /\ topics' = topics \cup Range(OBJ_LOGIN')
         /\ shown' = OBJ_SOSIK1'
    ELSE UNCHANGED <<screen, topics, shown>>

(* Mutant of StoreMember: the newest record is put first.                  *)
StoreMemberFirst(u) ==
    /\ defaults' = u
    /\ OBJ_LOGIN' = <<u>> \o OBJ_LOGIN

(* The member record: stored as the session and appended.                  *)
StoreMember(u) ==
    /\ defaults' = u
    /\ OBJ_LOGIN' = Append(OBJ_LOGIN, u)

(* Mutant of AnswerLogin: the notices are replaced instead of appended to. *)
AnswerLoginReplacing(r) ==
    /\ inflight' = inflight \ {r}
    /\ \/ StoreMember(r.user) /\ UNCHANGED lacking
       \/ "missing" \in Faults /\ lacking' = TRUE /\ UNCHANGED <<defaults, OBJ_LOGIN>>
    /\ OBJ_SOSIK1' \in HomeLists
    /\ ShowHome(r)
    /\ UNCHANGED <<loads, overlapped>>

(* A dictionary: what it holds is appended, then the home screen is shown. *)
AnswerLogin(r) ==
    /\ inflight' = inflight \ {r}
    /\ \/ StoreMember(r.user) /\ UNCHANGED lacking
       \/ "missing" \in Faults /\ lacking' = TRUE /\ UNCHANGED <<defaults, OBJ_LOGIN>>
    /\ \E list \in HomeLists : OBJ_SOSIK1' = OBJ_SOSIK1 \o list
    /\ ShowHome(r)
    /\ UNCHANGED <<loads, overlapped>>

(* A body that is no dictionary: the handler has no branch for it.         *)
AnswerOtherBody(r) ==
    /\ "body" \in Faults
    /\ inflight' = inflight \ {r}
    /\ screen' = IF OnWindow(r) THEN "stuck" ELSE screen
    /\ UNCHANGED <<defaults, topics, lists, loads, shown, overlapped, lacking>>

(* Mutant of AnswerFailed: the error is printed and nothing is presented.  *)
AnswerFailedSilently(r) ==
    /\ "failure" \in Faults
    /\ inflight' = inflight \ {r}
    /\ UNCHANGED <<defaults, topics, lists, loads, screen, shown, overlapped, lacking>>

(* No answer, an error or the time limit: an alert whose only button ends  *)
(* the process.  A loader off the window presents nothing.                 *)
AnswerFailed(r) ==
    /\ "failure" \in Faults
    /\ inflight' = inflight \ {r}
    /\ screen' = IF OnWindow(r) THEN "alert" ELSE screen
    /\ UNCHANGED <<defaults, topics, lists, loads, shown, overlapped, lacking>>

Answer == \E r \in inflight : AnswerLogin(r) \/ AnswerOtherBody(r) \/ AnswerFailed(r)

Next ==
    \/ Relaunch
    \/ PushTap
    \/ \E u \in Users : SignIn(u)
    \/ Logout
    \/ Answer

Spec == Init /\ [][Next]_vars

(* Alamofire completes every request, with an answer or an error.  Nothing *)
(* is assumed of the user.                                                 *)
FairSpec == Spec /\ WF_vars(Answer)

-----------------------------------------------------------------------------
(* Every variable has its type: a record that lacks mb_id is not stored as *)
(* the session, and the lists hold accounts and notices the server sent.   *)
TypeOK ==
    /\ defaults \in Users \cup {NoOne}
    /\ topics \subseteq Users
    /\ OBJ_LOGIN \in Seq(Users)
    /\ OBJ_SOSIK1 \in Seq(Notices)
    /\ shown \in Seq(Notices)
    /\ loads \in 1 .. MaxLoads
    /\ inflight \subseteq Request
    /\ screen \in Screens
    /\ overlapped \in BOOLEAN
    /\ lacking \in BOOLEAN

(* TBC_0's button `tag` opens OBJ_SOSIK1[tag - 10] as it is when tapped    *)
(* (TBC_0.swift:190): whatever answers came since, that is the notice the  *)
(* button was made for, and it exists.                                     *)
ButtonOpensItsNotice ==
    \A i \in 1 .. Len(shown) : i <= Len(OBJ_SOSIK1) /\ OBJ_SOSIK1[i] = shown[i]

(* The screens that loop over OBJ_LOGIN keep the last record they see      *)
(* (VC_PROFILE, TBC_2); their requests send the stored mb_id.  Both are    *)
(* the same account, however many GET_LOGIN ran at once.                   *)
LastRecordIsStored ==
    screen = "main" =>
        /\ defaults # NoOne
        /\ OBJ_LOGIN # <<>> => OBJ_LOGIN[Len(OBJ_LOGIN)] = defaults

(* Unless a GET_LOGIN was called while another was unanswered, the home    *)
(* screen shows one account and each notice once: what earlier sessions,   *)
(* launches and pushes loaded is gone.                                     *)
HomeOfSession ==
    screen = "main" /\ ~overlapped =>
        /\ OBJ_LOGIN \in {<<>>, <<defaults>>}
        /\ IsInjective(shown)

(* Unless requests overlapped, the sign-in screen means no session is      *)
(* stored: no late answer brings back the account that was logged out.     *)
LoggedOutStaysOut ==
    screen = "auth" /\ ~overlapped => defaults = NoOne

(* ... and no account's pushes reach the phone any more, provided every    *)
(* answer carried the member record.                                       *)
TopicsLeft ==
    screen = "auth" /\ ~overlapped /\ ~lacking => topics = {}

(* Both: a logout leaves nothing behind (VC_SETTING 127-153).              *)
LogoutIsComplete == LoggedOutStaysOut /\ TopicsLeft

(* A loading screen is left for the home screen, the sign-in screens or    *)
(* the alert, or is stuck: without a network at the start, or by a body    *)
(* that is no dictionary.  No other schedule of answers keeps it waiting.  *)
(* (The screen may be made anew by a push in between, MaxLoads times.)     *)
LoadingEnds == screen = "loading" ~> screen # "loading"
=============================================================================
