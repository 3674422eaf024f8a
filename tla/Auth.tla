-------------------------------- MODULE Auth --------------------------------
(***************************************************************************)
(* The sign-in screen: VC_AUTH (two text fields, the buttons they show and *)
(* hide, three agreement boxes, the login button) and P_AUTH (PUT_AUTH:    *)
(* ask the server for a code, have it check a code), with what they leave  *)
(* in UserDefaults for the next launch.                                    *)
(*                                                                         *)
(* No answer is matched with its request: every completion handler works   *)
(* on the text fields and arrays it finds when it runs.                    *)
(***************************************************************************)
EXTENDS Naturals, Sequences, FiniteSets

CONSTANTS
    Phones,         \* complete phone numbers (13 characters with dashes)
    TestPhones,     \* the two numbers whose code the app fills in itself
    NoText,         \* an empty text field, an absent UserDefaults entry
    Partial,        \* text shorter than the field asks for
    Trial,          \* the account built into the app
    MaxRequests     \* bound: requests unanswered at a time

Code == "code"

ASSUME AuthAssumption ==
    /\ TestPhones \subseteq Phones
    /\ NoText \notin Phones /\ Partial \notin Phones /\ Trial \notin Phones
    /\ NoText # Partial /\ NoText # Trial /\ Code \notin {NoText, Partial}
    /\ MaxRequests \in Nat

VARIABLES
    TF1, TF2,       \* NUMBER_TF1 (phone) and NUMBER_TF2 (code)
    V1, V2,         \* NUMBER_V1 (ask for a code), NUMBER_V2 (check it): shown
    V1_1, V1_2,     \* CUSTOM_V1_1 (sign-up hint), CUSTOM_V1_2 (ask again): shown
    SIGNCHECK,      \* the code was checked and nothing edited since
    OBJ_AUTH,       \* member records received, by the phone they belong to
    AGREE_B,        \* isSelected of the boxes "all" (1), privacy (2), terms (3)
    AGREE_I1,       \* the tick drawn beside "all"
    inflight,       \* requests unanswered: their kind, phone and number
    mb_id,          \* UserDefaults: the member's phone
    account,        \* UserDefaults: whose apartment data (home_code etc.)
    page,           \* "auth", or "loading" once VC_LOADING is pushed
    verified,       \* history: the phone of the last check that succeeded
    edited          \* history: the phone was edited with a check unanswered

fields == <<TF1, TF2>>
views == <<V1, V2, V1_1, V1_2>>
agreements == <<AGREE_B, AGREE_I1>>
defaults == <<mb_id, account>>
history == <<verified, edited>>
authVars == <<fields, views, SIGNCHECK, OBJ_AUTH, agreements, inflight, defaults, page, history>>

Texts(full) == full \cup {NoText, Partial}
Ids == 1 .. MaxRequests
Request == [id : Ids, type : {"request", "check"}, mb_id : Phones \cup {NoText, Partial}]

-----------------------------------------------------------------------------
(* The screen is entered by VC_LOADING, which found no complete session:   *)
(* nothing stored, or the phone of a sign-in that was not finished.        *)
AuthInit ==
    /\ TF1 = NoText /\ TF2 = NoText
    /\ V1 = FALSE /\ V2 = FALSE /\ V1_1 = TRUE /\ V1_2 = FALSE
    /\ SIGNCHECK = FALSE
    /\ OBJ_AUTH = <<>>
    /\ AGREE_B = [b \in 1 .. 3 |-> FALSE] /\ AGREE_I1 = FALSE
    /\ inflight = {}
    /\ mb_id = NoText /\ account = NoText
    /\ page = "auth"
    /\ verified = NoText /\ edited = FALSE

CheckPending == \E r \in inflight : r.type = "check"

(* Mutant of EditPhone: SIGNCHECK survives the edit.                       *)
EditPhoneStaySigned(text) ==
    /\ page = "auth" /\ (text # TF1 \/ text = Partial)
    /\ TF1' = text /\ TF2' = NoText
    /\ V1' = (text # NoText) /\ V2' = FALSE /\ V1_1' = TRUE /\ V1_2' = FALSE
    /\ edited' = (edited \/ CheckPending)
    /\ UNCHANGED <<SIGNCHECK, OBJ_AUTH, agreements, inflight, defaults, page, verified>>

(* S_TEXT on NUMBER_TF1.                                                   *)
EditPhone(text) ==
    /\ page = "auth" /\ (text # TF1 \/ text = Partial)
    /\ SIGNCHECK' = FALSE
    /\ TF1' = text /\ TF2' = NoText
    /\ V1' = (text # NoText) /\ V2' = FALSE /\ V1_1' = TRUE /\ V1_2' = FALSE
    /\ edited' = (edited \/ CheckPending)
    /\ UNCHANGED <<OBJ_AUTH, agreements, inflight, defaults, page, verified>>

(* S_TEXT on NUMBER_TF2.                                                   *)
EditCode(text) ==
    /\ page = "auth" /\ (text # TF2 \/ text = Partial)
    /\ SIGNCHECK' = FALSE
    /\ TF2' = text
    /\ V1' = (text = NoText) /\ V2' = (text # NoText)
    /\ UNCHANGED <<TF1, V1_1, V1_2, OBJ_AUTH, agreements, inflight, defaults, page, history>>

(* Mutant of PUT_AUTH: the records of an earlier check stay.               *)
PutAuthKeepingRecords(type) ==
    \E id \in Ids :
        /\ \A r \in inflight : r.id # id
        /\ inflight' = inflight \cup {[id |-> id, type |-> type, mb_id |-> TF1]}
        /\ UNCHANGED <<fields, views, SIGNCHECK, OBJ_AUTH, agreements, defaults, page, history>>

(* PUT_AUTH, online: the records of an earlier check go at once, whatever  *)
(* is being asked; the phone is the one in the field now.                  *)
PUT_AUTH(type) ==
    \E id \in Ids :
        /\ \A r \in inflight : r.id # id
        /\ OBJ_AUTH' = <<>>
        /\ inflight' = inflight \cup {[id |-> id, type |-> type, mb_id |-> TF1]}
        /\ UNCHANGED <<fields, views, SIGNCHECK, agreements, defaults, page, history>>

(* NUMBER_B1 (inside NUMBER_V1) and SIGN_B2 (inside CUSTOM_V1_2).          *)
RequestCode ==
    /\ page = "auth" /\ (V1 \/ V1_2)
    /\ TF1 \in Phones
    /\ PUT_AUTH("request")

(* NUMBER_B2.                                                              *)
CheckCode ==
    /\ page = "auth" /\ V2
    /\ TF2 = Code
    /\ PUT_AUTH("check")

-----------------------------------------------------------------------------
(* Answers of the server.                                                  *)
Received(r, type) == r.type = type /\ inflight' = inflight \ {r}

(* "success" (or "none" with a key): the code was sent.  For the two test  *)
(* numbers - compared with the field as it is now - it is filled in.       *)
RequestSucceeds(r) ==
    /\ Received(r, "request")
    /\ V1' = FALSE /\ V1_1' = FALSE /\ V1_2' = TRUE
    /\ \E key \in BOOLEAN :
        IF key /\ TF1 \in TestPhones
        THEN TF2' = Code /\ V2' = TRUE
        ELSE TF2' = TF2 /\ V2' = FALSE
    /\ UNCHANGED <<TF1, SIGNCHECK, OBJ_AUTH, agreements, defaults, page, history>>

(* Mutant of SignedIn: the apartment is stored with the phone.             *)
SignedInStoringAccount(r) ==
    /\ mb_id' = TF1 /\ account' = r.mb_id
    /\ SIGNCHECK' = TRUE
    /\ V2' = FALSE /\ V1_2' = FALSE
    /\ UNCHANGED <<fields, V1, V1_1, OBJ_AUTH, agreements, page, edited>>

(* The handler of a successful check.                                      *)
SignedIn(r) ==
    /\ mb_id' = TF1
    /\ SIGNCHECK' = TRUE
    /\ \E member \in BOOLEAN :
        OBJ_AUTH' = IF member /\ Len(OBJ_AUTH) < MaxRequests
                    THEN Append(OBJ_AUTH, r.mb_id) ELSE OBJ_AUTH
    /\ V2' = FALSE /\ V1_2' = FALSE
    /\ UNCHANGED <<fields, V1, V1_1, agreements, account, page, edited>>

(* "success": the code fits; the member's record comes along, or not.      *)
CheckSucceeds(r) ==
    /\ Received(r, "check")
    /\ verified' = r.mb_id
    /\ SignedIn(r)

(* "timeover" or any other result: an alert.                               *)
CheckRefused(r) ==
    /\ Received(r, "check")
    /\ verified' = verified
    /\ UNCHANGED <<fields, views, SIGNCHECK, OBJ_AUTH, agreements, defaults, page, edited>>

(* "exceeded", "nouser", ...: an alert.                                    *)
RequestRefused(r) ==
    /\ Received(r, "request")
    /\ UNCHANGED <<fields, views, SIGNCHECK, OBJ_AUTH, agreements, defaults, page, history>>

(* Time-out, lost connection, not a dictionary.                            *)
NoAnswer(r) ==
    /\ inflight' = inflight \ {r}
    /\ UNCHANGED <<fields, views, SIGNCHECK, OBJ_AUTH, agreements, defaults, page, history>>

-----------------------------------------------------------------------------
(* AGREE_B1: all boxes follow the box itself.                              *)
AgreeAll ==
    /\ page = "auth"
    /\ AGREE_B' = [b \in 1 .. 3 |-> ~AGREE_B[1]]
    /\ AGREE_I1' = ~AGREE_B[1]
    /\ UNCHANGED <<fields, views, SIGNCHECK, OBJ_AUTH, inflight, defaults, page, history>>

(* Mutant of Agree: unticking one box leaves the tick beside "all".        *)
AgreeKeepTick(b) ==
    /\ page = "auth"
    /\ AGREE_B' = [AGREE_B EXCEPT ![b] = ~@]
    /\ AGREE_I1' = (AGREE_I1 \/ (AGREE_B'[2] /\ AGREE_B'[3]))
    /\ UNCHANGED <<fields, views, SIGNCHECK, OBJ_AUTH, inflight, defaults, page, history>>

(* AGREE_B2, AGREE_B3: ticking one ticks "all" if the other is selected,   *)
(* unticking it unticks "all"; AGREE_B1.isSelected is not touched.         *)
Agree(b) ==
    /\ page = "auth"
    /\ AGREE_B' = [AGREE_B EXCEPT ![b] = ~@]
    /\ AGREE_I1' = IF AGREE_B[b] THEN FALSE
                   ELSE AGREE_I1 \/ AGREE_B[5 - b]
    /\ UNCHANGED <<fields, views, SIGNCHECK, OBJ_AUTH, inflight, defaults, page, history>>

(* NEXT_B.                                                                 *)
Login ==
    /\ page = "auth"
    /\ SIGNCHECK
    /\ AGREE_B[2] /\ AGREE_B[3]
    /\ account' = IF OBJ_AUTH # <<>> THEN OBJ_AUTH[1] ELSE Trial
    /\ page' = "loading"
    /\ UNCHANGED <<fields, views, SIGNCHECK, OBJ_AUTH, agreements, inflight, mb_id, history>>

(* The app is killed and started again: VC_LOADING goes on with a session  *)
(* if both entries are there, else to this screen, built anew.             *)
Relaunch ==
    /\ page = "auth"
    /\ TF1' = NoText /\ TF2' = NoText
    /\ V1' = FALSE /\ V2' = FALSE /\ V1_1' = TRUE /\ V1_2' = FALSE
    /\ SIGNCHECK' = FALSE
    /\ OBJ_AUTH' = <<>>
    /\ AGREE_B' = [b \in 1 .. 3 |-> FALSE] /\ AGREE_I1' = FALSE
    /\ inflight' = {}
    /\ page' = IF mb_id # NoText /\ account # NoText THEN "loading" ELSE "auth"
    /\ UNCHANGED <<defaults, verified>>
    /\ edited' = FALSE

AuthNext ==
    \/ \E text \in Texts(Phones) : EditPhone(text)
    \/ \E text \in Texts({Code}) : EditCode(text)
    \/ RequestCode \/ CheckCode
    \/ \E r \in inflight :
        RequestSucceeds(r) \/ RequestRefused(r) \/ CheckSucceeds(r) \/ CheckRefused(r) \/ NoAnswer(r)
    \/ AgreeAll
    \/ \E b \in {2, 3} : Agree(b)
    \/ Login
    \/ Relaunch

AuthSpec == AuthInit /\ [][AuthNext]_authVars
-----------------------------------------------------------------------------
(* Properties.                                                             *)

(* Types of the screen's fields and of what it leaves in UserDefaults.     *)
AuthTypeOK ==
    /\ TF1 \in Texts(Phones) /\ TF2 \in Texts({Code})
    /\ {V1, V2, V1_1, V1_2, SIGNCHECK, AGREE_I1, edited} \subseteq BOOLEAN
    /\ OBJ_AUTH \in Seq(Texts(Phones))
    /\ AGREE_B \in [1 .. 3 -> BOOLEAN]
    /\ inflight \subseteq Request
    /\ mb_id \in Texts(Phones) /\ account \in Texts(Phones) \cup {Trial}
    /\ page \in {"auth", "loading"}
    /\ verified \in Texts(Phones)

(* The two buttons share one place on the screen: they are never shown     *)
(* together, and "check" only beside a code - although a late answer to    *)
(* "request" shows and hides them behind the user's back (P_AUTH 45).      *)
OneButton == ~(V1 /\ V2) /\ (V2 => TF2 # NoText)

(* The number that will log in is the number on the screen: any edit of it *)
(* takes SIGNCHECK back (VC_AUTH 82).                                      *)
SignedNumberIsShown == SIGNCHECK => mb_id = TF1

(* ... and the server verified that number, if it was left alone while a   *)
(* check was unanswered: the handler stores the field's content of later   *)
(* (P_AUTH 66), not the number it sent.                                    *)
SignedNumberIsVerified == SIGNCHECK /\ ~edited => mb_id = verified

(* Both: the number that will log in is the right one.                     *)
SignedNumberIsRight == SignedNumberIsShown /\ SignedNumberIsVerified

(* The account that login stores belongs to the number it stores; under    *)
(* the same condition OBJ_AUTH[0] is never another member's (VC_AUTH 153). *)
OwnAccount == page = "loading" /\ ~edited => account \in {mb_id, Trial}

(* "All" is ticked exactly while both agreements are given, in whatever    *)
(* order boxes are tapped (VC_AUTH 113-143 sets six pictures and boxes).   *)
TickMeansAgreed == AGREE_I1 <=> AGREE_B[2] /\ AGREE_B[3]

(* Both: buttons and tick tell where the resident is.                      *)
ScreenTellsState == OneButton /\ TickMeansAgreed

(* Nothing short of login makes the next launch skip this screen: a phone  *)
(* is stored as soon as the code is checked (P_AUTH 66), before any        *)
(* agreement.                                                              *)
NoSessionWithoutLogin ==
    [][page = "auth" /\ page' = "loading" => SIGNCHECK /\ AGREE_B[2] /\ AGREE_B[3]]_authVars
=============================================================================
