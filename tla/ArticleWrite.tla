---------------------------- MODULE ArticleWrite ----------------------------
(***************************************************************************)
(* The write screen: VC_WRITE (attachments, article type), VC_CATEGORY     *)
(* (the type picker) and P_WRITE (PUT_WRITE: every attached file goes to   *)
(* the file store, then one request with the addresses of all of them is   *)
(* posted to the server).                                                  *)
(*                                                                         *)
(* While a submission is under way a modal alert covers the screen, so no  *)
(* gesture interleaves with it; the uploads interleave with each other,    *)
(* and the server may store a post after the app stopped waiting for it.   *)
(***************************************************************************)
EXTENDS Naturals, Sequences, FiniteSets

CONSTANTS
    Files,          \* names of the files the user can pick
    Faults,         \* the faults the environment commits, see AllFaults
    MaxPicks,       \* bound: buttons of one name
    MaxSubmissions  \* bound: taps on "submit" that go out

(* "upload": a file upload fails; "address": the store has no address for  *)
(* an uploaded file; "answer": the server's answer is lost or late;        *)
(* "refuse": it refuses the article; "body": its answer is JSON, but not a *)
(* dictionary.                                                             *)
AllFaults == {"upload", "address", "answer", "refuse", "body"}

ASSUME WriteAssumption ==
    /\ IsFiniteSet(Files)
    /\ Faults \subseteq AllFaults
    /\ MaxPicks \in Nat
    /\ MaxSubmissions \in Nat

VARIABLES
    FILE_DATA,      \* the dictionary of attached files, by name
    buttons,        \* how many buttons of the stack view bear each name
    title,          \* the title of TYPE_B
    alert,          \* the modal alert "uploading" is up
    upload,         \* per file, how far its upload is
    FILE_UPLOAD,    \* addresses obtained so far
    media,          \* files whose media_url is in PARAMETERS
    waiting,        \* the completion handler of the post is still to run
    posts,          \* posts on their way, not yet handled by the server
    articles,       \* articles the server has stored
    submitted,      \* history, per tap on "submit": the files attached, the
                    \* title shown and the request_type in PARAMETERS
    lost,           \* history: the taps whose answer was lost
    listed,         \* what the list behind was asked for when it reloaded
    screen          \* "open", "closed", "crashed"

editVars == <<FILE_DATA, buttons, title>>
uploadVars == <<upload, FILE_UPLOAD, media>>
serverVars == <<posts, articles>>
vars == <<editVars, alert, uploadVars, waiting, serverVars, submitted, lost, listed, screen>>

(* The button shows the name of the type behind three spaces, and          *)
(* request_type is decided by comparing that title with the bare name.     *)
Padded == [defect |-> "   defect", complaint |-> "   complaint"]
RequestType == IF title = "defect" THEN "F" ELSE "A"

Done == {f \in Files : upload[f] = "done"}
Tap == Len(submitted)

-----------------------------------------------------------------------------
Init ==
    /\ FILE_DATA = {} /\ buttons = [f \in Files |-> 0]
    /\ title = Padded["defect"]
    /\ alert = FALSE
    /\ upload = [f \in Files |-> "none"] /\ FILE_UPLOAD = 0 /\ media = {}
    /\ waiting = FALSE /\ posts = {} /\ articles = {}
    /\ submitted = <<>> /\ lost = {}
    /\ listed = {}
    /\ screen = "open"

Editing == screen = "open" /\ ~alert

(* documentPicker(didPickDocumentAt): one more button, and the dictionary  *)
(* entry of that name.                                                     *)
Pick(f) ==
    /\ Editing
    /\ buttons[f] < MaxPicks
    /\ buttons' = [buttons EXCEPT ![f] = @ + 1]
    /\ FILE_DATA' = FILE_DATA \cup {f}
    /\ UNCHANGED <<title, alert, uploadVars, waiting, serverVars, submitted, lost, listed, screen>>

(* Mutant of Delete: the button goes, the dictionary entry stays.          *)
DeleteButtonOnly(f) ==
    /\ Editing
    /\ buttons[f] > 0
    /\ buttons' = [buttons EXCEPT ![f] = @ - 1]
    /\ UNCHANGED <<FILE_DATA, title, alert, uploadVars, waiting, serverVars, submitted, lost,
                   listed, screen>>

(* DELETE, confirmed: the tapped button and the entry of its name go, even *)
(* if another button bears the same name.                                  *)
Delete(f) ==
    /\ Editing
    /\ buttons[f] > 0
    /\ buttons' = [buttons EXCEPT ![f] = @ - 1]
    /\ FILE_DATA' = FILE_DATA \ {f}
    /\ UNCHANGED <<title, alert, uploadVars, waiting, serverVars, submitted, lost, listed, screen>>

(* VC_CATEGORY.EDIT_B.                                                     *)
ChooseType(type) ==
    /\ Editing
    /\ title' = Padded[type]
    /\ UNCHANGED <<FILE_DATA, buttons, alert, uploadVars, waiting, serverVars, submitted, lost,
                   listed, screen>>

(* The request with everything PARAMETERS holds by now.                    *)
SendPost(tap, files) ==
    /\ posts' = posts \cup {[tap |-> tap, files |-> files]}
    /\ waiting' = TRUE

(* SUBMIT_B, online and with all fields filled in: the alert, request_type,*)
(* one upload per attached file; without attachments the post at once.     *)
Submit ==
    /\ Editing
    /\ Len(submitted) < MaxSubmissions
    /\ alert' = TRUE
    /\ submitted' = Append(submitted, [files |-> FILE_DATA, title |-> title,
                                      request_type |-> RequestType])
    /\ upload' = [f \in Files |-> IF f \in FILE_DATA THEN "uploading" ELSE "none"]
    /\ FILE_UPLOAD' = 0
    /\ media' = {}
    /\ IF FILE_DATA = {} THEN SendPost(Tap + 1, {}) ELSE UNCHANGED <<posts, waiting>>
    /\ UNCHANGED <<editVars, articles, lost, listed, screen>>

(* putFile ends: .observe(.success) asks for the address ...               *)
UploadDone(f) ==
    /\ screen = "open"
    /\ upload[f] = "uploading"
    /\ upload' = [upload EXCEPT ![f] = "stored"]
    /\ UNCHANGED <<editVars, alert, FILE_UPLOAD, media, waiting, serverVars, submitted, lost,
                   listed, screen>>

(* ... and nothing observes a failure.                                     *)
UploadFails(f) ==
    /\ screen = "open"
    /\ "upload" \in Faults
    /\ upload[f] = "uploading"
    /\ upload' = [upload EXCEPT ![f] = "failed"]
    /\ UNCHANGED <<editVars, alert, FILE_UPLOAD, media, waiting, serverVars, submitted, lost,
                   listed, screen>>

(* Mutant of AddressKnown: the post leaves one address early.              *)
AddressKnownEarly(f) ==
    /\ screen = "open"
    /\ upload[f] = "stored"
    /\ upload' = [upload EXCEPT ![f] = "done"]
    /\ FILE_UPLOAD' = FILE_UPLOAD + 1
    /\ media' = media \cup {f}
    /\ IF Cardinality(FILE_DATA) <= FILE_UPLOAD' + 1
       THEN SendPost(Tap, media')
       ELSE UNCHANGED <<posts, waiting>>
    /\ UNCHANGED <<editVars, alert, articles, submitted, lost, listed, screen>>

(* Mutant of AddressKnown: a post for every address.                       *)
AddressKnownPostEach(f) ==
    /\ screen = "open"
    /\ upload[f] = "stored"
    /\ upload' = [upload EXCEPT ![f] = "done"]
    /\ FILE_UPLOAD' = FILE_UPLOAD + 1
    /\ media' = media \cup {f}
    /\ SendPost(Tap, media')
    /\ UNCHANGED <<editVars, alert, articles, submitted, lost, listed, screen>>

(* downloadURL answers with an address; the last one sends the post.       *)
AddressKnown(f) ==
    /\ screen = "open"
    /\ upload[f] = "stored"
    /\ upload' = [upload EXCEPT ![f] = "done"]
    /\ FILE_UPLOAD' = FILE_UPLOAD + 1
    /\ media' = media \cup {f}
    /\ IF Cardinality(FILE_DATA) = FILE_UPLOAD'
       THEN SendPost(Tap, media')
       ELSE UNCHANGED <<posts, waiting>>
    /\ UNCHANGED <<editVars, alert, articles, submitted, lost, listed, screen>>

(* downloadURL answers without an address: url! traps.                     *)
AddressMissing(f) ==
    /\ screen = "open"
    /\ "address" \in Faults
    /\ upload[f] = "stored"
    /\ screen' = "crashed"
    /\ FILE_UPLOAD' = FILE_UPLOAD + 1
    /\ UNCHANGED <<editVars, alert, upload, media, waiting, serverVars, submitted, lost, listed>>

(* The server stores the article of a post ...                             *)
Store(p) ==
    /\ posts' = posts \ {p}
    /\ articles' = articles \cup {p}
    /\ UNCHANGED <<editVars, alert, uploadVars, waiting, submitted, lost, listed, screen>>

Stored == \E p \in articles : p.tap = Tap
OnItsWay == \E p \in posts : p.tap = Tap

Answered ==
    /\ screen = "open" /\ waiting
    /\ waiting' = FALSE
    /\ UNCHANGED <<editVars, uploadVars, submitted>>

(* Success: the alert goes, the list behind reloads (empties, if offline   *)
(* by now) and the screen is popped.                                       *)
AnswerSuccess ==
    /\ Answered
    /\ Stored
    /\ alert' = FALSE
    /\ screen' = "closed"
    /\ listed' \in {articles, {}}
    /\ UNCHANGED <<serverVars, lost>>

(* ... or refuses it.                                                      *)
AnswerRefused ==
    /\ Answered
    /\ "refuse" \in Faults
    /\ OnItsWay
    /\ posts' = {p \in posts : p.tap # Tap}
    /\ alert' = FALSE
    /\ UNCHANGED <<articles, lost, listed, screen>>

(* Mutant of AnswerLost: the failure branch forgets the alert.             *)
AnswerLostKeepingAlert ==
    /\ Answered
    /\ "answer" \in Faults
    /\ lost' = lost \cup {Tap}
    /\ UNCHANGED <<alert, serverVars, listed, screen>>

(* Time-out or lost connection, before or after the server stored it.      *)
AnswerLost ==
    /\ Answered
    /\ "answer" \in Faults
    /\ lost' = lost \cup {Tap}
    /\ alert' = FALSE
    /\ UNCHANGED <<serverVars, listed, screen>>

(* The post never reached the server.                                      *)
PostLost ==
    /\ Answered
    /\ "answer" \in Faults
    /\ OnItsWay
    /\ posts' = {p \in posts : p.tap # Tap}
    /\ alert' = FALSE
    /\ lost' = lost \cup {Tap}
    /\ UNCHANGED <<articles, listed, screen>>

(* A body that is not a dictionary: no branch of the handler dismisses the *)
(* alert.                                                                  *)
AnswerNotDictionary ==
    /\ Answered
    /\ "body" \in Faults
    /\ Stored
    /\ UNCHANGED <<alert, serverVars, lost, listed, screen>>

Answer == AnswerSuccess \/ AnswerRefused \/ AnswerLost \/ PostLost \/ AnswerNotDictionary

Next ==
    \/ \E f \in Files :
        \/ Pick(f) \/ Delete(f)
        \/ UploadDone(f) \/ UploadFails(f) \/ AddressKnown(f) \/ AddressMissing(f)
    \/ \E type \in {"defect", "complaint"} : ChooseType(type)
    \/ Submit
    \/ \E p \in posts : Store(p)
    \/ Answer

Spec == Init /\ [][Next]_vars

(* The file store and the server answer or the session times out; the user *)
(* need never do anything.                                                 *)
FairSpec ==
    /\ Spec
    /\ \A f \in Files : WF_vars(UploadDone(f)) /\ WF_vars(AddressKnown(f))
    /\ WF_vars(\E p \in posts : Store(p))
    /\ WF_vars(Answer)
-----------------------------------------------------------------------------
(* Properties.                                                             *)

Post == [tap : 1 .. MaxSubmissions, files : SUBSET Files]
Titles == {Padded["defect"], Padded["complaint"]}
Submitted == [files : SUBSET Files, title : Titles, request_type : {"F", "A"}]

(* Types of the screen's fields, of the captured variables of PUT_WRITE    *)
(* and of the server's side.                                               *)
TypeOK ==
    /\ FILE_DATA \subseteq Files
    /\ buttons \in [Files -> 0 .. MaxPicks]
    /\ title \in Titles
    /\ alert \in BOOLEAN
    /\ upload \in [Files -> {"none", "uploading", "stored", "done", "failed"}]
    /\ FILE_UPLOAD \in Nat
    /\ media \subseteq Files
    /\ waiting \in BOOLEAN
    /\ posts \subseteq Post /\ articles \subseteq Post
    /\ submitted \in Seq(Submitted)
    /\ Len(submitted) <= MaxSubmissions
    /\ lost \subseteq Nat
    /\ listed \subseteq Post
    /\ screen \in {"open", "closed", "crashed"}

(* Every file the next submission carries has a button the user can see    *)
(* and tap to delete it (VC_WRITE 129 and 137 keep the two together); the  *)
(* converse fails once a name is picked twice.                             *)
SentIsShown == \A f \in FILE_DATA : buttons[f] > 0

(* An upload failed, or the answer of a stored article was no dictionary:  *)
(* the two events after which P_WRITE (66, 85) does nothing more.          *)
Stranded ==
    \/ \E f \in FILE_DATA : upload[f] = "failed"
    \/ ~waiting /\ Stored /\ Tap \notin lost

(* The alert never covers an idle screen: some upload or the post is still *)
(* under way, unless the submission is stranded.                           *)
AlertHasReason ==
    alert /\ screen = "open" =>
        waiting \/ Stranded \/ \E f \in FILE_DATA : upload[f] \in {"uploading", "stored"}

(* A retry publishes a second article only if the answer of the first was  *)
(* lost: neither a refusal nor a failed upload leaves anything behind on   *)
(* the server, and no tap publishes two (P_WRITE 75: nothing is posted     *)
(* before the last address is known).                                      *)
NoDuplicate ==
    \A p, q \in articles : p # q => p.tap # q.tap /\ (p.tap < q.tap => p.tap \in lost)

(* The alert of a submission goes away - by an answer, a refusal or the    *)
(* time-out - unless the submission is stranded or the app crashed.        *)
AlertEnds == alert ~> ~alert \/ Stranded \/ screen = "crashed"

(* The screen keeps the promise of Submission: one article at most per     *)
(* tap, with exactly the files attached at that tap, and no closing before *)
(* that article is stored.                                                 *)
phase == IF screen = "crashed" THEN "dead"
         ELSE IF screen = "closed" THEN "closed"
         ELSE IF alert THEN "sending" ELSE "editing"

Abstract == INSTANCE Submission WITH
    attached <- FILE_DATA,
    submitted <- [i \in DOMAIN submitted |-> submitted[i].files]

PublishesOnce == Abstract!Spec

(* The type the board later shows (VC_SOSIK 181: "F" is a defect) is the   *)
(* one whose name the button showed at the tap.                            *)
TypeIsTheOneShown ==
    \A p \in articles :
        submitted[p.tap].request_type = "F" <=> submitted[p.tap].title = Padded["defect"]

=============================================================================
