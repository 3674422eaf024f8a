------------------------ MODULE ArticleWrite_proofs ------------------------
(***************************************************************************)
(* Proofs about the two forms a resident fills in.  The write screen       *)
(* implements Submission, for any set of files, faults and number of       *)
(* retries; and, about Auth, the number and the account that a login       *)
(* leaves behind, for any set of numbers.                                  *)
(***************************************************************************)
EXTENDS ArticleWrite, Auth, FiniteSetTheorems, SequenceTheorems, TLAPS

(* FILE_UPLOAD counts the files whose address is in PARAMETERS.            *)
Counted ==
    /\ media = Done
    /\ screen # "crashed" => FILE_UPLOAD = Cardinality(Done)

(* Exactly the attached files are uploaded, and only under the alert.      *)
Uploads ==
    /\ alert => \A f \in Files : upload[f] # "none" <=> f \in FILE_DATA
    /\ ~alert => \A f \in Files : upload[f] \in {"none", "done"}

(* The post is out only once every address is known.                       *)
Waiting == waiting => alert /\ Done = FILE_DATA

(* Under the alert FILE_DATA is what it was at the tap.                    *)
TapFiles == alert => Tap > 0 /\ submitted[Tap].files = FILE_DATA

(* Every post and article belongs to a tap and carries its files.          *)
CarriesTapFiles ==
    \A p \in posts \cup articles :
        p.tap \in 1 .. Tap /\ p.files = submitted[p.tap].files

(* The answer of a tap can only be lost once the alert is gone.            *)
LostEnded == \A t \in lost : t <= Tap /\ (alert => t # Tap)

(* A post is sent once, when the last file is done, and stored once.       *)
PostedOnce ==
    /\ posts \cap articles = {}
    /\ alert /\ Done # FILE_DATA => \A p \in posts \cup articles : p.tap # Tap

(* What an earlier tap left behind is what it was not told of.             *)
LeftBehind ==
    \A p \in posts \cup articles :
        p.tap \in lost \/ (p.tap = Tap /\ (alert \/ screen # "open"))

History == LostEnded /\ PostedOnce /\ LeftBehind

IInv ==
    /\ TypeOK /\ SentIsShown /\ AlertHasReason
    /\ Counted /\ Uploads /\ Waiting /\ TapFiles /\ CarriesTapFiles
    /\ History

-----------------------------------------------------------------------------
(* The count is right exactly when every attached file is done: this is    *)
(* what comparing two numbers (P_WRITE 75) stands for.                     *)
LEMMA CountIsComplete ==
    ASSUME FILE_DATA \subseteq Files, NEW D, D \subseteq FILE_DATA
    PROVE  Cardinality(FILE_DATA) = Cardinality(D) <=> D = FILE_DATA
<1>1. IsFiniteSet(FILE_DATA)
  BY WriteAssumption, FS_Subset
<1>2. QED
  BY <1>1, FS_Subset

LEMMA InitIInv == Init => IInv
<1> SUFFICES ASSUME Init PROVE IInv
  OBVIOUS
<1> USE DEF Init
<1>1. TypeOK
  <2>1. submitted \in Seq(Submitted) /\ Len(submitted) = 0
    BY EmptySeq
  <2>2. title \in Titles
    BY DEF Titles
  <2>3. Len(submitted) <= MaxSubmissions
    BY <2>1, WriteAssumption
  <2>4. buttons \in [Files -> 0 .. MaxPicks]
    BY WriteAssumption
  <2>5. upload \in [Files -> {"none", "uploading", "stored", "done", "failed"}]
    OBVIOUS
  <2>6. QED
    BY <2>1, <2>2, <2>3, <2>4, <2>5 DEF TypeOK
<1>2. Done = {} /\ Cardinality(Done) = 0
  BY FS_EmptySet DEF Done
<1>3. QED
  BY <1>1, <1>2 DEF IInv, SentIsShown, AlertHasReason, Counted, Uploads, Waiting, TapFiles,
     CarriesTapFiles, History, LostEnded, PostedOnce, LeftBehind

(* One more file is done: the set and the count grow together.             *)
LEMMA DoneGrows ==
    ASSUME TypeOK, Counted, NEW f \in Files, upload[f] = "stored", screen # "crashed",
           upload' = [upload EXCEPT ![f] = "done"], FILE_UPLOAD' = FILE_UPLOAD + 1
    PROVE  Done' = Done \cup {f} /\ FILE_UPLOAD' = Cardinality(Done')
<1>1. Done' = Done \cup {f} /\ f \notin Done
  BY DEF Done, TypeOK
<1>2. IsFiniteSet(Done)
  BY WriteAssumption, FS_Subset DEF Done
<1>3. Cardinality(Done \cup {f}) = Cardinality(Done) + 1
  BY <1>1, <1>2, FS_AddElement
<1>4. QED
  BY <1>1, <1>3 DEF Counted

-----------------------------------------------------------------------------
(* The conjuncts of IInv, action by action.                                *)
LEMMA PickIInv ==
    ASSUME IInv, NEW f \in Files, Pick(f)
    PROVE  IInv'
<1> USE DEF Pick, Editing, serverVars, uploadVars
<1>1. TypeOK'
  BY WriteAssumption DEF IInv, TypeOK
<1>2. (SentIsShown /\ AlertHasReason)'
  BY DEF IInv, TypeOK, SentIsShown, AlertHasReason
<1>3. (Counted /\ Uploads /\ Waiting /\ TapFiles /\ CarriesTapFiles)'
  BY DEF IInv, Counted, Uploads, Waiting, TapFiles, CarriesTapFiles, Done, Tap
<1>4. History'
  BY DEF IInv, History, LostEnded, PostedOnce, LeftBehind, Done, Tap
<1>5. QED
  BY <1>1, <1>2, <1>3, <1>4 DEF IInv

LEMMA DeleteIInv ==
    ASSUME IInv, NEW f \in Files, Delete(f)
    PROVE  IInv'
<1> USE DEF Delete, Editing, serverVars, uploadVars
<1>1. TypeOK'
  BY WriteAssumption DEF IInv, TypeOK
<1>2. (SentIsShown /\ AlertHasReason)'
  BY DEF IInv, TypeOK, SentIsShown, AlertHasReason
<1>3. (Counted /\ Uploads /\ Waiting /\ TapFiles /\ CarriesTapFiles)'
  BY DEF IInv, Counted, Uploads, Waiting, TapFiles, CarriesTapFiles, Done, Tap
<1>4. History'
  BY DEF IInv, History, LostEnded, PostedOnce, LeftBehind, Done, Tap
<1>5. QED
  BY <1>1, <1>2, <1>3, <1>4 DEF IInv

LEMMA ChooseTypeIInv ==
    ASSUME IInv, NEW type \in {"defect", "complaint"}, ChooseType(type)
    PROVE  IInv'
<1> USE DEF ChooseType, Editing, serverVars, uploadVars
<1>1. TypeOK'
  <2>1. title' \in Titles
    BY DEF Titles
  <2>2. QED
    BY <2>1 DEF IInv, TypeOK
<1>2. (SentIsShown /\ AlertHasReason)'
  BY DEF IInv, TypeOK, SentIsShown, AlertHasReason
<1>3. (Counted /\ Uploads /\ Waiting /\ TapFiles /\ CarriesTapFiles)'
  BY DEF IInv, Counted, Uploads, Waiting, TapFiles, CarriesTapFiles, Done, Tap
<1>4. History'
  BY DEF IInv, History, LostEnded, PostedOnce, LeftBehind, Done, Tap
<1>5. QED
  BY <1>1, <1>2, <1>3, <1>4 DEF IInv

LEMMA SubmitIInv ==
    ASSUME IInv, Submit
    PROVE  IInv'
<1> DEFINE s == [files |-> FILE_DATA, title |-> title, request_type |-> RequestType]
<1>1. s \in Submitted /\ s.files = FILE_DATA
  BY DEF IInv, TypeOK, Submitted, RequestType
<1> HIDE DEF s
<1>2. /\ submitted' \in Seq(Submitted)
      /\ Len(submitted') = Tap + 1 /\ Tap \in Nat
      /\ submitted'[Tap + 1] = s
      /\ \A i \in 1 .. Tap : submitted'[i] = submitted[i]
  BY <1>1, AppendProperties, LenProperties DEF IInv, TypeOK, Submit, Tap, s
<1>3. posts' \subseteq posts \cup {[tap |-> Tap + 1, files |-> FILE_DATA]}
  BY DEF Submit, SendPost
<1>4. TypeOK'
  <2>1. Tap + 1 \in 1 .. MaxSubmissions
    BY <1>2, WriteAssumption DEF Submit, Tap
  <2>2. posts' \subseteq Post
    BY <1>3, <2>1 DEF IInv, TypeOK, Post
  <2>3. waiting' \in BOOLEAN
    BY DEF IInv, TypeOK, Submit, SendPost
  <2>4. /\ upload' \in [Files -> {"none", "uploading", "stored", "done", "failed"}]
        /\ FILE_UPLOAD' \in Nat /\ media' \subseteq Files /\ alert' \in BOOLEAN
    BY DEF Submit
  <2>5. QED
    BY <1>2, <2>1, <2>2, <2>3, <2>4 DEF IInv, TypeOK, Submit, editVars, Tap
<1>5. Done' = {} /\ Cardinality(Done') = 0
  <2>1. Done' = {}
    BY DEF Submit, Done
  <2>2. QED
    BY <2>1, FS_EmptySet
<1>6. (SentIsShown /\ AlertHasReason)'
  BY DEF IInv, TypeOK, Submit, SendPost, editVars, SentIsShown, AlertHasReason
<1>7. (Counted /\ Uploads /\ Waiting)'
  BY <1>5 DEF IInv, TypeOK, Submit, SendPost, editVars, Editing, Counted, Uploads, Waiting, Done
<1>8. (TapFiles /\ CarriesTapFiles)'
  BY <1>1, <1>2, <1>3 DEF IInv, Submit, editVars, TapFiles, CarriesTapFiles, Tap
<1>9. History'
  <2>1. LostEnded'
    BY <1>2 DEF IInv, TypeOK, History, LostEnded, Submit, Tap
  <2>2. \A p \in posts \cup articles : p.tap \in lost /\ p.tap \in 1 .. Tap
    BY DEF IInv, History, LeftBehind, CarriesTapFiles, Submit, Editing
  <2>3. articles' = articles
    BY DEF Submit
  <2>4. PostedOnce'
    <3>1. CASE FILE_DATA = {}
      <4>1. posts' = posts \cup {[tap |-> Tap + 1, files |-> {}]} /\ FILE_DATA' = {}
        BY <3>1 DEF Submit, SendPost, editVars
      <4>2. [tap |-> Tap + 1, files |-> {}] \notin articles
        BY <2>2, <1>2
      <4>3. QED
        BY <4>1, <4>2, <2>3, <1>5 DEF IInv, History, PostedOnce
    <3>2. CASE FILE_DATA # {}
      <4>1. posts' = posts /\ Tap' = Tap + 1
        BY <3>2, <1>2 DEF Submit, Tap
      <4>2. QED
        BY <4>1, <2>2, <2>3, <1>2 DEF IInv, History, PostedOnce
    <3>3. QED
      BY <3>1, <3>2
  <2>5. LeftBehind'
    BY <2>2, <2>3, <1>2, <1>3 DEF LeftBehind, Submit, Tap
  <2>6. QED
    BY <2>1, <2>4, <2>5 DEF History
<1>10. QED
  BY <1>4, <1>6, <1>7, <1>8, <1>9 DEF IInv

LEMMA UploadIInv ==
    ASSUME IInv, NEW f \in Files, UploadDone(f) \/ UploadFails(f)
    PROVE  IInv'
<1> USE DEF UploadDone, UploadFails, editVars, serverVars
<1>1. Done' = Done
  BY DEF IInv, TypeOK, Done
<1>2. TypeOK'
  BY DEF IInv, TypeOK
<1>3. (SentIsShown /\ AlertHasReason)'
  BY DEF IInv, TypeOK, SentIsShown, AlertHasReason, Stranded, Stored, Tap
<1>4. (Counted /\ Uploads)'
  BY <1>1 DEF IInv, TypeOK, Counted, Uploads
<1>5. (Waiting /\ TapFiles /\ CarriesTapFiles)'
  BY <1>1 DEF IInv, Waiting, TapFiles, CarriesTapFiles, Tap
<1>6. History'
  BY <1>1 DEF IInv, History, LostEnded, PostedOnce, LeftBehind, Tap
<1>7. QED
  BY <1>2, <1>3, <1>4, <1>5, <1>6 DEF IInv

LEMMA AddressKnownIInv ==
    ASSUME IInv, NEW f \in Files, AddressKnown(f)
    PROVE  IInv'
<1> USE DEF AddressKnown, editVars
<1>1. Done' = Done \cup {f} /\ FILE_UPLOAD' = Cardinality(Done')
  BY DoneGrows DEF IInv
<1>2. alert /\ f \in FILE_DATA /\ f \notin Done /\ ~waiting
  BY DEF IInv, TypeOK, Uploads, Waiting, Done
<1>3. Done' \subseteq FILE_DATA /\ media' = Done'
  BY <1>1, <1>2 DEF IInv, Uploads, Done, Counted
<1>4. Cardinality(FILE_DATA) = FILE_UPLOAD' <=> Done' = FILE_DATA
  BY <1>1, <1>3, CountIsComplete DEF IInv, TypeOK
<1>5. \/ Done' = FILE_DATA /\ SendPost(Tap, FILE_DATA)
      \/ Done' # FILE_DATA /\ UNCHANGED <<posts, waiting>>
  BY <1>3, <1>4
<1>6. Tap \in 1 .. MaxSubmissions /\ Tap > 0 /\ submitted[Tap].files = FILE_DATA
  BY <1>2, LenProperties DEF IInv, TypeOK, TapFiles, Tap
<1>7. TypeOK'
  <2>1. [tap |-> Tap, files |-> FILE_DATA] \in Post
    BY <1>6 DEF IInv, TypeOK, Post
  <2>2. posts' \subseteq posts \cup {[tap |-> Tap, files |-> FILE_DATA]}
    BY <1>5 DEF SendPost
  <2>3. posts' \subseteq Post /\ waiting' \in BOOLEAN
    BY <1>5, <2>1, <2>2 DEF IInv, TypeOK, SendPost
  <2>4. QED
    BY <2>3 DEF IInv, TypeOK
<1>8. (SentIsShown /\ AlertHasReason)'
  <2>1. CASE Done' = FILE_DATA
    BY <1>5, <2>1 DEF IInv, SentIsShown, AlertHasReason, SendPost
  <2>2. CASE Done' # FILE_DATA
    <3>1. PICK g \in FILE_DATA : g \notin Done'
      BY <1>3, <2>2
    <3>2. upload'[g] \in {"uploading", "stored", "failed"}
      BY <1>1, <1>2, <3>1 DEF IInv, TypeOK, Uploads, Done
    <3>3. QED
      BY <3>1, <3>2 DEF IInv, SentIsShown, AlertHasReason, Stranded
  <2>3. QED
    BY <2>1, <2>2
<1>9. (Counted /\ Uploads /\ Waiting)'
  <2>1. Uploads'
    BY <1>2 DEF IInv, TypeOK, Uploads
  <2>2. QED
    BY <1>1, <1>2, <1>3, <1>5, <2>1 DEF Counted, Waiting
<1>10. (TapFiles /\ CarriesTapFiles)'
  BY <1>5, <1>6 DEF IInv, TapFiles, CarriesTapFiles, SendPost, Tap
<1>11. History'
  <2>1. Done # FILE_DATA /\ Tap' = Tap
    BY <1>2 DEF Tap
  <2>2. \A p \in posts \cup articles : p.tap # Tap
    BY <1>2, <2>1 DEF IInv, History, PostedOnce
  <2>3. PostedOnce'
    <3>1. CASE Done' = FILE_DATA
      <4>1. posts' = posts \cup {[tap |-> Tap, files |-> FILE_DATA]}
        BY <1>5, <3>1 DEF SendPost
      <4>2. QED
        BY <3>1, <4>1, <2>2 DEF IInv, History, PostedOnce
    <3>2. CASE Done' # FILE_DATA
      BY <1>5, <3>2, <2>1, <2>2 DEF IInv, History, PostedOnce
    <3>3. QED
      BY <3>1, <3>2
  <2>4. LostEnded' /\ LeftBehind'
    BY <1>2, <1>5, <2>1 DEF IInv, History, LostEnded, LeftBehind, SendPost
  <2>5. QED
    BY <2>3, <2>4 DEF History
<1>12. QED
  BY <1>7, <1>8, <1>9, <1>10, <1>11 DEF IInv

LEMMA AddressMissingIInv ==
    ASSUME IInv, NEW f \in Files, AddressMissing(f)
    PROVE  IInv'
<1> USE DEF AddressMissing, editVars, serverVars
<1>1. TypeOK'
  BY DEF IInv, TypeOK
<1>2. (SentIsShown /\ AlertHasReason)'
  BY DEF IInv, SentIsShown, AlertHasReason
<1>3. (Counted /\ Uploads /\ Waiting /\ TapFiles /\ CarriesTapFiles)'
  BY DEF IInv, Counted, Uploads, Waiting, TapFiles, CarriesTapFiles, Done, Tap
<1>4. History'
  BY DEF IInv, History, LostEnded, PostedOnce, LeftBehind, Done, Tap
<1>5. QED
  BY <1>1, <1>2, <1>3, <1>4 DEF IInv

LEMMA StoreIInv ==
    ASSUME IInv, NEW p \in posts, Store(p)
    PROVE  IInv'
<1> USE DEF Store, editVars, uploadVars
<1>1. TypeOK'
  BY DEF IInv, TypeOK
<1>2. (SentIsShown /\ AlertHasReason)'
  BY DEF IInv, SentIsShown, AlertHasReason, Stranded, Stored, Tap
<1>3. (Counted /\ Uploads /\ Waiting /\ TapFiles /\ CarriesTapFiles)'
  BY DEF IInv, Counted, Uploads, Waiting, TapFiles, CarriesTapFiles, Done, Tap
<1>4. History'
  BY DEF IInv, History, LostEnded, PostedOnce, LeftBehind, Done, Tap
<1>5. QED
  BY <1>1, <1>2, <1>3, <1>4 DEF IInv

LEMMA AnswerIInv ==
    ASSUME IInv, Answer
    PROVE  IInv'
<1> USE DEF Answer, Answered, AnswerSuccess, AnswerRefused, AnswerLost, PostLost,
        AnswerNotDictionary, editVars, uploadVars, serverVars
<1>0. waiting /\ alert /\ Tap' = Tap /\ Tap \in Nat
  BY LenProperties DEF IInv, Waiting, TypeOK, Tap
<1>a. lost' = lost \/ (lost' = lost \cup {Tap} /\ alert' = FALSE)
  OBVIOUS
<1>b. alert' = alert \/ alert' = FALSE
  OBVIOUS
<1>1. TypeOK'
  <2>1. lost' \subseteq Nat
    BY <1>0, <1>a DEF IInv, TypeOK
  <2>2. listed' \subseteq Post /\ screen' \in {"open", "closed", "crashed"}
    BY DEF IInv, TypeOK
  <2>3. posts' \subseteq Post /\ articles' \subseteq Post
    BY DEF IInv, TypeOK
  <2>4. alert' \in BOOLEAN /\ waiting' \in BOOLEAN
    BY <1>b DEF IInv, TypeOK
  <2>5. UNCHANGED <<editVars, uploadVars, submitted>>
    OBVIOUS
  <2>6. QED
    BY <2>1, <2>2, <2>3, <2>4, <2>5 DEF IInv, TypeOK
<1>2. Done' = Done /\ Done = FILE_DATA
  BY DEF IInv, Waiting, Done
<1>3. (SentIsShown /\ AlertHasReason)'
  <2>1. alert /\ Tap \notin lost
    BY DEF IInv, Waiting, History, LostEnded
  <2>2. SentIsShown'
    BY DEF IInv, SentIsShown
  <2>3. CASE AnswerNotDictionary
    <3>1. Stored' /\ ~waiting' /\ Tap' \notin lost'
      BY <2>1, <2>3 DEF Stored, Tap
    <3>2. QED
      BY <2>2, <3>1 DEF AlertHasReason, Stranded
  <2>4. CASE ~alert'
    BY <2>2, <2>4 DEF AlertHasReason
  <2>5. QED
    BY <2>3, <2>4
<1>4. (Counted /\ Uploads /\ Waiting)'
  <2>1. \A f \in Files : upload[f] \in {"none", "done"}
    BY <1>2 DEF IInv, Waiting, Uploads, Done
  <2>2. QED
    BY <1>2, <2>1 DEF IInv, Counted, Uploads, Waiting
<1>5. (TapFiles /\ CarriesTapFiles)'
  BY DEF IInv, TapFiles, CarriesTapFiles, Tap
<1>6. History'
  <2>1. LostEnded'
    <3>1. CASE lost' = lost /\ alert' = FALSE
      BY <1>0, <3>1 DEF IInv, History, LostEnded
    <3>2. CASE lost' = lost /\ alert' = alert
      BY <1>0, <3>2 DEF IInv, History, LostEnded
    <3>3. CASE lost' = lost \cup {Tap} /\ alert' = FALSE
      BY <1>0, <3>3 DEF IInv, History, LostEnded
    <3>4. QED
      BY <1>a, <1>b, <3>1, <3>2, <3>3
  <2>2. PostedOnce'
    BY <1>2, <1>0 DEF IInv, History, PostedOnce
  <2>3. LeftBehind'
    <3>1. CASE AnswerRefused
      <4>1. \A p \in posts \cup articles : p.tap = Tap => p.files = submitted[Tap].files
        BY DEF IInv, CarriesTapFiles
      <4>2. \A p \in posts \cup articles : p \in Post
        BY DEF IInv, TypeOK
      <4>3. PICK q \in posts : q.tap = Tap
        BY <3>1 DEF OnItsWay
      <4>4. \A p \in articles : p.tap # Tap
        <5> SUFFICES ASSUME NEW p \in articles, p.tap = Tap PROVE FALSE
          OBVIOUS
        <5>1. p = q
          BY <4>1, <4>2, <4>3 DEF Post
        <5>2. QED
          BY <5>1, <4>3 DEF IInv, History, PostedOnce
      <4>5. QED
        BY <3>1, <4>4 DEF IInv, History, LeftBehind, Tap
    <3>2. CASE AnswerLost \/ PostLost
      BY <3>2, <1>0 DEF IInv, History, LeftBehind
    <3>3. CASE AnswerSuccess \/ AnswerNotDictionary
      BY <3>3, <1>0 DEF IInv, History, LeftBehind
    <3>4. QED
      BY <3>1, <3>2, <3>3
  <2>4. QED
    BY <2>1, <2>2, <2>3 DEF History
<1>7. QED
  BY <1>1, <1>3, <1>4, <1>5, <1>6 DEF IInv

LEMMA NextIInv == IInv /\ [Next]_vars => IInv'
<1> SUFFICES ASSUME IInv, [Next]_vars PROVE IInv'
  OBVIOUS
<1>1. CASE Next
  BY <1>1, PickIInv, DeleteIInv, ChooseTypeIInv, SubmitIInv, UploadIInv, AddressKnownIInv,
     AddressMissingIInv, StoreIInv, AnswerIInv DEF Next
<1>2. CASE UNCHANGED vars
  BY <1>2 DEF vars, editVars, uploadVars, serverVars, IInv, TypeOK, SentIsShown,
     AlertHasReason, Counted, Uploads, Waiting, TapFiles, CarriesTapFiles, Done, Tap, Stored,
     Stranded, History, LostEnded, PostedOnce, LeftBehind
<1>3. QED
  BY <1>1, <1>2

LEMMA Invariance == Spec => []IInv
BY InitIInv, NextIInv, PTL DEF Spec

(* The screen's state stays well typed, in every run (VC_WRITE, P_WRITE).  *)
THEOREM WriteTypeCorrect == Spec => []TypeOK
<1>1. IInv => TypeOK
  BY DEF IInv
<1>2. QED
  BY <1>1, Invariance, PTL

(* A retry publishes twice only what it was not told of: articles of two   *)
(* taps mean that the answer of the first was lost (P_WRITE 75, 106).      *)
THEOREM RetriesDoNotDuplicate == Spec => []NoDuplicate
<1>1. IInv => NoDuplicate
  <2> SUFFICES ASSUME IInv, NEW p \in articles, NEW q \in articles, p # q
               PROVE  p.tap # q.tap /\ (p.tap < q.tap => p.tap \in lost)
    BY DEF NoDuplicate
  <2>1. p \in Post /\ q \in Post
    BY DEF IInv, TypeOK
  <2>2. /\ p.tap \in 1 .. Tap /\ p.files = submitted[p.tap].files
        /\ q.tap \in 1 .. Tap /\ q.files = submitted[q.tap].files
    BY DEF IInv, CarriesTapFiles
  <2>3. p.tap # q.tap
    BY <2>1, <2>2 DEF Post
  <2>4. p.tap \in lost \/ p.tap = Tap
    BY DEF IInv, History, LeftBehind
  <2>5. Tap \in Nat
    BY LenProperties DEF IInv, TypeOK, Tap
  <2>6. QED
    BY <2>2, <2>3, <2>4, <2>5
<1>2. QED
  BY <1>1, Invariance, PTL

(* Every file about to be sent has a button (VC_WRITE 129, 137).           *)
THEOREM AttachmentsShown == Spec => []SentIsShown
<1>1. IInv => SentIsShown
  BY DEF IInv
<1>2. QED
  BY <1>1, Invariance, PTL

(* The alert is up only while something is under way, or after one of the  *)
(* two answers P_WRITE has no branch for.                                  *)
THEOREM AlertAlwaysHasReason == Spec => []AlertHasReason
<1>1. IInv => AlertHasReason
  BY DEF IInv
<1>2. QED
  BY <1>1, Invariance, PTL

-----------------------------------------------------------------------------
(* Step simulation: what each action of the screen is for Submission.      *)
files == [i \in DOMAIN submitted |-> submitted[i].files]

LEMMA FilesSeq ==
    ASSUME IInv
    PROVE  files \in Seq(SUBSET Files) /\ Len(files) = Len(submitted)
<1>1. /\ DOMAIN submitted = 1 .. Len(submitted) /\ Len(submitted) \in Nat
      /\ \A i \in 1 .. Len(submitted) : submitted[i] \in Submitted
  BY LenProperties, ElementOfSeq DEF IInv, TypeOK
<1>2. files \in [1 .. Len(submitted) -> SUBSET Files]
  BY <1>1 DEF Submitted, files
<1>3. QED
  BY <1>1, <1>2, SeqDef, LenProperties

LEMMA InitRefines == Init => Abstract!Init
<1> SUFFICES ASSUME Init PROVE Abstract!Init
  OBVIOUS
<1>1. [i \in DOMAIN submitted |-> submitted[i].files] = <<>>
  BY DEF Init
<1>2. QED
  BY <1>1 DEF Init, Abstract!Init, phase

(* The abstract state only sees these.                                     *)
LEMMA Stutter ==
    ASSUME UNCHANGED <<FILE_DATA, submitted, articles, listed, alert, screen>>
    PROVE  UNCHANGED Abstract!vars
BY DEF Abstract!vars, phase

LEMMA EditRefines ==
    ASSUME IInv, NEW f \in Files, Pick(f) \/ Delete(f)
    PROVE  Abstract!Edit
BY DEF IInv, TypeOK, Pick, Delete, Editing, Abstract!Edit, phase, serverVars

LEMMA SubmitRefines ==
    ASSUME IInv, Submit
    PROVE  Abstract!Submit
<1> DEFINE s == [files |-> FILE_DATA, title |-> title, request_type |-> RequestType]
<1>1. s.files = FILE_DATA /\ submitted' = Append(submitted, s)
  BY DEF Submit
<1>2. s \in Submitted
  BY DEF IInv, TypeOK, Submitted, RequestType
<1> HIDE DEF s
<1>3. /\ DOMAIN submitted' = 1 .. Len(submitted) + 1 /\ Len(submitted) \in Nat
      /\ DOMAIN submitted = 1 .. Len(submitted)
      /\ submitted'[Len(submitted) + 1] = s
      /\ \A i \in 1 .. Len(submitted) : submitted'[i] = submitted[i]
  BY <1>1, <1>2, AppendProperties, LenProperties DEF IInv, TypeOK
<1>4. files \in Seq(SUBSET Files) /\ Len(files) = Len(submitted)
  BY FilesSeq
<1>5. files' = Append(files, FILE_DATA)
  BY <1>1, <1>3, <1>4, AppendProperties DEF files
<1>6. phase = "editing" /\ phase' = "sending" /\ UNCHANGED <<FILE_DATA, articles, listed>>
  BY DEF Submit, Editing, phase, editVars
<1>7. QED
  BY <1>5, <1>6 DEF Abstract!Submit, files

(* A post that the server stores is the article of its tap.                *)
LEMMA ArticleOfTap ==
    ASSUME IInv, NEW p \in posts \cup articles
    PROVE  /\ p.tap \in DOMAIN submitted
           /\ Abstract!Article(p.tap) = p
<1>1. p \in Post /\ p.tap \in 1 .. Len(submitted) /\ p.files = submitted[p.tap].files
  BY DEF IInv, TypeOK, CarriesTapFiles, Tap
<1>2. DOMAIN submitted = 1 .. Len(submitted)
  BY LenProperties DEF IInv, TypeOK
<1>3. Abstract!Article(p.tap) = [tap |-> p.tap, files |-> p.files]
  BY <1>1, <1>2 DEF Abstract!Article
<1>4. p = [tap |-> p.tap, files |-> p.files]
  BY <1>1 DEF Post
<1>5. QED
  BY <1>1, <1>2, <1>3, <1>4

LEMMA StoreRefines ==
    ASSUME IInv, NEW p \in posts, Store(p)
    PROVE  Abstract!Next \/ UNCHANGED Abstract!vars
<1> USE DEF Store, editVars, uploadVars
<1>1. CASE p \in articles
  BY <1>1, Stutter
<1>2. CASE p \notin articles
  <2>1. p.tap \in DOMAIN submitted /\ Abstract!Article(p.tap) = p
    BY ArticleOfTap
  <2>2. Abstract!Publish(p.tap)
    BY <1>2, <2>1 DEF Abstract!Publish, phase
  <2>3. p.tap \in DOMAIN files
    BY <2>1 DEF files
  <2>4. QED
    BY <2>2, <2>3 DEF Abstract!Next, files
<1>3. QED
  BY <1>1, <1>2

LEMMA AnswerRefines ==
    ASSUME IInv, Answer
    PROVE  Abstract!Next \/ UNCHANGED Abstract!vars
<1> USE DEF Answered, editVars, uploadVars, serverVars
<1>1. alert /\ screen = "open" /\ phase = "sending"
  BY DEF Answer, AnswerSuccess, AnswerRefused, AnswerLost, PostLost, AnswerNotDictionary,
     IInv, Waiting, phase
<1>2. CASE AnswerSuccess
  <2>1. PICK p \in articles : p.tap = Len(submitted)
    BY <1>2 DEF AnswerSuccess, Stored, Tap
  <2>2. Abstract!Article(Len(submitted)) \in articles
    BY <2>1, ArticleOfTap
  <2>3. Len(files) = Len(submitted)
    BY FilesSeq
  <2>4. Abstract!Close
    BY <1>1, <1>2, <2>2, <2>3 DEF AnswerSuccess, Abstract!Close, phase, files
  <2>5. QED
    BY <2>4 DEF Abstract!Next
<1>3. CASE AnswerRefused \/ AnswerLost \/ PostLost
  <2>1. Abstract!GiveUp
    BY <1>1, <1>3 DEF AnswerRefused, AnswerLost, PostLost, Abstract!GiveUp, phase
  <2>2. QED
    BY <2>1 DEF Abstract!Next
<1>4. CASE AnswerNotDictionary
  BY <1>4, Stutter DEF AnswerNotDictionary
<1>5. QED
  BY <1>2, <1>3, <1>4 DEF Answer

LEMMA NextRefines == IInv /\ [Next]_vars => [Abstract!Next]_Abstract!vars
<1> SUFFICES ASSUME IInv, [Next]_vars
             PROVE  Abstract!Next \/ UNCHANGED Abstract!vars
  OBVIOUS
<1>1. ASSUME NEW f \in Files, Pick(f) \/ Delete(f)
      PROVE  Abstract!Next
  BY <1>1, EditRefines DEF Abstract!Next
<1>2. ASSUME NEW f \in Files, UploadDone(f) \/ UploadFails(f) \/ AddressKnown(f)
      PROVE  UNCHANGED Abstract!vars
  BY <1>2, Stutter DEF UploadDone, UploadFails, AddressKnown, editVars, serverVars
<1>3. ASSUME NEW f \in Files, AddressMissing(f)
      PROVE  Abstract!Next
  <2>1. alert
    BY <1>3 DEF IInv, Uploads, AddressMissing
  <2>2. Abstract!Crash
    BY <1>3, <2>1 DEF AddressMissing, Abstract!Crash, phase, editVars, serverVars
  <2>3. QED
    BY <2>2 DEF Abstract!Next
<1>4. ASSUME NEW type \in {"defect", "complaint"}, ChooseType(type)
      PROVE  UNCHANGED Abstract!vars
  BY <1>4, Stutter DEF ChooseType, serverVars
<1>5. CASE Submit
  BY <1>5, SubmitRefines DEF Abstract!Next
<1>6. CASE UNCHANGED vars
  BY <1>6, Stutter DEF vars, editVars, serverVars
<1>7. QED
  BY <1>1, <1>2, <1>3, <1>4, <1>5, <1>6, StoreRefines, AnswerRefines DEF Next

(* P_WRITE implements Submission: whatever uploads, losses and retries do, *)
(* an article carries exactly the files attached at its tap, each tap      *)
(* publishes at most one, and success is reported only for a stored one.   *)
THEOREM WriteImplementsSubmission == Spec => PublishesOnce
<1>1. Spec => Abstract!Init /\ [][Abstract!Next]_Abstract!vars
  BY InitRefines, NextRefines, Invariance, PTL DEF Spec
<1>2. QED
  BY <1>1 DEF PublishesOnce, Abstract!Spec
-----------------------------------------------------------------------------
(* Signing in: the number and the account a login leaves behind, for any   *)
(* set of numbers and any number of unanswered requests.                   *)

(* A check still unanswered is one for the number on the screen.           *)
ChecksOfShown ==
    ~edited => \A r \in inflight : r.type = "check" => r.mb_id = TF1

(* Records are those of the number on the screen while they may be used:   *)
(* while a check is unanswered or has just succeeded.                      *)
RecordsOfShown ==
    ~edited /\ (SIGNCHECK \/ CheckPending) => \A i \in DOMAIN OBJ_AUTH : OBJ_AUTH[i] = TF1

(* The stored number is the shown one from the successful check on.        *)
LoadingSigned == page = "loading" => SIGNCHECK

(* The apartment is stored by login only.                                  *)
NoAccountYet == page = "auth" => account = NoText

SignInInv ==
    /\ AuthTypeOK /\ SignedNumberIsShown /\ SignedNumberIsVerified /\ ScreenTellsState
    /\ ChecksOfShown /\ RecordsOfShown /\ LoadingSigned /\ NoAccountYet /\ OwnAccount

-----------------------------------------------------------------------------
LEMMA InitSignIn == AuthInit => SignInInv
<1> SUFFICES ASSUME AuthInit PROVE SignInInv
  OBVIOUS
<1> USE DEF AuthInit
<1>1. OBJ_AUTH \in Seq(Texts(Phones))
  BY EmptySeq
<1>2. AuthTypeOK
  BY <1>1 DEF AuthTypeOK, Texts
<1>3. QED
  BY <1>2 DEF SignInInv, SignedNumberIsShown, SignedNumberIsVerified, ScreenTellsState,
     OneButton, TickMeansAgreed, ChecksOfShown,
     RecordsOfShown, LoadingSigned, NoAccountYet, OwnAccount

(* One lemma per group of actions: the gestures on the text fields ...     *)
LEMMA EditIInv ==
    ASSUME SignInInv,
           \/ \E text \in Texts(Phones) : EditPhone(text)
           \/ \E text \in Texts({Code}) : EditCode(text)
    PROVE  SignInInv'
<1> USE DEF EditPhone, EditCode, agreements, defaults, history
<1>1. AuthTypeOK'
  BY DEF SignInInv, AuthTypeOK, Texts
<1>2. (SignedNumberIsShown /\ SignedNumberIsVerified)'
  BY DEF SignInInv, SignedNumberIsShown, SignedNumberIsVerified
<1>3. ScreenTellsState'
  <2>1. UNCHANGED <<AGREE_B, AGREE_I1>>
    OBVIOUS
  <2>2. ASSUME NEW text \in Texts(Phones), EditPhone(text) PROVE OneButton'
    BY <2>2 DEF OneButton
  <2>3. ASSUME NEW text \in Texts({Code}), EditCode(text) PROVE OneButton'
    <3>1. (V1' <=> text = NoText) /\ (V2' <=> text # NoText) /\ TF2' = text
      BY <2>3
    <3>2. QED
      BY <3>1 DEF OneButton
  <2>4. QED
    BY <2>1, <2>2, <2>3 DEF SignInInv, ScreenTellsState, TickMeansAgreed
<1>4. (ChecksOfShown /\ RecordsOfShown)'
  BY DEF SignInInv, ChecksOfShown, RecordsOfShown, CheckPending
<1>5. (LoadingSigned /\ NoAccountYet /\ OwnAccount)'
  BY DEF SignInInv, LoadingSigned, NoAccountYet, OwnAccount
<1>6. QED
  BY <1>1, <1>2, <1>3, <1>4, <1>5 DEF SignInInv

(* ... the buttons that send a request ...                                 *)
LEMMA SendIInv ==
    ASSUME SignInInv, RequestCode \/ CheckCode
    PROVE  SignInInv'
<1> USE DEF agreements, defaults, history, fields, views
<1>1. PICK type \in {"request", "check"}, id \in Ids :
        /\ OBJ_AUTH' = <<>>
        /\ inflight' = inflight \cup {[id |-> id, type |-> type, mb_id |-> TF1]}
  BY DEF RequestCode, CheckCode, PUT_AUTH
<1>2. UNCHANGED <<fields, views, SIGNCHECK, agreements, defaults, page, history>>
  BY DEF RequestCode, CheckCode, PUT_AUTH
<1>3. AuthTypeOK'
  <2>1. [id |-> id, type |-> type, mb_id |-> TF1] \in Request
    BY <1>1 DEF SignInInv, AuthTypeOK, Texts, Request
  <2>2. OBJ_AUTH' \in Seq(Texts(Phones))
    BY <1>1, EmptySeq
  <2>3. QED
    BY <1>1, <1>2, <2>1, <2>2 DEF SignInInv, AuthTypeOK
<1>4. (SignedNumberIsShown /\ SignedNumberIsVerified /\ ScreenTellsState)'
  BY <1>2 DEF SignInInv, SignedNumberIsShown, SignedNumberIsVerified, ScreenTellsState,
     OneButton, TickMeansAgreed
<1>5. (ChecksOfShown /\ RecordsOfShown)'
  BY <1>1, <1>2 DEF SignInInv, ChecksOfShown, RecordsOfShown
<1>6. (LoadingSigned /\ NoAccountYet /\ OwnAccount)'
  BY <1>2 DEF SignInInv, LoadingSigned, NoAccountYet, OwnAccount
<1>7. QED
  BY <1>3, <1>4, <1>5, <1>6 DEF SignInInv

(* ... the answer that signs in ...                                        *)
LEMMA SucceedsIInv ==
    ASSUME SignInInv, NEW r \in inflight, CheckSucceeds(r)
    PROVE  SignInInv'
<1> USE DEF CheckSucceeds, SignedIn, Received, agreements, fields
<1>1. r \in Request /\ r.type = "check" /\ CheckPending
  BY DEF SignInInv, AuthTypeOK, CheckPending
<1>2. r.mb_id \in Texts(Phones)
  BY <1>1 DEF Request, Texts
<1>3. OBJ_AUTH \in Seq(Texts(Phones)) /\ Len(OBJ_AUTH) \in Nat
  BY LenProperties DEF SignInInv, AuthTypeOK
<1>4. \/ OBJ_AUTH' = OBJ_AUTH
      \/ OBJ_AUTH' = Append(OBJ_AUTH, r.mb_id)
  OBVIOUS
<1>5. OBJ_AUTH' \in Seq(Texts(Phones))
  BY <1>2, <1>3, <1>4, AppendProperties
<1>6. AuthTypeOK'
  BY <1>2, <1>5 DEF SignInInv, AuthTypeOK
<1>7. ~edited => r.mb_id = TF1
  BY <1>1 DEF SignInInv, ChecksOfShown
<1>8. ~edited => \A i \in DOMAIN OBJ_AUTH' : OBJ_AUTH'[i] = TF1
  <2>1. ASSUME ~edited PROVE \A i \in DOMAIN OBJ_AUTH : OBJ_AUTH[i] = TF1
    BY <1>1, <2>1 DEF SignInInv, RecordsOfShown
  <2>2. CASE OBJ_AUTH' = OBJ_AUTH
    BY <2>1, <2>2
  <2>3. CASE OBJ_AUTH' = Append(OBJ_AUTH, r.mb_id)
    <3>1. /\ DOMAIN OBJ_AUTH' = 1 .. Len(OBJ_AUTH) + 1
          /\ DOMAIN OBJ_AUTH = 1 .. Len(OBJ_AUTH)
          /\ OBJ_AUTH'[Len(OBJ_AUTH) + 1] = r.mb_id
          /\ \A i \in 1 .. Len(OBJ_AUTH) : OBJ_AUTH'[i] = OBJ_AUTH[i]
      BY <1>2, <1>3, <2>3, AppendProperties, LenProperties
    <3>2. QED
      BY <1>3, <1>7, <2>1, <3>1
  <2>4. QED
    BY <1>4, <2>2, <2>3
<1>9. (SignedNumberIsShown /\ SignedNumberIsVerified /\ ScreenTellsState)'
  BY <1>7 DEF SignInInv, SignedNumberIsShown, SignedNumberIsVerified, ScreenTellsState,
     OneButton, TickMeansAgreed
<1>10. (ChecksOfShown /\ RecordsOfShown)'
  BY <1>8 DEF SignInInv, ChecksOfShown, RecordsOfShown
<1>11. (LoadingSigned /\ NoAccountYet /\ OwnAccount)'
  BY DEF SignInInv, LoadingSigned, NoAccountYet, OwnAccount, SignedNumberIsShown
<1>12. QED
  BY <1>6, <1>9, <1>10, <1>11 DEF SignInInv

(* ... the other answers ...                                               *)
LEMMA OtherAnswerIInv ==
    ASSUME SignInInv, NEW r \in inflight,
           RequestSucceeds(r) \/ RequestRefused(r) \/ CheckRefused(r) \/ NoAnswer(r)
    PROVE  SignInInv'
<1> USE DEF RequestSucceeds, RequestRefused, CheckRefused, NoAnswer, Received, agreements,
        defaults, history, fields, views
<1>1. AuthTypeOK'
  BY DEF SignInInv, AuthTypeOK, Texts
<1>2. (SignedNumberIsShown /\ SignedNumberIsVerified)'
  BY DEF SignInInv, SignedNumberIsShown, SignedNumberIsVerified
<1>3. ScreenTellsState'
  <2>1. Code # NoText
    BY AuthAssumption
  <2>2. QED
    BY <2>1 DEF SignInInv, ScreenTellsState, OneButton, TickMeansAgreed
<1>4. (ChecksOfShown /\ RecordsOfShown)'
  BY DEF SignInInv, ChecksOfShown, RecordsOfShown, CheckPending
<1>5. (LoadingSigned /\ NoAccountYet /\ OwnAccount)'
  BY DEF SignInInv, LoadingSigned, NoAccountYet, OwnAccount
<1>6. QED
  BY <1>1, <1>2, <1>3, <1>4, <1>5 DEF SignInInv

(* ... the boxes ...                                                       *)
LEMMA AgreeIInv ==
    ASSUME SignInInv, AgreeAll \/ \E b \in {2, 3} : Agree(b)
    PROVE  SignInInv'
<1>1. UNCHANGED <<fields, views, SIGNCHECK, OBJ_AUTH, inflight, defaults, page, history>>
  BY DEF AgreeAll, Agree
<1>2. AGREE_B \in [1 .. 3 -> BOOLEAN] /\ AGREE_I1 \in BOOLEAN
  BY DEF SignInInv, AuthTypeOK
<1>3. /\ AGREE_B' \in [1 .. 3 -> BOOLEAN] /\ AGREE_I1' \in BOOLEAN
      /\ TickMeansAgreed'
  <2>1. CASE AgreeAll
    BY <1>2, <2>1 DEF AgreeAll, TickMeansAgreed
  <2>2. ASSUME NEW b \in {2, 3}, Agree(b)
        PROVE  /\ AGREE_B' \in [1 .. 3 -> BOOLEAN] /\ AGREE_I1' \in BOOLEAN
               /\ TickMeansAgreed'
    <3>1. AGREE_B' = [AGREE_B EXCEPT ![b] = ~AGREE_B[b]]
      BY <2>2 DEF Agree
    <3>2. AGREE_B' \in [1 .. 3 -> BOOLEAN]
      BY <1>2, <3>1
    <3>3. 5 - b \in {2, 3} /\ 5 - b # b /\ (AGREE_I1 <=> AGREE_B[b] /\ AGREE_B[5 - b])
      BY DEF SignInInv, ScreenTellsState, TickMeansAgreed
    <3>4. (AGREE_B'[b] <=> ~AGREE_B[b]) /\ (AGREE_B'[5 - b] <=> AGREE_B[5 - b])
      <4> DEFINE c == 5 - b
      <4>1. b \in DOMAIN AGREE_B /\ c \in DOMAIN AGREE_B /\ c # b
        BY <1>2, <3>3
      <4> HIDE DEF c
      <4>2. (AGREE_B'[b] <=> ~AGREE_B[b]) /\ (AGREE_B'[c] <=> AGREE_B[c])
        BY <3>1, <4>1, Zenon
      <4>3. QED
        BY <4>2 DEF c
    <3>5. AGREE_I1' = IF AGREE_B[b] THEN FALSE ELSE AGREE_I1 \/ AGREE_B[5 - b]
      BY <2>2 DEF Agree
    <3>6. AGREE_I1' \in BOOLEAN /\ (AGREE_I1' <=> AGREE_B'[b] /\ AGREE_B'[5 - b])
      BY <1>2, <3>3, <3>4, <3>5
    <3>7. AGREE_B'[2] /\ AGREE_B'[3] <=> AGREE_B'[b] /\ AGREE_B'[5 - b]
      BY <3>3
    <3>8. QED
      BY <3>2, <3>6, <3>7 DEF TickMeansAgreed
  <2>3. QED
    BY <2>1, <2>2
<1>4. AuthTypeOK'
  BY <1>1, <1>3 DEF SignInInv, AuthTypeOK, fields, views, defaults, history
<1>5. (SignedNumberIsShown /\ SignedNumberIsVerified /\ OneButton)'
  BY <1>1 DEF SignInInv, SignedNumberIsShown, SignedNumberIsVerified, ScreenTellsState, OneButton,
     fields, views, defaults, history
<1>6. (ChecksOfShown /\ RecordsOfShown)'
  BY <1>1 DEF SignInInv, ChecksOfShown, RecordsOfShown, CheckPending, fields, history
<1>7. (LoadingSigned /\ NoAccountYet /\ OwnAccount)'
  BY <1>1 DEF SignInInv, LoadingSigned, NoAccountYet, OwnAccount, defaults, history
<1>8. QED
  BY <1>3, <1>4, <1>5, <1>6, <1>7 DEF SignInInv, ScreenTellsState

(* ... login, which takes the first record ...                             *)
LEMMA LoginIInv ==
    ASSUME SignInInv, Login
    PROVE  SignInInv'
<1> USE DEF Login, agreements, history, fields, views
<1>1. OBJ_AUTH # <<>> => 1 \in DOMAIN OBJ_AUTH /\ OBJ_AUTH[1] \in Texts(Phones)
  BY ElementOfSeq, LenProperties, EmptySeq DEF SignInInv, AuthTypeOK
<1>2. AuthTypeOK'
  BY <1>1 DEF SignInInv, AuthTypeOK
<1>3. (SignedNumberIsShown /\ SignedNumberIsVerified /\ ScreenTellsState)'
  BY DEF SignInInv, SignedNumberIsShown, SignedNumberIsVerified, ScreenTellsState,
     OneButton, TickMeansAgreed
<1>4. (ChecksOfShown /\ RecordsOfShown)'
  BY DEF SignInInv, ChecksOfShown, RecordsOfShown, CheckPending
<1>5. (LoadingSigned /\ NoAccountYet)'
  BY DEF SignInInv, LoadingSigned, NoAccountYet
<1>6. OwnAccount'
  BY <1>1 DEF SignInInv, OwnAccount, RecordsOfShown, SignedNumberIsShown
<1>7. QED
  BY <1>2, <1>3, <1>4, <1>5, <1>6 DEF SignInInv

(* ... and a new launch.                                                   *)
LEMMA RelaunchIInv ==
    ASSUME SignInInv, Relaunch
    PROVE  SignInInv'
<1> USE DEF Relaunch, defaults
<1>1. account = NoText /\ page' = "auth"
  BY DEF SignInInv, NoAccountYet
<1>2. AuthTypeOK'
  <2>1. OBJ_AUTH' \in Seq(Texts(Phones))
    BY EmptySeq
  <2>2. QED
    BY <1>1, <2>1 DEF SignInInv, AuthTypeOK, Texts
<1>3. QED
  BY <1>1, <1>2 DEF SignInInv, SignedNumberIsShown, SignedNumberIsVerified, ScreenTellsState,
     OneButton, TickMeansAgreed,
     ChecksOfShown, RecordsOfShown, CheckPending, LoadingSigned, NoAccountYet, OwnAccount

LEMMA NextSignIn == SignInInv /\ [AuthNext]_authVars => SignInInv'
<1> SUFFICES ASSUME SignInInv, [AuthNext]_authVars PROVE SignInInv'
  OBVIOUS
<1>1. CASE AuthNext
  BY <1>1, EditIInv, SendIInv, SucceedsIInv, OtherAnswerIInv, AgreeIInv, LoginIInv, RelaunchIInv
     DEF AuthNext
<1>2. CASE UNCHANGED authVars
  BY <1>2 DEF authVars, fields, views, agreements, defaults, history, SignInInv, AuthTypeOK,
     SignedNumberIsShown, SignedNumberIsVerified, ScreenTellsState,
     OneButton, TickMeansAgreed, ChecksOfShown,
     RecordsOfShown, CheckPending, LoadingSigned, NoAccountYet, OwnAccount
<1>3. QED
  BY <1>1, <1>2

LEMMA SignInHolds == AuthSpec => []SignInInv
BY InitSignIn, NextSignIn, PTL DEF AuthSpec

(* The sign-in screen's state stays well typed (VC_AUTH, P_AUTH).          *)
THEOREM AuthTypeCorrect == AuthSpec => []AuthTypeOK
<1>1. SignInInv => AuthTypeOK
  BY DEF SignInInv
<1>2. QED
  BY <1>1, SignInHolds, PTL

(* The number that logs in is the one on the screen (VC_AUTH 82), and the  *)
(* one the server verified if it was left alone meanwhile (P_AUTH 66).     *)
THEOREM SignedNumber == AuthSpec => []SignedNumberIsRight
<1>1. SignInInv => SignedNumberIsRight
  BY DEF SignInInv, SignedNumberIsRight
<1>2. QED
  BY <1>1, SignInHolds, PTL

(* Under the same condition login never stores the apartment of another    *)
(* member with the number (VC_AUTH 153: the FIRST record received).        *)
THEOREM LoginStoresOwnAccount == AuthSpec => []OwnAccount
<1>1. SignInInv => OwnAccount
  BY DEF SignInInv
<1>2. QED
  BY <1>1, SignInHolds, PTL

(* The buttons never share their place, whatever answers come late, and    *)
(* the tick beside "all" tells the truth about both agreements.            *)
THEOREM ScreenTellsTruth == AuthSpec => []ScreenTellsState
<1>1. SignInInv => ScreenTellsState
  BY DEF SignInInv
<1>2. QED
  BY <1>1, SignInHolds, PTL

(* The sign-in screen is left for the loading screen by a login only: not  *)
(* by a kill and a new launch after the number was stored.                 *)
THEOREM SessionNeedsLogin == AuthSpec => NoSessionWithoutLogin
<1>1. SignInInv /\ [AuthNext]_authVars =>
        [page = "auth" /\ page' = "loading" => SIGNCHECK /\ AGREE_B[2] /\ AGREE_B[3]]_authVars
  <2> SUFFICES ASSUME SignInInv, [AuthNext]_authVars, page = "auth", page' = "loading"
               PROVE  SIGNCHECK /\ AGREE_B[2] /\ AGREE_B[3]
    OBVIOUS
  <2>1. page' # page
    OBVIOUS
  <2>2. Login \/ Relaunch
    BY <2>1 DEF AuthNext, authVars, EditPhone, EditCode, RequestCode, CheckCode, PUT_AUTH,
       RequestSucceeds, RequestRefused, CheckSucceeds, SignedIn, CheckRefused, NoAnswer,
       AgreeAll, Agree
  <2>3. ~Relaunch
    BY DEF Relaunch, SignInInv, NoAccountYet
  <2>4. QED
    BY <2>2, <2>3 DEF Login
<1>2. QED
  BY <1>1, SignInHolds, PTL DEF AuthSpec, NoSessionWithoutLogin
=============================================================================
