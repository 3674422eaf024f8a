----------------------------- MODULE Submission -----------------------------
(***************************************************************************)
(* What the write screen promises, whatever becomes of uploads, answers    *)
(* and retries: a tap on "submit" publishes at most one article, however   *)
(* late; that article carries exactly the files attached at that tap; and  *)
(* the screen closes only when the article of its last tap was published,  *)
(* with the list behind it asked to show it or emptied.                    *)
(***************************************************************************)
EXTENDS Naturals, Sequences

CONSTANTS Files

VARIABLES
    phase,      \* "editing", "sending", "closed" or "dead" (the app crashed)
    attached,   \* the files the next submission will carry
    submitted,  \* per tap, the files attached at that tap
    articles,   \* the articles published: the tap and the files carried
    listed      \* the articles the list behind the screen was asked to show

vars == <<phase, attached, submitted, articles, listed>>

Article(n) == [tap |-> n, files |-> submitted[n]]

Init ==
    /\ phase = "editing"
    /\ attached = {}
    /\ submitted = <<>>
    /\ articles = {}
    /\ listed = {}

Edit ==
    /\ phase = "editing"
    /\ attached' \in SUBSET Files
    /\ UNCHANGED <<phase, submitted, articles, listed>>

Submit ==
    /\ phase = "editing"
    /\ phase' = "sending"
    /\ submitted' = Append(submitted, attached)
    /\ UNCHANGED <<attached, articles, listed>>

Publish(n) ==
    /\ Article(n) \notin articles
    /\ articles' = articles \cup {Article(n)}
    /\ UNCHANGED <<phase, attached, submitted, listed>>

Close ==
    /\ phase = "sending"
    /\ Article(Len(submitted)) \in articles
    /\ phase' = "closed"
    /\ listed' \in {articles, {}}
    /\ UNCHANGED <<attached, submitted, articles>>

(* The answer was lost or refused: the user may submit again.              *)
GiveUp ==
    /\ phase = "sending"
    /\ phase' = "editing"
    /\ UNCHANGED <<attached, submitted, articles, listed>>

Crash ==
    /\ phase = "sending"
    /\ phase' = "dead"
    /\ UNCHANGED <<attached, submitted, articles, listed>>

Next ==
    \/ Edit \/ Submit \/ Close \/ GiveUp \/ Crash
    \/ \E n \in DOMAIN submitted : Publish(n)

Spec == Init /\ [][Next]_vars
=============================================================================
