------------------------------ MODULE ReviewDesk ------------------------------
(***************************************************************************)
(* The reviewer's user interface (ui/streamlit_app.py) over the case API.   *)
(* Every click reruns the page's script from its top: the script fetches    *)
(* the case, draws the buttons that row allows, and only if the clicked one *)
(* is still among them does it act, with the version it has just fetched    *)
(* and not the one of the page the reviewer was looking at.  Other tabs and *)
(* other clients of the API work on the same cases, between the click and   *)
(* the fetch as well as between the fetch and the request.                  *)
(***************************************************************************)
EXTENDS CaseRecord

CONSTANTS
    Tab,              \* browser tabs, each a Streamlit session
    DefaultReviewer,  \* the name every session starts with
    Shared,           \* the attributes that link the members of each case
    MaxVersion        \* bound: nobody supplies, and no other client changes,
                      \* a case at this version

ASSUME DeskAssumption ==
    /\ DefaultReviewer \in Reviewer
    /\ {"approve_onboarding", "keep_on_hold", "escalate"} \subseteq HumanDecision
    /\ Item # {}
    /\ MaxVersion \in Nat

VARIABLES
    cases,  \* the committed row of every case, None before it is opened
    tab     \* what each session shows and is about to do

deskVars == << cases, tab >>

-------------------------------------------------------------------------------
(* Resolutions, and what the API accepts of them. *)

ClearingOptions == { << "legitimate_coworking", "verified_coworking_tenancy" >>,
                     << "legitimate_franchise", "verified_franchise_agreement" >>,
                     << "legitimate_accountant", "verified_accountant_relationship" >>,
                     << "legitimate_family", "verified_family_business" >>,
                     << "inconclusive", "links_explained_by_supplied_evidence" >> }

ClearingReasons == { "verified_franchise_agreement", "verified_accountant_relationship",
                     "verified_coworking_tenancy", "verified_family_business",
                     "links_explained_by_supplied_evidence" }

RingReason == [bank_account       |-> "shared_settlement_account",
               owner_pan          |-> "shared_owner_identifier",
               device_fingerprint |-> "shared_device_or_network",
               ip_address         |-> "shared_device_or_network",
               address_hash       |-> "shared_registered_address"]

RingReasons(c) ==
    LET found == { RingReason[a] : a \in Shared[c] \cap DOMAIN RingReason }
    IN  IF found = {} THEN { "insufficient_evidence" } ELSE found

Resolution(d, o, reasons) == [decision |-> d, outcome |-> o, reasons |-> reasons]

\* What each confirmation button may send; the explanation of a clearing is
\* the reviewer's.
Resolutions(c, proposal) ==
    CASE proposal = "ring" -> { Resolution("keep_on_hold", "confirmed_ring", RingReasons(c)) }
      [] proposal = "evidence" ->
             { Resolution("escalate", "inconclusive", { "insufficient_evidence" }) }
      [] proposal = "clear" ->
             { Resolution("approve_onboarding", o[1], { o[2] }) : o \in ClearingOptions }

IsValid(res) ==
    /\ res.reasons # {}
    /\ res.decision = "approve_onboarding" =>
          /\ res.outcome # "confirmed_ring"
          /\ res.reasons \cap ClearingReasons # {}
    /\ res.decision = "keep_on_hold" => res.reasons \cap ClearingReasons = {}

-------------------------------------------------------------------------------
(* The page. *)

Proposal == { "ring", "evidence", "clear" }
ConfirmOf == [ring |-> "confirm_ring", evidence |-> "confirm_evidence",
              clear |-> "confirm_clear"]
Confirm == { ConfirmOf[p] : p \in Proposal }
Button == Proposal \cup Confirm \cup { "cancel", "start", "supply", "hand_off" }

\* Mutant: whoever looks at a claimed case may decide it.
HeldByAnyone(r, who) == r.status = "claimed"

\* Mutant: the claim alone opens the decision, on a paused case as well.
HeldWhilePaused(r, who) ==
    r.status \in { "claimed", "awaiting_information" } /\ r.claimedBy = who

HeldBy(r, who) == r.status = "claimed" /\ r.claimedBy = who

\* render_decision: the buttons below a row, for the reviewer named in the
\* session and the proposal that is pending there.
Offers(r, who, pending, b) ==
    \/ b = "hand_off" /\ IsApproved(r) /\ ~r.handedOff
    \/ b = "supply" /\ r.human = None /\ AwaitsInformation(r)
    \/ b = "start" /\ r.human = None /\ r.status = "pending_review"
    \/ /\ r.human = None /\ HeldBy(r, who)
       /\ \/ b \in Proposal
          \/ pending # None /\ b = ConfirmOf[pending]
          \/ pending = "ring" /\ b = "cancel"

\* A row of the home page: reviewable_cases.
IsReviewable(r, who) ==
    /\ r # None
    /\ r.status \in { "pending_review", "claimed", "awaiting_information" }
    /\ r.claimedBy \in { None, who }

Sendable == UNION { Resolutions(c, p) : c \in CaseId, p \in Proposal }

\* A request on its way, with the version the script has fetched.
Request == [op : { "claim", "progress", "resolve", "handoff" }, case : CaseId,
            version : Nat \ {0}, by : Reviewer \cup {None},
            resolution : Sendable \cup {None}]

RequestTo(op, c, who, res) == [op |-> op, case |-> c, version |-> cases[c].version,
                               by |-> who, resolution |-> res]

TabState ==
    [reviewer : Reviewer \cup {None},    \* None: a name of less than two characters
     case     : CaseId \cup {None},      \* None: the home page
     pending  : Proposal \cup {None},
     page     : Row \cup {None},         \* the row drawn last, None on a failure
     seen     : Row \cup {None},         \* what was drawn when the button was clicked
     step     : { "shown", "running", "posting" },
     clicked  : Button \cup {None},
     post     : Request \cup {None}]

\* None is nothing that a session's fields may hold.
ASSUME NothingAssumption ==
    /\ None \notin CaseId
    /\ None \notin Proposal
    /\ None \notin Button
    /\ None \notin Request

DeskTypeOK ==
    /\ cases \in [CaseId -> Row \cup {None}]
    /\ tab \in [Tab -> TabState]
    /\ \A t \in Tab : /\ tab[t].step = "posting" <=> tab[t].post # None
                      /\ tab[t].clicked # None => tab[t].step = "running"
                      /\ tab[t].page # None => tab[t].case # None

DeskInit ==
    /\ cases = [c \in CaseId |-> None]
    /\ tab = [t \in Tab |-> [reviewer |-> DefaultReviewer, case |-> None, pending |-> None,
                             page |-> None, seen |-> None, step |-> "shown",
                             clicked |-> None, post |-> None]]

Rerun(s) == [s EXCEPT !.step = "running", !.clicked = None, !.post = None, !.seen = None]

\* Mutant: a finished request stays in the session.
RestWithPost(s) == [s EXCEPT !.step = "shown", !.clicked = None, !.seen = None]

Rest(s) == [s EXCEPT !.step = "shown", !.clicked = None, !.post = None, !.seen = None]

ShowCase(s, c) == [Rerun(s) EXCEPT !.case = c, !.pending = None, !.page = None]

-------------------------------------------------------------------------------
(* What the reviewer does. *)

ChangeName(t, who) ==
    /\ tab[t].step = "shown"
    /\ tab' = [tab EXCEPT ![t] = IF @.case = None THEN [@ EXCEPT !.reviewer = who]
                                 ELSE [Rerun(@) EXCEPT !.reviewer = who]]
    /\ UNCHANGED cases

Click(t, b) ==
    /\ tab[t].step = "shown"
    /\ tab[t].page # None
    /\ Offers(tab[t].page, tab[t].reviewer, tab[t].pending, b)
    /\ b = "supply" => tab[t].page.version < MaxVersion
    /\ tab' = [tab EXCEPT ![t] = [Rerun(@) EXCEPT !.clicked = b,
                                               !.seen = tab[t].page]]
    /\ UNCHANGED cases

Reload(t) ==
    /\ tab[t].step = "shown"
    /\ tab[t].case # None
    /\ tab' = [tab EXCEPT ![t] = Rerun(@)]
    /\ UNCHANGED cases

\* Back to the queue, by its button or by the navigation bar.  (The other two
\* surfaces leave the pending proposal alone, but are left through Review.)
Leave(t) ==
    /\ tab[t].step = "shown"
    /\ tab[t].case # None
    /\ tab' = [tab EXCEPT ![t] = [@ EXCEPT !.case = None, !.pending = None, !.page = None]]
    /\ UNCHANGED cases

\* open_for_reviewer: a case nobody has started is claimed first.
OpenForReviewer(t, c) ==
    /\ tab[t].reviewer # None
    /\ tab' = [tab EXCEPT ![t] =
           IF cases[c].status = "pending_review"
           THEN [@ EXCEPT !.step = "posting", !.clicked = None,
                          !.post = RequestTo("claim", c, tab[t].reviewer, None)]
           ELSE ShowCase(@, c)]

\* From the home page: a case of the queue as it is when the click is handled
\* ("Review next case" takes whichever heads it then), or a demonstration case,
\* which is opened when it is not there and may be in any state.
Visit(t, c) ==
    /\ tab[t].step = "shown"
    /\ tab[t].case = None
    /\ IsReviewable(cases[c], tab[t].reviewer)
    /\ OpenForReviewer(t, c)
    /\ UNCHANGED cases

VisitDemonstration(t, c) ==
    /\ tab[t].step = "shown"
    /\ tab[t].case = None
    /\ cases[c] # None
    /\ OpenForReviewer(t, c)
    /\ UNCHANGED cases

-------------------------------------------------------------------------------
(* What the script does. *)

Sent(s, q) == [s EXCEPT !.step = "posting", !.clicked = None, !.post = q]

\* review_case with the row fetched now: the clicked button acts only if this
\* row still has it.
Act(t) ==
    LET s == tab[t]
        c == s.case
        b == s.clicked
        drawn == [s EXCEPT !.page = cases[c]]
        Becomes(x) == tab' = [tab EXCEPT ![t] = x] IN
    /\ b # None
    /\ Offers(cases[c], s.reviewer, s.pending, b)
    /\ \/ b \in Proposal /\ Becomes([Rerun(drawn) EXCEPT !.pending = b])
       \/ b = "cancel" /\ Becomes([Rerun(drawn) EXCEPT !.pending = None])
       \/ /\ b = "start"
          /\ Becomes(IF s.reviewer = None THEN Rest(drawn)
                     ELSE Sent(drawn, RequestTo("claim", c, s.reviewer, None)))
       \/ b = "supply" /\ Becomes(Sent(drawn, RequestTo("progress", c, s.reviewer, None)))
       \/ b = "hand_off" /\ Becomes(Sent(drawn, RequestTo("handoff", c, s.reviewer, None)))
       \/ /\ b \in Confirm
          /\ \E res \in Resolutions(c, s.pending) :
                 Becomes(Sent(drawn, RequestTo("resolve", c, s.reviewer, res)))

Draw(t) == LET s == tab[t] IN
    /\ s.clicked # None => ~Offers(cases[s.case], s.reviewer, s.pending, s.clicked)
    /\ tab' = [tab EXCEPT ![t] = [Rest(@) EXCEPT !.page = cases[s.case]]]

FailToDraw(t) == tab' = [tab EXCEPT ![t] = [Rest(@) EXCEPT !.page = None]]

Fetch(t) ==
    /\ tab[t].step = "running"
    /\ Act(t) \/ Draw(t) \/ FailToDraw(t)
    /\ UNCHANGED cases

\* The changes a request may turn into; a workflow run gives supplied evidence
\* any status and verdict.
Changes(q) == { ch \in RowChange : /\ ch.op = q.op
                                   /\ ch.op \in {"claim", "resolve"} => ch.by = q.by
                                   /\ ch.op = "resolve" => ch.decision = q.resolution.decision }

\* The API takes the request: its fields are valid, its version is the row's
\* and the operation is legal.
IsAccepted(q, r) ==
    /\ q.by # None
    /\ q.resolution # None => IsValid(q.resolution)
    /\ q.version = r.version
    /\ \E ch \in Changes(q) : Legal(r, ch) /\ Invited(r, ch)

AfterPost(s) == IF s.post.op = "claim" THEN ShowCase(s, s.post.case)
                ELSE IF s.post.op = "resolve" THEN [Rerun(s) EXCEPT !.pending = None]
                ELSE Rerun(s)

\* The answer to an accepted request may be lost on the way: api_call reports
\* it like a refusal and the page stays as it was drawn.
Succeed(t) == LET q == tab[t].post IN
    /\ tab[t].step = "posting"
    /\ IsAccepted(q, cases[q.case])
    /\ \E ch \in Changes(q) : cases' = [cases EXCEPT ![q.case] = Bumped(@, ch)]
    /\ \E answered \in BOOLEAN :
           tab' = [tab EXCEPT ![t] = IF answered THEN AfterPost(@) ELSE Rest(@)]

\* A conflict, a refusal, no workflow thread to resume, no gateway, or no API.
Fail(t) ==
    /\ tab[t].step = "posting"
    /\ tab' = [tab EXCEPT ![t] = Rest(@)]
    /\ UNCHANGED cases

-------------------------------------------------------------------------------
(* The other clients of the API, the seeder and the demonstration button. *)

Open(c, k, st, v) ==
    /\ cases[c] = None
    /\ \A d \in CaseId : cases[d] # None => cases[d].key # k
    /\ cases' = [cases EXCEPT ![c] = NewRow(k, st, v)]
    /\ UNCHANGED tab

Elsewhere(c, ch) ==
    /\ cases[c] # None
    /\ cases[c].version < MaxVersion
    /\ Legal(cases[c], ch)
    /\ Invited(cases[c], ch)
    /\ cases' = [cases EXCEPT ![c] = Bumped(@, ch)]
    /\ UNCHANGED tab

DeskNext ==
    \/ \E t \in Tab :
          \/ \E who \in Reviewer \cup {None} : ChangeName(t, who)
          \/ \E b \in Button : Click(t, b)
          \/ Reload(t) \/ Leave(t)
          \/ \E c \in CaseId : Visit(t, c) \/ VisitDemonstration(t, c)
          \/ Fetch(t) \/ Succeed(t) \/ Fail(t)
    \/ \E c \in CaseId :
          \/ \E k \in Key, st \in OpeningStatus, v \in Verdict : Open(c, k, st, v)
          \/ \E ch \in RowChange : Elsewhere(c, ch)

DeskSpec == DeskInit /\ [][DeskNext]_deskVars

-------------------------------------------------------------------------------
IsCurrent(q) == q # None /\ q.version = cases[q.case].version

\* The page never offers what the API refuses: a request whose version is still
\* the row's is accepted, so that reviewers are turned away by lost races only.
\* Two exceptions: a name too short for the API, and "Start review" on a case
\* that another client claimed while it was paused (streamlit_app.py
\* render_decision; store.py claim, resolve; contracts.py _validate_resolution).
ButtonsWork ==
    \A t \in Tab : LET q == tab[t].post IN
        IsCurrent(q) /\ q.by # None =>
            \/ IsAccepted(q, cases[q.case])
            \/ q.op = "claim" /\ cases[q.case].claimedBy \notin {None, q.by}

\* Although the version that guards a decision is fetched after the click, the
\* decision can only reach the case that was on the page the reviewer clicked:
\* held by the same reviewer and with the same automated verdict
\* (streamlit_app.py review_case, resolve_case).
DecidedOnThePage ==
    \A t \in Tab : LET q == tab[t].post IN
        IsCurrent(q) /\ q.op = "resolve" =>
            /\ tab[t].seen # None
            /\ tab[t].seen.verdict = cases[q.case].verdict
            /\ tab[t].seen.claimedBy = q.by
===============================================================================
