--------------------------- MODULE ReviewDeskProofs ---------------------------
(***************************************************************************)
(* What holds of the reviewers' pages for any number of tabs, reviewers and *)
(* cases, and whatever other clients do: what a page offers works unless a  *)
(* race was lost, and a decision lands on what its reviewer has seen.       *)
(***************************************************************************)
EXTENDS ReviewDesk, CaseRecordProofs

\* Of a case that had row p once and now has r: it does not go back to wait for
\* information, and it keeps its verdict once it no longer waits.
Precedes(p, r) ==
    p.status # "awaiting_information" =>
        /\ r.status # "awaiting_information"
        /\ r.verdict = p.verdict

\* Row r is one on which the page offers what request q asks for.
Ready(q, r) ==
    /\ q.op = "claim" => r.status = "pending_review"
    /\ q.op = "progress" => AwaitsInformation(r)
    /\ q.op = "resolve" => HeldBy(r, q.by)
    /\ q.op = "handoff" => IsApproved(r) /\ ~r.handedOff

\* A request is for an opened case, which has moved on or is still ready for it.
RequestOK(q, cs) ==
    /\ cs[q.case] # None
    /\ q.version <= cs[q.case].version
    /\ q.version = cs[q.case].version => Ready(q, cs[q.case])
    /\ q.op # "resolve" => q.resolution = None
    /\ q.op = "resolve" => \E p \in Proposal : q.resolution \in Resolutions(q.case, p)

\* A session with the cases cs behind it: what it drew and what was drawn when
\* the reviewer clicked are earlier rows of its case, a clicked button was on
\* the page, and a decision is its holder's.
SessionOK(s, cs) ==
    /\ s.step = "posting" <=> s.post # None
    /\ s.clicked # None => s.step = "running"
    /\ s.step = "running" => s.case # None
    /\ s.step = "shown" => s.seen = None
    /\ s.case # None => cs[s.case] # None
    /\ s.page # None => s.case # None /\ Precedes(s.page, cs[s.case])
    /\ s.seen # None => s.case # None /\ Precedes(s.seen, cs[s.case])
    /\ s.clicked # None => s.seen # None /\ Offers(s.seen, s.reviewer, s.pending, s.clicked)
    /\ s.post # None =>
          /\ RequestOK(s.post, cs)
          /\ s.post.op # "claim" => s.post.case = s.case
          /\ s.post.op = "resolve" => s.seen # None /\ HeldBy(s.seen, s.post.by)

CasesOK == cases \in [CaseId -> Row \cup {None}]

Inv == /\ CasesOK
       /\ tab \in [Tab -> TabState]
       /\ \A t \in Tab : SessionOK(tab[t], cases)

-------------------------------------------------------------------------------
(* Rows. *)

\* A change the store accepts moves a row on.
LEMMA ChangeMovesOn ==
  ASSUME NEW r \in Row, NEW ch \in RowChange, Legal(r, ch), Invited(r, ch)
  PROVE  /\ Bumped(r, ch) \in Row
         /\ Bumped(r, ch).version > r.version
         /\ Precedes(r, Bumped(r, ch))
<1> DEFINE q == Assigned(r, ch)
<1>1. Bumped(r, ch) \in Row /\ Bumped(r, ch).version > r.version
  <2>1. r.version \in Nat /\ Bumped(r, ch).version = r.version + 1
    BY BumpedIs DEF Row
  <2>2. QED
    BY <2>1, BumpedIs
<1>2. ASSUME r.status # "awaiting_information"
      PROVE  q.status # "awaiting_information" /\ q.verdict = r.verdict
  <2>1. ch \notin ProgressChange
    BY <1>2 DEF ProgressChange, Invited, AwaitsInformation
  <2>2. /\ Claimed(r, ch).status # "awaiting_information"
        /\ Claimed(r, ch).verdict = r.verdict
    BY <1>2 DEF Row, Claimed
  <2>3. /\ Released(r).status # "awaiting_information"
        /\ Released(r).verdict = r.verdict
    BY <1>2 DEF Row, Released
  <2>4. /\ Resolved(r, ch).status # "awaiting_information"
        /\ Resolved(r, ch).verdict = r.verdict
    BY <1>2 DEF Row, Resolved
  <2>5. /\ HandedOff(r).status # "awaiting_information"
        /\ HandedOff(r).verdict = r.verdict
    BY <1>2 DEF Row, HandedOff
  <2>6. QED
    BY <2>1, <2>2, <2>3, <2>4, <2>5, AssignedIs
<1>3. QED
  BY <1>1, <1>2, BumpedIs DEF Precedes

\* What a session shows and asks for stays in order when a case is opened or
\* moves on.
LEMMA SessionSurvives ==
  ASSUME NEW cs \in [CaseId -> Row \cup {None}], NEW c \in CaseId, NEW r \in Row,
         cs[c] # None => r.version > cs[c].version /\ Precedes(cs[c], r),
         NEW s \in TabState, SessionOK(s, cs)
  PROVE  SessionOK(s, [cs EXCEPT ![c] = r])
<1> DEFINE ds == [cs EXCEPT ![c] = r]
<1>1. \A d \in CaseId : d # c => ds[d] = cs[d]
  OBVIOUS
<1>2. ds[c] = r /\ r # None
  BY NoneAssumption
<1> HIDE DEF ds
<1>3. ASSUME NEW p, NEW d \in CaseId, cs[d] # None, Precedes(p, cs[d])
      PROVE  Precedes(p, ds[d])
  BY <1>1, <1>2, <1>3 DEF Precedes
<1>4. \A d \in CaseId : cs[d] # None => ds[d] # None
  BY <1>1, <1>2
<1>5. s.case \in CaseId \cup {None}
  BY DEF TabState
<1>6. ASSUME s.post # None PROVE RequestOK(s.post, ds)
  <2> DEFINE q == s.post
  <2>1. q \in Request /\ RequestOK(q, cs)
    BY <1>6 DEF SessionOK, TabState
  <2>2. q.case \in CaseId /\ q.version \in Nat
    BY <2>1 DEF Request
  <2>3. CASE q.case # c
    BY <1>1, <2>1, <2>2, <2>3 DEF RequestOK
  <2>4. CASE q.case = c
    <3>1. cs[c] \in Row /\ q.version <= cs[c].version
      BY <2>1, <2>2, <2>4 DEF RequestOK
    <3>2. cs[c].version \in Nat /\ r.version \in Nat /\ r.version > cs[c].version
      BY <3>1, NoneAssumption DEF Row
    <3>3. q.version < r.version
      BY <2>2, <3>1, <3>2
    <3>4. QED
      BY <1>2, <2>1, <2>2, <2>4, <3>2, <3>3 DEF RequestOK
  <2>5. QED
    BY <2>3, <2>4
<1>7. SessionOK(s, ds)
  BY <1>3, <1>4, <1>5, <1>6 DEF SessionOK
<1>8. QED
  BY <1>7 DEF ds

-------------------------------------------------------------------------------
(* Sessions. *)

\* A rerun forgets the click and the request.
LEMMA RerunIs ==
  ASSUME NEW s \in TabState
  PROVE  /\ Rerun(s) \in TabState
         /\ Rerun(s).reviewer = s.reviewer
         /\ Rerun(s).case = s.case
         /\ Rerun(s).pending = s.pending
         /\ Rerun(s).page = s.page
         /\ Rerun(s).seen = None
         /\ Rerun(s).step = "running"
         /\ Rerun(s).clicked = None
         /\ Rerun(s).post = None
BY DEF Rerun, TabState

\* So does the script when it has run to its end.
LEMMA RestIs ==
  ASSUME NEW s \in TabState
  PROVE  /\ Rest(s) \in TabState
         /\ Rest(s).reviewer = s.reviewer
         /\ Rest(s).case = s.case
         /\ Rest(s).pending = s.pending
         /\ Rest(s).page = s.page
         /\ Rest(s).seen = None
         /\ Rest(s).step = "shown"
         /\ Rest(s).clicked = None
         /\ Rest(s).post = None
BY DEF Rest, TabState

LEMMA RerunIsOK ==
  ASSUME NEW s \in TabState, NEW cs, SessionOK(s, cs), s.case # None
  PROVE  SessionOK(Rerun(s), cs)
BY RerunIs DEF SessionOK

LEMMA RestIsOK ==
  ASSUME NEW s \in TabState, NEW cs, SessionOK(s, cs)
  PROVE  SessionOK(Rest(s), cs)
BY RestIs DEF SessionOK

\* The script draws the row it has fetched.
LEMMA DrawnIsOK ==
  ASSUME NEW s \in TabState, NEW cs \in [CaseId -> Row \cup {None}],
         SessionOK(s, cs), s.case # None
  PROVE  LET x == [s EXCEPT !.page = cs[s.case]] IN
         /\ x \in TabState /\ SessionOK(x, cs)
         /\ x.case = s.case /\ x.reviewer = s.reviewer /\ x.pending = s.pending
         /\ x.seen = s.seen
<1> DEFINE r == cs[s.case]
           x == [s EXCEPT !.page = r]
<1>1. r \in Row
  BY DEF SessionOK, TabState
<1>2. /\ x \in TabState /\ x.reviewer = s.reviewer /\ x.case = s.case
      /\ x.pending = s.pending /\ x.page = r /\ x.seen = s.seen /\ x.step = s.step
      /\ x.clicked = s.clicked /\ x.post = s.post
  BY <1>1 DEF TabState
<1>3. Precedes(r, cs[s.case])
  BY DEF Precedes
<1> HIDE DEF x
<1>4. SessionOK(x, cs)
  BY <1>2, <1>3 DEF SessionOK
<1>5. QED
  BY <1>2, <1>4 DEF x

\* With no button clicked the name and the proposal may change.
LEMMA SettingIsOK ==
  ASSUME NEW s \in TabState, NEW cs, SessionOK(s, cs), s.clicked = None,
         NEW who \in Reviewer \cup {None}, NEW b \in Proposal \cup {None}
  PROVE  /\ [s EXCEPT !.reviewer = who] \in TabState
         /\ SessionOK([s EXCEPT !.reviewer = who], cs)
         /\ [s EXCEPT !.pending = b] \in TabState
         /\ SessionOK([s EXCEPT !.pending = b], cs)
<1> DEFINE x == [s EXCEPT !.reviewer = who]
           y == [s EXCEPT !.pending = b]
<1>1. /\ x \in TabState /\ x.case = s.case /\ x.page = s.page /\ x.seen = s.seen
      /\ x.step = s.step /\ x.clicked = s.clicked /\ x.post = s.post
  BY DEF TabState
<1>2. /\ y \in TabState /\ y.case = s.case /\ y.page = s.page /\ y.seen = s.seen
      /\ y.step = s.step /\ y.clicked = s.clicked /\ y.post = s.post
  BY DEF TabState
<1> HIDE DEF x, y
<1>3. SessionOK(x, cs) /\ SessionOK(y, cs)
  BY <1>1, <1>2 DEF SessionOK
<1>4. QED
  BY <1>1, <1>2, <1>3 DEF x, y

\* A session turns to an opened case.
LEMMA ShowCaseIsOK ==
  ASSUME NEW s \in TabState, NEW cs, SessionOK(s, cs), NEW c \in CaseId, cs[c] # None
  PROVE  ShowCase(s, c) \in TabState /\ SessionOK(ShowCase(s, c), cs)
<1> DEFINE x == Rerun(s)
           y == ShowCase(s, c)
<1>1. x \in TabState /\ x.step = "running" /\ x.seen = None /\ x.clicked = None /\ x.post = None
  BY RerunIs
<1>2. y = [x EXCEPT !.case = c, !.pending = None, !.page = None]
  BY DEF ShowCase
<1> HIDE DEF x, y
<1>3. /\ y \in TabState /\ y.case = c /\ y.page = None /\ y.seen = x.seen
      /\ y.step = x.step /\ y.clicked = x.clicked /\ y.post = x.post
  BY <1>1, <1>2 DEF TabState
<1>4. c # None
  BY NothingAssumption
<1>5. SessionOK(y, cs)
  BY <1>1, <1>3, <1>4 DEF SessionOK
<1>6. QED
  BY <1>3, <1>5 DEF y

\* It sends a request that is in order.
LEMMA SentIsOK ==
  ASSUME NEW s \in TabState, NEW cs, SessionOK(s, cs), NEW q \in Request, RequestOK(q, cs),
         q.op # "claim" => q.case = s.case,
         q.op = "resolve" => s.seen # None /\ HeldBy(s.seen, q.by)
  PROVE  Sent(s, q) \in TabState /\ SessionOK(Sent(s, q), cs)
<1> DEFINE x == Sent(s, q)
<1>1. /\ x \in TabState /\ x.case = s.case /\ x.page = s.page /\ x.seen = s.seen
      /\ x.step = "posting" /\ x.clicked = None /\ x.post = q
  BY DEF Sent, TabState
<1> HIDE DEF x
<1>2. q # None
  BY NothingAssumption
<1>3. SessionOK(x, cs)
  BY <1>1, <1>2 DEF SessionOK
<1>4. QED
  BY <1>1, <1>3 DEF x

\* A request carries the version that the script has fetched.
LEMMA RequestIs ==
  ASSUME CasesOK, NEW op \in {"claim", "progress", "resolve", "handoff"},
         NEW c \in CaseId, cases[c] # None, NEW who \in Reviewer \cup {None},
         NEW res, res = None \/ \E p \in Proposal : res \in Resolutions(c, p)
  PROVE  /\ RequestTo(op, c, who, res) \in Request
         /\ RequestTo(op, c, who, res).op = op
         /\ RequestTo(op, c, who, res).case = c
         /\ RequestTo(op, c, who, res).by = who
         /\ RequestTo(op, c, who, res).version = cases[c].version
         /\ RequestTo(op, c, who, res).resolution = res
         /\ cases[c].version \in Nat
<1>1. cases[c].version \in Nat \ {0}
  BY DEF CasesOK, Row
<1>2. res \in Sendable \cup {None}
  BY DEF Sendable
<1>3. QED
  BY <1>1, <1>2 DEF RequestTo, Request

\* A request made of a row that is ready for it is in order.
LEMMA RequestIsOK ==
  ASSUME CasesOK, NEW op \in {"claim", "progress", "handoff"},
         NEW c \in CaseId, cases[c] # None, NEW who \in Reviewer \cup {None},
         op = "claim" => cases[c].status = "pending_review",
         op = "progress" => AwaitsInformation(cases[c]),
         op = "handoff" => IsApproved(cases[c]) /\ ~cases[c].handedOff
  PROVE  RequestOK(RequestTo(op, c, who, None), cases)
<1> DEFINE q == RequestTo(op, c, who, None)
<1>1. /\ q.op = op /\ q.case = c /\ q.version = cases[c].version /\ q.resolution = None
      /\ cases[c].version \in Nat
  BY RequestIs
<1> HIDE DEF q
<1>2. RequestOK(q, cases)
  BY <1>1 DEF RequestOK, Ready
<1>3. QED
  BY <1>2 DEF q

LEMMA DecisionIsOK ==
  ASSUME CasesOK, NEW c \in CaseId, cases[c] # None, NEW who \in Reviewer \cup {None},
         NEW p \in Proposal, NEW res \in Resolutions(c, p), HeldBy(cases[c], who)
  PROVE  RequestOK(RequestTo("resolve", c, who, res), cases)
<1> DEFINE q == RequestTo("resolve", c, who, res)
<1>1. /\ q.op = "resolve" /\ q.case = c /\ q.version = cases[c].version /\ q.resolution = res
      /\ q.by = who /\ cases[c].version \in Nat
  BY RequestIs
<1> HIDE DEF q
<1>2. RequestOK(q, cases)
  BY <1>1 DEF RequestOK, Ready
<1>3. QED
  BY <1>2 DEF q

\* What the confirmation buttons send is a decision that the API takes.
LEMMA ResolutionsAreValid ==
  ASSUME NEW c \in CaseId, NEW p \in Proposal, NEW res \in Resolutions(c, p)
  PROVE  IsValid(res) /\ res.decision \in HumanDecision
<1>1. CASE p = "ring"
  <2>1. res = Resolution("keep_on_hold", "confirmed_ring", RingReasons(c))
    BY <1>1 DEF Resolutions
  <2>2. RingReasons(c) # {} /\ RingReasons(c) \cap ClearingReasons = {}
    <3>1. \A a \in DOMAIN RingReason : RingReason[a] \notin ClearingReasons
      BY DEF RingReason, ClearingReasons
    <3>2. QED
      BY <3>1 DEF RingReasons, ClearingReasons
  <2>3. QED
    BY <2>1, <2>2, DeskAssumption DEF Resolution, IsValid
<1>2. CASE p = "evidence"
  BY <1>2, DeskAssumption DEF Resolutions, Resolution, IsValid
<1>3. CASE p = "clear"
  <2>1. PICK o \in ClearingOptions : res = Resolution("approve_onboarding", o[1], { o[2] })
    BY <1>3 DEF Resolutions
  <2>2. o[1] # "confirmed_ring" /\ o[2] \in ClearingReasons
    BY DEF ClearingOptions, ClearingReasons
  <2>3. QED
    BY <2>1, <2>2, DeskAssumption DEF Resolution, IsValid
<1>4. QED
  BY <1>1, <1>2, <1>3 DEF Proposal

-------------------------------------------------------------------------------
(* The steps of one tab. *)

\* The cases stay and only tab t changes, to a session that is in order.
LEMMA OneTabMoves ==
  ASSUME Inv, NEW t \in Tab, NEW x \in TabState, SessionOK(x, cases),
         tab' = [tab EXCEPT ![t] = x], UNCHANGED cases
  PROVE  Inv'
<1>1. CasesOK' /\ tab' \in [Tab -> TabState]
  BY DEF Inv, CasesOK
<1>2. \A u \in Tab : tab'[u] = IF u = t THEN x ELSE tab[u]
  BY DEF Inv
<1>3. \A u \in Tab : SessionOK(tab'[u], cases')
  BY <1>2 DEF Inv
<1>4. QED
  BY <1>1, <1>3 DEF Inv

\* The reviewer's steps.
LEMMA ReviewerSteps ==
  ASSUME Inv, NEW t \in Tab, tab[t].step = "shown"
  PROVE  /\ \A who \in Reviewer \cup {None} : ChangeName(t, who) => Inv'
         /\ \A b \in Button : Click(t, b) => Inv'
         /\ Reload(t) => Inv'
         /\ Leave(t) => Inv'
         /\ \A c \in CaseId : Visit(t, c) \/ VisitDemonstration(t, c) => Inv'
<1> DEFINE s == tab[t]
<1>1. /\ s \in TabState /\ SessionOK(s, cases) /\ CasesOK
      /\ s.post = None /\ s.clicked = None /\ s.seen = None
  BY DEF Inv, SessionOK
<1>2. ASSUME NEW who \in Reviewer \cup {None}, ChangeName(t, who) PROVE Inv'
  <2>1. CASE s.case = None
    <3>1. tab' = [tab EXCEPT ![t] = [s EXCEPT !.reviewer = who]] /\ UNCHANGED cases
      BY <1>2, <2>1 DEF ChangeName
    <3>2. [s EXCEPT !.reviewer = who] \in TabState /\ SessionOK([s EXCEPT !.reviewer = who], cases)
      BY <1>1, SettingIsOK
    <3>3. QED
      BY <3>1, <3>2, OneTabMoves
  <2>2. CASE s.case # None
    <3>1. tab' = [tab EXCEPT ![t] = [Rerun(s) EXCEPT !.reviewer = who]] /\ UNCHANGED cases
      BY <1>2, <2>2 DEF ChangeName
    <3>2. Rerun(s) \in TabState /\ SessionOK(Rerun(s), cases) /\ Rerun(s).clicked = None
      BY <1>1, <2>2, RerunIs, RerunIsOK
    <3>3. /\ [Rerun(s) EXCEPT !.reviewer = who] \in TabState
          /\ SessionOK([Rerun(s) EXCEPT !.reviewer = who], cases)
      BY <3>2, SettingIsOK
    <3>4. QED
      BY <3>1, <3>3, OneTabMoves
  <2>3. QED
    BY <2>1, <2>2
<1>3. ASSUME NEW b \in Button, Click(t, b) PROVE Inv'
  <2> DEFINE r == Rerun(s)
             x == [r EXCEPT !.clicked = b, !.seen = s.page]
  <2>1. /\ s.page # None /\ Offers(s.page, s.reviewer, s.pending, b)
        /\ tab' = [tab EXCEPT ![t] = x] /\ UNCHANGED cases
    BY <1>3 DEF Click
  <2>2. /\ r \in TabState /\ r.reviewer = s.reviewer /\ r.case = s.case
        /\ r.pending = s.pending /\ r.page = s.page /\ r.step = "running" /\ r.post = None
    BY <1>1, RerunIs
  <2> HIDE DEF r, s
  <2>3. s.page \in Row \cup {None}
    BY <1>1 DEF TabState
  <2>4. /\ x \in TabState /\ x.reviewer = s.reviewer /\ x.case = s.case
        /\ x.pending = s.pending /\ x.page = s.page /\ x.step = "running" /\ x.post = None
        /\ x.clicked = b /\ x.seen = s.page
    BY <2>2, <2>3 DEF TabState
  <2> HIDE DEF x
  <2>5. SessionOK(x, cases)
    BY <1>1, <2>1, <2>4 DEF SessionOK
  <2>6. QED
    BY <2>1, <2>4, <2>5, OneTabMoves
<1>4. ASSUME Reload(t) PROVE Inv'
  <2>1. s.case # None /\ tab' = [tab EXCEPT ![t] = Rerun(s)] /\ UNCHANGED cases
    BY <1>4 DEF Reload
  <2>2. Rerun(s) \in TabState /\ SessionOK(Rerun(s), cases)
    BY <1>1, <2>1, RerunIs, RerunIsOK
  <2>3. QED
    BY <2>1, <2>2, OneTabMoves
<1>5. ASSUME Leave(t) PROVE Inv'
  <2> DEFINE x == [s EXCEPT !.case = None, !.pending = None, !.page = None]
  <2>1. tab' = [tab EXCEPT ![t] = x] /\ UNCHANGED cases
    BY <1>5 DEF Leave
  <2>2. s.step = "shown"
    OBVIOUS
  <2> HIDE DEF s
  <2>3. /\ x \in TabState /\ x.case = None /\ x.page = None /\ x.seen = None
        /\ x.step = "shown" /\ x.clicked = None /\ x.post = None
    BY <1>1, <2>2 DEF TabState
  <2> HIDE DEF x
  <2>4. SessionOK(x, cases)
    BY <2>3 DEF SessionOK
  <2>5. QED
    BY <2>1, <2>3, <2>4, OneTabMoves
<1>6. ASSUME NEW c \in CaseId, cases[c] # None, OpenForReviewer(t, c), UNCHANGED cases
      PROVE  Inv'
  <2>1. CASE cases[c].status = "pending_review"
    <3> DEFINE q == RequestTo("claim", c, s.reviewer, None)
    <3>1. tab' = [tab EXCEPT ![t] = Sent(s, q)]
      BY <1>6, <2>1 DEF OpenForReviewer, Sent
    <3>2. s.reviewer \in Reviewer \cup {None}
      BY <1>1 DEF TabState
    <3>3. q \in Request /\ q.op = "claim"
      BY <1>1, <1>6, <3>2, RequestIs
    <3>4. RequestOK(q, cases)
      BY <1>1, <1>6, <2>1, <3>2, RequestIsOK
    <3> HIDE DEF q
    <3>5. Sent(s, q) \in TabState /\ SessionOK(Sent(s, q), cases)
      BY <1>1, <3>3, <3>4, SentIsOK
    <3>6. QED
      BY <1>6, <3>1, <3>5, OneTabMoves
  <2>2. CASE cases[c].status # "pending_review"
    <3>1. tab' = [tab EXCEPT ![t] = ShowCase(s, c)]
      BY <1>6, <2>2 DEF OpenForReviewer
    <3>2. ShowCase(s, c) \in TabState /\ SessionOK(ShowCase(s, c), cases)
      BY <1>1, <1>6, ShowCaseIsOK
    <3>3. QED
      BY <1>6, <3>1, <3>2, OneTabMoves
  <2>3. QED
    BY <2>1, <2>2
<1>7. ASSUME NEW c \in CaseId, Visit(t, c) \/ VisitDemonstration(t, c) PROVE Inv'
  BY <1>6, <1>7 DEF Visit, VisitDemonstration, IsReviewable
<1>8. QED
  BY <1>2, <1>3, <1>4, <1>5, <1>7

\* The script acts on the button it was rerun for.
LEMMA ActStep ==
  ASSUME Inv, NEW t \in Tab, tab[t].step = "running", Act(t), UNCHANGED cases
  PROVE  Inv'
<1> DEFINE s == tab[t]
           c == s.case
           b == s.clicked
           r == cases[c]
           drawn == [s EXCEPT !.page = r]
           who == s.reviewer
<1>1. s \in TabState /\ SessionOK(s, cases) /\ CasesOK /\ c # None /\ b # None
  BY DEF Inv, SessionOK, Act
<1>2. c \in CaseId /\ r # None /\ who \in Reviewer \cup {None} /\ s.pending \in Proposal \cup {None}
  BY <1>1 DEF SessionOK, TabState
<1>3. /\ drawn \in TabState /\ SessionOK(drawn, cases) /\ drawn.case = c
      /\ drawn.reviewer = who /\ drawn.pending = s.pending /\ drawn.seen = s.seen
  BY <1>1, DrawnIsOK DEF CasesOK
<1>4. Offers(r, who, s.pending, b)
  BY DEF Act
<1>5. s.seen # None /\ Offers(s.seen, who, s.pending, b)
  BY <1>1 DEF SessionOK
<1>6. s.pending # None => ConfirmOf[s.pending] \notin {"start", "supply", "hand_off"}
  <2>1. \A p \in Proposal : ConfirmOf[p] \notin {"start", "supply", "hand_off"}
    BY DEF Proposal, ConfirmOf
  <2>2. QED
    BY <1>2, <2>1
<1> HIDE DEF drawn
<1>7. /\ Rerun(drawn) \in TabState /\ SessionOK(Rerun(drawn), cases)
      /\ Rerun(drawn).clicked = None
  BY <1>1, <1>3, RerunIs, RerunIsOK
<1>8. ASSUME NEW p \in Proposal \cup {None}, tab' = [tab EXCEPT ![t] = [Rerun(drawn) EXCEPT !.pending = p]]
      PROVE  Inv'
  <2>1. /\ [Rerun(drawn) EXCEPT !.pending = p] \in TabState
        /\ SessionOK([Rerun(drawn) EXCEPT !.pending = p], cases)
    BY <1>7, SettingIsOK
  <2>2. QED
    BY <1>8, <2>1, OneTabMoves
<1>9. ASSUME NEW op \in {"claim", "progress", "handoff"},
             op = "claim" => r.status = "pending_review",
             op = "progress" => AwaitsInformation(r),
             op = "handoff" => IsApproved(r) /\ ~r.handedOff,
             tab' = [tab EXCEPT ![t] = Sent(drawn, RequestTo(op, c, who, None))]
      PROVE  Inv'
  <2> DEFINE q == RequestTo(op, c, who, None)
  <2>1. q \in Request /\ q.op = op /\ q.case = c
    BY <1>1, <1>2, RequestIs
  <2>2. RequestOK(q, cases)
    BY <1>1, <1>2, <1>9, RequestIsOK
  <2> HIDE DEF q
  <2>3. Sent(drawn, q) \in TabState /\ SessionOK(Sent(drawn, q), cases)
    BY <1>3, <2>1, <2>2, SentIsOK
  <2>4. QED
    BY <1>9, <2>3, OneTabMoves DEF q
<1>10. CASE b \in Proposal
  <2>1. tab' = [tab EXCEPT ![t] = [Rerun(drawn) EXCEPT !.pending = b]]
    BY <1>10 DEF Act, Proposal, Confirm, ConfirmOf, drawn
  <2>2. QED
    BY <1>8, <1>10, <2>1
<1>11. CASE b = "cancel"
  <2>1. tab' = [tab EXCEPT ![t] = [Rerun(drawn) EXCEPT !.pending = None]]
    BY <1>11 DEF Act, Proposal, Confirm, ConfirmOf, drawn
  <2>2. QED
    BY <1>8, <2>1
<1>12. CASE b = "start"
  <2>1. r.status = "pending_review"
    BY <1>4, <1>6, <1>12 DEF Offers, Proposal
  <2>2. CASE who = None
    <3>1. tab' = [tab EXCEPT ![t] = Rest(drawn)]
      BY <1>12, <2>2 DEF Act, Proposal, Confirm, ConfirmOf, drawn
    <3>2. QED
      BY <1>3, <3>1, RestIs, RestIsOK, OneTabMoves
  <2>3. CASE who # None
    <3>1. tab' = [tab EXCEPT ![t] = Sent(drawn, RequestTo("claim", c, who, None))]
      BY <1>12, <2>3 DEF Act, Proposal, Confirm, ConfirmOf, drawn
    <3>2. QED
      BY <1>9, <2>1, <3>1
  <2>4. QED
    BY <2>2, <2>3
<1>13. CASE b = "supply"
  <2>1. AwaitsInformation(r)
    BY <1>4, <1>6, <1>13 DEF Offers, Proposal
  <2>2. tab' = [tab EXCEPT ![t] = Sent(drawn, RequestTo("progress", c, who, None))]
    BY <1>13 DEF Act, Proposal, Confirm, ConfirmOf, drawn
  <2>3. QED
    BY <1>9, <2>1, <2>2
<1>14. CASE b = "hand_off"
  <2>1. IsApproved(r) /\ ~r.handedOff
    BY <1>4, <1>6, <1>14 DEF Offers, Proposal
  <2>2. tab' = [tab EXCEPT ![t] = Sent(drawn, RequestTo("handoff", c, who, None))]
    BY <1>14 DEF Act, Proposal, Confirm, ConfirmOf, drawn
  <2>3. QED
    BY <1>9, <2>1, <2>2
<1>15. CASE b \in Confirm
  <2>1. \A p \in Proposal : b = ConfirmOf[p] =>
            b \notin Proposal \cup {"cancel", "start", "supply", "hand_off"}
    BY DEF Proposal, ConfirmOf
  <2>2. b \notin Proposal /\ b \notin {"cancel", "start", "supply", "hand_off"}
    BY <1>15, <2>1 DEF Confirm
  <2>3. s.pending # None /\ HeldBy(r, who) /\ HeldBy(s.seen, who)
    BY <1>4, <1>5, <2>2 DEF Offers
  <2>4. PICK res \in Resolutions(c, s.pending) :
            tab' = [tab EXCEPT ![t] = Sent(drawn, RequestTo("resolve", c, who, res))]
    BY <2>2 DEF Act, drawn
  <2> DEFINE q == RequestTo("resolve", c, who, res)
  <2>5. q \in Request /\ q.op = "resolve" /\ q.case = c /\ q.by = who
    BY <1>1, <1>2, <2>3, RequestIs
  <2>6. RequestOK(q, cases)
    BY <1>1, <1>2, <2>3, DecisionIsOK
  <2> HIDE DEF q
  <2>7. Sent(drawn, q) \in TabState /\ SessionOK(Sent(drawn, q), cases)
    BY <1>3, <1>5, <2>3, <2>5, <2>6, SentIsOK
  <2>8. QED
    BY <2>4, <2>7, OneTabMoves DEF q
<1>16. QED
  BY <1>10, <1>11, <1>12, <1>13, <1>14, <1>15 DEF Act

\* The script fetches the row and acts, or draws it, or fails to.
LEMMA FetchStep ==
  ASSUME Inv, NEW t \in Tab, Fetch(t)
  PROVE  Inv'
<1> DEFINE s == tab[t]
           c == s.case
<1>1. s.step = "running" /\ UNCHANGED cases
  BY DEF Fetch
<1>2. s \in TabState /\ SessionOK(s, cases) /\ CasesOK /\ c # None
  BY <1>1 DEF Inv, SessionOK
<1>3. cases[c] \in Row
  BY <1>2 DEF SessionOK, TabState, CasesOK
<1>4. /\ Rest(s) \in TabState /\ Rest(s).case = c /\ Rest(s).seen = None
      /\ Rest(s).step = "shown" /\ Rest(s).clicked = None /\ Rest(s).post = None
  BY <1>2, RestIs
<1>5. CASE Act(t)
  BY <1>1, <1>5, ActStep
<1>6. CASE Draw(t)
  <2> DEFINE x == [Rest(s) EXCEPT !.page = cases[c]]
  <2>1. tab' = [tab EXCEPT ![t] = x]
    BY <1>6 DEF Draw
  <2>2. /\ x \in TabState /\ x.case = c /\ x.page = cases[c] /\ x.seen = None
        /\ x.step = "shown" /\ x.clicked = None /\ x.post = None
    BY <1>3, <1>4 DEF TabState
  <2> HIDE DEF x
  <2>3. SessionOK(x, cases)
    BY <1>2, <2>2 DEF SessionOK, Precedes
  <2>4. QED
    BY <1>1, <2>1, <2>2, <2>3, OneTabMoves
<1>7. CASE FailToDraw(t)
  <2> DEFINE x == [Rest(s) EXCEPT !.page = None]
  <2>1. tab' = [tab EXCEPT ![t] = x]
    BY <1>7 DEF FailToDraw
  <2>2. /\ x \in TabState /\ x.case = c /\ x.page = None /\ x.seen = None
        /\ x.step = "shown" /\ x.clicked = None /\ x.post = None
    BY <1>4 DEF TabState
  <2> HIDE DEF x
  <2>3. SessionOK(x, cases)
    BY <1>2, <2>2 DEF SessionOK
  <2>4. QED
    BY <1>1, <2>1, <2>2, <2>3, OneTabMoves
<1>8. QED
  BY <1>5, <1>6, <1>7 DEF Fetch

\* A case is opened or moves on, and with it one tab or none.
LEMMA CaseMoves ==
  ASSUME Inv, NEW c \in CaseId, NEW r \in Row,
         cases[c] # None => r.version > cases[c].version /\ Precedes(cases[c], r),
         cases' = [cases EXCEPT ![c] = r]
  PROVE  CasesOK' /\ \A t \in Tab : SessionOK(tab[t], cases')
<1>1. CasesOK'
  BY DEF Inv, CasesOK
<1>2. ASSUME NEW t \in Tab PROVE SessionOK(tab[t], cases')
  BY SessionSurvives DEF Inv, CasesOK
<1>3. QED
  BY <1>1, <1>2

\* The API answers a request.
LEMMA SucceedStep ==
  ASSUME Inv, NEW t \in Tab, Succeed(t)
  PROVE  Inv'
<1> DEFINE s == tab[t]
           q == s.post
           c == q.case
           r == cases[c]
<1>1. /\ s \in TabState /\ SessionOK(s, cases) /\ CasesOK
      /\ q # None /\ IsAccepted(q, r)
  BY DEF Inv, SessionOK, Succeed
<1>2. q \in Request /\ RequestOK(q, cases)
  BY <1>1 DEF SessionOK, TabState
<1>3. c \in CaseId /\ r \in Row
  BY <1>1, <1>2 DEF Request, RequestOK, CasesOK
<1>4. PICK ch \in Changes(q) : cases' = [cases EXCEPT ![c] = Bumped(r, ch)]
  BY <1>1, <1>3 DEF Succeed, CasesOK
<1>5. ch \in RowChange /\ Legal(r, ch) /\ Invited(r, ch)
  <2>1. PICK d \in Changes(q) : Legal(r, d) /\ Invited(r, d)
    BY <1>1 DEF IsAccepted
  <2>2. /\ ch.op = d.op /\ ch.op = q.op
        /\ ch.op \in {"claim", "resolve"} => ch.by = d.by
    BY DEF Changes
  <2>3. q.op # "release"
    BY <1>2 DEF Request
  <2>4. Legal(r, ch) /\ Invited(r, ch)
    BY <2>1, <2>2, <2>3 DEF Legal, MayClaim, MayResolve, Invited
  <2>5. QED
    BY <2>4 DEF Changes
<1>6. CasesOK' /\ \A u \in Tab : SessionOK(tab[u], cases')
  <2>1. /\ Bumped(r, ch) \in Row /\ Bumped(r, ch).version > r.version
        /\ Precedes(r, Bumped(r, ch))
    BY <1>3, <1>5, ChangeMovesOn
  <2>2. QED
    BY <1>3, <1>4, <2>1, CaseMoves
<1>7. PICK x \in {AfterPost(s), Rest(s)} : tab' = [tab EXCEPT ![t] = x]
  <2>1. PICK answered \in BOOLEAN :
           tab' = [tab EXCEPT ![t] = IF answered THEN AfterPost(s) ELSE Rest(s)]
    BY DEF Succeed
  <2>2. CASE answered = TRUE
    BY <2>1, <2>2
  <2>3. CASE answered = FALSE
    BY <2>1, <2>3
  <2>4. QED
    BY <2>2, <2>3
<1>8. cases'[c] # None
  BY <1>1, <1>3, <1>4, <1>5, BumpedIs, NoneAssumption DEF CasesOK
<1>9. SessionOK(s, cases')
  BY <1>6
<1> HIDE DEF s, q, r, c
<1>10. x \in TabState /\ SessionOK(x, cases')
  <2>1. Rest(s) \in TabState /\ SessionOK(Rest(s), cases')
    BY <1>1, <1>9, RestIs, RestIsOK
  <2>2. CASE q.op = "claim"
    <3>1. AfterPost(s) = ShowCase(s, c)
      BY <2>2 DEF AfterPost, q, c
    <3>2. ShowCase(s, c) \in TabState /\ SessionOK(ShowCase(s, c), cases')
      BY <1>1, <1>3, <1>8, <1>9, ShowCaseIsOK
    <3>3. QED
      BY <1>7, <2>1, <3>1, <3>2
  <2>3. CASE q.op # "claim"
    <3>1. s.case # None
      BY <1>1, <1>3, <2>3, NothingAssumption DEF SessionOK, q, c
    <3>2. /\ Rerun(s) \in TabState /\ SessionOK(Rerun(s), cases')
          /\ Rerun(s).clicked = None
      BY <1>1, <1>9, <3>1, RerunIs, RerunIsOK
    <3>3. /\ [Rerun(s) EXCEPT !.pending = None] \in TabState
          /\ SessionOK([Rerun(s) EXCEPT !.pending = None], cases')
      BY <3>2, SettingIsOK
    <3>4. AfterPost(s) \in {Rerun(s), [Rerun(s) EXCEPT !.pending = None]}
      BY <2>3 DEF AfterPost, q
    <3>5. QED
      BY <1>7, <2>1, <3>2, <3>3, <3>4
  <2>4. QED
    BY <2>2, <2>3
<1>11. \A u \in Tab : tab'[u] = IF u = t THEN x ELSE tab[u]
  BY <1>7 DEF Inv
<1>12. tab' \in [Tab -> TabState] /\ \A u \in Tab : SessionOK(tab'[u], cases')
  BY <1>6, <1>7, <1>10, <1>11 DEF Inv
<1>13. QED
  BY <1>6, <1>12 DEF Inv

\* The invariant is inductive.
LEMMA Invariance == Inv /\ [DeskNext]_deskVars => Inv'
<1> SUFFICES ASSUME Inv, [DeskNext]_deskVars PROVE Inv'
  OBVIOUS
<1>1. ASSUME NEW t \in Tab,
             \/ \E who \in Reviewer \cup {None} : ChangeName(t, who)
             \/ \E b \in Button : Click(t, b)
             \/ Reload(t) \/ Leave(t)
             \/ \E c \in CaseId : Visit(t, c) \/ VisitDemonstration(t, c)
      PROVE  Inv'
  <2>1. tab[t].step = "shown"
    BY <1>1 DEF ChangeName, Click, Reload, Leave, Visit, VisitDemonstration
  <2>2. QED
    BY <1>1, <2>1, ReviewerSteps
<1>2. ASSUME NEW t \in Tab, Fetch(t) \/ Succeed(t) PROVE Inv'
  BY <1>2, FetchStep, SucceedStep
<1>3. ASSUME NEW t \in Tab, Fail(t) PROVE Inv'
  <2>1. tab' = [tab EXCEPT ![t] = Rest(tab[t])] /\ UNCHANGED cases
    BY <1>3 DEF Fail
  <2>2. tab[t] \in TabState /\ SessionOK(tab[t], cases)
    BY DEF Inv
  <2>3. Rest(tab[t]) \in TabState /\ SessionOK(Rest(tab[t]), cases)
    BY <2>2, RestIs, RestIsOK
  <2>4. QED
    BY <2>1, <2>3, OneTabMoves
<1>4. ASSUME NEW c \in CaseId, NEW k \in Key, NEW st \in OpeningStatus, NEW v \in Verdict,
             Open(c, k, st, v)
      PROVE  Inv'
  <2>1. CasesOK' /\ \A t \in Tab : SessionOK(tab[t], cases')
    BY <1>4, OpeningType, CaseMoves DEF Open
  <2>2. QED
    BY <1>4, <2>1 DEF Inv, Open
<1>5. ASSUME NEW c \in CaseId, NEW ch \in RowChange, Elsewhere(c, ch)
      PROVE  Inv'
  <2>1. cases[c] \in Row
    BY <1>5 DEF Inv, CasesOK, Elsewhere
  <2>2. /\ Bumped(cases[c], ch) \in Row
        /\ Bumped(cases[c], ch).version > cases[c].version
        /\ Precedes(cases[c], Bumped(cases[c], ch))
    BY <1>5, <2>1, ChangeMovesOn DEF Elsewhere
  <2>3. cases' = [cases EXCEPT ![c] = Bumped(cases[c], ch)]
    BY <1>5 DEF Elsewhere
  <2>4. CasesOK' /\ \A t \in Tab : SessionOK(tab[t], cases')
    BY <2>2, <2>3, CaseMoves
  <2>5. QED
    BY <1>5, <2>4 DEF Inv, Elsewhere
<1>6. CASE UNCHANGED deskVars
  BY <1>6 DEF Inv, CasesOK, deskVars
<1>7. QED
  BY <1>1, <1>2, <1>3, <1>4, <1>5, <1>6 DEF DeskNext

\* The inductive invariant of the pages: what a session shows, has clicked and
\* has sent goes back to rows its case had (streamlit_app.py review_case).
THEOREM Invariant == DeskSpec => []Inv
<1>1. DeskInit => Inv
  <2> SUFFICES ASSUME DeskInit PROVE Inv
    OBVIOUS
  <2> DEFINE x == [reviewer |-> DefaultReviewer, case |-> None, pending |-> None,
                   page |-> None, seen |-> None, step |-> "shown",
                   clicked |-> None, post |-> None]
  <2>1. x \in TabState
    BY DeskAssumption DEF TabState
  <2>2. SessionOK(x, cases)
    BY DEF SessionOK
  <2>3. tab = [t \in Tab |-> x] /\ CasesOK
    BY DEF DeskInit, CasesOK
  <2> HIDE DEF x
  <2>4. QED
    BY <2>1, <2>2, <2>3 DEF Inv
<1>2. QED
  BY <1>1, Invariance, PTL DEF DeskSpec

-------------------------------------------------------------------------------
(* What the pages promise. *)

\* A session is what TabState says, and waits for an answer if and only if it
\* has sent a request.
THEOREM SessionsAreTyped == DeskSpec => []DeskTypeOK
<1>1. Inv => DeskTypeOK
  BY DEF Inv, CasesOK, SessionOK, DeskTypeOK
<1>2. QED
  BY <1>1, Invariant, PTL

\* Reviewers are turned away by lost races only.
THEOREM PagesOfferWhatWorks == DeskSpec => []ButtonsWork
<1>1. ASSUME Inv, NEW t \in Tab, IsCurrent(tab[t].post), tab[t].post.by # None
      PROVE  LET q == tab[t].post IN
             \/ IsAccepted(q, cases[q.case])
             \/ q.op = "claim" /\ cases[q.case].claimedBy \notin {None, q.by}
  <2> DEFINE q == tab[t].post
             r == cases[q.case]
  <2>1. q \in Request /\ RequestOK(q, cases) /\ CasesOK
    BY <1>1 DEF Inv, SessionOK, TabState, IsCurrent
  <2>2. /\ r \in Row /\ q.version = r.version /\ Ready(q, r) /\ q.by \in Reviewer
        /\ q.case \in CaseId
        /\ q.op \in {"claim", "progress", "resolve", "handoff"}
    BY <1>1, <2>1 DEF IsCurrent, RequestOK, Request, CasesOK
  <2>3. q.resolution # None => IsValid(q.resolution)
    BY <2>1, <2>2, ResolutionsAreValid DEF RequestOK
  <2>4. ASSUME NEW ch \in Changes(q), Legal(r, ch), Invited(r, ch)
        PROVE  IsAccepted(q, r)
    BY <1>1, <2>2, <2>3, <2>4 DEF IsAccepted
  <2> HIDE DEF r
  <2>5. CASE q.op = "claim"
    <3> DEFINE ch == [op |-> "claim", by |-> q.by]
    <3>1. ch \in Changes(q)
      BY <2>2, <2>5 DEF Changes, RowChange, ClaimChange
    <3>2. r.claimedBy \in {None, q.by} => Legal(r, ch) /\ Invited(r, ch)
      BY <2>2, <2>5 DEF Ready, Legal, MayClaim, Terminal, Invited
    <3>3. QED
      BY <2>4, <2>5, <3>1, <3>2 DEF r
  <2>6. CASE q.op = "progress"
    <3>1. PICK i \in Item : TRUE
      BY DeskAssumption
    <3> DEFINE ch == [op |-> "progress", item |-> i, status |-> "cleared", verdict |-> r.verdict]
    <3>2. ch \in Changes(q)
      BY <2>2, <2>6 DEF Changes, RowChange, ProgressChange, OpeningStatus, Row
    <3>3. Legal(r, ch) /\ Invited(r, ch)
      BY <2>2, <2>6 DEF Ready, Legal, Invited
    <3>4. QED
      BY <2>4, <3>2, <3>3 DEF r
  <2>7. CASE q.op = "resolve"
    <3> DEFINE ch == [op |-> "resolve", by |-> q.by, decision |-> q.resolution.decision]
    <3>1. q.resolution.decision \in HumanDecision
      BY <2>1, <2>2, <2>7, ResolutionsAreValid DEF RequestOK
    <3>2. ch \in Changes(q)
      BY <2>2, <2>7, <3>1 DEF Changes, RowChange, ResolveChange
    <3>3. Legal(r, ch) /\ Invited(r, ch)
      BY <2>2, <2>7 DEF Ready, HeldBy, Legal, MayResolve, Invited
    <3>4. QED
      BY <2>4, <3>2, <3>3 DEF r
  <2>8. CASE q.op = "handoff"
    <3> DEFINE ch == [op |-> "handoff"]
    <3>1. ch \in Changes(q)
      BY <2>8 DEF Changes, RowChange, HandoffChange
    <3>2. Legal(r, ch) /\ Invited(r, ch)
      BY <2>2, <2>8 DEF Ready, Legal, Invited
    <3>3. QED
      BY <2>4, <3>1, <3>2 DEF r
  <2>9. QED
    BY <2>2, <2>5, <2>6, <2>7, <2>8
<1>2. Inv => ButtonsWork
  BY <1>1 DEF ButtonsWork
<1>3. QED
  BY <1>2, Invariant, PTL

\* A decision that arrives reaches the case its reviewer was looking at, held
\* by them and with the verdict they saw.
THEOREM DecisionsAreInformed == DeskSpec => []DecidedOnThePage
<1>1. ASSUME Inv, NEW t \in Tab, IsCurrent(tab[t].post), tab[t].post.op = "resolve"
      PROVE  /\ tab[t].seen # None
             /\ tab[t].seen.verdict = cases[tab[t].post.case].verdict
             /\ tab[t].seen.claimedBy = tab[t].post.by
  BY <1>1 DEF Inv, SessionOK, IsCurrent, HeldBy, Precedes
<1>2. Inv => DecidedOnThePage
  BY <1>1 DEF DecidedOnThePage
<1>3. QED
  BY <1>2, Invariant, PTL
===============================================================================
