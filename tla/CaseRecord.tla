------------------------------ MODULE CaseRecord ------------------------------
(***************************************************************************)
(* One row of the cases table and the changes review/store.py may make      *)
(* to it: for every operation, when it is legal, what it does to the row    *)
(* and which audit events it appends.  There is no state here; the abstract *)
(* VersionedCase and the detailed CaseStore are both built on it.           *)
(***************************************************************************)
EXTENDS Integers, Sequences

CONSTANTS
    CaseId,    \* cases; case_id_for maps candidates to cases one to one
    Key,       \* idempotency keys
    Reviewer,  \* the people who claim, release and resolve
    Verdict,   \* what the automated_* columns and case_state may hold
    Item,      \* follow-up evidence a merchant or a reviewer may supply
    HumanDecision,  \* the decisions of review/contracts.py, approve_onboarding
                    \* and any of the others
    None       \* SQL NULL, or no row at all

(***************************************************************************)
(* CaseStatus, and the part of it that _interpret gives a finished or a     *)
(* paused workflow run.                                                     *)
(***************************************************************************)
OpeningStatus == {"cleared", "pending_review", "awaiting_information"}
CaseStatus == OpeningStatus \cup {"claimed", "resolved"}
Terminal == {"cleared", "resolved"}

Human == [by : Reviewer, decision : HumanDecision]

Row == [key       : Key,
        status    : CaseStatus,
        version   : Nat \ {0},
        claimedBy : Reviewer \cup {None},
        verdict   : Verdict,
        human     : Human \cup {None},
        handedOff : BOOLEAN]

ASSUME NoneAssumption == /\ None \notin Row
                         /\ None \notin Human
                         /\ None \notin Reviewer

(***************************************************************************)
(* A change is an operation on an existing case, with its arguments.        *)
(***************************************************************************)
ProgressChange == [op : {"progress"}, item : Item,
                   status : OpeningStatus, verdict : Verdict]
ClaimChange    == [op : {"claim"}, by : Reviewer]
ReleaseChange  == [op : {"release"}, by : Reviewer]
ResolveChange  == [op : {"resolve"}, by : Reviewer, decision : HumanDecision]
HandoffChange  == [op : {"handoff"}]
NoteChange     == [op : {"note"}, item : Item]

\* The changes that write the row; record_supplied_information ("note")
\* appends to the log and leaves the row and its version alone.
RowChange == ProgressChange \cup ClaimChange \cup ReleaseChange
                \cup ResolveChange \cup HandoffChange
Change == RowChange \cup NoteChange

-------------------------------------------------------------------------------
(* The transition checks of the store, on the row it has selected. *)

\* Mutant: a decided case can still be claimed.
MayClaimDecided(r, ch) == r.claimedBy \in {None, ch.by}

MayClaim(r, ch) == /\ r.status \notin Terminal
                   /\ r.claimedBy \in {None, ch.by}

MayRelease(r, ch) == r.claimedBy = ch.by

MayResolve(r, ch) == /\ r.status \notin {"resolved", "cleared"}
                     /\ r.claimedBy \in {None, ch.by}

Legal(r, ch) == \/ ch.op = "claim" /\ MayClaim(r, ch)
                \/ ch.op = "release" /\ MayRelease(r, ch)
                \/ ch.op = "resolve" /\ MayResolve(r, ch)
                \/ ch.op \in {"progress", "handoff", "note"}

(***************************************************************************)
(* What ReviewService checks on the row it reads before it starts the work  *)
(* that ends in one of the two unguarded store operations.                  *)
(***************************************************************************)
AwaitsInformation(r) == r.status = "awaiting_information"

IsApproved(r) == r.human # None /\ r.human.decision = "approve_onboarding"

Invited(r, ch) == /\ ch.op = "progress" => AwaitsInformation(r)
                  /\ ch.op = "handoff" => IsApproved(r) /\ ~r.handedOff

-------------------------------------------------------------------------------
(* The columns each operation assigns. *)

\* Mutant: the version column starts at zero.
NewRowAtZero(k, st, v) == [key |-> k, status |-> st, version |-> 0, claimedBy |-> None,
                           verdict |-> v, human |-> None, handedOff |-> FALSE]

NewRow(k, st, v) == [key |-> k, status |-> st, version |-> 1, claimedBy |-> None,
                     verdict |-> v, human |-> None, handedOff |-> FALSE]

Progressed(r, ch) == [r EXCEPT !.status = ch.status, !.verdict = ch.verdict]

Claimed(r, ch) ==
    [r EXCEPT !.claimedBy = ch.by,
              !.status = IF @ = "pending_review" THEN "claimed" ELSE @]

\* Mutant: a release puts the case back into the queue whatever its status.
ReleasedToQueue(r) == [r EXCEPT !.claimedBy = None, !.status = "pending_review"]

Released(r) ==
    [r EXCEPT !.claimedBy = None,
              !.status = IF @ = "claimed" THEN "pending_review" ELSE @]

Resolved(r, ch) ==
    [r EXCEPT !.status = "resolved",
              !.human = [by |-> ch.by, decision |-> ch.decision]]

HandedOff(r) == [r EXCEPT !.handedOff = TRUE]

Assigned(r, ch) == CASE ch.op = "progress" -> Progressed(r, ch)
                     [] ch.op = "claim"    -> Claimed(r, ch)
                     [] ch.op = "release"  -> Released(r)
                     [] ch.op = "resolve"  -> Resolved(r, ch)
                     [] ch.op = "handoff"  -> HandedOff(r)

\* The row after the guarded UPDATE of _bump has counted the change.
Bumped(r, ch) == [Assigned(r, ch) EXCEPT !.version = r.version + 1]

-------------------------------------------------------------------------------
(* The audit events of each operation, in the order it appends them. *)

Requested == [type |-> "information_requested"]

Decided(st, v) == [type |-> "automated_decision_recorded", status |-> st, verdict |-> v]

\* A run ends with the request it paused on or with its decision.  (The
\* investigation_recorded entry that may stand before it tells us nothing more.)
ProgressEvents(st, v) ==
    IF st = "awaiting_information" THEN << Requested >> ELSE << Decided(st, v) >>

Opened(k) == [type |-> "case_opened", key |-> k]

OpeningEvents(k, st, v) == << Opened(k) >> \o ProgressEvents(st, v)

\* Who supplied the items, or asked for the hand-off, is left out.
Supplied(i) == [type |-> "information_supplied", item |-> i]

\* Events of change ch applied to row r.
Events(r, ch) ==
    CASE ch.op = "progress" -> << Supplied(ch.item) >> \o ProgressEvents(ch.status, ch.verdict)
      [] ch.op = "claim"    -> << [type |-> "case_claimed", actor |-> ch.by,
                                   previous |-> r.status] >>
      [] ch.op = "release"  -> << [type |-> "case_released", actor |-> ch.by] >>
      [] ch.op = "resolve"  -> << [type |-> "human_decision_recorded", actor |-> ch.by,
                                   decision |-> ch.decision, verdict |-> r.verdict] >>
      [] ch.op = "handoff"  -> << [type |-> "onboarding_handoff_recorded"] >>
      [] ch.op = "note"     -> << Supplied(ch.item) >>

Event ==
    [type : {"case_opened"}, key : Key]
    \cup [type : {"information_requested"}]
    \cup [type : {"automated_decision_recorded"},
          status : CaseStatus, verdict : Verdict]
    \cup [type : {"information_supplied"}, item : Item]
    \cup [type : {"onboarding_handoff_recorded"}]
    \cup [type : {"case_released"}, actor : Reviewer]
    \cup [type : {"case_claimed"}, actor : Reviewer, previous : CaseStatus]
    \cup [type : {"human_decision_recorded"}, actor : Reviewer,
          decision : HumanDecision, verdict : Verdict]
-------------------------------------------------------------------------------
(* What a reader of the audit trail can say of the case. *)

Blank == [status |-> "pending_review", claimedBy |-> None, human |-> None,
          handedOff |-> FALSE]

After(r, e) ==
    CASE e.type = "information_requested"       -> [r EXCEPT !.status = "awaiting_information"]
      [] e.type = "automated_decision_recorded" -> [r EXCEPT !.status = e.status]
      [] e.type = "case_claimed"                -> Claimed(r, [by |-> e.actor])
      [] e.type = "case_released"               -> Released(r)
      [] e.type = "human_decision_recorded"     ->
             Resolved(r, [by |-> e.actor, decision |-> e.decision])
      [] e.type = "onboarding_handoff_recorded" -> HandedOff(r)
      [] OTHER                                  -> r

Replay(l) == LET upTo[i \in 0..Len(l)] ==
                     IF i = 0 THEN Blank ELSE After(upTo[i - 1], l[i])
             IN  upTo[Len(l)]
===============================================================================
