---------------------------- MODULE VersionedCase ----------------------------
(***************************************************************************)
(* What the case store promises its callers, whatever sessions race behind  *)
(* it: a case is opened once per key, and from then on changes one whole    *)
(* operation at a time, each applied to the row it was meant for, counted   *)
(* by the version and followed by its own audit events.                     *)
(***************************************************************************)
EXTENDS CaseRecord

VARIABLES
    cases,  \* the committed row of every case, None before it is opened
    log     \* its audit trail

vars == << cases, log >>

TypeOK == /\ cases \in [CaseId -> Row \cup {None}]
          /\ log \in [CaseId -> Seq(Event)]

Init == /\ cases = [c \in CaseId |-> None]
        /\ log = [c \in CaseId |-> << >>]

Open(c, k, st, v) ==
    /\ cases[c] = None
    /\ \A d \in CaseId : cases[d] # None => cases[d].key # k
    /\ cases' = [cases EXCEPT ![c] = NewRow(k, st, v)]
    /\ log' = [log EXCEPT ![c] = OpeningEvents(k, st, v)]

\* A change happens to the row that permits it, never to a later one.
Commit(c, ch) ==
    /\ cases[c] # None
    /\ Legal(cases[c], ch)
    /\ Invited(cases[c], ch)
    /\ cases' = [cases EXCEPT ![c] = Bumped(@, ch)]
    /\ log' = [log EXCEPT ![c] = @ \o Events(cases[c], ch)]

Note(c, ch) ==
    /\ cases[c] # None
    /\ log' = [log EXCEPT ![c] = @ \o Events(cases[c], ch)]
    /\ UNCHANGED cases

Next == \E c \in CaseId :
    \/ \E k \in Key, st \in OpeningStatus, v \in Verdict : Open(c, k, st, v)
    \/ \E ch \in RowChange : Commit(c, ch)
    \/ \E ch \in NoteChange : Note(c, ch)

Spec == Init /\ [][Next]_vars

-------------------------------------------------------------------------------
IsResolved(c) == cases[c] # None /\ cases[c].human # None

\* Once a human decision is recorded nothing rewrites it: not a second
\* reviewer, not a release of the claim that outlives it, and not a workflow
\* run that finishes late.  The automated verdict it overrode stays as well
\* (review/store.py resolve, record_automated_progress, release).
DecisionIsFinal ==
    [][\A c \in CaseId : IsResolved(c) =>
          /\ cases'[c] # None
          /\ cases'[c].status = cases[c].status
          /\ cases'[c].human = cases[c].human
          /\ cases'[c].verdict = cases[c].verdict]_vars

\* An audit trail only ever grows at its end
\* (db/models.py: AppendOnlyViolation; review/store.py: _append).
LogIsAppendOnly ==
    [][\A c \in CaseId :
          /\ Len(log[c]) <= Len(log'[c])
          /\ \A i \in 1..Len(log[c]) : log'[c][i] = log[c][i]]_vars

\* The audit trail alone explains the row: replaying its events gives the
\* status, claim, human decision and hand-off that the row has, so no change
\* was committed without its event and no event without its change.
AuditExplainsRow ==
    \A c \in CaseId : cases[c] # None =>
        Replay(log[c]) = [status    |-> cases[c].status,
                          claimedBy |-> cases[c].claimedBy,
                          human     |-> cases[c].human,
                          handedOff |-> cases[c].handedOff]

\* The verdict that the decision event names as overridden is the one the row
\* still shows (store.py resolve: "what the automated system had said at the
\* moment of override").
OverrideNamesVerdict ==
    \A c \in CaseId : \A i \in DOMAIN log[c] :
        log[c][i].type = "human_decision_recorded" =>
            log[c][i].verdict = cases[c].verdict

\* An approval is handed off at most once, and only an approval is
\* (service.py hand_off, store.py record_handoff).
HandedOffOnce ==
    \A c \in CaseId :
        \A i, j \in DOMAIN log[c] :
            /\ log[c][i].type = "onboarding_handoff_recorded"
            /\ log[c][j].type = "onboarding_handoff_recorded"
            => i = j /\ IsApproved(cases[c])

\* A reviewer's decision never lands on a case another reviewer holds
\* (store.py claim, resolve).
ClaimIsRespected ==
    \A c \in CaseId :
        cases[c] # None /\ cases[c].human # None =>
            cases[c].claimedBy \in {None, cases[c].human.by}

\* No two cases share an idempotency key, and a case is opened once, under the
\* key its row has (db/models.py DBCase, store.py open_case).
KeyOpensOneCase ==
    /\ \A c, d \in CaseId :
          cases[c] # None /\ cases[d] # None /\ cases[c].key = cases[d].key => c = d
    /\ \A c \in CaseId : \A i \in DOMAIN log[c] :
          log[c][i].type = "case_opened" => i = 1 /\ log[c][i].key = cases[c].key
===============================================================================
