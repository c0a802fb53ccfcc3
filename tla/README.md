# A TLA+ model of MerchantShield

MerchantShield assesses rings of merchant applications, lets a bounded
investigator look into the flagged ones, and leaves every consequential decision
to a named human reviewer. These modules model the part of the program where that
promise can be lost to an interleaving, a stale read, a restart, a late answer or a
number at a boundary: the case store, the review service with its workflow, the
expert router, the investigator and the policy between them, the evidence graph and
the live check built on it, the reviewer's desk, and the legacy onboarding gate with
its inverted index and its scores.

Paths below are relative to `src/merchantshield/`.

## Inventory

| Component | State it keeps | Operations | What is hard | What makes it correct |
|---|---|---|---|---|
| Case store `review/store.py`, `db/` | rows of `cases`, `case_events`, `prior_outcomes` | open, record progress, claim, release, resolve, record hand-off, record supplied information | reads outside any transaction, one write lock, the guarded UPDATE of `_bump`, crashes | one atomic versioned case per key; decisions final; the trail explains the row |
| Review service `review/service.py`, `api/case_routes.py` | none; calls in flight hold what they read | the same, around workflow and gateway calls | state read before an `await` and used after it | late runs never overwrite a decision; no hand-off without approval |
| Workflow `workflow/graph.py`, `state.py` | one checkpointed thread per case, in process memory | assess, investigate, await information, finalize, run, resume | interrupts, resumption after restarts, two executions of one thread, opinions left over from a lost run | requests are capped; evidence is kept; an opinion only raises; every case ends |
| Gateways `gateway/` | receipts | submit | called before the version check | only approved cases are submitted |
| Runtime `runtime.py`, `main.py`, seeding script | process-wide singletons, the memory snapshot | build, get, reset | several runtimes on one database | as above, over all of them |
| Expert router `agent/` | none between assessments | assess | concurrent experts, timeouts, partial failure | the graph risk is a floor; failures reach a human; it returns |
| Investigator `investigation/` | none between investigations | investigate, tool calls, grounding | budgets, timeouts, ungrounded claims | bounded; ungrounded output never counts |
| Case memory `investigation/memory.py` | snapshot of prior outcomes | lookup | the snapshot is stale | never lowers what the experts say |
| Evidence graph `analysis/evidence_graph.py` | none | build candidates | frequency discounts, closure of strong pairs | nobody is lost; what shares an account is one group |
| Live check `demo/live_check.py` | none between checks | parse, compare, run every candidate | one failing candidate, experts that never answer | every merchant answered once; it ends |
| Review desk `ui/streamlit_app.py`, `client.py` | one session per tab | queue, visit, propose, confirm, supply, hand off | a click is handled on a row fetched after it; lost answers; several tabs | no button the API refuses; a decision reaches the case that was seen |
| Legacy onboarding `api/routes.py`, `pipeline.py`, `analysis/application_clustering.py` | merchants, inverted index | submit, index, review | lost updates on the index, check-then-act | nobody is lost from the index; the machine's verdicts stand |
| Legacy scores `analysis/risk_scorer.py`, `synthetic_identity.py`, `document_intelligence.py` | none | pure scores | missing measurements, thresholds, rounding | missing is not clean; one loud module is heard |
| Evaluation, benchmarks, scripted demonstrations, model training | none of its own | | | not modelled |

They interact as follows. A route calls the service; `open_case` and
`supply_information` read the store, await the workflow (which awaits the router
and the investigator) and write the store; the human operations go to the store
without waiting; `hand_off` reads the store, calls the gateway and writes the
store. The API, the seeding script and the Streamlit deployment's seeding thread
are different runtimes on one database, so the store is shared and the
checkpoints and receipts are not. The desk is a client of the API like any other.
A live check builds its own workflow and writes nothing. Legacy onboarding has its own
tables and shares only the attributes and their severities with the rest.

## Modules

| Module | What it is |
|---|---|
| `CaseRecord` | one row and its audit events: for every operation when it is legal, which columns it assigns and what it appends; no state |
| `VersionedCase` | the abstract specification: a case is opened once per key and changes one whole operation at a time |
| `CaseStore` | `review/store.py` statement by statement, with the checks of the service in front of it |
| `ReviewService` | the service over an atomic store, with workflow threads, gateways, processes and restarts |
| `ExpertRouter` | `agent/router.py`: fan-out, timeouts, conditional route, policy |
| `Investigator` | `investigation/investigator.py`: the loop of provider calls and tool calls, its budgets, exits and grounding |
| `CaseWorkflow` | `workflow/graph.py` around one run of the router: investigation, interrupt, policy, and what the service records of it |
| `EvidenceGraph` | frequencies, weights, pair strengths and components: which merchants form a candidate |
| `LiveCheck` | `demo/live_check.py`: `EvidenceGraph` and `CaseWorkflow` composed |
| `ReviewDesk` | the reviewer's user interface against the API's rules (`CaseRecord`) |
| `SharedAttributes` | index keys and their severities, shared by `EvidenceGraph` and `OnboardingRisk` |
| `OnboardingRisk` | the legacy scores, their fusion and the decision, as operators |
| `LegacyOnboarding` | submissions, the inverted index and manual decisions |
| `MC...` | definitions TLC needs: symmetry sets, scores, verdicts, budgets, applications, populations |
| `...Proofs` | theorems and their proofs |

How they compose:

    VersionedCase  <-- refined by --  CaseStore      (statements, lock, crashes)
                   <-- refined by --  ReviewService  (processes, awaits, restarts)
    CaseRecord     extended by VersionedCase, CaseStore, ReviewService, ReviewDesk
    ExpertRouter   extended by CaseWorkflow, which LiveCheck extends with EvidenceGraph
    OnboardingRisk extended by LegacyOnboarding

`CaseStore` and `ReviewService` both contain
`Atomic == INSTANCE VersionedCase WITH cases <- cases, log <- log`: the committed rows and
events are the mapping, and `Atomic!Spec` is a property of their runs and a theorem of
each. `CaseStore` shows that the store may be taken for atomic; `ReviewService` then takes
it so and can afford processes, awaits and restarts; `ReviewDesk` takes the whole service
for one atomic step of `CaseRecord`.

### CaseStore

A *session* is one service call in some thread or process. The database module
creates sessions with `autoflush=False` and the SQLite driver begins a transaction
at the first write, so the SELECTs of a call are not protected by anything; the
model gives each its own step:

| Step | Code |
|---|---|
| `RequestOpen`, `RequestChange` | the service's own checks, up to the await or the store call |
| `Answer` | the awaited workflow run, or the gateway, returns |
| `Check` | `_require`, `_check_version`, the transition checks: the row is now cached in the session |
| `ReadSequence` | `SELECT max(sequence)` of the first `_append` |
| `Flush` | the first flush: takes the write lock, sends the assigned columns and the event, may violate `uq_case_sequence` |
| `BumpAndCommit` / `BumpFails` | the guarded UPDATE of `_bump` and the commit, or its rollback |
| `CommitNote` | `record_supplied_information`, which commits without a bump |
| `InsertCase`, `CommitCase` | `CaseStore.open_case` |
| `LockTimeout`, `Crash` | the driver gives up; the process dies |

Nothing of an open transaction is visible to another session, so the variables
`cases` and `log` hold committed data only. The data is abstracted to what the
properties compare: `verdict` stands for all `automated_*` columns and `case_state`
(which only one operation writes, and as a whole), `human` for the columns of a
decision, `handedOff` for those of a receipt. An event keeps the part of its payload
that repeats or explains a column. The optional `investigation_recorded` entry,
timestamps and the wording of errors are left out.

### ReviewService

`threads[p][c]` is the latest checkpoint of case `c` in process `p`: the node that
comes next, the rounds of information asked for, the items supplied, and whether
the investigation it holds raises the outcome. `run[s]` are the channel values of the
graph execution that session `s` awaits. The nodes that await something (`Assess`,
`Investigate`) are actions, and other calls come between them; `finalize` does not
wait and belongs to the action before it. A verdict is told by the set of items its run
took into account, which is what lets the model say whether evidence was lost.

LangGraph itself is external. The model takes from it what the code relies on: a
checkpoint per super-step where the last writer wins; `ainvoke` with an input on a
thread that exists starts again at the entry and keeps the other channels;
`Command(resume=...)` hands its value to the pending interrupt, returns the stored
values of a finished thread, and runs an interrupted execution on from its checkpoint;
with an unknown thread it fails.

### ExpertRouter

The experts share one event loop. An expert that computes has it to itself and cannot
be cancelled (`Compute` is one step), one that awaits can be timed out or answer just as the timer
fires. Scores are integers in some unit; the run uses 0.05, in
which the default thresholds (0.25, 0.20, 0.75, 0.40) are exact. Floating-point
rounding is not modelled. An expert may return any result the contract allows,
an abstention included, although the three experts of the repository only complete
or fail.

### Investigator

One action per exit or turn of the loop in `investigate()`. The provider is any
provider: at each turn it may fail, propose a tool call or conclude with any
output. The arguments of a tool call are abstracted to what comes of them: an
error code that the tool can raise, an exception of another kind, or a result of
which the model keeps the evidence it shows under the keys `disclosed_evidence_ids`
looks for. That is any set of graph edges for `get_relationship_evidence` (filters
and the limit of 25 select them) and nothing for the other tools; so evidence that only an
expert emitted is in the catalogue and can never be cited. A conclusion keeps the
recommendation, the citations, the union of what its hypotheses refer to, and whether
it requests information; every other way to violate the schema is `ConcludeBadly`.
A conclusion without any citation passes the grounding check, which looks at what is cited only.
Time is one bit, `late`, which `Expire` may set anywhere. A `TimeoutError` the provider raises
of its own is reported like the timer's (`investigator.py:441`), so `ProviderFails` may blame the clock with time left. Nothing survives from one
investigation to the next; the model nevertheless lets investigations follow one
another, because a case is investigated again in each round.

`ReviewService` and `CaseWorkflow` meet the investigator in two places: `Investigate` takes any
outcome, and `InvestigationBreaks` (in `CaseWorkflow` `Break`) is the exception that `ToolBreaks` lets out, which
ends the service call and leaves the thread before the node. The constant
`InvestigatorBreaks` is FALSE for the offline provider, which never sends a bad argument.

### CaseWorkflow

`ReviewService` knows of an investigation only whether it raises the outcome. `CaseWorkflow` opens
that up for one thread: the assess node is `ExpertRouter`, step by step; `opinion`, `rounds`
and `decision` are the channels; `ApplyPolicy` is `_apply_policy` with its reason codes, and
`Interpret` is the service's `_interpret`. The conclusions of `DeterministicInvestigator` are
`OfflineOpinion`, a function of what the group shares, of the prior outcomes in memory and of whether
somebody has answered; any other provider may hold any opinion. `memory` and `priors` are the
runtime's snapshot and the store's `prior_outcomes`: `ResolveElsewhere` changes only the latter,
and `Rebuild` (a new process) reads it again and forgets all threads.

Three details of the code that the model keeps. A run that is lost after its graph execution
(`LoseOpening`: the store raises) leaves its channels in the thread, and the next run of the
case inherits an old opinion, which, as `OpinionOnlyRaises` shows, can only raise. At the last
round the decision still says `awaiting_merchant_information` while the case is recorded as
`pending_review`, since `_interpret` looks at the interrupt first (`WaitingCanBeAnswered`). And an answer whose
thread broke in the investigation is taken as input to nothing: `Supply` runs on from the
checkpoint without the items.

### EvidenceGraph and LiveCheck

Weights are in thousandths (the code keeps six digits). `Components` adds one merchant after the
other and merges what it touches, with `FoldSet`; the code searches breadth-first. The features a candidate
has for the graph expert are not computed: the expert may return any score.

`LiveCheck` follows either a case or one check, since both use the same router, investigator and memory,
none of which keeps anything of a run. `Submit` builds the candidates of the reference population
and the file together and keeps those with a new merchant in them; `Begin` ... `Collect` runs one
after the other; `FailCheck` is an exception, after which nothing remains. The `action` of an answer
is the router's and not the final decision's.

`evidence_graph.py:114-116` says that common, weak attributes receive a frequency discount. Strong ones do
too, only a gentler one: 29 merchants who share nothing but an account fall below the pair strength of 0.35
and are not linked, and more than 50 are skipped altogether, while a file may hold 100 rows.
`SharedAccountLinks` therefore speaks of up to 28 users, which is the real bound.

### ReviewDesk

Streamlit runs the page's script from its top at every click. `Click` ends the page that was drawn; `Fetch`
reads the case again and then either acts (`Act`: the clicked button is still offered by the row fetched now), draws, or fails;
`Succeed` and `Fail` are the API's answer, and `Succeed` may lose its answer on the way.
`seen` keeps the row on the page that was clicked, which nothing in the code looks at, so that
`DecidedOnThePage` can compare. The other clients are `Elsewhere`, any legal operation at any moment.

Worth knowing, and in the model: the version check of the API covers the moments between the fetch and the request only,
not the time the reviewer looked at the page. After a conflict the page says "It has been refreshed; review it
before deciding." (`ui/streamlit_app.py:82-83`) but shows the row from before it. "Review next case" claims whatever
heads the queue when the click is handled. There is no button to release a claim. A name of less
than two characters gets a refusal from the API, and so does "Start review" on a paused case
that another client claimed; these are the two exceptions of `ButtonsWork`. All tabs start as `reviewer_demo`, so
two of them may hold the same claim.

### LegacyOnboarding and OnboardingRisk

| Step | Code |
|---|---|
| `Submit` | `submit_application` up to the clustering analysis: a valid form whose uploads have been saved; the end of the lookback window is fixed |
| `LookUp` | one attribute of `ApplicationClusterer.analyze`, in the order of `extract_keys`: an unlocked SELECT of its index row, less the members that are too old |
| `AskRejected` | the last SELECT of the analysis (`application_clustering.py:243`): which of those found stand rejected now |
| `Insert` | the documents and the explanation have arrived; the flush of the merchant row takes the write lock, `index_application` reads its rows |
| `Commit` | the transaction: merchant, decision, index rows |
| `Fail` | any exception or crash: rolled back, answered with a 500 |
| `Age` | the lookback window of 90 days passes a merchant |
| `CheckReview`, `CommitReview` | `submit_review`: the 409 check before the lock, the unguarded UPDATE under it |

Scores are integers of 0.0001, to which the code rounds every score. What the
patterns of `synthetic_identity.py` look for is a set of traits, each with the severity and weight of its
signal; traits that exclude each other in one form are excluded (`IsForm`). A document is what the vision model
measured, or skipped. `Assessed` is `RiskScorer.score`. `first` and `earlier` are history variables.

Between any two of the SELECTs of an analysis others may commit: an account may be looked up before its first user is on
record and an address after, and somebody who was under review when found may be rejected when `AskRejected` asks.
What the model makes visible and no property denies: two submissions in flight together do not see each other, so a shared
account is only caught from the third on. A model's answer that
does not parse ends in a 500, with nothing on record and the uploaded files left on disk. Files, reviewer notes and
the copy of the decision inside the assessment are not modelled.

## Runs

| Run | Instance | Shows |
|---|---|---|
| `store_races` `MCCaseStore.cfg` | 1 case, 2 reviewers, 2 verdicts, 2 decisions, 2 sessions, 5 events | the store linearizes (`Linearizes`), decisions are final, the trail explains the row, one hand-off, claims respected, every conflict has a winner |
| `store_liveness` `MCCaseStoreLiveness.cfg` | 2 cases, 2 keys, 2 sessions, 3 events, fairness | `KeyOpensOneCase`; `CallsReturn`: every call is answered and gives the lock back |
| `conflict_version` `MCCaseStoreConflict.cfg` | as the first, 3 events | **violation**: a conflict does not carry the current version |
| `service_processes` `MCReviewService.cfg` | 2 processes, 2 calls, 1 item, 1 round, 4 events, 1 restart, exceptions | `KeepsPromises`, `GatewayNeedsApproval`, `EvidenceFitsRounds` |
| `service_rounds` `MCReviewServiceRounds.cfg` | 1 process, 1 call at a time, 2 items, 2 rounds, 9 events, 1 restart, exceptions, fairness | `RequestsAreCapped`, `EvidenceAccumulates`, `AnswersMoveOn` |
| `lost_supply` `MCReviewServiceLostSupply.cfg` | 1 process, 1 call at a time, 2 items | **violation**: supplied information the decision never saw |
| `live_check` `MCLiveCheck.cfg` | 4 scores around the thresholds, all failures, 2 rounds; a reference of 26 users of one account and three files; fairness | the router (`GraphRiskIsFloor`, `ConsultedIsReviewed`, `AssessmentIsSafe`), the workflow (`OpinionOnlyRaises`, `WaitingCanBeAnswered`, `OfflineAsksOnce`) and the check (`EverySubmissionAnswered`, `SharedAccountLinks`, `CheckReturns`) |
| `tabular_route` `MCLiveCheckTabular.cfg` | the same, without fairness | **violation**: no answer of the tabular expert triggers a review |
| `investigation` `MCInvestigator.cfg` | 4 evidence IDs (2 edges, 1 expert's, 1 forged), budgets of 2/3, 3/2 and 3/1 steps/tool calls, fairness | `OpinionsAreGrounded`, `BudgetsAreHonest`, `ResultsAreAccepted`, `InvestigationReturns` |
| `broken_call` `MCInvestigatorRecord.cfg` | the same | **violation**: a tool call that is counted but not recorded |
| `legacy_onboarding` `MCLegacyOnboarding.cfg` | 3 submissions of 3 applications, 2 reviewers, alarming cluster sizes 2, 3, 4 | `IndexIsExact`, `SharedAccountIsSeen`, `MachineDecisionStands`, `MissingIsNotClean`, `OneLoudModuleIsHeard` |
| `review_desk` `MCReviewDesk.cfg` | 1 case, 2 tabs, 2 reviewers, 2 verdicts, 3 decisions, other clients up to version 4 | `ButtonsWork`, `DecidedOnThePage` |

Deadlock is checked for `review_desk` only, where somebody can always do something; everywhere else an
assessment or a submission ends, or the bounds stop the others.

**Bounds.** A race in the store needs two sessions on one case, and every operation is
tried in both; a third session adds nothing that two do not do one after the other. `MaxEvents`
is tested when a call is accepted and therefore bounds the history, not the race: in `store_races` 5 events
let a case be opened, claimed, resolved, released and handed off, and both sessions may
still be under way at the limit. Two verdicts are enough to notice a wrong one. In
`ReviewService` two processes are the API and a seeder, one restart is enough to lose a
checkpoint at any point of any call, and two rounds are the least that can lose what the first
one brought; `MaxEvents` there only keeps reviewers from acting for ever: with 4 a case can still be claimed and
resolved at any point of a call, and hand-offs are not bounded. `EvidenceFitsRounds` is checked there
with one item and one round, where what can go wrong is a case that asks with no round left; two processes with more of both
take TLC too long, and the property is proved for every number of items and rounds. The budgets of `Investigator` are such that each of the
two can run out first; the loop does nothing in a fourth step that it does not do in a third.

The four scores of `live_check` are 0.20, 0.25, 0.60 and 1.00: just below and at the review threshold, at the lower and
beyond the upper end of the uncertain range, and pairs that disagree by more, by exactly and by less than 0.40; that the router's
properties hold for all scores is proved. Its files are 2 merchants who join the 26 users (28, the limit of `SharedAccountLinks`), three who are
linked to each other or to nobody, and one that reuses an ID. In
`legacy_onboarding` three submissions can overlap in every order and make a chain; the code alarms at
clusters of 3, 5 and 8, which three submissions cannot reach, so the run lowers the sizes and the proofs leave them open. The
applications are chosen so that each of the rules decides somewhere. An application ages only while some submission is still new,
since afterwards it makes no difference to anybody. In `review_desk` a case may be opened, claimed, supplied and
released or resolved by others before a tab acts, and the tabs themselves are not bounded but by the case: a
decided and handed-off case accepts nothing more.

**One call at a time.** `RequestsAreCapped`, `EvidenceAccumulates` and `AnswersMoveOn` are checked with
one service call in flight, between whose steps reviewers act, so that an answer may still lose its version check. Two openings of one case that overlap in one process
run the same thread twice, and the checkpoint of the slower one can take back a round that
the other has recorded. Whether it does depends on the checkpointer library, so it
is described here and in the hazards but is not stated as a finding. What survives every overlap is
`EvidenceFitsRounds`: a verdict never rests on more items than there are rounds, and a case that asks can still
be answered. `KeepsPromises`, `GatewayNeedsApproval` and `EvidenceFitsRounds` are checked with overlapping calls.

**Fairness.** `CaseStore`: weak fairness of a session's own steps, because a coroutine or
worker thread that has begun is never parked and the driver bounds its wait for the lock.
`ReviewService`: weak fairness of the workflow's steps, because the router's timeouts and
the investigator's budgets end what they await; and strong fairness of supplying a case
again, because `AnswersMoveOn` is about a merchant who keeps answering (each losing answer
disables the action while it runs). It speaks of behaviours in which the investigator breaks finitely
often, for one that raises every time keeps the case waiting, and of cases that still have a thread: after a restart there is nothing to resume
and an answer fails. Nothing is assumed of reviewers. `LiveCheck`: weak fairness of
`Progress`, the event loop going on with what has begun: computing ends and timers fire, but what an expert awaits
may never arrive (`Resume` is not in it) and nothing makes anybody submit. `Investigator`: the loop is never
parked, the clock runs and the timer of `asyncio.wait_for` fires; the provider may be silent for ever.

## What the four violations say

*Conflicts.* `api/case_routes.py:3-5` and `review/store.py:40` promise a conflict that
carries the current version. That is so when `_check_version` raises it. When two calls
pass that check together, the loser is stopped by `_bump`, which rolls back and raises
`ConcurrentModification(row.case_id, int(row.version), -1)`: the current version is told
as -1, and `row.version`, reloaded after the rollback, is the winner's version in the
place of the expected one.

*Lost answers.* `supply_information` resumes the checkpoint first and lets the store check
the version afterwards (`review/service.py:139`, `:153`). If a reviewer has claimed
the case meanwhile, the caller gets a conflict and must send the answer again. By then
the thread has finished: resuming it returns the stored values, so whatever the caller
sends now is logged as `information_supplied` next to the decision of the earlier run,
which never saw it. `AnswersMoveOn` shows the good half of the same mechanism: the retry
always gets the case out of `awaiting_information`.

*Broken calls.* `ToolError` stands for "a scope or argument violation", an observation for
every "auditable" tool call, and a test expects a bad call to be "recorded and recoverable". `_run_tool`
catches `ToolError` alone. `evidence_ids` given as a number (`investigation/tools.py:397`), a
severity too large for a float (`:376`), or a rejected tool name that makes the summary longer than an observation
may hold raise something else: the call is counted, nothing is recorded, and the exception leaves
`investigate()`, the workflow and the service, unlike a failure of the provider itself, which becomes
a result that sends the case to a human.

*The tabular expert.* Every completed result of it says "this expert may trigger review but does not replace graph risk"
(`agent/experts.py:176-178`), and `agent/router.py:44-45` says of the experts beside the graph model that they may cause a
case to be reviewed. `_tabular_route_reason` asks this one only when the primary result is missing, when its score is strictly inside the
uncertain band, or when the two other experts disagree; `_apply_policy` sends the case to review for each of these by itself. So
`TabularMayTriggerReview`, that there are results for which its answer makes the difference, is false: it adds a reason code and
never changes the action. Nothing unsafe follows. That the two places agree at every edge, so that nobody whom the route
calls difficult is let pass, is `ConsultedIsReviewed`, which holds.

Two more disagreements came to light that no run states.

*Second decisions.* `tests/test_api.py:132` says "Second review on a now-decided application must conflict, not silently pass."
`submit_review` compares the status it has read without a lock (`api/routes.py:231`) and writes an UPDATE without a guard. Of two
requests that both have read `under_review` the second waits for the lock of the first, then overwrites its decision and is answered like any other. One
after the other they do conflict, as the test expects. What a race cannot do is reach an application the machine decided by itself (`MachineDecisionStands`).

*Invalid PANs.* `analysis/risk_scorer.py:8-10` names two hard rules that are "decisive regardless of the fused average": a structurally invalid PAN,
and an account shared with a rejected merchant. `DECISIVE_SIGNAL` is 0.88 and the signal of an invalid PAN has severity 0.80
(`analysis/synthetic_identity.py:173`), so by itself it makes a score of 0.56 and leads to a person. The other rule is what `SharedAccountIsSeen` shows.

## Proofs

The theorems hold for any sets of cases, keys, reviewers, verdicts, decisions, processes, sessions, tabs
and merchants, any population and any file, any bound on the events, rounds and restarts and any thresholds but where a hypothesis says otherwise.
Assumed are only the named assumptions of the modules: that `None` is none of the values it stands beside, that the bounds are numbers, that
populations and the merchants of the gate are finite, that an application has the keys and the kind of documents its form has, that the desk's three
decisions are decisions and some item can be supplied, and the order of the thresholds and cluster sizes that the configuration checks or the constants have.
One result has a hypothesis of its own, which its paragraph explains: `SharedAccountsLink`.

*The atomic case* (`VersionedCaseProofs`). Claims, overrides, hand-offs and keys each relate
the row to events of the trail, and none is inductive: that a decision event names the row's
verdict needs that no progress follows a decision, that needs that a decided row is
`resolved` and so no longer awaits information, and so on. `Inv` is the conjunction of these facts;
`CaseRecordProofs` says once what each operation does to the row and which events it
appends (`AssignedIs`, `BumpedIs`, `KeyIsKept`, `DecisionIsKept`, `SingleEvent`), so
that the invariance proof has one case for opening, one for a change, one for a note.
`TrailsExplainRows` says that the trail, replayed from its first event, gives the row, however long it is. An induction over trails is not
available to the provers and is not needed: a function that solves the recursion of `Replay` along a trail, with one value more, solves it along the trail with
one event more, so what is inductive over the *behaviour* is that a solution exists and that every solution ends in what the row shows.

*The store* (`CaseStoreProofs`). The session invariant `Sound(s)` says what a session may
still believe at each of its steps although others commit all the time: the row it
selected was legal for its change and invited it; if the version is still the one it selected then
the row is too (versions only grow, and every write of the row counts one); the next sequence number is at most one beyond
the trail; whoever is past its flush holds the write lock and its number is free. At
`BumpAndCommit` the guard of the UPDATE then makes the cached row the committed one, and
the step *is* `Commit` of the abstract specification; every other step but three is a stutter.
`Linearizability` follows, and `DecisionSurvives`, `ClaimsWin`, `OverridesAreTrue`,
`HandoffHappensOnce`, `OpeningHappensOnce` and `TrailTellsTheRow` are the abstract theorems carried over by it.
`ConflictsAreLost` adds `SelectedIsExpected`: a session past its check selected the version it was asked for, so if it
ends in a conflict somebody else has moved the row beyond it.

*The service* (`ReviewServiceProofs`). `SuppliesAreInvited` is what keeps the refinement together over the await: a supply
call carries a version the case had while it waited for information, and as long as the case still has that version, it
still waits. `RowsGrow` says that every other call leaves a row alone or counts its version up, which is all the
invariant needs to know of them. With it, recording the late result is a legal `Change` of the atomic case or nothing;
with `DecidedIsResolved` a decided case can be neither progressed nor decided again, so what the gateway was told stays
approved. `ServiceKeepsPromises` is the refinement, `GatewayIsGated` the gate.

*Rounds and evidence* (the same module). `Earned` says what a thread may hold however it came by it: no more items than rounds, no more rounds than the cap, and a round
left when it asks. A new thread holds nothing, an answer adds one item at most and one round, and only an execution that has a round left
pauses; so it is inductive (`ThreadsAreEarned`, of checkpoints and of runs in flight), whichever of two executions writes its checkpoint last, and a verdict is recorded
from such a run. `EvidenceStaysWithinRounds` therefore needs no hypothesis on processes, calls, breaks or restarts.
`RequestsAreCapped` and `EvidenceAccumulates` say more, of the *trail* rather than of a thread: how often a merchant was asked, and that later
verdicts take the earlier answers into account. They are true of calls on one case that do not overlap in one process, which the code does not enforce; with a second process, or
with two openings at once, the model asks once more than the cap, because the threads of a case are several or one is put back. They stay with TLC, under the bounds that say so.

*The router* (`CaseWorkflowProofs`). The invariant records that the optional expert was only
asked when the others called for it and that a decided assessment reads results which no longer
change.
With it, `DifficultCasesAreReviewed` is a comparison of the conditions of the route with those of the policy.
`TabularTriggersNothing` is the finding about the tabular expert for every choice of thresholds and scores, so it is not one of the configuration, and
`TabularOnlyExplains` its other side: the action is the one the two other results alone lead to.

*The workflow and the live check* (`CaseWorkflowProofs`). `Held` tells, for each node, what the thread holds there: a
decided assessment from the investigation on, at the interrupt an open round and a request for information. That an old opinion survives a lost run is
allowed by it, and `PolicyOnlyRaises` shows that any opinion is harmless. `LivePolicyIsSovereign`, `WaitingIsTrue`, `OfflineIsSatisfied`
and `LiveRouterIsSafe` are stated of `LiveSpec`, whose steps are those of the workflow or start a thread of their own (`LiveInv`).

*The evidence graph and what a check answers* (the same module). `Components` and `_noisy_or` are folds over sets, and what a fold returns depends on the order `CHOOSE` takes
the elements in. The library's induction theorems cannot be used, for they take a predicate as a parameter; that every nonempty set of naturals has a least element (`LeastNumber`) can, and
gives `SubsetInduction` for sets of sets, from which `FoldExists` and two facts follow whatever the order. `ComponentsDivide`: the candidates are disjoint, cover
the merchants, and no strong pair is split. `NoisyOrIsAtLeast`: evidence added to a pair never weakens it, so a pair is as strong as its account alone.
`Accounted` is the invariant of the check: each candidate it has to answer for is still to run, running, or answered, in one place only.
`EveryoneSubmittedIsAnswered` follows from both. `SharedAccountsLink` has `AccountsCount` as its hypothesis: thresholds of at most 0.353 for
evidence and pairs and a frequency cap of at least 28, which the defaults of the code (0.10, 0.35 and 50) meet; 28 users is where the discount brings an account to 0.353, and one more to below 0.35.

*The investigator* (`InvestigatorProofs`). Grounding is not inductive by itself: it needs that every
disclosed ID was shown by a recorded observation (`Vouched`), and the budgets need that while the loop
runs, every step but the awaited one was a recorded tool call (`Counted`). With these, one lemma says that
an exit with an acceptable and honest result keeps the invariant, one that a recorded tool call does, and the
proof has one case per action. The schema check and the grounding check meet in `JudgedIsAcceptable`:
the first makes the hypotheses lean on the citation list only, the second checks that list, and only
together do they ground the opinion. `ToolBudgetMayNeverBind` is a consequence worth knowing: with
the default budget (five steps, six tool calls) `TOOL_BUDGET_EXHAUSTED` cannot happen.

*Legacy onboarding* (`LegacyOnboardingProofs`). That nobody is lost from the index is a matter of one fact,
`RowsAreCurrent`: whoever has read index rows to rewrite them holds the write lock, so they are the committed ones still. It
holds because the flush of the merchant row comes before the reads (`pipeline.py` `_persist`). That a shared account is rejected goes over
`AccountsWereSeen` (once the account has been looked up, what it missed was not on record when the analysis began, or too old),
for which `LookupsAreFramed` ties the attributes still to look up and the end of the window to the submission they were fixed for, and `SeenIsRejected` (one match makes
a signal of at least 0.88, which the hard rule of `_decide` rejects), and stays so because a manual decision under way is
about a referred application (`ReviewsWereReferred`), even when it races another.

*The legacy scores* (the same module). `DecisionsAreAssessed` ties every first decision on record to the scores of the application and of the matches and rejections its analysis found,
which no later step touches. The rest is about the operators: sums over sets of signals (folds, treated as in the evidence graph) are numbers, the scores
of the modules lie between 0 and 1 (`IdentityIsScored`, `ClusterIsScored`, `DocumentIsScored`), and the fusion is a blend of mean and maximum over three modules, or two when no document could be measured.
`MissingCountsAgainst` compares the two blends, `LoudModulesAreHeard` the maximum with the weight it has in the blend; both hold over every cluster size and every rounding the integers make.

*The desk* (`ReviewDeskProofs`). The pages compare nothing, so the invariant has to say what time does to a row: `Precedes` (a case that no longer waits for information never waits again, and
keeps its verdict). What a tab drew, and what it had drawn when its reviewer clicked, precede the row of its case now; a request on its way is for a row that has moved on or still invites it (`RequestOK`);
a decision on its way was proposed on a page its reviewer held. `CaseMoves` shows that any operation of any other client keeps all that in every tab at once. `PagesOfferWhatWorks` and `DecisionsAreInformed` read their
properties off it: a decision whose version is current found a row that is held, and a held row no longer waits, so it has the verdict that was seen.

Only model-checked: the properties under fairness (`CallsReturn`, `AnswersMoveOn`, `CheckReturns`, `InvestigationReturns`), which need ENABLED; `RequestsAreCapped` and `EvidenceAccumulates`, for the reason given above; and the four violations. All other
properties of the runs are stated by a theorem. What the prover does not reach and no property asks for: the exact values of folds and recursions (what is
proved of them are bounds, covers and invariance).

## Plan

Done: the modules and proofs above. What is left, in this order:

1. Of the service: which calls may overlap with the requests in the trail still capped (calls that change nothing in the thread can), and by how
   many requests the threads of several processes can exceed the cap.
2. `CaseStore`: the `prior_outcomes` rows that `resolve` and `add_prior_records` write, in the transaction of the decision;
   `CaseMemory`: matching by attribute values and the three outcomes that are not legitimate.
3. `OfflineInvestigator`: the walk of `DeterministicInvestigator` through the tools as a refinement of `Investigator`: with the
   default budget it always reaches a grounded conclusion.
4. `EvidenceGraph`: that the components are the *least* sets that split no strong pair; `ComponentsDivide` is the half that loses nobody.

## What is not modelled

Evaluation, benchmarks, training and data generation (offline, no shared state); the scripted demonstrations, which walk
through frozen scenarios with the components above; the Streamlit surfaces for live checks and model validation, and all
rendering; what the forms' patterns and the vision and language models compute (any trait, any measurement); the features
of a candidate and the experts' scores (any score); the validation of fields; authentication and transport (none in the
repository); and SQLAlchemy, SQLite, Streamlit and LangGraph beyond the behaviour stated above. `PROJECT.json` lists every
component with its status.

## Running

    tlc -workers 2 -config MCCaseStore.cfg MCCaseStore.tla
    tlapm CaseStoreProofs.tla
