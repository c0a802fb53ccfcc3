---------------------------- MODULE ReviewService ----------------------------
(***************************************************************************)
(* review/service.py over an atomic store (CaseStore shows that it is one), *)
(* with the workflow threads each process checkpoints in its own memory and *)
(* the gateway's receipts.  Opening a case and supplying information wait    *)
(* for the workflow and so interleave with everything else; the human       *)
(* operations never wait.  A process may restart, and the seeding script or *)
(* thread is a second process on the same database.                         *)
(***************************************************************************)
EXTENDS CaseRecord, FiniteSets

CONSTANTS
    Process,      \* runtimes: the API, and the seeder beside it
    Session,      \* service calls in flight
    InvestigatorBreaks,  \* whether investigate() may raise (see Investigator)
    MaxRounds,    \* WorkflowConfig.max_information_requests
    MaxEvents,    \* bound: reviewers leave a case with this many events alone
    MaxRestarts   \* bound on the restarts of processes

ASSUME BoundsAssumption == MaxRounds \in Nat /\ MaxEvents \in Nat /\ MaxRestarts \in Nat

ASSUME BreaksAssumption == InvestigatorBreaks \in BOOLEAN

\* A verdict is told by the supplied items its run took into account.
ASSUME VerdictAssumption == Verdict = SUBSET Item

VARIABLES
    cases, log,  \* the database, as in VersionedCase
    threads,     \* the latest checkpoint of each case in each process
    receipts,    \* the cases each process has submitted to its gateway
    call,        \* what each session was asked to do, None when it is idle
    run,         \* the channel values of the session's own graph execution
    restarts

vars == << cases, log, threads, receipts, call, run, restarts >>
db == << cases, log >>

(***************************************************************************)
(* A checkpoint: the node that comes next, or how the run ended; the rounds *)
(* of information it asked for, the items it was given, and whether the      *)
(* investigation it holds raises the outcome.                               *)
(***************************************************************************)
Thread == [at     : {"assess", "investigate", "awaiting_information",
                     "cleared", "pending_review"},
           rounds : Nat,
           items  : SUBSET Item,
           raises : BOOLEAN]

Blank0 == [at |-> "assess", rounds |-> 0, items |-> {}, raises |-> FALSE]

OpenCall == [op : {"open"}, process : Process, case : CaseId, key : Key]
SupplyCall == [op : {"supply"}, process : Process, case : CaseId,
               expected : Nat \ {0}, item : Item]

ASSUME NoneIsNoCall == None \notin Thread \cup OpenCall \cup SupplyCall

TypeOK ==
    /\ cases \in [CaseId -> Row \cup {None}]
    /\ log \in [CaseId -> Seq(Event)]
    /\ threads \in [Process -> [CaseId -> Thread \cup {None}]]
    /\ receipts \in [Process -> SUBSET CaseId]
    /\ call \in [Session -> OpenCall \cup SupplyCall \cup {None}]
    /\ run \in [Session -> Thread \cup {None}]
    /\ \A s \in Session : call[s] = None <=> run[s] = None
    /\ restarts \in 0..MaxRestarts

Init ==
    /\ cases = [c \in CaseId |-> None]
    /\ log = [c \in CaseId |-> << >>]
    /\ threads = [p \in Process |-> [c \in CaseId |-> None]]
    /\ receipts = [p \in Process |-> {}]
    /\ call = [s \in Session |-> None]
    /\ run = [s \in Session |-> None]
    /\ restarts = 0

HasKey(k) == {d \in CaseId : cases[d] # None /\ cases[d].key = k}

\* The execution of session s goes to state r and checkpoints it.
Checkpoint(s, r) ==
    /\ run' = [run EXCEPT ![s] = r]
    /\ threads' = [threads EXCEPT ![call[s].process][call[s].case] = r]

\* Mutant: the execution outlives its call.
FinishCallOnly(s) == call' = [call EXCEPT ![s] = None] /\ UNCHANGED run

\* The call is over and its execution with it.
Finish(s) ==
    /\ call' = [call EXCEPT ![s] = None]
    /\ run' = [run EXCEPT ![s] = None]

-------------------------------------------------------------------------------
(* The workflow, one action per node that waits for something. *)

\* open_case with a new key for a case that is not there; ainvoke on a thread
\* that exists restarts it and keeps its channels.  (The other calls return the
\* stored case or refuse, and change nothing.)
Open(s, p, c, k) ==
    LET t == threads[p][c]
        r == IF t = None THEN Blank0 ELSE [t EXCEPT !.at = "assess"] IN
    /\ call[s] = None
    /\ HasKey(k) = {}
    /\ cases[c] = None
    /\ call' = [call EXCEPT ![s] = [op |-> "open", process |-> p, case |-> c, key |-> k]]
    /\ run' = [run EXCEPT ![s] = r]
    /\ threads' = [threads EXCEPT ![p][c] = r]
    /\ UNCHANGED << db, receipts, restarts >>

\* The router flags the candidate, or the policy clears it unless an
\* investigation the thread still holds raises the outcome.
Assess(s) ==
    /\ call[s] # None
    /\ run[s].at = "assess"
    /\ \E flagged \in BOOLEAN :
        Checkpoint(s, [run[s] EXCEPT !.at =
            IF flagged THEN "investigate"
            ELSE IF run[s].raises THEN "pending_review" ELSE "cleared"])
    /\ UNCHANGED << db, receipts, call, restarts >>

\* Mutant: one round too many.
MayAskOnceMore(r) == r.rounds <= MaxRounds

\* _route_after_investigation: a request pauses the run while rounds are left.
MayAsk(r) == r.rounds < MaxRounds

\* The investigator asks for information, or gives an opinion; a flagged case
\* ends with a human whatever the opinion is.
Investigate(s) ==
    /\ call[s] # None
    /\ run[s].at = "investigate"
    /\ \E asks, raises \in BOOLEAN :
        /\ asks => raises
        /\ Checkpoint(s, [run[s] EXCEPT
               !.raises = raises,
               !.at = IF asks /\ MayAsk(run[s]) THEN "awaiting_information"
                                                ELSE "pending_review"])
    /\ UNCHANGED << db, receipts, call, restarts >>

\* An exception leaves the investigate node, the workflow and the service: the call
\* ends, the thread keeps the checkpoint before the node, the database is untouched.
InvestigationBreaks(s) ==
    /\ InvestigatorBreaks
    /\ call[s] # None
    /\ run[s].at = "investigate"
    /\ Finish(s)
    /\ UNCHANGED << db, threads, receipts, restarts >>

\* Mutant: the item replaces the earlier ones.
ResumedAfresh(t, i) == [t EXCEPT !.at = "investigate", !.rounds = @ + 1, !.items = {i}]

\* The await_information node: the interrupt returns the supplied item.
Resumed(t, i) == [t EXCEPT !.at = "investigate", !.rounds = @ + 1,
                           !.items = @ \cup {i}]

\* Mutant: only a paused thread can be resumed.
MustBePaused(t) == t # None /\ t.at = "awaiting_information"

\* The checkpointer of the process knows the thread.
Resumable(t) == t # None

\* supply_information up to the await.  A paused thread takes the item; a
\* finished one is returned as it stands; one that another call is running is
\* run on from its checkpoint, and so is one whose call broke.  A process that
\* never ran the case, or has been restarted since, has no thread to resume and
\* fails.
Supply(s, p, c, i) ==
    LET t == threads[p][c]
        r == IF t.at = "awaiting_information" THEN Resumed(t, i) ELSE t IN
    /\ call[s] = None
    /\ cases[c] # None
    /\ AwaitsInformation(cases[c])
    /\ Resumable(t)
    /\ call' = [call EXCEPT ![s] = [op |-> "supply", process |-> p, case |-> c,
                                    expected |-> cases[c].version, item |-> i]]
    /\ run' = [run EXCEPT ![s] = r]
    /\ threads' = [threads EXCEPT ![p][c] = r]
    /\ UNCHANGED << db, receipts, restarts >>

\* The graph execution of s has returned, with what _interpret makes of it.
Returned(s) == call[s] # None /\ run[s].at \in OpeningStatus

RecordOpening(s) ==
    LET c == call[s].case
        k == call[s].key IN
    /\ Returned(s)
    /\ call[s].op = "open"
    /\ IF HasKey(k) = {} /\ cases[c] = None
       THEN /\ cases' = [cases EXCEPT ![c] = NewRow(k, run[s].at, run[s].items)]
            /\ log' = [log EXCEPT ![c] = OpeningEvents(k, run[s].at, run[s].items)]
       ELSE UNCHANGED db
    /\ Finish(s)
    /\ UNCHANGED << threads, receipts, restarts >>

\* A change the store accepts: the row, its version and its events together.
Apply(c, ch) ==
    /\ cases' = [cases EXCEPT ![c] = Bumped(@, ch)]
    /\ log' = [log EXCEPT ![c] = @ \o Events(cases[c], ch)]

\* Mutant: no version check.
AlwaysCurrent(c, e) == TRUE

\* The version check of the store.
IsCurrent(c, e) == cases[c].version = e

RecordProgress(s) ==
    LET c == call[s].case
        ch == [op |-> "progress", item |-> call[s].item,
               status |-> run[s].at, verdict |-> run[s].items] IN
    /\ Returned(s)
    /\ call[s].op = "supply"
    /\ IF IsCurrent(c, call[s].expected) THEN Apply(c, ch) ELSE UNCHANGED db
    /\ Finish(s)
    /\ UNCHANGED << threads, receipts, restarts >>

-------------------------------------------------------------------------------
(* The human operations, which never wait. *)

\* claim, release and resolve with the current version; with another one, or
\* from the wrong state, they fail and change nothing.
Review(c, ch) ==
    /\ cases[c] # None
    /\ Len(log[c]) < MaxEvents
    /\ Legal(cases[c], ch)
    /\ Apply(c, ch)
    /\ UNCHANGED << threads, receipts, call, run, restarts >>

\* Mutant: any recorded decision will do.
MayHandOffDecided(c) == cases[c].human # None /\ ~cases[c].handedOff

\* hand_off asks the gateway first and the store, which checks the version the
\* caller sent, afterwards.
MayHandOff(c) == IsApproved(cases[c]) /\ ~cases[c].handedOff

HandOff(p, c) ==
    /\ cases[c] # None
    /\ MayHandOff(c)
    /\ receipts' = [receipts EXCEPT ![p] = @ \cup {c}]
    /\ \E e \in 1..cases[c].version :
          IF IsCurrent(c, e) THEN Apply(c, [op |-> "handoff"]) ELSE UNCHANGED db
    /\ UNCHANGED << threads, call, run, restarts >>

\* A process restarts with an empty checkpointer and gateway; its calls die.
Restart(p) ==
    LET dead == {s \in Session : call[s] # None /\ call[s].process = p} IN
    /\ restarts < MaxRestarts
    /\ restarts' = restarts + 1
    /\ threads' = [threads EXCEPT ![p] = [c \in CaseId |-> None]]
    /\ receipts' = [receipts EXCEPT ![p] = {}]
    /\ call' = [s \in Session |-> IF s \in dead THEN None ELSE call[s]]
    /\ run' = [s \in Session |-> IF s \in dead THEN None ELSE run[s]]
    /\ UNCHANGED db

Step(s) == Assess(s) \/ Investigate(s) \/ RecordOpening(s) \/ RecordProgress(s)

SupplyAgain(c) == \E s \in Session, p \in Process, i \in Item : Supply(s, p, c, i)

Next ==
    \/ \E s \in Session : Step(s)
    \/ \E s \in Session : InvestigationBreaks(s)
    \/ \E s \in Session, p \in Process, c \in CaseId, k \in Key : Open(s, p, c, k)
    \/ \E c \in CaseId : SupplyAgain(c)
    \/ \E c \in CaseId, ch \in ClaimChange \cup ReleaseChange \cup ResolveChange :
          Review(c, ch)
    \/ \E p \in Process, c \in CaseId : HandOff(p, c)
    \/ \E p \in Process : Restart(p)

Spec == Init /\ [][Next]_vars
\* A call that has begun goes on: the event loop runs it, and the experts and
\* the investigator it waits for have time budgets.  The merchant is patient:
\* a case that can be supplied again and again is, with its current version.
FairSpec == /\ Spec
            /\ \A s \in Session : WF_vars(Step(s))
            /\ \A c \in CaseId : SF_vars(SupplyAgain(c))

-------------------------------------------------------------------------------
(* Properties. *)

\* Whatever runs late, overlaps or restarts, the rows and the audit trails only
\* ever see the store's operations, each on the case it was meant for: no
\* progress on a case that has left awaiting_information, no hand-off without
\* approval or twice (service.py open_case, supply_information, hand_off).
Atomic == INSTANCE VersionedCase WITH cases <- cases, log <- log
KeepsPromises == Atomic!Spec

\* The gateway has only heard of cases whose recorded human decision is an
\* approval, then and ever after (service.py hand_off, gateway/base.py:3-5).
GatewayNeedsApproval ==
    \A p \in Process : \A c \in receipts[p] :
        cases[c] # None /\ IsApproved(cases[c])

\* The information a case is asked for is capped across all its runs
\* (graph.py _route_after_investigation, max_information_requests).  This and
\* the next property are about service calls that do not overlap on a case.
RequestsAreCapped ==
    \A c \in CaseId :
        Cardinality({i \in DOMAIN log[c] : log[c][i] = Requested}) <= MaxRounds

\* What one recorded run took into account, no later recorded run forgets
\* (graph.py _await_information, resume: "preserving its trace").
EvidenceAccumulates ==
    [][\A c \in CaseId : cases[c] # None => cases[c].verdict \subseteq cases'[c].verdict]_vars

\* However calls overlap, break and restart, no recorded run has taken more items
\* into account than there are rounds to supply them, and one that asks for
\* information has a round left for the answer (graph.py
\* _route_after_investigation, _await_information).
EvidenceFitsRounds ==
    \A c \in CaseId : cases[c] # None =>
        LET items == Cardinality(cases[c].verdict) IN
        /\ items <= MaxRounds
        /\ AwaitsInformation(cases[c]) => items < MaxRounds

\* Unless the investigator breaks for ever, a case whose merchant keeps answering is
\* not kept waiting for information while there is a thread to take the answers, even
\* when one reaches the workflow and then loses its version check (service.py
\* supply_information).
AnswersMoveOn ==
    <>[][\A s \in Session : ~InvestigationBreaks(s)]_vars =>
        \A c \in CaseId :
            cases[c] # None /\ AwaitsInformation(cases[c])
                ~> \/ cases[c] # None /\ ~AwaitsInformation(cases[c])
                   \/ \A p \in Process : threads[p][c] = None

\* service.py:126 says that supplying information resumes the case with that
\* evidence: what the trail records as supplied, the recorded run has seen.
SuppliedIsConsidered ==
    \A c \in CaseId : \A i \in DOMAIN log[c] :
        log[c][i].type = "information_supplied" => log[c][i].item \in cases[c].verdict
===============================================================================
