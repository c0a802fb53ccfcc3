------------------------------- MODULE LiveCheck -------------------------------
(***************************************************************************)
(* demo/live_check.py: new merchants are compared with each other and with  *)
(* the reference population.  Every candidate that contains one of them is  *)
(* run, one after the other, on a workflow made for the occasion; nothing   *)
(* is recorded.  The module follows either a case (CaseWorkflow) or one     *)
(* such check: they share the router, the investigator and the memory, none *)
(* of which keeps anything of a run.                                        *)
(***************************************************************************)
EXTENDS CaseWorkflow, EvidenceGraph

CONSTANTS
    Reference,   \* the reference population: a map from merchants to applications
    Submission   \* what may be submitted, by name: maps of the same kind

ASSUME SubmissionAssumption ==
    /\ None \notin DOMAIN Submission
    /\ \A s \in DOMAIN Submission : DOMAIN Submission[s] # {}

\* An application always has an account (extract_keys).
ASSUME PopulationAssumption ==
    \A apps \in {Reference} \cup {Submission[s] : s \in DOMAIN Submission} :
        /\ IsFiniteSet(DOMAIN apps)
        /\ \A m \in DOMAIN apps :
              "bank_account" \in DOMAIN apps[m].keys /\ DOMAIN apps[m].keys \subseteq Attribute

VARIABLES
    submission,  \* the name of what is being checked, or None
    todo,        \* the candidates not yet run, each with its group
    checking,    \* the members of the one that is, {} between runs
    answers      \* what the response will say of the others

liveVars == << submission, todo, checking, answers >>
allVars == << workflowVars, liveVars >>

Combined(s) ==
    [m \in DOMAIN Reference \cup DOMAIN Submission[s] |->
        IF m \in DOMAIN Submission[s] THEN Submission[s][m] ELSE Reference[m]]

Merchants == DOMAIN Reference \cup UNION {DOMAIN Submission[s] : s \in DOMAIN Submission}

Answer == [members : SUBSET Merchants,
           finding : {"linked_to_synthetic_reference", "new_linked_group", "no_ring_link_found"},
           action  : {"human_review", "proceed_to_onboarding"},
           awaits  : BOOLEAN]

LiveTypeOK ==
    /\ WorkflowTypeOK
    /\ submission \in DOMAIN Submission \cup {None}
    /\ \A c \in todo : c.members \subseteq Merchants /\ c.group \in Group
    /\ checking \subseteq Merchants
    /\ \A a \in answers : /\ a.members \subseteq Merchants
                          /\ a.awaits \in BOOLEAN

LiveInit ==
    /\ WorkflowInit
    /\ submission = None
    /\ todo = {}
    /\ checking = {}
    /\ answers = {}

-------------------------------------------------------------------------------
\* What the investigator will find in a candidate.
GroupOf(apps, members) ==
    [strong |-> \E k \in EvidenceWithin(apps, members) :
                    k[1] \in {"bank_account", "owner_pan", "device_fingerprint"},
     spread |-> \E m, n \in members : apps[m].day - apps[n].day >= 30]

Relevant(s) ==
    {[members |-> c, group |-> GroupOf(Combined(s), c)] :
        c \in {d \in Candidates(Combined(s)) : d \cap DOMAIN Submission[s] # {}}}

\* A file that parses; one that reuses an ID of the reference is refused.
Submit ==
    /\ submission = None
    /\ node = "idle" /\ Blank /\ case = None
    /\ \E s \in DOMAIN Submission :
        /\ DOMAIN Submission[s] \cap DOMAIN Reference = {}
        /\ submission' = s
        /\ todo' = Relevant(s)
    /\ UNCHANGED << workflowVars, checking, answers >>

\* The next candidate, on a thread of its own.
Begin ==
    /\ submission # None
    /\ checking = {}
    /\ \E c \in todo :
        /\ checking' = c.members
        /\ group' = c.group
        /\ todo' = todo \ {c}
    /\ BlankNext
    /\ Unassessed
    /\ node' = "assess"
    /\ UNCHANGED << offline, memory, priors, case, recorded, submission, answers >>

Finding(members) ==
    IF members \cap DOMAIN Reference # {} THEN "linked_to_synthetic_reference"
    ELSE IF Cardinality(members) > 1 THEN "new_linked_group" ELSE "no_ring_link_found"

\* The run returns, with its action or at the interrupt.
Collect ==
    /\ checking # {}
    /\ node \in {"await_information", "finished"}
    /\ answers' = answers \cup {[members |-> checking, finding |-> Finding(checking),
                                 action |-> assessment.action,
                                 awaits |-> node = "await_information"]}
    /\ checking' = {}
    /\ node' = "idle"
    /\ UNCHANGED << routerVars, world, channels, case, recorded, submission, todo >>

\* An exception is answered with an error; nothing remains of the check.
FailCheck ==
    /\ checking # {}
    /\ node = "broken"
    /\ submission' = None /\ todo' = {} /\ checking' = {} /\ answers' = {}
    /\ node' = "idle"
    /\ BlankNext
    /\ Unassessed
    /\ UNCHANGED << world, case, recorded >>

\* What happens to a case.
CaseStep == Run \/ Record \/ LoseOpening \/ Supply \/ ResolveElsewhere \/ Rebuild

LiveNext ==
    \/ RunStep /\ UNCHANGED liveVars
    \/ submission = None /\ CaseStep /\ UNCHANGED liveVars
    \/ Submit \/ Begin \/ Collect \/ FailCheck

LiveSpec == LiveInit /\ [][LiveNext]_allVars

\* What the event loop does next of what has begun; only what an expert awaits
\* may never come.
Progress ==
    \/ /\ \/ Assessing(\/ Assess \/ Route \/ Decide
                       \/ \E e \in Expert : Compute(e) \/ TimeOut(e))
          \/ Assessed \/ Investigate \/ Finalize
       /\ UNCHANGED liveVars
    \/ Begin \/ Collect \/ FailCheck

FairLiveSpec == LiveSpec /\ WF_allVars(Progress)

-------------------------------------------------------------------------------
IsAnswered == submission # None /\ todo = {} /\ checking = {}

\* Every merchant submitted is in exactly one of the answers, those nothing
\* links to anybody included (live_check.py run_live_check,
\* evidence_graph.py build).
EverySubmissionAnswered ==
    IsAnswered =>
        \A m \in DOMAIN Submission[submission] :
            Cardinality({a \in answers : m \in a.members}) = 1

\* Whoever shares a settlement account with somebody is answered together with
\* them and linked, as long as it has not more than 28 users
\* (evidence_graph.py:114-116, _frequency_adjusted_weight).
SharedAccountLinks ==
    IsAnswered =>
        LET apps == Combined(submission) IN
        \A m \in DOMAIN Submission[submission] :
            LET others == Sharers(apps, << "bank_account", apps[m].keys["bank_account"] >>)
            IN  Cardinality(others) \in 2..28 =>
                  \E a \in answers : others \subseteq a.members /\ a.finding # "no_ring_link_found"

\* A check ends, whatever its experts and its investigator do.
CheckReturns == submission # None ~> IsAnswered \/ submission = None
===============================================================================
