------------------------------ MODULE CaseWorkflow ------------------------------
(***************************************************************************)
(* workflow/graph.py around one assessment (ExpertRouter): assess, perhaps  *)
(* investigate, perhaps pause for information, decide.  One thread of the   *)
(* checkpointer is followed: what its channels held before, a later run on  *)
(* it inherits.  Threads share nothing but the memory of prior outcomes,    *)
(* which the runtime reads from the store once, when it is built.  How      *)
(* calls on one case overlap is ReviewService's subject, not this module's. *)
(***************************************************************************)
EXTENDS ExpertRouter

CONSTANT MaxRounds  \* WorkflowConfig.max_information_requests

ASSUME RoundsAssumption == MaxRounds \in Nat

VARIABLES
    group,      \* what the investigator can find in the candidate's evidence
    offline,    \* whether the investigator is the deterministic one
    memory,     \* the runtime's CaseMemory knows the group's links for legitimate
    priors,     \* the store does
    node,       \* the node that comes next, or where the thread rests
    opinion,    \* channel: the investigation, by what it amounts to
    rounds,     \* channel: information_request_rounds
    decision,   \* channel: the CaseDecision of this run (no other is ever read)
    case,       \* the status recorded for the case, None until it is opened
    recorded    \* whether it holds the outcome of this runtime's latest run

routerVars == vars
channels == << opinion, rounds, decision >>
world == << group, offline, memory, priors >>
workflowVars == << routerVars, world, node, channels, case, recorded >>

\* "strong": it shares an account, a PAN or a device; "spread": over 30 days.
Group == [strong : BOOLEAN, spread : BOOLEAN]

\* A completed investigation by its recommendation; the others by their status,
\* "ungrounded" being the failure of the citations.
Opinion == {"continue_onboarding", "human_review", "request_information",
            "abstain", "failed", "ungrounded"}

OpinionReason == {"INSUFFICIENT_GROUNDING", "INVESTIGATOR_UNAVAILABLE", "INVESTIGATOR_ABSTAINED",
                  "INFORMATION_REQUESTED", "INVESTIGATOR_RECOMMENDS_REVIEW", "REVIEW_REQUIRED"}

ReviewStatus == {"cleared", "awaiting_merchant_information", "pending_human_review"}

CaseDecision == [action : {"human_review", "proceed_to_onboarding"},
                 review : ReviewStatus,
                 reasons : SUBSET (ReasonCode \cup OpinionReason),
                 score : Score \cup {None}]

ASSUME NoneIsNoOutcome == None \notin Opinion \cup CaseDecision

Running == {"assess", "investigate", "finalize"}

WorkflowTypeOK ==
    /\ TypeOK
    /\ group \in Group
    /\ offline \in BOOLEAN /\ memory \in BOOLEAN /\ priors \in BOOLEAN
    /\ node \in Running \cup {"idle", "broken", "await_information", "finished"}
    /\ opinion \in Opinion \cup {None}
    /\ rounds \in 0..MaxRounds
    /\ decision \in CaseDecision \cup {None}
    /\ case \in {"cleared", "awaiting_information", "pending_review", None}
    /\ recorded \in BOOLEAN

Blank == opinion = None /\ rounds = 0 /\ decision = None
BlankNext == opinion' = None /\ rounds' = 0 /\ decision' = None

\* No assessment is under way.
Unassessed == /\ stage' = "idle"
              /\ task' = [e \in Expert |-> "off"]
              /\ results' = [e \in Expert |-> None]
              /\ assessment' = None

WorkflowInit ==
    /\ Init
    /\ group \in Group
    /\ offline \in BOOLEAN
    /\ memory \in BOOLEAN
    /\ priors = memory
    /\ node = "idle"
    /\ Blank
    /\ case = None
    /\ recorded = FALSE

-------------------------------------------------------------------------------
(* The investigator, as far as the workflow can tell (see Investigator).    *)

\* Mutant: the offline policy does not look at what was supplied.
OfflineForgets(g, known, answered) ==
    IF g.strong THEN IF known THEN "continue_onboarding" ELSE "human_review"
    ELSE IF g.spread THEN "continue_onboarding" ELSE "request_information"

\* DeterministicInvestigator: strong links go to review unless they are known for
\* legitimate, weak ones are asked about once unless they are spread out.
OfflineOpinion(g, known, answered) ==
    IF g.strong THEN IF known THEN "continue_onboarding" ELSE "human_review"
    ELSE IF answered THEN "human_review"
    ELSE IF g.spread THEN "continue_onboarding" ELSE "request_information"

\* A model, or the stand-in for a disabled one, may say anything.
Opinions(g, known, answered) ==
    IF offline THEN {OfflineOpinion(g, known, answered)} ELSE Opinion

\* InvestigationResult.effective_recommendation.
Recommended(o) == IF o \in {"failed", "ungrounded"} THEN "human_review" ELSE o

Raises(o) == o # None /\ Recommended(o) \in {"human_review", "request_information"}

-------------------------------------------------------------------------------
(* The deterministic policy.                                                *)

\* Mutant: an opinion may lower the outcome.
PolicyTakesAdvice(a, o) ==
    IF Raises(o) THEN "human_review"
    ELSE IF o = "continue_onboarding" THEN "proceed_to_onboarding" ELSE a.action

PolicyAction(a, o) == IF Raises(o) THEN "human_review" ELSE a.action

OpinionReasons(o) ==
    {c \in OpinionReason :
        \/ c = "INSUFFICIENT_GROUNDING" /\ o = "ungrounded"
        \/ c = "INVESTIGATOR_UNAVAILABLE" /\ o = "failed"
        \/ c = "INVESTIGATOR_ABSTAINED" /\ o = "abstain"
        \/ c = "INFORMATION_REQUESTED" /\ o = "request_information"
        \/ c = "INVESTIGATOR_RECOMMENDS_REVIEW" /\ o # None /\ Recommended(o) = "human_review"}

\* _apply_policy on the assessment and the investigation the thread holds.
ApplyPolicy(a, o) ==
    LET action == PolicyAction(a, o)
        reasons == a.reasons \cup OpinionReasons(o)
    IN  [action  |-> action,
         review  |-> IF action = "proceed_to_onboarding" THEN "cleared"
                     ELSE IF o = "request_information" THEN "awaiting_merchant_information"
                     ELSE "pending_human_review",
         reasons |-> IF action = "human_review" /\ reasons = {} THEN {"REVIEW_REQUIRED"} ELSE reasons,
         score   |-> a.score]

-------------------------------------------------------------------------------
(* The run of a case, and what the service records of it.                   *)

\* open_case for a case the store does not have.  A thread that was used before
\* starts over with its channels as they are.
Run ==
    /\ case = None
    /\ node \in {"idle", "broken"}
    /\ node' = "assess"
    /\ recorded' = FALSE
    /\ Unassessed
    /\ decision' = None
    /\ UNCHANGED << world, opinion, rounds, case >>

\* The assess node: the router.
Assessing(A) ==
    /\ node = "assess"
    /\ A
    /\ UNCHANGED << world, node, channels, case, recorded >>

Assessed ==
    /\ node = "assess"
    /\ stage = "decided"
    /\ node' = IF assessment.action = "human_review" THEN "investigate" ELSE "finalize"
    /\ UNCHANGED << routerVars, world, channels, case, recorded >>

\* Mutant: one round too many.
MayAskOnceMore == rounds <= MaxRounds

\* _route_after_investigation.
MayAsk == rounds < MaxRounds

Investigate ==
    /\ node = "investigate"
    /\ opinion' \in Opinions(group, memory, rounds > 0)
    /\ node' = IF opinion' = "request_information" /\ MayAsk
               THEN "await_information" ELSE "finalize"
    /\ UNCHANGED << routerVars, world, rounds, decision, case, recorded >>

\* An exception leaves the workflow (see Investigator); the thread stays before
\* the node.
Break ==
    /\ node = "investigate"
    /\ ~offline
    /\ node' = "broken"
    /\ UNCHANGED << routerVars, world, channels, case, recorded >>

Finalize ==
    /\ node = "finalize"
    /\ node' = "finished"
    /\ decision' = ApplyPolicy(assessment, opinion)
    /\ UNCHANGED << routerVars, world, opinion, rounds, case, recorded >>

\* The graph execution has returned and nothing is recorded of it yet.
Returned == node \in {"await_information", "finished"} /\ ~recorded

\* Mutant: the status of the case is read off the decision's.
InterpretDecision ==
    IF node = "await_information" THEN "awaiting_information"
    ELSE IF decision.review = "cleared" THEN "cleared"
    ELSE IF decision.review = "awaiting_merchant_information" THEN "awaiting_information"
    ELSE "pending_review"

\* _interpret.
Interpret ==
    IF node = "await_information" THEN "awaiting_information"
    ELSE IF decision.review = "cleared" THEN "cleared" ELSE "pending_review"

Record ==
    /\ Returned
    /\ case' = Interpret
    /\ recorded' = TRUE
    /\ UNCHANGED << routerVars, world, node, channels >>

\* The store raises instead, and the case is not opened.
LoseOpening ==
    /\ Returned
    /\ case = None
    /\ node' = "idle"
    /\ UNCHANGED << routerVars, world, channels, case, recorded >>

\* supply_information: a paused thread takes the items, one whose investigation
\* broke goes on without them.
Supply ==
    /\ case = "awaiting_information"
    /\ \/ /\ node = "await_information" /\ recorded
          /\ rounds' = rounds + 1
       \/ /\ node = "broken"
          /\ UNCHANGED rounds
    /\ node' = "investigate"
    /\ recorded' = FALSE
    /\ UNCHANGED << routerVars, world, opinion, decision, case >>

\* A person finds another case on the same links legitimate; only the store
\* learns of it.
ResolveElsewhere ==
    /\ priors' = TRUE
    /\ UNCHANGED << routerVars, group, offline, memory, node, channels, case, recorded >>

\* build_runtime: a new process reads the prior outcomes and has no threads.
Rebuild ==
    /\ memory' = priors
    /\ Unassessed
    /\ node' = "idle"
    /\ BlankNext
    /\ recorded' = FALSE
    /\ UNCHANGED << group, offline, priors, case >>

RunStep == Assessing(Next) \/ Assessed \/ Investigate \/ Break \/ Finalize

WorkflowNext == \/ Run \/ RunStep \/ Record \/ LoseOpening \/ Supply
                \/ ResolveElsewhere \/ Rebuild

WorkflowSpec == WorkflowInit /\ [][WorkflowNext]_workflowVars

-------------------------------------------------------------------------------
(* Properties. *)

\* Prior outcomes the runtime no longer has right, opinions from a run that was
\* lost, advice to go on: none of them lowers what the experts' results say, and
\* a case is cleared only when no opinion its thread still holds speaks against
\* it (graph.py:6-8, memory.py:3-5, runtime.py build_runtime).
OpinionOnlyRaises ==
    node = "finished" =>
        /\ decision.score = PrimaryScore(results)
        /\ Reasons(results) \subseteq decision.reasons
        /\ decision.action = "proceed_to_onboarding"
             <=> Reasons(results) = {} /\ ~Raises(opinion)

\* A case is put on record as waiting for information exactly when its thread
\* is at the interrupt that takes it, also at the last round, where the decision
\* itself still speaks of waiting (service.py _interpret, graph.py _apply_policy).
WaitingCanBeAnswered ==
    recorded => (case = "awaiting_information" <=> node = "await_information")

\* The deterministic investigator asks once, whatever the cap on rounds allows
\* and however often the run is lost and begun again (investigator.py _conclude).
OfflineAsksOnce == offline => rounds <= 1
===============================================================================
