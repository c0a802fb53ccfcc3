----------------------------- MODULE ExpertRouter -----------------------------
(***************************************************************************)
(* agent/router.py: one assessment of a ring candidate.  The rules and the  *)
(* graph expert run together, the tabular expert only when their results    *)
(* call for it, and a deterministic policy decides between onboarding and   *)
(* human review.  The experts share one event loop: an expert that computes *)
(* cannot be interrupted, one that awaits something can be timed out.       *)
(***************************************************************************)
EXTENDS Integers

CONSTANTS
    Score,                  \* what a risk score may be, in some unit
    ReviewThreshold, UncertaintyLow, UncertaintyHigh,  \* RoutedMoEConfig
    DisagreementThreshold,
    HasTabular,             \* whether an optional expert is configured
    None

ASSUME ConfigAssumption ==
    /\ Score \subseteq Int
    /\ ReviewThreshold \in Int /\ UncertaintyLow \in Int /\ UncertaintyHigh \in Int
    /\ DisagreementThreshold \in Nat
    /\ UncertaintyLow < UncertaintyHigh
    /\ HasTabular \in BOOLEAN
    /\ None \notin Score

Initial == {"rules", "graph"}
Expert == Initial \cup {"tabular"}

VARIABLES
    stage,      \* how far the assessment is
    task,       \* what each expert is doing
    results,    \* the ExpertResults so far, by expert
    assessment  \* the CandidateAssessment, None until there is one

vars == << stage, task, results, assessment >>

Completed == [status : {"completed"}, score : Score]
Result == Completed \cup [status : {"abstained", "failed"}]

ASSUME NoneIsNoResult == None \notin Result

ReasonCode == {"PRIMARY_EXPERT_UNAVAILABLE", "GRAPH_RISK_ABOVE_REVIEW_THRESHOLD",
               "GRAPH_RISK_UNCERTAIN", "RULES_GRAPH_DISAGREEMENT",
               "TABULAR_GRAPH_DISAGREEMENT", "EXPERT_FAILURE"}

Assessment == [action : {"human_review", "proceed_to_onboarding"},
               reasons : SUBSET ReasonCode,
               score : Score \cup {None}]

ASSUME NoneIsNoAssessment == None \notin Assessment

TypeOK ==
    /\ stage \in {"idle", "initial_fanout", "conditional_fanout", "decided"}
    /\ task \in [Expert -> {"off", "computing", "waiting", "over"}]
    /\ results \in [Expert -> Result \cup {None}]
    /\ assessment \in Assessment \cup {None}

Init ==
    /\ stage = "idle"
    /\ task = [e \in Expert |-> "off"]
    /\ results = [e \in Expert |-> None]
    /\ assessment = None

-------------------------------------------------------------------------------
(* The policy, on the results by expert. *)

IsComplete(r) == r \in Completed

Uncertain(s) == UncertaintyLow < s /\ s < UncertaintyHigh

\* _material_disagreement.
Disagree(a, b) ==
    /\ IsComplete(a)
    /\ IsComplete(b)
    /\ \/ a.score - b.score >= DisagreementThreshold
       \/ b.score - a.score >= DisagreementThreshold

\* Mutant: the route takes the edge of the uncertainty band for uncertain.
WantsTabularAtEdge(res) ==
    \/ ~IsComplete(res["graph"])
    \/ UncertaintyLow <= res["graph"].score /\ res["graph"].score < UncertaintyHigh
    \/ Disagree(res["graph"], res["rules"])

\* _tabular_route_reason gives a reason.
WantsTabular(res) ==
    \/ ~IsComplete(res["graph"])
    \/ Uncertain(res["graph"].score)
    \/ Disagree(res["graph"], res["rules"])

\* Mutant: an abstention of the graph expert passes for a result.
HasFailed(r) == r.status = "failed"

IsUnavailable(r) == ~IsComplete(r)

\* The conditions under which _apply_policy appends each reason code.
Fires(c, res) ==
    \/ /\ c = "PRIMARY_EXPERT_UNAVAILABLE"
       /\ IsUnavailable(res["graph"])
    \/ /\ c = "GRAPH_RISK_ABOVE_REVIEW_THRESHOLD"
       /\ IsComplete(res["graph"])
       /\ res["graph"].score > ReviewThreshold
    \/ /\ c = "GRAPH_RISK_UNCERTAIN"
       /\ IsComplete(res["graph"])
       /\ Uncertain(res["graph"].score)
    \/ /\ c = "RULES_GRAPH_DISAGREEMENT"
       /\ Disagree(res["graph"], res["rules"])
    \/ /\ c = "TABULAR_GRAPH_DISAGREEMENT"
       /\ Disagree(res["graph"], res["tabular"])
    \/ /\ c = "EXPERT_FAILURE"
       /\ \E e \in Expert : res[e] # None /\ res[e].status = "failed"

Reasons(res) == {c \in ReasonCode : Fires(c, res)}

Action(res) == IF Reasons(res) # {} THEN "human_review" ELSE "proceed_to_onboarding"

\* Mutant: the rules stand in for a graph expert that has no score.
RulesStandIn(res) == IF IsComplete(res["graph"]) THEN res["graph"].score
                     ELSE IF IsComplete(res["rules"]) THEN res["rules"].score ELSE None

PrimaryScore(res) == IF IsComplete(res["graph"]) THEN res["graph"].score ELSE None

-------------------------------------------------------------------------------
\* What _run_safely makes of a timeout.
Fail == [status |-> "failed"]

\* _run_safely returns the result r of expert e.
Finish(e, r) ==
    /\ task' = [task EXCEPT ![e] = "over"]
    /\ results' = [results EXCEPT ![e] = r]
    /\ UNCHANGED << stage, assessment >>

Assess ==
    /\ stage = "idle"
    /\ stage' = "initial_fanout"
    /\ task' = [e \in Expert |-> IF e \in Initial THEN "computing" ELSE "off"]
    /\ UNCHANGED << results, assessment >>

\* An expert has the event loop to itself until it answers, raises or awaits.
Compute(e) ==
    /\ task[e] = "computing"
    /\ \/ \E r \in Result : Finish(e, r)
       \/ /\ task' = [task EXCEPT ![e] = "waiting"]
          /\ UNCHANGED << stage, results, assessment >>

\* What the expert awaited arrives, in time or just as the timer fires.
Resume(e) ==
    /\ task[e] = "waiting"
    /\ \E r \in Result : Finish(e, r)

\* Mutant: the optional expert runs without a timeout.
InitialOnly(e) == task[e] = "waiting" /\ e \in Initial

\* wait_for can only cancel an expert that awaits.
CanTimeOut(e) == task[e] = "waiting"

TimeOut(e) ==
    /\ CanTimeOut(e)
    /\ Finish(e, Fail)

\* After the gather.
Route ==
    /\ stage = "initial_fanout"
    /\ \A e \in Initial : task[e] = "over"
    /\ stage' = "conditional_fanout"
    /\ task' = IF WantsTabular(results) /\ HasTabular
               THEN [task EXCEPT !["tabular"] = "computing"] ELSE task
    /\ UNCHANGED << results, assessment >>

Decide ==
    /\ stage = "conditional_fanout"
    /\ task["tabular"] \in {"off", "over"}
    /\ stage' = "decided"
    /\ assessment' = [action |-> Action(results), reasons |-> Reasons(results),
                      score |-> PrimaryScore(results)]
    /\ UNCHANGED << task, results >>

Next == \/ Assess \/ Route \/ Decide
        \/ \E e \in Expert : Compute(e) \/ Resume(e) \/ TimeOut(e)

Spec == Init /\ [][Next]_vars

-------------------------------------------------------------------------------
\* The result e alone gives.
Only(e, res) == [f \in Expert |-> IF f = e THEN res[f] ELSE None]

\* What the graph expert alone sends to review stays there, with its score,
\* whatever the other experts answer, fail to answer or say too late
\* (agent/router.py:44-45 "cannot lower graph risk").
GraphRiskIsFloor ==
    assessment # None =>
        /\ Action(Only("graph", results)) = "human_review"
               => assessment.action = "human_review"
        /\ assessment.score = PrimaryScore(Only("graph", results))

\* The conditions of the optional route and those of the policy are written
\* twice, and no score falls between them: a case difficult enough to ask the
\* tabular expert about goes to review, whatever that expert says or fails to say
\* (agent/router.py _tabular_route_reason, _apply_policy).
ConsultedIsReviewed ==
    (assessment # None /\ task["tabular"] # "off") => assessment.action = "human_review"

\* The action is the one the two other experts' results alone would have led to.
TabularNeverDecides ==
    assessment # None =>
        assessment.action = Action([results EXCEPT !["tabular"] = None])

\* What every completed tabular result says of itself, "this expert may trigger
\* review" (agent/experts.py:176-178): there are results for which it is asked
\* and its answer makes the difference.  It does not hold.
TabularMayTriggerReview ==
    results["tabular"] \in Completed =>
        \E res \in [Expert -> Result] :
            /\ WantsTabular(res)
            /\ Action(res) = "human_review"
            /\ Action([res EXCEPT !["tabular"] = None]) = "proceed_to_onboarding"

\* The assessment passes its own validation, or assess would raise and the case
\* never be opened (agent/contracts.py validate_safe_action).
AssessmentIsSafe ==
    assessment # None =>
        /\ assessment.score = None => assessment.action = "human_review"
        /\ assessment.action = "human_review" => assessment.reasons # {}
===============================================================================
