-------------------------- MODULE CaseWorkflowProofs --------------------------
(***************************************************************************)
(* What holds of the router for every set of scores and every choice of     *)
(* thresholds that RoutedMoEConfig accepts, of the run of a case for every  *)
(* cap on the rounds as well, of the candidates that the evidence graph     *)
(* builds from every population, and of the live check, which runs them     *)
(* through the same steps.                                                  *)
(***************************************************************************)
EXTENDS LiveCheck, FiniteSetTheorems, TLAPS

-------------------------------------------------------------------------------
(* The router: its invariant. *)

\* The optional expert has only been asked when the others call for it, and an
\* assessment is the policy's reading of results that no longer change.
RouteInv ==
    /\ stage \in {"idle", "initial_fanout"} =>
          task["tabular"] = "off" /\ results["tabular"] = None
    /\ stage \in {"conditional_fanout", "decided"} =>
          /\ \A e \in Initial : task[e] = "over" /\ results[e] # None
          /\ task["tabular"] = "off" => results["tabular"] = None
          /\ task["tabular"] # "off" => WantsTabular(results)
    /\ \A e \in Expert : task[e] = "over" => results[e] # None
    /\ stage = "decided" => task["tabular"] \in {"off", "over"}
    /\ assessment # None =>
          /\ stage = "decided"
          /\ assessment = [action |-> Action(results), reasons |-> Reasons(results),
                           score |-> PrimaryScore(results)]

Inv == TypeOK /\ RouteInv

-------------------------------------------------------------------------------
(* The router's policy. *)

\* What the optional expert is asked for is a reason for review already.
LEMMA AskedIsFlagged ==
    ASSUME NEW res, WantsTabular(res)
    PROVE  \E c \in ReasonCode \ {"TABULAR_GRAPH_DISAGREEMENT", "EXPERT_FAILURE"} :
               Fires(c, res)
  <1>1. CASE ~IsComplete(res["graph"])
    <2>1. Fires("PRIMARY_EXPERT_UNAVAILABLE", res)
      BY <1>1 DEF Fires, IsUnavailable
    <2> QED BY <2>1 DEF ReasonCode
  <1>2. CASE IsComplete(res["graph"]) /\ Uncertain(res["graph"].score)
    <2>1. Fires("GRAPH_RISK_UNCERTAIN", res)
      BY <1>2 DEF Fires
    <2> QED BY <2>1 DEF ReasonCode
  <1>3. CASE Disagree(res["graph"], res["rules"])
    <2>1. Fires("RULES_GRAPH_DISAGREEMENT", res)
      BY <1>3 DEF Fires
    <2> QED BY <2>1 DEF ReasonCode
  <1> QED BY <1>1, <1>2, <1>3 DEF WantsTabular

\* Those reasons do not depend on the optional expert.
LEMMA FlagsIgnoreTabular ==
    ASSUME NEW res, NEW other,
           res["graph"] = other["graph"], res["rules"] = other["rules"],
           NEW c \in ReasonCode \ {"TABULAR_GRAPH_DISAGREEMENT", "EXPERT_FAILURE"}
    PROVE  Fires(c, res) <=> Fires(c, other)
  BY DEF Fires, ReasonCode

\* A reason the graph expert gives alone, it gives in any company.
LEMMA GraphReasonsStay ==
    ASSUME NEW res \in [Expert -> Result \cup {None}], NEW c \in ReasonCode,
           Fires(c, Only("graph", res))
    PROVE  Fires(c, res)
  <1> DEFINE alone == Only("graph", res)
  <1>1. /\ alone["graph"] = res["graph"]
        /\ alone["rules"] = None
        /\ alone["tabular"] = None
    BY DEF Only, Expert, Initial
  <1>2. ~IsComplete(None)
    BY NoneIsNoResult DEF IsComplete, Result
  <1>3. /\ ~Disagree(alone["graph"], alone["rules"])
        /\ ~Disagree(alone["graph"], alone["tabular"])
    BY <1>1, <1>2 DEF Disagree
  <1>4. \A e \in Expert : alone[e] # None => alone[e] = res[e]
    BY <1>1 DEF Expert, Initial
  <1> HIDE DEF alone
  <1>5. Fires(c, alone)
    BY DEF alone
  <1>6. CASE c = "EXPERT_FAILURE"
    BY <1>4, <1>5, <1>6 DEF Fires
  <1>7. CASE c # "EXPERT_FAILURE"
    BY <1>1, <1>3, <1>5, <1>7 DEF Fires
  <1> QED BY <1>6, <1>7

-------------------------------------------------------------------------------
LEMMA Initially == Init => Inv
  BY DEF Init, Inv, TypeOK, RouteInv, Initial, Expert

\* Finish leaves a well-typed result behind.
LEMMA FinishKeeps ==
    ASSUME Inv, NEW e \in Expert, NEW r \in Result, Finish(e, r),
           task[e] \in {"computing", "waiting"}
    PROVE  Inv'
  <1>1. TypeOK'
    BY DEF Inv, TypeOK, Finish
  <1>2. r # None
    BY NoneIsNoResult
  <1>3. stage # "decided" /\ assessment = None
    BY DEF Inv, TypeOK, RouteInv, Expert
  <1>4. CASE stage \in {"idle", "initial_fanout"}
    BY <1>2, <1>3, <1>4 DEF Inv, TypeOK, RouteInv, Finish, Expert, Initial
  <1>5. CASE stage = "conditional_fanout"
    <2>1. e = "tabular" /\ WantsTabular(results)
      BY <1>5 DEF Inv, RouteInv, Expert
    <2>2. /\ results' = [results EXCEPT !["tabular"] = r]
          /\ task' = [task EXCEPT !["tabular"] = "over"]
      BY <2>1 DEF Finish
    <2>3. WantsTabular(results')
      BY <2>1, <2>2 DEF WantsTabular, Inv, TypeOK, Expert, Initial
    <2> QED BY <1>2, <1>3, <1>5, <2>2, <2>3 DEF Inv, TypeOK, RouteInv, Finish, Expert, Initial
  <1>6. RouteInv'
    BY <1>3, <1>4, <1>5 DEF Inv, TypeOK
  <1> QED BY <1>1, <1>6 DEF Inv

LEMMA Preserved == Inv /\ [Next]_vars => Inv'
  <1> SUFFICES ASSUME Inv, [Next]_vars PROVE Inv'
    OBVIOUS
  <1>1. CASE Assess
    BY <1>1 DEF Assess, Inv, TypeOK, RouteInv, Expert, Initial
  <1>2. CASE Route
    <2>1. WantsTabular(results)' <=> WantsTabular(results)
      BY <1>2 DEF Route, WantsTabular
    <2> QED BY <1>2, <2>1 DEF Route, Inv, TypeOK, RouteInv, Expert, Initial
  <1>3. CASE Decide
    <2>1. Action(results) \in {"human_review", "proceed_to_onboarding"}
      BY DEF Action
    <2>2. Reasons(results) \in SUBSET ReasonCode
      BY DEF Reasons
    <2>3. PrimaryScore(results) \in Score \cup {None}
      BY DEF PrimaryScore, IsComplete, Completed
    <2>4. TypeOK'
      BY <1>3, <2>1, <2>2, <2>3 DEF Decide, Inv, TypeOK, Assessment
    <2>5. RouteInv'
      BY <1>3 DEF Decide, Inv, TypeOK, RouteInv, WantsTabular, Action, Reasons,
                  Fires, PrimaryScore
    <2> QED BY <2>4, <2>5 DEF Inv
  <1>4. ASSUME NEW e \in Expert, Compute(e) PROVE Inv'
    <2>1. CASE \E r \in Result : Finish(e, r)
      BY <1>4, <2>1, FinishKeeps DEF Compute
    <2>2. CASE task' = [task EXCEPT ![e] = "waiting"] /\ UNCHANGED << stage, results, assessment >>
      <3>1. WantsTabular(results)' <=> WantsTabular(results)
        BY <2>2 DEF WantsTabular
      <3>2. stage = "decided" => FALSE
        BY <1>4 DEF Compute, Inv, RouteInv, Expert
      <3> QED BY <1>4, <2>2, <3>1, <3>2 DEF Compute, Inv, TypeOK, RouteInv, Expert, Initial
    <2> QED BY <1>4, <2>1, <2>2 DEF Compute
  <1>5. ASSUME NEW e \in Expert, Resume(e) PROVE Inv'
    BY <1>5, FinishKeeps DEF Resume
  <1>6. ASSUME NEW e \in Expert, TimeOut(e) PROVE Inv'
    <2>1. Fail \in Result
      BY DEF Fail, Result
    <2> QED BY <1>6, <2>1, FinishKeeps DEF TimeOut, CanTimeOut
  <1>7. CASE UNCHANGED vars
    BY <1>7 DEF vars, Inv, TypeOK, RouteInv, WantsTabular, Action, Reasons, Fires,
                PrimaryScore
  <1> QED BY <1>1, <1>2, <1>3, <1>4, <1>5, <1>6, <1>7 DEF Next

\* The inductive invariant of an assessment (agent/router.py assess).
THEOREM Invariant == Spec => []Inv
  BY Initially, Preserved, PTL DEF Spec

\* The state of an assessment is well typed, whatever the scores and thresholds.
THEOREM TypeCorrect == Spec => []TypeOK
  BY Invariant, PTL DEF Inv

-------------------------------------------------------------------------------
\* In every such state no other expert has lowered what the graph expert says.
LEMMA FloorFollows == Inv => GraphRiskIsFloor
  <1> SUFFICES ASSUME Inv, assessment # None PROVE GraphRiskIsFloor
    BY DEF GraphRiskIsFloor
  <1>1. results \in [Expert -> Result \cup {None}]
    BY DEF Inv, TypeOK
  <1>2. /\ assessment.action = Action(results)
        /\ assessment.score = PrimaryScore(results)
    BY DEF Inv, RouteInv
  <1>3. Only("graph", results)["graph"] = results["graph"]
    BY DEF Only, Expert, Initial
  <1>4. PrimaryScore(Only("graph", results)) = PrimaryScore(results)
    BY <1>3 DEF PrimaryScore
  <1>5. Reasons(Only("graph", results)) \subseteq Reasons(results)
    BY <1>1, GraphReasonsStay DEF Reasons
  <1>6. Action(Only("graph", results)) = "human_review" => Action(results) = "human_review"
    BY <1>5 DEF Action
  <1> QED BY <1>2, <1>4, <1>6 DEF GraphRiskIsFloor

\* Whatever thresholds are configured, what the graph expert alone sends to
\* review stays there with its score (agent/router.py _apply_policy).
THEOREM GraphOwnsTheRisk == Spec => []GraphRiskIsFloor
  BY FloorFollows, Invariant, PTL

\* In every such state the optional expert has not decided the action.
LEMMA TabularFollows == Inv => TabularNeverDecides
  <1> SUFFICES ASSUME Inv, assessment # None
               PROVE  Action(results) = Action([results EXCEPT !["tabular"] = None])
    BY DEF TabularNeverDecides, Inv, RouteInv
  <1> DEFINE without == [results EXCEPT !["tabular"] = None]
  <1>1. results \in [Expert -> Result \cup {None}] /\ stage = "decided"
    BY DEF Inv, TypeOK, RouteInv
  <1>2. CASE task["tabular"] = "off"
    <2>1. without = results
      BY <1>1, <1>2 DEF Inv, RouteInv, Expert
    <2> QED BY <2>1
  <1>3. CASE task["tabular"] # "off"
    <2>1. WantsTabular(results)
      BY <1>1, <1>3 DEF Inv, RouteInv
    <2>2. PICK c \in ReasonCode \ {"TABULAR_GRAPH_DISAGREEMENT", "EXPERT_FAILURE"} :
              Fires(c, results)
      BY <2>1, AskedIsFlagged
    <2>3. without["graph"] = results["graph"] /\ without["rules"] = results["rules"]
      BY <1>1 DEF Expert, Initial
    <2> HIDE DEF without
    <2>4. Fires(c, without)
      BY <2>2, <2>3, FlagsIgnoreTabular
    <2>5. Reasons(results) # {} /\ Reasons(without) # {}
      BY <2>2, <2>4 DEF Reasons
    <2>6. Action(results) = Action(without)
      BY <2>5 DEF Action
    <2> QED BY <2>6 DEF without
  <1> QED BY <1>2, <1>3

\* Whatever thresholds are configured, the action is the one the results of the
\* two other experts alone lead to (agent/router.py _apply_policy).
THEOREM TabularOnlyExplains == Spec => []TabularNeverDecides
  BY TabularFollows, Invariant, PTL

\* In every such state a case the optional expert was asked about is for review.
LEMMA ConsultedFollows == Inv => ConsultedIsReviewed
  <1> SUFFICES ASSUME Inv, assessment # None, task["tabular"] # "off"
               PROVE  Action(results) = "human_review"
    BY DEF ConsultedIsReviewed, Inv, RouteInv
  <1>1. WantsTabular(results) /\ results \in [Expert -> Result \cup {None}]
    BY DEF Inv, TypeOK, RouteInv
  <1>2. PICK c \in ReasonCode : Fires(c, results)
    BY <1>1, AskedIsFlagged
  <1> QED BY <1>2 DEF Action, Reasons

\* Whatever thresholds are configured, the two conditions agree: the optional
\* expert is only asked about cases that go to review (agent/router.py
\* _tabular_route_reason).
THEOREM DifficultCasesAreReviewed == Spec => []ConsultedIsReviewed
  BY ConsultedFollows, Invariant, PTL

\* Whatever thresholds are configured, there are no results for which the
\* optional expert is asked and triggers the review (agent/experts.py:176-178).
THEOREM TabularTriggersNothing ==
    ASSUME NEW res \in [Expert -> Result \cup {None}], WantsTabular(res)
    PROVE  Action([res EXCEPT !["tabular"] = None]) = "human_review"
  <1> DEFINE without == [res EXCEPT !["tabular"] = None]
  <1>1. PICK c \in ReasonCode \ {"TABULAR_GRAPH_DISAGREEMENT", "EXPERT_FAILURE"} : Fires(c, res)
    BY AskedIsFlagged
  <1>2. without["graph"] = res["graph"] /\ without["rules"] = res["rules"]
    BY DEF Expert, Initial
  <1> HIDE DEF without
  <1>3. Fires(c, without)
    BY <1>1, <1>2, FlagsIgnoreTabular
  <1>4. Action(without) = "human_review"
    BY <1>1, <1>3 DEF Action, Reasons
  <1> QED BY <1>4 DEF without

\* In every such state the assessment passes its validation.
LEMMA SafetyFollows == Inv => AssessmentIsSafe
  <1> SUFFICES ASSUME Inv, assessment # None PROVE AssessmentIsSafe
    BY DEF AssessmentIsSafe
  <1>1. /\ assessment.action = Action(results)
        /\ assessment.reasons = Reasons(results)
        /\ assessment.score = PrimaryScore(results)
    BY DEF Inv, RouteInv
  <1>2. PrimaryScore(results) = None => Action(results) = "human_review"
    <2> SUFFICES ASSUME PrimaryScore(results) = None
                 PROVE  Action(results) = "human_review"
      OBVIOUS
    <2>1. ~IsComplete(results["graph"])
      BY ConfigAssumption DEF PrimaryScore, IsComplete, Completed
    <2>2. Fires("PRIMARY_EXPERT_UNAVAILABLE", results)
      BY <2>1 DEF Fires, IsUnavailable
    <2>3. "PRIMARY_EXPERT_UNAVAILABLE" \in Reasons(results)
      BY <2>2 DEF Reasons, ReasonCode
    <2> QED BY <2>3 DEF Action
  <1>3. Action(results) = "human_review" => Reasons(results) # {}
    BY DEF Action
  <1> QED BY <1>1, <1>2, <1>3 DEF AssessmentIsSafe

\* The policy only builds assessments that CandidateAssessment accepts
\* (agent/contracts.py validate_safe_action).
THEOREM AssessmentsAreSafe == Spec => []AssessmentIsSafe
  BY SafetyFollows, Invariant, PTL

-------------------------------------------------------------------------------
(* The run of a case: its invariant. *)

\* Everything of WorkflowTypeOK but the router's state.
Typed ==
    /\ group \in Group
    /\ offline \in BOOLEAN /\ memory \in BOOLEAN /\ priors \in BOOLEAN
    /\ node \in Running \cup {"idle", "broken", "await_information", "finished"}
    /\ opinion \in Opinion \cup {None}
    /\ rounds \in 0..MaxRounds
    /\ decision \in CaseDecision \cup {None}
    /\ case \in {"cleared", "awaiting_information", "pending_review", None}
    /\ recorded \in BOOLEAN

\* The policy's reading of the results is there once the router has decided.
HasAssessment ==
    stage = "decided" =>
        assessment = [action |-> Action(results), reasons |-> Reasons(results),
                      score |-> PrimaryScore(results)]

\* Where the thread is tells what it holds.
Held ==
    /\ node \in {"investigate", "finalize", "await_information", "finished", "broken"}
           => stage = "decided"
    /\ node = "finished" => decision = ApplyPolicy(assessment, opinion)
    /\ node = "await_information" =>
          /\ opinion = "request_information"
          /\ rounds < MaxRounds
          /\ offline => rounds = 0
    /\ recorded => node \in {"await_information", "finished"}
    /\ recorded => (case = "awaiting_information" <=> node = "await_information")
    /\ offline => rounds <= 1

WorkflowInv == Inv /\ Typed /\ HasAssessment /\ Held

-------------------------------------------------------------------------------
(* The policy. *)

\* The router's reading of any results is an assessment.
LEMMA RouterReads ==
    ASSUME NEW res
    PROVE  [action |-> Action(res), reasons |-> Reasons(res), score |-> PrimaryScore(res)]
               \in Assessment
  <1>1. Action(res) \in {"human_review", "proceed_to_onboarding"}
    BY DEF Action
  <1>2. Reasons(res) \in SUBSET ReasonCode
    BY DEF Reasons
  <1>3. PrimaryScore(res) \in Score \cup {None}
    BY DEF PrimaryScore, IsComplete, Completed
  <1> QED BY <1>1, <1>2, <1>3 DEF Assessment

\* What the policy decides of an assessment is a well-formed decision.
LEMMA PolicyDecides ==
    ASSUME NEW a \in Assessment, NEW o \in Opinion \cup {None}
    PROVE  ApplyPolicy(a, o) \in CaseDecision
  <1>1. PolicyAction(a, o) \in {"human_review", "proceed_to_onboarding"}
    BY DEF PolicyAction, Assessment
  <1>2. OpinionReasons(o) \subseteq OpinionReason
    BY DEF OpinionReasons
  <1>3. a.reasons \cup OpinionReasons(o) \in SUBSET (ReasonCode \cup OpinionReason)
    BY <1>2 DEF Assessment
  <1>4. {"REVIEW_REQUIRED"} \in SUBSET (ReasonCode \cup OpinionReason)
    BY DEF OpinionReason
  <1>5. a.score \in Score \cup {None}
    BY DEF Assessment
  <1> QED BY <1>1, <1>3, <1>4, <1>5 DEF ApplyPolicy, CaseDecision, ReviewStatus

\* An opinion raises the action or leaves it alone, and never removes a reason.
LEMMA PolicyOnlyRaises ==
    ASSUME NEW res, NEW o,
           NEW d, d = ApplyPolicy([action |-> Action(res), reasons |-> Reasons(res),
                                   score |-> PrimaryScore(res)], o)
    PROVE  /\ d.score = PrimaryScore(res)
           /\ Reasons(res) \subseteq d.reasons
           /\ d.action = "proceed_to_onboarding" <=> Reasons(res) = {} /\ ~Raises(o)
  BY DEF ApplyPolicy, PolicyAction, Action

\* The deterministic investigator asks only where nobody has answered yet.
LEMMA OfflineAsksFirst ==
    ASSUME NEW g, NEW known, NEW answered,
           OfflineOpinion(g, known, answered) = "request_information"
    PROVE  ~answered
  BY DEF OfflineOpinion

\* Any investigation amounts to an opinion.
LEMMA OpinionsAreOpinions ==
    ASSUME NEW g, NEW known, NEW answered
    PROVE  Opinions(g, known, answered) \subseteq Opinion
  BY DEF Opinions, OfflineOpinion, Opinion

-------------------------------------------------------------------------------
(* The run of a case. *)

LEMMA WorkflowBegins == WorkflowInit => WorkflowInv
  <1> SUFFICES ASSUME WorkflowInit PROVE WorkflowInv
    OBVIOUS
  <1>1. Inv
    BY Initially DEF WorkflowInit
  <1>2. Typed
    <2>1. rounds \in 0..MaxRounds
      BY RoundsAssumption, SMT DEF WorkflowInit, Blank
    <2>2. priors \in BOOLEAN /\ recorded \in BOOLEAN
      BY Zenon DEF WorkflowInit
    <2> QED BY <2>1, <2>2, Zenon DEF WorkflowInit, Typed, Blank
  <1>3. HasAssessment /\ Held
    BY DEF WorkflowInit, Init, HasAssessment, Held, Blank
  <1> QED BY <1>1, <1>2, <1>3 DEF WorkflowInv

\* A router between two assessments is as good as new.
LEMMA RouterAfresh == Unassessed => Inv' /\ HasAssessment'
  BY DEF Unassessed, Inv, TypeOK, RouteInv, Initial, Expert, HasAssessment

\* A router nobody asks keeps what it has.
LEMMA RouterRests ==
    ASSUME Inv, HasAssessment, UNCHANGED routerVars
    PROVE  Inv' /\ HasAssessment' /\ (stage' = stage)
  <1>1. UNCHANGED vars
    BY DEF routerVars
  <1>2. Inv'
    BY <1>1, Preserved
  <1> QED BY <1>1, <1>2 DEF vars, HasAssessment, Action, Reasons, Fires, PrimaryScore

LEMMA AssessingKeeps ==
    ASSUME WorkflowInv, Assessing(Next)
    PROVE  WorkflowInv'
  <1>1. Inv'
    BY Preserved DEF WorkflowInv, Assessing
  <1>2. HasAssessment'
    <2>1. CASE Assess \/ Route
      BY <2>1 DEF Assess, Route, HasAssessment
    <2>2. CASE Decide
      BY <2>2 DEF Decide, HasAssessment, Action, Reasons, Fires, PrimaryScore
    <2>3. ASSUME NEW e \in Expert, Compute(e) \/ Resume(e) \/ TimeOut(e) PROVE HasAssessment'
      <3>1. task[e] \in {"computing", "waiting"} /\ stage' = stage
        BY <2>3 DEF Compute, Resume, TimeOut, CanTimeOut, Finish
      <3>2. stage # "decided"
        BY <3>1 DEF WorkflowInv, Inv, RouteInv, Expert
      <3> QED BY <3>1, <3>2 DEF HasAssessment
    <2> QED BY <2>1, <2>2, <2>3 DEF Assessing, Next
  <1>3. Typed' /\ Held'
    BY DEF WorkflowInv, Assessing, Typed, Held, world, channels
  <1> QED BY <1>1, <1>2, <1>3 DEF WorkflowInv

\* The steps that neither consult the router nor replace its assessment.
LEMMA RestingKeeps ==
    ASSUME WorkflowInv, UNCHANGED routerVars, Typed', Held'
    PROVE  WorkflowInv'
  BY RouterRests DEF WorkflowInv

LEMMA RunKeeps ==
    ASSUME WorkflowInv, Run
    PROVE  WorkflowInv'
  <1>1. Inv' /\ HasAssessment'
    BY RouterAfresh DEF Run
  <1>2. Typed'
    BY DEF WorkflowInv, Run, Typed, world, Running
  <1>3. Held'
    BY DEF WorkflowInv, Run, Held, world
  <1> QED BY <1>1, <1>2, <1>3 DEF WorkflowInv

LEMMA RebuildKeeps ==
    ASSUME WorkflowInv, Rebuild
    PROVE  WorkflowInv'
  <1>1. Inv' /\ HasAssessment'
    BY RouterAfresh DEF Rebuild
  <1>2. rounds' \in 0..MaxRounds
    BY RoundsAssumption, SMT DEF Rebuild, BlankNext
  <1>3. Typed'
    BY <1>2, Zenon DEF WorkflowInv, Rebuild, BlankNext, Typed
  <1>4. Held'
    BY DEF Rebuild, BlankNext, Held
  <1> QED BY <1>1, <1>3, <1>4 DEF WorkflowInv

LEMMA InvestigateKeeps ==
    ASSUME WorkflowInv, Investigate
    PROVE  WorkflowInv'
  <1>1. opinion' \in Opinion
    BY OpinionsAreOpinions DEF Investigate
  <1>2. Typed'
    BY <1>1 DEF WorkflowInv, Investigate, Typed, world, Running
  <1>3. Held'
    <2>1. stage' = "decided"
      BY DEF WorkflowInv, Investigate, Held, routerVars, vars
    <2>2. node' \in {"await_information", "finalize"} /\ ~recorded'
      BY DEF WorkflowInv, Investigate, Held
    <2>3. offline' => rounds' <= 1
      BY DEF WorkflowInv, Investigate, Held, world
    <2>4. ASSUME node' = "await_information"
          PROVE  /\ opinion' = "request_information" /\ rounds' < MaxRounds
                 /\ offline' => rounds' = 0
      <3>1. opinion' = "request_information" /\ MayAsk
        BY <2>4 DEF Investigate
      <3>2. offline => ~(rounds > 0)
        BY <3>1, OfflineAsksFirst DEF Investigate, Opinions
      <3>3. rounds \in Nat
        BY RoundsAssumption DEF WorkflowInv, Typed
      <3> QED BY <3>1, <3>2, <3>3 DEF Investigate, MayAsk, world
    <2> QED BY <2>1, <2>2, <2>3, <2>4 DEF Held
  <1> QED BY <1>2, <1>3, RestingKeeps DEF Investigate

LEMMA FinalizeKeeps ==
    ASSUME WorkflowInv, Finalize
    PROVE  WorkflowInv'
  <1>1. assessment \in Assessment /\ assessment' = assessment /\ stage' = stage
    <2>1. stage = "decided"
      BY DEF WorkflowInv, Held, Finalize
    <2>2. assessment # None
      BY <2>1, RouterReads, NoneIsNoAssessment DEF WorkflowInv, HasAssessment
    <2> QED BY <2>2 DEF WorkflowInv, Inv, TypeOK, Finalize, routerVars, vars
  <1>2. decision' \in CaseDecision
    BY <1>1, PolicyDecides DEF WorkflowInv, Typed, Finalize
  <1>3. Typed'
    BY <1>2 DEF WorkflowInv, Finalize, Typed, world, Running
  <1>4. Held'
    <2>1. decision' = ApplyPolicy(assessment', opinion')
      BY <1>1 DEF Finalize
    <2> QED BY <1>1, <2>1 DEF WorkflowInv, Finalize, Held, world
  <1> QED BY <1>3, <1>4, RestingKeeps DEF Finalize

LEMMA SupplyKeeps ==
    ASSUME WorkflowInv, Supply
    PROVE  WorkflowInv'
  <1>1. rounds' \in 0..MaxRounds /\ (offline => rounds' <= 1)
    BY RoundsAssumption DEF WorkflowInv, Typed, Held, Supply
  <1>2. Typed'
    BY <1>1 DEF WorkflowInv, Supply, Typed, world, Running
  <1>3. Held'
    BY <1>1 DEF WorkflowInv, Supply, Held, world, routerVars, vars
  <1> QED BY <1>2, <1>3, RestingKeeps DEF Supply

LEMMA RecordKeeps ==
    ASSUME WorkflowInv, Record
    PROVE  WorkflowInv'
  <1>1. /\ case' \in {"cleared", "awaiting_information", "pending_review"}
        /\ case' = "awaiting_information" <=> node' = "await_information"
        /\ node' = node /\ recorded' = TRUE
    BY DEF Record, Interpret
  <1>2. Typed'
    BY <1>1, Zenon DEF WorkflowInv, Record, Typed, world, channels
  <1>3. UNCHANGED << stage, assessment, opinion, rounds, decision, offline >>
    BY DEF Record, routerVars, vars, world, channels
  <1>4. Held'
    BY <1>1, <1>3 DEF WorkflowInv, Record, Returned, Held, ApplyPolicy, PolicyAction,
                      OpinionReasons, Raises, Recommended
  <1> QED BY <1>2, <1>4, RestingKeeps DEF Record

\* A step that leaves the workflow alone leaves its invariant alone.
LEMMA WorkflowRests ==
    ASSUME WorkflowInv, UNCHANGED workflowVars
    PROVE  WorkflowInv'
  <1>1. UNCHANGED << routerVars, world, node, channels, case, recorded >>
    BY DEF workflowVars
  <1>2. Typed'
    BY <1>1, Zenon DEF WorkflowInv, Typed, world, channels
  <1>3. Held'
    BY <1>1 DEF WorkflowInv, Held, world, channels, routerVars, vars, ApplyPolicy, PolicyAction,
                OpinionReasons, Raises, Recommended
  <1> QED BY <1>1, <1>2, <1>3, RestingKeeps

LEMMA RunStepKeeps ==
    ASSUME WorkflowInv, RunStep
    PROVE  WorkflowInv'
  <1>1. CASE Assessing(Next)
    BY <1>1, AssessingKeeps
  <1>2. CASE Assessed
    <2>1. Typed'
      BY <1>2 DEF WorkflowInv, Assessed, Typed, world, channels, Running
    <2>2. Held'
      BY <1>2 DEF WorkflowInv, Assessed, Held, world, channels, routerVars, vars
    <2> QED BY <1>2, <2>1, <2>2, RestingKeeps DEF Assessed
  <1>3. CASE Investigate
    BY <1>3, InvestigateKeeps
  <1>4. CASE Break
    <2>1. Typed'
      BY <1>4 DEF WorkflowInv, Break, Typed, world, channels, Running
    <2>2. Held'
      BY <1>4 DEF WorkflowInv, Break, Held, world, channels, routerVars, vars
    <2> QED BY <1>4, <2>1, <2>2, RestingKeeps DEF Break
  <1>5. CASE Finalize
    BY <1>5, FinalizeKeeps
  <1> QED BY <1>1, <1>2, <1>3, <1>4, <1>5 DEF RunStep

LEMMA CaseStepKeeps ==
    ASSUME WorkflowInv, CaseStep
    PROVE  WorkflowInv'
  <1>1. CASE LoseOpening
    <2>1. Typed'
      BY <1>1 DEF WorkflowInv, LoseOpening, Typed, world, channels, Running
    <2>2. Held'
      BY <1>1 DEF WorkflowInv, LoseOpening, Returned, Held, world, channels, routerVars, vars
    <2> QED BY <1>1, <2>1, <2>2, RestingKeeps DEF LoseOpening
  <1>2. CASE ResolveElsewhere
    <2>1. Typed'
      BY <1>2, Zenon DEF WorkflowInv, ResolveElsewhere, Typed, channels
    <2>2. UNCHANGED << stage, assessment, node, opinion, rounds, decision, offline, case, recorded >>
      BY <1>2 DEF ResolveElsewhere, channels, routerVars, vars
    <2>3. Held'
      BY <2>2 DEF WorkflowInv, Held, ApplyPolicy, PolicyAction, OpinionReasons, Raises, Recommended
    <2> QED BY <1>2, <2>1, <2>3, RestingKeeps DEF ResolveElsewhere
  <1> QED BY <1>1, <1>2, RunKeeps, RecordKeeps, SupplyKeeps, RebuildKeeps DEF CaseStep

LEMMA WorkflowKeeps == WorkflowInv /\ [WorkflowNext]_workflowVars => WorkflowInv'
  <1>1. WorkflowNext => RunStep \/ CaseStep
    BY DEF WorkflowNext, CaseStep
  <1> QED BY <1>1, RunStepKeeps, CaseStepKeeps, WorkflowRests

-------------------------------------------------------------------------------
(* What follows from it. *)

LEMMA OnlyRaises == WorkflowInv => OpinionOnlyRaises
  <1> SUFFICES ASSUME WorkflowInv, node = "finished" PROVE OpinionOnlyRaises
    BY DEF OpinionOnlyRaises
  <1>1. decision = ApplyPolicy([action |-> Action(results), reasons |-> Reasons(results),
                                score |-> PrimaryScore(results)], opinion)
    BY DEF WorkflowInv, Held, HasAssessment
  <1> QED BY <1>1, PolicyOnlyRaises DEF OpinionOnlyRaises

LEMMA CanBeAnswered == WorkflowInv => WaitingCanBeAnswered
  BY DEF WorkflowInv, Held, WaitingCanBeAnswered

LEMMA AsksOnce == WorkflowInv => OfflineAsksOnce
  BY DEF WorkflowInv, Held, OfflineAsksOnce

LEMMA WellTyped == WorkflowInv => WorkflowTypeOK
  BY Zenon DEF WorkflowInv, Inv, Typed, WorkflowTypeOK

\* The inductive invariant of the run of a case: what the thread holds at each
\* node, over pauses, lost runs, restarts and outcomes recorded elsewhere
\* (workflow/graph.py).
THEOREM WorkflowInvariant == WorkflowSpec => []WorkflowInv
  BY WorkflowBegins, WorkflowKeeps, PTL DEF WorkflowSpec

\* The state of a case's run is well typed for every cap on the rounds.
THEOREM WorkflowTypeCorrect == WorkflowSpec => []WorkflowTypeOK
  BY WellTyped, WorkflowInvariant, PTL

\* No investigator, honest or not, stale or fresh, lowers what the experts'
\* results say (workflow/graph.py _apply_policy).
THEOREM PolicyIsSovereign == WorkflowSpec => []OpinionOnlyRaises
  BY OnlyRaises, WorkflowInvariant, PTL

\* Whatever the cap on the rounds, a case that is on record as waiting for
\* information can take it (review/service.py _interpret).
THEOREM WaitingIsTrue == WorkflowSpec => []WaitingCanBeAnswered
  BY CanBeAnswered, WorkflowInvariant, PTL

\* Whatever the cap on the rounds, the deterministic investigator asks once
\* (investigation/investigator.py _conclude).
THEOREM OfflineIsSatisfied == WorkflowSpec => []OfflineAsksOnce
  BY AsksOnce, WorkflowInvariant, PTL

-------------------------------------------------------------------------------
(* Folds.  What a fold returns is a matter of induction over the set it folds. *)
(* The library's induction theorems take a predicate; that every nonempty set  *)
(* of numbers has a least element, which is what lies behind them, does not.   *)

\* Every set of numbers has a least one.
LEMMA LeastNumber ==
  ASSUME NEW N, N \subseteq Nat, N # {}
  PROVE  \E n \in N : \A k \in N : n <= k
<1>1. PICK n \in N : \A k \in N : << k, n >> \notin OpToRel(<, Nat)
  BY WFMin, NatLessThanWellFounded, Zenon
<1>2. \A k \in N : ~(k < n)
  BY <1>1, Zenon DEF OpToRel
<1>3. QED
  BY <1>2

\* What holds of {}, and of a set when it holds of it less any one element, holds
\* of every part of a finite set.
LEMMA SubsetInduction ==
  ASSUME NEW S, IsFiniteSet(S), NEW G,
         {} \in G,
         \A T \in SUBSET S : T # {} /\ (\A x \in T : T \ {x} \in G) => T \in G
  PROVE  \A T \in SUBSET S : T \in G
<1> DEFINE Bad == { T \in SUBSET S : T \notin G }
           Sizes == { Cardinality(T) : T \in Bad }
<1> SUFFICES ASSUME Bad # {} PROVE FALSE
  OBVIOUS
<1>1. \A T \in SUBSET S : IsFiniteSet(T) /\ Cardinality(T) \in Nat
  BY FS_Subset, FS_CardinalityType
<1>2. Sizes \subseteq Nat /\ Sizes # {}
  BY <1>1
<1>3. PICK n \in Sizes : \A k \in Sizes : n <= k
  BY <1>2, LeastNumber
<1>4. PICK T \in Bad : Cardinality(T) = n
  OBVIOUS
<1>5. SUFFICES ASSUME NEW x \in T PROVE T \ {x} \in G
  BY <1>4
<1>6. Cardinality(T \ {x}) = Cardinality(T) - 1
  BY <1>1, <1>5, FS_RemoveElement
<1>7. T \ {x} \in SUBSET S
  BY <1>4
<1>8. Cardinality(T \ {x}) \in Nat /\ Cardinality(T) \in Nat
  BY <1>1, <1>4, <1>7
<1>9. ~(n <= Cardinality(T \ {x}))
  BY <1>4, <1>6, <1>8
<1>10. T \ {x} \notin Bad
  <2>1. \A U \in Bad : Cardinality(U) \in Sizes
    OBVIOUS
  <2> HIDE DEF Bad, Sizes
  <2>2. QED
    BY <1>3, <1>9, <2>1
<1>11. QED
  BY <1>7, <1>10

Chosen(s) == CHOOSE x \in s : TRUE

\* g folds every subset of S with the steps h, from base.
IsFold(g, S, base, h) ==
    \A s \in SUBSET S :
        g[s] = IF s = {} THEN base ELSE h[<< Chosen(s), g[s \ {Chosen(s)}] >>]

\* There is such a g: one layer of subsets after the other has its values.
LEMMA FoldExists ==
  ASSUME NEW S, IsFiniteSet(S), NEW V, NEW base \in V, NEW h \in [S \X V -> V]
  PROVE  \E g \in [SUBSET S -> V] : IsFold(g, S, base, h)
<1> DEFINE Up(n) == { s \in SUBSET S : Cardinality(s) <= n }
           Solves(g, n) == /\ g \in [SUBSET S -> V]
                           /\ \A s \in Up(n) :
                                 g[s] = IF s = {} THEN base
                                        ELSE h[<< Chosen(s), g[s \ {Chosen(s)}] >>]
           Bad == { n \in Nat : \A g : ~Solves(g, n) }
<1>1. \A s \in SUBSET S : IsFiniteSet(s) /\ Cardinality(s) \in Nat
  BY FS_Subset, FS_CardinalityType
<1>2. \A s \in SUBSET S : s # {} =>
         /\ Chosen(s) \in s
         /\ s \ {Chosen(s)} \in SUBSET S
         /\ Cardinality(s \ {Chosen(s)}) = Cardinality(s) - 1
  <2>1. ASSUME NEW s \in SUBSET S, s # {} PROVE Chosen(s) \in s
    BY <2>1 DEF Chosen
  <2>2. QED
    BY <1>1, <2>1, FS_RemoveElement
<1>3. Bad = {}
  <2> SUFFICES ASSUME Bad # {} PROVE FALSE
    OBVIOUS
  <2>1. PICK n \in Bad : \A k \in Bad : n <= k
    BY LeastNumber
  <2>2. n # 0
    <3> DEFINE g == [s \in SUBSET S |-> base]
    <3>1. \A s \in Up(0) : s = {}
      BY <1>1, FS_EmptySet
    <3>2. Solves(g, 0)
      BY <3>1
    <3> HIDE DEF g, Solves
    <3>3. 0 \notin Bad
      BY <3>2
    <3>4. QED
      BY <2>1, <3>3
  <2>3. n - 1 \in Nat /\ n - 1 \notin Bad
    <3>1. n \in Nat
      BY <2>1
    <3>2. n - 1 \in Nat /\ ~(n <= n - 1)
      BY <2>2, <3>1
    <3>3. QED
      BY <2>1, <3>2, Zenon
  <2>4. PICK f : Solves(f, n - 1)
    BY <2>3
  <2> DEFINE g == [s \in SUBSET S |->
                     IF s = {} THEN base ELSE h[<< Chosen(s), f[s \ {Chosen(s)}] >>]]
  <2>5. g \in [SUBSET S -> V]
    BY <1>2, <2>4
  <2>6. \A t \in Up(n - 1) : g[t] = f[t]
    BY <2>4
  <2>7. ASSUME NEW s \in Up(n), s # {}
        PROVE  g[s] = h[<< Chosen(s), g[s \ {Chosen(s)}] >>]
    <3>1. s \ {Chosen(s)} \in Up(n - 1)
      BY <1>1, <1>2, <2>3, <2>7
    <3>2. g[s] = h[<< Chosen(s), f[s \ {Chosen(s)}] >>]
      BY <2>7
    <3>3. QED
      BY <2>6, <3>1, <3>2
  <2>8. g[{}] = base
    OBVIOUS
  <2> HIDE DEF g
  <2>9. Solves(g, n)
    BY <2>5, <2>7, <2>8
  <2>10. QED
    BY <2>9
<1>4. Cardinality(S) \in Nat
  BY FS_CardinalityType
<1>5. PICK g : Solves(g, Cardinality(S))
  BY <1>3, <1>4
<1>6. \A s \in SUBSET S : s \in Up(Cardinality(S))
  BY FS_Subset
<1>7. QED
  BY <1>5, <1>6 DEF IsFold

-------------------------------------------------------------------------------
(* The components of the evidence graph. *)

\* What adding the merchant m makes of the components found so far.
Joined(adjacent, m, components) ==
    LET touching == {c \in components : c \cap adjacent[m] # {}}
    IN  (components \ touching) \cup {{m} \cup UNION touching}

\* g has what Components finds on its way.
FindsComponents(g, adjacent, M) ==
    /\ Components(adjacent, M) = g[M]
    /\ g[{}] = {}
    /\ \A s \in SUBSET M : s # {} =>
         g[s] = Joined(adjacent, Chosen(s), g[s \ {Chosen(s)}])

\* Components is a fold that exists.
LEMMA ComponentsFold ==
  ASSUME NEW M, IsFiniteSet(M), NEW adjacent
  PROVE  \E g : FindsComponents(g, adjacent, M)
<1> DEFINE Solves(g) ==
             g = [s \in SUBSET M |->
                    IF s = {} THEN {}
                    ELSE Joined(adjacent, Chosen(s), g[s \ {Chosen(s)}])]
           V == SUBSET SUBSET M
           h == [p \in M \X V |-> Joined(adjacent, p[1], p[2])]
<1>1. h \in [M \X V -> V]
  <2>1. ASSUME NEW m \in M, NEW C \in V PROVE Joined(adjacent, m, C) \in V
    BY DEF Joined
  <2>2. QED
    BY <2>1
<1>2. PICK f \in [SUBSET M -> V] : IsFold(f, M, {}, h)
  BY <1>1, FoldExists
<1>3. ASSUME NEW s \in SUBSET M, s # {}
      PROVE  f[s] = Joined(adjacent, Chosen(s), f[s \ {Chosen(s)}])
  <2>1. Chosen(s) \in M /\ f[s \ {Chosen(s)}] \in V
    BY <1>2, <1>3 DEF Chosen
  <2>2. QED
    BY <1>2, <1>3, <2>1 DEF IsFold
<1>4. f[{}] = {}
  BY <1>2 DEF IsFold
<1>5. Solves(f)
  BY <1>2, <1>3, <1>4
<1> DEFINE g == CHOOSE e : Solves(e)
<1>6. Components(adjacent, M) = g[M]
  BY DEF Components, FoldSet, MapThenFoldSet, Joined, Chosen
<1>7. Solves(g)
  <2> HIDE DEF Solves
  <2>1. QED
    BY <1>5
<1> HIDE DEF g
<1>8. g[{}] = {}
  BY <1>7
<1>9. \A s \in SUBSET M : s # {} => g[s] = Joined(adjacent, Chosen(s), g[s \ {Chosen(s)}])
  BY <1>7
<1>10. QED
  BY <1>6, <1>8, <1>9 DEF FindsComponents

Symmetric(adjacent, M) ==
    \A m, n \in M : n \in adjacent[m] => m \in adjacent[n]

\* C divides the merchants T, and no two it separates are adjacent.
Divides(C, T, adjacent) ==
    /\ \A c \in C : c \subseteq T /\ c # {}
    /\ \A m \in T : \E c \in C : m \in c
    /\ \A c, d \in C : c # d => c \cap d = {}
    /\ \A c \in C : \A m \in c : \A n \in T : n \in adjacent[m] => n \in c

\* One more merchant: what he touches becomes one with him.
LEMMA JoinedDivides ==
  ASSUME NEW T, NEW m \in T, NEW adjacent, Symmetric(adjacent, T), NEW C,
         Divides(C, T \ {m}, adjacent)
  PROVE  Divides(Joined(adjacent, m, C), T, adjacent)
<1> DEFINE touching == {c \in C : c \cap adjacent[m] # {}}
           new == {m} \cup UNION touching
           D == (C \ touching) \cup {new}
<1>1. Joined(adjacent, m, C) = D
  BY DEF Joined
<1>2. \A c \in C : m \notin c /\ c \subseteq T /\ c # {}
  BY DEF Divides
<1>3. \A d \in D : d \subseteq T /\ d # {}
  BY <1>2
<1>4. \A n \in T : \E d \in D : n \in d
  <2>1. ASSUME NEW n \in T \ {m} PROVE \E d \in D : n \in d
    <3>1. PICK c \in C : n \in c
      BY DEF Divides
    <3>2. CASE c \in touching
      BY <3>1, <3>2
    <3>3. CASE c \notin touching
      BY <3>1, <3>3
    <3>4. QED
      BY <3>2, <3>3
  <2>2. m \in new /\ new \in D
    OBVIOUS
  <2> HIDE DEF new, D
  <2>3. QED
    BY <2>1, <2>2
<1>5. ASSUME NEW c \in C \ touching PROVE c \cap new = {}
  BY <1>2 DEF Divides
<1>6. \A c, d \in D : c # d => c \cap d = {}
  <2>1. \A c, d \in C : c # d => c \cap d = {}
    BY DEF Divides
  <2>2. \A c \in D : c \in C \ touching \/ c = new
    OBVIOUS
  <2> HIDE DEF new, D, touching
  <2>3. QED
    BY <1>5, <2>1, <2>2
<1>7. ASSUME NEW c \in C \ touching, NEW k \in c, NEW n \in T, n \in adjacent[k]
      PROVE  n \in c
  <2>1. k \notin adjacent[m]
    BY <1>7
  <2>2. n # m
    BY <1>2, <1>7, <2>1 DEF Symmetric
  <2>3. QED
    BY <1>7, <2>2 DEF Divides
<1>8. ASSUME NEW k \in new, NEW n \in T, n \in adjacent[k]
      PROVE  n \in new
  <2>1. CASE n = m
    BY <2>1
  <2>2. CASE n # m /\ k = m
    <3>1. PICK c \in C : n \in c
      BY <2>2 DEF Divides
    <3>2. c \in touching
      BY <1>8, <2>2, <3>1
    <3>3. QED
      BY <3>1, <3>2
  <2>3. CASE n # m /\ k # m
    <3>1. PICK c \in touching : k \in c
      BY <2>3
    <3>2. n \in c
      BY <1>8, <2>3, <3>1 DEF Divides
    <3>3. QED
      BY <3>1, <3>2
  <2>4. QED
    BY <2>1, <2>2, <2>3
<1>9. \A c \in D : \A k \in c : \A n \in T : n \in adjacent[k] => n \in c
  BY <1>7, <1>8
<1>10. QED
  BY <1>1, <1>3, <1>4, <1>6, <1>9 DEF Divides

\* Every merchant is in exactly one component, with all whom he is adjacent to.
LEMMA ComponentsDivide ==
  ASSUME NEW M, IsFiniteSet(M), NEW adjacent, Symmetric(adjacent, M)
  PROVE  Divides(Components(adjacent, M), M, adjacent)
<1>1. PICK g : FindsComponents(g, adjacent, M)
  BY ComponentsFold
<1> DEFINE G == { s \in SUBSET M : Divides(g[s], s, adjacent) }
<1>2. {} \in G
  BY <1>1 DEF Divides, FindsComponents
<1>3. ASSUME NEW T \in SUBSET M, T # {}, \A x \in T : T \ {x} \in G
      PROVE  T \in G
  <2>1. Chosen(T) \in T
    BY <1>3 DEF Chosen
  <2>2. Divides(g[T \ {Chosen(T)}], T \ {Chosen(T)}, adjacent)
    BY <1>3, <2>1
  <2>3. Symmetric(adjacent, T)
    BY DEF Symmetric
  <2>4. Divides(g[T], T, adjacent)
    BY <1>1, <1>3, <2>1, <2>2, <2>3, JoinedDivides DEF FindsComponents
  <2>5. QED
    BY <2>4
<1>4. \A T \in SUBSET M : T \in G
  <2> HIDE DEF G
  <2>1. QED
    BY <1>2, <1>3, SubsetInduction
<1>5. QED
  BY <1>1, <1>4 DEF FindsComponents

-------------------------------------------------------------------------------
(* The strength of a pair.  Doubt is what evidence leaves of certainty.       *)

Unit == 0..1000
AllDoubt == 1000

\* What a piece of evidence of weight w leaves of the doubt r.
Doubt(w, r) == (r * (1000 - w) + 500) \div 1000

\* A doubt r is no more than what a piece of weight w leaves of all doubt.
Settles(w, r) == r <= 1000 - w

LEMMA ProductGrows ==
  ASSUME NEW a \in Nat, NEW b \in Nat, NEW c \in Nat, a <= b
  PROVE  a * c <= b * c
<1>1. PICK d \in Nat : b = a + d
  <2>1. b - a \in Nat /\ b = a + (b - a)
    OBVIOUS
  <2>2. QED
    BY <2>1
<1>2. b * c = a * c + d * c /\ d * c >= 0 /\ a * c \in Nat /\ d * c \in Nat
  BY <1>1
<1>3. QED
  BY <1>2

\* More evidence never leaves more doubt.
LEMMA DoubtShrinks ==
  ASSUME NEW w \in Unit, NEW r \in Unit
  PROVE  /\ Doubt(w, r) \in Unit
         /\ Settles(w, Doubt(w, r))
         /\ \A u \in Unit : Settles(u, r) => Settles(u, Doubt(w, r))
<1> USE DEF Unit
<1>1. PICK v \in 0..1000 : v = 1000 - w
  OBVIOUS
<1>2. PICK p \in Nat : p = r * v /\ p <= 1000 * v /\ p <= 1000 * r
  <2>1. r * v <= 1000 * v
    BY ProductGrows
  <2>2. v * r <= 1000 * r
    BY ProductGrows
  <2>3. r * v = v * r /\ r * v \in Nat
    OBVIOUS
  <2>4. QED
    BY <2>1, <2>2, <2>3
<1>3. PICK d \in Nat : d = (p + 500) \div 1000 /\ d <= v /\ d <= r
  BY <1>2
<1>4. Doubt(w, r) = d
  BY <1>1, <1>2, <1>3 DEF Doubt
<1>5. d \in Unit /\ d <= 1000 - w
  BY <1>1, <1>3
<1>6. \A u \in Unit : r <= 1000 - u => d <= 1000 - u
  BY <1>3
<1>7. QED
  BY <1>4, <1>5, <1>6 DEF Settles

\* What settles doubt is strength.
LEMMA DoubtIsTheRest ==
  ASSUME NEW w \in Unit, NEW r \in Unit, Settles(w, r)
  PROVE  1000 - r \in Unit /\ w <= 1000 - r
BY DEF Unit, Settles

LEMMA AllSettles == AllDoubt \in Unit
BY DEF AllDoubt, Unit

\* g has what NoisyOr leaves of doubt on its way.
FindsStrength(g, K, evidence) ==
    /\ NoisyOr(K, evidence) = 1000 - g[K]
    /\ g[{}] = AllDoubt
    /\ \A s \in SUBSET K : s # {} =>
         g[s] = Doubt(evidence[Chosen(s)], g[s \ {Chosen(s)}])

\* NoisyOr is a fold that exists.
LEMMA StrengthFold ==
  ASSUME NEW K, IsFiniteSet(K), NEW evidence, \A k \in K : evidence[k] \in Unit
  PROVE  \E g : FindsStrength(g, K, evidence)
<1> DEFINE Solves(g) ==
             g = [s \in SUBSET K |->
                    IF s = {} THEN AllDoubt
                    ELSE Doubt(evidence[Chosen(s)], g[s \ {Chosen(s)}])]
           h == [p \in K \X Unit |-> Doubt(evidence[p[1]], p[2])]
<1>1. h \in [K \X Unit -> Unit]
  <2>1. ASSUME NEW k \in K, NEW r \in Unit PROVE Doubt(evidence[k], r) \in Unit
    BY DoubtShrinks
  <2>2. QED
    BY <2>1
<1>2. PICK f \in [SUBSET K -> Unit] : IsFold(f, K, AllDoubt, h)
  <2> HIDE DEF h
  <2>1. QED
    BY <1>1, AllSettles, FoldExists
<1>3. ASSUME NEW s \in SUBSET K, s # {}
      PROVE  f[s] = Doubt(evidence[Chosen(s)], f[s \ {Chosen(s)}])
  <2>1. Chosen(s) \in K /\ f[s \ {Chosen(s)}] \in Unit
    BY <1>2, <1>3 DEF Chosen
  <2>2. f[s] = h[<< Chosen(s), f[s \ {Chosen(s)}] >>]
    BY <1>2, <1>3 DEF IsFold
  <2>3. QED
    BY <2>1, <2>2
<1>4. f[{}] = AllDoubt
  BY <1>2 DEF IsFold
<1>5. Solves(f)
  BY <1>2, <1>3, <1>4
<1> DEFINE g == CHOOSE e : Solves(e)
<1>6. NoisyOr(K, evidence) = 1000 - g[K]
  BY DEF NoisyOr, FoldSet, MapThenFoldSet, Doubt, Chosen, AllDoubt
<1>7. Solves(g)
  <2> HIDE DEF Solves
  <2>1. QED
    BY <1>5
<1> HIDE DEF g
<1>8. g[{}] = AllDoubt
  BY <1>7
<1>9. \A s \in SUBSET K : s # {} => g[s] = Doubt(evidence[Chosen(s)], g[s \ {Chosen(s)}])
  BY <1>7
<1>10. QED
  BY <1>6, <1>8, <1>9 DEF FindsStrength

\* A pair is at least as strong as the best of what it shares.
LEMMA NoisyOrIsAtLeast ==
  ASSUME NEW K, IsFiniteSet(K), NEW evidence, \A k \in K : evidence[k] \in Unit
  PROVE  \A k \in K : NoisyOr(K, evidence) \in Unit /\ evidence[k] <= NoisyOr(K, evidence)
<1>1. PICK g : FindsStrength(g, K, evidence)
  BY StrengthFold
<1> DEFINE G == { s \in SUBSET K : /\ g[s] \in Unit
                                   /\ \A k \in s : Settles(evidence[k], g[s]) }
<1>2. {} \in G
  BY <1>1, AllSettles DEF FindsStrength
<1>3. ASSUME NEW T \in SUBSET K, T # {}, \A x \in T : T \ {x} \in G
      PROVE  T \in G
  <2>1. PICK x \in T : x = Chosen(T)
    BY <1>3 DEF Chosen
  <2>2. T \ {x} \in G
    BY <1>3
  <2>3. PICK r \in Unit : r = g[T \ {x}] /\ \A k \in T \ {x} : Settles(evidence[k], r)
    BY <2>2
  <2>4. g[T] = Doubt(evidence[x], r)
    BY <1>1, <1>3, <2>1, <2>3 DEF FindsStrength
  <2>5. evidence[x] \in Unit
    OBVIOUS
  <2>6. g[T] \in Unit /\ Settles(evidence[x], g[T])
    BY <2>4, <2>5, DoubtShrinks
  <2>7. ASSUME NEW k \in T \ {x} PROVE Settles(evidence[k], g[T])
    <3>1. evidence[k] \in Unit
      OBVIOUS
    <3>2. QED
      BY <2>3, <2>4, <2>5, <3>1, DoubtShrinks
  <2>8. QED
    BY <2>6, <2>7
<1>4. \A T \in SUBSET K : T \in G
  <2> HIDE DEF G
  <2>1. QED
    BY <1>2, <1>3, SubsetInduction
<1>5. g[K] \in Unit /\ \A k \in K : Settles(evidence[k], g[K])
  BY <1>4
<1>6. NoisyOr(K, evidence) = 1000 - g[K]
  BY <1>1 DEF FindsStrength
<1>7. QED
  BY <1>5, <1>6, DoubtIsTheRest

\* A square root to a thousandth exists.
LEMMA RootExists ==
  ASSUME NEW severity \in Nat, NEW d \in Nat, d >= 5
  PROVE  \E w \in 0..severity : /\ w * w * d <= 5 * severity * severity
                                /\ (w + 1) * (w + 1) * d > 5 * severity * severity
<1> DEFINE bound == 5 * severity * severity
           Above == { n \in Nat : (n + 1) * (n + 1) * d > bound }
<1>1. severity \in Above
  <2>1. PICK a \in Nat : a = (severity + 1) * (severity + 1)
    OBVIOUS
  <2>2. a = severity * severity + 2 * severity + 1 /\ severity * severity \in Nat
    BY <2>1
  <2>3. bound = 5 * (severity * severity)
    OBVIOUS
  <2>4. 5 * a <= d * a
    BY <2>1, ProductGrows
  <2>5. d * a = a * d
    BY <2>1
  <2>6. a * d > bound
    BY <2>1, <2>2, <2>3, <2>4, <2>5
  <2>7. QED
    BY <2>1, <2>6
<1>2. PICK w \in Above : \A k \in Above : w <= k
  <2>1. Above \subseteq Nat
    OBVIOUS
  <2> HIDE DEF Above
  <2>2. QED
    BY <1>1, <2>1, LeastNumber
<1>3. w \in 0..severity
  BY <1>1, <1>2
<1>4. w * w * d <= bound
  <2>1. CASE w = 0
    <3>1. severity * severity \in Nat /\ w * w * d = 0
      BY <2>1
    <3>2. QED
      BY <3>1
  <2>2. CASE w # 0
    <3>1. w - 1 \in Nat /\ ~(w <= w - 1)
      BY <1>3, <2>2
    <3>2. w - 1 \notin Above
      BY <1>2, <3>1
    <3>3. ~((w - 1 + 1) * (w - 1 + 1) * d > bound)
      BY <3>1, <3>2
    <3>4. w - 1 + 1 = w
      BY <1>3
    <3>5. w * w * d \in Nat /\ bound \in Nat
      BY <1>3
    <3>6. QED
      BY <3>3, <3>4, <3>5
  <2>3. QED
    BY <2>1, <2>2
<1>5. QED
  BY <1>2, <1>3, <1>4

\* OverRoot is that root.
LEMMA OverRootIs ==
  ASSUME NEW severity \in Nat, NEW d \in Nat, d >= 5
  PROVE  /\ OverRoot(severity, d) \in 0..severity
         /\ (OverRoot(severity, d) + 1) * (OverRoot(severity, d) + 1) * d > 5 * severity * severity
<1>1. \E w \in 0..severity : /\ w * w * d <= 5 * severity * severity
                             /\ (w + 1) * (w + 1) * d > 5 * severity * severity
  BY RootExists
<1> DEFINE P(w) == /\ w * w * d <= 5 * severity * severity
                   /\ (w + 1) * (w + 1) * d > 5 * severity * severity
           o == CHOOSE w \in 0..severity : P(w)
<1>2. OverRoot(severity, d) = o
  BY DEF OverRoot
<1>3. o \in 0..severity /\ P(o)
  <2>1. \E w \in 0..severity : P(w)
    BY <1>1
  <2> HIDE DEF P
  <2>2. QED
    BY <2>1
<1>4. QED
  BY <1>2, <1>3

\* A settlement account that up to 28 share weighs at least 0.353.
LEMMA AccountWeighs ==
  ASSUME NEW n \in 2..28
  PROVE  AdjustedWeight("bank_account", n) \in 353..1000
<1>1. Thousandths("bank_account") = 880 /\ IsStrong("bank_account")
  BY DEF Thousandths, IsStrong, AttributeSeverity
<1>2. CASE n <= 2
  BY <1>1, <1>2 DEF AdjustedWeight
<1>3. CASE n > 2
  <2>1. PICK d \in 5..31 : d = 5 + (n - 2)
    BY <1>3
  <2>2. PICK w \in 0..880 : /\ w = OverRoot(880, d)
                            /\ (w + 1) * (w + 1) * d > 5 * 880 * 880
    <3>1. PICK s \in Nat : s = 880
      OBVIOUS
    <3>2. d \in Nat /\ d >= 5
      OBVIOUS
    <3>3. /\ OverRoot(s, d) \in 0..s
          /\ (OverRoot(s, d) + 1) * (OverRoot(s, d) + 1) * d > 5 * s * s
      BY <3>2, OverRootIs, ZenonT(30)
    <3>4. QED
      BY <3>1, <3>3
  <2>3. w >= 353
    <3> SUFFICES ASSUME w + 1 <= 353 PROVE FALSE
      OBVIOUS
    <3>1. PICK v \in 0..353 : v = w + 1
      OBVIOUS
    <3>2. v * v <= 353 * v /\ v * v \in Nat
      BY ProductGrows
    <3>3. v * v <= 124609
      BY <3>2
    <3>4. (v * v) * d <= 124609 * d
      BY <3>2, <3>3, ProductGrows
    <3>5. v * v * d <= 3862879
      BY <3>4
    <3>6. QED
      BY <2>2, <3>1, <3>5
  <2>4. AdjustedWeight("bank_account", n) = w
    BY <1>1, <1>3, <2>1, <2>2 DEF AdjustedWeight
  <2>5. QED
    BY <2>3, <2>4
<1>4. QED
  BY <1>2, <1>3

\* Every attribute weighs something between 0 and 1.
LEMMA WeightsAreWeights ==
  ASSUME NEW t \in Attribute, NEW n \in Nat
  PROVE  AdjustedWeight(t, n) \in 0..1000
<1>1. PICK s \in 0..1000 : s = Thousandths(t)
  BY DEF Thousandths, Attribute, AttributeSeverity
<1>2. CASE n <= 2
  BY <1>1, <1>2 DEF AdjustedWeight
<1>3. CASE n > 2
  <2>1. PICK d \in Nat : d >= 5 /\ AdjustedWeight(t, n) = OverRoot(s, d)
    <3>1. 5 + (n - 2) \in Nat /\ 5 + (n - 2) >= 5 /\ 5 * (n - 1) \in Nat /\ 5 * (n - 1) >= 5
      BY <1>3
    <3>2. QED
      BY <1>1, <1>3, <3>1 DEF AdjustedWeight
  <2>2. s \in Nat
    OBVIOUS
  <2>3. OverRoot(s, d) \in 0..s
    BY <2>1, <2>2, OverRootIs, Zenon
  <2>4. QED
    BY <2>1, <2>3
<1>4. QED
  BY <1>2, <1>3

-------------------------------------------------------------------------------
(* The graph. *)

\* Finitely many applications, with keys of the attributes there are.
Legible(apps) ==
    /\ IsFiniteSet(DOMAIN apps)
    /\ \A m \in DOMAIN apps : DOMAIN apps[m].keys \subseteq Attribute

\* There are seven attributes, and so no more keys of one application.
LEMMA AttributesAreFew == IsFiniteSet(Attribute)
<1>1. Attribute = (((((({} \cup {"bank_account"}) \cup {"device_fingerprint"}) \cup {"address_hash"})
                      \cup {"owner_pan"}) \cup {"ip_address"}) \cup {"phone_series"}) \cup {"email_domain"}
  BY DEF Attribute, AttributeSeverity
<1>2. QED
  BY <1>1, FS_EmptySet, FS_AddElement

LEMMA KeysAreFew ==
  ASSUME NEW apps, Legible(apps), NEW m \in DOMAIN apps
  PROVE  IsFiniteSet(KeyOf(apps[m])) /\ \A k \in KeyOf(apps[m]) : k[1] \in Attribute
<1> DEFINE D == DOMAIN apps[m].keys
           Pair(t) == << t, apps[m].keys[t] >>
<1>1. IsFiniteSet(D)
  BY AttributesAreFew, FS_Subset DEF Legible
<1>2. IsFiniteSet({Pair(t) : t \in D})
  <2> DEFINE f == [t \in D |-> Pair(t)]
  <2>1. f \in Surjection(D, {Pair(t) : t \in D})
    BY DEF Surjection
  <2>2. QED
    BY <1>1, <2>1, FS_Surjection
<1>3. QED
  BY <1>2 DEF KeyOf, Legible

\* Whatever is evidence weighs something between 0 and 1.
LEMMA EvidenceIsWeighed ==
  ASSUME NEW apps, Legible(apps)
  PROVE  \A k \in DOMAIN Evidence(apps) : Evidence(apps)[k] \in Unit
<1> SUFFICES ASSUME NEW k \in DOMAIN Evidence(apps) PROVE Evidence(apps)[k] \in Unit
  OBVIOUS
<1>1. /\ k \in SharedKeys(apps)
      /\ Evidence(apps)[k] = AdjustedWeight(k[1], Cardinality(Sharers(apps, k)))
  BY DEF Evidence
<1>2. k[1] \in Attribute /\ Cardinality(Sharers(apps, k)) \in Nat
  BY <1>1, KeysAreFew, GraphAssumption DEF SharedKeys
<1>3. QED
  BY <1>1, <1>2, WeightsAreWeights DEF Unit

\* Both ends of a pair see it.
LEMMA AdjacencyIsSymmetric ==
  ASSUME NEW apps
  PROVE  Symmetric(Adjacency(apps), DOMAIN apps)
<1>1. ASSUME NEW e, NEW m, NEW n PROVE Connected(apps, e, m, n) = Connected(apps, e, n, m)
  <2>1. KeyOf(apps[m]) \cap KeyOf(apps[n]) \cap DOMAIN e
          = KeyOf(apps[n]) \cap KeyOf(apps[m]) \cap DOMAIN e
    OBVIOUS
  <2>2. QED
    BY <2>1 DEF Connected
<1>2. ASSUME NEW m \in DOMAIN apps, NEW n \in DOMAIN apps, n \in Adjacency(apps)[m]
      PROVE  m \in Adjacency(apps)[n]
  BY <1>1, <1>2 DEF Adjacency
<1>3. QED
  BY <1>2 DEF Symmetric

\* Every merchant is in exactly one candidate, with all whom the graph connects
\* him to.
LEMMA CandidatesDivide ==
  ASSUME NEW apps, Legible(apps)
  PROVE  Divides(Candidates(apps), DOMAIN apps, Adjacency(apps))
BY AdjacencyIsSymmetric, ComponentsDivide DEF Candidates, Legible

\* The thresholds are no higher than what an account of 28 users reaches.
AccountsCount ==
    /\ MinimumEvidenceWeight <= 353
    /\ MinimumPairStrength <= 353
    /\ MaximumAttributeFrequency >= 28

\* An account that not more than 28 share is evidence, and heavy,
LEMMA AccountIsEvidence ==
  ASSUME AccountsCount, NEW apps, Legible(apps), NEW v,
         Cardinality(Sharers(apps, << "bank_account", v >>)) \in 2..28
  PROVE  /\ << "bank_account", v >> \in DOMAIN Evidence(apps)
         /\ Evidence(apps)[<< "bank_account", v >>] \in 353..1000
<1> DEFINE k == << "bank_account", v >>
           w == AdjustedWeight("bank_account", Cardinality(Sharers(apps, k)))
<1>1. w \in 353..1000
  BY AccountWeighs
<1>2. Sharers(apps, k) # {}
  BY FS_EmptySet
<1>3. \E m \in DOMAIN apps : k \in KeyOf(apps[m])
  BY <1>2 DEF Sharers
<1>4. k \in SharedKeys(apps)
  BY <1>3, GraphAssumption DEF SharedKeys, AccountsCount
<1>5. w >= MinimumEvidenceWeight
  BY <1>1, GraphAssumption DEF AccountsCount
<1>6. k[1] = "bank_account"
  OBVIOUS
<1> HIDE DEF k
<1>7. k \in DOMAIN Evidence(apps) /\ Evidence(apps)[k] = w
  BY <1>4, <1>5, <1>6 DEF Evidence
<1>8. QED
  BY <1>1, <1>7 DEF k

\* so it connects any two of them.
LEMMA AccountConnects ==
  ASSUME AccountsCount, NEW apps, Legible(apps), NEW v,
         Cardinality(Sharers(apps, << "bank_account", v >>)) \in 2..28,
         NEW m \in Sharers(apps, << "bank_account", v >>),
         NEW n \in Sharers(apps, << "bank_account", v >>), m # n
  PROVE  n \in Adjacency(apps)[m]
<1> DEFINE k == << "bank_account", v >>
           e == Evidence(apps)
           between == KeyOf(apps[m]) \cap KeyOf(apps[n]) \cap DOMAIN e
<1>1. m \in DOMAIN apps /\ n \in DOMAIN apps /\ k \in KeyOf(apps[m]) /\ k \in KeyOf(apps[n])
  BY DEF Sharers
<1>2. k \in between /\ e[k] \in 353..1000
  BY <1>1, AccountIsEvidence
<1>3. IsFiniteSet(between) /\ \A j \in between : e[j] \in Unit
  <2>1. IsFiniteSet(KeyOf(apps[m]))
    BY <1>1, KeysAreFew
  <2>2. between \in SUBSET KeyOf(apps[m])
    OBVIOUS
  <2>3. IsFiniteSet(between)
    BY <2>1, <2>2, FS_Subset
  <2>4. QED
    BY <2>3, EvidenceIsWeighed
<1> HIDE DEF k, e, between
<1>4. NoisyOr(between, e) \in Unit /\ e[k] <= NoisyOr(between, e)
  BY <1>2, <1>3, NoisyOrIsAtLeast
<1>5. NoisyOr(between, e) >= MinimumPairStrength
  <2>1. PICK w \in 353..1000 : w = e[k]
    BY <1>2
  <2>2. PICK s \in 0..1000 : s = NoisyOr(between, e)
    BY <1>4 DEF Unit
  <2>3. w <= s
    BY <1>4, <2>1, <2>2
  <2>4. QED
    BY <2>2, <2>3, GraphAssumption DEF AccountsCount
<1>6. Connected(apps, e, m, n)
  BY <1>2, <1>5 DEF Connected, between
<1>7. QED
  BY <1>1, <1>6 DEF Adjacency, e

\* Whoever shares an account that not more than 28 share is in one candidate
\* with all of them.
LEMMA AccountIsTogether ==
  ASSUME AccountsCount, NEW apps, Legible(apps), NEW v,
         Cardinality(Sharers(apps, << "bank_account", v >>)) \in 2..28,
         NEW c \in Candidates(apps), NEW m \in c, m \in Sharers(apps, << "bank_account", v >>)
  PROVE  Sharers(apps, << "bank_account", v >>) \subseteq c
<1> SUFFICES ASSUME NEW n \in Sharers(apps, << "bank_account", v >>), n # m PROVE n \in c
  OBVIOUS
<1>1. n \in Adjacency(apps)[m]
  BY AccountConnects
<1>2. n \in DOMAIN apps
  BY DEF Sharers
<1>3. QED
  BY <1>1, <1>2, CandidatesDivide DEF Divides

-------------------------------------------------------------------------------
(* The live check, which takes the same steps with candidates of its own. *)

\* Nothing of a check is ever recorded, and what it still has to run can be run.
CheckHeld ==
    /\ checking # {} => submission # None
    /\ submission # None => ~recorded
    /\ \A c \in todo : c.group \in Group

LiveInv == WorkflowInv /\ CheckHeld

\* What the evidence of a candidate amounts to is a group.
LEMMA RelevantAreGroups ==
    ASSUME NEW s
    PROVE  \A c \in Relevant(s) : c.group \in Group
  <1>1. ASSUME NEW apps, NEW members PROVE GroupOf(apps, members) \in Group
    <2>1. ASSUME NEW p \in BOOLEAN, NEW q \in BOOLEAN
          PROVE  [strong |-> p, spread |-> q] \in Group
      BY Zenon DEF Group
    <2> QED BY <2>1, Zenon DEF GroupOf
  <1> HIDE DEF Group
  <1> QED BY <1>1 DEF Relevant

LEMMA BeginKeeps ==
    ASSUME LiveInv, Begin
    PROVE  LiveInv'
  <1>1. Inv' /\ HasAssessment'
    BY RouterAfresh DEF Begin
  <1>2. rounds' \in 0..MaxRounds
    BY RoundsAssumption, SMT DEF Begin, BlankNext
  <1>3. group' \in Group /\ CheckHeld'
    BY DEF LiveInv, CheckHeld, Begin
  <1>4. Typed'
    BY <1>2, <1>3, Zenon DEF LiveInv, WorkflowInv, Typed, Begin, BlankNext, Running
  <1>5. Held'
    BY DEF LiveInv, CheckHeld, Begin, BlankNext, Held
  <1> QED BY <1>1, <1>3, <1>4, <1>5 DEF LiveInv, WorkflowInv

LEMMA CollectKeeps ==
    ASSUME LiveInv, Collect
    PROVE  LiveInv'
  <1>1. CheckHeld'
    BY DEF LiveInv, CheckHeld, Collect
  <1>2. Typed'
    BY Zenon DEF LiveInv, WorkflowInv, Typed, Collect, world, channels
  <1>3. Held'
    BY DEF LiveInv, WorkflowInv, CheckHeld, Collect, Held, world, channels
  <1>4. WorkflowInv'
    BY <1>2, <1>3, RestingKeeps DEF LiveInv, Collect
  <1> QED BY <1>1, <1>4 DEF LiveInv

LEMMA FailCheckKeeps ==
    ASSUME LiveInv, FailCheck
    PROVE  LiveInv'
  <1>1. Inv' /\ HasAssessment'
    BY RouterAfresh DEF FailCheck
  <1>2. rounds' \in 0..MaxRounds
    BY RoundsAssumption, SMT DEF FailCheck, BlankNext
  <1>3. Typed'
    BY <1>2, Zenon DEF LiveInv, WorkflowInv, Typed, FailCheck, BlankNext, world
  <1>4. Held' /\ CheckHeld'
    BY DEF LiveInv, CheckHeld, FailCheck, BlankNext, Held
  <1> QED BY <1>1, <1>3, <1>4 DEF LiveInv, WorkflowInv

\* Every step of the module keeps the invariant of both of its subjects.
LEMMA LiveKeeps == LiveInv /\ [LiveNext]_allVars => LiveInv'
  <1> SUFFICES ASSUME LiveInv, [LiveNext]_allVars PROVE LiveInv'
    OBVIOUS
  <1>1. CASE RunStep /\ UNCHANGED liveVars
    <2>1. UNCHANGED recorded
      BY <1>1 DEF RunStep, Assessing, Assessed, Investigate, Break, Finalize
    <2> QED BY <1>1, <2>1, RunStepKeeps DEF LiveInv, CheckHeld, liveVars
  <1>2. CASE submission = None /\ CaseStep /\ UNCHANGED liveVars
    BY <1>2, CaseStepKeeps DEF LiveInv, CheckHeld, liveVars
  <1>3. CASE Submit
    <2>1. WorkflowInv'
      BY <1>3, WorkflowRests DEF LiveInv, Submit
    <2>2. ~recorded'
      BY <1>3 DEF LiveInv, WorkflowInv, Held, Submit, workflowVars
    <2>3. CheckHeld'
      BY <1>3, <2>2, RelevantAreGroups DEF LiveInv, CheckHeld, Submit
    <2> QED BY <2>1, <2>3 DEF LiveInv
  <1>4. CASE UNCHANGED allVars
    <2>1. WorkflowInv'
      BY <1>4, WorkflowRests DEF LiveInv, allVars
    <2> QED BY <1>4, <2>1 DEF LiveInv, CheckHeld, allVars, liveVars, workflowVars
  <1> QED BY <1>1, <1>2, <1>3, <1>4, BeginKeeps, CollectKeeps, FailCheckKeeps DEF LiveNext

\* No case and no live check has a state the run of a case could not hold, however
\* many candidates run one after the other (demo/live_check.py run_live_check).
THEOREM LiveInvariant == LiveSpec => []LiveInv
  <1>1. LiveInit => LiveInv
    BY WorkflowBegins DEF LiveInit, LiveInv, CheckHeld, WorkflowInit
  <1> QED BY <1>1, LiveKeeps, PTL DEF LiveSpec

\* The candidates of a live check are decided by the policy that decides cases:
\* no opinion lowers it, and what pauses can be answered (demo/live_check.py).
THEOREM LivePolicyIsSovereign ==
    LiveSpec => [](OpinionOnlyRaises /\ WaitingCanBeAnswered /\ OfflineAsksOnce)
  <1>1. LiveInv => OpinionOnlyRaises /\ WaitingCanBeAnswered /\ OfflineAsksOnce
    BY OnlyRaises, CanBeAnswered, AsksOnce DEF LiveInv
  <1> QED BY <1>1, LiveInvariant, PTL

\* So is the router's part of it, for every score a graph expert may give
\* (agent/router.py _apply_policy).
THEOREM LiveRouterIsSafe ==
    LiveSpec => [](GraphRiskIsFloor /\ ConsultedIsReviewed /\ AssessmentIsSafe)
  <1>1. LiveInv => GraphRiskIsFloor /\ ConsultedIsReviewed /\ AssessmentIsSafe
    BY FloorFollows, ConsultedFollows, SafetyFollows DEF LiveInv, WorkflowInv
  <1> QED BY <1>1, LiveInvariant, PTL

-------------------------------------------------------------------------------
(* What a live check answers. *)

\* The candidates a check has to answer for.
Asked(s) == {c \in Candidates(Combined(s)) : c \cap DOMAIN Submission[s] # {}}

\* Each of them is in one place: still to run, running, or answered, once.
Accounted ==
    /\ submission \in DOMAIN Submission \cup {None}
    /\ submission = None => todo = {} /\ checking = {} /\ answers = {}
    /\ submission # None =>
         /\ todo \subseteq Relevant(submission)
         /\ checking \in Asked(submission) \cup {{}}
         /\ \A a \in answers : /\ a.members \in Asked(submission)
                               /\ a.finding = Finding(a.members)
                               /\ a.awaits \in BOOLEAN
         /\ \A d \in Asked(submission) : \/ \E c \in todo : c.members = d
                                         \/ checking = d
                                         \/ \E a \in answers : a.members = d
         /\ \A c \in todo : c.members # checking
         /\ \A a \in answers : a.members # checking
         /\ \A c \in todo, a \in answers : c.members # a.members
         /\ \A a, b \in answers : a.members = b.members => a = b

\* The population a check looks at has finitely many merchants with an account.
LEMMA CombinedIsLegible ==
    ASSUME NEW s \in DOMAIN Submission
    PROVE  /\ Legible(Combined(s))
           /\ DOMAIN Combined(s) = DOMAIN Reference \cup DOMAIN Submission[s]
           /\ \A m \in DOMAIN Submission[s] :
                 "bank_account" \in DOMAIN Combined(s)[m].keys
  <1>1. DOMAIN Combined(s) = DOMAIN Reference \cup DOMAIN Submission[s]
    BY DEF Combined
  <1>2. IsFiniteSet(DOMAIN Reference) /\ IsFiniteSet(DOMAIN Submission[s])
    BY PopulationAssumption
  <1>3. IsFiniteSet(DOMAIN Combined(s))
    BY <1>1, <1>2, FS_Union
  <1>4. ASSUME NEW m \in DOMAIN Combined(s)
        PROVE  /\ DOMAIN Combined(s)[m].keys \subseteq Attribute
               /\ "bank_account" \in DOMAIN Combined(s)[m].keys
    <2>1. CASE m \in DOMAIN Submission[s]
      <3>1. Combined(s)[m] = Submission[s][m]
        BY <1>1, <2>1 DEF Combined
      <3> QED BY <2>1, <3>1, PopulationAssumption
    <2>2. CASE m \notin DOMAIN Submission[s]
      <3>1. Combined(s)[m] = Reference[m] /\ m \in DOMAIN Reference
        BY <1>1, <1>4, <2>2 DEF Combined
      <3> QED BY <3>1, PopulationAssumption
    <2> QED BY <2>1, <2>2
  <1> QED BY <1>1, <1>3, <1>4 DEF Legible

\* Whoever is submitted is in exactly one of them.
LEMMA AskedAreGroups ==
    ASSUME NEW s \in DOMAIN Submission
    PROVE  /\ \A c \in Asked(s) : /\ c \subseteq DOMAIN Combined(s)
                                  /\ c \subseteq Merchants
                                  /\ c # {} /\ IsFiniteSet(c)
           /\ \A c, d \in Asked(s) : c # d => c \cap d = {}
           /\ \A m \in DOMAIN Submission[s] : \E c \in Asked(s) : m \in c
  <1>1. /\ Legible(Combined(s))
        /\ DOMAIN Combined(s) = DOMAIN Reference \cup DOMAIN Submission[s]
    BY CombinedIsLegible
  <1>2. Divides(Candidates(Combined(s)), DOMAIN Combined(s), Adjacency(Combined(s)))
    BY <1>1, CandidatesDivide
  <1>3. DOMAIN Combined(s) \subseteq Merchants
    BY <1>1 DEF Merchants
  <1>4. \A c \in Asked(s) : c \subseteq DOMAIN Combined(s) /\ c # {}
    BY <1>2 DEF Divides, Asked
  <1>5. \A c \in Asked(s) : IsFiniteSet(c)
    BY <1>1, <1>4, FS_Subset DEF Legible
  <1>6. \A m \in DOMAIN Submission[s] : \E c \in Asked(s) : m \in c
    BY <1>1, <1>2 DEF Divides, Asked
  <1>7. \A c, d \in Asked(s) : c # d => c \cap d = {}
    BY <1>2 DEF Divides, Asked
  <1> QED BY <1>3, <1>4, <1>5, <1>6, <1>7

\* The candidates to run are those, each once.
LEMMA RelevantIsAsked ==
    ASSUME NEW s
    PROVE  /\ \A c \in Relevant(s) : c.members \in Asked(s) /\ c.group = GroupOf(Combined(s), c.members)
           /\ \A d \in Asked(s) : \E c \in Relevant(s) : c.members = d
           /\ \A c, d \in Relevant(s) : c.members = d.members => c = d
  <1> DEFINE Item(c) == [members |-> c, group |-> GroupOf(Combined(s), c)]
  <1>1. \A c : Item(c).members = c /\ Item(c).group = GroupOf(Combined(s), c)
    OBVIOUS
  <1>2. Relevant(s) = {Item(c) : c \in Asked(s)}
    BY DEF Relevant, Asked
  <1> HIDE DEF Item
  <1> QED BY <1>1, <1>2

\* A check begins with all of them to run, and moves one at a time.
LEMMA SubmitAccounts ==
    ASSUME Accounted, Submit
    PROVE  Accounted'
  <1>1. PICK s \in DOMAIN Submission : submission' = s /\ todo' = Relevant(s)
    BY DEF Submit
  <1>2. checking' = {} /\ answers' = {} /\ s # None
    BY SubmissionAssumption DEF Submit, Accounted
  <1>3. \A c \in Asked(s) : c # {}
    BY DEF Asked
  <1>4. \A c \in todo' : c.members # checking'
    BY <1>1, <1>2, <1>3, RelevantIsAsked
  <1>5. \A d \in Asked(s) : \E c \in todo' : c.members = d
    BY <1>1, RelevantIsAsked
  <1> QED BY <1>1, <1>2, <1>4, <1>5 DEF Accounted

LEMMA BeginAccounts ==
    ASSUME Accounted, Begin
    PROVE  Accounted'
  <1>1. PICK c \in todo : checking' = c.members /\ todo' = todo \ {c}
    BY DEF Begin
  <1>2. submission # None /\ checking = {} /\ UNCHANGED << submission, answers >>
    BY DEF Begin
  <1>3. \A d \in todo' : d.members # checking'
    BY <1>1, <1>2, RelevantIsAsked DEF Accounted
  <1>4. checking' \in Asked(submission)
    BY <1>1, <1>2, RelevantIsAsked DEF Accounted
  <1>5. \A d \in Asked(submission) : d # {}
    BY DEF Asked
  <1>6. \A d \in Asked(submission) : \/ \E e \in todo' : e.members = d
                                     \/ checking' = d
                                     \/ \E a \in answers : a.members = d
    BY <1>1, <1>2, <1>5 DEF Accounted
  <1> QED BY <1>1, <1>2, <1>3, <1>4, <1>6 DEF Accounted

LEMMA CollectAccounts ==
    ASSUME Accounted, Collect
    PROVE  Accounted'
  <1> DEFINE new == [members |-> checking, finding |-> Finding(checking),
                     action |-> assessment.action, awaits |-> node = "await_information"]
  <1>1. /\ answers' = answers \cup {new}
        /\ checking # {} /\ checking' = {}
        /\ UNCHANGED << submission, todo >>
    BY DEF Collect
  <1>2. new.members = checking /\ new.finding = Finding(checking) /\ new.awaits \in BOOLEAN
    OBVIOUS
  <1> HIDE DEF new
  <1>3. submission # None /\ submission \in DOMAIN Submission /\ checking \in Asked(submission)
    BY <1>1 DEF Accounted
  <1>4. \A d \in Asked(submission) : d # {}
    BY DEF Asked
  <1>5. \A a \in answers' : /\ a.members \in Asked(submission)
                            /\ a.finding = Finding(a.members)
                            /\ a.awaits \in BOOLEAN
    BY <1>1, <1>2, <1>3 DEF Accounted
  <1>6. \A d \in Asked(submission) : \/ \E c \in todo : c.members = d
                                     \/ \E a \in answers' : a.members = d
    BY <1>1, <1>2, <1>3 DEF Accounted
  <1>7. \A c \in todo : c.members # {} /\ \A a \in answers' : a.members # {} /\ c.members # a.members
    BY <1>1, <1>2, <1>3, <1>4, RelevantIsAsked DEF Accounted
  <1>8. \A a, b \in answers' : a.members = b.members => a = b
    BY <1>1, <1>2, <1>3 DEF Accounted
  <1>9. \A a \in answers' : a.members # {}
    BY <1>4, <1>5
  <1> QED BY <1>1, <1>3, <1>5, <1>6, <1>7, <1>8, <1>9 DEF Accounted

LEMMA CheckAccounts == Accounted /\ [LiveNext]_allVars => Accounted'
  <1> SUFFICES ASSUME Accounted, [LiveNext]_allVars PROVE Accounted'
    OBVIOUS
  <1>1. CASE UNCHANGED liveVars
    BY <1>1 DEF Accounted, liveVars
  <1>2. CASE FailCheck
    BY <1>2 DEF Accounted, FailCheck
  <1>3. CASE Submit \/ Begin \/ Collect
    BY <1>3, SubmitAccounts, BeginAccounts, CollectAccounts
  <1> QED BY <1>1, <1>2, <1>3 DEF LiveNext, allVars

\* No candidate of a check is lost, run twice or answered twice, whatever is run
\* in between and however the runs end (demo/live_check.py run_live_check).
THEOREM NothingIsForgotten == LiveSpec => []Accounted
  <1>1. LiveInit => Accounted
    BY DEF LiveInit, Accounted
  <1> QED BY <1>1, CheckAccounts, PTL DEF LiveSpec

LEMMA LiveIsTyped == LiveInv /\ Accounted => LiveTypeOK
  <1> SUFFICES ASSUME LiveInv, Accounted PROVE LiveTypeOK
    OBVIOUS
  <1>1. WorkflowTypeOK
    BY WellTyped DEF LiveInv
  <1>2. CASE submission = None
    BY <1>1, <1>2 DEF Accounted, LiveTypeOK
  <1>3. CASE submission # None
    <2>1. submission \in DOMAIN Submission
      BY <1>3 DEF Accounted
    <2>2. \A c \in Asked(submission) : c \subseteq Merchants
      BY <2>1, AskedAreGroups
    <2>3. \A c \in todo : c.members \subseteq Merchants /\ c.group \in Group
      BY <1>3, <2>2, RelevantIsAsked, RelevantAreGroups DEF Accounted
    <2>4. checking \subseteq Merchants
      BY <1>3, <2>2 DEF Accounted
    <2>5. \A a \in answers : a.members \subseteq Merchants /\ a.awaits \in BOOLEAN
      BY <1>3, <2>2 DEF Accounted
    <2> QED BY <1>1, <2>1, <2>3, <2>4, <2>5 DEF LiveTypeOK
  <1> QED BY <1>2, <1>3

\* When none is left to run, the answers are the candidates.
LEMMA EveryoneIsAnswered == Accounted => EverySubmissionAnswered
  <1> SUFFICES ASSUME Accounted, IsAnswered, NEW m \in DOMAIN Submission[submission]
               PROVE  Cardinality({a \in answers : m \in a.members}) = 1
    BY DEF EverySubmissionAnswered
  <1>1. submission \in DOMAIN Submission /\ submission # None /\ todo = {} /\ checking = {}
    BY DEF Accounted, IsAnswered
  <1>2. PICK c \in Asked(submission) : m \in c
    BY <1>1, AskedAreGroups
  <1>3. PICK a \in answers : a.members = c
    BY <1>1, <1>2 DEF Accounted, Asked
  <1>4. ASSUME NEW b \in answers, m \in b.members PROVE b = a
    <2>1. b.members \in Asked(submission)
      BY <1>1 DEF Accounted
    <2>2. b.members = c
      BY <1>1, <1>2, <1>4, <2>1, AskedAreGroups
    <2> QED BY <1>1, <1>3, <2>2 DEF Accounted
  <1>5. {b \in answers : m \in b.members} = {a}
    BY <1>2, <1>3, <1>4
  <1> QED BY <1>5, FS_Singleton

LEMMA AccountsLink ==
    ASSUME AccountsCount, Accounted
    PROVE  SharedAccountLinks
  <1> DEFINE apps == Combined(submission)
             Key(m) == << "bank_account", apps[m].keys["bank_account"] >>
  <1> SUFFICES ASSUME IsAnswered, NEW m \in DOMAIN Submission[submission],
                      Cardinality(Sharers(apps, Key(m))) \in 2..28
               PROVE  \E a \in answers : /\ Sharers(apps, Key(m)) \subseteq a.members
                                         /\ a.finding # "no_ring_link_found"
    BY DEF SharedAccountLinks
  <1> DEFINE others == Sharers(apps, Key(m))
  <1>1. submission \in DOMAIN Submission /\ submission # None /\ todo = {} /\ checking = {}
    BY DEF Accounted, IsAnswered
  <1>2. PICK c \in Asked(submission) : m \in c
    BY <1>1, AskedAreGroups
  <1>3. PICK a \in answers : a.members = c /\ a.finding = Finding(c)
    BY <1>1, <1>2 DEF Accounted, Asked
  <1>4. Legible(apps) /\ c \in Candidates(apps) /\ IsFiniteSet(c)
    BY <1>1, <1>2, CombinedIsLegible, AskedAreGroups DEF Asked
  <1>5. m \in others
    BY <1>1, CombinedIsLegible DEF Sharers, KeyOf
  <1>6. others \subseteq c
    BY <1>2, <1>4, <1>5, AccountIsTogether
  <1>7. Cardinality(c) > 1
    <2>1. Cardinality(others) <= Cardinality(c)
      BY <1>4, <1>6, FS_Subset
    <2>2. Cardinality(c) \in Nat
      BY <1>4, FS_CardinalityType
    <2> QED BY <2>1, <2>2
  <1>8. Finding(c) # "no_ring_link_found"
    BY <1>7 DEF Finding
  <1> QED BY <1>3, <1>6, <1>8

\* The state of a live check is well typed for every population.
THEOREM LiveTypeCorrect == LiveSpec => []LiveTypeOK
  BY LiveIsTyped, LiveInvariant, NothingIsForgotten, PTL

\* For every population and every file, whoever is submitted is in exactly one
\* answer, also those nothing links to anybody (evidence_graph.py build,
\* live_check.py run_live_check).
THEOREM EveryoneSubmittedIsAnswered == LiveSpec => []EverySubmissionAnswered
  BY EveryoneIsAnswered, NothingIsForgotten, PTL

\* Under the thresholds of the code, or any no higher than these, whoever shares
\* an account with up to 27 others is linked to all of them, in every population
\* (evidence_graph.py _frequency_adjusted_weight, _noisy_or, build).
THEOREM SharedAccountsLink ==
    ASSUME AccountsCount
    PROVE  LiveSpec => []SharedAccountLinks
  <1>1. Accounted => SharedAccountLinks
    BY AccountsLink
  <1> QED BY <1>1, NothingIsForgotten, PTL
===============================================================================
