--------------------------- MODULE InvestigatorProofs ---------------------------
(***************************************************************************)
(* What holds of an investigation for any evidence and any budgets.         *)
(***************************************************************************)
EXTENDS Investigator, TLAPS

\* What the counters are while the loop runs: every step so far, the one that is
\* awaited excepted, was a tool call that has been recorded.
Counted ==
    /\ stage = "looping" => tool_calls = steps /\ Len(observations) = steps
    /\ stage = "awaiting" => tool_calls = steps - 1 /\ Len(observations) = steps - 1

\* An observation that shows an edge.
ShownBy(o, e) ==
    /\ o.tool = "get_relationship_evidence"
    /\ o.error = None
    /\ e \in o.shown \cap Edge

Vouched == \A e \in disclosed : \E i \in DOMAIN observations : ShownBy(observations[i], e)

Returned == stage = "done" => result # None

Inv == TypeOK /\ Counted /\ Vouched /\ Returned
         /\ OpinionsAreGrounded /\ BudgetsAreHonest /\ ResultsAreAccepted

-------------------------------------------------------------------------------
(* The results. *)

\* A failure is a result that the validator accepts.
LEMMA FailedIsAcceptable ==
    ASSUME NEW error \in ErrorCode, NEW grounding \in {"not_evaluated", "grounded",
                                                       "insufficient_grounding"}
    PROVE  /\ Failed(error, grounding) \in Result
           /\ Acceptable(Failed(error, grounding))
  BY NoneAssumption DEF Failed, Result, Acceptable, EffectiveRecommendation

\* What the grounding check makes of a well-formed conclusion is a result that the
\* validator accepts, and its output, if any, rests on disclosed evidence.
LEMMA JudgedIsAcceptable ==
    ASSUME NEW o \in Output, WellFormed(o)
    PROVE  /\ Judged(o) \in Result
           /\ Acceptable(Judged(o))
           /\ Judged(o).output # None =>
                Judged(o).output.cited \cup Judged(o).output.leans \subseteq disclosed
           /\ Judged(o).error \in {"HALLUCINATED_EVIDENCE_ID",
                                   "UNAUTHORIZED_EVIDENCE_ID", None}
  <1>1. CASE Unknown(o) # {}
    <2>1. Judged(o) = Failed("HALLUCINATED_EVIDENCE_ID", "insufficient_grounding")
      BY <1>1 DEF Judged
    <2> QED BY <2>1, FailedIsAcceptable DEF Failed, ErrorCode
  <1>2. CASE Unknown(o) = {} /\ Undisclosed(o) # {}
    <2>1. Judged(o) = Failed("UNAUTHORIZED_EVIDENCE_ID", "insufficient_grounding")
      BY <1>2 DEF Judged
    <2> QED BY <2>1, FailedIsAcceptable DEF Failed, ErrorCode
  <1>3. CASE Unknown(o) = {} /\ Undisclosed(o) = {}
    <2>1. Judged(o) = [status |-> StatusOf(o), output |-> o, grounding |-> "grounded",
                       error |-> None]
      BY <1>3 DEF Judged
    <2>2. o.cited \cup o.leans \subseteq disclosed
      BY <1>3 DEF Unknown, Undisclosed, WellFormed
    <2>3. /\ o.recommendation = "request_information" <=>
               StatusOf(o) = "awaiting_information"
          /\ o.recommendation = "abstain" <=> StatusOf(o) = "abstained"
          /\ StatusOf(o) \in {"completed", "abstained", "awaiting_information"}
      BY DEF StatusOf
    <2>4. o # None
      BY NoneAssumption
    <2>5. Judged(o) \in Result
      BY <2>1, <2>3 DEF Result
    <2>6. EffectiveRecommendation(Judged(o)) = o.recommendation
      BY <2>1, <2>3, <2>4 DEF EffectiveRecommendation
    <2>7. Acceptable(Judged(o))
      BY <2>1, <2>3, <2>4, <2>6 DEF Acceptable, WellFormed
    <2> QED BY <2>1, <2>2, <2>5, <2>7
  <1> QED BY <1>1, <1>2, <1>3

-------------------------------------------------------------------------------
(* The invariant. *)

\* An exit with an acceptable and honest result keeps the invariant.
LEMMA FinishKeepsInv ==
    ASSUME Inv, NEW r \in Result, Finish(r), Acceptable(r), Honest(r),
           r.output # None => r.output.cited \cup r.output.leans \subseteq disclosed
    PROVE  Inv'
  <1> USE DEF Finish, locals
  <1>1. TypeOK'
    BY DEF Inv, TypeOK
  <1>2. Counted' /\ Vouched'
    BY DEF Inv, Counted, Vouched
  <1>3. Returned'
    BY NoneAssumption DEF Returned
  <1>4. OpinionsAreGrounded'
    BY DEF Inv, Vouched, ShownBy, OpinionsAreGrounded
  <1>5. BudgetsAreHonest'
    BY DEF Inv, BudgetsAreHonest, Honest
  <1>6. ResultsAreAccepted'
    BY DEF ResultsAreAccepted
  <1> QED BY <1>1, <1>2, <1>3, <1>4, <1>5, <1>6 DEF Inv

\* So does a failure.
LEMMA FailureKeepsInv ==
    ASSUME Inv, NEW error \in ErrorCode, Finish(Failure(error)), Honest(Failure(error))
    PROVE  Inv'
  <1>1. Failure(error) \in Result /\ Acceptable(Failure(error))
    BY FailedIsAcceptable DEF Failure
  <1>2. Failure(error).output = None
    BY DEF Failure, Failed
  <1> QED BY <1>1, <1>2, FinishKeepsInv

\* A failure that blames no budget is honest while the provider is awaited.
LEMMA OtherErrorsAreHonest ==
    ASSUME Inv, stage = "awaiting", NEW r,
           r.error \notin {"STEP_BUDGET_EXHAUSTED", "TOOL_BUDGET_EXHAUSTED"}
    PROVE  Honest(r)
  BY DEF Inv, Counted, Honest

\* A recorded tool call keeps the invariant.
LEMMA ObserveKeepsInv ==
    ASSUME Inv, NEW tool \in Asked, NEW error \in ToolErrorCode \cup {None},
           NEW shown \in SUBSET Evidence, Observe(tool, error, shown),
           \A e \in shown : tool = "get_relationship_evidence" /\ error = None /\ e \in Edge
    PROVE  Inv'
  <1> DEFINE o == [step |-> steps, tool |-> tool, error |-> error, shown |-> shown]
  <1> USE DEF Observe
  <1>0. budget.max_steps \in Nat /\ budget.max_tool_calls \in Nat
    BY BudgetAssumption DEF Inv, TypeOK
  <1>1. /\ steps \in Nat \ {0} /\ Len(observations) = steps - 1
        /\ tool_calls = steps - 1 /\ observations \in Seq(Observation)
    <2>1. /\ steps \in Nat /\ observations \in Seq(Observation)
          /\ Len(observations) = steps - 1 /\ tool_calls = steps - 1
      BY DEF Inv, TypeOK, Counted
    <2>2. Len(observations) \in Nat
      BY <2>1
    <2> QED BY <2>1, <2>2
  <1>2. o \in Observation
    BY <1>1 DEF Observation
  <1>3. /\ observations' = Append(observations, o)
        /\ observations' \in Seq(Observation)
        /\ Len(observations') = steps
        /\ \A i \in DOMAIN observations :
             i \in DOMAIN observations' /\ observations'[i] = observations[i]
        /\ steps \in DOMAIN observations' /\ observations'[steps] = o
        /\ \A i \in DOMAIN observations' : i \in DOMAIN observations \/ i = steps
    BY <1>1, <1>2
  <1>4. TypeOK'
    BY <1>3 DEF Inv, TypeOK
  <1>5. Counted'
    BY <1>1, <1>3 DEF Counted
  <1>6. Vouched'
    <2> SUFFICES ASSUME NEW e \in disclosed'
                 PROVE  \E i \in DOMAIN observations' : ShownBy(observations'[i], e)
      BY DEF Vouched, ShownBy
    <2>1. CASE e \in disclosed
      <3>1. PICK i \in DOMAIN observations : ShownBy(observations[i], e)
        BY <2>1 DEF Inv, Vouched
      <3> QED BY <3>1, <1>3
    <2>2. CASE e \in shown
      <3>1. ShownBy(o, e)
        BY <2>2 DEF ShownBy
      <3> QED BY <3>1, <1>3
    <2> QED BY <2>1, <2>2
  <1>7. Returned' /\ OpinionsAreGrounded' /\ ResultsAreAccepted'
    BY DEF Returned, OpinionsAreGrounded, ResultsAreAccepted
  <1>8. BudgetsAreHonest'
    <2>1. steps' <= budget'.max_steps /\ Len(observations') <= tool_calls'
      BY <1>1, <1>3 DEF Inv, BudgetsAreHonest
    <2>2. tool_calls' <= budget'.max_tool_calls
      BY <1>0, <1>1 DEF ToolCallsLeft
    <2>3. \A i \in DOMAIN observations' : observations'[i].step = i
      BY <1>3 DEF Inv, BudgetsAreHonest
    <2> QED BY <2>1, <2>2, <2>3 DEF BudgetsAreHonest
  <1> QED BY <1>4, <1>5, <1>6, <1>7, <1>8 DEF Inv

\* The invariant holds in every investigation: what may be cited has been shown, the
\* counters agree with the record, and what is returned is acceptable.
THEOREM Invariant == Spec => []Inv
  <1>0. << >> \in Seq(Observation)
    OBVIOUS
  <1>1. Init => Inv
    <2> SUFFICES ASSUME Init PROVE Inv
      OBVIOUS
    <2>1. TypeOK
      BY <1>0 DEF Init, TypeOK
    <2>2. BudgetsAreHonest
      BY <2>1, BudgetAssumption DEF Init, BudgetsAreHonest, TypeOK
    <2> QED BY <2>1, <2>2 DEF Init, Inv, Counted, Vouched, Returned,
              OpinionsAreGrounded, ResultsAreAccepted
  <1>2. Inv /\ [Next]_vars => Inv'
    <2> SUFFICES ASSUME Inv, [Next]_vars PROVE Inv'
      OBVIOUS
    <2>0. budget \in Budget /\ budget.max_steps \in Nat /\ budget.max_tool_calls \in Nat
      BY BudgetAssumption DEF Inv, TypeOK
    <2>1. CASE Investigate
      <3>1. TypeOK'
        BY <1>0, <2>1 DEF Inv, TypeOK, Investigate, StartFresh
      <3>2. BudgetsAreHonest'
        BY <2>0, <2>1 DEF BudgetsAreHonest, Investigate, StartFresh
      <3> QED BY <2>1, <3>1, <3>2 DEF Inv, Investigate, StartFresh, Counted, Vouched,
                Returned, OpinionsAreGrounded, ResultsAreAccepted
    <2>2. CASE CallProvider
      <3>1. TypeOK'
        BY <2>2 DEF Inv, TypeOK, CallProvider
      <3>2. BudgetsAreHonest' /\ Counted'
        BY <2>0, <2>2 DEF Inv, TypeOK, BudgetsAreHonest, Counted, CallProvider, StepsLeft
      <3> QED BY <2>2, <3>1, <3>2 DEF Inv, CallProvider, Vouched, Returned,
                OpinionsAreGrounded, ResultsAreAccepted
    <2>3. CASE StepsExhausted
      <3>1. Honest(Failure("STEP_BUDGET_EXHAUSTED"))
        BY <2>0, <2>3 DEF StepsExhausted, StepsLeft, Inv, TypeOK, BudgetsAreHonest, Counted,
                          Honest, Failure, Failed
      <3> QED BY <2>3, <3>1, FailureKeepsInv DEF StepsExhausted, ErrorCode
    <2>4. CASE LateAtLoopHead \/ TimeOut
      <3>1. Honest(Failure("INVESTIGATION_TIMEOUT"))
        BY DEF Honest, Failure, Failed
      <3> QED BY <2>4, <3>1, FailureKeepsInv DEF LateAtLoopHead, TimeOut, ErrorCode
    <2>5. CASE Expire
      <3>1. TypeOK'
        BY <2>5 DEF Inv, TypeOK, Expire
      <3>2. Counted' /\ Vouched' /\ Returned' /\ OpinionsAreGrounded'
        BY <2>5 DEF Inv, Expire, Counted, Vouched, Returned, OpinionsAreGrounded
      <3>3. BudgetsAreHonest' /\ ResultsAreAccepted'
        BY <2>5 DEF Inv, Expire, BudgetsAreHonest, ResultsAreAccepted
      <3> QED BY <3>1, <3>2, <3>3 DEF Inv
    <2>6. CASE ProviderFails
      <3>1. PICK r \in {Disabled, Failure("PROVIDER_ERROR"),
                        Failure("INVALID_JSON_RESPONSE"), Failure("UNKNOWN_ACTION"),
                        Failure("INVESTIGATION_TIMEOUT")} :
              stage = "awaiting" /\ Finish(r)
        BY <2>6 DEF ProviderFails
      <3>2. r \in Result /\ Acceptable(r) /\ r.output = None
        <4>1. Disabled \in Result /\ Acceptable(Disabled) /\ Disabled.output = None
          BY DEF Disabled, Result, ErrorCode, Acceptable, EffectiveRecommendation
        <4> QED BY <3>1, <4>1, FailedIsAcceptable DEF Failure, Failed, ErrorCode
      <3>3. Honest(r)
        BY <3>1, OtherErrorsAreHonest DEF Disabled, Failure, Failed
      <3> QED BY <3>1, <3>2, <3>3, FinishKeepsInv
    <2>7. CASE ToolBudgetExhausted
      <3>1. Honest(Failure("TOOL_BUDGET_EXHAUSTED"))
        BY <2>0, <2>7 DEF ToolBudgetExhausted, ToolCallsLeft, Inv, TypeOK, BudgetsAreHonest,
                          Counted, Honest, Failure, Failed
      <3> QED BY <2>7, <3>1, FailureKeepsInv DEF ToolBudgetExhausted, ErrorCode
    <2>8. CASE CallTool
      <3>1. CASE \E tool \in TOOL_NAMES : ToolAnswers(tool)
        <4>0. PICK tool \in TOOL_NAMES : ToolAnswers(tool)
          BY <3>1
        <4>1. PICK shown \in Shows(tool) : Observe(tool, None, shown)
          BY <4>0 DEF ToolAnswers
        <4>2. /\ tool \in Asked /\ shown \in SUBSET Evidence
              /\ \A e \in shown : tool = "get_relationship_evidence" /\ e \in Edge
          BY EvidenceAssumption DEF Asked, Shows
        <4> QED BY <4>1, <4>2, ObserveKeepsInv
      <3>2. CASE \E tool \in Asked : ToolRefuses(tool)
        <4>0. PICK tool \in Asked : ToolRefuses(tool)
          BY <3>2
        <4>1. PICK code \in Refusals(tool) : Observe(tool, code, {})
          BY <4>0 DEF ToolRefuses
        <4>2. code \in ToolErrorCode
          BY DEF Refusals, ToolErrorCode
        <4> QED BY <4>1, <4>2, ObserveKeepsInv
      <3>3. CASE \E tool \in Asked : ToolBreaks(tool)
        <4>1. TypeOK'
          BY <3>3 DEF Inv, TypeOK, ToolBreaks
        <4>2. BudgetsAreHonest'
          BY <2>0, <3>3 DEF Inv, TypeOK, BudgetsAreHonest, Counted, ToolBreaks, ToolCallsLeft
        <4> QED BY <3>3, <4>1, <4>2 DEF Inv, ToolBreaks, Counted, Vouched, Returned,
                  OpinionsAreGrounded, ResultsAreAccepted
      <3> QED BY <2>8, <3>1, <3>2, <3>3 DEF CallTool
    <2>9. CASE Conclude
      <3>1. PICK o \in Output : WellFormed(o) /\ Finish(Judged(o)) /\ stage = "awaiting"
        BY <2>9 DEF Conclude
      <3>2. Honest(Judged(o))
        BY <3>1, JudgedIsAcceptable, OtherErrorsAreHonest, NoneAssumption DEF ErrorCode
      <3> QED BY <3>1, <3>2, JudgedIsAcceptable, FinishKeepsInv
    <2>10. CASE ConcludeBadly
      <3>1. Honest(Failure("INVALID_OUTPUT_SCHEMA"))
        BY <2>10, OtherErrorsAreHonest DEF ConcludeBadly, Failure, Failed
      <3> QED BY <2>10, <3>1, FailureKeepsInv DEF ConcludeBadly, ErrorCode
    <2>11. CASE UNCHANGED vars
      <3>1. TypeOK' /\ Counted' /\ Vouched' /\ Returned'
        BY <2>11 DEF Inv, vars, locals, TypeOK, Counted, Vouched, Returned
      <3>2. OpinionsAreGrounded' /\ BudgetsAreHonest' /\ ResultsAreAccepted'
        BY <2>11 DEF Inv, vars, locals, OpinionsAreGrounded, BudgetsAreHonest, Honest,
                     ResultsAreAccepted
      <3> QED BY <3>1, <3>2 DEF Inv
    <2> QED BY <2>1, <2>2, <2>3, <2>4, <2>5, <2>6, <2>7, <2>8, <2>9, <2>10, <2>11
         DEF Next, Loop
  <1> QED BY <1>1, <1>2, PTL DEF Spec

-------------------------------------------------------------------------------
(* What follows from it. *)

\* The state is well typed.
THEOREM TypeCorrect == Spec => []TypeOK
  <1>1. Inv => TypeOK
    BY DEF Inv
  <1> QED BY <1>1, Invariant, PTL

\* An opinion that leaves the loop rests, citation by citation and hypothesis by
\* hypothesis, on edges that a tool showed in the same investigation.
THEOREM GroundingHolds == Spec => []OpinionsAreGrounded
  <1>1. Inv => OpinionsAreGrounded
    BY DEF Inv
  <1> QED BY <1>1, Invariant, PTL

\* No budget is exceeded, and an exit that blames one says so truly.
THEOREM BudgetsHold == Spec => []BudgetsAreHonest
  <1>1. Inv => BudgetsAreHonest
    BY DEF Inv
  <1> QED BY <1>1, Invariant, PTL

\* Every result that the loop returns passes the contract's validator.
THEOREM ResultsHold == Spec => []ResultsAreAccepted
  <1>1. Inv => ResultsAreAccepted
    BY DEF Inv
  <1> QED BY <1>1, Invariant, PTL

\* A budget of tool calls that is not smaller than the budget of steps never binds;
\* so it is for the defaults, six calls in five steps.
THEOREM ToolBudgetMayNeverBind ==
    Spec => [](budget.max_steps <= budget.max_tool_calls =>
                  (stage = "done" => result.error # "TOOL_BUDGET_EXHAUSTED"))
  <1>1. Inv => (budget.max_steps <= budget.max_tool_calls =>
                  (stage = "done" => result.error # "TOOL_BUDGET_EXHAUSTED"))
    <2> SUFFICES ASSUME Inv, budget.max_steps <= budget.max_tool_calls, stage = "done",
                        result.error = "TOOL_BUDGET_EXHAUSTED"
                 PROVE  FALSE
      OBVIOUS
    <2>1. budget.max_steps \in Nat /\ budget.max_tool_calls \in Nat
      BY BudgetAssumption DEF Inv, TypeOK
    <2>2. /\ Len(observations) = budget.max_tool_calls /\ tool_calls < steps
          /\ Len(observations) <= tool_calls /\ steps <= budget.max_steps
      BY DEF Inv, BudgetsAreHonest, Honest
    <2> QED BY <2>1, <2>2 DEF Inv, TypeOK
  <1> QED BY <1>1, Invariant, PTL

===============================================================================
