----------------------------- MODULE Investigator -----------------------------
(***************************************************************************)
(* investigation/investigator.py: one bounded investigation of a ring       *)
(* candidate.  A provider that nobody controls proposes tool calls and at   *)
(* last a conclusion; the loop counts steps and tool calls, watches the     *)
(* clock, remembers which evidence the tools have shown, and lets only a    *)
(* well-formed conclusion on shown evidence through.                        *)
(*                                                                          *)
(* The arguments of a tool call are abstracted to what comes of them: a     *)
(* refusal, an exception, or a result and the evidence it shows.            *)
(***************************************************************************)
EXTENDS Integers, Sequences

CONSTANTS
    Evidence,   \* evidence IDs a conclusion may name, fabricated ones included
    Catalogue,  \* those that belong to the case
    Edge,       \* those of the candidate's graph edges
    Budget,     \* the InvestigationBudgets considered
    None

ASSUME EvidenceAssumption == Edge \subseteq Catalogue /\ Catalogue \subseteq Evidence

ASSUME BudgetAssumption ==
    Budget \subseteq [max_steps : Nat \ {0}, max_tool_calls : Nat \ {0}]

VARIABLES
    budget,         \* the configured budget
    stage,          \* where the loop is
    steps,          \* provider calls begun
    tool_calls,     \* tool calls begun
    late,           \* max_seconds have passed
    observations,   \* the ToolObservations, in order
    disclosed,      \* evidence the tools have shown
    result          \* the InvestigationResult, None until there is one

locals == << steps, tool_calls, late, observations, disclosed >>
vars == << budget, stage, locals, result >>

TOOL_NAMES == {"get_candidate_summary", "get_relationship_evidence",
               "get_member_profile", "compare_submission_timeline",
               "get_prior_review_history", "inspect_document_consistency"}

\* A name outside the allow list is recorded as "rejected_tool".
Asked == TOOL_NAMES \cup {"rejected_tool"}

ToolErrorCode == {"TOOL_NOT_ALLOWED", "CANDIDATE_OUT_OF_SCOPE", "MEMBER_OUT_OF_SCOPE",
                  "UNKNOWN_ATTRIBUTE", "INVALID_FILTER"}

Observation == [step : Nat \ {0}, tool : Asked, error : ToolErrorCode \cup {None},
                shown : SUBSET Evidence]

Recommendation == {"continue_onboarding", "request_information", "human_review", "abstain"}

\* The evidence that the hypotheses refer to is "leans"; "requested" says whether
\* the output requests information.
Output == [recommendation : Recommendation, cited : SUBSET Evidence,
           leans : SUBSET Evidence, requested : BOOLEAN]

ErrorCode == {"INVESTIGATION_TIMEOUT", "LLM_DISABLED", "PROVIDER_ERROR",
              "INVALID_JSON_RESPONSE", "TOOL_BUDGET_EXHAUSTED", "UNKNOWN_ACTION",
              "INVALID_OUTPUT_SCHEMA", "HALLUCINATED_EVIDENCE_ID",
              "UNAUTHORIZED_EVIDENCE_ID", "STEP_BUDGET_EXHAUSTED"}

Result == [status : {"completed", "abstained", "awaiting_information", "failed"},
           output : Output \cup {None},
           grounding : {"not_evaluated", "grounded", "insufficient_grounding"},
           error : ErrorCode \cup {None}]

ASSUME NoneAssumption ==
    None \notin Output /\ None \notin ErrorCode \cup ToolErrorCode /\ None \notin Result

TypeOK ==
    /\ budget \in Budget
    /\ stage \in {"idle", "looping", "awaiting", "done", "raised"}
    /\ steps \in Nat
    /\ tool_calls \in Nat
    /\ late \in BOOLEAN
    /\ observations \in Seq(Observation)
    /\ disclosed \in SUBSET Evidence
    /\ result \in Result \cup {None}

Init ==
    /\ budget \in Budget
    /\ stage = "idle"
    /\ steps = 0
    /\ tool_calls = 0
    /\ late = FALSE
    /\ observations = << >>
    /\ disclosed = {}
    /\ result = None

-------------------------------------------------------------------------------
(* What the tools and the validators say. *)

Refusals(tool) ==
    IF tool \notin TOOL_NAMES
      THEN {"TOOL_NOT_ALLOWED"}
      ELSE {"CANDIDATE_OUT_OF_SCOPE"}
             \cup {c \in {"MEMBER_OUT_OF_SCOPE", "INVALID_FILTER"} :
                     tool \in {"get_member_profile", "inspect_document_consistency"}}
             \cup {c \in {"UNKNOWN_ATTRIBUTE", "INVALID_FILTER"} :
                     tool = "get_relationship_evidence"}
             \cup {c \in {"INVALID_FILTER"} : tool = "get_prior_review_history"}

\* What disclosed_evidence_ids may find in the result of a tool: only one tool
\* has values under the keys it looks for.
Shows(tool) ==
    IF tool = "get_relationship_evidence" THEN SUBSET Edge ELSE {{}}

\* Arguments that raise something else than a ToolError: evidence_ids that is not
\* iterable, a severity that overflows a float, a name that makes the summary of
\* the rejection longer than an observation may hold.
MayBreak(tool) ==
    tool \in {"get_prior_review_history", "get_relationship_evidence", "rejected_tool"}

\* InvestigatorOutput.validate_output.
WellFormed(o) ==
    /\ o.recommendation = "request_information" => o.requested
    /\ o.leans \subseteq o.cited

Unknown(o) == o.cited \ Catalogue

Undisclosed(o) == (o.cited \cap Catalogue) \ disclosed

Failed(error, grounding) ==
    [status |-> "failed", output |-> None, grounding |-> grounding, error |-> error]

Failure(error) == Failed(error, "not_evaluated")

\* Mutant: the label of the disabled mode is taken for a status.
DisabledByLabel == [status |-> "llm_disabled", output |-> None,
                    grounding |-> "not_evaluated", error |-> "LLM_DISABLED"]

Disabled == [status |-> "abstained", output |-> None, grounding |-> "not_evaluated",
             error |-> "LLM_DISABLED"]

\* Mutant: a request for information counts as completed.
AbstainsOrCompletes(o) ==
    IF o.recommendation = "abstain" THEN "abstained" ELSE "completed"

StatusOf(o) ==
    CASE o.recommendation = "request_information" -> "awaiting_information"
      [] o.recommendation = "abstain" -> "abstained"
      [] OTHER -> "completed"

\* The grounding check and what the loop returns after it.
Judged(o) ==
    CASE Unknown(o) # {} -> Failed("HALLUCINATED_EVIDENCE_ID", "insufficient_grounding")
      [] Unknown(o) = {} /\ Undisclosed(o) # {} ->
           Failed("UNAUTHORIZED_EVIDENCE_ID", "insufficient_grounding")
      [] OTHER -> [status |-> StatusOf(o), output |-> o, grounding |-> "grounded",
                   error |-> None]

\* InvestigationResult.effective_recommendation.
EffectiveRecommendation(r) ==
    IF r.status = "failed" \/ r.grounding = "insufficient_grounding" THEN "human_review"
    ELSE IF r.output = None THEN "abstain"
    ELSE r.output.recommendation

-------------------------------------------------------------------------------
(* The loop. *)

\* Mutant: what an earlier investigation was shown still counts.
StartRemembering ==
    /\ steps' = 0
    /\ tool_calls' = 0
    /\ late' = FALSE
    /\ observations' = << >>
    /\ UNCHANGED disclosed

StartFresh ==
    /\ steps' = 0
    /\ tool_calls' = 0
    /\ late' = FALSE
    /\ observations' = << >>
    /\ disclosed' = {}

\* The workflow investigates, once or again in a later round.
Investigate ==
    /\ stage \in {"idle", "done", "raised"}
    /\ stage' = "looping"
    /\ StartFresh
    /\ result' = None
    /\ UNCHANGED budget

Finish(r) ==
    /\ stage' = "done"
    /\ result' = r
    /\ UNCHANGED << budget, locals >>

StepsLeft == steps < budget.max_steps

CallProvider ==
    /\ stage = "looping"
    /\ StepsLeft
    /\ ~late
    /\ steps' = steps + 1
    /\ stage' = "awaiting"
    /\ UNCHANGED << budget, tool_calls, late, observations, disclosed, result >>

StepsExhausted ==
    /\ stage = "looping"
    /\ ~StepsLeft
    /\ Finish(Failure("STEP_BUDGET_EXHAUSTED"))

LateAtLoopHead ==
    /\ stage = "looping"
    /\ StepsLeft
    /\ late
    /\ Finish(Failure("INVESTIGATION_TIMEOUT"))

\* The clock runs while a tool computes and while the provider is awaited.
Expire ==
    /\ stage \in {"looping", "awaiting"}
    /\ ~late
    /\ late' = TRUE
    /\ UNCHANGED << budget, stage, steps, tool_calls, observations, disclosed, result >>

\* Mutant: the provider is awaited without a timeout.
TimerNeverFires == FALSE

TimerFires == late

\* asyncio.wait_for gives up; an answer that arrives with the timer may still win.
TimeOut ==
    /\ stage = "awaiting"
    /\ TimerFires
    /\ Finish(Failure("INVESTIGATION_TIMEOUT"))

\* (A TimeoutError of the provider's own is taken for the timer's.)
ProviderFails ==
    /\ stage = "awaiting"
    /\ \E r \in {Disabled, Failure("PROVIDER_ERROR"), Failure("INVALID_JSON_RESPONSE"),
                 Failure("UNKNOWN_ACTION"), Failure("INVESTIGATION_TIMEOUT")} : Finish(r)

\* Mutant: the count is compared one call late.
ToolCallsLeftOrLast == tool_calls <= budget.max_tool_calls

ToolCallsLeft == tool_calls < budget.max_tool_calls

ToolBudgetExhausted ==
    /\ stage = "awaiting"
    /\ ~ToolCallsLeft
    /\ Finish(Failure("TOOL_BUDGET_EXHAUSTED"))

Observe(tool, error, shown) ==
    /\ stage = "awaiting"
    /\ ToolCallsLeft
    /\ tool_calls' = tool_calls + 1
    /\ observations' = Append(observations, [step |-> steps, tool |-> tool,
                                             error |-> error, shown |-> shown])
    /\ disclosed' = disclosed \cup shown
    /\ stage' = "looping"
    /\ UNCHANGED << budget, steps, late, result >>

ToolAnswers(tool) == \E shown \in Shows(tool) : Observe(tool, None, shown)

ToolRefuses(tool) == \E code \in Refusals(tool) : Observe(tool, code, {})

\* An exception that is not a ToolError leaves investigate(): no observation, no result.
ToolBreaks(tool) ==
    /\ stage = "awaiting"
    /\ ToolCallsLeft
    /\ MayBreak(tool)
    /\ tool_calls' = tool_calls + 1
    /\ stage' = "raised"
    /\ UNCHANGED << budget, steps, late, observations, disclosed, result >>

CallTool ==
    \/ \E tool \in TOOL_NAMES : ToolAnswers(tool)
    \/ \E tool \in Asked : ToolRefuses(tool)
    \/ \E tool \in Asked : ToolBreaks(tool)

Conclude ==
    /\ stage = "awaiting"
    /\ \E o \in Output :
         /\ WellFormed(o)
         /\ Finish(Judged(o))

ConcludeBadly ==
    /\ stage = "awaiting"
    /\ Finish(Failure("INVALID_OUTPUT_SCHEMA"))

Loop == CallProvider \/ StepsExhausted \/ LateAtLoopHead

Next ==
    \/ Investigate
    \/ Loop
    \/ Expire
    \/ TimeOut
    \/ ProviderFails
    \/ ToolBudgetExhausted
    \/ CallTool
    \/ Conclude
    \/ ConcludeBadly

Spec == Init /\ [][Next]_vars

\* The loop is never parked, the clock runs and the timer fires; a provider may
\* keep silent for ever.
FairSpec == Spec /\ WF_vars(Loop) /\ WF_vars(Expire) /\ WF_vars(TimeOut)

-------------------------------------------------------------------------------
(* Correctness. *)

\* An opinion that counts (_apply_policy acts on the effective recommendation)
\* rests, in its citations and in every hypothesis, on graph edges that
\* get_relationship_evidence showed in this very investigation; an earlier round,
\* the case brief or the other tools do not license a citation.
OpinionsAreGrounded ==
    stage = "done" /\ result.output # None =>
        \A e \in result.output.cited \cup result.output.leans :
            \E i \in DOMAIN observations :
                /\ observations[i].tool = "get_relationship_evidence"
                /\ observations[i].error = None
                /\ e \in observations[i].shown \cap Edge

\* What an exit claims when it blames a budget, or none.
Honest(r) ==
    /\ r.error = "STEP_BUDGET_EXHAUSTED" =>
         Len(observations) = steps /\ steps = budget.max_steps
    /\ r.error = "TOOL_BUDGET_EXHAUSTED" =>
         Len(observations) = budget.max_tool_calls /\ tool_calls < steps
    /\ r.error \notin {"STEP_BUDGET_EXHAUSTED", "INVESTIGATION_TIMEOUT"} =>
         Len(observations) = steps - 1

\* No investigation goes beyond a budget, every step but the last was a recorded
\* tool call, and an exit tells the truth about the budget it blames.
BudgetsAreHonest ==
    /\ steps <= budget.max_steps
    /\ tool_calls <= budget.max_tool_calls
    /\ Len(observations) <= tool_calls
    /\ \A i \in DOMAIN observations : observations[i].step = i
    /\ stage = "done" => Honest(result)

\* InvestigationResult.validate_result, and what the workflow may take from a
\* result: it asks only for what was asked, and clears only what is complete.
Acceptable(r) ==
    /\ r.status = "completed" =>
         r.output # None /\ r.error = None /\ r.grounding = "grounded"
    /\ r.status = "failed" => r.error # None /\ r.output = None
    /\ r.status = "awaiting_information" => r.output # None /\ r.output.requested
    /\ r.status = "abstained" /\ r.output # None => r.output.recommendation = "abstain"
    /\ EffectiveRecommendation(r) = "request_information" <=>
         r.status = "awaiting_information"
    /\ EffectiveRecommendation(r) = "continue_onboarding" => r.status = "completed"

\* finish() builds only results that the validator accepts: a ValidationError there
\* would leave investigate() like any other exception.
ResultsAreAccepted == stage = "done" => Acceptable(result)

\* Every investigation comes back to the workflow, even from a provider that never
\* answers.
InvestigationReturns == stage \in {"looping", "awaiting"} ~> stage \in {"done", "raised"}

\* Every tool call is recorded as one observation, so that an argument violation is
\* a ToolError the investigation recovers from.
CallsAreRecorded == tool_calls = Len(observations)

===============================================================================
