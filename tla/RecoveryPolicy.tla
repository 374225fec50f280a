--------------------------- MODULE RecoveryPolicy ---------------------------
(***************************************************************************)
(* The judgements between a draft and what becomes of its job, as pure     *)
(* operators: the graders of a candidate report (evaluation/graders.py,    *)
(* llm_grader.py), their aggregation (aggregation.py), and the policy that *)
(* turns a failed evaluation or an exception into the next step            *)
(* (recovery/policy.py).                                                   *)
(*                                                                         *)
(* Scores are fractions <<n, d>> that stand for n / d.  Texts are left     *)
(* out: a candidate says how many of its plan's tasks its text satisfies,  *)
(* whether its draft is empty, and what each claim cites.                  *)
(***************************************************************************)
EXTENDS Naturals, Sequences, FiniteSets, FiniteSetsExt, SequencesExt

CONSTANTS
    MaxRepairs,            \* MAX_REPAIRS
    MaxJobRetries,         \* MAX_JOB_RETRIES
    MaxEvaluationAttempts  \* MAX_EVALUATION_ATTEMPTS

ASSUME PolicyAssumption ==
    /\ MaxRepairs \in Nat
    /\ MaxJobRetries \in Nat
    /\ MaxEvaluationAttempts \in Nat

-----------------------------------------------------------------------------
(* The graders *)

HardDimensions == {"citation_integrity", "tool_use", "report_structure"}
SoftDimensions == {"coverage", "completeness", "lexical_id_groundedness"}
Dimensions == HardDimensions \cup SoftDimensions \cup {"semantic_groundedness"}

One == <<1, 1>>
Zero == <<0, 1>>
ScoreOf(ok) == IF ok THEN One ELSE Zero

\* A claim is supported when it cites something and all of it is linked to the
\* job: an empty claim and an unlinked citation fail alike.
Supported(claim, linked) == claim.ids # {} /\ claim.ids \subseteq linked

GradeCitationIntegrity(c) ==
    ScoreOf(c.provenance /\ \A i \in DOMAIN c.claims : Supported(c.claims[i], c.linked))

\* No tool call at all is accepted: a resumed execution replays its calls.
GradeToolUse(c) ==
    ScoreOf(/\ \A i \in DOMAIN c.tools : c.tools[i] = [origin |-> "WORKFLOW", node |-> "research"]
            /\ Len(c.tools) <= c.maxCalls)

\* The sections are those format_research_report always writes.
GradeReportStructure(c) == ScoreOf(c.drafted /\ c.plan > 0)

GradeCoverage(c) == ScoreOf(c.claims # <<>> => Cardinality(c.linked) >= 1)

GradeCompleteness(c) == IF c.plan = 0 THEN One ELSE <<c.satisfied, c.plan>>

GradeLexicalGroundedness(c) ==
    IF c.claims = <<>> THEN One
    ELSE <<Cardinality({i \in DOMAIN c.claims : Supported(c.claims[i], c.linked)}),
           Len(c.claims)>>

\* The mean of the model's scores for the claims, in hundredths.
SemanticScore(c) ==
    IF c.claims = <<>> THEN One
    ELSE <<FoldLeft(LAMBDA sum, claim : sum + claim.score, 0, c.claims), 100 * Len(c.claims)>>

\* _grade: the dimensions of a candidate; a skipped one has no score.
Grade(c) ==
    [d \in Dimensions \ (IF c.semantic THEN {} ELSE {"semantic_groundedness"}) |->
       CASE d = "citation_integrity" -> GradeCitationIntegrity(c)
         [] d = "tool_use" -> GradeToolUse(c)
         [] d = "report_structure" -> GradeReportStructure(c)
         [] d = "coverage" -> GradeCoverage(c)
         [] d = "completeness" -> GradeCompleteness(c)
         [] d = "lexical_id_groundedness" -> GradeLexicalGroundedness(c)
         [] OTHER -> SemanticScore(c)]

AtLeast70(score) == 10 * score[1] >= 7 * score[2]

\* aggregate_dimensions, the flag of one dimension.
Stamped(scores, d) == IF d \in HardDimensions THEN scores[d] = One ELSE AtLeast70(scores[d])

FailedDimensions(scores) == {d \in DOMAIN scores : ~Stamped(scores, d)}

\* aggregate_dimensions, the verdict: computed from the scores again, not from
\* the flags.
HardOk(scores) == \A d \in HardDimensions : scores[d] = One
SoftOk(scores) == \A d \in SoftDimensions : AtLeast70(scores[d])
SemanticOk(scores) ==
    "semantic_groundedness" \in DOMAIN scores => AtLeast70(scores["semantic_groundedness"])
Passed(scores) == HardOk(scores) /\ SoftOk(scores) /\ SemanticOk(scores)

-----------------------------------------------------------------------------
(* The policy for a failed evaluation *)

\* categorize_evaluation_failure, on the flags of the stored dimensions: the
\* first failed hard dimension, and list_dimensions reads them back ORDER BY
\* dimension_name.  A draft that fails both its structure and its tool policy is
\* thus a structure failure.
CategorizeEvaluationFailure(failed) ==
    IF "citation_integrity" \in failed THEN "QUALITY_CITATION_INTEGRITY"
    ELSE IF "report_structure" \in failed THEN "QUALITY_STRUCTURE"
    ELSE IF "tool_use" \in failed THEN "QUALITY_TOOL_POLICY"
    ELSE IF failed # {} THEN "REPAIRABLE_DRAFT"
    ELSE "NEEDS_HUMAN_REVIEW"

Decision(action, reason) == [action |-> action, reason |-> reason]

\* decide_for_evaluation, for an evaluation that has not passed.
DecideForEvaluation(category, repairs, evaluations) ==
    IF evaluations >= MaxEvaluationAttempts
      THEN Decision("terminal", "EVALUATION_ATTEMPT_CAP")
    ELSE IF category \in {"QUALITY_CITATION_INTEGRITY", "QUALITY_TOOL_POLICY"}
      THEN Decision("terminal", "HARD_QUALITY_FAIL")
    ELSE IF category = "QUALITY_STRUCTURE"
      THEN IF repairs < MaxRepairs THEN Decision("repair", "STRUCTURE_REPAIR")
                                   ELSE Decision("terminal", "STRUCTURE_REPAIR_EXHAUSTED")
    ELSE IF category = "REPAIRABLE_DRAFT"
      THEN IF repairs < MaxRepairs THEN Decision("repair", "SOFT_QUALITY_REPAIR")
                                   ELSE Decision("await_review", "REPAIR_EXHAUSTED")
    ELSE Decision("await_review", "AMBIGUOUS_QUALITY")

-----------------------------------------------------------------------------
(* The policy for an exception *)

\* What a node can raise, by the port it calls.
ModelErrors ==
    {"ModelTimeoutError", "ModelRateLimitedError", "ModelTemporaryError", "ModelAuthConfigError",
     "ModelInvalidRequestError", "ModelInvalidStructuredOutputError", "ModelRefusalError",
     "ModelUnknownError", "ModelInvocationInProgressError", "ModelAttemptOwnershipLostError"}
ToolErrors ==
    {"ToolTimeoutError", "ToolRateLimitedError", "ToolTemporaryError", "ToolAuthConfigError",
     "ToolPermissionDeniedError", "ToolSsrfBlockedError", "ToolBudgetExhaustedError",
     "ToolInvalidRequestError", "ToolContentRejectedError", "ToolUnknownError",
     "ToolInvocationInProgressError", "ToolAttemptOwnershipLostError"}
EmbeddingErrors ==
    {"EmbeddingTimeoutError", "EmbeddingRateLimitedError", "EmbeddingProviderError",
     "EmbeddingAuthConfigError", "EmbeddingInvalidRequestError", "EmbeddingConflictError"}

\* categorize_exception: the TRANSIENT categories; every other one, and every
\* ownership error or conflict, is final.
TransientErrors ==
    {"ModelTimeoutError", "ToolTimeoutError", "EmbeddingTimeoutError",
     "ModelRateLimitedError", "ToolRateLimitedError", "EmbeddingRateLimitedError",
     "ModelTemporaryError", "ToolTemporaryError", "EmbeddingProviderError"}

ErrorsOf(node) ==
    IF node = "research" THEN ToolErrors \cup EmbeddingErrors ELSE ModelErrors

\* decide_for_exception, once the exception has its category.
DecideForException(transient, retries) ==
    IF transient /\ retries < MaxJobRetries THEN "retry" ELSE "terminal"
=============================================================================
