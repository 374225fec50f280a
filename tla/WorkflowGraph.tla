---------------------------- MODULE WorkflowGraph ----------------------------
(***************************************************************************)
(* Inside one research job: the LangGraph workflow from validate to        *)
(* complete (workflow/graph.py), its runtime context (_build_context of    *)
(* workflow/processor.py), the evaluation runs the evaluate node writes    *)
(* (evaluation/service.py, runner.py) and the recovery policy that routes  *)
(* a failed candidate to repair, review or the end.                        *)
(*                                                                         *)
(* JobLifecycle has the job's claims, executions and threads, transaction  *)
(* by transaction; here they are what the graph sees of them.  A worker    *)
(* that lost its claim goes on running the graph.  LangGraph saves the     *)
(* state after a superstep in the background, while the next node already  *)
(* runs, and nothing fences the save.  Of a draft only what made it        *)
(* matters: the model ledger returns one draft per prompt version and      *)
(* evidence.                                                               *)
(***************************************************************************)
EXTENDS RecoveryPolicy

CONSTANTS
    Workers,
    None,
    Items,      \* evidence the research may link to the job
    Execs,      \* 1 .. n, bound: workflow executions of the job
    MaxFaults   \* bound: crashes, leases that end too early, node failures

ASSUME GraphAssumption ==
    /\ None \notin Workers
    /\ None \notin Nat
    /\ IsFiniteSet(Execs) /\ Execs = 1 .. Cardinality(Execs)
    /\ MaxFaults \in Nat

VARIABLES
    job,       \* the job row: claim, continuation mode, execution, counters
    links,     \* evidence_job_links of the job
    ckpt,      \* the latest checkpoint of each execution's thread
    evals,     \* evaluation_runs, by execution and evaluation attempt
    decisions, \* policy_decisions of the policy node
    approvals, \* the candidate of each execution's latest approval
    reports,   \* report_artifacts, by execution
    run,       \* the graph each worker runs
    faults

vars == <<job, links, ckpt, evals, decisions, approvals, reports, run, faults>>

Nodes == {"validate", "plan", "research", "draft", "verify_citations", "evaluate", "policy",
          "repair", "await_review", "complete", "terminal"}
Attempts == 1 .. MaxRepairs + 1

\* The candidates the graders may meet, and what is stored of their verdicts:
\* the flags of the dimensions as far as the policy reads them.
Candidates ==
    LET claim == [ids : SUBSET {"linked", "foreign"}, score : {40, 70, 100}]
        call == [origin : {"WORKFLOW", "MCP"}, node : {"research"}]
        plans == {<<0, 0>>} \cup ({3} \X (0 .. 3))
    IN  {[claims |-> claims, linked |-> {"linked"}, provenance |-> provenance, tools |-> tools,
          maxCalls |-> 1, drafted |-> drafted, plan |-> p[1], satisfied |-> p[2],
          semantic |-> semantic] :
            claims \in UNION {[1 .. n -> claim] : n \in 0 .. 2}, provenance \in BOOLEAN,
            tools \in UNION {[1 .. n -> call] : n \in 0 .. 2}, drafted \in BOOLEAN,
            p \in plans, semantic \in BOOLEAN}
Verdict(c) ==
    LET scores == Grade(c)
        failed == FailedDimensions(scores)
    IN  [passed |-> Passed(scores),
         category |-> IF Passed(scores) THEN "none" ELSE CategorizeEvaluationFailure(failed),
         hard |-> failed \cap HardDimensions # {}]
Verdicts == {Verdict(c) : c \in Candidates}

\* ResearchGraphState; "next" is what the checkpoint says is next.
InitialGraphState ==
    [next |-> "validate", found |-> {}, draft |-> None, rep |-> 0, att |-> 0,
     passed |-> FALSE, fp |-> None, disp |-> "none"]
NoRun == [status |-> "absent", fp |-> None, owner |-> None, late |-> FALSE, verdict |-> None]
Idle == [pc |-> "off", mode |-> "NONE", exec |-> None, st |-> None, unsaved |-> FALSE, fp |-> None,
         counts |-> None, transient |-> FALSE]

Init ==
    /\ job = [status |-> "PENDING", by |-> None, live |-> FALSE, mode |-> "NONE", exec |-> None,
              rc |-> 0, retries |-> 0, eac |-> 0]
    /\ links = {}
    /\ ckpt = [e \in Execs |-> None]
    /\ evals = [e \in Execs |-> [a \in Attempts |-> NoRun]]
    /\ decisions = {}
    /\ approvals = [e \in Execs |-> None]
    /\ reports = [e \in Execs |-> None]
    /\ run = [w \in Workers |-> Idle]
    /\ faults = 0

-----------------------------------------------------------------------------
(* The claim, time and faults *)

Owns(w) == job.status = "RUNNING" /\ job.by = w /\ job.live
Fault == faults < MaxFaults /\ faults' = faults + 1
Settled(status) == [job EXCEPT !.status = status, !.by = None, !.live = FALSE]

\* claim_next and _bind: a retry, or a job without an execution, begins a new
\* thread; anything else goes on with the thread there is.
ClaimAndBind(w) ==
    /\ run[w].pc = "off"
    /\ job.status = "PENDING" \/ (job.status = "RUNNING" /\ ~job.live)
    /\ LET fresh == job.mode = "JOB_RETRY" \/ job.exec = None
           e == IF job.exec = None THEN 1 ELSE IF fresh THEN job.exec + 1 ELSE job.exec
       IN  /\ e \in Execs
           /\ job' = [job EXCEPT !.status = "RUNNING", !.by = w, !.live = TRUE, !.exec = e]
           /\ run' = [run EXCEPT ![w] = [Idle EXCEPT !.pc = "open", !.exec = e, !.mode = job.mode]]
    /\ UNCHANGED <<links, ckpt, evals, decisions, approvals, reports, faults>>

LeaseExpires ==
    /\ job.live /\ Fault
    /\ job' = [job EXCEPT !.live = FALSE]
    /\ UNCHANGED <<links, ckpt, evals, decisions, approvals, reports, run>>

Crash(w) ==
    /\ run[w].pc # "off" /\ Fault
    /\ run' = [run EXCEPT ![w] = Idle]
    /\ job' = IF job.by = w THEN [job EXCEPT !.live = FALSE] ELSE job
    /\ UNCHANGED <<links, ckpt, evals, decisions, approvals, reports>>

\* The 25 seconds of an evaluation run are over.
EvaluationDeadlinePasses(e, a) ==
    /\ evals[e][a].status = "IN_PROGRESS" /\ ~evals[e][a].late
    /\ evals' = [evals EXCEPT ![e][a].late = TRUE]
    /\ UNCHANGED <<job, links, ckpt, decisions, approvals, reports, run, faults>>

-----------------------------------------------------------------------------
(* The graph: supersteps and checkpoints *)

At(w, node) == run[w].pc = "node" /\ run[w].st.next = node

\* The node is done and the graph goes on with st, whether or not the state
\* before has been saved.
Superstep(w, st) ==
    run' = [run EXCEPT ![w] = [Idle EXCEPT !.pc = IF st.next = "end" THEN "post" ELSE "node",
                                           !.exec = run[w].exec, !.st = st, !.unsaved = TRUE]]

\* A node that commits nothing of its own is one step with its save: losing the
\* save is as if it had not run.  Bound: it waits for the save before it.
PureStep(w, st) ==
    /\ ~run[w].unsaved
    /\ ckpt' = [ckpt EXCEPT ![run[w].exec] = st]
    /\ run' = [run EXCEPT ![w].st = st]

\* The checkpointer writes the state: the last writer of a thread wins.
SaveCheckpoint(w) ==
    /\ run[w].unsaved
    /\ ckpt' = [ckpt EXCEPT ![run[w].exec] = run[w].st]
    /\ run' = [run EXCEPT ![w].unsaved = FALSE]
    /\ UNCHANGED <<job, links, evals, decisions, approvals, reports, faults>>

\* An exception leaves the graph; the save that is under way may be lost.
Raises(w, error) ==
    run' = [run EXCEPT ![w] = [Idle EXCEPT !.pc = "except", !.exec = run[w].exec,
                                           !.transient = error \in TransientErrors]]

\* get_state: a thread that has nothing begins, one that has finished is only
\* completed, one with a next node goes on there; an approved review only goes
\* on with "complete".
OpenThread(w) ==
    LET c == ckpt[run[w].exec]
        next == IF c = None THEN "validate" ELSE c.next
    IN  /\ run[w].pc = "open"
        /\ \/ /\ run[w].mode = "REVIEW_COMPLETE" => next = "complete"
              /\ run' = [run EXCEPT ![w].pc = IF next = "end" THEN "post" ELSE "node",
                                    ![w].mode = "NONE",
                                    ![w].st = IF c = None THEN InitialGraphState ELSE c]
           \/ /\ run[w].mode = "REVIEW_COMPLETE" /\ next # "complete"
              /\ Raises(w, "REVIEW_COMPLETE_BAD_CHECKPOINT")
        /\ UNCHANGED <<job, links, ckpt, evals, decisions, approvals, reports, faults>>

-----------------------------------------------------------------------------
(* The nodes before the evaluation *)

ValidateNode(w) ==
    /\ At(w, "validate")
    /\ PureStep(w, [run[w].st EXCEPT !.next = "plan"])
    /\ UNCHANGED <<job, links, evals, decisions, approvals, reports, faults>>

PlanNode(w) ==
    /\ At(w, "plan")
    /\ PureStep(w, [run[w].st EXCEPT !.next = "research"])
    /\ UNCHANGED <<job, links, evals, decisions, approvals, reports, faults>>

\* Search hits and corpus items are linked in transactions of their own; what a
\* search finds may differ from run to run.
ResearchNode(w) ==
    /\ At(w, "research")
    /\ \E found \in SUBSET Items :
         /\ links' = links \cup found
         /\ Superstep(w, [run[w].st EXCEPT !.next = "draft", !.found = found])
    /\ UNCHANGED <<job, ckpt, evals, decisions, approvals, reports, faults>>

\* A repaired draft has a prompt of its own.
DraftNode(w) ==
    /\ At(w, "draft")
    /\ PureStep(w, [run[w].st EXCEPT !.next = "verify_citations", !.draft = run[w].st.rep])
    /\ UNCHANGED <<job, links, evals, decisions, approvals, reports, faults>>

\* Claims only cite the pack, and the pack is what was found; the verifier asks
\* the links.
VerifyCitationsNode(w) ==
    /\ At(w, "verify_citations")
    /\ IF run[w].st.found \subseteq links
         THEN PureStep(w, [run[w].st EXCEPT !.next = "evaluate"])
         ELSE Raises(w, "SpecialistCitationError") /\ UNCHANGED ckpt
    /\ UNCHANGED <<job, links, evals, decisions, approvals, reports, faults>>

\* The provider a node calls fails; research may have linked something by then.
NodeFails(w) ==
    /\ run[w].pc = "node" /\ run[w].st.next \in {"plan", "research", "draft"} /\ Fault
    /\ \E error \in ErrorsOf(run[w].st.next) : Raises(w, error)
    /\ \E found \in SUBSET Items :
         links' = IF At(w, "research") THEN links \cup found ELSE links
    /\ UNCHANGED <<job, ckpt, evals, decisions, approvals, reports>>

-----------------------------------------------------------------------------
(* The evaluate node *)

EvalRow(w) == evals[run[w].exec][run[w].st.att + 1]

\* fingerprint_grading_snapshot: the candidate, its counters, and the links of
\* the whole job at this moment.
GradingSnapshot(w) ==
    [found |-> run[w].st.found, draft |-> run[w].st.draft, rep |-> run[w].st.rep,
     att |-> run[w].st.att + 1, linked |-> links]

\* _run_owned: the inputs are loaded and fingerprinted before the transaction
\* that begins the run.
LoadGradingInputs(w) ==
    /\ At(w, "evaluate")
    /\ run' = [run EXCEPT ![w] = [@ EXCEPT !.pc = "begin", !.fp = GradingSnapshot(w)]]
    /\ UNCHANGED <<job, links, ckpt, evals, decisions, approvals, reports, faults>>

\* The node returns what the run says: the graph goes on to the policy.
Evaluated(w, row) ==
    Superstep(w, [run[w].st EXCEPT !.next = "policy", !.att = @ + 1, !.fp = row.fp,
                                   !.passed = row.verdict.passed])

\* Mutant: a finished run is replayed for any candidate.
SameCandidate_any(w) == TRUE
SameCandidate(w) == EvalRow(w).fp = run[w].fp

Started(w) == [status |-> "IN_PROGRESS", fp |-> run[w].fp, owner |-> w, late |-> FALSE,
               verdict |-> None]
Grades(w) ==
    /\ evals' = [evals EXCEPT ![run[w].exec][run[w].st.att + 1] = Started(w)]
    /\ run' = [run EXCEPT ![w].pc = "grading"]

\* begin_or_resume with a finished run: no claim is asked for.
ReplayRun(w) ==
    /\ run[w].pc = "begin" /\ EvalRow(w).status = "SUCCEEDED"
    /\ IF SameCandidate(w) THEN Evaluated(w, EvalRow(w)) ELSE Raises(w, "EvaluationConflictError")
    /\ UNCHANGED <<job, links, ckpt, evals, decisions, approvals, reports, faults>>

Reclaimable(row) == row.status = "FAILED" \/ (row.status = "IN_PROGRESS" /\ row.late)

CountsAttempt(row) == row.status = "absent"

\* A new run takes one of the job's attempts, with a conditional UPDATE on the
\* claim; a failed or overdue run of the same candidate may get a new owner.  The
\* claim proof for the latter reads the job row before the wait for the run's row
\* lock, so a worker that has lost the claim is refused or, after such a wait,
\* takes the run over all the same.
MayBegin(w) ==
    IF EvalRow(w).status = "absent" THEN Owns(w) /\ job.eac < MaxEvaluationAttempts
                                    ELSE Reclaimable(EvalRow(w)) /\ SameCandidate(w)
Refusal(w) ==
    IF ~Owns(w) THEN "EvaluationValidationError"
    ELSE IF EvalRow(w).status = "absent" THEN "EvaluationAttemptCapError"
    ELSE IF ~Reclaimable(EvalRow(w)) THEN "EvaluationInProgressError"
    ELSE "EvaluationConflictError"

\* begin_or_resume with the job's claim.
BeginRun(w) ==
    /\ run[w].pc = "begin" /\ EvalRow(w).status # "SUCCEEDED" /\ MayBegin(w)
    /\ job' = [job EXCEPT !.eac = IF CountsAttempt(EvalRow(w)) THEN @ + 1 ELSE @]
    /\ Grades(w)
    /\ UNCHANGED <<links, ckpt, decisions, approvals, reports, faults>>

\* begin_or_resume raises, and none of what it raises is retried.
RefuseRun(w) ==
    /\ run[w].pc = "begin" /\ EvalRow(w).status # "SUCCEEDED"
    /\ ~Owns(w) \/ ~MayBegin(w)
    /\ Raises(w, Refusal(w))
    /\ UNCHANGED <<job, links, ckpt, evals, decisions, approvals, reports, faults>>

\* Mutant: the fence does not look at the status.
OwnsRun_byCandidate(w) == EvalRow(w).fp = run[w].fp
\* finalize_success and finalize_failure
OwnsRun(w) == EvalRow(w).status = "IN_PROGRESS" /\ EvalRow(w).owner = w

\* Nobody reads the owner and the deadline of a run that has ended.
Ended(w, status) == [EvalRow(w) EXCEPT !.status = status, !.owner = None, !.late = FALSE]

\* The grades are in: the dimensions and the verdict in one transaction.
FinalizeSuccess(w) ==
    /\ run[w].pc = "grading"
    /\ \/ /\ OwnsRun(w)
          /\ \E v \in Verdicts :
               LET row == [Ended(w, "SUCCEEDED") EXCEPT !.verdict = v]
               IN  /\ evals' = [evals EXCEPT ![run[w].exec][run[w].st.att + 1] = row]
                   /\ Evaluated(w, row)
       \/ /\ ~OwnsRun(w) /\ Raises(w, "EvaluationOwnershipLostError")
          /\ UNCHANGED evals
    /\ UNCHANGED <<job, links, ckpt, decisions, approvals, reports, faults>>

\* Grading raises: the run is marked failed by its owner, except after
\* ModelAttemptOwnershipLostError, which leaves it in progress.
FinalizeFailure(w) ==
    /\ run[w].pc = "grading" /\ Fault
    /\ \E error \in ModelErrors \cup {"EvaluationTerminalError"} :
         IF OwnsRun(w) /\ error # "ModelAttemptOwnershipLostError"
           THEN /\ evals' = [evals EXCEPT ![run[w].exec][run[w].st.att + 1] = Ended(w, "FAILED")]
                /\ Raises(w, error)
           ELSE /\ Raises(w, "EvaluationOwnershipLostError")
                /\ UNCHANGED evals
    /\ UNCHANGED <<job, links, ckpt, decisions, approvals, reports>>

-----------------------------------------------------------------------------
(* The policy node and the routes after it *)

\* policy_node and the reads of _policy_callback: the larger of the job's and
\* the graph's own counters.
PolicyNode(w) ==
    LET st == run[w].st
        counts == [rc |-> Max({job.rc, st.rep}), retries |-> job.retries,
                   eac |-> Max({job.eac, st.att})]
    IN  /\ At(w, "policy")
        /\ IF st.passed
             THEN Superstep(w, [st EXCEPT !.disp = "complete", !.next = "complete"])
             ELSE run' = [run EXCEPT ![w] = [@ EXCEPT !.pc = "deciding", !.counts = counts]]
        /\ UNCHANGED <<job, links, ckpt, evals, decisions, approvals, reports, faults>>

\* fingerprint_policy_decision
DecisionRow(w) ==
    LET st == run[w].st
        d == DecideForEvaluation(evals[run[w].exec][st.att].verdict.category,
                                 run[w].counts.rc, run[w].counts.eac)
    IN  [exec |-> run[w].exec, att |-> st.att, action |-> d.action, reason |-> d.reason,
         counts |-> run[w].counts]

\* increment_repair_count
MayCount(w) == Owns(w) /\ job.rc < MaxRepairs

\* Mutant: the decision is kept when the repair could not be counted.
PolicyCallback_noRollback(w) ==
    LET d == DecisionRow(w)
    IN  /\ run[w].pc = "deciding"
        /\ decisions' = decisions \cup {d}
        /\ job' = IF d \notin decisions /\ d.action = "repair" /\ MayCount(w)
                    THEN [job EXCEPT !.rc = @ + 1] ELSE job
        /\ Superstep(w, [run[w].st EXCEPT !.disp = d.action, !.next = d.action])
        /\ UNCHANGED <<links, ckpt, evals, approvals, reports, faults>>
\* The transaction of _policy_callback: a new decision to repair is counted, or
\* the whole is rolled back; a decision that is there already is followed.
PolicyCallback(w) ==
    LET d == DecisionRow(w)
        counted == d \notin decisions /\ d.action = "repair"
    IN  /\ run[w].pc = "deciding"
        /\ \/ /\ ~counted \/ MayCount(w)
              /\ decisions' = decisions \cup {d}
              /\ job' = [job EXCEPT !.rc = IF counted THEN @ + 1 ELSE @]
              /\ Superstep(w, [run[w].st EXCEPT !.disp = d.action, !.next = d.action])
           \/ /\ counted /\ ~MayCount(w)
              /\ Raises(w, "ClaimOwnershipError")
              /\ UNCHANGED <<job, decisions>>
        /\ UNCHANGED <<links, ckpt, evals, approvals, reports, faults>>

RepairNode(w) ==
    /\ At(w, "repair")
    /\ PureStep(w, [run[w].st EXCEPT !.next = "draft", !.rep = @ + 1])
    /\ UNCHANGED <<job, links, evals, decisions, approvals, reports, faults>>

\* interrupt_after: the graph stops with "complete" as what is next.
AwaitReviewNode(w) ==
    /\ At(w, "await_review")
    /\ run' = [run EXCEPT ![w] = [@ EXCEPT !.pc = "post", !.st.next = "complete", !.unsaved = TRUE]]
    /\ UNCHANGED <<job, links, ckpt, evals, decisions, approvals, reports, faults>>

TerminalNode(w) ==
    /\ At(w, "terminal")
    /\ Raises(w, "EvaluationTerminalError")
    /\ UNCHANGED <<job, links, ckpt, evals, decisions, approvals, reports, faults>>

\* Mutant: any approval of the execution will do.
Authorized_anyApproval(w) ==
    run[w].st.passed \/ approvals[run[w].exec] # None
\* complete_node and _completion_auth_checker: the latest approval counts.
Authorized(w) ==
    run[w].st.passed \/ (approvals[run[w].exec] # None /\ approvals[run[w].exec] = run[w].st.fp)

\* persist_final: under the claim, and only one report per execution.
CompleteNode(w) ==
    LET e == run[w].exec
        report == [found |-> run[w].st.found, draft |-> run[w].st.draft]
    IN  /\ At(w, "complete")
        /\ \/ /\ Authorized(w) /\ Owns(w) /\ reports[e] \in {None, report}
              /\ reports' = [reports EXCEPT ![e] = report]
              /\ Superstep(w, [run[w].st EXCEPT !.next = "end"])
           \/ /\ ~Authorized(w) \/ ~Owns(w) \/ reports[e] \notin {None, report}
              /\ Raises(w, "ValueError")
              /\ UNCHANGED reports
        /\ UNCHANGED <<job, links, ckpt, evals, decisions, approvals, faults>>

-----------------------------------------------------------------------------
(* What becomes of the job *)

\* _handle_post_invoke reads the thread again: paused, finished, or somewhere
\* it should not be.
PostInvoke(w) ==
    LET next == ckpt[run[w].exec].next
        paused == next = "complete" /\ run[w].st.next = "complete"
        finished == next = "end" /\ run[w].st.next = "end"
    IN  /\ run[w].pc = "post" /\ ~run[w].unsaved
        /\ job' = IF ~Owns(w) THEN job
                  ELSE IF paused THEN Settled("AWAITING_REVIEW")
                  ELSE IF finished THEN Settled("COMPLETED") ELSE Settled("FAILED")
        /\ run' = [run EXCEPT ![w] = Idle]
        /\ UNCHANGED <<links, ckpt, evals, decisions, approvals, reports, faults>>

\* _handle_exception, and the worker's finalization of what it returns.
HandleException(w) ==
    LET retried == DecideForException(run[w].transient, job.retries) = "retry"
    IN  /\ run[w].pc = "except"
        /\ job' = IF ~Owns(w) THEN job
                  ELSE IF retried THEN [Settled("PENDING") EXCEPT !.mode = "JOB_RETRY", !.retries = @ + 1]
                  ELSE Settled("FAILED")
        /\ run' = [run EXCEPT ![w] = Idle]
        /\ UNCHANGED <<links, ckpt, evals, decisions, approvals, reports, faults>>

FailedRuns == {a \in Attempts : /\ evals[job.exec][a].status = "SUCCEEDED"
                                /\ ~evals[job.exec][a].verdict.passed}

\* submit_decision: the operator may name any failed run of the execution, the
\* latest by default.
Approve ==
    /\ job.status = "AWAITING_REVIEW" /\ ckpt[job.exec].next = "complete"
    /\ \E a \in FailedRuns : approvals' = [approvals EXCEPT ![job.exec] = evals[job.exec][a].fp]
    /\ job' = [job EXCEPT !.status = "PENDING", !.mode = "REVIEW_COMPLETE"]
    /\ UNCHANGED <<links, ckpt, evals, decisions, reports, run, faults>>

Reject ==
    /\ job.status = "AWAITING_REVIEW" /\ ckpt[job.exec].next = "complete" /\ FailedRuns # {}
    /\ job' = Settled("FAILED")
    /\ UNCHANGED <<links, ckpt, evals, decisions, approvals, reports, run, faults>>

Next ==
    \/ LeaseExpires \/ Approve \/ Reject
    \/ \E e \in Execs, a \in Attempts : EvaluationDeadlinePasses(e, a)
    \/ \E w \in Workers :
         \/ ClaimAndBind(w) \/ OpenThread(w) \/ SaveCheckpoint(w) \/ Crash(w) \/ NodeFails(w)
         \/ ValidateNode(w) \/ PlanNode(w) \/ ResearchNode(w) \/ DraftNode(w)
         \/ VerifyCitationsNode(w)
         \/ LoadGradingInputs(w) \/ ReplayRun(w) \/ BeginRun(w) \/ RefuseRun(w)
         \/ FinalizeSuccess(w) \/ FinalizeFailure(w)
         \/ PolicyNode(w) \/ PolicyCallback(w) \/ RepairNode(w) \/ AwaitReviewNode(w)
         \/ TerminalNode(w) \/ CompleteNode(w) \/ PostInvoke(w) \/ HandleException(w)

Spec == Init /\ [][Next]_vars

-----------------------------------------------------------------------------
(* Properties *)

Fingerprints ==
    [found : SUBSET Items, draft : Nat, rep : Nat, att : Nat, linked : SUBSET Items]
GraphStates ==
    [next : Nodes \cup {"end"}, found : SUBSET Items, draft : Nat \cup {None}, rep : Nat,
     att : Nat, passed : BOOLEAN, fp : Fingerprints \cup {None},
     disp : {"none", "complete", "repair", "await_review", "terminal"}]

TypeOK ==
    /\ job.status \in {"PENDING", "RUNNING", "AWAITING_REVIEW", "COMPLETED", "FAILED"}
    /\ job.by \in Workers \cup {None} /\ job.live \in BOOLEAN
    /\ job.rc \in 0 .. MaxRepairs /\ job.retries \in 0 .. MaxJobRetries
    /\ links \subseteq Items
    /\ \A e \in Execs : ckpt[e] = None \/ ckpt[e] \in GraphStates
    /\ \A w \in Workers : run[w].st = None \/ run[w].st \in GraphStates
    /\ \A e \in Execs : approvals[e] \in Fingerprints \cup {None}

\* What a state says of the evaluation it went through is what the run on record
\* says, and the run was about this very draft.
GradedAs(st, e) ==
    st.att > 0 =>
        LET row == evals[e][st.att]
        IN  /\ row.status = "SUCCEEDED" /\ row.fp = st.fp /\ row.verdict.passed = st.passed
            /\ st.next \in {"policy", "complete", "await_review", "terminal", "repair", "end"} =>
                 row.fp.draft = st.draft /\ row.fp.found = st.found

\* Whoever runs the graph, and whatever was resumed, replayed or taken over on
\* the way, the verdict the policy and the complete node act on is the recorded
\* verdict on the candidate they hold (evaluate_node, begin_or_resume).
VerdictIsAboutThisDraft ==
    /\ \A w \in Workers : run[w].st # None => GradedAs(run[w].st, run[w].exec)
    /\ \A e \in Execs : ckpt[e] # None => GradedAs(ckpt[e], e)

\* "Passing evaluation or durable human-review approve override for this exact
\* execution and candidate" (complete_node): no report exists otherwise, even
\* when the operator approved another draft of the same execution; and no
\* approval accepts a candidate that failed a hard dimension, because none is ever
\* put up for review: the policy ends the execution or asks for another draft
\* (categorize_evaluation_failure, decide_for_evaluation).
AcceptedWasAuthorized ==
    \A e \in Execs : reports[e] # None =>
        LET about(fp) == fp.found = reports[e].found /\ fp.draft = reports[e].draft
            graded == {a \in Attempts : evals[e][a].status = "SUCCEEDED" /\ about(evals[e][a].fp)}
        IN  /\ \/ \E a \in graded : evals[e][a].verdict.passed
               \/ approvals[e] # None /\ about(approvals[e])
            /\ \A a \in graded : ~evals[e][a].verdict.hard

\* The counters on the job row that the policy decides by are what the rows say:
\* the decisions to repair, and the evaluation runs of all executions.  Taking a
\* run over or replaying it costs nothing, and no crash, repeated policy node or
\* worker without the job counts twice (begin_or_resume, _policy_callback).
CountersAgree ==
    /\ job.rc = Cardinality({d \in decisions : d.action = "repair"})
    /\ job.eac = Cardinality({p \in Execs \X Attempts : evals[p[1]][p[2]].status # "absent"})

\* An evaluation run is its owner's until its deadline, and after its verdict
\* nobody's: neither the late finalization of a worker that was taken over nor
\* another attempt touches it (finalize_success, reclaim_run).
RunsAreFenced ==
    [][\A e \in Execs, a \in Attempts :
         LET r == evals[e][a]
         IN  /\ r.status = "SUCCEEDED" => evals'[e][a] = r
             /\ r.status = "IN_PROGRESS" /\ ~r.late /\ evals'[e][a] # r =>
                  evals'[e][a].late \/ run'[r.owner] # run[r.owner]]_vars
=============================================================================
