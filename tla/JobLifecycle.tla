---------------------------- MODULE JobLifecycle ----------------------------
(***************************************************************************)
(* The life of a research job: the workflow executions and LangGraph       *)
(* checkpoints behind its row, the policy and review decisions taken about *)
(* it, and those who call the transactions of ResearchJobs: the workers    *)
(* that claim it (application/worker.py), the processor thread of each     *)
(* worker (workflow/processor.py) and the operator who reviews it          *)
(* (application/review.py).                                                *)
(*                                                                         *)
(* One action is one database transaction, together with the local code    *)
(* that runs up to the next one: a transaction that decides about a job    *)
(* locks its row first.  One does not: the UPDATE that completes or fails  *)
(* an execution reads the claim in a subselect, so its read and its commit *)
(* are two actions.  Checkpoints are written outside those transactions    *)
(* and are not fenced by the claim.                                        *)
(***************************************************************************)
EXTENDS ResearchJobs

CONSTANTS
    Workers,   \* worker processes
    ProfileOf, \* the profile each worker is configured with
    MaxFaults  \* bound: crashes, timeouts, failed commits, early expiries

ASSUME ProfileAssumption == ProfileOf \in [Workers -> Profiles]
ASSUME FaultAssumption == MaxFaults \in Nat

ExecStatuses == {"UNUSED", "RUNNING", "COMPLETED", "FAILED", "ABANDONED"}

\* What a checkpoint thread says is next: nothing was saved yet, a node before
\* "complete", "complete" after a passing evaluation, "complete" after the
\* await_review interrupt, or nothing because the result is there.
Positions == {"empty", "mid", "passed", "review", "result"}
NextIsComplete == {"passed", "review"}
NextNonEmpty == {"mid", "passed", "review"}

Pcs == {"off", "enter", "short", "bind", "open", "run", "reported", "post",
        "badcheckpoint", "failing", "await", "completing", "closing", "except", "decide",
        "ending", "retry", "returned"}
\* ProcessingOutcome, and the two ways the future raises instead.
Outcomes == {"none", "completed", "paused", "retry", "terminal", "error", "lost"}

VARIABLES
    execs,      \* workflow_executions
    ckpt,       \* latest LangGraph checkpoint of each execution's thread
    reports,    \* executions with a final report artifact
    decisions,  \* fingerprints in policy_decisions (retry and await_review)
    approvals,  \* executions with an approve row in review_decisions
    worker,     \* polling thread of each worker
    proc,       \* processor thread of each worker
    review,     \* execution an operator request found ready for review
    faults      \* faults so far (bounded by MaxFaults)

db == <<jobs, outbox, spent, execs, reports, decisions, approvals>>
vars == <<jobs, outbox, spent, execs, ckpt, reports, decisions, approvals, worker,
          proc, review, faults>>

NoProc == [pc |-> "off", job |-> None, token |-> None, mode |-> "NONE",
           active |-> None, exec |-> None, at |-> "empty", retries |-> 0,
           out |-> "none"]

Init ==
    /\ RowInit
    /\ execs = [e \in ExecIds |-> [job |-> None, status |-> "UNUSED"]]
    /\ ckpt = [e \in ExecIds |-> "empty"]
    /\ reports = {}
    /\ decisions = {}
    /\ approvals = {}
    /\ worker = [w \in Workers |-> "idle"]
    /\ proc = [w \in Workers |-> NoProc]
    /\ review = [j \in Jobs |-> None]
    /\ faults = 0

-----------------------------------------------------------------------------
(* Fences, identifiers and threads *)

\* What the subselect of _terminal_execution_for_claim and the row locks of
\* schedule_retry ask for before an execution ends.
OwnsExecution(j, tok, e) ==
    Owns(j, tok) /\ jobs[j].active = e /\ execs[e] = [job |-> j, status |-> "RUNNING"]
LosesExecution(j, tok, e) ==
    \/ LosesClaim(j, tok)
    \/ jobs[j].active # e
    \/ execs[e] # [job |-> j, status |-> "RUNNING"]

\* secrets.token_hex and uuid4 draw an identifier that was never drawn before.
\* Identifiers are only compared for equality, so it does not matter which.
Drawn(unused) == IF unused = {} THEN {} ELSE {CHOOSE x \in unused : TRUE}

\* Mutant: the UPDATE does not ask for a RUNNING execution.
Ended_anyStatus(j, e, status) ==
    IF execs[e].job = j THEN [execs EXCEPT ![e].status = status] ELSE execs
\* The UPDATE of _terminal_execution_for_claim has its row lock and commits: it
\* looks at the execution again, and no more at the claim.
StillRunning(j, e) == execs[e] = [job |-> j, status |-> "RUNNING"]
Ended(j, e, status) ==
    IF StillRunning(j, e) THEN [execs EXCEPT ![e].status = status] ELSE execs

SpendFault == faults < MaxFaults /\ faults' = faults + 1

\* The processor of w goes on at pc; it returns an outcome to its future; or it
\* raises inside the try of __call__.  Local variables it will not read again
\* are reset.
Goto(w, pc) == proc' = [proc EXCEPT ![w].pc = pc]
Return(w, out) ==
    proc' = [proc EXCEPT ![w] = [NoProc EXCEPT !.pc = "returned", !.job = proc[w].job,
                                               !.token = proc[w].token, !.out = out]]
Raise(w, out) ==
    proc' = [proc EXCEPT ![w] = [NoProc EXCEPT !.pc = "except", !.job = proc[w].job,
                                               !.token = proc[w].token,
                                               !.exec = proc[w].exec, !.out = out]]
\* _bind hands execution e to the rest of __call__.
Bound(w, e) ==
    proc' = [proc EXCEPT ![w] = [@ EXCEPT !.pc = "open", !.exec = e, !.active = None]]
\* The graph of w stands at pos.
Stands(w, pc, pos) == proc' = [proc EXCEPT ![w] = [@ EXCEPT !.pc = pc, !.at = pos]]

-----------------------------------------------------------------------------
(* Submission, time *)

\* ResearchJobService.submit: the row and its created event in one transaction.
Submit(j) ==
    /\ Add(j)
    /\ UNCHANGED <<execs, ckpt, reports, decisions, approvals, worker, proc, review, faults>>

\* A worker still waits for the processor it gave this claim to.
Attended(j) ==
    \E w \in Workers : /\ worker[w] \in {"wait", "timedout"}
                       /\ proc[w].job = j /\ proc[w].token = jobs[j].token

\* Time passes the lease.  While the claim is attended this is a fault: the
\* processing timeout is shorter than the lease by default.
LeaseEnds(j) ==
    /\ LeaseAges(j)
    /\ IF jobs[j].lease = "live" /\ Attended(j) THEN SpendFault ELSE UNCHANGED faults
    /\ UNCHANGED <<execs, ckpt, reports, decisions, approvals, worker, proc, review>>

RetryIsDue(j) ==
    /\ DelayEnds(j)
    /\ UNCHANGED <<execs, ckpt, reports, decisions, approvals, worker, proc, review, faults>>

-----------------------------------------------------------------------------
(* The worker's polling thread *)

\* run_once: no claim while an abandoned future still runs.  _process_claimed
\* submits the processor with the claim it was given.
Claim(w, j) ==
    /\ worker[w] = "idle"
    /\ proc[w].pc \in {"off", "returned"}
    /\ \E tok \in Drawn(Tokens \ spent) :
         /\ ClaimNext(j, tok, ProfileOf[w])
         /\ proc' = [proc EXCEPT ![w] =
                       [NoProc EXCEPT !.pc = "enter", !.job = j, !.token = tok,
                                      !.mode = jobs'[j].claimed_mode,
                                      !.active = jobs[j].active]]
    /\ worker' = [worker EXCEPT ![w] = "wait"]
    /\ UNCHANGED <<execs, ckpt, reports, decisions, approvals, review, faults>>

\* future.result(timeout=...) raises; the processor thread is not stopped.
Timeout(w) ==
    /\ worker[w] = "wait"
    /\ proc[w].pc # "returned"
    /\ SpendFault
    /\ worker' = [worker EXCEPT ![w] = "timedout"]
    /\ UNCHANGED <<db, ckpt, proc, review>>

\* What _process_claimed will finalize: a timed out or failed processor as a
\* failure, a completion as one, a pause or a scheduled retry not at all.
Finalization(w) ==
    IF worker[w] = "timedout" \/ proc[w].out \in {"terminal", "error", "lost"}
      THEN "failure"
      ELSE IF proc[w].out = "completed" THEN "completion" ELSE "deferred"

Finishing(w) ==
    \/ worker[w] = "timedout"
    \/ worker[w] = "wait" /\ proc[w].pc = "returned"

\* _finalize_completion, _finalize_failure and _handle_outcome.
Finalize(w) ==
    LET j == proc[w].job
        tok == proc[w].token
    IN  /\ Finishing(w)
        /\ \/ Finalization(w) = "completion" /\ FinalizeCompletion(j, tok)
           \/ Finalization(w) = "failure" /\ FinalizeFailure(j, tok)
           \/ /\ Finalization(w) = "deferred" \/ LosesClaim(j, tok)
              /\ UNCHANGED rowVars
        /\ worker' = [worker EXCEPT ![w] = "idle"]
        /\ proc' = IF proc[w].pc = "returned" THEN [proc EXCEPT ![w] = NoProc] ELSE proc
        /\ UNCHANGED <<execs, ckpt, reports, decisions, approvals, review, faults>>

\* The finalization transaction fails and is rolled back; run_forever closes
\* the worker.  A processor that is still running keeps running.
FinalizeError(w) ==
    /\ Finishing(w)
    /\ Finalization(w) # "deferred"
    /\ SpendFault
    /\ worker' = [worker EXCEPT ![w] = "closed"]
    /\ UNCHANGED <<db, ckpt, proc, review>>

\* The process is killed: both threads are gone.
Crash(w) ==
    /\ worker[w] \in {"wait", "timedout"} \/ proc[w].pc \notin {"off", "returned"}
    /\ SpendFault
    /\ worker' = [worker EXCEPT ![w] = "closed"]
    /\ proc' = [proc EXCEPT ![w] = NoProc]
    /\ UNCHANGED <<db, ckpt, review>>

\* The supervisor starts a new process once the old one has exited, which it
\* does not before its processor thread has ended.
Restart(w) ==
    /\ worker[w] = "closed"
    /\ proc[w].pc \in {"off", "returned"}
    /\ worker' = [worker EXCEPT ![w] = "idle"]
    /\ proc' = [proc EXCEPT ![w] = NoProc]
    /\ UNCHANGED <<db, ckpt, review, faults>>

-----------------------------------------------------------------------------
(* The processor thread: LangGraphResearchProcessor.__call__ *)

\* First transaction: the active execution, and the replay of a finished job.
Enter(w) ==
    LET p == proc[w]
        row == jobs[p.job]
    IN  /\ p.pc = "enter"
        /\ IF p.mode = "NONE" /\ row.status = "COMPLETED"
             THEN Return(w, "completed")
             ELSE proc' = [proc EXCEPT ![w] =
                    [p EXCEPT !.pc = "short",
                              !.active = IF p.active = None THEN row.active ELSE p.active]]
        /\ UNCHANGED <<db, ckpt, worker, review, faults>>

\* Mutant: the checkpoint's result is enough.
CompletedResult_checkpointOnly(p) == p.active # None /\ ckpt[p.active] = "result"

\* _completed_execution_result: the active execution has completed already.
CompletedResult(p) ==
    /\ p.active # None
    /\ execs[p.active] = [job |-> p.job, status |-> "COMPLETED"]
    /\ ckpt[p.active] = "result"

ShortCircuit(w) ==
    LET p == proc[w]
    IN  /\ p.pc = "short"
        /\ IF p.mode = "NONE" /\ CompletedResult(p)
             THEN Return(w, "completed")
             ELSE Goto(w, "bind")
        /\ UNCHANGED <<db, ckpt, worker, review, faults>>

\* _bind resumes the active execution in these modes.
Resumes(p) ==
    \/ p.mode = "REVIEW_COMPLETE"
    \/ /\ p.mode = "NONE" /\ p.active # None
       /\ execs[p.active].status \in {"RUNNING", "COMPLETED"}

BindResume(w) ==
    LET p == proc[w]
    IN  /\ p.pc = "bind" /\ Resumes(p)
        /\ IF p.mode = "REVIEW_COMPLETE" /\ execs[p.active].status # "RUNNING"
             THEN Return(w, "error")
             ELSE Bound(w, p.active)
        /\ UNCHANGED <<db, ckpt, worker, review, faults>>

\* Mutant: nothing is abandoned.
Abandoned_none(j) == execs
\* abandon_unfinished_for_job: workflow_executions without a RUNNING one of j.
Abandoned(j) ==
    [e \in ExecIds |-> IF execs[e] = [job |-> j, status |-> "RUNNING"]
                        THEN [job |-> j, status |-> "ABANDONED"] ELSE execs[e]]

\* abandon_unfinished_for_job, create_execution and set_active_workflow_execution
\* in one transaction, rolled back when the claim is lost.
BindCreate(w) ==
    LET p == proc[w]
        j == p.job
    IN  /\ p.pc = "bind" /\ ~Resumes(p)
        /\ \/ \E e \in Drawn({x \in ExecIds : execs[x].status = "UNUSED"}) :
                /\ execs' = [Abandoned(j) EXCEPT ![e] = [job |-> j, status |-> "RUNNING"]]
                /\ SetActiveWorkflowExecution(j, p.token, e)
                /\ Bound(w, e)
           \/ /\ LosesClaim(j, p.token)
              /\ Raise(w, "terminal")
              /\ UNCHANGED <<rowVars, execs>>
        /\ UNCHANGED <<ckpt, reports, decisions, approvals, worker, review, faults>>

\* graph.get_state before the first invoke.
OpenCheckpoint(w) ==
    LET p == proc[w]
        c == ckpt[p.exec]
    IN  /\ p.pc = "open"
        /\ IF p.mode = "REVIEW_COMPLETE"
             THEN IF c \in NextIsComplete
                    THEN Stands(w, "run", c)
                    ELSE Goto(w, "badcheckpoint")
             ELSE IF c = "result"
                    THEN Goto(w, "completing")
                    ELSE Stands(w, "run", c)
        /\ UNCHANGED <<db, ckpt, worker, review, faults>>

\* A superstep of the graph before "complete" has run and its checkpoint is put:
\* on the way, after a passing evaluation, or at the await_review interrupt.
\* The put is not fenced: the last writer of the thread wins.
RunNodes(w) ==
    LET p == proc[w]
    IN  /\ p.pc = "run" /\ p.at \in {"empty", "mid"}
        /\ \E pos \in {"mid", "passed", "review"} :
             /\ pos = "mid" => p.at = "empty"
             /\ ckpt' = [ckpt EXCEPT ![p.exec] = pos]
             /\ Stands(w, IF pos = "review" THEN "post" ELSE "run", pos)
        /\ UNCHANGED <<db, worker, review, faults>>

\* complete_node: authorised by a passing evaluation or by an approval of this
\* execution, then persist_final under the claim fence, which leaves a report
\* that is there already as it is.
PersistFinal(w) ==
    LET p == proc[w]
        authorized == p.at = "passed" \/ p.exec \in approvals
    IN  /\ p.pc = "run" /\ p.at \in NextIsComplete
        /\ \/ /\ authorized /\ Owns(p.job, p.token)
              /\ reports' = reports \cup {p.exec}
              /\ Goto(w, "reported")
           \/ /\ ~authorized \/ LosesClaim(p.job, p.token)
              /\ Raise(w, "terminal")
              /\ UNCHANGED reports
        /\ UNCHANGED <<rowVars, execs, ckpt, decisions, approvals, worker, review, faults>>

\* The checkpoint after complete_node, in a transaction of its own.
PutResult(w) ==
    LET p == proc[w]
    IN  /\ p.pc = "reported"
        /\ ckpt' = [ckpt EXCEPT ![p.exec] = "result"]
        /\ Stands(w, "post", "result")
        /\ UNCHANGED <<db, worker, review, faults>>

\* Anything inside the try of __call__ fails (a node, a transaction, which is
\* then rolled back): with a transient error, with one that is not, or with a
\* RuntimeError, which __call__ lets through.
ProcessingError(w) ==
    /\ proc[w].pc \in {"bind", "open", "run", "reported", "post", "badcheckpoint", "failing",
                       "await", "completing", "closing"}
    /\ \/ Raise(w, "retry")
       \/ Raise(w, "terminal")
       \/ Return(w, "error")
    /\ UNCHANGED <<db, ckpt, worker, review, faults>>

\* A failure outside that try, or inside _handle_exception, ends the future.
EscapingError(w) ==
    /\ proc[w].pc \in {"enter", "short", "except", "decide", "ending", "retry"}
    /\ Return(w, "error")
    /\ UNCHANGED <<db, ckpt, worker, review, faults>>

\* graph.get_state after the invoke: it reads the thread's latest checkpoint,
\* the state returned by invoke is the processor's own.
PostInvoke(w) ==
    LET p == proc[w]
        c == ckpt[p.exec]
    IN  /\ p.pc = "post"
        /\ IF p.mode = "REVIEW_COMPLETE"
             THEN IF c \in NextNonEmpty THEN Return(w, "error") ELSE Goto(w, "completing")
             ELSE IF c \in NextNonEmpty
                    THEN Goto(w, IF c \in NextIsComplete /\ p.at = "review"
                                   THEN "await" ELSE "badcheckpoint")
                    ELSE IF p.at = "result" THEN Goto(w, "completing") ELSE Return(w, "error")
        /\ UNCHANGED <<db, ckpt, worker, review, faults>>

\* The execution is to be failed because its checkpoint is not where it must be.
BadCheckpoint(w) ==
    LET p == proc[w]
    IN  /\ p.pc = "badcheckpoint"
        /\ \/ OwnsExecution(p.job, p.token, p.exec) /\ Goto(w, "failing")
           \/ LosesExecution(p.job, p.token, p.exec) /\ Raise(w, "terminal")
        /\ UNCHANGED <<db, ckpt, worker, review, faults>>

\* The commit: TerminalFailed after a review, RuntimeError otherwise.  No row
\* updated is a ClaimOwnershipError.
CommitBadCheckpoint(w) ==
    LET p == proc[w]
    IN  /\ p.pc = "failing"
        /\ execs' = Ended(p.job, p.exec, "FAILED")
        /\ IF StillRunning(p.job, p.exec)
             THEN Return(w, IF p.mode = "REVIEW_COMPLETE" THEN "terminal" ELSE "error")
             ELSE Raise(w, "terminal")
        /\ UNCHANGED <<rowVars, ckpt, reports, decisions, approvals, worker, review, faults>>

\* complete_execution_for_claim
CompleteExecution(w) ==
    LET p == proc[w]
    IN  /\ p.pc = "completing"
        /\ \/ OwnsExecution(p.job, p.token, p.exec) /\ Goto(w, "closing")
           \/ LosesExecution(p.job, p.token, p.exec) /\ Raise(w, "terminal")
        /\ UNCHANGED <<db, ckpt, worker, review, faults>>

CommitCompletion(w) ==
    LET p == proc[w]
    IN  /\ p.pc = "closing"
        /\ execs' = Ended(p.job, p.exec, "COMPLETED")
        /\ IF StillRunning(p.job, p.exec) THEN Return(w, "completed") ELSE Raise(w, "terminal")
        /\ UNCHANGED <<rowVars, ckpt, reports, decisions, approvals, worker, review, faults>>

\* Mutant: neither the execution nor the retry count is part of it.
Fingerprint_jobOnly(action, j, e, retries) ==
    [action |-> action, job |-> j, exec |-> None, retries |-> 0]

\* fingerprint_policy_decision.  The code's fingerprint also holds the reason,
\* the evaluation run and two more counts, which the model leaves out: a decision
\* whose model fingerprint is on record may still be a new decision.
Fingerprint(action, j, e, retries) ==
    [action |-> action, job |-> j, exec |-> e, retries |-> retries]

\* The await_review transaction: decision, transition and event, or none.
AwaitReview(w) ==
    LET p == proc[w]
        fp == Fingerprint("await_review", p.job, p.exec, jobs[p.job].retries)
    IN  /\ p.pc = "await"
        /\ \/ /\ fp \in decisions
              /\ Return(w, "paused")
              /\ UNCHANGED <<rowVars, decisions>>
           \/ /\ TransitionAwaitingReview(p.job, p.token)
              /\ decisions' = decisions \cup {fp}
              /\ Return(w, "paused")
           \/ /\ LosesClaim(p.job, p.token)
              /\ Raise(w, "terminal")
              /\ UNCHANGED <<rowVars, decisions>>
        /\ UNCHANGED <<execs, ckpt, reports, approvals, worker, review, faults>>

\* Mutant: one retry more than the cap.
Retryable_offByOne(p, retries) == p.out = "retry" /\ retries <= MaxJobRetries

\* decide_for_exception: a transient error is retried below the cap, everything
\* else is terminal.
Retryable(p, retries) == p.out = "retry" /\ retries < MaxJobRetries

\* _handle_exception: the counts are read in a transaction of their own.
HandleException(w) ==
    LET p == proc[w]
        retries == jobs[p.job].retries
    IN  /\ p.pc = "except"
        /\ proc' = [proc EXCEPT ![w] =
             [@ EXCEPT !.retries = retries,
                       !.pc = IF Retryable(p, retries) THEN "retry" ELSE "decide"]]
        /\ UNCHANGED <<db, ckpt, worker, review, faults>>

\* The terminal branch: fail the execution, if there is one.
FailExecution(w) ==
    LET p == proc[w]
    IN  /\ p.pc = "decide"
        /\ \/ p.exec = None /\ Return(w, "terminal")
           \/ p.exec # None /\ OwnsExecution(p.job, p.token, p.exec) /\ Goto(w, "ending")
           \/ p.exec # None /\ LosesExecution(p.job, p.token, p.exec) /\ Return(w, "lost")
        /\ UNCHANGED <<db, ckpt, worker, review, faults>>

CommitFailure(w) ==
    LET p == proc[w]
    IN  /\ p.pc = "ending"
        /\ execs' = Ended(p.job, p.exec, "FAILED")
        /\ Return(w, IF StillRunning(p.job, p.exec) THEN "terminal" ELSE "lost")
        /\ UNCHANGED <<rowVars, ckpt, reports, decisions, approvals, worker, review, faults>>

\* The retry branch: decision, schedule_retry and event in one transaction; a
\* decision that is there already is replayed without a transition.
Retry(w) ==
    LET p == proc[w]
        j == p.job
        fp == Fingerprint("retry", j, p.exec, p.retries)
    IN  /\ p.pc = "retry"
        /\ \/ /\ fp \in decisions
              /\ Return(w, "retry")
              /\ UNCHANGED <<rowVars, execs, decisions>>
           \/ /\ p.exec # None => OwnsExecution(j, p.token, p.exec)
              /\ ScheduleRetry(j, p.token)
              /\ decisions' = decisions \cup {fp}
              /\ execs' = IF p.exec = None THEN execs
                          ELSE [execs EXCEPT ![p.exec].status = "ABANDONED"]
              /\ Return(w, "retry")
           \/ /\ IF p.exec = None THEN LosesClaim(j, p.token)
                                  ELSE LosesExecution(j, p.token, p.exec)
              /\ Return(w, "lost")
              /\ UNCHANGED <<rowVars, execs, decisions>>
        /\ UNCHANGED <<ckpt, reports, approvals, worker, review, faults>>

-----------------------------------------------------------------------------
(* The operator: ReviewDecisionService.submit_decision *)

\* First transaction and the checkpoint check that follows it without a lock.
ReviewReady(j) ==
    LET e == jobs[j].active
    IN  /\ jobs[j].status = "AWAITING_REVIEW"
        /\ e # None /\ execs[e] = [job |-> j, status |-> "RUNNING"]
        /\ ckpt[e] \in NextIsComplete
        /\ review' = [review EXCEPT ![j] = e]
        /\ UNCHANGED <<db, ckpt, worker, proc, faults>>

\* Second transaction, which checks status and execution again.  Another
\* request that passed the same checks may still be under way afterwards.
StillInReview(j) == jobs[j].status = "AWAITING_REVIEW" /\ jobs[j].active = review[j]

Approve(j) ==
    /\ review[j] # None /\ StillInReview(j)
    /\ approvals' = approvals \cup {review[j]}
    /\ ApproveReviewToPending(j)
    /\ review' \in {review, [review EXCEPT ![j] = None]}
    /\ UNCHANGED <<execs, ckpt, reports, decisions, worker, proc, faults>>

\* A rejection fails execution and job; it enqueues no event.
Reject(j) ==
    /\ review[j] # None /\ StillInReview(j)
    /\ execs[review[j]].status = "RUNNING"
    /\ execs' = [execs EXCEPT ![review[j]].status = "FAILED"]
    /\ FailFromReview(j)
    /\ review' \in {review, [review EXCEPT ![j] = None]}
    /\ UNCHANGED <<ckpt, reports, decisions, approvals, worker, proc, faults>>

\* The second transaction finds the job moved on (ReviewReadinessError).
ReviewTooLate(j) ==
    /\ review[j] # None /\ ~StillInReview(j)
    /\ review' = [review EXCEPT ![j] = None]
    /\ UNCHANGED <<db, ckpt, worker, proc, faults>>

-----------------------------------------------------------------------------
Processor(w) ==
    \/ Enter(w) \/ ShortCircuit(w) \/ BindResume(w) \/ BindCreate(w)
    \/ OpenCheckpoint(w) \/ RunNodes(w) \/ PersistFinal(w) \/ PutResult(w)
    \/ ProcessingError(w) \/ EscapingError(w)
    \/ PostInvoke(w) \/ BadCheckpoint(w) \/ CommitBadCheckpoint(w)
    \/ CompleteExecution(w) \/ CommitCompletion(w) \/ AwaitReview(w)
    \/ HandleException(w) \/ FailExecution(w) \/ CommitFailure(w) \/ Retry(w)

Polling(w) ==
    \/ \E j \in Jobs : Claim(w, j)
    \/ Timeout(w) \/ Finalize(w) \/ FinalizeError(w) \/ Crash(w) \/ Restart(w)

Operator(j) == ReviewReady(j) \/ Approve(j) \/ Reject(j) \/ ReviewTooLate(j)

Next ==
    \/ \E j \in Jobs : Submit(j) \/ LeaseEnds(j) \/ RetryIsDue(j) \/ Operator(j)
    \/ \E w \in Workers : Polling(w) \/ Processor(w)

Spec == Init /\ [][Next]_vars

\* Threads are scheduled, workers poll, time passes and the supervisor restarts a
\* closed worker.  Neither a fault nor an operator's answer is ever owed.
Fairness ==
    /\ \A w \in Workers :
         /\ WF_vars(Processor(w))
         /\ WF_vars(\E j \in Jobs : Claim(w, j))
         /\ WF_vars(Finalize(w))
         /\ WF_vars(Restart(w))
    /\ \A j \in Jobs :
         /\ WF_vars(LeaseEnds(j))
         /\ WF_vars(RetryIsDue(j))

FairSpec == Spec /\ Fairness

-----------------------------------------------------------------------------
(* Correctness *)

Proc == [pc : Pcs, job : Jobs \cup {None}, token : Tokens \cup {None}, mode : Modes,
         active : ExecIds \cup {None}, exec : ExecIds \cup {None}, at : Positions,
         retries : Nat, out : Outcomes]

\* Every table and every thread holds values of its declared kind.
TypeOK ==
    /\ RowTypeOK
    /\ execs \in [ExecIds -> [job : Jobs \cup {None}, status : ExecStatuses]]
    /\ ckpt \in [ExecIds -> Positions]
    /\ reports \subseteq ExecIds
    /\ decisions \subseteq [action : {"retry", "await_review"}, job : Jobs,
                            exec : ExecIds \cup {None}, retries : Nat]
    /\ approvals \subseteq ExecIds
    /\ worker \in [Workers -> {"idle", "wait", "timedout", "closed"}]
    /\ proc \in [Workers -> Proc]
    /\ review \in [Jobs -> ExecIds \cup {None}]
    /\ faults \in Nat

\* A processor that reports a pause or a scheduled retry has made the
\* transition, or lost its claim: the worker finalizes neither outcome, so a
\* replayed decision fingerprint must never leave the job RUNNING under it.
DeferredMeansTransitioned ==
    \A w \in Workers :
      proc[w].pc = "returned" /\ proc[w].out \in {"paused", "retry"} =>
        ~HoldsToken(proc[w].job, proc[w].token)

\* A COMPLETED job has an execution of its own that completed and whose report
\* is persisted, whichever of several processors, replays or short circuits
\* produced the CompletedProcessing that was finalized.
CompletedHasReport ==
    \A j \in Jobs : jobs[j].status = "COMPLETED" =>
      \E e \in reports : execs[e] = [job |-> j, status |-> "COMPLETED"]

SingleRunningExecution ==
    \A e, f \in ExecIds :
      execs[e].status = "RUNNING" /\ execs[f] = execs[e] => e = f
Paused(j) ==
    \/ jobs[j].status = "AWAITING_REVIEW"
    \/ jobs[j].status = "PENDING" /\ jobs[j].mode = "REVIEW_COMPLETE"
PausedKeepsExecution ==
    \A j \in Jobs : Paused(j) =>
      /\ execs[jobs[j].active].job = j
      /\ execs[jobs[j].active].status \in {"RUNNING", "COMPLETED", "FAILED"}
\* The executions agree with the job they belong to.  At most one is RUNNING,
\* whoever was rolled back while binding a new one; and what waits for an
\* operator, or was approved and waits for a worker, still has its execution:
\* nobody has abandoned it for another.  (It may be COMPLETED or FAILED, by the
\* late commit of a processor that lost the claim meanwhile, see README.)
ExecutionsAgree == SingleRunningExecution /\ PausedKeepsExecution

\* A processor only ever works on a job that is bound to its own worker's
\* evaluation profile, whoever claimed the job first: claim_next never hands
\* out, or rebinds, a job of another profile, so _require_bound_profile never
\* finds a mismatch.
BoundProfile ==
    \A w \in Workers :
      proc[w].pc # "off" => jobs[proc[w].job].profile = ProfileOf[w]

\* Workers, processors and operators change the table only by its transactions,
\* and keep its callers' duties: a retry is scheduled from a count that was read
\* in an earlier transaction, and still the cap is never passed; a pause always
\* has an execution to resume.
ImplementsRows == RowSpec

\* Nobody writes a RUNNING job but the threads of the worker that holds its
\* current claim, and a worker that reclaims it (an expired lease only, unless
\* clocks are skewed); time only ages the lease.  And of all who try to end one
\* execution, late commits and the operator included, one succeeds: the status
\* it ended with is never overwritten.
SteppedBy(w) == proc'[w] # proc[w] \/ worker'[w] # worker[w]
FencedWrites ==
    [][/\ \A j \in Jobs : jobs[j].status = "RUNNING" /\ jobs'[j] # jobs[j] =>
            \/ jobs'[j] = [jobs[j] EXCEPT !.lease = jobs'[j].lease]
            \/ /\ jobs'[j].token \notin spent \cup {None}
               /\ "expired" \in Observed(jobs[j].lease)
            \/ \E w \in Workers : SteppedBy(w) /\ proc[w].job = j
                                  /\ proc[w].token = jobs[j].token
       /\ \A e \in ExecIds :
            execs[e].status \in {"COMPLETED", "FAILED", "ABANDONED"} => execs'[e] = execs[e]]_vars

\* Every submitted job ends, or waits for an operator: leases of dead workers
\* run out, retries run out, closed workers come back.
EveryJobSettles ==
    \A j \in Jobs :
      (jobs[j].status # "ABSENT") ~> (jobs[j].status \in Terminal \cup {"AWAITING_REVIEW"})
=============================================================================
