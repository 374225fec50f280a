---------------------------- MODULE ResearchJobs ----------------------------
(***************************************************************************)
(* The research_jobs table and the domain events enqueued with it: the     *)
(* transitions of domain/research_job.py as the transactions of            *)
(* persistence/repositories/research_job.py perform them.  RowSpec is what *)
(* the table promises whoever calls: any caller may present any claim      *)
(* token at any time.  JobLifecycle has the actual callers, and implements *)
(* RowSpec.                                                                *)
(*                                                                         *)
(* What a caller is allowed depends on the comparison of its clock reading *)
(* with lease_expires_at and with next_attempt_at, and the model keeps the *)
(* outcome: a lease is "live" (now < lease), on the "edge" (now = lease)   *)
(* or "expired" (lease < now), a delay is "future" or "due".  The order    *)
(* among created_at, updated_at, started_at and the end (in the CHECK and, *)
(* before it, in _ensure_not_before and _ensure_order) is left out: a      *)
(* reading earlier than the row's makes the transaction raise and write    *)
(* nothing.                                                                *)
(***************************************************************************)
EXTENDS Integers, Sequences, FiniteSets

CONSTANTS
    Jobs,          \* research job ids
    Tokens,        \* claim tokens (secrets.token_hex), never drawn twice
    ExecIds,       \* workflow execution ids (uuid4), never drawn twice
    Profiles,      \* evaluation profiles
    None,          \* SQL NULL / Python None
    MaxJobRetries, \* MAX_JOB_RETRIES of recovery/policy.py
    SkewedClocks   \* whether clock readings may be stale or differ by host

ASSUME NoneAssumption == None \notin Tokens \cup ExecIds \cup Profiles
ASSUME RetryAssumption == MaxJobRetries \in Nat
ASSUME SkewAssumption == SkewedClocks \in BOOLEAN

Statuses == {"ABSENT", "PENDING", "RUNNING", "AWAITING_REVIEW", "COMPLETED", "FAILED"}
Terminal == {"COMPLETED", "FAILED"}
Modes == {"NONE", "JOB_RETRY", "REVIEW_COMPLETE"}
LeasePhases == {"none", "live", "edge", "expired"}
DelayPhases == {"none", "future", "due"}
EventTypes == {"created", "retry_scheduled", "awaiting_review", "completed", "failed"}

VARIABLES
    jobs,   \* research_jobs
    outbox, \* domain events of each job, in commit order
    spent   \* claim tokens drawn so far

rowVars == <<jobs, outbox, spent>>

Row == [status : Statuses, started : BOOLEAN, token : Tokens \cup {None},
        lease : LeasePhases, next_attempt : DelayPhases, mode : Modes,
        claimed_mode : Modes, active : ExecIds \cup {None}, retries : Nat,
        profile : Profiles \cup {None}]

NoRow == [status |-> "ABSENT", started |-> FALSE, token |-> None, lease |-> "none",
          next_attempt |-> "none", mode |-> "NONE", claimed_mode |-> "NONE",
          active |-> None, retries |-> 0, profile |-> None]

RowInit ==
    /\ jobs = [j \in Jobs |-> NoRow]
    /\ outbox = [j \in Jobs |-> <<>>]
    /\ spent = {}

-----------------------------------------------------------------------------
(* Clock readings and the claim fence *)

\* The phases of a lease a caller may see: datetime.now() is read before the
\* row is locked, and on another host than the one that wrote the lease.
Observed(phase) ==
    IF SkewedClocks THEN {"live", "edge", "expired"} ELSE {phase}

HoldsToken(j, tok) == jobs[j].status = "RUNNING" /\ jobs[j].token = tok

\* Mutant: the row is fenced by its lease alone.
Owns_leaseOnly(j, tok) == "live" \in Observed(jobs[j].lease)
\* _owns_running_claim may answer True, may answer False.
Owns(j, tok) == HoldsToken(j, tok) /\ "live" \in Observed(jobs[j].lease)
LosesClaim(j, tok) ==
    HoldsToken(j, tok) => Observed(jobs[j].lease) \cap {"edge", "expired"} # {}

-----------------------------------------------------------------------------
(* What a transition makes of a row *)

\* ResearchJob.create
NewRow == [NoRow EXCEPT !.status = "PENDING"]

\* claim_next: a PENDING row moves its continuation mode into
\* claimed_continuation_mode, an expired RUNNING row keeps the one it has.
ClaimedRow(row, tok, profile) ==
    [row EXCEPT !.status = "RUNNING", !.started = TRUE, !.token = tok, !.lease = "live",
                !.next_attempt = "none",
                !.claimed_mode = IF row.status = "PENDING" THEN row.mode ELSE @,
                !.mode = "NONE", !.profile = profile]

\* Mutant: claimed_continuation_mode survives the claim.
Cleared_keepsMode(row) ==
    [row EXCEPT !.token = None, !.lease = "none", !.next_attempt = "none",
                !.mode = "NONE", !.active = None]

\* _clear_claim_and_continuation
Cleared(row) ==
    [row EXCEPT !.token = None, !.lease = "none", !.next_attempt = "none",
                !.mode = "NONE", !.claimed_mode = "NONE", !.active = None]

\* ResearchJob.complete, fail and fail_from_review, and the claim released.
EndedRow(row, status) == [Cleared(row) EXCEPT !.status = status]

BoundRow(row, e) == [row EXCEPT !.active = e]

\* Mutants: the retry is not counted; the count runs down.
RetryRow_uncounted(row) ==
    [Cleared(row) EXCEPT !.status = "PENDING", !.mode = "JOB_RETRY", !.next_attempt = "future"]
RetryRow_countdown(row) ==
    [Cleared(row) EXCEPT !.status = "PENDING", !.retries = @ - 1,
                         !.mode = "JOB_RETRY", !.next_attempt = "future"]

\* ResearchJob.return_to_pending: one retry on, not before its backoff.
RetryRow(row) ==
    [Cleared(row) EXCEPT !.status = "PENDING", !.retries = @ + 1,
                         !.mode = "JOB_RETRY", !.next_attempt = "future"]

\* ResearchJob.await_review: the execution stays bound, the claim is released.
ReviewRow(row) ==
    [row EXCEPT !.status = "AWAITING_REVIEW", !.token = None, !.lease = "none",
                !.claimed_mode = "NONE"]

\* ResearchJob.approve_to_pending: due at once, with the mode that completes it.
ApprovedRow(row) ==
    [row EXCEPT !.status = "PENDING", !.mode = "REVIEW_COMPLETE", !.next_attempt = "due"]

\* Time passes.
AgedRow(row) == [row EXCEPT !.lease = IF @ = "live" THEN "edge" ELSE "expired"]
DueRow(row) == [row EXCEPT !.next_attempt = "due"]

-----------------------------------------------------------------------------
(* The transactions of the repository *)

Write(j, row) == jobs' = [jobs EXCEPT ![j] = row]
Enqueue(j, event) == outbox' = [outbox EXCEPT ![j] = Append(@, event)]

\* add, with the created event of ResearchJobService.submit.
Add(j) ==
    /\ jobs[j].status = "ABSENT"
    /\ Write(j, NewRow)
    /\ Enqueue(j, "created")
    /\ UNCHANGED spent

\* Mutants: a job of another profile is handed out; a dead worker's is not.
Eligible_anyProfile(j, profile) ==
    \/ jobs[j].status = "PENDING" /\ jobs[j].next_attempt \in {"none", "due"}
    \/ jobs[j].status = "RUNNING" /\ "expired" \in Observed(jobs[j].lease)
Eligible_pendingOnly(j, profile) ==
    /\ jobs[j].status = "PENDING" /\ jobs[j].next_attempt \in {"none", "due"}
    /\ jobs[j].profile \in {None, profile}

\* The WHERE clause of claim_next.
Eligible(j, profile) ==
    /\ \/ jobs[j].status = "PENDING" /\ jobs[j].next_attempt \in {"none", "due"}
       \/ jobs[j].status = "RUNNING" /\ "expired" \in Observed(jobs[j].lease)
    /\ jobs[j].profile \in {None, profile}

ClaimNext(j, tok, profile) ==
    /\ Eligible(j, profile)
    /\ spent' = spent \cup {tok}
    /\ Write(j, ClaimedRow(jobs[j], tok, profile))
    /\ UNCHANGED outbox

\* finalize_completion, finalize_failure, and the event of the worker.
FinalizeCompletion(j, tok) ==
    /\ Owns(j, tok)
    /\ Write(j, EndedRow(jobs[j], "COMPLETED"))
    /\ Enqueue(j, "completed")
    /\ UNCHANGED spent

\* Mutant: no failed event in the transaction.
FinalizeFailure_silent(j, tok) ==
    /\ Owns(j, tok)
    /\ Write(j, EndedRow(jobs[j], "FAILED"))
    /\ UNCHANGED <<outbox, spent>>

FinalizeFailure(j, tok) ==
    /\ Owns(j, tok)
    /\ Write(j, EndedRow(jobs[j], "FAILED"))
    /\ Enqueue(j, "failed")
    /\ UNCHANGED spent

SetActiveWorkflowExecution(j, tok, e) ==
    /\ Owns(j, tok)
    /\ Write(j, BoundRow(jobs[j], e))
    /\ UNCHANGED <<outbox, spent>>

ScheduleRetry(j, tok) ==
    /\ Owns(j, tok)
    /\ Write(j, RetryRow(jobs[j]))
    /\ Enqueue(j, "retry_scheduled")
    /\ UNCHANGED spent

TransitionAwaitingReview(j, tok) ==
    /\ Owns(j, tok)
    /\ Write(j, ReviewRow(jobs[j]))
    /\ Enqueue(j, "awaiting_review")
    /\ UNCHANGED spent

ApproveReviewToPending(j) ==
    /\ jobs[j].status = "AWAITING_REVIEW"
    /\ Write(j, ApprovedRow(jobs[j]))
    /\ UNCHANGED <<outbox, spent>>

\* A rejection enqueues no event.
FailFromReview(j) ==
    /\ jobs[j].status = "AWAITING_REVIEW"
    /\ Write(j, EndedRow(jobs[j], "FAILED"))
    /\ UNCHANGED <<outbox, spent>>

\* With skewed clocks every phase can be observed at any time already.
LeaseAges(j) ==
    /\ ~SkewedClocks
    /\ jobs[j].lease \in {"live", "edge"}
    /\ Write(j, AgedRow(jobs[j]))
    /\ UNCHANGED <<outbox, spent>>

DelayEnds(j) ==
    /\ jobs[j].next_attempt = "future"
    /\ Write(j, DueRow(jobs[j]))
    /\ UNCHANGED <<outbox, spent>>

\* The two duties the table leaves to its callers: a retry is scheduled below
\* the cap only, a job pauses with an execution bound.
RowStep(j) ==
    \/ Add(j) \/ LeaseAges(j) \/ DelayEnds(j)
    \/ \E tok \in Tokens \ spent, profile \in Profiles : ClaimNext(j, tok, profile)
    \/ \E tok \in Tokens :
         \/ FinalizeCompletion(j, tok) \/ FinalizeFailure(j, tok)
         \/ \E e \in ExecIds : SetActiveWorkflowExecution(j, tok, e)
         \/ jobs[j].retries < MaxJobRetries /\ ScheduleRetry(j, tok)
         \/ jobs[j].active # None /\ TransitionAwaitingReview(j, tok)
    \/ ApproveReviewToPending(j) \/ FailFromReview(j)

RowNext == \E j \in Jobs : RowStep(j)

RowSpec == RowInit /\ [][RowNext]_rowVars

-----------------------------------------------------------------------------
(* Correctness *)

\* The columns hold values of their declared kind.
RowTypeOK ==
    /\ jobs \in [Jobs -> Row]
    /\ outbox \in [Jobs -> Seq(EventTypes)]
    /\ spent \subseteq Tokens

Unclaimed(row) == row.token = None /\ row.lease = "none" /\ row.claimed_mode = "NONE"

\* What the CHECK constraint ck_research_jobs_status_fields says of the fields of
\* each status, without the order of the timestamps, the claim/lease pair and the
\* retry cap hold of every row any interleaving writes: no commit of a worker, a
\* processor or an operator is refused by the database for one of these.
FieldsOK(row) ==
    /\ row.retries <= MaxJobRetries
    /\ row.started => row.profile # None
    /\ row.status = "ABSENT" => row = NoRow
    /\ row.status = "PENDING" =>
         /\ Unclaimed(row)
         /\ \/ ~row.started /\ row.next_attempt = "none" /\ row.mode = "NONE" /\ row.active = None
            \/ row.started /\ row.next_attempt # "none" /\ row.mode = "JOB_RETRY" /\ row.active = None
            \/ row.started /\ row.next_attempt # "none" /\ row.mode = "REVIEW_COMPLETE" /\ row.active # None
    /\ row.status = "RUNNING" =>
         /\ row.started /\ row.next_attempt = "none" /\ row.mode = "NONE"
         /\ row.token # None /\ row.lease # "none"
         /\ row.claimed_mode = "REVIEW_COMPLETE" => row.active # None
    /\ row.status = "AWAITING_REVIEW" =>
         /\ row.started /\ Unclaimed(row) /\ row.next_attempt = "none"
         /\ row.mode = "NONE" /\ row.active # None
    /\ row.status \in Terminal =>
         /\ row.started /\ Unclaimed(row) /\ row.next_attempt = "none"
         /\ row.mode = "NONE" /\ row.active = None

StatusFields == \A j \in Jobs : FieldsOK(jobs[j])

\* The outbox tells the job's story: whatever crashes, expires or races, the
\* events enqueued for a job end in the one that its row calls for.  (A rejected
\* job ends in awaiting_review: submit_decision enqueues nothing.)
ExpectedEvent(mode) ==
    CASE mode = "NONE" -> "created"
      [] mode = "JOB_RETRY" -> "retry_scheduled"
      [] mode = "REVIEW_COMPLETE" -> "awaiting_review"

EventsOK(row, events) ==
    LET last == events[Len(events)] IN
    /\ (events = <<>>) <=> (row.status = "ABSENT")
    /\ row.status = "PENDING" => last = ExpectedEvent(row.mode)
    /\ row.status = "RUNNING" => last = ExpectedEvent(row.claimed_mode)
    /\ row.status = "AWAITING_REVIEW" => last = "awaiting_review"
    /\ row.status = "COMPLETED" => last = "completed"
    /\ row.status = "FAILED" => last \in {"failed", "awaiting_review"}

OutboxMatchesRow == \A j \in Jobs : EventsOK(jobs[j], outbox[j])

\* There is one retry_scheduled event per counted retry, never two for one.
RetryEvents(events) == {i \in DOMAIN events : events[i] = "retry_scheduled"}
RetriesAnnounced ==
    \A j \in Jobs : jobs[j].retries = Cardinality(RetryEvents(outbox[j]))

\* A terminal job never changes again, and nothing is enqueued for it.
TerminalIsFinal ==
    [][\A j \in Jobs : jobs[j].status \in Terminal =>
         jobs'[j] = jobs[j] /\ outbox'[j] = outbox[j]]_rowVars
=============================================================================
