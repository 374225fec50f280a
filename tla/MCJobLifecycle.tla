--------------------------- MODULE MCJobLifecycle ---------------------------
(* Instances of JobLifecycle for TLC.                                         *)
EXTENDS JobLifecycle, TLC

\* All workers run under one evaluation profile, or each under its own (which
\* the model then names after the worker).
OneProfile == [w \in Workers |-> CHOOSE p \in Profiles : TRUE]
OwnProfile == [w \in Workers |-> w]

SameWorkers == Permutations(Workers)

-----------------------------------------------------------------------------
(* What the design document says, and the code does not do. *)

\* "Report artifact persistence is idempotent by workflow_execution_id so a
\* commit-before-job-finalize window can safely retry"
\* (docs/TECHNICAL_DESIGN.md).  When a worker dies in that window, the claim
\* that takes over finds the report and the COMPLETED execution; _bind must go
\* on with it.  After a review it raises RuntimeError and the job is failed.
FinalizeWindowRetries ==
    [][\A w \in Workers :
         LET p == proc[w] IN
         /\ BindResume(w) /\ HoldsToken(p.job, p.token)
         /\ p.active \in reports /\ execs[p.active].status = "COMPLETED"
         => proc'[w].pc = "open"]_vars

\* "after B reclaims, A cannot complete/fail/abandon" (docs/TESTING.md), and
\* "Fail RUNNING execution only under a valid job claim fence"
\* (fail_execution_for_claim).  The claim is read in an unlocked subselect: A's
\* UPDATE may pass it and commit after B has reclaimed the job, resumed the same
\* execution and paused for review.  The job then waits for a decision that
\* submit_decision refuses, because the execution is not RUNNING.
PausedIsNotFailed ==
    \A j \in Jobs : Paused(j) => execs[jobs[j].active].status # "FAILED"
=============================================================================
