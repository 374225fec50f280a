------------------------ MODULE ResearchJobs_proofs ------------------------
(***************************************************************************)
(* Proofs about ResearchJobs, for any number of jobs, claim tokens and     *)
(* executions, any retry cap, with exact or skewed clocks.                 *)
(***************************************************************************)
EXTENDS ResearchJobs, FiniteSetTheorems, TLAPS

-----------------------------------------------------------------------------
(* What the operators on rows return, field by field. *)

\* Clearing a claim keeps status, started, retries and profile.
LEMMA ClearedFields ==
  ASSUME NEW row \in Row
  PROVE  /\ Cleared(row) \in Row
         /\ Cleared(row).status = row.status
         /\ Cleared(row).started = row.started
         /\ Cleared(row).token = None
         /\ Cleared(row).lease = "none"
         /\ Cleared(row).next_attempt = "none"
         /\ Cleared(row).mode = "NONE"
         /\ Cleared(row).claimed_mode = "NONE"
         /\ Cleared(row).active = None
         /\ Cleared(row).retries = row.retries
         /\ Cleared(row).profile = row.profile
  BY DEF Row, Cleared, LeasePhases, DelayPhases, Modes

\* Ending a job clears its claim and sets its status.
LEMMA EndedFields ==
  ASSUME NEW row \in Row, NEW s \in Statuses
  PROVE  /\ EndedRow(row, s) \in Row
         /\ EndedRow(row, s).status = s
         /\ EndedRow(row, s).started = row.started
         /\ EndedRow(row, s).token = None
         /\ EndedRow(row, s).lease = "none"
         /\ EndedRow(row, s).next_attempt = "none"
         /\ EndedRow(row, s).mode = "NONE"
         /\ EndedRow(row, s).claimed_mode = "NONE"
         /\ EndedRow(row, s).active = None
         /\ EndedRow(row, s).retries = row.retries
         /\ EndedRow(row, s).profile = row.profile
  BY ClearedFields DEF EndedRow, Row

\* A scheduled retry counts, and waits unclaimed in mode JOB_RETRY.
LEMMA RetryFields ==
  ASSUME NEW row \in Row
  PROVE  /\ RetryRow(row) \in Row
         /\ RetryRow(row).status = "PENDING"
         /\ RetryRow(row).started = row.started
         /\ RetryRow(row).token = None
         /\ RetryRow(row).lease = "none"
         /\ RetryRow(row).next_attempt = "future"
         /\ RetryRow(row).mode = "JOB_RETRY"
         /\ RetryRow(row).claimed_mode = "NONE"
         /\ RetryRow(row).active = None
         /\ RetryRow(row).retries = row.retries + 1
         /\ RetryRow(row).profile = row.profile
  <1> DEFINE c == Cleared(row)
  <1>1. c \in Row /\ c.retries + 1 \in Nat
    BY ClearedFields DEF Row
  <1>2. /\ c.started = row.started /\ c.token = None /\ c.lease = "none"
        /\ c.claimed_mode = "NONE" /\ c.active = None /\ c.retries = row.retries
        /\ c.profile = row.profile
    BY ClearedFields
  <1>3. RetryRow(row) = [c EXCEPT !.status = "PENDING", !.retries = @ + 1,
                                  !.mode = "JOB_RETRY", !.next_attempt = "future"]
    BY DEF RetryRow
  <1> HIDE DEF c
  <1> DEFINE n == c.retries + 1
  <1>4. RetryRow(row) = [c EXCEPT !.status = "PENDING", !.retries = n,
                                  !.mode = "JOB_RETRY", !.next_attempt = "future"]
    BY <1>3
  <1>5. n \in Nat /\ n = row.retries + 1
    BY <1>1, <1>2
  <1>6. n \in Nat
    BY <1>5
  <1> HIDE DEF n
  <1> DEFINE r == RetryRow(row)
  <1>7. /\ r \in Row /\ r.status = "PENDING" /\ r.started = c.started /\ r.token = c.token
        /\ r.lease = c.lease /\ r.next_attempt = "future" /\ r.mode = "JOB_RETRY"
        /\ r.claimed_mode = c.claimed_mode /\ r.active = c.active /\ r.retries = n
        /\ r.profile = c.profile
    <2>1. c \in Row
      BY <1>1
    <2> QED
      BY <2>1, <1>4, <1>6 DEF Row, Statuses, Modes, DelayPhases
  <1> QED
    BY <1>2, <1>5, <1>7

\* A new job is PENDING and otherwise empty.
LEMMA NewFields ==
         /\ NewRow \in Row
         /\ NewRow.status = "PENDING"
         /\ NewRow.started = FALSE
         /\ NewRow.token = None
         /\ NewRow.lease = "none"
         /\ NewRow.next_attempt = "none"
         /\ NewRow.mode = "NONE"
         /\ NewRow.claimed_mode = "NONE"
         /\ NewRow.active = None
         /\ NewRow.retries = 0
         /\ NewRow.profile = None
  BY DEF NewRow, NoRow, Row, Statuses, Modes, DelayPhases, LeasePhases

\* Time changes nothing but the lease, which stays set.
LEMMA AgedFields ==
  ASSUME NEW row \in Row
  PROVE  /\ AgedRow(row) \in Row
         /\ AgedRow(row).status = row.status
         /\ AgedRow(row).started = row.started
         /\ AgedRow(row).token = row.token
         /\ AgedRow(row).lease = IF row.lease = "live" THEN "edge" ELSE "expired"
         /\ AgedRow(row).next_attempt = row.next_attempt
         /\ AgedRow(row).mode = row.mode
         /\ AgedRow(row).claimed_mode = row.claimed_mode
         /\ AgedRow(row).active = row.active
         /\ AgedRow(row).retries = row.retries
         /\ AgedRow(row).profile = row.profile
  BY DEF AgedRow, Row, LeasePhases

\* The end of a delay changes nothing but next_attempt.
LEMMA DueFields ==
  ASSUME NEW row \in Row
  PROVE  /\ DueRow(row) \in Row
         /\ DueRow(row).status = row.status
         /\ DueRow(row).started = row.started
         /\ DueRow(row).token = row.token
         /\ DueRow(row).lease = row.lease
         /\ DueRow(row).next_attempt = "due"
         /\ DueRow(row).mode = row.mode
         /\ DueRow(row).claimed_mode = row.claimed_mode
         /\ DueRow(row).active = row.active
         /\ DueRow(row).retries = row.retries
         /\ DueRow(row).profile = row.profile
  BY DEF DueRow, Row, DelayPhases

\* A claim takes the pending mode of a PENDING row, or keeps the claimed one.
LEMMA ClaimedFields ==
  ASSUME NEW row \in Row, NEW tok \in Tokens, NEW profile \in Profiles
  PROVE  /\ ClaimedRow(row, tok, profile) \in Row
         /\ ClaimedRow(row, tok, profile).status = "RUNNING"
         /\ ClaimedRow(row, tok, profile).started
         /\ ClaimedRow(row, tok, profile).token = tok
         /\ ClaimedRow(row, tok, profile).lease = "live"
         /\ ClaimedRow(row, tok, profile).next_attempt = "none"
         /\ ClaimedRow(row, tok, profile).mode = "NONE"
         /\ ClaimedRow(row, tok, profile).claimed_mode
              = (IF row.status = "PENDING" THEN row.mode ELSE row.claimed_mode)
         /\ ClaimedRow(row, tok, profile).active = row.active
         /\ ClaimedRow(row, tok, profile).retries = row.retries
         /\ ClaimedRow(row, tok, profile).profile = profile
  BY DEF ClaimedRow, Row, Statuses, Modes, DelayPhases, LeasePhases

\* Binding sets nothing but the active execution.
LEMMA BoundFields ==
  ASSUME NEW row \in Row, NEW e \in ExecIds
  PROVE  /\ BoundRow(row, e) \in Row
         /\ BoundRow(row, e).status = row.status
         /\ BoundRow(row, e).started = row.started
         /\ BoundRow(row, e).token = row.token
         /\ BoundRow(row, e).lease = row.lease
         /\ BoundRow(row, e).next_attempt = row.next_attempt
         /\ BoundRow(row, e).mode = row.mode
         /\ BoundRow(row, e).claimed_mode = row.claimed_mode
         /\ BoundRow(row, e).active = e
         /\ BoundRow(row, e).retries = row.retries
         /\ BoundRow(row, e).profile = row.profile
  BY DEF BoundRow, Row

\* A pause releases the claim and keeps the execution.
LEMMA ReviewFields ==
  ASSUME NEW row \in Row
  PROVE  /\ ReviewRow(row) \in Row
         /\ ReviewRow(row).status = "AWAITING_REVIEW"
         /\ ReviewRow(row).started = row.started
         /\ ReviewRow(row).token = None
         /\ ReviewRow(row).lease = "none"
         /\ ReviewRow(row).next_attempt = row.next_attempt
         /\ ReviewRow(row).mode = row.mode
         /\ ReviewRow(row).claimed_mode = "NONE"
         /\ ReviewRow(row).active = row.active
         /\ ReviewRow(row).retries = row.retries
         /\ ReviewRow(row).profile = row.profile
  BY DEF ReviewRow, Row, Statuses, Modes, LeasePhases

\* An approval makes the job due in mode REVIEW_COMPLETE.
LEMMA ApprovedFields ==
  ASSUME NEW row \in Row
  PROVE  /\ ApprovedRow(row) \in Row
         /\ ApprovedRow(row).status = "PENDING"
         /\ ApprovedRow(row).started = row.started
         /\ ApprovedRow(row).token = row.token
         /\ ApprovedRow(row).lease = row.lease
         /\ ApprovedRow(row).next_attempt = "due"
         /\ ApprovedRow(row).mode = "REVIEW_COMPLETE"
         /\ ApprovedRow(row).claimed_mode = row.claimed_mode
         /\ ApprovedRow(row).active = row.active
         /\ ApprovedRow(row).retries = row.retries
         /\ ApprovedRow(row).profile = row.profile
  BY DEF ApprovedRow, Row, Statuses, Modes, DelayPhases

-----------------------------------------------------------------------------
(* Every row operator keeps the fields consistent with the status. *)

\* A row that does not exist, or was just created, is consistent.
LEMMA NewRowOK == FieldsOK(NoRow) /\ FieldsOK(NewRow)
  <1>1. FieldsOK(NoRow)
    BY RetryAssumption DEF FieldsOK, NoRow, Terminal
  <1>2. FieldsOK(NewRow)
    BY NewFields, RetryAssumption DEF FieldsOK, Unclaimed, Terminal
  <1> QED
    BY <1>1, <1>2

\* What claim_next hands out is consistent.
LEMMA ClaimedRowOK ==
  ASSUME NEW row \in Row, NEW tok \in Tokens, NEW profile \in Profiles,
         FieldsOK(row), row.status \in {"PENDING", "RUNNING"}
  PROVE  FieldsOK(ClaimedRow(row, tok, profile))
  <1> DEFINE c == ClaimedRow(row, tok, profile)
  <1>1. /\ c.status = "RUNNING" /\ c.started /\ c.token = tok /\ c.lease = "live"
        /\ c.next_attempt = "none" /\ c.mode = "NONE" /\ c.active = row.active
        /\ c.retries = row.retries /\ c.profile = profile
        /\ c.claimed_mode = (IF row.status = "PENDING" THEN row.mode ELSE row.claimed_mode)
    BY ClaimedFields
  <1>2. tok # None /\ profile # None
    BY NoneAssumption
  <1>3. row.retries <= MaxJobRetries
    BY DEF FieldsOK
  <1>4. c.claimed_mode = "REVIEW_COMPLETE" => c.active # None
    BY <1>1 DEF FieldsOK
  <1> HIDE DEF c
  <1>5. FieldsOK(c)
    BY <1>1, <1>2, <1>3, <1>4 DEF FieldsOK, Terminal
  <1> QED
    BY <1>5 DEF c

\* A job that ends has been started.
LEMMA EndedRowOK ==
  ASSUME NEW row \in Row, NEW s \in Terminal,
         FieldsOK(row), row.status \in {"RUNNING", "AWAITING_REVIEW"}
  PROVE  FieldsOK(EndedRow(row, s))
  <1>1. s \in Statuses
    BY DEF Terminal, Statuses
  <1> QED
    BY <1>1, EndedFields DEF FieldsOK, Unclaimed, Terminal, Row

\* Binding an execution keeps a RUNNING row consistent.
LEMMA BoundRowOK ==
  ASSUME NEW row \in Row, NEW e \in ExecIds, FieldsOK(row), row.status = "RUNNING"
  PROVE  FieldsOK(BoundRow(row, e))
  BY BoundFields, NoneAssumption DEF FieldsOK, Unclaimed, Terminal, Row

\* A retry below the cap is consistent.
LEMMA RetryRowOK ==
  ASSUME NEW row \in Row, FieldsOK(row), row.status = "RUNNING",
         row.retries < MaxJobRetries
  PROVE  FieldsOK(RetryRow(row))
  <1>1. row.retries \in Nat /\ RetryRow(row).retries = row.retries + 1
    BY RetryFields DEF Row
  <1>2. RetryRow(row).retries <= MaxJobRetries
    BY <1>1, RetryAssumption
  <1>3. /\ RetryRow(row).status = "PENDING" /\ RetryRow(row).started = row.started
        /\ RetryRow(row).token = None /\ RetryRow(row).lease = "none"
        /\ RetryRow(row).next_attempt = "future" /\ RetryRow(row).mode = "JOB_RETRY"
        /\ RetryRow(row).claimed_mode = "NONE" /\ RetryRow(row).active = None
        /\ RetryRow(row).profile = row.profile
    BY RetryFields
  <1>4. row.started /\ row.profile # None
    BY DEF FieldsOK
  <1> QED
    BY <1>2, <1>3, <1>4 DEF FieldsOK, Unclaimed, Terminal

\* A pause with an execution bound is consistent.
LEMMA ReviewRowOK ==
  ASSUME NEW row \in Row, FieldsOK(row), row.status = "RUNNING", row.active # None
  PROVE  FieldsOK(ReviewRow(row))
  BY ReviewFields DEF FieldsOK, Unclaimed, Terminal, Row

\* An approval of a paused job is consistent.
LEMMA ApprovedRowOK ==
  ASSUME NEW row \in Row, FieldsOK(row), row.status = "AWAITING_REVIEW"
  PROVE  FieldsOK(ApprovedRow(row))
  BY ApprovedFields DEF FieldsOK, Unclaimed, Terminal, Row

\* Only a RUNNING row has a lease, and only a PENDING one a delay.
LEMMA TimedRows ==
  ASSUME NEW row \in Row, FieldsOK(row)
  PROVE  /\ row.lease # "none" => row.status = "RUNNING"
         /\ row.next_attempt # "none" => row.status = "PENDING"
  BY DEF FieldsOK, Unclaimed, NoRow, Row, Statuses, Terminal

\* Time keeps a row consistent.
LEMMA AgedRowOK ==
  ASSUME NEW row \in Row, FieldsOK(row)
  PROVE  /\ row.lease # "none" => FieldsOK(AgedRow(row))
         /\ row.next_attempt # "none" => FieldsOK(DueRow(row))
  <1>1. row.lease # "none" => FieldsOK(AgedRow(row))
    BY TimedRows, AgedFields DEF FieldsOK, Unclaimed, Terminal, Row
  <1>2. row.next_attempt # "none" => FieldsOK(DueRow(row))
    BY TimedRows, DueFields DEF FieldsOK, Unclaimed, Terminal, Row
  <1> QED
    BY <1>1, <1>2

-----------------------------------------------------------------------------
(* The effect of a transaction on the tables *)

\* A write changes one row.
LEMMA WriteEffect ==
  ASSUME RowTypeOK, NEW j \in Jobs, NEW row \in Row, Write(j, row)
  PROVE  /\ jobs' \in [Jobs -> Row]
         /\ jobs'[j] = row
         /\ \A i \in Jobs : i # j => jobs'[i] = jobs[i]
  BY DEF RowTypeOK, Write

\* An enqueued event is the last one of its job.
LEMMA EnqueueEffect ==
  ASSUME RowTypeOK, NEW j \in Jobs, NEW event \in EventTypes, Enqueue(j, event)
  PROVE  /\ outbox' \in [Jobs -> Seq(EventTypes)]
         /\ outbox'[j] = Append(outbox[j], event)
         /\ outbox'[j] # <<>>
         /\ outbox'[j][Len(outbox'[j])] = event
         /\ \A i \in Jobs : i # j => outbox'[i] = outbox[i]
  <1>1. outbox[j] \in Seq(EventTypes)
    BY DEF RowTypeOK
  <1>2. /\ outbox' \in [Jobs -> Seq(EventTypes)]
        /\ outbox'[j] = Append(outbox[j], event)
        /\ \A i \in Jobs : i # j => outbox'[i] = outbox[i]
    BY <1>1 DEF RowTypeOK, Enqueue
  <1>3. /\ Append(outbox[j], event) # <<>>
        /\ Append(outbox[j], event)[Len(Append(outbox[j], event))] = event
    BY <1>1
  <1> QED
    BY <1>2, <1>3

\* The claim fence passes RUNNING rows only.
LEMMA OwnsRunning ==
  ASSUME NEW j \in Jobs, NEW tok, Owns(j, tok)
  PROVE  jobs[j].status = "RUNNING" /\ jobs[j].token = tok
  BY DEF Owns, HoldsToken

-----------------------------------------------------------------------------
(* The inductive invariant: type, fields and events together.  The fields are  *)
(* needed to see that an expired lease or an ended delay belongs to a live     *)
(* job, the events to see that a claim moves the mode its last event announced *)

Consistent(row, events) == FieldsOK(row) /\ EventsOK(row, events)
RowInv == RowTypeOK /\ \A j \in Jobs : Consistent(jobs[j], outbox[j])

\* A step that writes one row, and appends at most one event to its job, keeps
\* the invariant if the new row and the new events are consistent.
LEMMA OneRow ==
  ASSUME RowInv, NEW j \in Jobs, NEW row \in Row, Write(j, row),
         outbox' \in [Jobs -> Seq(EventTypes)],
         \A i \in Jobs : i # j => outbox'[i] = outbox[i],
         spent' \subseteq Tokens, Consistent(row, outbox'[j])
  PROVE  RowInv'
  <1>1. /\ jobs' \in [Jobs -> Row] /\ jobs'[j] = row
        /\ \A i \in Jobs : i # j => jobs'[i] = jobs[i]
    BY WriteEffect DEF RowInv
  <1>2. RowTypeOK'
    BY <1>1 DEF RowTypeOK
  <1>3. ASSUME NEW i \in Jobs PROVE Consistent(jobs'[i], outbox'[i])
    <2>1. CASE i = j
      BY <1>1, <2>1
    <2>2. CASE i # j
      <3>1. jobs'[i] = jobs[i] /\ outbox'[i] = outbox[i]
        BY <1>1, <2>2
      <3> QED
        BY <3>1 DEF RowInv
    <2> QED
      BY <2>1, <2>2
  <1> QED
    BY <1>2, <1>3 DEF RowInv

\* A step that writes row and enqueues event keeps the invariant if that event
\* is the one the row calls for.
LEMMA OneRowAndEvent ==
  ASSUME RowInv, NEW j \in Jobs, NEW row \in Row, NEW event \in EventTypes,
         Write(j, row), Enqueue(j, event), UNCHANGED spent, FieldsOK(row),
         row.status # "ABSENT",
         row.status = "PENDING" => event = ExpectedEvent(row.mode),
         row.status # "RUNNING",
         row.status = "AWAITING_REVIEW" => event = "awaiting_review",
         row.status = "COMPLETED" => event = "completed",
         row.status = "FAILED" => event = "failed"
  PROVE  RowInv'
  <1>1. /\ outbox' \in [Jobs -> Seq(EventTypes)]
        /\ outbox'[j] # <<>>
        /\ outbox'[j][Len(outbox'[j])] = event
        /\ \A i \in Jobs : i # j => outbox'[i] = outbox[i]
    BY EnqueueEffect DEF RowInv
  <1>2. EventsOK(row, outbox'[j])
    BY <1>1 DEF EventsOK
  <1>3. spent' \subseteq Tokens
    BY DEF RowInv, RowTypeOK
  <1> QED
    BY <1>1, <1>2, <1>3, OneRow DEF Consistent

\* A step that writes row and enqueues nothing keeps the invariant if the events
\* are still those the row calls for.
LEMMA OneRowNoEvent ==
  ASSUME RowInv, NEW j \in Jobs, NEW row \in Row, Write(j, row), UNCHANGED outbox,
         spent' \subseteq Tokens, FieldsOK(row), EventsOK(row, outbox[j])
  PROVE  RowInv'
  <1>1. /\ outbox' \in [Jobs -> Seq(EventTypes)] /\ outbox'[j] = outbox[j]
        /\ \A i \in Jobs : i # j => outbox'[i] = outbox[i]
    BY DEF RowInv, RowTypeOK
  <1>2. Consistent(row, outbox'[j])
    BY <1>1 DEF Consistent
  <1> QED
    BY <1>1, <1>2, OneRow

\* What the invariant says of one job.
LEMMA JobInv ==
  ASSUME RowInv, NEW j \in Jobs
  PROVE  /\ jobs[j] \in Row /\ FieldsOK(jobs[j]) /\ EventsOK(jobs[j], outbox[j])
         /\ spent \subseteq Tokens
  BY DEF RowInv, RowTypeOK, Consistent

\* Every transaction of the repository keeps the invariant.
LEMMA RowStepInv ==
  ASSUME RowInv, NEW j \in Jobs, RowStep(j)
  PROVE  RowInv'
  <1> DEFINE row == jobs[j]
  <1>0. row \in Row /\ FieldsOK(row) /\ EventsOK(row, outbox[j]) /\ spent \subseteq Tokens
    BY JobInv
  <1>1. CASE Add(j)
    <2>1. Write(j, NewRow) /\ Enqueue(j, "created") /\ UNCHANGED spent
      BY <1>1 DEF Add
    <2>2. "created" \in EventTypes /\ ExpectedEvent("NONE") = "created"
      BY DEF EventTypes, ExpectedEvent
    <2> QED
      BY <2>1, <2>2, NewFields, NewRowOK, OneRowAndEvent
  <1>2. CASE LeaseAges(j)
    <2>1. Write(j, AgedRow(row)) /\ UNCHANGED outbox /\ UNCHANGED spent /\ row.lease # "none"
      BY <1>2 DEF LeaseAges
    <2>2. AgedRow(row) \in Row /\ FieldsOK(AgedRow(row))
      BY <1>0, <2>1, AgedFields, AgedRowOK
    <2>3. EventsOK(AgedRow(row), outbox[j])
      BY <1>0, AgedFields DEF EventsOK
    <2> QED
      BY <1>0, <2>1, <2>2, <2>3, OneRowNoEvent
  <1>3. CASE DelayEnds(j)
    <2>1. Write(j, DueRow(row)) /\ UNCHANGED outbox /\ UNCHANGED spent /\ row.next_attempt # "none"
      BY <1>3 DEF DelayEnds
    <2>2. DueRow(row) \in Row /\ FieldsOK(DueRow(row))
      BY <1>0, <2>1, DueFields, AgedRowOK
    <2>3. EventsOK(DueRow(row), outbox[j])
      BY <1>0, DueFields DEF EventsOK
    <2> QED
      BY <1>0, <2>1, <2>2, <2>3, OneRowNoEvent
  <1>4. ASSUME NEW tok \in Tokens \ spent, NEW profile \in Profiles,
               ClaimNext(j, tok, profile)
        PROVE  RowInv'
    <2>1. /\ Write(j, ClaimedRow(row, tok, profile)) /\ UNCHANGED outbox
          /\ spent' = spent \cup {tok}
          /\ row.status \in {"PENDING", "RUNNING"}
      BY <1>4 DEF ClaimNext, Eligible
    <2>2. /\ ClaimedRow(row, tok, profile) \in Row
          /\ FieldsOK(ClaimedRow(row, tok, profile))
      BY <1>0, <2>1, ClaimedFields, ClaimedRowOK
    <2>3. EventsOK(ClaimedRow(row, tok, profile), outbox[j])
      BY <1>0, <2>1, ClaimedFields DEF EventsOK
    <2>4. spent' \subseteq Tokens
      BY <1>0, <2>1
    <2> QED
      BY <2>1, <2>2, <2>3, <2>4, OneRowNoEvent
  <1>5. ASSUME NEW tok \in Tokens, FinalizeCompletion(j, tok)
        PROVE  RowInv'
    <2>1. /\ Write(j, EndedRow(row, "COMPLETED")) /\ Enqueue(j, "completed")
          /\ UNCHANGED spent /\ row.status = "RUNNING"
      BY <1>5, OwnsRunning DEF FinalizeCompletion
    <2>2. "completed" \in EventTypes /\ "COMPLETED" \in Terminal /\ "COMPLETED" \in Statuses
      BY DEF EventTypes, Terminal, Statuses
    <2>3. /\ EndedRow(row, "COMPLETED") \in Row /\ FieldsOK(EndedRow(row, "COMPLETED"))
          /\ EndedRow(row, "COMPLETED").status = "COMPLETED"
      BY <1>0, <2>1, <2>2, EndedFields, EndedRowOK
    <2> QED
      BY <2>1, <2>2, <2>3, OneRowAndEvent
  <1>6. ASSUME NEW tok \in Tokens, FinalizeFailure(j, tok)
        PROVE  RowInv'
    <2>1. /\ Write(j, EndedRow(row, "FAILED")) /\ Enqueue(j, "failed")
          /\ UNCHANGED spent /\ row.status = "RUNNING"
      BY <1>6, OwnsRunning DEF FinalizeFailure
    <2>2. "failed" \in EventTypes /\ "FAILED" \in Terminal /\ "FAILED" \in Statuses
      BY DEF EventTypes, Terminal, Statuses
    <2>3. /\ EndedRow(row, "FAILED") \in Row /\ FieldsOK(EndedRow(row, "FAILED"))
          /\ EndedRow(row, "FAILED").status = "FAILED"
      BY <1>0, <2>1, <2>2, EndedFields, EndedRowOK
    <2> QED
      BY <2>1, <2>2, <2>3, OneRowAndEvent
  <1>7. ASSUME NEW tok \in Tokens, NEW e \in ExecIds, SetActiveWorkflowExecution(j, tok, e)
        PROVE  RowInv'
    <2>1. /\ Write(j, BoundRow(row, e)) /\ UNCHANGED outbox /\ UNCHANGED spent
          /\ row.status = "RUNNING"
      BY <1>7, OwnsRunning DEF SetActiveWorkflowExecution
    <2>2. BoundRow(row, e) \in Row /\ FieldsOK(BoundRow(row, e))
      BY <1>0, <2>1, BoundFields, BoundRowOK
    <2>3. EventsOK(BoundRow(row, e), outbox[j])
      BY <1>0, BoundFields DEF EventsOK
    <2> QED
      BY <1>0, <2>1, <2>2, <2>3, OneRowNoEvent
  <1>8. ASSUME NEW tok \in Tokens, row.retries < MaxJobRetries, ScheduleRetry(j, tok)
        PROVE  RowInv'
    <2>1. /\ Write(j, RetryRow(row)) /\ Enqueue(j, "retry_scheduled")
          /\ UNCHANGED spent /\ row.status = "RUNNING"
      BY <1>8, OwnsRunning DEF ScheduleRetry
    <2>2. /\ "retry_scheduled" \in EventTypes
          /\ ExpectedEvent("JOB_RETRY") = "retry_scheduled"
      BY DEF EventTypes, ExpectedEvent
    <2>3. /\ RetryRow(row) \in Row /\ FieldsOK(RetryRow(row))
          /\ RetryRow(row).status = "PENDING" /\ RetryRow(row).mode = "JOB_RETRY"
      BY <1>0, <1>8, <2>1, RetryFields, RetryRowOK
    <2> QED
      BY <2>1, <2>2, <2>3, OneRowAndEvent
  <1>9. ASSUME NEW tok \in Tokens, row.active # None, TransitionAwaitingReview(j, tok)
        PROVE  RowInv'
    <2>1. /\ Write(j, ReviewRow(row)) /\ Enqueue(j, "awaiting_review")
          /\ UNCHANGED spent /\ row.status = "RUNNING"
      BY <1>9, OwnsRunning DEF TransitionAwaitingReview
    <2>2. "awaiting_review" \in EventTypes
      BY DEF EventTypes
    <2>3. /\ ReviewRow(row) \in Row /\ FieldsOK(ReviewRow(row))
          /\ ReviewRow(row).status = "AWAITING_REVIEW"
      BY <1>0, <1>9, <2>1, ReviewFields, ReviewRowOK
    <2> QED
      BY <2>1, <2>2, <2>3, OneRowAndEvent
  <1>10. CASE ApproveReviewToPending(j)
    <2>1. /\ Write(j, ApprovedRow(row)) /\ UNCHANGED outbox /\ UNCHANGED spent
          /\ row.status = "AWAITING_REVIEW"
      BY <1>10 DEF ApproveReviewToPending
    <2>2. ApprovedRow(row) \in Row /\ FieldsOK(ApprovedRow(row))
      BY <1>0, <2>1, ApprovedFields, ApprovedRowOK
    <2>3. EventsOK(ApprovedRow(row), outbox[j])
      <3>1. ApprovedRow(row).status = "PENDING" /\ ApprovedRow(row).mode = "REVIEW_COMPLETE"
        BY <1>0, ApprovedFields
      <3> QED
        BY <1>0, <2>1, <3>1 DEF EventsOK, ExpectedEvent
    <2> QED
      BY <1>0, <2>1, <2>2, <2>3, OneRowNoEvent
  <1>11. CASE FailFromReview(j)
    <2>1. /\ Write(j, EndedRow(row, "FAILED")) /\ UNCHANGED outbox /\ UNCHANGED spent
          /\ row.status = "AWAITING_REVIEW"
      BY <1>11 DEF FailFromReview
    <2>2. "FAILED" \in Terminal /\ "FAILED" \in Statuses
      BY DEF Terminal, Statuses
    <2>3. /\ EndedRow(row, "FAILED") \in Row /\ FieldsOK(EndedRow(row, "FAILED"))
          /\ EndedRow(row, "FAILED").status = "FAILED"
      BY <1>0, <2>1, <2>2, EndedFields, EndedRowOK
    <2>4. EventsOK(EndedRow(row, "FAILED"), outbox[j])
      BY <1>0, <2>1, <2>3 DEF EventsOK
    <2> QED
      BY <1>0, <2>1, <2>3, <2>4, OneRowNoEvent
  <1> HIDE DEF row
  <1> QED
    BY <1>1, <1>2, <1>3, <1>4, <1>5, <1>6, <1>7, <1>8, <1>9, <1>10, <1>11 DEF RowStep, row

\* The empty table satisfies the invariant.
LEMMA RowInitInv == RowInit => RowInv
  <1> SUFFICES ASSUME RowInit PROVE RowInv
    OBVIOUS
  <1>1. NoRow \in Row
    BY DEF NoRow, Row, Statuses, LeasePhases, DelayPhases, Modes
  <1>2. <<>> \in Seq(EventTypes)
    OBVIOUS
  <1>3. RowTypeOK
    BY <1>1, <1>2 DEF RowInit, RowTypeOK
  <1>4. EventsOK(NoRow, <<>>)
    BY DEF EventsOK, NoRow
  <1>5. \A j \in Jobs : Consistent(jobs[j], outbox[j])
    BY <1>4, NewRowOK DEF RowInit, Consistent
  <1> QED
    BY <1>3, <1>5 DEF RowInv

\* A stuttering step keeps the invariant.
LEMMA RowStutter ==
  ASSUME RowInv, UNCHANGED rowVars
  PROVE  RowInv'
  <1>1. jobs' = jobs /\ outbox' = outbox /\ spent' = spent
    BY DEF rowVars
  <1> QED
    BY <1>1 DEF RowInv, RowTypeOK, Consistent

\* Whoever calls the repository, in whichever order, with whichever claim token:
\* the columns keep their kinds, no commit violates the CHECK constraint of
\* research_jobs, and each job's events end in the one its row calls for.
THEOREM RowsConsistent == RowSpec => []RowInv
  <1>1. RowInv /\ [RowNext]_rowVars => RowInv'
    BY RowStepInv, RowStutter DEF RowNext
  <1> QED
    BY <1>1, RowInitInv, PTL DEF RowSpec

\* The columns keep their declared kinds.
THEOREM RowsTyped == RowSpec => []RowTypeOK
  <1>1. RowInv => RowTypeOK
    BY DEF RowInv
  <1> QED
    BY <1>1, RowsConsistent, PTL

\* The CHECK constraint ck_research_jobs_status_fields refuses no commit.
THEOREM RowsStatusFields == RowSpec => []StatusFields
  <1>1. RowInv => StatusFields
    BY DEF RowInv, StatusFields, Consistent
  <1> QED
    BY <1>1, RowsConsistent, PTL

\* The last event enqueued for a job is the one that its row calls for.
THEOREM RowsOutbox == RowSpec => []OutboxMatchesRow
  <1>1. RowInv => OutboxMatchesRow
    BY DEF RowInv, OutboxMatchesRow, Consistent
  <1> QED
    BY <1>1, RowsConsistent, PTL

-----------------------------------------------------------------------------
(* Terminal rows *)

\* No transaction touches the row of a terminal job.
LEMMA TerminalRefused ==
  ASSUME RowInv, NEW j \in Jobs, jobs[j].status \in Terminal, RowStep(j)
  PROVE  FALSE
  <1>1. jobs[j].status \notin {"ABSENT", "PENDING", "RUNNING", "AWAITING_REVIEW"}
    BY DEF Terminal
  <1>2. jobs[j].lease = "none" /\ jobs[j].next_attempt = "none"
    BY <1>1, JobInv, TimedRows
  <1>3. ~Add(j) /\ ~ApproveReviewToPending(j) /\ ~FailFromReview(j)
    BY <1>1 DEF Add, ApproveReviewToPending, FailFromReview
  <1>4. ~LeaseAges(j) /\ ~DelayEnds(j)
    BY <1>2 DEF LeaseAges, DelayEnds
  <1>5. \A tok, profile : ~ClaimNext(j, tok, profile)
    BY <1>1 DEF ClaimNext, Eligible
  <1>6. \A tok : ~Owns(j, tok)
    BY <1>1, OwnsRunning
  <1>7. \A tok : /\ ~FinalizeCompletion(j, tok) /\ ~FinalizeFailure(j, tok)
                 /\ ~ScheduleRetry(j, tok) /\ ~TransitionAwaitingReview(j, tok)
                 /\ \A e : ~SetActiveWorkflowExecution(j, tok, e)
    BY <1>6 DEF FinalizeCompletion, FinalizeFailure, ScheduleRetry,
                TransitionAwaitingReview, SetActiveWorkflowExecution
  <1> QED
    BY <1>3, <1>4, <1>5, <1>7 DEF RowStep

\* A transaction writes the row and the events of one job only.
LEMMA RowFrame ==
  ASSUME RowInv, NEW j \in Jobs, RowStep(j), NEW i \in Jobs, i # j
  PROVE  jobs'[i] = jobs[i] /\ outbox'[i] = outbox[i]
  <1>1. ASSUME NEW row, Write(j, row) PROVE jobs'[i] = jobs[i]
    BY <1>1 DEF Write, RowInv, RowTypeOK
  <1>2. ASSUME NEW event, Enqueue(j, event) PROVE outbox'[i] = outbox[i]
    BY <1>2 DEF Enqueue, RowInv, RowTypeOK
  <1>3. \E row : Write(j, row)
    BY DEF RowStep, Add, LeaseAges, DelayEnds, ClaimNext, FinalizeCompletion, FinalizeFailure,
           SetActiveWorkflowExecution, ScheduleRetry, TransitionAwaitingReview,
           ApproveReviewToPending, FailFromReview
  <1>4. outbox' = outbox \/ \E event : Enqueue(j, event)
    BY DEF RowStep, Add, LeaseAges, DelayEnds, ClaimNext, FinalizeCompletion, FinalizeFailure,
           SetActiveWorkflowExecution, ScheduleRetry, TransitionAwaitingReview,
           ApproveReviewToPending, FailFromReview
  <1> QED
    BY <1>1, <1>2, <1>3, <1>4

\* A terminal job never changes again, and nothing is enqueued for it, whatever
\* late finalizations, retries or decisions still arrive.
THEOREM RowsTerminalIsFinal == RowSpec => TerminalIsFinal
  <1> DEFINE Final == \A j \in Jobs : jobs[j].status \in Terminal =>
                        jobs'[j] = jobs[j] /\ outbox'[j] = outbox[j]
  <1>1. ASSUME RowInv, NEW j \in Jobs, RowStep(j) PROVE Final
    <2> SUFFICES ASSUME NEW i \in Jobs, jobs[i].status \in Terminal
                 PROVE  jobs'[i] = jobs[i] /\ outbox'[i] = outbox[i]
      OBVIOUS
    <2>1. i # j
      BY <1>1, TerminalRefused
    <2> QED
      BY <1>1, <2>1, RowFrame
  <1>2. RowInv /\ [RowNext]_rowVars => [Final]_rowVars
    BY <1>1 DEF RowNext
  <1> QED
    BY <1>2, RowsConsistent, PTL DEF RowSpec, TerminalIsFinal

-----------------------------------------------------------------------------
(* Counting retries *)

\* Appending an event adds its position to the retries it announces, or not.
LEMMA AppendRetries ==
  ASSUME NEW events \in Seq(EventTypes), NEW event \in EventTypes
  PROVE  Cardinality(RetryEvents(Append(events, event)))
           = Cardinality(RetryEvents(events)) + (IF event = "retry_scheduled" THEN 1 ELSE 0)
  <1> DEFINE n == Len(events)
             longer == Append(events, event)
  <1>1. n \in Nat /\ DOMAIN events = 1..n
    OBVIOUS
  <1>2. /\ DOMAIN longer = 1..(n + 1)
        /\ longer[n + 1] = event
        /\ \A i \in 1..n : longer[i] = events[i]
    BY <1>1
  <1>3. IsFiniteSet(RetryEvents(events))
    <2>1. IsFiniteSet(1..n)
      BY <1>1, FS_Interval
    <2>2. RetryEvents(events) \subseteq 1..n
      BY <1>1 DEF RetryEvents
    <2> QED
      BY <2>1, <2>2, FS_Subset
  <1>4. Cardinality(RetryEvents(events)) \in Nat
    BY <1>3, FS_CardinalityType
  <1>5. n + 1 \notin RetryEvents(events)
    BY <1>1 DEF RetryEvents
  <1> HIDE DEF n, longer
  <1>6. CASE event = "retry_scheduled"
    <2>1. RetryEvents(longer) = RetryEvents(events) \cup {n + 1}
      BY <1>1, <1>2, <1>6 DEF RetryEvents
    <2>2. Cardinality(RetryEvents(events) \cup {n + 1}) = Cardinality(RetryEvents(events)) + 1
      BY <1>3, <1>5, FS_AddElement
    <2> QED
      BY <1>6, <2>1, <2>2 DEF longer
  <1>7. CASE event # "retry_scheduled"
    <2>1. RetryEvents(longer) = RetryEvents(events)
      BY <1>1, <1>2, <1>7 DEF RetryEvents
    <2> QED
      BY <1>4, <1>7, <2>1 DEF longer
  <1> QED
    BY <1>6, <1>7

\* A step that writes a row with the same count and enqueues something else
\* than a retry, or nothing, keeps counts and events in step.
LEMMA SameCount ==
  ASSUME RowInv, RetriesAnnounced, NEW j \in Jobs, NEW row \in Row, Write(j, row),
         row.retries = jobs[j].retries,
         \/ UNCHANGED outbox
         \/ \E event \in EventTypes \ {"retry_scheduled"} : Enqueue(j, event)
  PROVE  RetriesAnnounced'
  <1>0. RowTypeOK
    BY DEF RowInv
  <1>1. \A i \in Jobs : jobs'[i].retries = jobs[i].retries
    BY <1>0, WriteEffect
  <1>2. ASSUME NEW i \in Jobs
        PROVE  Cardinality(RetryEvents(outbox'[i])) = Cardinality(RetryEvents(outbox[i]))
    <2>1. CASE UNCHANGED outbox
      BY <2>1
    <2>2. ASSUME NEW event \in EventTypes \ {"retry_scheduled"}, Enqueue(j, event)
          PROVE  Cardinality(RetryEvents(outbox'[i])) = Cardinality(RetryEvents(outbox[i]))
      <3>1. /\ outbox'[j] = Append(outbox[j], event)
            /\ \A k \in Jobs : k # j => outbox'[k] = outbox[k]
        BY <1>0, <2>2, EnqueueEffect
      <3>2. outbox[j] \in Seq(EventTypes)
        BY <1>0 DEF RowTypeOK
      <3>3. Cardinality(RetryEvents(outbox[j])) \in Nat
        BY DEF RetriesAnnounced, RowInv, RowTypeOK, Row
      <3>4. Cardinality(RetryEvents(Append(outbox[j], event)))
              = Cardinality(RetryEvents(outbox[j]))
        BY <3>2, <3>3, AppendRetries
      <3> QED
        BY <3>1, <3>4
    <2> QED
      BY <2>1, <2>2
  <1> QED
    BY <1>1, <1>2 DEF RetriesAnnounced

\* Every transaction keeps counts and events in step.
LEMMA RowStepCount ==
  ASSUME RowInv, RetriesAnnounced, NEW j \in Jobs, RowStep(j)
  PROVE  RetriesAnnounced'
  <1> DEFINE row == jobs[j]
  <1>0. row \in Row /\ RowTypeOK
    BY JobInv DEF RowInv
  <1>1. ASSUME NEW tok \in Tokens, ScheduleRetry(j, tok)
        PROVE  RetriesAnnounced'
    <2>1. Write(j, RetryRow(row)) /\ Enqueue(j, "retry_scheduled")
      BY <1>1 DEF ScheduleRetry
    <2>2. "retry_scheduled" \in EventTypes
      BY DEF EventTypes
    <2>3. /\ jobs'[j] = RetryRow(row)
          /\ \A k \in Jobs : k # j => jobs'[k] = jobs[k]
      BY <1>0, <2>1, RetryFields, WriteEffect
    <2>4. /\ outbox'[j] = Append(outbox[j], "retry_scheduled")
          /\ \A k \in Jobs : k # j => outbox'[k] = outbox[k]
      BY <1>0, <2>1, <2>2, EnqueueEffect
    <2>5. outbox[j] \in Seq(EventTypes)
      BY <1>0 DEF RowTypeOK
    <2>6. Cardinality(RetryEvents(outbox'[j])) = Cardinality(RetryEvents(outbox[j])) + 1
      BY <2>2, <2>4, <2>5, AppendRetries
    <2>7. jobs'[j].retries = row.retries + 1
      BY <1>0, <2>3, RetryFields
    <2>8. ASSUME NEW i \in Jobs
          PROVE  jobs'[i].retries = Cardinality(RetryEvents(outbox'[i]))
      <3>1. CASE i = j
        BY <2>6, <2>7, <3>1 DEF RetriesAnnounced
      <3>2. CASE i # j
        BY <2>3, <2>4, <3>2 DEF RetriesAnnounced
      <3> QED
        BY <3>1, <3>2
    <2> QED
      BY <2>8 DEF RetriesAnnounced
  <1>2. CASE Add(j)
    <2>1. Write(j, NewRow) /\ Enqueue(j, "created") /\ row.status = "ABSENT"
      BY <1>2 DEF Add
    <2>2. row.retries = 0
      BY <2>1, JobInv DEF FieldsOK, NoRow
    <2>3. "created" \in EventTypes \ {"retry_scheduled"}
      BY DEF EventTypes
    <2> QED
      BY <2>1, <2>2, <2>3, NewFields, SameCount
  <1>3. ASSUME NEW s \in Terminal, NEW event \in {"completed", "failed"},
               Write(j, EndedRow(row, s)), UNCHANGED outbox \/ Enqueue(j, event)
        PROVE  RetriesAnnounced'
    <2>1. event \in EventTypes \ {"retry_scheduled"}
      BY DEF EventTypes
    <2>2. s \in Statuses
      BY DEF Terminal, Statuses
    <2> QED
      BY <1>0, <1>3, <2>1, <2>2, EndedFields, SameCount
  <1>4. ASSUME NEW tok \in Tokens, TransitionAwaitingReview(j, tok)
        PROVE  RetriesAnnounced'
    <2>1. Write(j, ReviewRow(row)) /\ Enqueue(j, "awaiting_review")
      BY <1>4 DEF TransitionAwaitingReview
    <2>2. "awaiting_review" \in EventTypes \ {"retry_scheduled"}
      BY DEF EventTypes
    <2> QED
      BY <1>0, <2>1, <2>2, ReviewFields, SameCount
  <1>5. CASE LeaseAges(j) \/ DelayEnds(j) \/ ApproveReviewToPending(j)
    <2>1. UNCHANGED outbox /\ \E r \in {AgedRow(row), DueRow(row), ApprovedRow(row)} : Write(j, r)
      BY <1>5 DEF LeaseAges, DelayEnds, ApproveReviewToPending
    <2>2. \A r \in {AgedRow(row), DueRow(row), ApprovedRow(row)} :
            r \in Row /\ r.retries = row.retries
      BY <1>0, AgedFields, DueFields, ApprovedFields
    <2> QED
      BY <2>1, <2>2, SameCount
  <1>6. ASSUME NEW tok \in Tokens, NEW profile \in Profiles, ClaimNext(j, tok, profile)
        PROVE  RetriesAnnounced'
    <2>1. Write(j, ClaimedRow(row, tok, profile)) /\ UNCHANGED outbox
      BY <1>6 DEF ClaimNext
    <2> QED
      BY <1>0, <2>1, ClaimedFields, SameCount
  <1>7. ASSUME NEW tok \in Tokens, NEW e \in ExecIds, SetActiveWorkflowExecution(j, tok, e)
        PROVE  RetriesAnnounced'
    <2>1. Write(j, BoundRow(row, e)) /\ UNCHANGED outbox
      BY <1>7 DEF SetActiveWorkflowExecution
    <2> QED
      BY <1>0, <2>1, BoundFields, SameCount
  <1>8. ASSUME NEW tok \in Tokens, FinalizeCompletion(j, tok) \/ FinalizeFailure(j, tok)
        PROVE  RetriesAnnounced'
    BY <1>3, <1>8 DEF FinalizeCompletion, FinalizeFailure, Terminal
  <1>9. CASE FailFromReview(j)
    BY <1>3, <1>9 DEF FailFromReview, Terminal
  <1> QED
    BY <1>1, <1>2, <1>4, <1>5, <1>6, <1>7, <1>8, <1>9 DEF RowStep

\* There is one retry_scheduled event per counted retry, for every job.
THEOREM RowsRetriesAnnounced == RowSpec => []RetriesAnnounced
  <1>1. RowInit => RetriesAnnounced
    <2> SUFFICES ASSUME RowInit PROVE RetriesAnnounced
      OBVIOUS
    <2>1. RetryEvents(<<>>) = {}
      BY DEF RetryEvents
    <2>2. Cardinality(RetryEvents(<<>>)) = 0
      BY <2>1, FS_EmptySet
    <2> QED
      BY <2>2 DEF RowInit, RetriesAnnounced, NoRow
  <1>2. RowInv /\ RetriesAnnounced /\ [RowNext]_rowVars => RetriesAnnounced'
    <2>1. ASSUME RetriesAnnounced, UNCHANGED rowVars PROVE RetriesAnnounced'
      BY <2>1 DEF rowVars, RetriesAnnounced
    <2> QED
      BY <2>1, RowStepCount DEF RowNext
  <1> QED
    BY <1>1, <1>2, RowsConsistent, PTL DEF RowSpec
=============================================================================
