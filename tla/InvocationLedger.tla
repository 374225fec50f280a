-------------------------- MODULE InvocationLedger --------------------------
(***************************************************************************)
(* The two-table ledgers that stand between the workflow and what it pays  *)
(* for: model calls (models/service.py) and governed tool calls            *)
(* (tools/service.py, also reached through mcp/server.py).  One row is the *)
(* logical invocation of an idempotency key, one row per provider call its *)
(* attempts.  The two services run the same protocol over the same columns *)
(* and differ in when they try again and in who may take over a stale call.*)
(*                                                                         *)
(* A behaviour follows one key, from any number of callers: the workers    *)
(* that hold or held the claim of the key's job, or the request threads of *)
(* one MCP process.  The key does not hold the workflow execution, so a    *)
(* resumed or retried job comes back to it.  The provider is called        *)
(* between two transactions.  The validated output of attempt n is written *)
(* n.                                                                      *)
(***************************************************************************)
EXTENDS Naturals, Sequences, FiniteSets

CONSTANTS
    Callers,            \* worker processes, or MCP request threads
    None,
    MaxAttemptsPerCall, \* tool_max_attempts_per_call
    MalformedCap,       \* malformed_attempt_cap of evaluate_semantic
    MaxAttempts         \* bound: provider calls of a behaviour

ASSUME CapAssumption ==
    /\ MaxAttemptsPerCall \in Nat \ {0}
    /\ MalformedCap \in Nat \ {0}
    /\ MaxAttempts \in Nat
    /\ None \notin Nat
    /\ None \notin Callers

\* What the key stands for: a plan or draft, a semantic evaluation, a tool call
\* of the research node, a tool call of an MCP client.
ModelKinds == {"model", "evaluate"}
ToolKinds == {"tool", "mcp"}
Kinds == ModelKinds \cup ToolKinds

VARIABLES
    kind,       \* what the key stands for (fixed)
    invocation, \* the logical row
    attempts,   \* its attempts, in the order of their numbers
    claim,      \* the job's claim: who took it last, and whether it is valid
    call        \* what each caller is doing

vars == <<kind, invocation, attempts, claim, call>>

Statuses == {"absent", "IN_PROGRESS", "SUCCEEDED", "FAILED"}
\* ModelInvocationStaleError marks an attempt that was taken over; of the error
\* classes of a provider only the malformed answers are ever asked for again.
ErrorClasses == {"none", "stale", "malformed", "other"}
Attempt == [status : {"STARTED", "SUCCEEDED", "FAILED"},
            late : BOOLEAN,       \* its deadline_at has passed
            error : ErrorClasses,
            by : Callers]         \* not stored: who made the call
Row(status, output) == [status |-> status, output |-> output]
Pcs == {"off", "ready", "replay", "lookup", "create", "calling"}
Call(pc, round, n, out) == [pc |-> pc, round |-> round, n |-> n, out |-> out]
Ready == Call("ready", 0, 0, None)
Off == Call("off", 0, 0, None)

Init ==
    /\ kind \in Kinds
    /\ invocation = Row("absent", None)
    /\ attempts = <<>>
    /\ claim = [by |-> None, live |-> FALSE]
    /\ call = [c \in Callers |-> IF kind = "mcp" THEN Ready ELSE Off]

-----------------------------------------------------------------------------
(* The repositories *)

HasAttempt == attempts # <<>>
Latest == attempts[Len(attempts)]

\* Mutant: nobody asks for the job's claim.
JobHasValidClaim_never == FALSE
\* job_has_valid_claim: any claim, not the one the attempt was made under.
JobHasValidClaim == claim.live

\* Mutant: the deadline of a started attempt is not looked at.
CanReclaim_early == kind = "mcp" \/ ~JobHasValidClaim
\* _can_reclaim: an attempt in flight is left alone until its deadline, and then
\* while the job is claimed; an MCP call has no job.
CanReclaim ==
    \/ ~HasAttempt
    \/ /\ Latest.status = "STARTED" => Latest.late
       /\ IF kind = "mcp" THEN Latest.late ELSE ~JobHasValidClaim

\* fail_attempt and mark_invocation_failed_for_attempt of the latest attempt,
\* when it is still started.
FailedAs(error) ==
    [attempts EXCEPT ![Len(attempts)] = [@ EXCEPT !.status = "FAILED", !.error = error]]
Superseded ==
    IF invocation.status = "IN_PROGRESS" /\ HasAttempt /\ Latest.status = "STARTED"
      THEN FailedAs("stale") ELSE attempts

\* create_invocation; reopen_invocation clears the output; begin_attempt takes the
\* next number.
Created == Row("IN_PROGRESS", None)
Reopened == Row("IN_PROGRESS", None)
Begun(c, rows) ==
    Append(rows, [status |-> "STARTED", late |-> FALSE, error |-> "none", by |-> c])

\* count_failed_attempts_with_error_class
MalformedFailed ==
    Cardinality({i \in DOMAIN attempts : attempts[i].status = "FAILED" /\ attempts[i].error = "malformed"})

\* complete_attempt, and what becomes of the logical row.
Answered(n) == [attempts EXCEPT ![n].status = "SUCCEEDED"]
Finished(n) == Row("SUCCEEDED", n)
Failed == Row("FAILED", None)

\* Mutant: an attempt that is no longer started may still be finished.
StillActive_byNumber(n) == attempts[n].status # "SUCCEEDED"
\* The fences of TX2: the attempt is still started and has the highest number.
\* When either UPDATE matches no row the transaction is rolled back.
StillActive(n) == attempts[n].status = "STARTED" /\ n = Len(attempts)

-----------------------------------------------------------------------------
(* Returning and raising *)

Goto(c, pc) == call' = [call EXCEPT ![c].pc = pc]
Returns(c, out) == call' = [call EXCEPT ![c] = Call("ready", 0, 0, out)]
Raises(c) == call' = [call EXCEPT ![c] = Ready]

\* The loop of ToolInvocationService.invoke goes round for a transient error,
\* and the two ownership errors count as such; evaluate_semantic repeats _once
\* after a malformed answer; plan and draft do not repeat.
TriesAgain(c, error) ==
    IF kind \in ToolKinds
      THEN call[c].round < MaxAttemptsPerCall /\ error \in {"transient", "inprogress", "lost"}
      ELSE kind = "evaluate" /\ error = "malformed" /\ call[c].round < 2

NextRound(c) == call' = [call EXCEPT ![c] = Call("lookup", call[c].round + 1, 0, None)]

\* A caller's round ends with an error: the next one starts, or the error is
\* raised; so it is when the tool budget of the node has run out.
EndsWith(c, error) ==
    \/ TriesAgain(c, error) /\ NextRound(c)
    \/ ~TriesAgain(c, error) /\ Raises(c)
    \/ TriesAgain(c, error) /\ kind = "tool" /\ Raises(c)

-----------------------------------------------------------------------------
(* The job's claim and time *)

\* A worker takes the job; the worker whose claim it was goes on, unaware.
ClaimJob(c) ==
    /\ kind # "mcp" /\ call[c].pc = "off" /\ ~claim.live
    /\ claim' = [by |-> c, live |-> TRUE]
    /\ call' = [call EXCEPT ![c] = Ready]
    /\ UNCHANGED <<kind, invocation, attempts>>

\* The worker is through with the job: finished, retried later, or given up.
LeaveJob(c) ==
    /\ kind # "mcp" /\ call[c].pc = "ready"
    /\ claim' = IF claim.by = c THEN [by |-> None, live |-> FALSE] ELSE claim
    /\ call' = [call EXCEPT ![c] = Off]
    /\ UNCHANGED <<kind, invocation, attempts>>

LeaseExpires ==
    /\ claim.live
    /\ claim' = [claim EXCEPT !.live = FALSE]
    /\ UNCHANGED <<kind, invocation, attempts, call>>

DeadlinePasses ==
    /\ HasAttempt /\ ~Latest.late
    /\ attempts' = [attempts EXCEPT ![Len(attempts)].late = TRUE]
    /\ UNCHANGED <<kind, invocation, claim, call>>

\* The worker process is killed.  The death of the MCP process ends the key: its
\* successor draws another actor id.
Crash(c) ==
    /\ kind # "mcp" /\ call[c].pc # "off"
    /\ call' = [call EXCEPT ![c] = Off]
    /\ UNCHANGED <<kind, invocation, attempts, claim>>

-----------------------------------------------------------------------------
(* The services *)

\* plan, draft, evaluate_semantic: _execute starts with its own transaction.
ModelInvoke(c) ==
    /\ kind \in ModelKinds /\ call[c].pc = "ready"
    /\ call' = [call EXCEPT ![c] = Call("lookup", 1, 0, None)]
    /\ UNCHANGED <<kind, invocation, attempts, claim>>

\* invoke: the permission and the logical-call budget are checked first; a call
\* that fails them does not reach the ledger.
ToolInvoke(c) ==
    /\ kind \in ToolKinds /\ call[c].pc = "ready"
    /\ call' = [call EXCEPT ![c] = Call("replay", 1, 0, None)]
    /\ UNCHANGED <<kind, invocation, attempts, claim>>

\* _try_replay, in a transaction of its own.
TryReplay(c) ==
    /\ call[c].pc = "replay"
    /\ IF invocation.status = "SUCCEEDED" THEN Returns(c, invocation.output) ELSE Goto(c, "lookup")
    /\ UNCHANGED <<kind, invocation, attempts, claim>>

\* Mutant: a key that has an output is opened again.
Replays_never == FALSE
Replays == invocation.status = "SUCCEEDED"
InFlight == invocation.status = "IN_PROGRESS" /\ ~CanReclaim

\* A raise in the transaction also rolls back the takeover before it.
Capped == kind = "evaluate" /\ MalformedFailed >= MalformedCap

\* The first transaction of _execute and _execute_once, with the key's row
\* locked: replay, refuse, or take over and begin an attempt.
Lookup(c) ==
    /\ call[c].pc = "lookup"
    /\ \/ /\ Replays
          /\ Returns(c, invocation.output)
          /\ UNCHANGED <<invocation, attempts>>
       \/ /\ ~Replays /\ InFlight
          /\ EndsWith(c, "inprogress")
          /\ UNCHANGED <<invocation, attempts>>
       \/ /\ ~Replays /\ ~InFlight /\ invocation.status # "absent" /\ Capped
          /\ EndsWith(c, "malformed")
          /\ UNCHANGED <<invocation, attempts>>
       \/ /\ ~Replays /\ ~InFlight /\ invocation.status # "absent" /\ ~Capped
          /\ Len(attempts) < MaxAttempts
          /\ invocation' = Reopened
          /\ attempts' = Begun(c, Superseded)
          /\ call' = [call EXCEPT ![c] = [@ EXCEPT !.pc = "calling", !.n = Len(attempts) + 1]]
       \/ /\ invocation.status = "absent"
          /\ Goto(c, "create")
          /\ UNCHANGED <<invocation, attempts>>
    /\ UNCHANGED <<kind, claim>>

\* The SELECT found no row, so nothing is locked: the INSERT succeeds or meets
\* the unique key of a caller that was faster.
Create(c) ==
    /\ call[c].pc = "create"
    /\ \/ /\ invocation.status = "absent" /\ Len(attempts) < MaxAttempts
          /\ invocation' = Created
          /\ attempts' = Begun(c, attempts)
          /\ call' = [call EXCEPT ![c] = [@ EXCEPT !.pc = "calling", !.n = 1]]
       \/ /\ invocation.status # "absent"
          /\ EndsWith(c, "inprogress")
          /\ UNCHANGED <<invocation, attempts>>
    /\ UNCHANGED <<kind, claim>>

\* The provider answers and the answer is valid: complete_attempt and
\* complete_invocation_for_attempt, or ownership is lost.
Succeeds(c) ==
    /\ call[c].pc = "calling"
    /\ LET n == call[c].n IN
         \/ /\ StillActive(n)
            /\ attempts' = Answered(n)
            /\ invocation' = Finished(n)
            /\ Returns(c, n)
         \/ /\ ~StillActive(n)
            /\ EndsWith(c, "lost")
            /\ UNCHANGED <<invocation, attempts>>
    /\ UNCHANGED <<kind, claim>>

\* What translate_provider_exception makes of a provider's exception; a tool
\* adapter's own exception is wrapped as a permanent one.
TranslatedErrors == {"transient", "permanent"}
\* A model's answer may also miss its schema (invoke_structured).
ProviderErrors == TranslatedErrors \cup (IF kind \in ModelKinds THEN {"malformed"} ELSE {})

\* The error_class the attempt is failed with.
ErrorClass(error) == IF error = "malformed" THEN error ELSE "other"

\* The provider fails, or its answer is not valid.
Fails(c) ==
    /\ call[c].pc = "calling"
    /\ LET n == call[c].n IN
         \/ /\ StillActive(n)
            /\ \E error \in ProviderErrors :
                 /\ attempts' = FailedAs(ErrorClass(error))
                 /\ invocation' = Failed
                 /\ EndsWith(c, error)
         \/ /\ ~StillActive(n)
            /\ EndsWith(c, "lost")
            /\ UNCHANGED <<invocation, attempts>>
    /\ UNCHANGED <<kind, claim>>

\* A transaction fails and is rolled back, or something that is no ModelError
\* escapes from between the two: the attempt stays as it is.  TX1 locks the
\* invocation before the attempt and TX2 the attempt before the invocation, so
\* PostgreSQL may end either one to resolve a deadlock.
Aborts(c) ==
    /\ call[c].pc \in {"replay", "lookup", "create", "calling"}
    /\ Raises(c)
    /\ UNCHANGED <<kind, invocation, attempts, claim>>

Next ==
    \/ LeaseExpires
    \/ DeadlinePasses
    \/ \E c \in Callers :
         \/ ClaimJob(c) \/ LeaveJob(c) \/ Crash(c)
         \/ ModelInvoke(c) \/ ToolInvoke(c) \/ TryReplay(c) \/ Lookup(c) \/ Create(c)
         \/ Succeeds(c) \/ Fails(c) \/ Aborts(c)

Spec == Init /\ [][Next]_vars

-----------------------------------------------------------------------------
(* Properties *)

TypeOK ==
    /\ kind \in Kinds
    /\ invocation \in [status : Statuses, output : Nat \cup {None}]
    /\ attempts \in Seq(Attempt)
    /\ claim \in [by : Callers \cup {None}, live : BOOLEAN]
    /\ call \in [Callers -> [pc : Pcs, round : Nat, n : Nat, out : Nat \cup {None}]]
    /\ \A c \in Callers : call[c].pc = "calling" => call[c].n \in 1 .. Len(attempts)

\* The logical row says what its latest attempt says, and every attempt before
\* that has failed: the two tables, written by several callers in two
\* transactions per call, never tell different stories, and no paid success is
\* left behind in the attempts without being the invocation's.
LedgerAgrees ==
    /\ invocation.status = "absent" <=> ~HasAttempt
    /\ HasAttempt =>
         /\ invocation.status = "IN_PROGRESS" <=> Latest.status = "STARTED"
         /\ invocation.status = "SUCCEEDED" <=> Latest.status = "SUCCEEDED"
         /\ invocation.status = "FAILED" <=> Latest.status = "FAILED"
    /\ \A i \in DOMAIN attempts : i < Len(attempts) => attempts[i].status = "FAILED"
    /\ invocation.output = IF invocation.status = "SUCCEEDED" THEN Len(attempts) ELSE None

\* "Atlas prevents another provider call when a validated success is committed"
\* (ModelInvocationService): from then on neither row changes and no attempt is
\* begun, whatever late answers, takeovers and lost inserts are still under way.
SuccessIsFinal ==
    [][invocation.status = "SUCCEEDED" =>
         /\ invocation' = invocation
         /\ Len(attempts') = Len(attempts)
         /\ \A i \in DOMAIN attempts : attempts'[i].status = attempts[i].status]_vars

\* A caller is only ever given the output on record: the late answer of a
\* superseded attempt never reaches the workflow, where it would differ from
\* what a resumed execution replays.
ReturnsCommittedOutput ==
    \A c \in Callers : call[c].out # None =>
        invocation = [status |-> "SUCCEEDED", output |-> call[c].out]

\* Of two provider calls of one key that are under way at once, one has outlived
\* its deadline: nobody pays twice for a call that is still in time, unless its
\* caller is gone.
OneCallInTime ==
    \A c, d \in Callers :
        c # d /\ call[c].pc = "calling" /\ call[d].pc = "calling" =>
            attempts[call[c].n].late \/ attempts[call[d].n].late

\* While a worker holds a valid claim, its call in flight is not taken over,
\* however long the provider takes (_can_reclaim asks the job's claim).
ClaimProtectsCall ==
    [][\A c \in Callers :
         (/\ call[c].pc = "calling" /\ claim = [by |-> c, live |-> TRUE]
          /\ attempts[call[c].n].status = "STARTED" /\ attempts[call[c].n].by = c)
         => attempts'[call[c].n].status = "STARTED" \/ call'[c] # call[c]]_vars
=============================================================================
