------------------------ MODULE JobLifecycle_proofs ------------------------
(***************************************************************************)
(* Proofs about JobLifecycle, for any number of jobs, workers, tokens and  *)
(* executions, any retry cap and any number of faults, with exact or       *)
(* skewed clocks.                                                          *)
(***************************************************************************)
EXTENDS JobLifecycle, ResearchJobs_proofs

-----------------------------------------------------------------------------
(* What the operators on processor threads leave behind. *)

\* An idle thread is well formed.
LEMMA NoProcTyped == NoProc \in Proc /\ NoProc.pc = "off"
  BY DEF NoProc, Proc, Pcs, Modes, Positions, Outcomes

\* A thread takes one step, the others none.
LEMMA OneMoves ==
  ASSUME proc \in [Workers -> Proc], NEW w \in Workers, NEW q \in Proc,
         proc' = [proc EXCEPT ![w] = q]
  PROVE  /\ proc' \in [Workers -> Proc]
         /\ \A v \in Workers : v # w => proc'[v] = proc[v]
         /\ proc'[w] = q
  OBVIOUS

\* A thread that goes on keeps everything but its program counter.
LEMMA GotoEffect ==
  ASSUME proc \in [Workers -> Proc], NEW w \in Workers, NEW pc \in Pcs, Goto(w, pc)
  PROVE  /\ proc' \in [Workers -> Proc]
         /\ \A v \in Workers : v # w => proc'[v] = proc[v]
         /\ proc'[w].pc = pc
         /\ proc'[w].job = proc[w].job /\ proc'[w].token = proc[w].token
         /\ proc'[w].mode = proc[w].mode /\ proc'[w].active = proc[w].active
         /\ proc'[w].exec = proc[w].exec /\ proc'[w].at = proc[w].at
         /\ proc'[w].out = proc[w].out /\ proc'[w].retries = proc[w].retries
  <1> DEFINE p == proc[w]
             q == [p EXCEPT !.pc = pc]
  <1>1. p \in Proc
    OBVIOUS
  <1>2. /\ q \in Proc
        /\ q.pc = pc
        /\ q.job = p.job /\ q.token = p.token
        /\ q.mode = p.mode /\ q.active = p.active
        /\ q.exec = p.exec /\ q.at = p.at
        /\ q.out = p.out /\ q.retries = p.retries
    BY <1>1 DEF Proc
  <1>3. proc' = [proc EXCEPT ![w] = q]
    BY DEF Goto
  <1> HIDE DEF q
  <1> QED
    BY <1>2, <1>3, OneMoves

\* A thread that returns keeps its claim and its outcome.
LEMMA ReturnEffect ==
  ASSUME proc \in [Workers -> Proc], NEW w \in Workers, NEW out \in Outcomes,
         Return(w, out)
  PROVE  /\ proc' \in [Workers -> Proc]
         /\ \A v \in Workers : v # w => proc'[v] = proc[v]
         /\ proc'[w].pc = "returned" /\ proc'[w].out = out
         /\ proc'[w].job = proc[w].job /\ proc'[w].token = proc[w].token
  <1> DEFINE p == proc[w]
             q == [NoProc EXCEPT !.pc = "returned", !.job = p.job, !.token = p.token,
                                 !.out = out]
  <1>1. p \in Proc
    OBVIOUS
  <1>2. /\ q \in Proc
        /\ q.pc = "returned" /\ q.out = out
        /\ q.job = p.job /\ q.token = p.token
    BY <1>1, NoProcTyped DEF Proc, Pcs
  <1>3. proc' = [proc EXCEPT ![w] = q]
    BY DEF Return
  <1> HIDE DEF q
  <1> QED
    BY <1>2, <1>3, OneMoves

\* A thread that raises keeps its claim, its execution and what it raised.
LEMMA RaiseEffect ==
  ASSUME proc \in [Workers -> Proc], NEW w \in Workers, NEW out \in Outcomes,
         Raise(w, out)
  PROVE  /\ proc' \in [Workers -> Proc]
         /\ \A v \in Workers : v # w => proc'[v] = proc[v]
         /\ proc'[w].pc = "except" /\ proc'[w].out = out
         /\ proc'[w].job = proc[w].job /\ proc'[w].token = proc[w].token
         /\ proc'[w].exec = proc[w].exec
  <1> DEFINE p == proc[w]
             q == [NoProc EXCEPT !.pc = "except", !.job = p.job, !.token = p.token,
                                 !.exec = p.exec, !.out = out]
  <1>1. p \in Proc
    OBVIOUS
  <1>2. /\ q \in Proc
        /\ q.pc = "except" /\ q.out = out
        /\ q.job = p.job /\ q.token = p.token
        /\ q.exec = p.exec
    BY <1>1, NoProcTyped DEF Proc, Pcs
  <1>3. proc' = [proc EXCEPT ![w] = q]
    BY DEF Raise
  <1> HIDE DEF q
  <1> QED
    BY <1>2, <1>3, OneMoves

\* A thread that is bound goes on with the execution it was given.
LEMMA BoundEffect ==
  ASSUME proc \in [Workers -> Proc], NEW w \in Workers, NEW e \in ExecIds, Bound(w, e)
  PROVE  /\ proc' \in [Workers -> Proc]
         /\ \A v \in Workers : v # w => proc'[v] = proc[v]
         /\ proc'[w].pc = "open" /\ proc'[w].exec = e
         /\ proc'[w].job = proc[w].job /\ proc'[w].token = proc[w].token
         /\ proc'[w].mode = proc[w].mode /\ proc'[w].at = proc[w].at
  <1> DEFINE p == proc[w]
             q == [p EXCEPT !.pc = "open", !.exec = e, !.active = None]
  <1>1. p \in Proc
    OBVIOUS
  <1>2. /\ q \in Proc
        /\ q.pc = "open" /\ q.exec = e
        /\ q.job = p.job /\ q.token = p.token
        /\ q.mode = p.mode /\ q.at = p.at
    BY <1>1 DEF Proc, Pcs
  <1>3. proc' = [proc EXCEPT ![w] = q]
    BY DEF Bound
  <1> HIDE DEF q
  <1> QED
    BY <1>2, <1>3, OneMoves

\* A thread whose graph has moved keeps everything else.
LEMMA StandsEffect ==
  ASSUME proc \in [Workers -> Proc], NEW w \in Workers, NEW pc \in Pcs,
         NEW pos \in Positions, Stands(w, pc, pos)
  PROVE  /\ proc' \in [Workers -> Proc]
         /\ \A v \in Workers : v # w => proc'[v] = proc[v]
         /\ proc'[w].pc = pc /\ proc'[w].at = pos
         /\ proc'[w].job = proc[w].job /\ proc'[w].token = proc[w].token
         /\ proc'[w].mode = proc[w].mode /\ proc'[w].exec = proc[w].exec
         /\ proc'[w].active = proc[w].active
  <1> DEFINE p == proc[w]
             q == [p EXCEPT !.pc = pc, !.at = pos]
  <1>1. p \in Proc
    OBVIOUS
  <1>2. /\ q \in Proc
        /\ q.pc = pc /\ q.at = pos
        /\ q.job = p.job /\ q.token = p.token
        /\ q.mode = p.mode /\ q.exec = p.exec
        /\ q.active = p.active
    BY <1>1 DEF Proc
  <1>3. proc' = [proc EXCEPT ![w] = q]
    BY DEF Stands
  <1> HIDE DEF q
  <1> QED
    BY <1>2, <1>3, OneMoves

\* The first transaction of __call__ reads the active execution it was not given.
LEMMA EnterEffect ==
  ASSUME TypeOK, NEW w \in Workers, proc[w].job \in Jobs, Enter(w)
  PROVE  \/ /\ proc[w].mode = "NONE" /\ jobs[proc[w].job].status = "COMPLETED"
            /\ Return(w, "completed")
         \/ /\ proc' \in [Workers -> Proc]
            /\ \A v \in Workers : v # w => proc'[v] = proc[v]
            /\ proc'[w].pc = "short"
            /\ proc'[w].job = proc[w].job /\ proc'[w].token = proc[w].token
            /\ proc'[w].mode = proc[w].mode
            /\ proc'[w].active = IF proc[w].active = None THEN jobs[proc[w].job].active
                                                         ELSE proc[w].active
  <1>1. CASE proc[w].mode = "NONE" /\ jobs[proc[w].job].status = "COMPLETED"
    BY <1>1 DEF Enter
  <1>2. CASE ~(proc[w].mode = "NONE" /\ jobs[proc[w].job].status = "COMPLETED")
    <2> DEFINE a == IF proc[w].active = None THEN jobs[proc[w].job].active
                                             ELSE proc[w].active
    <2>1. proc' = [proc EXCEPT ![w] = [@ EXCEPT !.pc = "short", !.active = a]]
      BY <1>2 DEF Enter, TypeOK
    <2>2. a \in ExecIds \cup {None} /\ proc \in [Workers -> Proc]
      BY DEF TypeOK, RowTypeOK, Proc, Row
    <2> HIDE DEF a
    <2> DEFINE p == proc[w]
               q == [p EXCEPT !.pc = "short", !.active = a]
    <2>3. /\ q \in Proc /\ q.pc = "short" /\ q.job = p.job /\ q.token = p.token
          /\ q.mode = p.mode /\ q.active = a
      BY <2>2 DEF Proc, Pcs
    <2>4. proc' = [proc EXCEPT ![w] = q]
      BY <2>1
    <2> HIDE DEF q
    <2>5. /\ proc' \in [Workers -> Proc]
          /\ \A v \in Workers : v # w => proc'[v] = proc[v]
          /\ proc'[w] = q
      BY <2>2, <2>3, <2>4, OneMoves
    <2> QED
      BY <2>3, <2>5 DEF a
  <1> QED
    BY <1>1, <1>2

\* _handle_exception takes the retry count as it is and chooses a branch.
LEMMA HandleEffect ==
  ASSUME TypeOK, NEW w \in Workers, proc[w].job \in Jobs, HandleException(w)
  PROVE  /\ proc' \in [Workers -> Proc]
         /\ \A v \in Workers : v # w => proc'[v] = proc[v]
         /\ \/ proc'[w].pc = "decide"
            \/ proc'[w].pc = "retry" /\ jobs[proc[w].job].retries < MaxJobRetries
         /\ proc'[w].job = proc[w].job /\ proc'[w].token = proc[w].token
         /\ proc'[w].exec = proc[w].exec
         /\ proc'[w].retries = jobs[proc[w].job].retries
  <1> DEFINE r == jobs[proc[w].job].retries
             pc == IF Retryable(proc[w], r) THEN "retry" ELSE "decide"
  <1>1. proc' = [proc EXCEPT ![w] = [@ EXCEPT !.retries = r, !.pc = pc]]
    BY DEF HandleException, TypeOK
  <1>2. r \in Nat /\ pc \in Pcs /\ proc \in [Workers -> Proc]
    BY DEF TypeOK, RowTypeOK, Row, Pcs
  <1>3. pc = "decide" \/ (pc = "retry" /\ r < MaxJobRetries)
    BY DEF Retryable
  <1> HIDE DEF r, pc
  <1> DEFINE p == proc[w]
             q == [p EXCEPT !.retries = r, !.pc = pc]
  <1>4. /\ q \in Proc /\ q.pc = pc /\ q.retries = r /\ q.job = p.job
        /\ q.token = p.token /\ q.exec = p.exec
    BY <1>2 DEF Proc
  <1>5. proc' = [proc EXCEPT ![w] = q]
    BY <1>1
  <1> HIDE DEF q
  <1>6. /\ proc' \in [Workers -> Proc]
        /\ \A v \in Workers : v # w => proc'[v] = proc[v]
        /\ proc'[w] = q
    BY <1>2, <1>4, <1>5, OneMoves
  <1> QED
    BY <1>3, <1>4, <1>6 DEF r

-----------------------------------------------------------------------------
(* The inductive invariant.  Beyond TypeOK and the consistency of the rows it   *)
(* says what a thread knows of the job it was given: whose execution it works   *)
(* on and which retry count it has read, as long as it still holds the claim.   *)

UnboundPcs == {"enter", "short", "bind"}
BoundPcs == {"open", "run", "reported", "post", "badcheckpoint", "failing", "await",
             "completing", "closing"}

\* What a thread holds in its own variables.
LocalOK(p) ==
    /\ p.pc # "off" => p.job \in Jobs /\ p.token \in Tokens
    /\ p.pc \in BoundPcs \cup {"ending"} => p.exec \in ExecIds
    /\ p.pc \in UnboundPcs /\ p.mode = "REVIEW_COMPLETE" => p.active \in ExecIds

\* What a thread knows of its job's row while it holds the claim.
ClaimOK(p, row) ==
    row.status = "RUNNING" /\ row.token = p.token =>
      /\ p.pc \in UnboundPcs => row.active = p.active
      /\ p.pc \in BoundPcs => row.active = p.exec
      /\ p.pc = "retry" => row.retries = p.retries /\ p.retries < MaxJobRetries

\* Claims are exclusive: a token was drawn for one thread.
TokensOK ==
    /\ \A j \in Jobs : jobs[j].token # None => jobs[j].token \in spent
    /\ \A w \in Workers : proc[w].pc # "off" => proc[w].token \in spent
    /\ \A v, w \in Workers :
         v # w /\ proc[v].pc # "off" /\ proc[w].pc # "off" => proc[v].token # proc[w].token

ThreadsOK ==
    \A w \in Workers :
      /\ LocalOK(proc[w])
      /\ proc[w].pc # "off" => ClaimOK(proc[w], jobs[proc[w].job])
      /\ worker[w] \in {"wait", "timedout"} => proc[w].pc # "off"

Inv == TypeOK /\ RowInv /\ TokensOK /\ ThreadsOK

-----------------------------------------------------------------------------
(* Whose transaction it is *)

\* The transactions that ask for a claim token.
OwnerStep(j, tok) ==
    \/ FinalizeCompletion(j, tok) \/ FinalizeFailure(j, tok) \/ ScheduleRetry(j, tok)
    \/ TransitionAwaitingReview(j, tok)
    \/ \E e \in ExecIds : SetActiveWorkflowExecution(j, tok, e)

\* The rows are left alone, or changed by submission, time or an operator, by a
\* new claim, or by the thread that presents token tok.
RowsBy(tok) ==
    \/ UNCHANGED rowVars
    \/ \E j \in Jobs : \/ Add(j) \/ LeaseAges(j) \/ DelayEnds(j)
                       \/ ApproveReviewToPending(j) \/ FailFromReview(j)
    \/ \E j \in Jobs, t \in Tokens \ spent, profile \in Profiles : ClaimNext(j, t, profile)
    \/ \E j \in Jobs : tok \in Tokens /\ OwnerStep(j, tok)

\* Whatever another thread, a new claim, time or an operator does: a claim that
\* is still held afterwards was held before, with the same execution and count.
LEMMA Undisturbed ==
  ASSUME Inv, NEW tok, RowsBy(tok), NEW i \in Jobs, NEW t \in spent, t # tok,
         jobs'[i].status = "RUNNING", jobs'[i].token = t
  PROVE  /\ jobs[i].status = "RUNNING" /\ jobs[i].token = t
         /\ jobs'[i].active = jobs[i].active /\ jobs'[i].retries = jobs[i].retries
         /\ jobs'[i].claimed_mode = jobs[i].claimed_mode
         /\ jobs'[i].profile = jobs[i].profile
  <1> DEFINE Same == /\ jobs[i].status = "RUNNING" /\ jobs[i].token = t
                     /\ jobs'[i].active = jobs[i].active /\ jobs'[i].retries = jobs[i].retries
                     /\ jobs'[i].claimed_mode = jobs[i].claimed_mode
                     /\ jobs'[i].profile = jobs[i].profile
  <1>0. RowInv /\ RowTypeOK /\ jobs[i] \in Row /\ t # None
    BY NoneAssumption DEF Inv, RowInv, RowTypeOK
  <1>1. ASSUME NEW j \in Jobs, NEW row \in Row, Write(j, row)
        PROVE  \/ jobs'[i] = jobs[i]
               \/ i = j /\ jobs'[i] = row
    BY <1>0, <1>1, WriteEffect
  <1>2. ASSUME NEW j \in Jobs, NEW row \in Row, Write(j, row),
               row.status # "RUNNING" \/ row.token # t
        PROVE  Same
    BY <1>1, <1>2
  <1>3. CASE UNCHANGED rowVars
    BY <1>3 DEF rowVars
  <1>4. ASSUME NEW j \in Jobs, Add(j) PROVE Same
    BY <1>2, <1>4, NewFields DEF Add
  <1>5. ASSUME NEW j \in Jobs, LeaseAges(j) PROVE Same
    <2>1. jobs[j] \in Row /\ Write(j, AgedRow(jobs[j]))
      BY <1>0, <1>5 DEF LeaseAges, RowTypeOK
    <2>2. jobs'[i] = jobs[i] \/ (i = j /\ jobs'[i] = AgedRow(jobs[j]))
      BY <1>1, <2>1, AgedFields
    <2> QED
      BY <2>1, <2>2, AgedFields
  <1>6. ASSUME NEW j \in Jobs, DelayEnds(j) PROVE Same
    <2>1. jobs[j] \in Row /\ Write(j, DueRow(jobs[j]))
      BY <1>0, <1>6 DEF DelayEnds, RowTypeOK
    <2>2. jobs'[i] = jobs[i] \/ (i = j /\ jobs'[i] = DueRow(jobs[j]))
      BY <1>1, <2>1, DueFields
    <2> QED
      BY <2>1, <2>2, DueFields
  <1>7. ASSUME NEW j \in Jobs, ApproveReviewToPending(j) PROVE Same
    <2>1. jobs[j] \in Row /\ Write(j, ApprovedRow(jobs[j]))
      BY <1>0, <1>7 DEF ApproveReviewToPending, RowTypeOK
    <2> QED
      BY <1>2, <2>1, ApprovedFields
  <1>8. ASSUME NEW j \in Jobs, NEW s \in Terminal, Write(j, EndedRow(jobs[j], s)) PROVE Same
    <2>1. jobs[j] \in Row /\ s \in Statuses /\ s # "RUNNING"
      BY <1>0 DEF RowTypeOK, Terminal, Statuses
    <2> QED
      BY <1>2, <1>8, <2>1, EndedFields
  <1>9. ASSUME NEW j \in Jobs, FailFromReview(j) PROVE Same
    BY <1>8, <1>9 DEF FailFromReview, Terminal
  <1>10. ASSUME NEW j \in Jobs, NEW u \in Tokens \ spent, NEW profile \in Profiles,
                ClaimNext(j, u, profile)
         PROVE  Same
    <2>1. jobs[j] \in Row /\ Write(j, ClaimedRow(jobs[j], u, profile))
      BY <1>0, <1>10 DEF ClaimNext, RowTypeOK
    <2> QED
      BY <1>2, <2>1, ClaimedFields
  <1>11. ASSUME NEW j \in Jobs, tok \in Tokens, OwnerStep(j, tok) PROVE Same
    <2>1. jobs[j] \in Row
      BY <1>0 DEF RowTypeOK
    <2>2. CASE FinalizeCompletion(j, tok) \/ FinalizeFailure(j, tok)
      BY <1>8, <2>2 DEF FinalizeCompletion, FinalizeFailure, Terminal
    <2>3. CASE ScheduleRetry(j, tok)
      BY <1>2, <2>1, <2>3, RetryFields DEF ScheduleRetry
    <2>4. CASE TransitionAwaitingReview(j, tok)
      BY <1>2, <2>1, <2>4, ReviewFields DEF TransitionAwaitingReview
    <2>5. ASSUME NEW e \in ExecIds, SetActiveWorkflowExecution(j, tok, e) PROVE Same
      <3>1. Write(j, BoundRow(jobs[j], e)) /\ jobs[j].token = tok
        BY <2>5, OwnsRunning DEF SetActiveWorkflowExecution
      <3>2. BoundRow(jobs[j], e) \in Row /\ BoundRow(jobs[j], e).token = tok
        BY <2>1, <3>1, BoundFields
      <3> QED
        BY <1>2, <3>1, <3>2
    <2> QED
      BY <1>11, <2>2, <2>3, <2>4, <2>5 DEF OwnerStep
  <1> QED
    BY <1>3, <1>4, <1>5, <1>6, <1>7, <1>9, <1>10, <1>11 DEF RowsBy

\* A transaction leaves a row with the token it had, with none, or with one that
\* is drawn in this step; tokens are never given back.
LEMMA RowTokens ==
  ASSUME Inv, NEW tok, RowsBy(tok)
  PROVE  /\ spent \subseteq spent'
         /\ \A i \in Jobs : jobs'[i].token # None => jobs'[i].token \in spent'
  <1>0. RowTypeOK /\ \A i \in Jobs : jobs[i] \in Row /\ (jobs[i].token # None => jobs[i].token \in spent)
    BY DEF Inv, RowInv, RowTypeOK, TokensOK
  <1> DEFINE Kept == \A i \in Jobs : jobs'[i].token # None => jobs'[i].token \in spent'
  <1>1. ASSUME NEW j \in Jobs, NEW row \in Row, Write(j, row), spent \subseteq spent',
               row.token # None => row.token \in spent'
        PROVE  Kept
    <2> SUFFICES ASSUME NEW i \in Jobs, jobs'[i].token # None
                 PROVE  jobs'[i].token \in spent'
      OBVIOUS
    <2>1. jobs'[j] = row /\ (i # j => jobs'[i] = jobs[i])
      BY <1>0, <1>1, WriteEffect
    <2> QED
      BY <1>0, <1>1, <2>1
  <1>2. ASSUME NEW j \in Jobs, spent' = spent,
               \/ Write(j, NewRow) \/ Write(j, RetryRow(jobs[j])) \/ Write(j, ReviewRow(jobs[j]))
               \/ \E s \in Statuses : Write(j, EndedRow(jobs[j], s))
        PROVE  Kept
    BY <1>0, <1>1, <1>2, NewFields, RetryFields, ReviewFields, EndedFields
  <1>3. ASSUME NEW j \in Jobs, spent' = spent,
               \/ Write(j, AgedRow(jobs[j])) \/ Write(j, DueRow(jobs[j]))
               \/ Write(j, ApprovedRow(jobs[j]))
               \/ \E e \in ExecIds : Write(j, BoundRow(jobs[j], e))
        PROVE  Kept
    BY <1>0, <1>1, <1>3, AgedFields, DueFields, ApprovedFields, BoundFields
  <1>4. CASE UNCHANGED rowVars
    BY <1>0, <1>4 DEF rowVars
  <1>5. ASSUME NEW j \in Jobs, \/ Add(j) \/ LeaseAges(j) \/ DelayEnds(j)
                               \/ ApproveReviewToPending(j) \/ FailFromReview(j)
        PROVE  spent \subseteq spent' /\ Kept
    BY <1>2, <1>3, <1>5
       DEF Add, LeaseAges, DelayEnds, ApproveReviewToPending, FailFromReview, Statuses
  <1>6. ASSUME NEW j \in Jobs, NEW t \in Tokens \ spent, NEW profile \in Profiles,
               ClaimNext(j, t, profile)
        PROVE  spent \subseteq spent' /\ Kept
    <2>1. spent' = spent \cup {t} /\ Write(j, ClaimedRow(jobs[j], t, profile))
      BY <1>6 DEF ClaimNext
    <2>2. ClaimedRow(jobs[j], t, profile) \in Row /\ ClaimedRow(jobs[j], t, profile).token = t
      BY <1>0, ClaimedFields
    <2>3. spent \subseteq spent' /\ t \in spent'
      BY <2>1
    <2> QED
      BY <1>1, <2>1, <2>2, <2>3
  <1>7. ASSUME NEW j \in Jobs, OwnerStep(j, tok)
        PROVE  spent \subseteq spent' /\ Kept
    BY <1>2, <1>3, <1>7
       DEF OwnerStep, FinalizeCompletion, FinalizeFailure, ScheduleRetry,
           TransitionAwaitingReview, SetActiveWorkflowExecution, Statuses
  <1> QED
    BY <1>4, <1>5, <1>6, <1>7 DEF RowsBy, rowVars

\* A thread that is not the one presenting a token keeps what it knows.
LEMMA OtherThread ==
  ASSUME Inv, NEW tok, RowsBy(tok), NEW v \in Workers, proc[v].pc # "off",
         proc[v].token # tok
  PROVE  ClaimOK(proc[v], jobs'[proc[v].job])
  <1>1. proc[v].job \in Jobs /\ proc[v].token \in spent
    BY DEF Inv, ThreadsOK, TokensOK, LocalOK
  <1>2. ClaimOK(proc[v], jobs[proc[v].job])
    BY DEF Inv, ThreadsOK
  <1> DEFINE i == proc[v].job
             t == proc[v].token
  <1>3. jobs'[i].status = "RUNNING" /\ jobs'[i].token = t =>
          /\ jobs[i].status = "RUNNING" /\ jobs[i].token = t
          /\ jobs'[i].active = jobs[i].active /\ jobs'[i].retries = jobs[i].retries
    BY <1>1, Undisturbed
  <1> QED
    BY <1>2, <1>3 DEF ClaimOK

\* A step of worker w, whose thread presents token tok if any, keeps the
\* invariant on all threads if it keeps it on its own.
LEMMA OneThread ==
  ASSUME Inv, NEW w \in Workers, NEW tok, RowsBy(tok),
         \A v \in Workers : v # w /\ proc[v].pc # "off" => proc[v].token # tok,
         \A v \in Workers : v # w => proc'[v] = proc[v] /\ worker'[v] = worker[v],
         LocalOK(proc'[w]),
         proc'[w].pc # "off" => ClaimOK(proc'[w], jobs'[proc'[w].job]),
         worker'[w] \in {"wait", "timedout"} => proc'[w].pc # "off",
         proc'[w].pc # "off" => \/ proc[w].pc # "off" /\ proc'[w].token = proc[w].token
                                \/ proc'[w].token \in spent' \ spent
  PROVE  TokensOK' /\ ThreadsOK'
  <1>1. /\ spent \subseteq spent'
        /\ \A i \in Jobs : jobs'[i].token # None => jobs'[i].token \in spent'
    BY RowTokens
  <1>2. /\ \A v \in Workers : proc[v].pc # "off" => proc[v].token \in spent
        /\ \A u, v \in Workers : u # v /\ proc[u].pc # "off" /\ proc[v].pc # "off"
                                   => proc[u].token # proc[v].token
    BY DEF Inv, TokensOK
  <1>3. ASSUME NEW v \in Workers
        PROVE  /\ LocalOK(proc'[v])
               /\ proc'[v].pc # "off" => ClaimOK(proc'[v], jobs'[proc'[v].job])
               /\ worker'[v] \in {"wait", "timedout"} => proc'[v].pc # "off"
    <2>1. CASE v = w
      BY <2>1
    <2>2. CASE v # w
      <3>1. proc'[v] = proc[v] /\ worker'[v] = worker[v]
        BY <2>2
      <3>2. /\ LocalOK(proc[v])
            /\ worker[v] \in {"wait", "timedout"} => proc[v].pc # "off"
        BY DEF Inv, ThreadsOK
      <3>3. proc[v].pc # "off" => ClaimOK(proc[v], jobs'[proc[v].job])
        BY <2>2, OtherThread
      <3> QED
        BY <3>1, <3>2, <3>3
    <2> QED
      BY <2>1, <2>2
  <1>4. ThreadsOK'
    BY <1>3 DEF ThreadsOK
  <1>5. \A v \in Workers : proc'[v].pc # "off" => proc'[v].token \in spent'
    BY <1>1, <1>2
  <1>6. ASSUME NEW u \in Workers, NEW v \in Workers,
               u # v, proc'[u].pc # "off", proc'[v].pc # "off"
        PROVE  proc'[u].token # proc'[v].token
    BY <1>2, <1>6
  <1> QED
    BY <1>1, <1>4, <1>5, <1>6 DEF TokensOK

\* A step of nobody's thread keeps the invariant on all threads.
LEMMA NoThread ==
  ASSUME Inv, RowsBy(None), UNCHANGED <<proc, worker>>
  PROVE  TokensOK' /\ ThreadsOK'
  <1>1. /\ spent \subseteq spent'
        /\ \A i \in Jobs : jobs'[i].token # None => jobs'[i].token \in spent'
    BY RowTokens
  <1>2. proc' = proc /\ worker' = worker
    OBVIOUS
  <1>3. \A v \in Workers : proc[v].pc # "off" => proc[v].token \in spent /\ proc[v].token # None
    BY NoneAssumption DEF Inv, TokensOK, RowInv, RowTypeOK
  <1>4. TokensOK'
    BY <1>1, <1>2, <1>3 DEF Inv, TokensOK
  <1>5. ThreadsOK'
    BY <1>2, <1>3, OtherThread DEF Inv, ThreadsOK
  <1> QED
    BY <1>4, <1>5

-----------------------------------------------------------------------------
(* The processor threads *)

\* Worker w's thread goes on with the claim it was given, knowing no more of its
\* job's row than is true.
Advances(w) ==
    /\ proc' \in [Workers -> Proc]
    /\ \A v \in Workers : v # w => proc'[v] = proc[v]
    /\ proc'[w].pc # "off"
    /\ proc'[w].job = proc[w].job /\ proc'[w].token = proc[w].token
    /\ LocalOK(proc'[w])
    /\ ClaimOK(proc'[w], jobs'[proc[w].job])

\* What the invariant says of a running thread.
LEMMA ThreadInv ==
  ASSUME Inv, NEW w \in Workers, proc[w].pc # "off"
  PROVE  /\ proc \in [Workers -> Proc] /\ proc[w] \in Proc
         /\ proc[w].job \in Jobs /\ proc[w].token \in Tokens
         /\ jobs[proc[w].job] \in Row
         /\ proc[w].pc \in BoundPcs \cup {"ending"} => proc[w].exec \in ExecIds
         /\ proc[w].pc \in UnboundPcs /\ proc[w].mode = "REVIEW_COMPLETE"
              => proc[w].active \in ExecIds
         /\ proc[w].active \in ExecIds \cup {None} /\ proc[w].exec \in ExecIds \cup {None}
         /\ ClaimOK(proc[w], jobs[proc[w].job])
  BY DEF Inv, TypeOK, RowTypeOK, ThreadsOK, LocalOK, Proc

\* If the thread of w advances, all threads keep the invariant.
LEMMA AdvanceThreads ==
  ASSUME Inv, NEW w \in Workers, proc[w].pc # "off", RowsBy(proc[w].token),
         UNCHANGED worker, Advances(w)
  PROVE  TokensOK' /\ ThreadsOK'
  <1>1. \A v \in Workers : v # w /\ proc[v].pc # "off" => proc[v].token # proc[w].token
    BY DEF Inv, TokensOK
  <1>2. /\ \A v \in Workers : v # w => proc'[v] = proc[v] /\ worker'[v] = worker[v]
        /\ proc'[w].pc # "off" /\ proc'[w].token = proc[w].token
        /\ LocalOK(proc'[w]) /\ ClaimOK(proc'[w], jobs'[proc'[w].job])
    BY DEF Advances
  <1> QED
    BY <1>1, <1>2, OneThread

\* A thread that returns or raises needs to know nothing of the row any more.
LEMMA EndAdvances ==
  ASSUME Inv, NEW w \in Workers, proc[w].pc # "off",
         \/ \E out \in Outcomes : Return(w, out)
         \/ \E out \in Outcomes : Raise(w, out)
  PROVE  Advances(w)
  <1>0. proc \in [Workers -> Proc] /\ proc[w].job \in Jobs /\ proc[w].token \in Tokens
    BY ThreadInv
  <1>1. /\ proc' \in [Workers -> Proc]
        /\ \A v \in Workers : v # w => proc'[v] = proc[v]
        /\ proc'[w].pc \in {"returned", "except"}
        /\ proc'[w].job = proc[w].job /\ proc'[w].token = proc[w].token
    BY <1>0, ReturnEffect, RaiseEffect
  <1>2. LocalOK(proc'[w])
    BY <1>0, <1>1 DEF LocalOK, BoundPcs, UnboundPcs
  <1>3. ClaimOK(proc'[w], jobs'[proc[w].job])
    BY <1>1 DEF ClaimOK, BoundPcs, UnboundPcs
  <1> QED
    BY <1>1, <1>2, <1>3 DEF Advances

\* A bound thread that goes on, or whose graph moves, keeps what it knows.
LEMMA GoAdvances ==
  ASSUME Inv, NEW w \in Workers, proc[w].pc \in BoundPcs, UNCHANGED jobs, NEW pc \in BoundPcs,
         Goto(w, pc) \/ \E pos \in Positions : Stands(w, pc, pos)
  PROVE  Advances(w)
  <1>0. /\ proc[w].pc # "off" /\ pc # "off" /\ pc \in Pcs
        /\ pc # "retry" /\ pc \notin UnboundPcs
    BY DEF BoundPcs, UnboundPcs, Pcs
  <1>1. /\ proc \in [Workers -> Proc] /\ proc[w].job \in Jobs /\ proc[w].token \in Tokens
        /\ proc[w].exec \in ExecIds /\ ClaimOK(proc[w], jobs[proc[w].job])
    BY <1>0, ThreadInv
  <1>2. /\ proc' \in [Workers -> Proc]
        /\ \A v \in Workers : v # w => proc'[v] = proc[v]
        /\ proc'[w].pc = pc /\ proc'[w].exec = proc[w].exec
        /\ proc'[w].job = proc[w].job /\ proc'[w].token = proc[w].token
    BY <1>0, <1>1, GotoEffect, StandsEffect
  <1>3. LocalOK(proc'[w])
    BY <1>0, <1>1, <1>2 DEF LocalOK
  <1>4. ClaimOK(proc'[w], jobs[proc[w].job])
    BY <1>0, <1>1, <1>2 DEF ClaimOK
  <1> QED
    BY <1>0, <1>2, <1>3, <1>4 DEF Advances

\* A thread that is given an execution knows it to be its job's active one.
LEMMA BoundAdvances ==
  ASSUME Inv, NEW w \in Workers, proc[w].pc # "off", NEW e \in ExecIds, Bound(w, e),
         jobs'[proc[w].job].status = "RUNNING" /\ jobs'[proc[w].job].token = proc[w].token
           => jobs'[proc[w].job].active = e
  PROVE  Advances(w)
  <1>1. proc \in [Workers -> Proc] /\ proc[w].job \in Jobs /\ proc[w].token \in Tokens
    BY ThreadInv
  <1>2. /\ proc' \in [Workers -> Proc]
        /\ \A v \in Workers : v # w => proc'[v] = proc[v]
        /\ proc'[w].pc = "open" /\ proc'[w].exec = e
        /\ proc'[w].job = proc[w].job /\ proc'[w].token = proc[w].token
    BY <1>1, BoundEffect
  <1>3. LocalOK(proc'[w])
    BY <1>1, <1>2 DEF LocalOK, UnboundPcs
  <1>4. ClaimOK(proc'[w], jobs'[proc[w].job])
    BY <1>2 DEF ClaimOK, UnboundPcs
  <1> QED
    BY <1>2, <1>3, <1>4 DEF Advances

\* Steps of the processor that leave the rows alone: replay, short circuit,
\* resumption, the graph, exceptions and the end of an execution.
LEMMA ReadingAdvances ==
  ASSUME Inv, NEW w \in Workers, UNCHANGED rowVars,
         \/ Enter(w) \/ ShortCircuit(w) \/ BindResume(w) \/ OpenCheckpoint(w)
         \/ RunNodes(w) \/ PersistFinal(w) \/ PutResult(w) \/ ProcessingError(w)
         \/ EscapingError(w) \/ PostInvoke(w) \/ BadCheckpoint(w) \/ CompleteExecution(w)
         \/ HandleException(w) \/ FailExecution(w)
         \/ CommitBadCheckpoint(w) \/ CommitCompletion(w) \/ CommitFailure(w)
  PROVE  proc[w].pc # "off" /\ Advances(w)
  <1> DEFINE p == proc[w]
  <1>0. UNCHANGED jobs
    BY DEF rowVars
  <1>1. CASE Enter(w)
    <2>1. p.pc = "enter"
      BY <1>1 DEF Enter
    <2>2. /\ p.job \in Jobs /\ p.token \in Tokens /\ ClaimOK(p, jobs[p.job]) /\ TypeOK
          /\ p.mode = "REVIEW_COMPLETE" => p.active \in ExecIds
      BY <2>1, ThreadInv DEF UnboundPcs, Inv
    <2>3. CASE \E out \in Outcomes : Return(w, out)
      BY <2>1, <2>3, EndAdvances
    <2>4. CASE ~ \E out \in Outcomes : Return(w, out)
      <3>1. ~Return(w, "completed")
        BY <2>4 DEF Outcomes
      <3>2. /\ proc' \in [Workers -> Proc]
            /\ \A v \in Workers : v # w => proc'[v] = proc[v]
            /\ proc'[w].pc = "short"
            /\ proc'[w].job = p.job /\ proc'[w].token = p.token /\ proc'[w].mode = p.mode
            /\ proc'[w].active = (IF p.active = None THEN jobs[p.job].active ELSE p.active)
        BY <1>1, <2>2, <3>1, EnterEffect
      <3>3. LocalOK(proc'[w])
        BY <2>2, <3>2, NoneAssumption DEF LocalOK, BoundPcs
      <3>4. ClaimOK(proc'[w], jobs[p.job])
        BY <2>1, <2>2, <3>2 DEF ClaimOK, UnboundPcs, BoundPcs
      <3> QED
        BY <1>0, <2>1, <3>2, <3>3, <3>4 DEF Advances
    <2> QED
      BY <2>3, <2>4
  <1>2. CASE ShortCircuit(w)
    <2>1. p.pc = "short" /\ (Goto(w, "bind") \/ Return(w, "completed"))
      BY <1>2 DEF ShortCircuit
    <2>2. CASE Return(w, "completed")
      BY <2>1, <2>2, EndAdvances DEF Outcomes
    <2>3. CASE Goto(w, "bind")
      <3>1. /\ proc \in [Workers -> Proc] /\ p.job \in Jobs /\ p.token \in Tokens
            /\ ClaimOK(p, jobs[p.job])
            /\ p.mode = "REVIEW_COMPLETE" => p.active \in ExecIds
        BY <2>1, ThreadInv DEF UnboundPcs
      <3>2. "bind" \in Pcs
        BY DEF Pcs
      <3>3. /\ proc' \in [Workers -> Proc]
            /\ \A v \in Workers : v # w => proc'[v] = proc[v]
            /\ proc'[w].pc = "bind" /\ proc'[w].job = p.job /\ proc'[w].token = p.token
            /\ proc'[w].mode = p.mode /\ proc'[w].active = p.active
        BY <2>3, <3>1, <3>2, GotoEffect
      <3>4. LocalOK(proc'[w])
        BY <3>1, <3>3 DEF LocalOK, BoundPcs
      <3>5. ClaimOK(proc'[w], jobs[p.job])
        BY <2>1, <3>1, <3>3 DEF ClaimOK, UnboundPcs, BoundPcs
      <3> QED
        BY <1>0, <2>1, <3>3, <3>4, <3>5 DEF Advances
    <2> QED
      BY <2>1, <2>2, <2>3
  <1>3. CASE BindResume(w)
    <2>1. p.pc = "bind" /\ Resumes(p) /\ (Return(w, "error") \/ Bound(w, p.active))
      BY <1>3 DEF BindResume
    <2>2. /\ p.active \in ExecIds \cup {None} /\ ClaimOK(p, jobs[p.job])
          /\ p.mode = "REVIEW_COMPLETE" => p.active \in ExecIds
      BY <2>1, ThreadInv DEF UnboundPcs
    <2>3. p.active \in ExecIds
      BY <2>1, <2>2 DEF Resumes
    <2>4. jobs'[p.job].status = "RUNNING" /\ jobs'[p.job].token = p.token
            => jobs'[p.job].active = p.active
      BY <1>0, <2>1, <2>2 DEF ClaimOK, UnboundPcs
    <2>5. CASE Return(w, "error")
      BY <2>1, <2>5, EndAdvances DEF Outcomes
    <2>6. CASE Bound(w, p.active)
      BY <2>1, <2>3, <2>4, <2>6, BoundAdvances
    <2> QED
      BY <2>1, <2>5, <2>6
  <1>4. ASSUME p.pc \in BoundPcs,
               \/ \E pc \in BoundPcs : Goto(w, pc)
               \/ \E pc \in BoundPcs, pos \in Positions : Stands(w, pc, pos)
               \/ \E out \in Outcomes : Return(w, out) \/ Raise(w, out)
        PROVE  p.pc # "off" /\ Advances(w)
    <2>1. p.pc # "off"
      BY <1>4 DEF BoundPcs
    <2> QED
      BY <1>0, <1>4, <2>1, GoAdvances, EndAdvances
  <1>5. CASE OpenCheckpoint(w)
    <2>1. ckpt[p.exec] \in Positions /\ p.pc \in BoundPcs
      <3>1. p.pc = "open"
        BY <1>5 DEF OpenCheckpoint
      <3>2. p.exec \in ExecIds
        BY <3>1, ThreadInv DEF BoundPcs
      <3> QED
        BY <3>1, <3>2 DEF BoundPcs, Inv, TypeOK
    <2>2. \/ \E pc \in BoundPcs : Goto(w, pc)
          \/ \E pc \in BoundPcs, pos \in Positions : Stands(w, pc, pos)
      BY <1>5, <2>1 DEF OpenCheckpoint, BoundPcs
    <2> QED
      BY <1>4, <2>1, <2>2
  <1>6. CASE RunNodes(w) \/ PutResult(w)
    <2>1. p.pc \in BoundPcs /\ \E pc \in BoundPcs, pos \in Positions : Stands(w, pc, pos)
      BY <1>6 DEF RunNodes, PutResult, BoundPcs, Positions
    <2> QED
      BY <1>4, <2>1
  <1>7. CASE PersistFinal(w)
    <2>1. p.pc \in BoundPcs
      BY <1>7 DEF PersistFinal, BoundPcs
    <2>2. Goto(w, "reported") \/ Raise(w, "terminal")
      BY <1>7 DEF PersistFinal
    <2> QED
      BY <1>4, <2>1, <2>2 DEF BoundPcs, Outcomes
  <1>8. CASE ProcessingError(w) \/ EscapingError(w)
    <2>1. p.pc # "off" /\ (Raise(w, "retry") \/ Raise(w, "terminal") \/ Return(w, "error"))
      BY <1>8 DEF ProcessingError, EscapingError
    <2> QED
      BY <2>1, EndAdvances DEF Outcomes
  <1>9. CASE PostInvoke(w)
    <2>1. p.pc = "post"
      BY <1>9 DEF PostInvoke
    <2>2. \/ Goto(w, "completing") \/ Goto(w, "await") \/ Goto(w, "badcheckpoint")
          \/ Return(w, "error")
      BY <1>9 DEF PostInvoke
    <2> QED
      BY <1>4, <2>1, <2>2 DEF BoundPcs, Outcomes
  <1>10. CASE BadCheckpoint(w) \/ CompleteExecution(w)
    <2>1. p.pc \in BoundPcs
      BY <1>10 DEF BadCheckpoint, CompleteExecution, BoundPcs
    <2>2. Goto(w, "failing") \/ Goto(w, "closing") \/ Raise(w, "terminal")
      BY <1>10 DEF BadCheckpoint, CompleteExecution
    <2> QED
      BY <1>4, <2>1, <2>2 DEF Outcomes, BoundPcs
  <1>11. CASE CommitBadCheckpoint(w) \/ CommitCompletion(w) \/ CommitFailure(w)
    <2>1. p.pc # "off"
      BY <1>11 DEF CommitBadCheckpoint, CommitCompletion, CommitFailure
    <2>2. \E out \in {"terminal", "error", "completed", "lost"} : Return(w, out) \/ Raise(w, out)
      BY <1>11 DEF CommitBadCheckpoint, CommitCompletion, CommitFailure
    <2> QED
      BY <2>1, <2>2, EndAdvances DEF Outcomes
  <1>13. CASE FailExecution(w)
    <2>1. p.pc = "decide"
      BY <1>13 DEF FailExecution
    <2>2. CASE Return(w, "terminal") \/ Return(w, "lost")
      BY <2>1, <2>2, EndAdvances DEF Outcomes
    <2>3. CASE p.exec # None /\ Goto(w, "ending")
      <3>1. /\ proc \in [Workers -> Proc] /\ p.job \in Jobs /\ p.token \in Tokens
            /\ p.exec \in ExecIds
        BY <2>1, <2>3, ThreadInv
      <3>2. "ending" \in Pcs
        BY DEF Pcs
      <3>3. /\ proc' \in [Workers -> Proc]
            /\ \A v \in Workers : v # w => proc'[v] = proc[v]
            /\ proc'[w].pc = "ending" /\ proc'[w].job = p.job /\ proc'[w].token = p.token
            /\ proc'[w].exec = p.exec
        BY <2>3, <3>1, <3>2, GotoEffect
      <3>4. LocalOK(proc'[w])
        BY <3>1, <3>3 DEF LocalOK, UnboundPcs
      <3>5. ClaimOK(proc'[w], jobs'[p.job])
        BY <3>3 DEF ClaimOK, UnboundPcs, BoundPcs
      <3> QED
        BY <2>1, <3>3, <3>4, <3>5 DEF Advances
    <2> QED
      BY <1>13, <2>2, <2>3 DEF FailExecution
  <1>12. CASE HandleException(w)
    <2>1. p.pc = "except"
      BY <1>12 DEF HandleException
    <2>2. p.job \in Jobs /\ p.token \in Tokens /\ TypeOK
      BY <2>1, ThreadInv DEF Inv
    <2>3. /\ proc' \in [Workers -> Proc]
          /\ \A v \in Workers : v # w => proc'[v] = proc[v]
          /\ \/ proc'[w].pc = "decide"
             \/ proc'[w].pc = "retry" /\ jobs[p.job].retries < MaxJobRetries
          /\ proc'[w].job = p.job /\ proc'[w].token = p.token
          /\ proc'[w].retries = jobs[p.job].retries
      BY <1>12, <2>2, HandleEffect
    <2>4. LocalOK(proc'[w])
      BY <2>2, <2>3 DEF LocalOK, BoundPcs, UnboundPcs
    <2>5. ClaimOK(proc'[w], jobs[p.job])
      BY <2>3 DEF ClaimOK, BoundPcs, UnboundPcs
    <2> QED
      BY <1>0, <2>1, <2>3, <2>4, <2>5 DEF Advances
  <1> QED
    BY <1>1, <1>2, <1>3, <1>5, <1>6, <1>7, <1>8, <1>9, <1>10, <1>11, <1>12, <1>13

\* A thread's own transaction, presented to the table, is one of RowStep.
LEMMA OwnerRows ==
  ASSUME Inv, NEW w \in Workers, proc[w].pc # "off",
         LET j == proc[w].job
             tok == proc[w].token
         IN  \/ FinalizeCompletion(j, tok) \/ FinalizeFailure(j, tok)
             \/ jobs[j].retries < MaxJobRetries /\ ScheduleRetry(j, tok)
             \/ jobs[j].active # None /\ TransitionAwaitingReview(j, tok)
             \/ \E e \in ExecIds : SetActiveWorkflowExecution(j, tok, e)
  PROVE  RowNext /\ RowsBy(proc[w].token)
  <1>1. proc[w].job \in Jobs /\ proc[w].token \in Tokens
    BY ThreadInv
  <1>2. RowNext
    BY <1>1 DEF RowNext, RowStep
  <1>3. OwnerStep(proc[w].job, proc[w].token)
    BY DEF OwnerStep
  <1> QED
    BY <1>1, <1>2, <1>3 DEF RowsBy

\* Steps of the processor that may write the row: binding a new execution,
\* pausing and scheduling a retry.  The table's duties are kept: the count that
\* _handle_exception read is the row's as long as the claim is held, and a job
\* that pauses has the thread's execution bound.
LEMMA WritingAdvances ==
  ASSUME Inv, NEW w \in Workers, BindCreate(w) \/ AwaitReview(w) \/ Retry(w)
  PROVE  /\ proc[w].pc # "off" /\ Advances(w)
         /\ UNCHANGED rowVars \/ (RowNext /\ RowsBy(proc[w].token))
  <1> DEFINE p == proc[w]
             j == proc[w].job
             tok == proc[w].token
  <1>1. CASE BindCreate(w)
    <2>1. p.pc = "bind"
      BY <1>1 DEF BindCreate
    <2>2. p.pc # "off" /\ j \in Jobs /\ jobs[j] \in Row /\ RowTypeOK
      BY <2>1, ThreadInv DEF Inv, RowInv
    <2>3. CASE Raise(w, "terminal") /\ UNCHANGED rowVars
      BY <2>2, <2>3, EndAdvances DEF Outcomes
    <2>4. ASSUME NEW e \in ExecIds, SetActiveWorkflowExecution(j, tok, e), Bound(w, e)
          PROVE  Advances(w) /\ RowNext /\ RowsBy(tok)
      <3>1. RowNext /\ RowsBy(tok)
        BY <2>2, <2>4, OwnerRows
      <3>2. Write(j, BoundRow(jobs[j], e))
        BY <2>4 DEF SetActiveWorkflowExecution
      <3>3. jobs'[j].active = e
        BY <2>2, <3>2, BoundFields, WriteEffect
      <3> QED
        BY <2>2, <2>4, <3>1, <3>3, BoundAdvances
    <2>5. \/ Raise(w, "terminal") /\ UNCHANGED rowVars
          \/ \E e \in ExecIds : SetActiveWorkflowExecution(j, tok, e) /\ Bound(w, e)
      <3>1. Drawn({x \in ExecIds : execs[x].status = "UNUSED"}) \subseteq ExecIds
        BY DEF Drawn
      <3> QED
        BY <1>1, <3>1 DEF BindCreate
    <2> QED
      BY <2>2, <2>3, <2>4, <2>5
  <1>2. CASE AwaitReview(w)
    <2>1. p.pc = "await"
      BY <1>2 DEF AwaitReview
    <2>2. p.pc # "off" /\ p.exec \in ExecIds /\ ClaimOK(p, jobs[j])
      BY <2>1, ThreadInv DEF BoundPcs
    <2>3. Return(w, "paused") \/ Raise(w, "terminal")
      BY <1>2 DEF AwaitReview
    <2>4. Advances(w)
      BY <2>2, <2>3, EndAdvances DEF Outcomes
    <2>5. UNCHANGED rowVars \/ TransitionAwaitingReview(j, tok)
      BY <1>2 DEF AwaitReview
    <2>6. TransitionAwaitingReview(j, tok) => jobs[j].active # None
      <3>1. j \in Jobs
        BY <2>2, ThreadInv
      <3> QED
        BY <2>1, <2>2, <3>1, OwnsRunning, NoneAssumption
           DEF TransitionAwaitingReview, ClaimOK, BoundPcs
    <2> QED
      BY <2>2, <2>4, <2>5, <2>6, OwnerRows
  <1>3. CASE Retry(w)
    <2>1. p.pc = "retry"
      BY <1>3 DEF Retry
    <2>2. p.pc # "off" /\ ClaimOK(p, jobs[j]) /\ j \in Jobs
      BY <2>1, ThreadInv
    <2>3. Return(w, "retry") \/ Return(w, "lost")
      BY <1>3 DEF Retry
    <2>4. Advances(w)
      BY <2>2, <2>3, EndAdvances DEF Outcomes
    <2>5. UNCHANGED rowVars \/ ScheduleRetry(j, tok)
      BY <1>3 DEF Retry
    <2>6. ScheduleRetry(j, tok) => jobs[j].retries < MaxJobRetries
      BY <2>1, <2>2, OwnsRunning DEF ScheduleRetry, ClaimOK
    <2> QED
      BY <2>2, <2>4, <2>5, <2>6, OwnerRows
  <1> QED
    BY <1>1, <1>2, <1>3

\* Every step of a processor thread keeps the invariant on threads, and is one
\* of the table or leaves the table alone.
LEMMA ProcessorStep ==
  ASSUME Inv, NEW w \in Workers, Processor(w)
  PROVE  /\ [RowNext]_rowVars /\ proc' \in [Workers -> Proc]
         /\ TokensOK' /\ ThreadsOK'
  <1>1. UNCHANGED worker
    BY DEF Processor, Enter, ShortCircuit, BindResume, BindCreate, OpenCheckpoint, RunNodes,
           PersistFinal, PutResult, ProcessingError, EscapingError, PostInvoke, BadCheckpoint,
           CompleteExecution, AwaitReview, HandleException, FailExecution, Retry,
           CommitBadCheckpoint, CommitCompletion, CommitFailure
  <1>2. CASE BindCreate(w) \/ AwaitReview(w) \/ Retry(w)
    <2>1. /\ proc[w].pc # "off" /\ Advances(w)
          /\ UNCHANGED rowVars \/ (RowNext /\ RowsBy(proc[w].token))
      BY <1>2, WritingAdvances
    <2>2. RowsBy(proc[w].token)
      BY <2>1 DEF RowsBy
    <2> QED
      BY <1>1, <2>1, <2>2, AdvanceThreads DEF Advances
  <1>3. CASE ~(BindCreate(w) \/ AwaitReview(w) \/ Retry(w))
    <2>1. UNCHANGED rowVars
      BY <1>3
         DEF Processor, Enter, ShortCircuit, BindResume, OpenCheckpoint, RunNodes,
             PersistFinal, PutResult, ProcessingError, EscapingError, PostInvoke, BadCheckpoint,
             CompleteExecution, HandleException, FailExecution, db, rowVars,
             CommitBadCheckpoint, CommitCompletion, CommitFailure
    <2>2. proc[w].pc # "off" /\ Advances(w)
      BY <1>3, <2>1, ReadingAdvances DEF Processor
    <2>3. RowsBy(proc[w].token)
      BY <2>1 DEF RowsBy
    <2> QED
      BY <1>1, <2>1, <2>2, <2>3, AdvanceThreads DEF Advances
  <1> QED
    BY <1>2, <1>3

-----------------------------------------------------------------------------
(* The polling threads, the operator and time *)

\* An idle thread holds nothing.
LEMMA NoProcOK == NoProc \in Proc /\ LocalOK(NoProc) /\ NoProc.pc = "off"
  BY NoProcTyped DEF LocalOK, BoundPcs, UnboundPcs

\* claim_next hands a job to a thread with the claim it was given.
LEMMA ClaimStep ==
  ASSUME Inv, NEW w \in Workers, NEW j \in Jobs, Claim(w, j)
  PROVE  /\ RowNext /\ proc' \in [Workers -> Proc]
         /\ TokensOK' /\ ThreadsOK'
  <1>0. /\ TypeOK /\ RowTypeOK /\ jobs[j] \in Row /\ FieldsOK(jobs[j])
        /\ ProfileOf[w] \in Profiles /\ spent \subseteq Tokens
    BY ProfileAssumption, JobInv DEF Inv, RowInv
  <1>1. PICK tok \in Drawn(Tokens \ spent) :
          /\ ClaimNext(j, tok, ProfileOf[w])
          /\ proc' = [proc EXCEPT ![w] =
                        [NoProc EXCEPT !.pc = "enter", !.job = j, !.token = tok,
                                       !.mode = jobs'[j].claimed_mode,
                                       !.active = jobs[j].active]]
    BY DEF Claim
  <1>2. tok \in Tokens \ spent
    BY <1>1 DEF Drawn
  <1> DEFINE row == ClaimedRow(jobs[j], tok, ProfileOf[w])
  <1>3. /\ Write(j, row) /\ spent' = spent \cup {tok}
        /\ jobs[j].status \in {"PENDING", "RUNNING"}
    BY <1>1 DEF ClaimNext, Eligible
  <1>4. /\ row \in Row /\ row.active = jobs[j].active /\ FieldsOK(row)
        /\ row.status = "RUNNING"
    BY <1>0, <1>2, <1>3, ClaimedFields, ClaimedRowOK
  <1>5. jobs'[j] = row
    BY <1>0, <1>3, <1>4, WriteEffect
  <1>6. jobs'[j].claimed_mode \in Modes /\ jobs[j].active \in ExecIds \cup {None}
    BY <1>0, <1>4, <1>5 DEF Row
  <1>7. /\ proc' \in [Workers -> Proc]
        /\ \A v \in Workers : v # w => proc'[v] = proc[v]
        /\ proc'[w].pc = "enter" /\ proc'[w].job = j /\ proc'[w].token = tok
        /\ proc'[w].mode = jobs'[j].claimed_mode /\ proc'[w].active = jobs[j].active
    <2> DEFINE m == jobs'[j].claimed_mode
               a == jobs[j].active
    <2>1. proc' = [proc EXCEPT ![w] =
                     [NoProc EXCEPT !.pc = "enter", !.job = j, !.token = tok,
                                    !.mode = m, !.active = a]]
      BY <1>1
    <2>2. m \in Modes /\ a \in ExecIds \cup {None} /\ tok \in Tokens /\ proc \in [Workers -> Proc]
      BY <1>0, <1>2, <1>6 DEF TypeOK
    <2> HIDE DEF m, a
    <2>3. /\ proc' \in [Workers -> Proc]
          /\ \A v \in Workers : v # w => proc'[v] = proc[v]
          /\ proc'[w].pc = "enter" /\ proc'[w].job = j /\ proc'[w].token = tok
          /\ proc'[w].mode = m /\ proc'[w].active = a
      <3> DEFINE q == [NoProc EXCEPT !.pc = "enter", !.job = j, !.token = tok,
                                     !.mode = m, !.active = a]
      <3>1. /\ q \in Proc /\ q.pc = "enter" /\ q.job = j /\ q.token = tok
            /\ q.mode = m /\ q.active = a
        BY <2>2, NoProcTyped DEF Proc, Pcs
      <3> HIDE DEF q
      <3> QED
        BY <2>1, <2>2, <3>1, OneMoves DEF q
    <2> QED
      BY <2>3 DEF m, a
  <1>8. LocalOK(proc'[w])
    <2>1. proc'[w].mode = "REVIEW_COMPLETE" => row.active # None
      BY <1>4, <1>5, <1>7 DEF FieldsOK
    <2>2. proc'[w].mode = "REVIEW_COMPLETE" => proc'[w].active \in ExecIds
      BY <1>4, <1>6, <1>7, <2>1
    <2> QED
      BY <1>2, <1>7, <2>2 DEF LocalOK, BoundPcs
  <1>9. ClaimOK(proc'[w], jobs'[j])
    BY <1>4, <1>5, <1>7 DEF ClaimOK, BoundPcs
  <1>10. RowNext /\ RowsBy(None)
    BY <1>0, <1>1, <1>2 DEF RowNext, RowStep, RowsBy
  <1>11. \A v \in Workers : v # w => worker'[v] = worker[v]
    BY <1>0 DEF Claim, TypeOK
  <1>12. \A v \in Workers : v # w /\ proc[v].pc # "off" => proc[v].token # None
    BY <1>0, NoneAssumption DEF Inv, TokensOK
  <1>13. tok \in spent' \ spent
    BY <1>2, <1>3
  <1> QED
    BY <1>7, <1>8, <1>9, <1>10, <1>11, <1>12, <1>13, OneThread

\* Finalization presents the claim; after it the thread holds no RUNNING job.
LEMMA FinalizeStep ==
  ASSUME Inv, NEW w \in Workers, Finalize(w)
  PROVE  /\ [RowNext]_rowVars /\ proc' \in [Workers -> Proc]
         /\ TokensOK' /\ ThreadsOK'
  <1> DEFINE j == proc[w].job
             tok == proc[w].token
  <1>1. worker[w] \in {"wait", "timedout"}
    BY DEF Finalize, Finishing
  <1>2. proc[w].pc # "off" /\ proc \in [Workers -> Proc]
    BY <1>1 DEF Inv, ThreadsOK, TypeOK
  <1>3. /\ j \in Jobs /\ tok \in Tokens /\ jobs[j] \in Row /\ RowTypeOK
        /\ ClaimOK(proc[w], jobs[j]) /\ LocalOK(proc[w])
    BY <1>2, ThreadInv DEF Inv, RowInv, ThreadsOK
  <1>4. FinalizeCompletion(j, tok) \/ FinalizeFailure(j, tok) \/ UNCHANGED rowVars
    BY DEF Finalize
  <1>5. [RowNext]_rowVars /\ RowsBy(tok)
    BY <1>2, <1>4, OwnerRows DEF RowsBy
  <1>6. ClaimOK(proc[w], jobs'[j])
    <2>1. CASE UNCHANGED rowVars
      BY <1>3, <2>1 DEF rowVars
    <2>2. ASSUME NEW s \in {"COMPLETED", "FAILED"}, Write(j, EndedRow(jobs[j], s))
          PROVE  ClaimOK(proc[w], jobs'[j])
      <3>1. s \in Statuses /\ s # "RUNNING"
        BY DEF Statuses
      <3>2. jobs'[j].status = s
        BY <1>3, <2>2, <3>1, EndedFields, WriteEffect
      <3> QED
        BY <3>1, <3>2 DEF ClaimOK
    <2> QED
      BY <1>4, <2>1, <2>2 DEF FinalizeCompletion, FinalizeFailure
  <1>7. /\ proc' \in [Workers -> Proc]
        /\ \A v \in Workers : v # w => proc'[v] = proc[v]
        /\ proc'[w] \in {proc[w], NoProc}
    BY <1>2, NoProcOK DEF Finalize
  <1>8. /\ \A v \in Workers : v # w => worker'[v] = worker[v]
        /\ worker'[w] = "idle"
    BY DEF Finalize, Inv, TypeOK
  <1>9. \A v \in Workers : v # w /\ proc[v].pc # "off" => proc[v].token # tok
    BY <1>2 DEF Inv, TokensOK
  <1>10. /\ LocalOK(proc'[w])
         /\ proc'[w].pc # "off" => proc'[w] = proc[w]
    BY <1>3, <1>7, NoProcOK
  <1> QED
    BY <1>2, <1>5, <1>6, <1>7, <1>8, <1>9, <1>10, OneThread

\* Timeouts, failed finalizations, crashes and restarts leave the tables alone.
LEMMA FaultStep ==
  ASSUME Inv, NEW w \in Workers,
         Timeout(w) \/ FinalizeError(w) \/ Crash(w) \/ Restart(w)
  PROVE  /\ UNCHANGED rowVars /\ proc' \in [Workers -> Proc]
         /\ TokensOK' /\ ThreadsOK'
  <1>0. /\ proc \in [Workers -> Proc] /\ LocalOK(proc[w])
        /\ proc[w].pc # "off" => ClaimOK(proc[w], jobs[proc[w].job])
        /\ worker[w] \in {"wait", "timedout"} => proc[w].pc # "off"
    BY DEF Inv, TypeOK, ThreadsOK
  <1>1. UNCHANGED rowVars
    BY DEF Timeout, FinalizeError, Crash, Restart, db, rowVars
  <1>2. jobs' = jobs /\ spent' = spent /\ RowsBy(None)
    BY <1>1 DEF rowVars, RowsBy
  <1>3. /\ \A v \in Workers : v # w => worker'[v] = worker[v]
        /\ worker'[w] = "timedout" => worker[w] = "wait" /\ proc' = proc
        /\ worker'[w] # "wait"
    BY DEF Timeout, FinalizeError, Crash, Restart, Inv, TypeOK
  <1>4. /\ proc' \in [Workers -> Proc]
        /\ \A v \in Workers : v # w => proc'[v] = proc[v]
        /\ proc'[w] \in {proc[w], NoProc}
    BY <1>0, NoProcOK DEF Timeout, FinalizeError, Crash, Restart
  <1>5. /\ LocalOK(proc'[w])
        /\ proc'[w].pc # "off" => proc'[w] = proc[w]
    BY <1>0, <1>4, NoProcOK
  <1>6. \A v \in Workers : v # w /\ proc[v].pc # "off" => proc[v].token # None
    BY NoneAssumption DEF Inv, TokensOK, RowInv, RowTypeOK
  <1>7. proc'[w].pc # "off" => /\ proc[w].pc # "off" /\ proc'[w].token = proc[w].token
                               /\ ClaimOK(proc'[w], jobs'[proc'[w].job])
    BY <1>0, <1>2, <1>5
  <1>8. worker'[w] \in {"wait", "timedout"} => proc'[w].pc # "off"
    BY <1>0, <1>3
  <1> QED
    BY <1>1, <1>2, <1>3, <1>4, <1>5, <1>6, <1>7, <1>8, OneThread

\* Submission, time and operators are steps of the table, or leave it alone.
LEMMA JobStep ==
  ASSUME Inv, NEW j \in Jobs, Submit(j) \/ LeaseEnds(j) \/ RetryIsDue(j) \/ Operator(j)
  PROVE  /\ [RowNext]_rowVars /\ proc' \in [Workers -> Proc]
         /\ TokensOK' /\ ThreadsOK'
  <1>1. \/ Add(j) \/ LeaseAges(j) \/ DelayEnds(j)
        \/ ApproveReviewToPending(j) \/ FailFromReview(j)
        \/ UNCHANGED rowVars
    BY DEF Submit, LeaseEnds, RetryIsDue, Operator, ReviewReady, Approve, Reject,
           ReviewTooLate, db, rowVars
  <1>2. [RowNext]_rowVars /\ RowsBy(None)
    BY <1>1 DEF RowNext, RowStep, RowsBy
  <1>3. proc' = proc /\ worker' = worker
    BY DEF Submit, LeaseEnds, RetryIsDue, Operator, ReviewReady, Approve, Reject, ReviewTooLate
  <1> QED
    BY <1>2, <1>3, NoThread DEF Inv, TypeOK

-----------------------------------------------------------------------------
(* The other tables *)

Execution == [job : Jobs \cup {None}, status : ExecStatuses]
Decision == [action : {"retry", "await_review"}, job : Jobs,
             exec : ExecIds \cup {None}, retries : Nat]

\* The part of TypeOK about executions, checkpoints, reports and decisions.
TablesOK ==
    /\ execs \in [ExecIds -> Execution]
    /\ ckpt \in [ExecIds -> Positions]
    /\ reports \subseteq ExecIds
    /\ decisions \subseteq Decision
    /\ approvals \subseteq ExecIds

\* Ending an execution keeps the table typed.
LEMMA EndExecution ==
  ASSUME execs \in [ExecIds -> Execution], NEW e \in ExecIds, NEW s \in ExecStatuses,
         execs' = [execs EXCEPT ![e].status = s]
  PROVE  execs' \in [ExecIds -> Execution]
  BY DEF Execution

\* A processor's step keeps the tables typed.
LEMMA ProcessorTables ==
  ASSUME Inv, NEW w \in Workers, Processor(w)
  PROVE  TablesOK'
  <1> DEFINE p == proc[w]
  <1>0. TablesOK
    BY DEF Inv, TypeOK, TablesOK, Execution, Decision
  <1>1. ASSUME p.pc # "off"
        PROVE  /\ p.job \in Jobs /\ p.exec \in ExecIds \cup {None}
               /\ p.pc \in BoundPcs => p.exec \in ExecIds
               /\ jobs[p.job].retries \in Nat /\ p.retries \in Nat
    BY <1>1, ThreadInv DEF Row, Proc
  <1>2. CASE UNCHANGED <<db, ckpt>>
    BY <1>0, <1>2 DEF db, TablesOK
  <1>3. CASE RunNodes(w) \/ PutResult(w)
    <2>1. p.pc \in {"run", "reported"}
      BY <1>3 DEF RunNodes, PutResult
    <2>2. p.exec \in ExecIds
      BY <1>1, <2>1 DEF BoundPcs
    <2>3. \E pos \in Positions : ckpt' = [ckpt EXCEPT ![p.exec] = pos]
      BY <1>3 DEF RunNodes, PutResult, Positions
    <2>4. UNCHANGED <<execs, reports, decisions, approvals>>
      BY <1>3 DEF RunNodes, PutResult, db
    <2> QED
      BY <1>0, <2>2, <2>3, <2>4 DEF TablesOK
  <1>4. CASE PersistFinal(w)
    <2>1. p.pc = "run"
      BY <1>4 DEF PersistFinal
    <2>2. p.exec \in ExecIds
      BY <1>1, <2>1 DEF BoundPcs
    <2>3. reports' = reports \/ reports' = reports \cup {p.exec}
      BY <1>4 DEF PersistFinal
    <2>4. UNCHANGED <<execs, ckpt, decisions, approvals>>
      BY <1>4 DEF PersistFinal
    <2> QED
      BY <1>0, <2>2, <2>3, <2>4 DEF TablesOK
  <1>5. ASSUME NEW e \in ExecIds, NEW s \in ExecStatuses,
               execs' = execs \/ execs' = [execs EXCEPT ![e].status = s],
               UNCHANGED <<ckpt, reports, approvals>>, decisions' \subseteq Decision
        PROVE  TablesOK'
    BY <1>0, <1>5, EndExecution DEF TablesOK
  <1>6. CASE CommitBadCheckpoint(w) \/ CommitCompletion(w) \/ CommitFailure(w)
    <2>1. p.pc \in {"failing", "closing", "ending"}
      BY <1>6 DEF CommitBadCheckpoint, CommitCompletion, CommitFailure
    <2>2. p.exec \in ExecIds
      BY <2>1, ThreadInv DEF BoundPcs
    <2>3. \E s \in ExecStatuses : execs' = execs \/ execs' = [execs EXCEPT ![p.exec].status = s]
      BY <1>6 DEF CommitBadCheckpoint, CommitCompletion, CommitFailure, Ended, ExecStatuses
    <2>4. UNCHANGED <<ckpt, reports, decisions, approvals>>
      BY <1>6 DEF CommitBadCheckpoint, CommitCompletion, CommitFailure
    <2> QED
      BY <1>0, <1>5, <2>2, <2>3, <2>4 DEF TablesOK
  <1>8. CASE AwaitReview(w)
    <2> DEFINE fp == Fingerprint("await_review", p.job, p.exec, jobs[p.job].retries)
    <2>1. p.pc # "off"
      BY <1>8 DEF AwaitReview
    <2>2. fp \in Decision
      BY <1>1, <2>1 DEF Fingerprint, Decision
    <2>3. decisions' = decisions \/ decisions' = decisions \cup {fp}
      BY <1>8 DEF AwaitReview
    <2>4. UNCHANGED <<execs, ckpt, reports, approvals>>
      BY <1>8 DEF AwaitReview
    <2> HIDE DEF fp
    <2> QED
      BY <1>0, <2>2, <2>3, <2>4 DEF TablesOK
  <1>9. CASE Retry(w)
    <2> DEFINE fp == Fingerprint("retry", p.job, p.exec, p.retries)
    <2>1. p.pc # "off"
      BY <1>9 DEF Retry
    <2>2. fp \in Decision
      BY <1>1, <2>1 DEF Fingerprint, Decision
    <2>3. decisions' = decisions \/ decisions' = decisions \cup {fp}
      BY <1>9 DEF Retry
    <2>4. UNCHANGED <<ckpt, reports, approvals>>
      BY <1>9 DEF Retry
    <2>5. execs' = execs \/ (p.exec # None /\ execs' = [execs EXCEPT ![p.exec].status = "ABANDONED"])
      BY <1>9 DEF Retry
    <2> HIDE DEF fp
    <2>6. decisions' \subseteq Decision
      BY <1>0, <2>2, <2>3 DEF TablesOK
    <2>7. CASE execs' = execs
      BY <1>0, <2>4, <2>6, <2>7 DEF TablesOK
    <2>8. CASE p.exec # None /\ execs' = [execs EXCEPT ![p.exec].status = "ABANDONED"]
      <3>1. p.exec \in ExecIds /\ "ABANDONED" \in ExecStatuses
        BY <1>1, <2>1, <2>8 DEF ExecStatuses
      <3> QED
        BY <1>5, <2>4, <2>6, <2>8, <3>1
    <2> QED
      BY <2>5, <2>7, <2>8
  <1>10. CASE BindCreate(w)
    <2>1. p.job \in Jobs
      BY <1>1, <1>10 DEF BindCreate
    <2>2. UNCHANGED <<ckpt, reports, decisions, approvals>>
      BY <1>10 DEF BindCreate
    <2>3. /\ [job |-> p.job, status |-> "ABANDONED"] \in Execution
          /\ [job |-> p.job, status |-> "RUNNING"] \in Execution
      BY <2>1 DEF Execution, ExecStatuses
    <2>4. Abandoned(p.job) \in [ExecIds -> Execution]
      BY <1>0, <2>3 DEF Abandoned, TablesOK
    <2>5. \/ execs' = execs
          \/ \E e : execs' = [Abandoned(p.job) EXCEPT ![e] = [job |-> p.job, status |-> "RUNNING"]]
      BY <1>10 DEF BindCreate
    <2>6. execs' \in [ExecIds -> Execution]
      BY <1>0, <2>3, <2>4, <2>5 DEF TablesOK
    <2> QED
      BY <1>0, <2>2, <2>6 DEF TablesOK
  <1>11. CASE \/ Enter(w) \/ ShortCircuit(w) \/ BindResume(w) \/ OpenCheckpoint(w)
              \/ ProcessingError(w) \/ EscapingError(w) \/ PostInvoke(w) \/ HandleException(w)
              \/ BadCheckpoint(w) \/ CompleteExecution(w) \/ FailExecution(w)
    <2>1. UNCHANGED <<db, ckpt>>
      BY <1>11 DEF Enter, ShortCircuit, BindResume, OpenCheckpoint, ProcessingError,
                   EscapingError, PostInvoke, HandleException, BadCheckpoint,
                   CompleteExecution, FailExecution
    <2> QED
      BY <1>2, <2>1
  <1> QED
    BY <1>3, <1>4, <1>6, <1>8, <1>9, <1>10, <1>11 DEF Processor

\* Every other step keeps the tables typed.
LEMMA OtherTables ==
  ASSUME Inv, \/ \E j \in Jobs : Submit(j) \/ LeaseEnds(j) \/ RetryIsDue(j) \/ Operator(j)
              \/ \E w \in Workers : Polling(w)
  PROVE  TablesOK' /\ review' \in [Jobs -> ExecIds \cup {None}]
  <1>0. TablesOK /\ review \in [Jobs -> ExecIds \cup {None}]
    BY DEF Inv, TypeOK, TablesOK, Execution, Decision
  <1>1. ASSUME NEW j \in Jobs, Submit(j) \/ LeaseEnds(j) \/ RetryIsDue(j)
        PROVE  UNCHANGED <<execs, ckpt, reports, decisions, approvals, review>>
    BY <1>1 DEF Submit, LeaseEnds, RetryIsDue
  <1>2. ASSUME NEW w \in Workers, Polling(w)
        PROVE  UNCHANGED <<execs, ckpt, reports, decisions, approvals, review>>
    BY <1>2 DEF Polling, Claim, Timeout, Finalize, FinalizeError, Crash, Restart, db
  <1>3. CASE UNCHANGED <<execs, ckpt, reports, decisions, approvals, review>>
    BY <1>0, <1>3 DEF TablesOK
  <1>4. ASSUME NEW j \in Jobs, Operator(j)
        PROVE  TablesOK' /\ review' \in [Jobs -> ExecIds \cup {None}]
    <2>1. CASE ReviewReady(j)
      <3>1. jobs[j].active \in ExecIds \cup {None}
        BY JobInv DEF Inv, Row
      <3>2. review' = [review EXCEPT ![j] = jobs[j].active]
        BY <2>1 DEF ReviewReady
      <3>3. UNCHANGED <<execs, ckpt, reports, decisions, approvals>>
        BY <2>1 DEF ReviewReady, db
      <3> QED
        BY <1>0, <3>1, <3>2, <3>3 DEF TablesOK
    <2>2. CASE ReviewTooLate(j)
      BY <1>0, <2>2 DEF ReviewTooLate, db, TablesOK
    <2>3. review[j] # None => review[j] \in ExecIds
      BY <1>0
    <2>4. CASE Approve(j)
      <3>1. review[j] \in ExecIds /\ approvals' = approvals \cup {review[j]}
        BY <2>3, <2>4 DEF Approve
      <3>2. UNCHANGED <<execs, ckpt, reports, decisions>>
        BY <2>4 DEF Approve
      <3>3. review' \in [Jobs -> ExecIds \cup {None}]
        BY <1>0, <2>4 DEF Approve
      <3> QED
        BY <1>0, <3>1, <3>2, <3>3 DEF TablesOK
    <2>5. CASE Reject(j)
      <3>1. /\ review[j] \in ExecIds /\ "FAILED" \in ExecStatuses
            /\ execs' = [execs EXCEPT ![review[j]].status = "FAILED"]
        BY <2>3, <2>5 DEF Reject, ExecStatuses
      <3>2. UNCHANGED <<ckpt, reports, decisions, approvals>>
        BY <2>5 DEF Reject
      <3>3. review' \in [Jobs -> ExecIds \cup {None}]
        BY <1>0, <2>5 DEF Reject
      <3>4. execs' \in [ExecIds -> Execution]
        BY <1>0, <3>1, EndExecution DEF TablesOK
      <3> QED
        BY <1>0, <3>2, <3>3, <3>4 DEF TablesOK
    <2> QED
      BY <1>4, <2>1, <2>2, <2>4, <2>5 DEF Operator
  <1> QED
    BY <1>1, <1>2, <1>3, <1>4

\* The polling threads stay in their phases and faults are counted.
LEMMA WorkerTyped ==
  ASSUME Inv, Next
  PROVE  /\ worker' \in [Workers -> {"idle", "wait", "timedout", "closed"}]
         /\ faults' \in Nat
  <1>0. worker \in [Workers -> {"idle", "wait", "timedout", "closed"}] /\ faults \in Nat
    BY DEF Inv, TypeOK
  <1>1. ASSUME NEW j \in Jobs, Submit(j) \/ LeaseEnds(j) \/ RetryIsDue(j) \/ Operator(j)
        PROVE  worker' = worker /\ (faults' = faults \/ faults' = faults + 1)
    BY <1>1 DEF Submit, LeaseEnds, RetryIsDue, Operator, ReviewReady, Approve, Reject,
                ReviewTooLate, SpendFault
  <1>2. ASSUME NEW w \in Workers, Polling(w)
        PROVE  /\ \E s \in {"idle", "wait", "timedout", "closed"} :
                    worker' = [worker EXCEPT ![w] = s]
               /\ faults' = faults \/ faults' = faults + 1
    BY <1>2 DEF Polling, Claim, Timeout, Finalize, FinalizeError, Crash, Restart, SpendFault
  <1>3. ASSUME NEW w \in Workers, Processor(w)
        PROVE  worker' = worker /\ faults' = faults
    BY <1>3
       DEF Processor, Enter, ShortCircuit, BindResume, BindCreate, OpenCheckpoint, RunNodes,
           PersistFinal, PutResult, ProcessingError, EscapingError, PostInvoke, BadCheckpoint,
           CompleteExecution, AwaitReview, HandleException, FailExecution, Retry,
           CommitBadCheckpoint, CommitCompletion, CommitFailure
  <1>4. faults' \in Nat
    BY <1>0, <1>1, <1>2, <1>3 DEF Next
  <1>5. worker' \in [Workers -> {"idle", "wait", "timedout", "closed"}]
    BY <1>0, <1>1, <1>2, <1>3 DEF Next
  <1> QED
    BY <1>4, <1>5

-----------------------------------------------------------------------------
(* The theorems *)

\* The invariant holds initially.
LEMMA InitInv == Init => Inv
  <1> SUFFICES ASSUME Init PROVE Inv
    OBVIOUS
  <1>1. RowInv /\ RowTypeOK
    BY RowInitInv DEF Init, RowInv
  <1>2. \A w \in Workers : proc[w] = NoProc /\ worker[w] = "idle"
    BY DEF Init
  <1>3. TypeOK
    <2>1. [job |-> None, status |-> "UNUSED"] \in Execution
      BY DEF Execution, ExecStatuses
    <2>2. "empty" \in Positions
      BY DEF Positions
    <2>3. execs \in [ExecIds -> Execution] /\ ckpt \in [ExecIds -> Positions]
      BY <2>1, <2>2 DEF Init
    <2>4. proc \in [Workers -> Proc]
      BY NoProcOK DEF Init
    <2> QED
      BY <1>1, <2>3, <2>4 DEF Init, TypeOK, Execution
  <1>4. ThreadsOK
    BY <1>2, NoProcOK DEF ThreadsOK
  <1>5. TokensOK
    BY <1>2, NoProcOK DEF TokensOK, Init, RowInit, NoRow
  <1> QED
    BY <1>1, <1>3, <1>4, <1>5 DEF Inv

\* Every step is one of the table or leaves it alone, and keeps the invariant.
LEMMA NextInv ==
  ASSUME Inv, [Next]_vars
  PROVE  Inv' /\ [RowNext]_rowVars
  <1>1. CASE UNCHANGED vars
    <2>1. UNCHANGED rowVars
      BY <1>1 DEF vars, rowVars
    <2>2. RowInv'
      BY <2>1, RowStutter DEF Inv
    <2>3. TypeOK'
      BY <1>1, <2>2 DEF Inv, TypeOK, vars, RowInv
    <2>4. TokensOK' /\ ThreadsOK'
      BY <1>1 DEF Inv, TokensOK, ThreadsOK, vars
    <2> QED
      BY <2>1, <2>2, <2>3, <2>4 DEF Inv
  <1>2. CASE Next
    <2>1. [RowNext]_rowVars /\ proc' \in [Workers -> Proc] /\ TokensOK' /\ ThreadsOK'
      BY <1>2, ProcessorStep, ClaimStep, FinalizeStep, FaultStep, JobStep
         DEF Next, Polling
    <2>2. RowInv'
      BY <2>1, RowStepInv, RowStutter DEF Inv, RowNext
    <2>3. TablesOK' /\ review' \in [Jobs -> ExecIds \cup {None}]
      <3>1. ASSUME NEW w \in Workers, Processor(w)
            PROVE  TablesOK' /\ review' \in [Jobs -> ExecIds \cup {None}]
        <4>1. UNCHANGED review
          BY <3>1
             DEF Processor, Enter, ShortCircuit, BindResume, BindCreate, OpenCheckpoint,
                 RunNodes, PersistFinal, PutResult, ProcessingError, EscapingError, PostInvoke,
                 BadCheckpoint, CompleteExecution, AwaitReview, HandleException,
                 FailExecution, Retry,
                 CommitBadCheckpoint, CommitCompletion, CommitFailure
        <4> QED
          BY <3>1, <4>1, ProcessorTables DEF Inv, TypeOK
      <3> QED
        BY <1>2, <3>1, OtherTables DEF Next
    <2>4. /\ worker' \in [Workers -> {"idle", "wait", "timedout", "closed"}]
          /\ faults' \in Nat
      BY <1>2, WorkerTyped
    <2>5. TypeOK'
      BY <2>1, <2>2, <2>3, <2>4 DEF TypeOK, TablesOK, Execution, Decision, RowInv
    <2> QED
      BY <2>1, <2>2, <2>5 DEF Inv
  <1> QED
    BY <1>1, <1>2

\* The invariant holds in every state.
LEMMA Invariance == Spec => []Inv
  <1>1. Inv /\ [Next]_vars => Inv'
    BY NextInv
  <1> QED
    BY <1>1, InitInv, PTL DEF Spec

\* Tables and threads hold values of their declared kinds, for any number of
\* jobs, workers, crashes, timeouts and reclaims.
THEOREM TypeCorrect == Spec => []TypeOK
  <1>1. Inv => TypeOK
    BY DEF Inv
  <1> QED
    BY <1>1, Invariance, PTL

\* Workers, processors and operators change research_jobs by its transactions
\* only, never pass the retry cap, and never pause a job without an execution.
THEOREM LifecycleImplementsRows == Spec => ImplementsRows
  <1>1. Init => RowInit
    BY DEF Init
  <1>2. Inv /\ [Next]_vars => [RowNext]_rowVars
    BY NextInv
  <1> QED
    BY <1>1, <1>2, Invariance, PTL DEF Spec, RowSpec, ImplementsRows

\* So the CHECK constraint of research_jobs refuses no commit of theirs,
THEOREM LifecycleStatusFields == Spec => []StatusFields
  BY LifecycleImplementsRows, RowsStatusFields, PTL DEF ImplementsRows

\* the events of a job end in the one that its row calls for,
THEOREM LifecycleOutbox == Spec => []OutboxMatchesRow
  BY LifecycleImplementsRows, RowsOutbox, PTL DEF ImplementsRows

\* there is one retry_scheduled event per counted retry,
THEOREM LifecycleRetriesAnnounced == Spec => []RetriesAnnounced
  BY LifecycleImplementsRows, RowsRetriesAnnounced, PTL DEF ImplementsRows

\* and a terminal job is final.
THEOREM LifecycleTerminalIsFinal == Spec => TerminalIsFinal
  BY LifecycleImplementsRows, RowsTerminalIsFinal DEF ImplementsRows

-----------------------------------------------------------------------------
(* Who changed a row, and to what *)

\* The thread of w replaces the active execution of job i by a new one.
Binds(i, w, e) ==
    /\ BindCreate(w) /\ Bound(w, e) /\ execs[e].status = "UNUSED"
    /\ jobs'[i] = BoundRow(jobs[i], e)
    /\ execs' = [Abandoned(i) EXCEPT ![e] = [job |-> i, status |-> "RUNNING"]]

\* What the thread of w, which owns the claim, makes of its job's row.
OwnerMove(i, w) ==
    /\ proc[w].pc # "off" /\ proc[w].job = i /\ Owns(i, proc[w].token)
    /\ \/ /\ Finalize(w)
          /\ \/ Finalization(w) = "completion" /\ jobs'[i] = EndedRow(jobs[i], "COMPLETED")
             \/ jobs'[i] = EndedRow(jobs[i], "FAILED")
       \/ \E e \in ExecIds : Binds(i, w, e)
       \/ AwaitReview(w) /\ Return(w, "paused") /\ jobs'[i] = ReviewRow(jobs[i])
       \/ Retry(w) /\ Return(w, "retry") /\ jobs'[i] = RetryRow(jobs[i])

\* What time, an operator, a claim or an owner makes of the row of job i.
RowMove(i) ==
    \/ jobs[i].status = "ABSENT" /\ jobs'[i] = NewRow
    \/ jobs[i].lease # "none" /\ jobs'[i] = AgedRow(jobs[i])
    \/ jobs[i].next_attempt = "future" /\ jobs'[i] = DueRow(jobs[i])
    \/ /\ jobs[i].status = "AWAITING_REVIEW"
       /\ \/ Approve(i) /\ jobs'[i] = ApprovedRow(jobs[i])
          \/ Reject(i) /\ jobs'[i] = EndedRow(jobs[i], "FAILED")
    \/ \E w \in Workers, tok \in Tokens \ spent :
         /\ Claim(w, i) /\ Eligible(i, ProfileOf[w])
         /\ jobs'[i] = ClaimedRow(jobs[i], tok, ProfileOf[w])
    \/ \E w \in Workers : OwnerMove(i, w)

\* _bind creates an execution under the claim, or raises and leaves no trace.
LEMMA BindEffect ==
  ASSUME Inv, NEW w \in Workers, BindCreate(w)
  PROVE  \/ Raise(w, "terminal") /\ UNCHANGED <<rowVars, execs>>
         \/ \E e \in ExecIds : /\ Binds(proc[w].job, w, e) /\ OwnerMove(proc[w].job, w)
                               /\ Write(proc[w].job, BoundRow(jobs[proc[w].job], e))
  <1> DEFINE j == proc[w].job
  <1>1. proc[w].pc # "off"
    BY DEF BindCreate
  <1>2. j \in Jobs /\ jobs[j] \in Row /\ RowTypeOK
    BY <1>1, ThreadInv DEF Inv, RowInv
  <1>3. ASSUME NEW e \in Drawn({x \in ExecIds : execs[x].status = "UNUSED"}),
               execs' = [Abandoned(j) EXCEPT ![e] = [job |-> j, status |-> "RUNNING"]],
               SetActiveWorkflowExecution(j, proc[w].token, e), Bound(w, e)
        PROVE  /\ e \in ExecIds /\ Binds(j, w, e) /\ OwnerMove(j, w)
               /\ Write(j, BoundRow(jobs[j], e))
    <2>1. e \in ExecIds /\ execs[e].status = "UNUSED"
      BY DEF Drawn
    <2>2. Owns(j, proc[w].token) /\ Write(j, BoundRow(jobs[j], e))
      BY <1>3 DEF SetActiveWorkflowExecution
    <2>3. jobs'[j] = BoundRow(jobs[j], e)
      BY <1>2, <2>1, <2>2, BoundFields, WriteEffect
    <2>4. Binds(j, w, e)
      BY <1>3, <2>1, <2>3 DEF Binds
    <2> QED
      BY <1>1, <2>1, <2>2, <2>4 DEF OwnerMove
  <1> QED
    BY <1>3 DEF BindCreate

\* A row changes by one of these moves only, and no other row with it.
LEMMA RowMoves ==
  ASSUME Inv, [Next]_vars
  PROVE  \A i \in Jobs : jobs'[i] = jobs[i] \/ RowMove(i)
  <1>0. /\ RowTypeOK /\ \A i \in Jobs : jobs[i] \in Row
        /\ ProfileOf \in [Workers -> Profiles] /\ NewRow \in Row
    BY NewFields, ProfileAssumption DEF Inv, RowInv, RowTypeOK
  <1>1. CASE UNCHANGED jobs
    BY <1>1
  <1>2. ASSUME NEW j \in Jobs, NEW row \in Row, Write(j, row),
               jobs'[j] = row => RowMove(j)
        PROVE  \A i \in Jobs : jobs'[i] = jobs[i] \/ RowMove(i)
    BY <1>0, <1>2, WriteEffect
  <1>3. ASSUME NEW j \in Jobs, Submit(j) \/ LeaseEnds(j) \/ RetryIsDue(j)
        PROVE  \A i \in Jobs : jobs'[i] = jobs[i] \/ RowMove(i)
    <2>1. \/ jobs[j].status = "ABSENT" /\ Write(j, NewRow)
          \/ jobs[j].lease # "none" /\ Write(j, AgedRow(jobs[j]))
          \/ jobs[j].next_attempt = "future" /\ Write(j, DueRow(jobs[j]))
      BY <1>3 DEF Submit, LeaseEnds, RetryIsDue, Add, LeaseAges, DelayEnds
    <2>2. AgedRow(jobs[j]) \in Row /\ DueRow(jobs[j]) \in Row
      BY <1>0, AgedFields, DueFields
    <2> QED
      BY <1>0, <1>2, <2>1, <2>2 DEF RowMove
  <1>4. ASSUME NEW j \in Jobs, Operator(j)
        PROVE  \A i \in Jobs : jobs'[i] = jobs[i] \/ RowMove(i)
    <2>1. CASE ReviewReady(j) \/ ReviewTooLate(j)
      BY <1>1, <2>1 DEF ReviewReady, ReviewTooLate, db
    <2>2. ApprovedRow(jobs[j]) \in Row /\ EndedRow(jobs[j], "FAILED") \in Row
      BY <1>0, ApprovedFields, EndedFields DEF Statuses
    <2>3. CASE Approve(j)
      <3>1. jobs[j].status = "AWAITING_REVIEW" /\ Write(j, ApprovedRow(jobs[j]))
        BY <2>3 DEF Approve, ApproveReviewToPending
      <3> QED
        BY <1>2, <2>2, <2>3, <3>1 DEF RowMove
    <2>4. CASE Reject(j)
      <3>1. jobs[j].status = "AWAITING_REVIEW" /\ Write(j, EndedRow(jobs[j], "FAILED"))
        BY <2>4 DEF Reject, FailFromReview
      <3> QED
        BY <1>2, <2>2, <2>4, <3>1 DEF RowMove
    <2> QED
      BY <1>4, <2>1, <2>3, <2>4 DEF Operator
  <1>5. ASSUME NEW w \in Workers, NEW j \in Jobs, Claim(w, j)
        PROVE  \A i \in Jobs : jobs'[i] = jobs[i] \/ RowMove(i)
    <2>1. PICK tok \in Drawn(Tokens \ spent) : ClaimNext(j, tok, ProfileOf[w])
      BY <1>5 DEF Claim
    <2>2. tok \in Tokens \ spent
      BY <2>1 DEF Drawn
    <2>3. Eligible(j, ProfileOf[w]) /\ Write(j, ClaimedRow(jobs[j], tok, ProfileOf[w]))
      BY <2>1 DEF ClaimNext
    <2>4. ClaimedRow(jobs[j], tok, ProfileOf[w]) \in Row
      BY <1>0, <2>2, ClaimedFields
    <2> QED
      BY <1>2, <1>5, <2>2, <2>3, <2>4 DEF RowMove
  <1>6. ASSUME NEW w \in Workers, proc[w].pc # "off", NEW row \in Row,
               Write(proc[w].job, row),
               jobs'[proc[w].job] = row => OwnerMove(proc[w].job, w)
        PROVE  \A i \in Jobs : jobs'[i] = jobs[i] \/ RowMove(i)
    <2>1. proc[w].job \in Jobs
      BY <1>6, ThreadInv
    <2> QED
      BY <1>2, <1>6, <2>1 DEF RowMove
  <1>7. ASSUME NEW w \in Workers, Finalize(w)
        PROVE  \A i \in Jobs : jobs'[i] = jobs[i] \/ RowMove(i)
    <2>1. proc[w].pc # "off"
      BY <1>7 DEF Finalize, Finishing, Inv, ThreadsOK
    <2> DEFINE j == proc[w].job
    <2>2. j \in Jobs
      BY <2>1, ThreadInv
    <2>3. EndedRow(jobs[j], "FAILED") \in Row /\ EndedRow(jobs[j], "COMPLETED") \in Row
      BY <1>0, <2>2, EndedFields DEF Statuses
    <2>4. CASE Finalization(w) = "completion" /\ FinalizeCompletion(j, proc[w].token)
      BY <1>6, <1>7, <2>1, <2>2, <2>3, <2>4 DEF FinalizeCompletion, OwnerMove
    <2>5. CASE FinalizeFailure(j, proc[w].token)
      BY <1>6, <1>7, <2>1, <2>2, <2>3, <2>5 DEF FinalizeFailure, OwnerMove
    <2>6. CASE UNCHANGED rowVars
      BY <1>1, <2>6 DEF rowVars
    <2> QED
      BY <1>7, <2>4, <2>5, <2>6 DEF Finalize
  <1>8. ASSUME NEW w \in Workers, BindCreate(w)
        PROVE  \A i \in Jobs : jobs'[i] = jobs[i] \/ RowMove(i)
    <2> DEFINE j == proc[w].job
    <2>1. proc[w].pc # "off"
      BY <1>8 DEF BindCreate
    <2>2. j \in Jobs
      BY <2>1, ThreadInv
    <2>3. CASE UNCHANGED rowVars
      BY <1>1, <2>3 DEF rowVars
    <2>4. ASSUME NEW e \in ExecIds, OwnerMove(j, w), Write(j, BoundRow(jobs[j], e))
          PROVE  \A i \in Jobs : jobs'[i] = jobs[i] \/ RowMove(i)
      <3>1. BoundRow(jobs[j], e) \in Row
        BY <1>0, <2>2, BoundFields
      <3> QED
        BY <1>6, <2>1, <2>4, <3>1
    <2> QED
      BY <1>8, <2>3, <2>4, BindEffect
  <1>9. ASSUME NEW w \in Workers, AwaitReview(w) \/ Retry(w)
        PROVE  \A i \in Jobs : jobs'[i] = jobs[i] \/ RowMove(i)
    <2> DEFINE j == proc[w].job
    <2>1. proc[w].pc # "off"
      BY <1>9 DEF AwaitReview, Retry
    <2>2. j \in Jobs
      BY <2>1, ThreadInv
    <2>3. ReviewRow(jobs[j]) \in Row /\ RetryRow(jobs[j]) \in Row
      BY <1>0, <2>2, ReviewFields, RetryFields
    <2>4. CASE AwaitReview(w) /\ TransitionAwaitingReview(j, proc[w].token) /\ Return(w, "paused")
      BY <1>6, <2>1, <2>3, <2>4 DEF TransitionAwaitingReview, OwnerMove
    <2>5. CASE Retry(w) /\ ScheduleRetry(j, proc[w].token) /\ Return(w, "retry")
      BY <1>6, <2>1, <2>3, <2>5 DEF ScheduleRetry, OwnerMove
    <2>6. CASE UNCHANGED rowVars
      BY <1>1, <2>6 DEF rowVars
    <2> QED
      BY <1>9, <2>4, <2>5, <2>6 DEF AwaitReview, Retry
  <1>10. ASSUME NEW w \in Workers, Processor(w), ~BindCreate(w), ~AwaitReview(w), ~Retry(w)
         PROVE  UNCHANGED jobs
    BY <1>10
       DEF Processor, Enter, ShortCircuit, BindResume, OpenCheckpoint, RunNodes,
           PersistFinal, PutResult, ProcessingError, EscapingError, PostInvoke, BadCheckpoint,
           CompleteExecution, HandleException, FailExecution, db, rowVars,
           CommitBadCheckpoint, CommitCompletion, CommitFailure
  <1>11. ASSUME NEW w \in Workers, Timeout(w) \/ FinalizeError(w) \/ Crash(w) \/ Restart(w)
         PROVE  UNCHANGED jobs
    BY <1>11 DEF Timeout, FinalizeError, Crash, Restart, db
  <1>12. CASE UNCHANGED vars
    BY <1>1, <1>12 DEF vars
  <1>13. CASE Next
    <2>1. ASSUME NEW w \in Workers, Polling(w)
          PROVE  \A i \in Jobs : jobs'[i] = jobs[i] \/ RowMove(i)
      BY <1>1, <1>5, <1>7, <1>11, <2>1 DEF Polling
    <2>2. ASSUME NEW w \in Workers, Processor(w)
          PROVE  \A i \in Jobs : jobs'[i] = jobs[i] \/ RowMove(i)
      BY <1>1, <1>8, <1>9, <1>10, <2>2
    <2> QED
      BY <1>3, <1>4, <1>13, <2>1, <2>2 DEF Next
  <1> QED
    BY <1>12, <1>13

\* Counts only grow, a profile is bound once and for all, and an execution is
\* replaced by the owner of the claim only.
LEMMA RowGrows ==
  ASSUME Inv, [Next]_vars, NEW i \in Jobs
  PROVE  /\ jobs[i].retries <= jobs'[i].retries
         /\ jobs[i].profile # None => jobs'[i].profile = jobs[i].profile
         /\ \/ jobs'[i].active \in {jobs[i].active, None}
            \/ \E w \in Workers, e \in ExecIds :
                 OwnerMove(i, w) /\ Binds(i, w, e) /\ jobs'[i].active = e
  <1>0. jobs[i] \in Row /\ FieldsOK(jobs[i]) /\ jobs[i].retries \in Nat
    BY JobInv DEF Inv, Row
  <1>1. CASE jobs'[i] = jobs[i]
    BY <1>0, <1>1
  <1>2. CASE jobs[i].status = "ABSENT" /\ jobs'[i] = NewRow
    <2>1. jobs[i] = NoRow
      BY <1>0, <1>2 DEF FieldsOK
    <2> QED
      BY <1>2, <2>1, NewFields DEF NoRow
  <1>3. CASE jobs'[i] \in {AgedRow(jobs[i]), DueRow(jobs[i]), ApprovedRow(jobs[i])}
    BY <1>0, <1>3, AgedFields, DueFields, ApprovedFields
  <1>4. CASE \E s \in {"COMPLETED", "FAILED"} : jobs'[i] = EndedRow(jobs[i], s)
    <2>1. {"COMPLETED", "FAILED"} \subseteq Statuses
      BY DEF Statuses
    <2> QED
      BY <1>0, <1>4, <2>1, EndedFields
  <1>5. ASSUME NEW w \in Workers, NEW tok \in Tokens \ spent, Eligible(i, ProfileOf[w]),
               jobs'[i] = ClaimedRow(jobs[i], tok, ProfileOf[w])
        PROVE  /\ jobs[i].retries <= jobs'[i].retries
               /\ jobs[i].profile # None => jobs'[i].profile = jobs[i].profile
               /\ jobs'[i].active = jobs[i].active
    <2>1. ProfileOf[w] \in Profiles /\ jobs[i].profile \in {None, ProfileOf[w]}
      BY <1>5, ProfileAssumption DEF Eligible
    <2> QED
      BY <1>0, <1>5, <2>1, ClaimedFields
  <1>6. ASSUME NEW w \in Workers, NEW e \in ExecIds, Binds(i, w, e)
        PROVE  /\ jobs[i].retries <= jobs'[i].retries
               /\ jobs[i].profile # None => jobs'[i].profile = jobs[i].profile
               /\ jobs'[i].active = e
    BY <1>0, <1>6, BoundFields DEF Binds
  <1>7. CASE jobs'[i] = ReviewRow(jobs[i])
    BY <1>0, <1>7, ReviewFields
  <1>8. CASE jobs'[i] = RetryRow(jobs[i])
    BY <1>0, <1>8, RetryFields
  <1>9. ASSUME NEW w \in Workers, OwnerMove(i, w)
        PROVE  \/ jobs'[i] \in {ReviewRow(jobs[i]), RetryRow(jobs[i])}
               \/ \E s \in {"COMPLETED", "FAILED"} : jobs'[i] = EndedRow(jobs[i], s)
               \/ \E e \in ExecIds : Binds(i, w, e)
    BY <1>9 DEF OwnerMove
  <1>10. jobs'[i] = jobs[i] \/ RowMove(i)
    BY RowMoves
  <1>11. CASE \E w \in Workers : OwnerMove(i, w)
    BY <1>4, <1>6, <1>7, <1>8, <1>9, <1>11
  <1> QED
    BY <1>1, <1>2, <1>3, <1>4, <1>5, <1>10, <1>11 DEF RowMove

\* A step of its own keeps a thread's job and claim.
LEMMA ProcessorKeeps ==
  ASSUME Inv, NEW w \in Workers, Processor(w)
  PROVE  /\ proc[w].pc # "off" /\ proc'[w].pc # "off"
         /\ proc'[w].job = proc[w].job /\ proc'[w].token = proc[w].token
         /\ proc' \in [Workers -> Proc]
         /\ \A v \in Workers : v # w => proc'[v] = proc[v]
  <1>1. CASE BindCreate(w) \/ AwaitReview(w) \/ Retry(w)
    BY <1>1, WritingAdvances DEF Advances
  <1>2. CASE ~(BindCreate(w) \/ AwaitReview(w) \/ Retry(w))
    <2>1. UNCHANGED rowVars
      BY <1>2
         DEF Processor, Enter, ShortCircuit, BindResume, OpenCheckpoint, RunNodes,
             PersistFinal, PutResult, ProcessingError, EscapingError, PostInvoke,
             BadCheckpoint, CompleteExecution, HandleException, FailExecution, db, rowVars,
             CommitBadCheckpoint, CommitCompletion, CommitFailure
    <2> QED
      BY <1>2, <2>1, ReadingAdvances DEF Processor, Advances
  <1> QED
    BY <1>1, <1>2

\* What happens to a processor thread in a step: nothing, the end, a new claim, or
\* a step of its own.
LEMMA ThreadMoves ==
  ASSUME Inv, [Next]_vars, NEW v \in Workers
  PROVE  \/ proc'[v] = proc[v]
         \/ proc'[v] = NoProc
         \/ \E j \in Jobs : Claim(v, j)
         \/ Processor(v)
  <1>0. proc \in [Workers -> Proc]
    BY DEF Inv, TypeOK
  <1>1. CASE UNCHANGED vars
    BY <1>1 DEF vars
  <1>2. ASSUME NEW j \in Jobs, Submit(j) \/ LeaseEnds(j) \/ RetryIsDue(j) \/ Operator(j)
        PROVE  proc' = proc
    BY <1>2 DEF Submit, LeaseEnds, RetryIsDue, Operator, ReviewReady, Approve, Reject, ReviewTooLate
  <1>3. ASSUME NEW w \in Workers, NEW j \in Jobs, Claim(w, j)
        PROVE  v = w \/ proc'[v] = proc[v]
    BY <1>0, <1>3 DEF Claim
  <1>4. ASSUME NEW w \in Workers,
               Timeout(w) \/ Finalize(w) \/ FinalizeError(w) \/ Crash(w) \/ Restart(w)
        PROVE  proc'[v] \in {proc[v], NoProc}
    BY <1>0, <1>4 DEF Timeout, Finalize, FinalizeError, Crash, Restart
  <1>5. ASSUME NEW w \in Workers, Processor(w)
        PROVE  v = w \/ proc'[v] = proc[v]
    BY <1>5, ProcessorKeeps
  <1> QED
    BY <1>1, <1>2, <1>3, <1>4, <1>5 DEF Next, Polling

\* A claim binds the job to the profile of the worker that takes it.
LEMMA ClaimEffect ==
  ASSUME Inv, NEW w \in Workers, NEW j \in Jobs, Claim(w, j)
  PROVE  /\ jobs'[j].profile = ProfileOf[w] /\ jobs'[j].status = "RUNNING"
         /\ jobs[j].status \in {"PENDING", "RUNNING"}
         /\ jobs'[j].active = jobs[j].active
         /\ proc'[w].pc = "enter" /\ proc'[w].job = j /\ proc'[w].token \notin spent
         /\ proc'[w].mode = jobs'[j].claimed_mode
         /\ proc'[w].token = jobs'[j].token
  <1>0. RowTypeOK /\ jobs[j] \in Row /\ ProfileOf[w] \in Profiles /\ proc \in [Workers -> Proc]
    BY ProfileAssumption, JobInv DEF Inv, RowInv, TypeOK
  <1>1. PICK tok \in Drawn(Tokens \ spent) :
          /\ ClaimNext(j, tok, ProfileOf[w])
          /\ proc' = [proc EXCEPT ![w] =
                        [NoProc EXCEPT !.pc = "enter", !.job = j, !.token = tok,
                                       !.mode = jobs'[j].claimed_mode,
                                       !.active = jobs[j].active]]
    BY DEF Claim
  <1>2. tok \in Tokens \ spent
    BY <1>1 DEF Drawn
  <1>3. /\ Write(j, ClaimedRow(jobs[j], tok, ProfileOf[w]))
        /\ jobs[j].status \in {"PENDING", "RUNNING"}
    BY <1>1 DEF ClaimNext, Eligible
  <1>4. /\ jobs'[j].profile = ProfileOf[w] /\ jobs'[j].status = "RUNNING"
        /\ jobs'[j].active = jobs[j].active /\ jobs'[j].token = tok
    BY <1>0, <1>2, <1>3, ClaimedFields, WriteEffect
  <1>5. PICK q : q = [NoProc EXCEPT !.pc = "enter", !.job = j, !.token = tok,
                                    !.mode = jobs'[j].claimed_mode, !.active = jobs[j].active]
    OBVIOUS
  <1>6. q.pc = "enter" /\ q.job = j /\ q.token = tok /\ q.mode = jobs'[j].claimed_mode
    BY <1>5 DEF NoProc
  <1>7. proc'[w] = q
    BY <1>0, <1>1, <1>5
  <1> QED
    BY <1>2, <1>3, <1>4, <1>6, <1>7

\* The profile a job was claimed under stays that of every thread on it.
LEMMA NextProfile ==
  ASSUME Inv, BoundProfile, [Next]_vars
  PROVE  BoundProfile'
  <1> SUFFICES ASSUME NEW v \in Workers, proc'[v].pc # "off"
               PROVE  jobs'[proc'[v].job].profile = ProfileOf[v]
    BY DEF BoundProfile
  <1>1. CASE proc[v].pc # "off" /\ proc'[v].job = proc[v].job
    <2>1. proc[v].job \in Jobs /\ jobs[proc[v].job].profile = ProfileOf[v]
      BY <1>1, ThreadInv DEF BoundProfile
    <2>2. ProfileOf[v] # None
      BY ProfileAssumption, NoneAssumption
    <2> QED
      BY <1>1, <2>1, <2>2, RowGrows
  <1>2. ASSUME NEW j \in Jobs, Claim(v, j)
        PROVE  jobs'[proc'[v].job].profile = ProfileOf[v]
    BY <1>2, ClaimEffect
  <1> QED
    BY <1>1, <1>2, ThreadMoves, ProcessorKeeps, NoProcTyped

\* A processor never works on a job of another profile than its worker's, however
\* many workers of however many profiles claim and reclaim.
THEOREM LifecycleBoundProfile == Spec => []BoundProfile
  <1>1. Init => BoundProfile
    BY NoProcTyped DEF Init, BoundProfile
  <1>2. Inv /\ BoundProfile /\ [Next]_vars => BoundProfile'
    BY NextProfile
  <1> QED
    BY <1>1, <1>2, Invariance, PTL DEF Spec

-----------------------------------------------------------------------------
(* Executions.  Beyond ExecutionsAgree: an active execution exists and is its   *)
(* job's, and the one a thread works on has not been abandoned while the thread *)
(* holds the claim.  (It may have been ended by a late commit.)                 *)

\* The claim a thread was given is its job's current one.
Holds(p) == p.pc # "off" /\ HoldsToken(p.job, p.token)

Kept == {"RUNNING", "COMPLETED", "FAILED"}
ActiveOK ==
    \A j \in Jobs : jobs[j].active # None =>
      execs[jobs[j].active].job = j /\ execs[jobs[j].active].status # "UNUSED"
BoundOK ==
    \A w \in Workers : Holds(proc[w]) /\ proc[w].pc \in BoundPcs =>
      execs[proc[w].exec].status \in Kept
ExecInv == ActiveOK /\ BoundOK /\ ExecutionsAgree

\* A claim that is held after a step was held before it, in the same mode, with
\* the same count and, unless its owner has just bound a new one, the same
\* execution.
LEMMA HeldBefore ==
  ASSUME Inv, [Next]_vars, NEW v \in Workers, proc[v].pc # "off",
         jobs'[proc[v].job].status = "RUNNING", jobs'[proc[v].job].token = proc[v].token
  PROVE  /\ Holds(proc[v])
         /\ jobs'[proc[v].job].retries = jobs[proc[v].job].retries
         /\ jobs'[proc[v].job].claimed_mode = jobs[proc[v].job].claimed_mode
         /\ \/ jobs'[proc[v].job].active = jobs[proc[v].job].active
            \/ \E e \in ExecIds : Binds(proc[v].job, v, e)
  <1> DEFINE i == proc[v].job
  <1>0. i \in Jobs /\ jobs[i] \in Row /\ proc[v].token \in spent
    BY ThreadInv DEF Inv, TokensOK
  <1>1. CASE jobs'[i] = jobs[i]
    BY <1>1 DEF Holds, HoldsToken
  <1>2. CASE jobs'[i] = NewRow
    BY <1>2, NewFields
  <1>3. CASE jobs'[i] \in {AgedRow(jobs[i]), DueRow(jobs[i])}
    BY <1>0, <1>3, AgedFields, DueFields DEF Holds, HoldsToken
  <1>4. CASE jobs'[i] \in {ApprovedRow(jobs[i]), ReviewRow(jobs[i]), RetryRow(jobs[i])}
    BY <1>0, <1>4, ApprovedFields, ReviewFields, RetryFields
  <1>5. CASE \E s \in {"COMPLETED", "FAILED"} : jobs'[i] = EndedRow(jobs[i], s)
    <2>1. {"COMPLETED", "FAILED"} \subseteq Statuses
      BY DEF Statuses
    <2> QED
      BY <1>0, <1>5, <2>1, EndedFields
  <1>6. ASSUME NEW w \in Workers, NEW tok \in Tokens \ spent,
               jobs'[i] = ClaimedRow(jobs[i], tok, ProfileOf[w])
        PROVE  FALSE
    BY <1>0, <1>6, ClaimedFields, ProfileAssumption
  <1>7. ASSUME NEW w \in Workers, NEW e \in ExecIds, proc[w].pc # "off", proc[w].job = i,
               Owns(i, proc[w].token), Binds(i, w, e)
        PROVE  /\ w = v /\ Holds(proc[v])
               /\ jobs'[i].retries = jobs[i].retries
               /\ jobs'[i].claimed_mode = jobs[i].claimed_mode
    <2>1. jobs[i].status = "RUNNING" /\ jobs[i].token = proc[w].token
      BY <1>0, <1>7, OwnsRunning
    <2>2. /\ jobs'[i].token = jobs[i].token /\ jobs'[i].retries = jobs[i].retries
          /\ jobs'[i].claimed_mode = jobs[i].claimed_mode
      BY <1>0, <1>7, BoundFields DEF Binds
    <2>3. w = v
      BY <1>7, <2>1, <2>2 DEF Inv, TokensOK
    <2> QED
      BY <2>1, <2>2, <2>3 DEF Holds, HoldsToken
  <1>8. jobs'[i] = jobs[i] \/ RowMove(i)
    BY <1>0, RowMoves
  <1>9. ASSUME NEW w \in Workers, OwnerMove(i, w)
        PROVE  \/ jobs'[i] \in {ReviewRow(jobs[i]), RetryRow(jobs[i])}
               \/ \E s \in {"COMPLETED", "FAILED"} : jobs'[i] = EndedRow(jobs[i], s)
               \/ /\ proc[w].pc # "off" /\ proc[w].job = i /\ Owns(i, proc[w].token)
                  /\ \E e \in ExecIds : Binds(i, w, e)
    BY <1>9 DEF OwnerMove
  <1>10. CASE \E w \in Workers : OwnerMove(i, w)
    BY <1>4, <1>5, <1>7, <1>9, <1>10
  <1> QED
    BY <1>1, <1>2, <1>3, <1>4, <1>5, <1>6, <1>8, <1>10 DEF RowMove

\* What became of execution e: it was created; a thread that had passed the fence
\* committed its end; the owner of the claim abandoned it, for a retry or for a new
\* one; or an operator rejected it.
CommitsEnd(w, e) ==
    /\ Processor(w) /\ proc[w].exec = e
    /\ execs[e] = [job |-> proc[w].job, status |-> "RUNNING"]
    /\ execs'[e].job = proc[w].job
    /\ \/ CommitCompletion(w) /\ execs'[e].status = "COMPLETED"
       \/ execs'[e].status = "FAILED"
Abandons(w, e) ==
    /\ Processor(w) /\ Owns(proc[w].job, proc[w].token)
    /\ execs[e] = [job |-> proc[w].job, status |-> "RUNNING"]
    /\ execs'[e].job = proc[w].job /\ execs'[e].status = "ABANDONED"
    /\ proc'[w].pc = "returned" \/ \E f \in ExecIds : Binds(proc[w].job, w, f)
Rejected(j, e) ==
    /\ Reject(j) /\ jobs[j].status = "AWAITING_REVIEW" /\ jobs[j].active = e
    /\ execs[e].status = "RUNNING"
    /\ execs'[e].job = execs[e].job /\ execs'[e].status = "FAILED"
ExecMove(e) ==
    \/ \E w \in Workers : OwnerMove(proc[w].job, w) /\ Binds(proc[w].job, w, e)
    \/ \E w \in Workers : CommitsEnd(w, e) \/ Abandons(w, e)
    \/ \E j \in Jobs : Rejected(j, e)

\* Ending one execution leaves the others alone.
LEMMA EndEffect ==
  ASSUME execs \in [ExecIds -> Execution], NEW e \in ExecIds, NEW s,
         execs' = [execs EXCEPT ![e].status = s]
  PROVE  /\ execs'[e].status = s /\ execs'[e].job = execs[e].job
         /\ \A f \in ExecIds : f # e => execs'[f] = execs[f]
  BY DEF Execution

\* An execution changes by one of these moves only.
LEMMA ExecMoves ==
  ASSUME Inv, [Next]_vars
  PROVE  \A e \in ExecIds : execs'[e] = execs[e] \/ ExecMove(e)
  <1>0. execs \in [ExecIds -> Execution] /\ proc \in [Workers -> Proc]
    BY DEF Inv, TypeOK, Execution
  <1>1. CASE UNCHANGED execs
    BY <1>1
  <1>2. ASSUME NEW w \in Workers, CommitBadCheckpoint(w) \/ CommitCompletion(w) \/ CommitFailure(w)
        PROVE  \A e \in ExecIds : execs'[e] = execs[e] \/ ExecMove(e)
    <2> DEFINE f == proc[w].exec
    <2>1. proc[w].pc \in {"failing", "closing", "ending"}
      BY <1>2 DEF CommitBadCheckpoint, CommitCompletion, CommitFailure
    <2>2. f \in ExecIds
      BY <2>1, ThreadInv DEF BoundPcs
    <2>3. CASE ~UNCHANGED execs
      <3>1. PICK s \in {"COMPLETED", "FAILED"} :
              /\ execs' = Ended(proc[w].job, f, s)
              /\ s = "COMPLETED" => CommitCompletion(w)
        BY <1>2 DEF CommitBadCheckpoint, CommitCompletion, CommitFailure
      <3>2. /\ execs[f] = [job |-> proc[w].job, status |-> "RUNNING"]
            /\ execs' = [execs EXCEPT ![f].status = s]
        BY <2>3, <3>1 DEF Ended, StillRunning
      <3>3. /\ execs'[f].status = s /\ execs'[f].job = execs[f].job
            /\ \A e \in ExecIds : e # f => execs'[e] = execs[e]
        BY <1>0, <2>2, <3>2, EndEffect
      <3>4. Processor(w)
        BY <1>2 DEF Processor
      <3>5. CommitsEnd(w, f)
        BY <3>1, <3>2, <3>3, <3>4 DEF CommitsEnd
      <3> QED
        BY <3>3, <3>5 DEF ExecMove
    <2> QED
      BY <1>1, <2>3
  <1>10. ASSUME NEW w \in Workers, Retry(w)
         PROVE  \A e \in ExecIds : execs'[e] = execs[e] \/ ExecMove(e)
    <2> DEFINE f == proc[w].exec
    <2>1. proc[w].pc # "off"
      BY <1>10 DEF Retry
    <2>2. f \in ExecIds \cup {None}
      BY <2>1, ThreadInv
    <2>3. CASE ~UNCHANGED execs
      <3>1. /\ f # None /\ OwnsExecution(proc[w].job, proc[w].token, f)
            /\ execs' = [execs EXCEPT ![f].status = "ABANDONED"] /\ Return(w, "retry")
        BY <1>10, <2>3 DEF Retry
      <3>2. f \in ExecIds
        BY <2>2, <3>1
      <3>3. /\ execs'[f].status = "ABANDONED" /\ execs'[f].job = execs[f].job
            /\ \A e \in ExecIds : e # f => execs'[e] = execs[e]
        BY <1>0, <3>1, <3>2, EndEffect
      <3>4. /\ Owns(proc[w].job, proc[w].token)
            /\ execs[f] = [job |-> proc[w].job, status |-> "RUNNING"]
        BY <3>1 DEF OwnsExecution
      <3>5. proc'[w].pc = "returned"
        BY <1>0, <3>1, ReturnEffect DEF Outcomes
      <3>6. Processor(w)
        BY <1>10 DEF Processor
      <3>7. Abandons(w, f)
        BY <3>3, <3>4, <3>5, <3>6 DEF Abandons
      <3> QED
        BY <3>3, <3>7 DEF ExecMove
    <2> QED
      BY <1>1, <2>3
  <1>3. ASSUME NEW w \in Workers, BindCreate(w)
        PROVE  \A e \in ExecIds : execs'[e] = execs[e] \/ ExecMove(e)
    <2> DEFINE j == proc[w].job
    <2>1. CASE \E f \in ExecIds : Binds(j, w, f) /\ OwnerMove(j, w)
      <3>1. PICK f \in ExecIds : Binds(j, w, f) /\ OwnerMove(j, w)
        BY <2>1
      <3>2. ExecMove(f)
        BY <3>1 DEF ExecMove
      <3>3. ASSUME NEW e \in ExecIds, e # f, execs'[e] # execs[e]
            PROVE  Abandons(w, e)
        <4>1. execs'[e] = Abandoned(j)[e]
          BY <3>1, <3>3 DEF Binds, Abandoned
        <4>2. /\ execs[e] = [job |-> j, status |-> "RUNNING"]
              /\ execs'[e] = [job |-> j, status |-> "ABANDONED"]
          BY <3>3, <4>1 DEF Abandoned
        <4>3. Owns(j, proc[w].token) /\ Processor(w)
          BY <1>3, <3>1 DEF OwnerMove, Processor
        <4> QED
          BY <3>1, <4>2, <4>3 DEF Abandons
      <3> QED
        BY <3>2, <3>3 DEF ExecMove
    <2> QED
      BY <1>1, <1>3, <2>1, BindEffect
  <1>4. ASSUME NEW j \in Jobs, Reject(j)
        PROVE  \A e \in ExecIds : execs'[e] = execs[e] \/ ExecMove(e)
    <2> DEFINE f == review[j]
    <2>1. f \in ExecIds
      BY <1>4 DEF Reject, Inv, TypeOK
    <2>2. /\ execs' = [execs EXCEPT ![f].status = "FAILED"] /\ execs[f].status = "RUNNING"
          /\ jobs[j].status = "AWAITING_REVIEW" /\ jobs[j].active = f
      BY <1>4 DEF Reject, StillInReview
    <2>3. /\ execs'[f].status = "FAILED" /\ execs'[f].job = execs[f].job
          /\ \A e \in ExecIds : e # f => execs'[e] = execs[e]
      BY <1>0, <2>1, <2>2, EndEffect
    <2>4. Rejected(j, f)
      BY <1>4, <2>2, <2>3 DEF Rejected
    <2> QED
      BY <2>3, <2>4 DEF ExecMove
  <1>5. ASSUME NEW w \in Workers, Processor(w), ~CommitBadCheckpoint(w), ~CommitCompletion(w),
               ~CommitFailure(w), ~Retry(w), ~BindCreate(w)
        PROVE  UNCHANGED execs
    BY <1>5 DEF Processor, Enter, ShortCircuit, BindResume, OpenCheckpoint, RunNodes, PersistFinal,
                PutResult, ProcessingError, EscapingError, PostInvoke, BadCheckpoint,
                CompleteExecution, AwaitReview, HandleException, FailExecution, db
  <1>6. ASSUME NEW w \in Workers, Polling(w)
        PROVE  UNCHANGED execs
    BY <1>6 DEF Polling, Claim, Timeout, Finalize, FinalizeError, Crash, Restart, db
  <1>7. ASSUME NEW j \in Jobs, Submit(j) \/ LeaseEnds(j) \/ RetryIsDue(j) \/ Operator(j), ~Reject(j)
        PROVE  UNCHANGED execs
    BY <1>7 DEF Submit, LeaseEnds, RetryIsDue, Operator, ReviewReady, Approve, ReviewTooLate, db
  <1>8. CASE UNCHANGED vars
    BY <1>1, <1>8 DEF vars
  <1>9. CASE Next
    <2>1. ASSUME NEW w \in Workers, Processor(w)
          PROVE  \A e \in ExecIds : execs'[e] = execs[e] \/ ExecMove(e)
      BY <1>1, <1>2, <1>3, <1>5, <1>10, <2>1
    <2>2. ASSUME NEW j \in Jobs, Submit(j) \/ LeaseEnds(j) \/ RetryIsDue(j) \/ Operator(j)
          PROVE  \A e \in ExecIds : execs'[e] = execs[e] \/ ExecMove(e)
      BY <1>1, <1>4, <1>7, <2>2
    <2> QED
      BY <1>1, <1>6, <1>9, <2>1, <2>2 DEF Next
  <1> QED
    BY <1>8, <1>9

\* An execution keeps its job, is never undone, and stays as it ended.
LEMMA ExecKeeps ==
  ASSUME Inv, [Next]_vars, NEW e \in ExecIds, execs[e].status # "UNUSED"
  PROVE  /\ execs'[e].job = execs[e].job /\ execs'[e].status # "UNUSED"
         /\ execs[e].status # "RUNNING" => execs'[e] = execs[e]
  <1>1. CASE execs'[e] = execs[e]
    BY <1>1
  <1>2. ASSUME NEW w \in Workers, CommitsEnd(w, e) \/ Abandons(w, e)
        PROVE  /\ execs'[e].job = execs[e].job /\ execs'[e].status # "UNUSED"
               /\ execs[e].status = "RUNNING"
    BY <1>2 DEF CommitsEnd, Abandons
  <1>3. ASSUME NEW j \in Jobs, Rejected(j, e)
        PROVE  /\ execs'[e].job = execs[e].job /\ execs'[e].status # "UNUSED"
               /\ execs[e].status = "RUNNING"
    BY <1>3 DEF Rejected
  <1>4. ASSUME NEW w \in Workers, Binds(proc[w].job, w, e) PROVE FALSE
    BY <1>4 DEF Binds
  <1>5. execs'[e] = execs[e] \/ ExecMove(e)
    BY ExecMoves
  <1> QED
    BY <1>1, <1>2, <1>3, <1>4, <1>5 DEF ExecMove

\* A bound execution is its job's and RUNNING; the job has no other RUNNING one.
LEMMA BindsEffect ==
  ASSUME Inv, NEW w \in Workers, NEW e \in ExecIds, Binds(proc[w].job, w, e)
  PROVE  /\ execs'[e] = [job |-> proc[w].job, status |-> "RUNNING"]
         /\ \A f \in ExecIds : f # e => execs'[f] # [job |-> proc[w].job, status |-> "RUNNING"]
         /\ \A f \in ExecIds : f # e /\ execs'[f].status = "RUNNING" => execs'[f] = execs[f]
         /\ proc[w].pc = "bind"
         /\ proc'[w].pc = "open" /\ proc'[w].exec = e /\ proc'[w].mode = proc[w].mode
  <1> DEFINE j == proc[w].job
  <1>1. execs' = [Abandoned(j) EXCEPT ![e] = [job |-> j, status |-> "RUNNING"]]
    BY DEF Binds
  <1>2. execs'[e] = [job |-> j, status |-> "RUNNING"]
    BY <1>1 DEF Abandoned
  <1>3. \A f \in ExecIds : f # e =>
          execs'[f] = IF execs[f] = [job |-> j, status |-> "RUNNING"]
                        THEN [job |-> j, status |-> "ABANDONED"] ELSE execs[f]
    BY <1>1 DEF Abandoned
  <1>4. [job |-> j, status |-> "ABANDONED"].status # "RUNNING"
    OBVIOUS
  <1>5. [job |-> j, status |-> "ABANDONED"] # [job |-> j, status |-> "RUNNING"]
    BY <1>4
  <1>6. /\ proc[w].pc = "bind" /\ proc \in [Workers -> Proc] /\ Bound(w, e)
    BY DEF Binds, BindCreate, Inv, TypeOK
  <1>7. proc'[w].pc = "open" /\ proc'[w].exec = e /\ proc'[w].mode = proc[w].mode
    BY <1>6, BoundEffect
  <1> QED
    BY <1>2, <1>3, <1>4, <1>5, <1>6, <1>7

\* Active executions stay their jobs'.
LEMMA NextActive ==
  ASSUME Inv, ActiveOK, [Next]_vars
  PROVE  ActiveOK'
  <1> SUFFICES ASSUME NEW i \in Jobs, jobs'[i].active # None
               PROVE  /\ execs'[jobs'[i].active].job = i
                      /\ execs'[jobs'[i].active].status # "UNUSED"
    BY DEF ActiveOK
  <1>1. CASE jobs'[i].active = jobs[i].active
    <2>1. jobs[i].active \in ExecIds
      BY <1>1, JobInv DEF Inv, Row
    <2> QED
      BY <1>1, <2>1, ExecKeeps DEF ActiveOK
  <1>2. ASSUME NEW w \in Workers, NEW e \in ExecIds, OwnerMove(i, w), Binds(i, w, e),
               jobs'[i].active = e
        PROVE  /\ execs'[jobs'[i].active].job = i
               /\ execs'[jobs'[i].active].status # "UNUSED"
    <2>1. proc[w].job = i
      BY <1>2 DEF OwnerMove
    <2>2. execs'[e] = [job |-> i, status |-> "RUNNING"]
      BY <1>2, <2>1, BindsEffect
    <2> QED
      BY <1>2, <2>2
  <1> QED
    BY <1>1, <1>2, RowGrows

\* No job gets a second RUNNING execution.
LEMMA NextSingle ==
  ASSUME Inv, SingleRunningExecution, [Next]_vars
  PROVE  SingleRunningExecution'
  <1> SUFFICES ASSUME NEW e \in ExecIds, NEW f \in ExecIds,
                      execs'[e].status = "RUNNING", execs'[f] = execs'[e]
               PROVE  e = f
    BY DEF SingleRunningExecution
  <1>1. CASE \E w \in Workers, g \in ExecIds : Binds(proc[w].job, w, g)
    <2>1. PICK w \in Workers, g \in ExecIds : Binds(proc[w].job, w, g)
      BY <1>1
    <2>2. /\ execs'[g] = [job |-> proc[w].job, status |-> "RUNNING"]
          /\ \A h \in ExecIds : h # g => execs'[h] # [job |-> proc[w].job, status |-> "RUNNING"]
          /\ \A h \in ExecIds : h # g /\ execs'[h].status = "RUNNING" => execs'[h] = execs[h]
      BY <2>1, BindsEffect
    <2>3. CASE e = g \/ f = g
      BY <2>2, <2>3
    <2>4. CASE e # g /\ f # g
      BY <2>2, <2>4 DEF SingleRunningExecution
    <2> QED
      BY <2>3, <2>4
  <1>2. CASE ~ \E w \in Workers, g \in ExecIds : Binds(proc[w].job, w, g)
    <2>1. \A g \in ExecIds : execs'[g].status = "RUNNING" => execs'[g] = execs[g]
      BY <1>2, ExecMoves DEF ExecMove, CommitsEnd, Abandons, Rejected
    <2> QED
      BY <2>1 DEF SingleRunningExecution
  <1> QED
    BY <1>1, <1>2

\* How a thread comes to work on an execution: it did already, _bind resumed the
\* active one, or _bind created one.
LEMMA ProcessorBound ==
  ASSUME Inv, NEW w \in Workers, Processor(w), proc'[w].pc \in BoundPcs
  PROVE  \/ /\ UNCHANGED <<rowVars, execs>> /\ proc'[w].mode = proc[w].mode
            /\ \/ proc[w].pc \in BoundPcs /\ proc'[w].exec = proc[w].exec
               \/ /\ proc[w].pc = "bind" /\ proc'[w].exec = proc[w].active
                  /\ proc[w].active \in ExecIds
                  /\ execs[proc[w].active].status \in {"RUNNING", "COMPLETED"}
         \/ \E e \in ExecIds : Binds(proc[w].job, w, e)
  <1> DEFINE p == proc[w]
  <1>0. proc \in [Workers -> Proc] /\ ckpt \in [ExecIds -> Positions]
    BY DEF Inv, TypeOK
  <1>1. ASSUME NEW out \in Outcomes, Return(w, out) \/ Raise(w, out) PROVE FALSE
    <2>1. proc'[w].pc \in {"returned", "except"}
      BY <1>0, <1>1, ReturnEffect, RaiseEffect
    <2> QED
      BY <2>1 DEF BoundPcs
  <1>2. ASSUME NEW pc \in Pcs, Goto(w, pc) \/ \E pos \in Positions : Stands(w, pc, pos)
        PROVE  proc'[w].mode = p.mode /\ proc'[w].exec = p.exec /\ proc'[w].pc = pc
    BY <1>0, <1>2, GotoEffect, StandsEffect
  <1>3. CASE Enter(w)
    <2>1. p.job \in Jobs /\ TypeOK
      BY <1>3, ThreadInv DEF Enter, Inv
    <2>2. Return(w, "completed") \/ proc'[w].pc = "short"
      BY <1>3, <2>1, EnterEffect
    <2> QED
      BY <1>1, <2>2 DEF Outcomes, BoundPcs
  <1>4. CASE ShortCircuit(w)
    <2>1. Return(w, "completed") \/ Goto(w, "bind")
      BY <1>4 DEF ShortCircuit
    <2> QED
      BY <1>1, <1>2, <2>1 DEF Outcomes, BoundPcs, Pcs
  <1>5. CASE BindResume(w)
    <2>1. p.pc = "bind" /\ Resumes(p) /\ UNCHANGED <<rowVars, execs>>
      BY <1>5 DEF BindResume, db, rowVars
    <2>2. ~Return(w, "error")
      BY <1>1 DEF Outcomes
    <2>3. /\ Bound(w, p.active)
          /\ p.mode = "REVIEW_COMPLETE" => execs[p.active].status = "RUNNING"
      BY <1>5, <2>2 DEF BindResume
    <2>4. p.active \in ExecIds
      BY <2>1, ThreadInv DEF Resumes, UnboundPcs
    <2>5. proc'[w].exec = p.active /\ proc'[w].mode = p.mode
      BY <1>0, <2>3, <2>4, BoundEffect
    <2> QED
      BY <2>1, <2>3, <2>4, <2>5 DEF Resumes
  <1>6. CASE BindCreate(w)
    BY <1>1, <1>6, BindEffect DEF Outcomes
  <1>7. CASE OpenCheckpoint(w)
    <2>1. p.pc = "open" /\ UNCHANGED <<rowVars, execs>>
      BY <1>7 DEF OpenCheckpoint, db, rowVars
    <2>2. ckpt[p.exec] \in Positions
      BY <1>0, <2>1, ThreadInv DEF BoundPcs
    <2>3. \E pc \in Pcs : Goto(w, pc) \/ \E pos \in Positions : Stands(w, pc, pos)
      BY <1>7, <2>2 DEF OpenCheckpoint, Pcs
    <2> QED
      BY <1>2, <2>1, <2>3 DEF BoundPcs
  <1>8. CASE RunNodes(w) \/ PutResult(w)
    <2>1. p.pc \in BoundPcs /\ UNCHANGED <<rowVars, execs>>
      BY <1>8 DEF RunNodes, PutResult, db, rowVars, BoundPcs
    <2>2. \E pc \in Pcs, pos \in Positions : Stands(w, pc, pos)
      BY <1>8 DEF RunNodes, PutResult, Pcs, Positions
    <2> QED
      BY <1>2, <2>1, <2>2
  <1>9. CASE PersistFinal(w)
    <2>1. p.pc \in BoundPcs /\ UNCHANGED <<rowVars, execs>>
      BY <1>9 DEF PersistFinal, rowVars, BoundPcs
    <2>2. Goto(w, "reported") \/ Raise(w, "terminal")
      BY <1>9 DEF PersistFinal
    <2> QED
      BY <1>1, <1>2, <2>1, <2>2 DEF Pcs, Outcomes
  <1>10. CASE ProcessingError(w) \/ EscapingError(w)
    BY <1>1, <1>10 DEF ProcessingError, EscapingError, Outcomes
  <1>11. CASE PostInvoke(w)
    <2>1. p.pc \in BoundPcs /\ UNCHANGED <<rowVars, execs>>
      BY <1>11 DEF PostInvoke, db, rowVars, BoundPcs
    <2>2. \/ Goto(w, "completing") \/ Goto(w, "await") \/ Goto(w, "badcheckpoint")
          \/ Return(w, "error")
      BY <1>11 DEF PostInvoke
    <2> QED
      BY <1>1, <1>2, <2>1, <2>2 DEF Pcs, Outcomes
  <1>12. CASE BadCheckpoint(w) \/ CompleteExecution(w)
    <2>1. p.pc \in BoundPcs /\ UNCHANGED <<rowVars, execs>>
      BY <1>12 DEF BadCheckpoint, CompleteExecution, db, rowVars, BoundPcs
    <2>2. Goto(w, "failing") \/ Goto(w, "closing") \/ Raise(w, "terminal")
      BY <1>12 DEF BadCheckpoint, CompleteExecution
    <2> QED
      BY <1>1, <1>2, <2>1, <2>2 DEF Pcs, Outcomes
  <1>16. CASE CommitBadCheckpoint(w) \/ CommitCompletion(w) \/ CommitFailure(w)
    <2>1. \E out \in {"terminal", "error", "completed", "lost"} : Return(w, out) \/ Raise(w, out)
      BY <1>16 DEF CommitBadCheckpoint, CommitCompletion, CommitFailure
    <2> QED
      BY <1>1, <2>1 DEF Outcomes
  <1>13. CASE AwaitReview(w)
    BY <1>1, <1>13 DEF AwaitReview, Outcomes
  <1>14. CASE FailExecution(w) \/ Retry(w)
    <2>1. \/ Goto(w, "ending")
          \/ \E out \in {"terminal", "lost", "retry"} : Return(w, out)
      BY <1>14 DEF FailExecution, Retry
    <2> QED
      BY <1>1, <1>2, <2>1 DEF Pcs, Outcomes, BoundPcs
  <1>15. CASE HandleException(w)
    <2>1. p.job \in Jobs /\ TypeOK
      BY <1>15, ThreadInv DEF HandleException, Inv
    <2>2. proc'[w].pc \in {"decide", "retry"}
      BY <1>15, <2>1, HandleEffect
    <2> QED
      BY <2>2 DEF BoundPcs
  <1> QED
    BY <1>3, <1>4, <1>5, <1>6, <1>7, <1>8, <1>9, <1>10, <1>11, <1>12, <1>13, <1>14, <1>15, <1>16
       DEF Processor

\* While a thread holds its claim, nobody abandons the execution it works on.
LEMMA NextBound ==
  ASSUME Inv, ExecInv, [Next]_vars
  PROVE  BoundOK'
  <1> SUFFICES ASSUME NEW v \in Workers, proc'[v].pc \in BoundPcs,
                      jobs'[proc'[v].job].status = "RUNNING",
                      jobs'[proc'[v].job].token = proc'[v].token
               PROVE  execs'[proc'[v].exec].status \in Kept
    BY DEF BoundOK, Holds, HoldsToken
  <1>1. CASE proc'[v] = proc[v]
    <2> DEFINE i == proc[v].job
               e == proc[v].exec
    <2>1. proc[v].pc # "off" /\ proc[v].pc \in BoundPcs
      BY <1>1 DEF BoundPcs
    <2>2. Holds(proc[v])
      BY <1>1, <2>1, HeldBefore
    <2>3. /\ i \in Jobs /\ e \in ExecIds
          /\ jobs[i].status = "RUNNING" /\ jobs[i].token = proc[v].token /\ jobs[i].active = e
      BY <2>1, <2>2, ThreadInv DEF Holds, HoldsToken, ClaimOK
    <2>4. execs[e].job = i /\ execs[e].status \in Kept
      BY <2>1, <2>2, <2>3, NoneAssumption DEF ExecInv, ActiveOK, BoundOK
    <2>5. ASSUME NEW w \in Workers, Binds(proc[w].job, w, e) PROVE FALSE
      BY <2>4, <2>5 DEF Binds, Kept
    <2>6. ASSUME NEW w \in Workers, Abandons(w, e) PROVE FALSE
      <3>1. proc[w].job = i /\ Owns(i, proc[w].token) /\ Processor(w)
        BY <2>4, <2>6 DEF Abandons
      <3>2. proc[w].pc # "off" /\ proc[w].token = proc[v].token
        BY <2>3, <3>1, ProcessorKeeps, OwnsRunning
      <3>3. w = v
        BY <2>1, <3>2 DEF Inv, TokensOK
      <3>4. proc'[v].pc = "returned" \/ proc[v].pc = "bind"
        BY <2>6, <3>3 DEF Abandons, Binds, BindCreate
      <3> QED
        BY <1>1, <2>1, <3>4 DEF BoundPcs
    <2>7. execs'[e] = execs[e] \/ ExecMove(e)
      BY <2>3, ExecMoves
    <2>8. execs'[e].status \in Kept
      BY <2>4, <2>5, <2>6, <2>7 DEF ExecMove, CommitsEnd, Rejected, Kept
    <2> QED
      BY <1>1, <2>8
  <1>2. CASE proc'[v] = NoProc
    BY <1>2, NoProcTyped DEF BoundPcs
  <1>3. ASSUME NEW j \in Jobs, Claim(v, j) PROVE FALSE
    BY <1>3, ClaimEffect DEF BoundPcs
  <1>4. CASE Processor(v)
    <2>1. proc[v].pc # "off" /\ proc'[v].job = proc[v].job /\ proc'[v].token = proc[v].token
      BY <1>4, ProcessorKeeps
    <2>2. CASE /\ UNCHANGED <<rowVars, execs>>
               /\ proc[v].pc \in BoundPcs /\ proc'[v].exec = proc[v].exec
      <3>1. Holds(proc[v])
        BY <2>1, <2>2 DEF Holds, HoldsToken, rowVars
      <3> QED
        BY <2>2, <3>1 DEF ExecInv, BoundOK
    <2>3. ASSUME NEW e \in ExecIds, Binds(proc[v].job, v, e)
          PROVE  execs'[proc'[v].exec].status = "RUNNING"
      <3>1. proc'[v].exec = e /\ execs'[e] = [job |-> proc[v].job, status |-> "RUNNING"]
        BY <2>3, BindsEffect
      <3> QED
        BY <3>1
    <2> QED
      BY <1>4, <2>2, <2>3, ProcessorBound DEF Kept
  <1> QED
    BY <1>1, <1>2, <1>3, <1>4, ThreadMoves

\* The job waits for an operator, or was approved and waits for a worker.
PausedRow(row) ==
    row.status = "AWAITING_REVIEW" \/ (row.status = "PENDING" /\ row.mode = "REVIEW_COMPLETE")

\* A job that is paused after a step was paused before it, with the same execution,
\* or has just been paused by the owner of the claim.
LEMMA PausedBefore ==
  ASSUME Inv, [Next]_vars, NEW i \in Jobs, PausedRow(jobs'[i])
  PROVE  /\ jobs'[i].active = jobs[i].active
         /\ \/ PausedRow(jobs[i])
            \/ \E w \in Workers : /\ AwaitReview(w) /\ proc[w].pc # "off" /\ proc[w].job = i
                                  /\ Owns(i, proc[w].token)
  <1>0. jobs[i] \in Row /\ FieldsOK(jobs[i]) /\ RowTypeOK
    BY JobInv DEF Inv, RowInv
  <1>1. ASSUME NEW s \in {"COMPLETED", "FAILED"}, jobs'[i] = EndedRow(jobs[i], s) PROVE FALSE
    <2>1. s \in Statuses
      BY DEF Statuses
    <2> QED
      BY <1>0, <1>1, <2>1, EndedFields DEF PausedRow
  <1>3. CASE jobs'[i] = jobs[i]
    BY <1>3 DEF PausedRow
  <1>4. CASE jobs'[i] = NewRow
    BY <1>4, NewFields DEF PausedRow
  <1>5. CASE jobs[i].lease # "none" /\ jobs'[i] = AgedRow(jobs[i])
    <2>1. jobs[i].status = "RUNNING"
      BY <1>0, <1>5, TimedRows
    <2> QED
      BY <1>0, <1>5, <2>1, AgedFields DEF PausedRow
  <1>6. CASE jobs'[i] = DueRow(jobs[i])
    BY <1>0, <1>6, DueFields DEF PausedRow
  <1>7. CASE jobs[i].status = "AWAITING_REVIEW" /\ jobs'[i] = ApprovedRow(jobs[i])
    BY <1>0, <1>7, ApprovedFields DEF PausedRow
  <1>8. ASSUME NEW w \in Workers, NEW tok \in Tokens \ spent,
               jobs'[i] = ClaimedRow(jobs[i], tok, ProfileOf[w])
        PROVE  FALSE
    BY <1>0, <1>8, ClaimedFields, ProfileAssumption DEF PausedRow
  <1>9. ASSUME NEW w \in Workers, OwnerMove(i, w)
        PROVE  /\ jobs'[i].active = jobs[i].active
               /\ AwaitReview(w) /\ proc[w].pc # "off" /\ proc[w].job = i
               /\ Owns(i, proc[w].token)
    <2>1. proc[w].pc # "off" /\ proc[w].job = i /\ Owns(i, proc[w].token)
      BY <1>9 DEF OwnerMove
    <2>2. ASSUME NEW e \in ExecIds, Binds(i, w, e) PROVE FALSE
      <3>1. jobs'[i].status = jobs[i].status /\ jobs[i].status = "RUNNING"
        BY <1>0, <2>1, <2>2, BoundFields, OwnsRunning DEF Binds
      <3> QED
        BY <3>1 DEF PausedRow
    <2>3. jobs'[i] # RetryRow(jobs[i])
      BY <1>0, RetryFields DEF PausedRow
    <2>4. AwaitReview(w) /\ jobs'[i] = ReviewRow(jobs[i])
      BY <1>1, <1>9, <2>2, <2>3 DEF OwnerMove
    <2> QED
      BY <1>0, <2>1, <2>4, ReviewFields
  <1>10. jobs'[i] = jobs[i] \/ RowMove(i)
    BY RowMoves
  <1> QED
    BY <1>1, <1>3, <1>4, <1>5, <1>6, <1>7, <1>8, <1>9, <1>10 DEF RowMove

\* Nobody abandons an execution that waits for an operator.
LEMMA NextPaused ==
  ASSUME Inv, Inv', ExecInv, ActiveOK', [Next]_vars
  PROVE  PausedKeepsExecution'
  <1> SUFFICES ASSUME NEW i \in Jobs, PausedRow(jobs'[i])
               PROVE  /\ execs'[jobs'[i].active].job = i
                      /\ execs'[jobs'[i].active].status \in Kept
    BY DEF PausedKeepsExecution, Paused, PausedRow, Kept
  <1> DEFINE a == jobs[i].active
  <1>1. /\ jobs'[i].active = a
        /\ \/ PausedRow(jobs[i])
           \/ \E w \in Workers : /\ AwaitReview(w) /\ proc[w].pc # "off" /\ proc[w].job = i
                                 /\ Owns(i, proc[w].token)
    BY PausedBefore
  <1>2. jobs'[i].active # None
    <2>1. FieldsOK(jobs'[i])
      BY DEF Inv, RowInv, Consistent
    <2> QED
      BY <2>1 DEF FieldsOK, PausedRow
  <1>3. a \in ExecIds /\ execs[a].job = i /\ execs'[a].job = i
    <2>1. a \in ExecIds
      BY <1>1, <1>2, JobInv DEF Inv, Row
    <2> QED
      BY <1>1, <1>2, <2>1 DEF ExecInv, ActiveOK
  <1>4. ASSUME NEW w \in Workers, AwaitReview(w), proc[w].pc # "off", proc[w].job = i,
               Owns(i, proc[w].token)
        PROVE  execs'[a].status \in Kept
    <2>1. proc[w].pc = "await" /\ UNCHANGED execs
      BY <1>4 DEF AwaitReview
    <2>2. Holds(proc[w])
      BY <1>4 DEF Holds, Owns
    <2>3. a = proc[w].exec
      BY <1>4, <2>1, <2>2, ThreadInv DEF ClaimOK, Holds, HoldsToken, BoundPcs
    <2> QED
      BY <2>1, <2>2, <2>3 DEF ExecInv, BoundOK, BoundPcs
  <1>5. ASSUME PausedRow(jobs[i])
        PROVE  execs'[a].status \in Kept
    <2>1. execs[a].status \in Kept /\ jobs[i].status # "RUNNING"
      BY <1>5 DEF ExecInv, ExecutionsAgree, PausedKeepsExecution, Paused, PausedRow, Kept
    <2>2. ASSUME NEW w \in Workers, Binds(proc[w].job, w, a) PROVE FALSE
      BY <2>1, <2>2 DEF Binds, Kept
    <2>3. ASSUME NEW w \in Workers, Abandons(w, a) PROVE FALSE
      <3>1. proc[w].job = i /\ Owns(i, proc[w].token)
        BY <1>3, <2>3 DEF Abandons
      <3> QED
        BY <2>1, <3>1, OwnsRunning
    <2>4. execs'[a] = execs[a] \/ ExecMove(a)
      BY <1>3, ExecMoves
    <2> QED
      BY <2>1, <2>2, <2>3, <2>4 DEF ExecMove, CommitsEnd, Rejected, Kept
  <1> QED
    BY <1>1, <1>3, <1>4, <1>5

\* Every step keeps the invariant on executions.
LEMMA NextExec ==
  ASSUME Inv, ExecInv, [Next]_vars
  PROVE  ExecInv'
  <1>1. Inv'
    BY NextInv
  <1>2. ActiveOK'
    BY NextActive DEF ExecInv
  <1>3. SingleRunningExecution'
    BY NextSingle DEF ExecInv, ExecutionsAgree
  <1> QED
    BY <1>1, <1>2, <1>3, NextBound, NextPaused DEF ExecInv, ExecutionsAgree

\* It holds initially and so in every state.
LEMMA ExecInvariance == Spec => [](Inv /\ ExecInv)
  <1>1. Init => ExecInv
    <2> SUFFICES ASSUME Init PROVE ExecInv
      OBVIOUS
    <2>1. /\ \A w \in Workers : proc[w].pc = "off"
          /\ \A j \in Jobs : jobs[j].active = None /\ jobs[j].status = "ABSENT"
          /\ \A e \in ExecIds : execs[e].status = "UNUSED"
      BY NoProcTyped DEF Init, RowInit, NoRow
    <2> QED
      BY <2>1 DEF ExecInv, ActiveOK, BoundOK, Holds, ExecutionsAgree, SingleRunningExecution,
                  PausedKeepsExecution, Paused
  <1>2. Inv /\ ExecInv /\ [Next]_vars => ExecInv'
    BY NextExec
  <1> QED
    BY <1>1, <1>2, Invariance, PTL DEF Spec

\* A job has at most one RUNNING execution, and nobody abandons the execution of a
\* job that waits for an operator or was approved.
THEOREM LifecycleExecutionsAgree == Spec => []ExecutionsAgree
  <1>1. Inv /\ ExecInv => ExecutionsAgree
    BY DEF ExecInv
  <1> QED
    BY <1>1, ExecInvariance, PTL

\* A RUNNING job's row is written by the worker that holds the current claim and
\* by a reclaim only, time ages the lease; and an execution keeps the status it
\* ended with, however late the commits of those who also tried to end it.
THEOREM LifecycleFencedWrites == Spec => FencedWrites
  <1> DEFINE RowFenced(j) ==
               \/ jobs'[j] = [jobs[j] EXCEPT !.lease = jobs'[j].lease]
               \/ /\ jobs'[j].token \notin spent \cup {None}
                  /\ "expired" \in Observed(jobs[j].lease)
               \/ \E w \in Workers : SteppedBy(w) /\ proc[w].job = j
                                     /\ proc[w].token = jobs[j].token
             Fenced ==
               /\ \A j \in Jobs : jobs[j].status = "RUNNING" /\ jobs'[j] # jobs[j] => RowFenced(j)
               /\ \A e \in ExecIds :
                    execs[e].status \in {"COMPLETED", "FAILED", "ABANDONED"} => execs'[e] = execs[e]
  <1>1. Inv /\ [Next]_vars => Fenced
    <2> SUFFICES ASSUME Inv, [Next]_vars PROVE Fenced
      OBVIOUS
    <2>1. ASSUME NEW e \in ExecIds, execs[e].status \in {"COMPLETED", "FAILED", "ABANDONED"}
          PROVE  execs'[e] = execs[e]
      BY <2>1, ExecKeeps
    <2>2. ASSUME NEW j \in Jobs, jobs[j].status = "RUNNING", jobs'[j] # jobs[j]
          PROVE  RowFenced(j)
      <3>0. jobs[j] \in Row /\ FieldsOK(jobs[j]) /\ worker \in [Workers -> {"idle", "wait", "timedout", "closed"}]
        BY JobInv DEF Inv, TypeOK
      <3>1. ASSUME NEW w \in Workers, proc[w].pc # "off", Owns(j, proc[w].token),
                   proc[w].job = j,
                   Finalize(w) \/ (proc'[w].pc # proc[w].pc)
            PROVE  SteppedBy(w) /\ proc[w].token = jobs[j].token
        <4>1. Finalize(w) => worker'[w] # worker[w]
          BY <3>0 DEF Finalize, Finishing
        <4>2. jobs[j].token = proc[w].token
          BY <3>1, OwnsRunning
        <4> QED
          BY <3>1, <4>1, <4>2 DEF SteppedBy
      <3>2. ASSUME NEW w \in Workers, OwnerMove(j, w)
            PROVE  SteppedBy(w) /\ proc[w].job = j /\ proc[w].token = jobs[j].token
        <4>1. proc[w].pc # "off" /\ proc[w].job = j /\ Owns(j, proc[w].token)
          BY <3>2 DEF OwnerMove
        <4>2. proc \in [Workers -> Proc]
          BY DEF Inv, TypeOK
        <4>3. ASSUME NEW e \in ExecIds, Binds(j, w, e) PROVE proc'[w].pc # proc[w].pc
          BY <4>1, <4>3, BindsEffect
        <4>4. ASSUME AwaitReview(w) /\ Return(w, "paused") PROVE proc'[w].pc # proc[w].pc
          BY <4>2, <4>4, ReturnEffect DEF AwaitReview, Outcomes
        <4>5. ASSUME Retry(w) /\ Return(w, "retry") PROVE proc'[w].pc # proc[w].pc
          BY <4>2, <4>5, ReturnEffect DEF Retry, Outcomes
        <4>6. Finalize(w) \/ proc'[w].pc # proc[w].pc
          BY <3>2, <4>3, <4>4, <4>5 DEF OwnerMove
        <4> QED
          BY <3>1, <4>1, <4>6
      <3>3. CASE jobs'[j] = AgedRow(jobs[j])
        <4>1. jobs'[j] = [jobs[j] EXCEPT !.lease = IF jobs[j].lease = "live" THEN "edge" ELSE "expired"]
          BY <2>2, <3>0, <3>3 DEF AgedRow
        <4>2. jobs'[j].lease = IF jobs[j].lease = "live" THEN "edge" ELSE "expired"
          BY <2>2, <3>0, <3>3, AgedFields
        <4> QED
          BY <4>1, <4>2
      <3>4. jobs[j].next_attempt # "future"
        BY <2>2, <3>0 DEF FieldsOK
      <3>5. ASSUME NEW w \in Workers, NEW tok \in Tokens \ spent, Eligible(j, ProfileOf[w]),
                   jobs'[j] = ClaimedRow(jobs[j], tok, ProfileOf[w])
            PROVE  /\ jobs'[j].token \notin spent \cup {None}
                   /\ "expired" \in Observed(jobs[j].lease)
        <4>1. jobs'[j].token = tok
          BY <3>0, <3>5, ClaimedFields, ProfileAssumption
        <4> QED
          BY <2>2, <3>4, <3>5, <4>1, NoneAssumption DEF Eligible
      <3>6. RowMove(j)
        BY <2>2, RowMoves
      <3> QED
        BY <2>2, <3>2, <3>3, <3>4, <3>5, <3>6 DEF RowMove
    <2> QED
      BY <2>1, <2>2
  <1>2. Spec => [][Fenced]_vars
    BY <1>1, Invariance, PTL DEF Spec
  <1> QED
    BY <1>2 DEF FencedWrites

-----------------------------------------------------------------------------
(* Reports.  What is called complete anywhere has a report: a checkpoint with a *)
(* result, a COMPLETED execution, a thread on its way to complete one.          *)

\* A thread that completes a review never runs a node before complete_node, so
\* its graph has a result once it is invoked.
ThreadReported(p) ==
    /\ \/ p.pc \in {"reported", "completing", "closing"}
       \/ p.pc = "post" /\ p.at = "result"
       => p.exec \in reports
    /\ p.mode = "REVIEW_COMPLETE" =>
         /\ p.pc = "run" => p.at \in NextIsComplete
         /\ p.pc = "post" => p.at = "result"
    /\ p.pc = "returned" /\ p.out = "completed" =>
         \E e \in reports : execs[e] = [job |-> p.job, status |-> "COMPLETED"]
TablesReported ==
    \A e \in ExecIds : ckpt[e] = "result" \/ execs[e].status = "COMPLETED" => e \in reports
ReportInv ==
    /\ TablesReported
    /\ \A w \in Workers : ThreadReported(proc[w])
    /\ CompletedHasReport

\* Reports are never taken back.
LEMMA ReportsGrow ==
  ASSUME [Next]_vars
  PROVE  reports \subseteq reports'
  <1>1. CASE UNCHANGED vars
    BY <1>1 DEF vars
  <1>2. ASSUME NEW w \in Workers, Processor(w) PROVE reports \subseteq reports'
    <2>1. CASE PersistFinal(w)
      BY <2>1 DEF PersistFinal
    <2>2. CASE ~PersistFinal(w)
      BY <1>2, <2>2 DEF Processor, Enter, ShortCircuit, BindResume, BindCreate, OpenCheckpoint,
           RunNodes, PutResult, ProcessingError, EscapingError, PostInvoke, BadCheckpoint,
           CompleteExecution, AwaitReview, HandleException, FailExecution, Retry, db,
           CommitBadCheckpoint, CommitCompletion, CommitFailure
    <2> QED
      BY <2>1, <2>2
  <1>3. ASSUME NEW w \in Workers, Polling(w) PROVE reports' = reports
    BY <1>3 DEF Polling, Claim, Timeout, Finalize, FinalizeError, Crash, Restart, db
  <1>4. ASSUME NEW j \in Jobs, Submit(j) \/ LeaseEnds(j) \/ RetryIsDue(j) \/ Operator(j)
        PROVE  reports' = reports
    BY <1>4 DEF Submit, LeaseEnds, RetryIsDue, Operator, ReviewReady, Approve, Reject,
                ReviewTooLate, db
  <1> QED
    BY <1>1, <1>2, <1>3, <1>4 DEF Next

\* A job that has a completed execution with a report keeps it.
HasReport(j) == \E e \in reports : execs[e] = [job |-> j, status |-> "COMPLETED"]
LEMMA HasReportKept ==
  ASSUME Inv, [Next]_vars, NEW j, HasReport(j)
  PROVE  HasReport(j)'
  <1>1. PICK e \in reports : execs[e] = [job |-> j, status |-> "COMPLETED"]
    BY DEF HasReport
  <1>2. e \in ExecIds /\ execs[e].status = "COMPLETED"
    BY <1>1 DEF Inv, TypeOK
  <1>3. execs'[e] = execs[e] /\ e \in reports'
    BY <1>1, <1>2, ExecKeeps, ReportsGrow
  <1> QED
    BY <1>1, <1>3 DEF HasReport

\* A checkpoint with a result is put by a thread that has reported.
LEMMA CheckpointMoves ==
  ASSUME Inv, [Next]_vars, NEW e \in ExecIds, ckpt'[e] = "result"
  PROVE  \/ ckpt[e] = "result"
         \/ \E w \in Workers : proc[w].pc = "reported" /\ proc[w].exec = e
  <1>0. ckpt \in [ExecIds -> Positions]
    BY DEF Inv, TypeOK
  <1>1. CASE UNCHANGED ckpt
    BY <1>1
  <1>2. ASSUME NEW w \in Workers, RunNodes(w) PROVE ckpt[e] = "result"
    <2>1. \E pos \in {"mid", "passed", "review"} : ckpt' = [ckpt EXCEPT ![proc[w].exec] = pos]
      BY <1>2 DEF RunNodes
    <2> QED
      BY <1>0, <2>1
  <1>3. ASSUME NEW w \in Workers, PutResult(w)
        PROVE  ckpt[e] = "result" \/ (proc[w].pc = "reported" /\ proc[w].exec = e)
    BY <1>0, <1>3 DEF PutResult
  <1>4. ASSUME NEW w \in Workers, Processor(w), ~RunNodes(w), ~PutResult(w) PROVE ckpt' = ckpt
    BY <1>4 DEF Processor, Enter, ShortCircuit, BindResume, BindCreate, OpenCheckpoint,
           PersistFinal, ProcessingError, EscapingError, PostInvoke, BadCheckpoint,
           CompleteExecution, AwaitReview, HandleException, FailExecution, Retry,
           CommitBadCheckpoint, CommitCompletion, CommitFailure
  <1>5. ASSUME NEW w \in Workers, Polling(w) PROVE ckpt' = ckpt
    BY <1>5 DEF Polling, Claim, Timeout, Finalize, FinalizeError, Crash, Restart
  <1>6. ASSUME NEW j \in Jobs, Submit(j) \/ LeaseEnds(j) \/ RetryIsDue(j) \/ Operator(j)
        PROVE  ckpt' = ckpt
    BY <1>6 DEF Submit, LeaseEnds, RetryIsDue, Operator, ReviewReady, Approve, Reject,
                ReviewTooLate
  <1>7. CASE UNCHANGED vars
    BY <1>7 DEF vars
  <1>8. CASE Next
    <2>1. ASSUME NEW w \in Workers, Processor(w)
          PROVE  \/ ckpt[e] = "result"
                 \/ proc[w].pc = "reported" /\ proc[w].exec = e
      BY <1>1, <1>2, <1>3, <1>4, <2>1
    <2> QED
      BY <1>1, <1>5, <1>6, <1>8, <2>1 DEF Next
  <1> QED
    BY <1>7, <1>8

\* Checkpoints and executions keep to what is reported.
LEMMA NextTablesReported ==
  ASSUME Inv, ReportInv, [Next]_vars
  PROVE  TablesReported'
  <1> SUFFICES ASSUME NEW e \in ExecIds, ckpt'[e] = "result" \/ execs'[e].status = "COMPLETED"
               PROVE  e \in reports'
    BY DEF TablesReported
  <1>1. CASE e \in reports
    BY <1>1, ReportsGrow
  <1>2. CASE ckpt'[e] = "result"
    BY <1>1, <1>2, CheckpointMoves DEF ReportInv, TablesReported, ThreadReported
  <1>3. CASE execs'[e].status = "COMPLETED"
    <2>1. CASE execs'[e] = execs[e]
      BY <1>1, <1>3, <2>1 DEF ReportInv, TablesReported
    <2>2. ASSUME NEW w \in Workers, Binds(proc[w].job, w, e) PROVE FALSE
      <3>1. execs'[e] = [job |-> proc[w].job, status |-> "RUNNING"]
        BY <2>2, BindsEffect
      <3> QED
        BY <1>3, <3>1
    <2>3. ASSUME NEW w \in Workers, CommitsEnd(w, e) \/ Abandons(w, e) PROVE e \in reports
      <3>1. proc[w].pc = "closing" /\ proc[w].exec = e
        BY <1>3, <2>3 DEF CommitsEnd, Abandons, CommitCompletion
      <3> QED
        BY <3>1 DEF ReportInv, ThreadReported
    <2>4. ASSUME NEW j \in Jobs, Rejected(j, e) PROVE FALSE
      BY <1>3, <2>4 DEF Rejected
    <2>5. execs'[e] = execs[e] \/ ExecMove(e)
      BY ExecMoves
    <2> QED
      BY <1>1, <2>1, <2>2, <2>3, <2>4, <2>5 DEF ExecMove
  <1> QED
    BY <1>2, <1>3

\* A thread's own step keeps to what is reported.
LEMMA ProcessorReported ==
  ASSUME Inv, ReportInv, NEW w \in Workers, Processor(w)
  PROVE  ThreadReported(proc[w])'
  <1> DEFINE p == proc[w]
             Unsaid(q) == q.pc \notin {"reported", "completing", "closing", "post", "run",
                                        "returned"}
  <1>0. /\ proc \in [Workers -> Proc] /\ ckpt \in [ExecIds -> Positions]
        /\ execs \in [ExecIds -> Execution] /\ ThreadReported(p)
        /\ p.pc # "off" /\ p.job \in Jobs
    BY ProcessorKeeps, ThreadInv DEF Inv, TypeOK, Execution, ReportInv
  <1> PICK j : j = p.job
    OBVIOUS
  <1>a. [Next]_vars
    BY DEF Next
  <1>b. reports \subseteq reports'
    BY <1>a, ReportsGrow
  <1>1. ASSUME Unsaid(proc'[w]) PROVE ThreadReported(proc[w])'
    BY <1>1 DEF ThreadReported
  <1>2. ASSUME NEW out \in Outcomes \ {"completed"}, Return(w, out)
        PROVE  ThreadReported(proc[w])'
    <2>1. proc'[w].pc = "returned" /\ proc'[w].out = out
      BY <1>0, <1>2, ReturnEffect
    <2> QED
      BY <1>2, <2>1 DEF ThreadReported
  <1>3. ASSUME NEW out \in Outcomes, Raise(w, out)
        PROVE  ThreadReported(proc[w])'
    <2>1. proc'[w].pc = "except"
      BY <1>0, <1>3, RaiseEffect
    <2> QED
      BY <2>1 DEF ThreadReported
  <1>4. ASSUME Return(w, "completed"), HasReport(j)'
        PROVE  ThreadReported(proc[w])'
    <2>1. proc'[w].pc = "returned" /\ proc'[w].job = p.job
      BY <1>0, <1>4, ReturnEffect DEF Outcomes
    <2> QED
      BY <1>4, <2>1 DEF ThreadReported, HasReport
  <1>5. ASSUME NEW pc \in Pcs, Goto(w, pc),
               pc \in {"reported", "completing", "closing"} => p.exec \in reports',
               pc \notin {"post", "run", "returned"}
        PROVE  ThreadReported(proc[w])'
    <2>1. proc'[w].pc = pc /\ proc'[w].exec = p.exec
      BY <1>0, <1>5, GotoEffect
    <2> QED
      BY <1>5, <2>1 DEF ThreadReported
  <1>6. ASSUME NEW pc \in {"run", "post"}, NEW pos \in Positions, Stands(w, pc, pos),
               pc = "post" /\ pos = "result" => p.exec \in reports',
               p.mode = "REVIEW_COMPLETE" => IF pc = "run" THEN pos \in NextIsComplete
                                                           ELSE pos = "result"
        PROVE  ThreadReported(proc[w])'
    <2>1. pc \in Pcs
      BY DEF Pcs
    <2>2. /\ proc'[w].pc = pc /\ proc'[w].at = pos /\ proc'[w].exec = p.exec
          /\ proc'[w].mode = p.mode
      BY <1>0, <1>6, <2>1, StandsEffect
    <2> QED
      BY <1>6, <2>2 DEF ThreadReported
  <1>7. CASE Enter(w)
    <2>1. TypeOK
      BY DEF Inv
    <2>2. CASE jobs[p.job].status = "COMPLETED" /\ Return(w, "completed")
      <3>1. HasReport(j)
        BY <1>0, <2>2 DEF ReportInv, CompletedHasReport, HasReport
      <3> QED
        BY <1>4, <1>a, <2>2, <3>1, HasReportKept
    <2>3. CASE proc'[w].pc = "short"
      BY <1>1, <2>3
    <2> QED
      BY <1>0, <1>7, <2>1, <2>2, <2>3, EnterEffect
  <1>8. CASE ShortCircuit(w)
    <2>1. CASE Goto(w, "bind")
      BY <1>5, <2>1 DEF Pcs
    <2>2. CASE CompletedResult(p) /\ Return(w, "completed")
      <3>1. p.active \in ExecIds /\ execs[p.active] = [job |-> j, status |-> "COMPLETED"]
        BY <1>0, <2>2, ThreadInv DEF CompletedResult
      <3>2. p.active \in reports
        BY <3>1 DEF ReportInv, TablesReported
      <3>3. HasReport(j)
        BY <3>1, <3>2 DEF HasReport
      <3> QED
        BY <1>4, <1>a, <2>2, <3>3, HasReportKept
    <2> QED
      BY <1>8, <2>1, <2>2 DEF ShortCircuit
  <1>9. CASE BindResume(w)
    <2>1. p.pc = "bind" /\ Resumes(p)
      BY <1>9 DEF BindResume
    <2>2. p.active \in ExecIds
      BY <2>1, ThreadInv DEF Resumes, UnboundPcs
    <2>3. CASE Bound(w, p.active)
      <3>1. proc'[w].pc = "open"
        BY <1>0, <2>2, <2>3, BoundEffect
      <3> QED
        BY <1>1, <3>1
    <2>4. CASE Return(w, "error")
      BY <1>2, <2>4 DEF Outcomes
    <2> QED
      BY <1>9, <2>3, <2>4 DEF BindResume
  <1>10. CASE BindCreate(w)
    <2>1. CASE Raise(w, "terminal")
      BY <1>3, <2>1 DEF Outcomes
    <2>2. ASSUME NEW e \in ExecIds, Binds(p.job, w, e)
          PROVE  ThreadReported(proc[w])'
      <3>1. proc'[w].pc = "open"
        BY <2>2, BindsEffect
      <3> QED
        BY <1>1, <3>1
    <2> QED
      BY <1>10, <2>1, <2>2, BindEffect
  <1>11. CASE OpenCheckpoint(w)
    <2>1. p.pc = "open"
      BY <1>11 DEF OpenCheckpoint
    <2>2. p.exec \in ExecIds /\ ckpt[p.exec] \in Positions
      BY <1>0, <2>1, ThreadInv DEF BoundPcs
    <2>3. CASE Goto(w, "badcheckpoint")
      BY <1>5, <2>3 DEF Pcs
    <2>4. CASE ckpt[p.exec] = "result" /\ Goto(w, "completing")
      <3>1. p.exec \in reports'
        BY <1>b, <2>2, <2>4 DEF ReportInv, TablesReported
      <3> QED
        BY <1>5, <2>4, <3>1 DEF Pcs
    <2>5. CASE /\ Stands(w, "run", ckpt[p.exec])
               /\ p.mode = "REVIEW_COMPLETE" => ckpt[p.exec] \in NextIsComplete
      BY <1>6, <2>2, <2>5
    <2> QED
      BY <1>11, <2>3, <2>4, <2>5 DEF OpenCheckpoint
  <1>12. CASE RunNodes(w)
    <2>1. p.mode # "REVIEW_COMPLETE"
      BY <1>0, <1>12 DEF RunNodes, ThreadReported, NextIsComplete
    <2>2. PICK pos \in {"mid", "passed", "review"} :
            Stands(w, IF pos = "review" THEN "post" ELSE "run", pos)
      BY <1>12 DEF RunNodes
    <2>3. pos \in Positions /\ pos # "result"
      BY <2>2 DEF Positions
    <2> QED
      BY <1>6, <2>1, <2>2, <2>3
  <1>13. CASE PersistFinal(w)
    <2>1. CASE Raise(w, "terminal")
      BY <1>3, <2>1 DEF Outcomes
    <2>2. CASE reports' = reports \cup {p.exec} /\ Goto(w, "reported")
      BY <1>5, <2>2 DEF Pcs
    <2> QED
      BY <1>13, <2>1, <2>2 DEF PersistFinal
  <1>14. CASE PutResult(w)
    <2>1. p.exec \in reports' /\ Stands(w, "post", "result") /\ "result" \in Positions
      BY <1>0, <1>b, <1>14 DEF PutResult, ThreadReported, Positions
    <2> QED
      BY <1>6, <2>1
  <1>15. CASE ProcessingError(w) \/ EscapingError(w)
    <2>1. Raise(w, "retry") \/ Raise(w, "terminal") \/ Return(w, "error")
      BY <1>15 DEF ProcessingError, EscapingError
    <2> QED
      BY <1>2, <1>3, <2>1 DEF Outcomes
  <1>16. CASE PostInvoke(w)
    <2>1. CASE Return(w, "error")
      BY <1>2, <2>1 DEF Outcomes
    <2>2. CASE Goto(w, "await") \/ Goto(w, "badcheckpoint")
      BY <1>5, <2>2 DEF Pcs
    <2>3. CASE Goto(w, "completing") /\ (p.mode = "REVIEW_COMPLETE" \/ p.at = "result")
      <3>1. p.pc = "post"
        BY <1>16 DEF PostInvoke
      <3>2. p.exec \in reports'
        BY <1>0, <1>b, <2>3, <3>1 DEF ThreadReported
      <3> QED
        BY <1>5, <2>3, <3>2 DEF Pcs
    <2> QED
      BY <1>16, <2>1, <2>2, <2>3 DEF PostInvoke
  <1>17. CASE BadCheckpoint(w) \/ CompleteExecution(w)
    <2>1. CASE Raise(w, "terminal")
      BY <1>3, <2>1 DEF Outcomes
    <2>2. CASE Goto(w, "failing")
      BY <1>5, <2>2 DEF Pcs
    <2>3. CASE p.pc = "completing" /\ Goto(w, "closing")
      <3>1. p.exec \in reports'
        BY <1>0, <1>b, <2>3 DEF ThreadReported
      <3> QED
        BY <1>5, <2>3, <3>1 DEF Pcs
    <2> QED
      BY <1>17, <2>1, <2>2, <2>3 DEF BadCheckpoint, CompleteExecution
  <1>18. CASE CommitCompletion(w)
    <2>1. CASE Raise(w, "terminal")
      BY <1>3, <2>1 DEF Outcomes
    <2>2. CASE StillRunning(p.job, p.exec) /\ Return(w, "completed")
      <3>1. p.pc = "closing" /\ execs' = [execs EXCEPT ![p.exec].status = "COMPLETED"]
        BY <1>18, <2>2 DEF CommitCompletion, Ended
      <3>2. PICK e \in ExecIds : e = p.exec
        BY <3>1, ThreadInv DEF BoundPcs
      <3>3. e \in reports'
        BY <1>0, <1>b, <3>1, <3>2 DEF ThreadReported
      <3>4. execs[e] = [job |-> j, status |-> "RUNNING"]
        BY <2>2, <3>2 DEF StillRunning
      <3>5. execs'[e] = [execs[e] EXCEPT !.status = "COMPLETED"]
        BY <1>0, <3>1, <3>2
      <3>6. execs'[e] = [job |-> j, status |-> "COMPLETED"]
        BY <3>4, <3>5
      <3>7. HasReport(j)'
        BY <3>3, <3>6 DEF HasReport
      <3> QED
        BY <1>4, <2>2, <3>7
    <2> QED
      BY <1>18, <2>1, <2>2 DEF CommitCompletion
  <1>22. CASE CommitBadCheckpoint(w) \/ CommitFailure(w)
    <2>1. \E out \in {"terminal", "error", "lost"} : Return(w, out) \/ Raise(w, out)
      BY <1>22 DEF CommitBadCheckpoint, CommitFailure
    <2> QED
      BY <1>2, <1>3, <2>1 DEF Outcomes
  <1>19. CASE AwaitReview(w)
    <2>1. Return(w, "paused") \/ Raise(w, "terminal")
      BY <1>19 DEF AwaitReview
    <2> QED
      BY <1>2, <1>3, <2>1 DEF Outcomes
  <1>20. CASE HandleException(w)
    <2>1. TypeOK
      BY DEF Inv
    <2>2. proc'[w].pc \in {"decide", "retry"}
      BY <1>0, <1>20, <2>1, HandleEffect
    <2> QED
      BY <1>1, <2>2
  <1>21. CASE FailExecution(w) \/ Retry(w)
    <2>1. \/ Return(w, "terminal") \/ Return(w, "lost") \/ Return(w, "retry")
          \/ Goto(w, "ending")
      BY <1>21 DEF FailExecution, Retry
    <2> QED
      BY <1>2, <1>5, <2>1 DEF Outcomes, Pcs
  <1> QED
    BY <1>7, <1>8, <1>9, <1>10, <1>11, <1>12, <1>13, <1>14, <1>15, <1>16, <1>17, <1>18,
       <1>19, <1>20, <1>21, <1>22
       DEF Processor

\* A job is COMPLETED by the finalization of a thread that returned a completion.
LEMMA NextCompleted ==
  ASSUME Inv, ReportInv, [Next]_vars
  PROVE  CompletedHasReport'
  <1> SUFFICES ASSUME NEW i \in Jobs, jobs'[i].status = "COMPLETED"
               PROVE  HasReport(i)'
    BY DEF CompletedHasReport, HasReport
  <1>0. jobs[i] \in Row
    BY JobInv DEF Inv
  <1>1. CASE jobs[i].status = "COMPLETED"
    <2>1. HasReport(i)
      BY <1>1 DEF ReportInv, CompletedHasReport, HasReport
    <2> QED
      BY <2>1, HasReportKept
  <1>2. CASE jobs[i].status # "COMPLETED"
    <2>1. jobs'[i] # NewRow
      BY NewFields
    <2>2. jobs'[i] \notin {AgedRow(jobs[i]), DueRow(jobs[i])}
      BY <1>0, <1>2, AgedFields, DueFields
    <2>3. jobs'[i] \notin {ApprovedRow(jobs[i]), ReviewRow(jobs[i]), RetryRow(jobs[i])}
      BY <1>0, ApprovedFields, ReviewFields, RetryFields
    <2>4. jobs'[i] # EndedRow(jobs[i], "FAILED")
      BY <1>0, EndedFields DEF Statuses
    <2>5. ASSUME NEW w \in Workers, NEW tok \in Tokens \ spent,
                 jobs'[i] = ClaimedRow(jobs[i], tok, ProfileOf[w])
          PROVE  FALSE
      BY <1>0, <2>5, ClaimedFields, ProfileAssumption
    <2>6. ASSUME NEW w \in Workers, NEW e \in ExecIds, Binds(i, w, e) PROVE FALSE
      BY <1>0, <1>2, <2>6, BoundFields DEF Binds
    <2>7. RowMove(i)
      BY <1>2, RowMoves
    <2>8. PICK w \in Workers : OwnerMove(i, w)
      BY <2>1, <2>2, <2>3, <2>4, <2>5, <2>7 DEF RowMove
    <2>9. /\ Finalize(w) /\ Finalization(w) = "completion" /\ proc[w].job = i
      BY <2>3, <2>4, <2>6, <2>8 DEF OwnerMove
    <2>10. worker[w] # "timedout" /\ proc[w].out = "completed" /\ proc[w].pc = "returned"
      BY <2>9 DEF Finalization, Finalize, Finishing
    <2>11. HasReport(i)
      BY <2>9, <2>10 DEF ReportInv, ThreadReported, HasReport
    <2> QED
      BY <2>11, HasReportKept
  <1> QED
    BY <1>1, <1>2

\* Every step keeps the invariant on reports.
LEMMA NextReport ==
  ASSUME Inv, ReportInv, [Next]_vars
  PROVE  ReportInv'
  <1>1. ASSUME NEW v \in Workers PROVE ThreadReported(proc[v])'
    <2>1. CASE proc'[v] = proc[v]
      <3> PICK j : j = proc[v].job
        OBVIOUS
      <3>1. HasReport(j) => HasReport(j)'
        BY HasReportKept
      <3>2. ThreadReported(proc[v])
        BY DEF ReportInv
      <3>3. reports \subseteq reports'
        BY ReportsGrow
      <3> QED
        BY <2>1, <3>1, <3>2, <3>3 DEF ThreadReported, HasReport
    <2>2. CASE proc'[v] = NoProc
      BY <2>2, NoProcTyped DEF ThreadReported
    <2>3. ASSUME NEW j \in Jobs, Claim(v, j) PROVE ThreadReported(proc[v])'
      BY <2>3, ClaimEffect DEF ThreadReported
    <2>4. CASE Processor(v)
      BY <2>4, ProcessorReported
    <2> QED
      BY <2>1, <2>2, <2>3, <2>4, ThreadMoves
  <1> QED
    BY <1>1, NextTablesReported, NextCompleted DEF ReportInv

\* A COMPLETED job has a completed execution of its own with a report, whichever
\* of several processors, replays or short circuits led to its finalization.
THEOREM LifecycleCompletedHasReport == Spec => []CompletedHasReport
  <1>1. Init => ReportInv
    <2> SUFFICES ASSUME Init PROVE ReportInv
      OBVIOUS
    <2>1. /\ \A w \in Workers : proc[w].pc = "off"
          /\ \A j \in Jobs : jobs[j].status = "ABSENT"
          /\ \A e \in ExecIds : execs[e].status = "UNUSED" /\ ckpt[e] = "empty"
      BY NoProcTyped DEF Init, RowInit, NoRow
    <2> QED
      BY <2>1 DEF ReportInv, TablesReported, ThreadReported, CompletedHasReport
  <1>2. Inv /\ ReportInv /\ [Next]_vars => ReportInv'
    BY NextReport
  <1>3. ReportInv => CompletedHasReport
    BY DEF ReportInv
  <1> QED
    BY <1>1, <1>2, <1>3, Invariance, PTL DEF Spec

-----------------------------------------------------------------------------
(* Decisions.  A decision on record has had its effect, so replaying it while   *)
(* the claim is held is impossible.                                             *)

\* A retry was counted after its decision; a job that runs on an execution it has
\* paused with, at the same count, was approved.
DecisionOK(d) ==
    /\ d.action = "retry" => d.retries < jobs[d.job].retries
    /\ d.action = "await_review" =>
         /\ d.exec # None /\ execs[d.exec].status # "UNUSED"
         /\ jobs[d.job].status = "RUNNING" /\ jobs[d.job].active = d.exec
              /\ jobs[d.job].retries = d.retries
              => jobs[d.job].claimed_mode = "REVIEW_COMPLETE"

\* A thread works in the mode its job was claimed in, and one that completes a
\* review does not pause.
ModeOK(p) ==
    /\ Holds(p) /\ p.pc \in UnboundPcs \cup BoundPcs => p.mode = jobs[p.job].claimed_mode
    /\ p.pc = "await" => p.mode # "REVIEW_COMPLETE"
DecisionInv ==
    /\ \A d \in decisions : DecisionOK(d)
    /\ \A w \in Workers : ModeOK(proc[w])
    /\ DeferredMeansTransitioned

\* What a thread's own step does to its mode, and which steps defer.
LEMMA ProcessorModes ==
  ASSUME Inv, NEW w \in Workers, Processor(w)
  PROVE  /\ proc'[w].pc \in UnboundPcs \cup BoundPcs =>
              proc[w].pc \in UnboundPcs \cup BoundPcs /\ proc'[w].mode = proc[w].mode
         /\ proc'[w].pc = "await" => proc'[w].mode # "REVIEW_COMPLETE"
         /\ proc'[w].pc = "returned" /\ proc'[w].out \in {"paused", "retry"} =>
              \/ AwaitReview(w) /\ Return(w, "paused")
              \/ Retry(w) /\ Return(w, "retry")
  <1> DEFINE p == proc[w]
             Goal == /\ proc'[w].pc \in UnboundPcs \cup BoundPcs =>
                          p.pc \in UnboundPcs \cup BoundPcs /\ proc'[w].mode = p.mode
                     /\ proc'[w].pc = "await" => proc'[w].mode # "REVIEW_COMPLETE"
                     /\ proc'[w].pc = "returned" /\ proc'[w].out \in {"paused", "retry"} =>
                          \/ AwaitReview(w) /\ Return(w, "paused")
                          \/ Retry(w) /\ Return(w, "retry")
  <1>0. /\ proc \in [Workers -> Proc] /\ ckpt \in [ExecIds -> Positions] /\ TypeOK
        /\ p.pc # "off" /\ p.job \in Jobs
    BY ProcessorKeeps, ThreadInv DEF Inv, TypeOK
  <1>1. ASSUME NEW out \in Outcomes, Return(w, out),
               out \in {"paused", "retry"} =>
                 \/ AwaitReview(w) /\ Return(w, "paused")
                 \/ Retry(w) /\ Return(w, "retry")
        PROVE  Goal
    <2>1. proc'[w].pc = "returned" /\ proc'[w].out = out
      BY <1>0, <1>1, ReturnEffect
    <2> QED
      BY <1>1, <2>1 DEF UnboundPcs, BoundPcs
  <1>2. ASSUME NEW out \in Outcomes, Raise(w, out) PROVE Goal
    <2>1. proc'[w].pc = "except"
      BY <1>0, <1>2, RaiseEffect
    <2> QED
      BY <2>1 DEF UnboundPcs, BoundPcs
  <1>3. ASSUME p.pc \in UnboundPcs \cup BoundPcs, NEW pc \in Pcs, pc # "returned",
               pc = "await" => p.mode # "REVIEW_COMPLETE",
               Goto(w, pc) \/ \E pos \in Positions : Stands(w, pc, pos)
        PROVE  Goal
    <2>1. proc'[w].pc = pc /\ proc'[w].mode = p.mode
      BY <1>0, <1>3, GotoEffect, StandsEffect
    <2> QED
      BY <1>3, <2>1
  <1>4. ASSUME p.pc \in UnboundPcs, NEW e \in ExecIds, Bound(w, e) PROVE Goal
    <2>1. proc'[w].pc = "open" /\ proc'[w].mode = p.mode
      BY <1>0, <1>4, BoundEffect
    <2> QED
      BY <1>4, <2>1
  <1>5. CASE Enter(w)
    <2>1. p.pc = "enter"
      BY <1>5 DEF Enter
    <2>2. CASE Return(w, "completed")
      BY <1>1, <2>2 DEF Outcomes
    <2>3. CASE proc'[w].pc = "short" /\ proc'[w].mode = p.mode
      BY <2>1, <2>3 DEF UnboundPcs
    <2> QED
      BY <1>0, <1>5, <2>2, <2>3, EnterEffect
  <1>6. CASE ShortCircuit(w)
    <2>1. p.pc = "short" /\ (Return(w, "completed") \/ Goto(w, "bind"))
      BY <1>6 DEF ShortCircuit
    <2> QED
      BY <1>1, <1>3, <2>1 DEF UnboundPcs, Outcomes, Pcs
  <1>7. CASE BindResume(w)
    <2>1. p.pc = "bind" /\ Resumes(p) /\ (Return(w, "error") \/ Bound(w, p.active))
      BY <1>7 DEF BindResume
    <2>2. p.active \in ExecIds
      BY <2>1, ThreadInv DEF Resumes, UnboundPcs
    <2> QED
      BY <1>1, <1>4, <2>1, <2>2 DEF UnboundPcs, Outcomes
  <1>8. CASE BindCreate(w)
    <2>1. p.pc = "bind"
      BY <1>8 DEF BindCreate
    <2>2. Raise(w, "terminal") \/ \E e \in ExecIds : Bound(w, e)
      BY <1>8, BindEffect DEF Binds
    <2> QED
      BY <1>2, <1>4, <2>1, <2>2 DEF UnboundPcs, Outcomes
  <1>9. CASE OpenCheckpoint(w)
    <2>1. p.pc = "open"
      BY <1>9 DEF OpenCheckpoint
    <2>2. ckpt[p.exec] \in Positions
      BY <1>0, <2>1, ThreadInv DEF BoundPcs
    <2>3. \E pc \in {"run", "badcheckpoint", "completing"} :
            Goto(w, pc) \/ \E pos \in Positions : Stands(w, pc, pos)
      BY <1>9, <2>2 DEF OpenCheckpoint
    <2> QED
      BY <1>3, <2>1, <2>3 DEF BoundPcs, Pcs
  <1>10. CASE RunNodes(w) \/ PutResult(w)
    <2>1. p.pc \in {"run", "reported"}
      BY <1>10 DEF RunNodes, PutResult
    <2>2. \E pc \in {"run", "post"}, pos \in Positions : Stands(w, pc, pos)
      BY <1>10 DEF RunNodes, PutResult, Positions
    <2> QED
      BY <1>3, <2>1, <2>2 DEF BoundPcs, Pcs
  <1>11. CASE PersistFinal(w)
    <2>1. p.pc = "run" /\ (Goto(w, "reported") \/ Raise(w, "terminal"))
      BY <1>11 DEF PersistFinal
    <2> QED
      BY <1>2, <1>3, <2>1 DEF BoundPcs, Pcs, Outcomes
  <1>12. CASE ProcessingError(w) \/ EscapingError(w)
    <2>1. Raise(w, "retry") \/ Raise(w, "terminal") \/ Return(w, "error")
      BY <1>12 DEF ProcessingError, EscapingError
    <2> QED
      BY <1>1, <1>2, <2>1 DEF Outcomes
  <1>13. CASE PostInvoke(w)
    <2>1. p.pc = "post"
      BY <1>13 DEF PostInvoke
    <2>2. \/ Goto(w, "completing") \/ Goto(w, "badcheckpoint") \/ Return(w, "error")
          \/ p.mode # "REVIEW_COMPLETE" /\ Goto(w, "await")
      BY <1>13 DEF PostInvoke
    <2> QED
      BY <1>1, <1>3, <2>1, <2>2 DEF BoundPcs, Pcs, Outcomes
  <1>14. CASE \/ CommitBadCheckpoint(w) \/ CommitCompletion(w) \/ CommitFailure(w)
              \/ FailExecution(w) /\ ~Goto(w, "ending")
    <2>1. \E out \in {"terminal", "error", "completed", "lost"} : Return(w, out) \/ Raise(w, out)
      BY <1>14 DEF CommitBadCheckpoint, CommitCompletion, CommitFailure, FailExecution
    <2> QED
      BY <1>1, <1>2, <2>1 DEF Outcomes
  <1>18. CASE Goto(w, "ending")
    <2>1. proc'[w].pc = "ending"
      BY <1>0, <1>18, GotoEffect DEF Pcs
    <2> QED
      BY <2>1 DEF UnboundPcs, BoundPcs
  <1>19. CASE BadCheckpoint(w) \/ CompleteExecution(w)
    <2>1. p.pc \in {"badcheckpoint", "completing"}
      BY <1>19 DEF BadCheckpoint, CompleteExecution
    <2>2. Goto(w, "failing") \/ Goto(w, "closing") \/ Raise(w, "terminal")
      BY <1>19 DEF BadCheckpoint, CompleteExecution
    <2> QED
      BY <1>2, <1>3, <2>1, <2>2 DEF BoundPcs, Pcs, Outcomes
  <1>15. CASE AwaitReview(w)
    <2>1. Return(w, "paused") \/ Raise(w, "terminal")
      BY <1>15 DEF AwaitReview
    <2> QED
      BY <1>1, <1>2, <1>15, <2>1 DEF Outcomes
  <1>16. CASE Retry(w)
    <2>1. Return(w, "retry") \/ Return(w, "lost")
      BY <1>16 DEF Retry
    <2> QED
      BY <1>1, <1>16, <2>1 DEF Outcomes
  <1>17. CASE HandleException(w)
    <2>1. proc'[w].pc \in {"decide", "retry"}
      BY <1>0, <1>17, HandleEffect
    <2> QED
      BY <2>1 DEF UnboundPcs, BoundPcs
  <1> QED
    BY <1>5, <1>6, <1>7, <1>8, <1>9, <1>10, <1>11, <1>12, <1>13, <1>14, <1>15, <1>16, <1>17,
       <1>18, <1>19
       DEF Processor

\* A job that is RUNNING after a step was so before, at the same count and in the
\* same mode, or was claimed with what it was PENDING for.
LEMMA RunningBefore ==
  ASSUME Inv, [Next]_vars, NEW i \in Jobs, jobs'[i].status = "RUNNING"
  PROVE  \/ /\ jobs[i].status = "RUNNING" /\ jobs'[i].retries = jobs[i].retries
            /\ jobs'[i].claimed_mode = jobs[i].claimed_mode
         \/ /\ jobs[i].status = "PENDING" /\ jobs'[i].claimed_mode = jobs[i].mode
            /\ jobs'[i].active = jobs[i].active
  <1>0. jobs[i] \in Row
    BY JobInv DEF Inv
  <1>1. CASE jobs'[i] = jobs[i]
    BY <1>1
  <1>2. jobs'[i] # NewRow
    BY NewFields
  <1>3. CASE jobs'[i] \in {AgedRow(jobs[i]), DueRow(jobs[i])}
    BY <1>0, <1>3, AgedFields, DueFields
  <1>4. jobs'[i] \notin {ApprovedRow(jobs[i]), ReviewRow(jobs[i]), RetryRow(jobs[i])}
    BY <1>0, ApprovedFields, ReviewFields, RetryFields
  <1>5. jobs'[i] \notin {EndedRow(jobs[i], "COMPLETED"), EndedRow(jobs[i], "FAILED")}
    BY <1>0, EndedFields DEF Statuses
  <1>6. ASSUME NEW w \in Workers, NEW tok \in Tokens \ spent, Eligible(i, ProfileOf[w]),
               jobs'[i] = ClaimedRow(jobs[i], tok, ProfileOf[w])
        PROVE  \/ /\ jobs[i].status = "RUNNING" /\ jobs'[i].retries = jobs[i].retries
                  /\ jobs'[i].claimed_mode = jobs[i].claimed_mode
               \/ /\ jobs[i].status = "PENDING" /\ jobs'[i].claimed_mode = jobs[i].mode
                  /\ jobs'[i].active = jobs[i].active
    <2>1. /\ jobs'[i].active = jobs[i].active /\ jobs'[i].retries = jobs[i].retries
          /\ jobs'[i].claimed_mode
               = (IF jobs[i].status = "PENDING" THEN jobs[i].mode ELSE jobs[i].claimed_mode)
      BY <1>0, <1>6, ClaimedFields, ProfileAssumption
    <2>2. jobs[i].status \in {"PENDING", "RUNNING"}
      BY <1>6 DEF Eligible
    <2> QED
      BY <2>1, <2>2
  <1>7. ASSUME NEW w \in Workers, NEW e \in ExecIds, Binds(i, w, e)
        PROVE  /\ jobs[i].status = "RUNNING" /\ jobs'[i].retries = jobs[i].retries
               /\ jobs'[i].claimed_mode = jobs[i].claimed_mode
    BY <1>0, <1>7, BoundFields DEF Binds
  <1>8. jobs'[i] = jobs[i] \/ RowMove(i)
    BY RowMoves
  <1>9. CASE \E w \in Workers : OwnerMove(i, w)
    BY <1>4, <1>5, <1>7, <1>9 DEF OwnerMove
  <1> QED
    BY <1>1, <1>2, <1>3, <1>4, <1>5, <1>6, <1>8, <1>9 DEF RowMove

\* A decision is recorded by the owner of the claim, with the transition it calls
\* for.
LEMMA DecisionMoves ==
  ASSUME Inv, [Next]_vars, NEW d \in decisions', d \notin decisions
  PROVE  \E w \in Workers :
           /\ proc[w].pc # "off" /\ Holds(proc[w])
           /\ \/ /\ proc[w].pc = "await" /\ UNCHANGED execs
                 /\ d = Fingerprint("await_review", proc[w].job, proc[w].exec,
                                    jobs[proc[w].job].retries)
                 /\ jobs'[proc[w].job].status = "AWAITING_REVIEW"
              \/ /\ proc[w].pc = "retry"
                 /\ d = Fingerprint("retry", proc[w].job, proc[w].exec, proc[w].retries)
                 /\ jobs'[proc[w].job].retries = jobs[proc[w].job].retries + 1
  <1>0. RowTypeOK
    BY DEF Inv, RowInv
  <1>1. ASSUME NEW w \in Workers, AwaitReview(w)
        PROVE  /\ proc[w].pc # "off" /\ Holds(proc[w])
               /\ proc[w].pc = "await" /\ UNCHANGED execs
               /\ d = Fingerprint("await_review", proc[w].job, proc[w].exec,
                                  jobs[proc[w].job].retries)
               /\ jobs'[proc[w].job].status = "AWAITING_REVIEW"
    <2> DEFINE j == proc[w].job
    <2>1. /\ proc[w].pc = "await" /\ UNCHANGED execs
          /\ TransitionAwaitingReview(j, proc[w].token)
          /\ d = Fingerprint("await_review", j, proc[w].exec, jobs[j].retries)
      BY <1>1 DEF AwaitReview
    <2>2. j \in Jobs /\ jobs[j] \in Row
      BY <2>1, ThreadInv
    <2>3. Owns(j, proc[w].token) /\ Write(j, ReviewRow(jobs[j]))
      BY <2>1 DEF TransitionAwaitingReview
    <2>4. jobs'[j].status = "AWAITING_REVIEW"
      BY <1>0, <2>2, <2>3, ReviewFields, WriteEffect
    <2> QED
      BY <2>1, <2>3, <2>4 DEF Holds, Owns
  <1>2. ASSUME NEW w \in Workers, Retry(w)
        PROVE  /\ proc[w].pc # "off" /\ Holds(proc[w])
               /\ proc[w].pc = "retry"
               /\ d = Fingerprint("retry", proc[w].job, proc[w].exec, proc[w].retries)
               /\ jobs'[proc[w].job].retries = jobs[proc[w].job].retries + 1
    <2> DEFINE j == proc[w].job
    <2>1. /\ proc[w].pc = "retry" /\ ScheduleRetry(j, proc[w].token)
          /\ d = Fingerprint("retry", j, proc[w].exec, proc[w].retries)
      BY <1>2 DEF Retry
    <2>2. j \in Jobs /\ jobs[j] \in Row
      BY <2>1, ThreadInv
    <2>3. Owns(j, proc[w].token) /\ Write(j, RetryRow(jobs[j]))
      BY <2>1 DEF ScheduleRetry
    <2>4. jobs'[j].retries = jobs[j].retries + 1
      BY <1>0, <2>2, <2>3, RetryFields, WriteEffect
    <2> QED
      BY <2>1, <2>3, <2>4 DEF Holds, Owns
  <1>3. ASSUME NEW w \in Workers, Processor(w), ~AwaitReview(w), ~Retry(w) PROVE FALSE
    BY <1>3 DEF Processor, Enter, ShortCircuit, BindResume, BindCreate, OpenCheckpoint,
           RunNodes, PersistFinal, PutResult, ProcessingError, EscapingError, PostInvoke,
           BadCheckpoint, CompleteExecution, HandleException, FailExecution, db,
           CommitBadCheckpoint, CommitCompletion, CommitFailure
  <1>4. ASSUME NEW w \in Workers, Polling(w) PROVE FALSE
    BY <1>4 DEF Polling, Claim, Timeout, Finalize, FinalizeError, Crash, Restart, db
  <1>5. ASSUME NEW j \in Jobs, Submit(j) \/ LeaseEnds(j) \/ RetryIsDue(j) \/ Operator(j)
        PROVE  FALSE
    BY <1>5 DEF Submit, LeaseEnds, RetryIsDue, Operator, ReviewReady, Approve, Reject,
                ReviewTooLate, db
  <1>6. Next
    BY DEF vars
  <1>7. PICK w \in Workers : Processor(w)
    BY <1>4, <1>5, <1>6 DEF Next
  <1>8. AwaitReview(w) \/ Retry(w)
    BY <1>3, <1>7
  <1> QED
    BY <1>1, <1>2, <1>8

\* Decisions on record keep to their effects.
LEMMA NextDecisions ==
  ASSUME Inv, ExecInv, DecisionInv, [Next]_vars, NEW d \in decisions'
  PROVE  DecisionOK(d)'
  <1>1. CASE d \in decisions
    <2> DEFINE i == d.job
    <2>1. /\ d.job \in Jobs /\ d.exec \in ExecIds \cup {None} /\ d.retries \in Nat
      BY <1>1 DEF Inv, TypeOK
    <2>2. DecisionOK(d) /\ jobs[i] \in Row /\ FieldsOK(jobs[i])
      BY <1>1, <2>1, JobInv DEF DecisionInv, Inv
    <2>3. d.action = "retry" => d.retries < jobs'[i].retries
      <3>1. jobs[i].retries <= jobs'[i].retries
        BY <2>1, RowGrows
      <3>2. jobs[i].retries \in Nat /\ jobs'[i].retries \in Nat
        BY <2>1, <2>2, NextInv DEF Row, Inv, RowInv, RowTypeOK
      <3> QED
        BY <2>1, <2>2, <3>1, <3>2 DEF DecisionOK
    <2>4. ASSUME d.action = "await_review"
          PROVE  d.exec \in ExecIds /\ execs[d.exec].status # "UNUSED" /\ execs'[d.exec].status # "UNUSED"
      BY <2>1, <2>2, <2>4, ExecKeeps DEF DecisionOK
    <2>5. ASSUME d.action = "await_review", jobs'[i].status = "RUNNING",
                 jobs'[i].active = d.exec, jobs'[i].retries = d.retries
          PROVE  jobs'[i].claimed_mode = "REVIEW_COMPLETE"
      <3>1. jobs[i].active = d.exec
        <4>1. ASSUME NEW w \in Workers, NEW e \in ExecIds, Binds(i, w, e), jobs'[i].active = e
              PROVE  FALSE
          BY <2>4, <2>5, <4>1 DEF Binds
        <4>2. jobs'[i].active # None
          BY <2>4, <2>5, NoneAssumption
        <4> QED
          BY <2>1, <2>5, <4>1, <4>2, RowGrows
      <3>2. CASE /\ jobs[i].status = "RUNNING" /\ jobs'[i].retries = jobs[i].retries
                 /\ jobs'[i].claimed_mode = jobs[i].claimed_mode
        BY <2>2, <2>5, <3>1, <3>2 DEF DecisionOK
      <3>3. CASE jobs[i].status = "PENDING" /\ jobs'[i].claimed_mode = jobs[i].mode
        <4>1. jobs[i].active # None
          BY <2>4, <2>5, <3>1, NoneAssumption
        <4> QED
          BY <2>2, <3>3, <4>1 DEF FieldsOK
      <3> QED
        BY <2>1, <2>5, <3>2, <3>3, RunningBefore
    <2>6. d.action = "await_review" => d.exec # None
      BY <2>2 DEF DecisionOK
    <2> QED
      BY <2>3, <2>4, <2>5, <2>6 DEF DecisionOK
  <1>2. CASE d \notin decisions
    <2>1. PICK w \in Workers :
           /\ proc[w].pc # "off" /\ Holds(proc[w])
           /\ \/ /\ proc[w].pc = "await" /\ UNCHANGED execs
                 /\ d = Fingerprint("await_review", proc[w].job, proc[w].exec,
                                    jobs[proc[w].job].retries)
                 /\ jobs'[proc[w].job].status = "AWAITING_REVIEW"
              \/ /\ proc[w].pc = "retry"
                 /\ d = Fingerprint("retry", proc[w].job, proc[w].exec, proc[w].retries)
                 /\ jobs'[proc[w].job].retries = jobs[proc[w].job].retries + 1
      BY <1>2, DecisionMoves
    <2>2. /\ ClaimOK(proc[w], jobs[proc[w].job]) /\ jobs[proc[w].job] \in Row
          /\ proc[w].pc \in BoundPcs => proc[w].exec \in ExecIds
      BY <2>1, ThreadInv
    <2>3. CASE proc[w].pc = "await"
      <3>1. /\ d.action = "await_review" /\ d.job = proc[w].job /\ d.exec = proc[w].exec
            /\ UNCHANGED execs /\ jobs'[d.job].status = "AWAITING_REVIEW"
        BY <2>1, <2>3 DEF Fingerprint
      <3>2. d.exec # None /\ execs[d.exec].status \in Kept
        BY <2>1, <2>2, <2>3, <3>1, NoneAssumption DEF ExecInv, BoundOK, BoundPcs
      <3> QED
        BY <3>1, <3>2 DEF DecisionOK, Kept
    <2>4. CASE proc[w].pc = "retry"
      <3>1. /\ d.action = "retry" /\ d.job = proc[w].job /\ d.retries = proc[w].retries
            /\ jobs'[d.job].retries = jobs[d.job].retries + 1
        BY <2>1, <2>4 DEF Fingerprint
      <3>2. proc[w].retries = jobs[d.job].retries /\ jobs[d.job].retries \in Nat
        BY <2>1, <2>2, <2>4, <3>1 DEF ClaimOK, Holds, HoldsToken, Row
      <3> QED
        BY <3>1, <3>2 DEF DecisionOK
    <2> QED
      BY <2>1, <2>3, <2>4
  <1> QED
    BY <1>1, <1>2

\* A thread keeps working in the mode its job was claimed in.
LEMMA NextModes ==
  ASSUME Inv, DecisionInv, [Next]_vars, NEW v \in Workers
  PROVE  ModeOK(proc[v])'
  <1>0. ModeOK(proc[v])
    BY DEF DecisionInv
  <1>1. ASSUME proc'[v].pc \in UnboundPcs \cup BoundPcs => proc[v].pc \in UnboundPcs \cup BoundPcs,
               proc'[v].pc \in UnboundPcs \cup BoundPcs => proc'[v].mode = proc[v].mode,
               proc'[v].job = proc[v].job, proc'[v].token = proc[v].token,
               proc'[v].pc = "await" => proc'[v].mode # "REVIEW_COMPLETE"
        PROVE  ModeOK(proc[v])'
    <2> SUFFICES ASSUME proc'[v].pc \in UnboundPcs \cup BoundPcs,
                        jobs'[proc[v].job].status = "RUNNING",
                        jobs'[proc[v].job].token = proc[v].token
                 PROVE  proc'[v].mode = jobs'[proc[v].job].claimed_mode
      BY <1>1 DEF ModeOK, Holds, HoldsToken
    <2>1. proc[v].pc \in UnboundPcs \cup BoundPcs /\ proc[v].pc # "off"
      BY <1>1 DEF UnboundPcs, BoundPcs
    <2>2. /\ Holds(proc[v])
          /\ jobs'[proc[v].job].claimed_mode = jobs[proc[v].job].claimed_mode
      BY <2>1, HeldBefore
    <2> QED
      BY <1>0, <1>1, <2>1, <2>2 DEF ModeOK
  <1>2. CASE proc'[v] = proc[v]
    BY <1>0, <1>1, <1>2 DEF ModeOK
  <1>3. CASE proc'[v] = NoProc
    BY <1>3, NoProcTyped DEF ModeOK, Holds
  <1>4. ASSUME NEW j \in Jobs, Claim(v, j) PROVE ModeOK(proc[v])'
    BY <1>4, ClaimEffect DEF ModeOK
  <1>5. CASE Processor(v)
    <2>1. proc'[v].job = proc[v].job /\ proc'[v].token = proc[v].token
      BY <1>5, ProcessorKeeps
    <2> QED
      BY <1>1, <1>5, <2>1, ProcessorModes
  <1> QED
    BY <1>2, <1>3, <1>4, <1>5, ThreadMoves

\* A thread that reports a pause or a retry does not hold the claim any more.
LEMMA NextDeferred ==
  ASSUME Inv, DecisionInv, [Next]_vars, NEW v \in Workers,
         proc'[v].pc = "returned", proc'[v].out \in {"paused", "retry"},
         jobs'[proc'[v].job].status = "RUNNING", jobs'[proc'[v].job].token = proc'[v].token
  PROVE  FALSE
  <1> DEFINE p == proc[v]
             j == proc[v].job
  <1>1. CASE proc'[v] = proc[v]
    <2>1. Holds(p)
      BY <1>1, HeldBefore
    <2> QED
      BY <1>1, <2>1 DEF DecisionInv, DeferredMeansTransitioned, Holds
  <1>2. CASE proc'[v] = NoProc
    BY <1>2, NoProcTyped
  <1>3. ASSUME NEW i \in Jobs, Claim(v, i) PROVE FALSE
    BY <1>3, ClaimEffect
  <1>4. CASE Processor(v)
    <2>1. p.pc # "off" /\ proc'[v].job = j /\ proc'[v].token = p.token
      BY <1>4, ProcessorKeeps
    <2>2. Holds(p) /\ jobs'[j].status = "RUNNING"
      BY <2>1, HeldBefore
    <2>3. /\ ClaimOK(p, jobs[j]) /\ jobs[j] \in Row /\ j \in Jobs
          /\ p.pc \in BoundPcs => p.exec \in ExecIds
      BY <2>1, ThreadInv
    <2>4. RowTypeOK
      BY DEF Inv, RowInv
    <2>5. CASE AwaitReview(v) /\ Return(v, "paused")
      <3> DEFINE fp == Fingerprint("await_review", j, p.exec, jobs[j].retries)
      <3>1. ~TransitionAwaitingReview(j, p.token)
        BY <2>2, <2>3, <2>4, ReviewFields, WriteEffect DEF TransitionAwaitingReview
      <3>2. p.pc = "await" /\ fp \in decisions
        <4>1. proc \in [Workers -> Proc]
          BY DEF Inv, TypeOK
        <4>2. ~Raise(v, "terminal")
          BY <4>1, RaiseEffect DEF Outcomes
        <4> QED
          BY <2>5, <3>1, <4>2 DEF AwaitReview
      <3>3. /\ fp.action = "await_review" /\ fp.job = j /\ fp.exec = p.exec
            /\ fp.retries = jobs[j].retries
        BY DEF Fingerprint
      <3>4. jobs[j].status = "RUNNING" /\ jobs[j].active = p.exec
        BY <2>2, <2>3, <3>2 DEF ClaimOK, Holds, HoldsToken, BoundPcs
      <3> HIDE DEF fp
      <3>5. jobs[j].claimed_mode = "REVIEW_COMPLETE"
        BY <3>2, <3>3, <3>4 DEF DecisionInv, DecisionOK
      <3>6. p.mode = jobs[j].claimed_mode /\ p.mode # "REVIEW_COMPLETE"
        BY <2>2, <3>2 DEF DecisionInv, ModeOK, BoundPcs
      <3> QED
        BY <3>5, <3>6
    <2>6. CASE Retry(v) /\ Return(v, "retry")
      <3> DEFINE fp == Fingerprint("retry", j, p.exec, p.retries)
      <3>1. ~ScheduleRetry(j, p.token)
        BY <2>2, <2>3, <2>4, RetryFields, WriteEffect DEF ScheduleRetry
      <3>2. p.pc = "retry" /\ fp \in decisions
        <4>1. proc \in [Workers -> Proc]
          BY DEF Inv, TypeOK
        <4>2. proc'[v].out = "retry"
          BY <2>6, <4>1, ReturnEffect DEF Outcomes
        <4>3. ~Return(v, "lost")
          BY <4>1, <4>2, ReturnEffect DEF Outcomes
        <4> QED
          BY <2>6, <3>1, <4>3 DEF Retry
      <3>3. fp.action = "retry" /\ fp.job = j /\ fp.retries = p.retries
        BY DEF Fingerprint
      <3>4. jobs[j].retries = p.retries /\ jobs[j].retries \in Nat
        BY <2>2, <2>3, <3>2 DEF ClaimOK, Holds, HoldsToken, Row
      <3> HIDE DEF fp
      <3>5. p.retries < jobs[j].retries
        BY <3>2, <3>3 DEF DecisionInv, DecisionOK
      <3> QED
        BY <3>4, <3>5
    <2> QED
      BY <1>4, <2>5, <2>6, ProcessorModes
  <1> QED
    BY <1>1, <1>2, <1>3, <1>4, ThreadMoves

\* Every step keeps the invariant on decisions.
LEMMA NextDecision ==
  ASSUME Inv, ExecInv, DecisionInv, [Next]_vars
  PROVE  DecisionInv'
  <1>1. \A d \in decisions' : DecisionOK(d)'
    BY NextDecisions
  <1>2. \A w \in Workers : ModeOK(proc[w])'
    BY NextModes
  <1>3. DeferredMeansTransitioned'
    BY NextDeferred DEF DeferredMeansTransitioned, HoldsToken
  <1> QED
    BY <1>1, <1>2, <1>3 DEF DecisionInv

\* A replayed decision never leaves a job RUNNING under the claim of the worker
\* that was told of a pause or a retry.
THEOREM LifecycleDeferred == Spec => []DeferredMeansTransitioned
  <1>1. Init => DecisionInv
    <2> SUFFICES ASSUME Init PROVE DecisionInv
      OBVIOUS
    <2>1. decisions = {} /\ \A w \in Workers : proc[w].pc = "off"
      BY NoProcTyped DEF Init
    <2> QED
      BY <2>1 DEF DecisionInv, ModeOK, Holds, DeferredMeansTransitioned
  <1>2. Inv /\ ExecInv /\ DecisionInv /\ [Next]_vars => DecisionInv'
    BY NextDecision
  <1>3. DecisionInv => DeferredMeansTransitioned
    BY DEF DecisionInv
  <1> QED
    BY <1>1, <1>2, <1>3, ExecInvariance, PTL DEF Spec
=============================================================================
