----------------------- MODULE InvocationLedger_proofs -----------------------
(***************************************************************************)
(* Theorems about InvocationLedger, for any number of callers and attempts *)
(* and any caps: workers that lose the job's claim in the middle of a      *)
(* provider call, late answers, takeovers and lost inserts included.       *)
(***************************************************************************)
EXTENDS InvocationLedger, SequenceTheorems, TLAPS

-----------------------------------------------------------------------------
(* The inductive invariant *)

\* A call under way is about an attempt of its own caller.  It is the attempt
\* that the tables hold open, or its deadline passed before it was superseded.
CallsOK ==
    \A c \in Callers : call[c].pc = "calling" =>
        /\ attempts[call[c].n].by = c
        /\ call[c].n = Len(attempts) => Latest.status = "STARTED"
        /\ call[c].n # Len(attempts) => attempts[call[c].n].late

\* The calls of an MCP client belong to no job.
ClaimOK == kind = "mcp" => ~claim.live

Inv == TypeOK /\ LedgerAgrees /\ ReturnsCommittedOutput /\ CallsOK /\ ClaimOK

CallRecord == [pc : Pcs, round : Nat, n : Nat, out : Nat \cup {None}]

-----------------------------------------------------------------------------
(* The rows of the ledger *)

\* Attempts are numbered from 1, and the latest has the highest number.
LEMMA AttemptTyped ==
  ASSUME attempts \in Seq(Attempt)
  PROVE  /\ Len(attempts) \in Nat
         /\ \A i : i \in DOMAIN attempts <=> i \in 1 .. Len(attempts)
         /\ HasAttempt <=> Len(attempts) # 0
         /\ HasAttempt => Len(attempts) \in 1 .. Len(attempts) /\ Latest \in Attempt
         /\ \A i \in 1 .. Len(attempts) : attempts[i] \in Attempt
  <1>1. /\ Len(attempts) \in Nat
        /\ \A i : i \in DOMAIN attempts <=> i \in 1 .. Len(attempts)
    BY LenProperties
  <1>2. HasAttempt <=> Len(attempts) # 0
    BY EmptySeq DEF HasAttempt
  <1>3. \A i \in 1 .. Len(attempts) : attempts[i] \in Attempt
    BY ElementOfSeq
  <1> QED
    BY <1>1, <1>2, <1>3 DEF Latest

\* Rewriting one attempt keeps the number and the others.
LEMMA ReplaceEffect ==
  ASSUME attempts \in Seq(Attempt), NEW n \in 1 .. Len(attempts), NEW row \in Attempt
  PROVE  LET as == [attempts EXCEPT ![n] = row]
         IN  /\ as \in Seq(Attempt) /\ Len(as) = Len(attempts)
             /\ as[n] = row
             /\ \A i \in 1 .. Len(attempts) : i # n => as[i] = attempts[i]
  BY ExceptSeq

\* fail_attempt changes the status and the error of the latest attempt.
LEMMA FailedEffect ==
  ASSUME attempts \in Seq(Attempt), HasAttempt, NEW error \in ErrorClasses
  PROVE  LET as == FailedAs(error)
         IN  /\ as \in Seq(Attempt) /\ Len(as) = Len(attempts)
             /\ as[Len(attempts)].status = "FAILED"
             /\ as[Len(attempts)].by = Latest.by /\ as[Len(attempts)].late = Latest.late
             /\ \A i \in 1 .. Len(attempts) : i # Len(attempts) => as[i] = attempts[i]
  <1> DEFINE row == [Latest EXCEPT !.status = "FAILED", !.error = error]
  <1>1. Len(attempts) \in 1 .. Len(attempts) /\ Latest \in Attempt
    BY AttemptTyped
  <1>2. /\ row \in Attempt /\ row.status = "FAILED"
        /\ row.by = Latest.by /\ row.late = Latest.late
    BY <1>1 DEF Attempt
  <1>3. FailedAs(error) = [attempts EXCEPT ![Len(attempts)] = row]
    BY DEF FailedAs, Latest
  <1> QED
    BY <1>1, <1>2, <1>3, ReplaceEffect

\* complete_attempt changes the status of one attempt.
LEMMA AnsweredEffect ==
  ASSUME attempts \in Seq(Attempt), NEW n \in 1 .. Len(attempts)
  PROVE  LET as == Answered(n)
         IN  /\ as \in Seq(Attempt) /\ Len(as) = Len(attempts)
             /\ as[n].status = "SUCCEEDED"
             /\ as[n].by = attempts[n].by /\ as[n].late = attempts[n].late
             /\ \A i \in 1 .. Len(attempts) : i # n => as[i] = attempts[i]
  <1> DEFINE row == [attempts[n] EXCEPT !.status = "SUCCEEDED"]
  <1>1. attempts[n] \in Attempt
    BY ElementOfSeq
  <1>2. /\ row \in Attempt /\ row.status = "SUCCEEDED"
        /\ row.by = attempts[n].by /\ row.late = attempts[n].late
    BY <1>1 DEF Attempt
  <1>3. Answered(n) = [attempts EXCEPT ![n] = row]
    BY DEF Answered
  <1> QED
    BY <1>2, <1>3, ReplaceEffect

\* A takeover fails the latest attempt if it is still started, and begin_attempt
\* adds one with the next number.
LEMMA BegunEffect ==
  ASSUME NEW rows \in Seq(Attempt), NEW c \in Callers
  PROVE  LET as == Begun(c, rows)
         IN  /\ as \in Seq(Attempt) /\ Len(as) = Len(rows) + 1
             /\ as[Len(rows) + 1].status = "STARTED" /\ as[Len(rows) + 1].by = c
             /\ \A i \in 1 .. Len(rows) : as[i] = rows[i]
  <1> DEFINE row == [status |-> "STARTED", late |-> FALSE, error |-> "none", by |-> c]
  <1>1. row \in Attempt
    BY DEF Attempt, ErrorClasses
  <1> QED
    BY <1>1, LenProperties, AppendProperties DEF Begun

LEMMA SupersededEffect ==
  ASSUME attempts \in Seq(Attempt), LedgerAgrees, invocation.status # "SUCCEEDED"
  PROVE  /\ Superseded \in Seq(Attempt) /\ Len(Superseded) = Len(attempts)
         /\ \A i \in 1 .. Len(attempts) :
              /\ Superseded[i].status = "FAILED"
              /\ Superseded[i].by = attempts[i].by /\ Superseded[i].late = attempts[i].late
              /\ i # Len(attempts) => Superseded[i] = attempts[i]
  <1>1. CASE invocation.status = "IN_PROGRESS" /\ HasAttempt /\ Latest.status = "STARTED"
    <2>1. Superseded = FailedAs("stale") /\ "stale" \in ErrorClasses
      BY <1>1 DEF Superseded, ErrorClasses
    <2>2. \A i \in 1 .. Len(attempts) : i # Len(attempts) => attempts[i].status = "FAILED"
      BY AttemptTyped DEF LedgerAgrees
    <2> DEFINE as == FailedAs("stale")
    <2>3. /\ as \in Seq(Attempt) /\ Len(as) = Len(attempts)
          /\ as[Len(attempts)].status = "FAILED"
          /\ as[Len(attempts)].by = Latest.by /\ as[Len(attempts)].late = Latest.late
          /\ \A i \in 1 .. Len(attempts) : i # Len(attempts) => as[i] = attempts[i]
      BY <1>1, <2>1, FailedEffect
    <2> HIDE DEF as
    <2>4. Superseded = as
      BY <2>1 DEF as
    <2> QED
      BY <2>2, <2>3, <2>4 DEF Latest
  <1>2. CASE ~(invocation.status = "IN_PROGRESS" /\ HasAttempt /\ Latest.status = "STARTED")
    <2>1. Superseded = attempts
      BY <1>2 DEF Superseded
    <2>2. HasAttempt => Latest.status = "FAILED"
      BY <1>2, AttemptTyped DEF LedgerAgrees, Attempt
    <2> QED
      BY <2>1, <2>2, AttemptTyped DEF LedgerAgrees, Latest
  <1> QED
    BY <1>1, <1>2

-----------------------------------------------------------------------------
(* Steps that leave the ledger alone *)

\* A caller goes elsewhere, with no output or with the one on record.
LEMMA OnlyCallMoves ==
  ASSUME Inv, NEW c \in Callers, NEW x \in CallRecord,
         call' = [call EXCEPT ![c] = x],
         UNCHANGED <<kind, invocation, attempts>>,
         claim' \in [by : Callers \cup {None}, live : BOOLEAN],
         kind = "mcp" => claim' = claim,
         x.pc # "calling",
         x.out # None => invocation = Row("SUCCEEDED", x.out)
  PROVE  Inv'
  <1>1. call' \in [Callers -> CallRecord]
    BY DEF Inv, TypeOK, CallRecord
  <1>2. call'[c] = x /\ \A d \in Callers : d # c => call'[d] = call[d]
    BY DEF Inv, TypeOK
  <1>3. TypeOK'
    BY <1>1, <1>2 DEF Inv, TypeOK, CallRecord
  <1>4. LedgerAgrees'
    BY DEF Inv, LedgerAgrees, HasAttempt, Latest
  <1>5. ReturnsCommittedOutput'
    BY <1>2 DEF Inv, ReturnsCommittedOutput, Row
  <1>6. CallsOK'
    BY <1>2 DEF Inv, CallsOK, Latest
  <1>7. ClaimOK'
    BY DEF Inv, ClaimOK
  <1> QED
    BY <1>3, <1>4, <1>5, <1>6, <1>7 DEF Inv

\* A round that ends in an error leaves the caller without an output.
LEMMA EndsEffect ==
  ASSUME Inv, NEW c \in Callers, NEW error, EndsWith(c, error)
  PROVE  \E x \in CallRecord :
           call' = [call EXCEPT ![c] = x] /\ x.pc # "calling" /\ x.out = None
  <1>1. call[c].round \in Nat
    BY DEF Inv, TypeOK
  <1>2. Call("lookup", call[c].round + 1, 0, None) \in CallRecord /\ Ready \in CallRecord
    BY <1>1 DEF CallRecord, Call, Ready, Pcs
  <1>3. \/ call' = [call EXCEPT ![c] = Call("lookup", call[c].round + 1, 0, None)]
        \/ call' = [call EXCEPT ![c] = Ready]
    BY DEF EndsWith, NextRound, Raises
  <1>4. /\ Call("lookup", call[c].round + 1, 0, None).pc # "calling"
        /\ Call("lookup", call[c].round + 1, 0, None).out = None
        /\ Ready.pc # "calling" /\ Ready.out = None
    BY DEF Call, Ready
  <1> QED
    BY <1>2, <1>3, <1>4

LEMMA EndsKeepsInv ==
  ASSUME Inv, NEW c \in Callers, NEW error, EndsWith(c, error),
         UNCHANGED <<kind, invocation, attempts, claim>>
  PROVE  Inv'
  <1>1. claim \in [by : Callers \cup {None}, live : BOOLEAN]
    BY DEF Inv, TypeOK
  <1> QED
    BY <1>1, EndsEffect, OnlyCallMoves

LEMMA ClaimJobKeepsInv ==
  ASSUME Inv, NEW c \in Callers, ClaimJob(c)
  PROVE  Inv'
  <1>1. Ready \in CallRecord /\ Ready.pc # "calling" /\ Ready.out = None
    BY DEF CallRecord, Call, Ready, Pcs
  <1> QED
    BY <1>1, OnlyCallMoves DEF ClaimJob

LEMMA LeaveJobKeepsInv ==
  ASSUME Inv, NEW c \in Callers, LeaveJob(c)
  PROVE  Inv'
  <1>1. Off \in CallRecord /\ Off.pc # "calling" /\ Off.out = None
    BY DEF CallRecord, Call, Off, Pcs
  <1>2. claim' \in [by : Callers \cup {None}, live : BOOLEAN]
    BY DEF LeaveJob, Inv, TypeOK
  <1> QED
    BY <1>1, <1>2, OnlyCallMoves DEF LeaveJob

LEMMA CrashKeepsInv ==
  ASSUME Inv, NEW c \in Callers, Crash(c)
  PROVE  Inv'
  <1>1. Off \in CallRecord /\ Off.pc # "calling" /\ Off.out = None
    BY DEF CallRecord, Call, Off, Pcs
  <1> QED
    BY <1>1, OnlyCallMoves DEF Crash, Inv, TypeOK

LEMMA InvokeKeepsInv ==
  ASSUME Inv, NEW c \in Callers, ModelInvoke(c) \/ ToolInvoke(c) \/ Aborts(c)
  PROVE  Inv'
  <1>1. /\ Call("lookup", 1, 0, None) \in CallRecord
        /\ Call("replay", 1, 0, None) \in CallRecord
        /\ Ready \in CallRecord
    BY DEF CallRecord, Call, Ready, Pcs
  <1>2. \E x \in {Call("lookup", 1, 0, None), Call("replay", 1, 0, None), Ready} :
          call' = [call EXCEPT ![c] = x]
    BY DEF ModelInvoke, ToolInvoke, Aborts, Raises
  <1>3. \A x \in {Call("lookup", 1, 0, None), Call("replay", 1, 0, None), Ready} :
          x.pc # "calling" /\ x.out = None
    BY DEF Call, Ready
  <1>4. UNCHANGED <<kind, invocation, attempts, claim>>
    BY DEF ModelInvoke, ToolInvoke, Aborts
  <1> QED
    BY <1>1, <1>2, <1>3, <1>4, OnlyCallMoves DEF Inv, TypeOK

LEMMA ReturnsKeepsInv ==
  ASSUME Inv, NEW c \in Callers, invocation.status = "SUCCEEDED",
         Returns(c, invocation.output),
         UNCHANGED <<kind, invocation, attempts, claim>>
  PROVE  Inv'
  <1> DEFINE x == Call("ready", 0, 0, invocation.output)
  <1>1. x \in CallRecord /\ x.pc # "calling" /\ x.out = invocation.output
    BY DEF Inv, TypeOK, CallRecord, Call, Pcs
  <1>2. invocation = Row("SUCCEEDED", invocation.output)
    BY DEF Inv, TypeOK, Row
  <1> QED
    BY <1>1, <1>2, OnlyCallMoves DEF Returns, Inv, TypeOK

LEMMA GotoKeepsInv ==
  ASSUME Inv, NEW c \in Callers, NEW pc \in Pcs \ {"calling"}, Goto(c, pc),
         UNCHANGED <<kind, invocation, attempts, claim>>
  PROVE  Inv'
  <1> DEFINE x == [call[c] EXCEPT !.pc = pc]
  <1>1. call[c] \in CallRecord
    BY DEF Inv, TypeOK, CallRecord
  <1>2. x \in CallRecord /\ x.pc # "calling" /\ x.out = call[c].out
    BY <1>1 DEF CallRecord
  <1>3. x.out # None => invocation = Row("SUCCEEDED", x.out)
    BY <1>2 DEF Inv, ReturnsCommittedOutput, Row
  <1>4. call' = [call EXCEPT ![c] = x]
    BY DEF Goto
  <1> QED
    BY <1>2, <1>3, <1>4, OnlyCallMoves DEF Inv, TypeOK

LEMMA TryReplayKeepsInv ==
  ASSUME Inv, NEW c \in Callers, TryReplay(c)
  PROVE  Inv'
  BY ReturnsKeepsInv, GotoKeepsInv DEF TryReplay, Pcs

LEMMA LeaseExpiresKeepsInv ==
  ASSUME Inv, LeaseExpires
  PROVE  Inv'
  <1>1. claim' \in [by : Callers \cup {None}, live : BOOLEAN] /\ ~claim'.live
    BY DEF Inv, TypeOK, LeaseExpires
  <1> QED
    BY <1>1 DEF Inv, TypeOK, LeaseExpires, LedgerAgrees, HasAttempt, Latest,
      ReturnsCommittedOutput, CallsOK, ClaimOK

\* A deadline passes: only the mark on the latest attempt changes.
LEMMA DeadlinePassesKeepsInv ==
  ASSUME Inv, DeadlinePasses
  PROVE  /\ Inv'
         /\ Len(attempts') = Len(attempts)
         /\ \A i \in 1 .. Len(attempts) : attempts'[i].status = attempts[i].status
  <1> DEFINE last == Len(attempts)
             row == [Latest EXCEPT !.late = TRUE]
  <1>1. attempts \in Seq(Attempt) /\ last \in 1 .. last /\ Latest \in Attempt
    BY AttemptTyped DEF Inv, TypeOK, DeadlinePasses
  <1>2. /\ row \in Attempt /\ row.late
        /\ row.status = Latest.status /\ row.by = Latest.by
    BY <1>1 DEF Attempt
  <1>3. attempts' = [attempts EXCEPT ![last] = row]
    BY DEF DeadlinePasses, Latest
  <1>4. /\ attempts' \in Seq(Attempt) /\ Len(attempts') = last
        /\ attempts'[last] = row
        /\ \A i \in 1 .. last : i # last => attempts'[i] = attempts[i]
    BY <1>1, <1>2, <1>3, ReplaceEffect
  <1>5. /\ \A i \in 1 .. last : attempts'[i].status = attempts[i].status
        /\ \A i \in 1 .. last : attempts'[i].by = attempts[i].by
        /\ \A i \in 1 .. last : attempts[i].late => attempts'[i].late
    BY <1>2, <1>4 DEF Latest
  <1>6. TypeOK'
    BY <1>4 DEF Inv, TypeOK, DeadlinePasses
  <1>7. LedgerAgrees'
    <2>1. /\ HasAttempt' /\ HasAttempt /\ Latest'.status = Latest.status
          /\ \A i : i \in DOMAIN attempts' <=> i \in DOMAIN attempts
      BY <1>1, <1>3, <1>4, <1>5, AttemptTyped, EmptySeq DEF HasAttempt, Latest
    <2> QED
      BY <1>1, <1>4, <1>5, <2>1, AttemptTyped DEF Inv, LedgerAgrees, DeadlinePasses
  <1>8. ReturnsCommittedOutput' /\ ClaimOK'
    BY DEF Inv, ReturnsCommittedOutput, ClaimOK, DeadlinePasses
  <1>9. CallsOK'
    BY <1>1, <1>4, <1>5 DEF Inv, TypeOK, CallsOK, Latest, DeadlinePasses
  <1> QED
    BY <1>4, <1>5, <1>6, <1>7, <1>8, <1>9 DEF Inv

-----------------------------------------------------------------------------
(* Steps that write the ledger *)

\* TX1 begins an attempt.  The call it supersedes, if there is one, is late.
LEMMA BeginsAttempt ==
  ASSUME Inv, NEW c \in Callers, call[c].pc # "calling",
         ~Replays, ~InFlight,
         invocation' = Row("IN_PROGRESS", None),
         attempts' = Begun(c, Superseded),
         call' = [call EXCEPT ![c] = [@ EXCEPT !.pc = "calling", !.n = Len(attempts) + 1]],
         UNCHANGED <<kind, claim>>
  PROVE  Inv'
  <1> DEFINE last == Len(attempts)
  <1>1. attempts \in Seq(Attempt) /\ last \in Nat /\ LedgerAgrees
    BY AttemptTyped DEF Inv, TypeOK
  <1>2. /\ Superseded \in Seq(Attempt) /\ Len(Superseded) = last
        /\ \A i \in 1 .. last :
             /\ Superseded[i].status = "FAILED"
             /\ Superseded[i].by = attempts[i].by /\ Superseded[i].late = attempts[i].late
    BY <1>1, SupersededEffect DEF Replays
  <1>3. /\ attempts' \in Seq(Attempt) /\ Len(attempts') = last + 1
        /\ attempts'[last + 1].status = "STARTED" /\ attempts'[last + 1].by = c
        /\ \A i \in 1 .. last : attempts'[i] = Superseded[i]
    BY <1>2, BegunEffect
  <1>4. \A i \in 1 .. last :
          /\ attempts'[i].status = "FAILED"
          /\ attempts'[i].by = attempts[i].by /\ attempts'[i].late = attempts[i].late
    BY <1>2, <1>3
  <1>5. /\ call' \in [Callers -> CallRecord]
        /\ call'[c].pc = "calling" /\ call'[c].n = last + 1 /\ call'[c].out = call[c].out
        /\ \A d \in Callers : d # c => call'[d] = call[d]
    <2> DEFINE x == [call[c] EXCEPT !.pc = "calling", !.n = Len(attempts) + 1]
    <2>1. call[c] \in CallRecord /\ call \in [Callers -> CallRecord]
      BY DEF Inv, TypeOK, CallRecord
    <2>2. /\ x \in CallRecord
          /\ x.pc = "calling" /\ x.n = last + 1 /\ x.out = call[c].out
      <3>1. "calling" \in Pcs /\ Len(attempts) + 1 \in Nat
        BY <1>1 DEF Pcs
      <3> QED
        BY <2>1, <3>1 DEF CallRecord
    <2>3. call' = [call EXCEPT ![c] = x]
      OBVIOUS
    <2> HIDE DEF x
    <2> QED
      BY <2>1, <2>2, <2>3
  <1>6. TypeOK'
    <2>1. invocation' \in [status : Statuses, output : Nat \cup {None}]
      BY DEF Row, Statuses
    <2> QED
      BY <1>1, <1>3, <1>5, <2>1 DEF Inv, TypeOK, CallRecord
  <1>7. LedgerAgrees'
    <2>1. HasAttempt' /\ Latest'.status = "STARTED"
      BY <1>1, <1>3, EmptySeq DEF HasAttempt, Latest
    <2>2. \A i \in DOMAIN attempts' : i < Len(attempts') => attempts'[i].status = "FAILED"
      BY <1>1, <1>3, <1>4
    <2> QED
      BY <2>1, <2>2 DEF LedgerAgrees, Row
  <1>8. ReturnsCommittedOutput'
    BY <1>5 DEF Inv, ReturnsCommittedOutput, Replays
  <1>9. CallsOK'
    <2> SUFFICES ASSUME NEW d \in Callers, call'[d].pc = "calling"
                 PROVE  /\ attempts'[call'[d].n].by = d
                        /\ call'[d].n = last + 1 => attempts'[last + 1].status = "STARTED"
                        /\ call'[d].n # last + 1 => attempts'[call'[d].n].late
      BY <1>3 DEF CallsOK, Latest
    <2>1. CASE d = c
      BY <1>3, <1>5, <2>1
    <2>2. CASE d # c
      <3>1. call'[d] = call[d] /\ call[d].pc = "calling" /\ call[d].n \in 1 .. last
        BY <1>5, <2>2 DEF Inv, TypeOK
      <3>2. attempts[call[d].n].by = d
        BY <3>1 DEF Inv, CallsOK
      <3>3. attempts[call[d].n].late
        <4>1. CASE call[d].n # last
          BY <3>1, <4>1 DEF Inv, CallsOK
        <4>2. CASE call[d].n = last
          <5>1. HasAttempt /\ Latest.status = "STARTED"
            BY <1>1, <3>1, <4>2, AttemptTyped DEF Inv, CallsOK
          <5>2. invocation.status = "IN_PROGRESS" /\ CanReclaim
            BY <1>1, <5>1 DEF LedgerAgrees, InFlight
          <5> QED
            BY <4>2, <5>1, <5>2 DEF CanReclaim, Latest
        <4> QED
          BY <4>1, <4>2
      <3> QED
        BY <1>1, <1>4, <3>1, <3>2, <3>3
    <2> QED
      BY <2>1, <2>2
  <1>10. ClaimOK'
    BY DEF Inv, ClaimOK
  <1> QED
    BY <1>6, <1>7, <1>8, <1>9, <1>10 DEF Inv

\* TX2 settles the latest attempt and the invocation, and its caller is through.
LEMMA SettlesAttempt ==
  ASSUME Inv, NEW c \in Callers, call[c].pc = "calling", StillActive(call[c].n),
         NEW status \in {"SUCCEEDED", "FAILED"}, NEW x \in CallRecord,
         attempts' \in Seq(Attempt), Len(attempts') = Len(attempts),
         attempts'[Len(attempts)].status = status,
         \A i \in 1 .. Len(attempts) : i # Len(attempts) => attempts'[i] = attempts[i],
         invocation' = Row(status, IF status = "SUCCEEDED" THEN Len(attempts) ELSE None),
         call' = [call EXCEPT ![c] = x],
         x.pc # "calling",
         x.out # None => status = "SUCCEEDED" /\ x.out = Len(attempts),
         UNCHANGED <<kind, claim>>
  PROVE  Inv'
  <1> DEFINE last == Len(attempts)
  <1>1. attempts \in Seq(Attempt) /\ last \in Nat /\ last \in 1 .. last /\ LedgerAgrees
    BY AttemptTyped DEF Inv, TypeOK, StillActive
  <1>2. call[c].n = last /\ Latest.status = "STARTED" /\ Latest.by = c
    BY DEF Inv, StillActive, CallsOK, Latest
  <1>3. /\ call' \in [Callers -> CallRecord] /\ call'[c] = x
        /\ \A d \in Callers : d # c => call'[d] = call[d]
    BY DEF Inv, TypeOK, CallRecord
  <1>4. ASSUME NEW d \in Callers, call'[d].pc = "calling"
        PROVE  /\ d # c /\ call'[d] = call[d] /\ call[d].n \in 1 .. last /\ call[d].n # last
               /\ attempts[call[d].n].by = d /\ attempts[call[d].n].late
    <2>1. d # c /\ call'[d] = call[d]
      BY <1>3, <1>4
    <2>2. call[d].n \in 1 .. last /\ attempts[call[d].n].by = d
      BY <1>4, <2>1 DEF Inv, TypeOK, CallsOK
    <2>3. call[d].n # last
      BY <1>2, <2>1, <2>2 DEF Latest
    <2> QED
      BY <1>4, <2>1, <2>2, <2>3 DEF Inv, CallsOK
  <1>5. TypeOK'
    <2>1. invocation' \in [status : Statuses, output : Nat \cup {None}]
      BY <1>1 DEF Row, Statuses
    <2> QED
      BY <1>3, <1>4, <2>1 DEF Inv, TypeOK, CallRecord
  <1>6. LedgerAgrees'
    <2>1. HasAttempt' /\ Latest'.status = status
      BY <1>1, EmptySeq DEF HasAttempt, Latest
    <2>2. \A i \in DOMAIN attempts' : i < Len(attempts') => attempts'[i].status = "FAILED"
      <3> SUFFICES ASSUME NEW i \in DOMAIN attempts', i < last
                   PROVE  attempts'[i].status = "FAILED"
        OBVIOUS
      <3>1. i \in 1 .. last /\ i # last /\ i \in DOMAIN attempts
        BY <1>1
      <3> QED
        BY <1>1, <3>1 DEF LedgerAgrees
    <2> QED
      BY <2>1, <2>2 DEF LedgerAgrees, Row
  <1>7. ReturnsCommittedOutput'
    <2>1. invocation.status = "IN_PROGRESS"
      BY <1>1, <1>2, AttemptTyped DEF LedgerAgrees
    <2>2. \A d \in Callers : call[d].out = None
      BY <2>1 DEF Inv, ReturnsCommittedOutput
    <2> QED
      BY <1>3, <2>2 DEF ReturnsCommittedOutput, Row
  <1>8. CallsOK'
    BY <1>4 DEF CallsOK, Latest
  <1>9. ClaimOK'
    BY DEF Inv, ClaimOK
  <1> QED
    BY <1>5, <1>6, <1>7, <1>8, <1>9 DEF Inv

LEMMA LookupKeepsInv ==
  ASSUME Inv, NEW c \in Callers, Lookup(c)
  PROVE  Inv'
  <1>1. CASE Replays /\ Returns(c, invocation.output) /\ UNCHANGED <<invocation, attempts>>
    BY <1>1, ReturnsKeepsInv DEF Lookup, Replays
  <1>2. CASE /\ EndsWith(c, "inprogress") \/ EndsWith(c, "malformed")
             /\ UNCHANGED <<invocation, attempts>>
    BY <1>2, EndsKeepsInv DEF Lookup
  <1>3. CASE /\ ~Replays /\ ~InFlight
             /\ invocation' = Reopened
             /\ attempts' = Begun(c, Superseded)
             /\ call' = [call EXCEPT ![c] = [@ EXCEPT !.pc = "calling", !.n = Len(attempts) + 1]]
    BY <1>3, BeginsAttempt DEF Lookup, Reopened
  <1>4. CASE Goto(c, "create") /\ UNCHANGED <<invocation, attempts>>
    BY <1>4, GotoKeepsInv DEF Lookup, Pcs
  <1> QED
    BY <1>1, <1>2, <1>3, <1>4 DEF Lookup

LEMMA CreateKeepsInv ==
  ASSUME Inv, NEW c \in Callers, Create(c)
  PROVE  Inv'
  <1>1. CASE /\ invocation.status = "absent"
             /\ invocation' = Created
             /\ attempts' = Begun(c, attempts)
             /\ call' = [call EXCEPT ![c] = [@ EXCEPT !.pc = "calling", !.n = 1]]
    <2>1. ~HasAttempt /\ Len(attempts) = 0
      BY <1>1, AttemptTyped DEF Inv, TypeOK, LedgerAgrees
    <2>2. Superseded = attempts
      BY <1>1 DEF Superseded
    <2>3. ~Replays /\ ~InFlight
      BY <1>1 DEF Replays, InFlight
    <2>4. Len(attempts) + 1 = 1
      BY <2>1
    <2>5. call' = [call EXCEPT ![c] = [@ EXCEPT !.pc = "calling", !.n = Len(attempts) + 1]]
      BY <1>1, <2>4
    <2>6. attempts' = Begun(c, Superseded) /\ invocation' = Row("IN_PROGRESS", None)
      BY <1>1, <2>2 DEF Created
    <2> QED
      BY <2>3, <2>5, <2>6, BeginsAttempt DEF Create
  <1>2. CASE EndsWith(c, "inprogress") /\ UNCHANGED <<invocation, attempts>>
    BY <1>2, EndsKeepsInv DEF Create
  <1> QED
    BY <1>1, <1>2 DEF Create

LEMMA SucceedsKeepsInv ==
  ASSUME Inv, NEW c \in Callers, Succeeds(c)
  PROVE  Inv'
  <1> DEFINE n == call[c].n
  <1>1. CASE StillActive(n) /\ attempts' = Answered(n) /\ invocation' = Finished(n) /\ Returns(c, n)
    <2>1. attempts \in Seq(Attempt) /\ n \in 1 .. Len(attempts) /\ n = Len(attempts) /\ n \in Nat
      BY <1>1 DEF Inv, TypeOK, Succeeds, StillActive
    <2>2. /\ attempts' \in Seq(Attempt) /\ Len(attempts') = Len(attempts)
          /\ attempts'[Len(attempts)].status = "SUCCEEDED"
          /\ \A i \in 1 .. Len(attempts) : i # Len(attempts) => attempts'[i] = attempts[i]
      BY <1>1, <2>1, AnsweredEffect
    <2> DEFINE x == Call("ready", 0, 0, n)
    <2>3. /\ x \in CallRecord /\ x.pc # "calling" /\ x.out = n
          /\ call' = [call EXCEPT ![c] = x]
      BY <1>1, <2>1 DEF CallRecord, Call, Pcs, Returns
    <2>4. invocation' = Row("SUCCEEDED", Len(attempts))
      BY <1>1, <2>1 DEF Finished
    <2> HIDE DEF x
    <2> QED
      BY <1>1, <2>1, <2>2, <2>3, <2>4, SettlesAttempt DEF Succeeds
  <1>2. CASE EndsWith(c, "lost") /\ UNCHANGED <<invocation, attempts>>
    BY <1>2, EndsKeepsInv DEF Succeeds
  <1> QED
    BY <1>1, <1>2 DEF Succeeds

LEMMA FailsKeepsInv ==
  ASSUME Inv, NEW c \in Callers, Fails(c)
  PROVE  Inv'
  <1> DEFINE n == call[c].n
  <1>1. CASE /\ StillActive(n)
             /\ \E error \in ProviderErrors :
                  /\ attempts' = FailedAs(ErrorClass(error))
                  /\ invocation' = Failed
                  /\ EndsWith(c, error)
    <2>1. PICK error \in ProviderErrors :
            /\ attempts' = FailedAs(ErrorClass(error))
            /\ invocation' = Failed
            /\ EndsWith(c, error)
      BY <1>1
    <2>2. ErrorClass(error) \in ErrorClasses
      BY DEF ErrorClass, ErrorClasses
    <2>3. attempts \in Seq(Attempt) /\ HasAttempt
      BY <1>1, AttemptTyped DEF Inv, TypeOK, Fails
    <2>4. /\ attempts' \in Seq(Attempt) /\ Len(attempts') = Len(attempts)
          /\ attempts'[Len(attempts)].status = "FAILED"
          /\ \A i \in 1 .. Len(attempts) : i # Len(attempts) => attempts'[i] = attempts[i]
      BY <2>1, <2>2, <2>3, FailedEffect
    <2>5. PICK x \in CallRecord :
            call' = [call EXCEPT ![c] = x] /\ x.pc # "calling" /\ x.out = None
      BY <2>1, EndsEffect
    <2>6. invocation' = Row("FAILED", None)
      BY <2>1 DEF Failed
    <2> QED
      BY <1>1, <2>4, <2>5, <2>6, SettlesAttempt DEF Fails
  <1>2. CASE EndsWith(c, "lost") /\ UNCHANGED <<invocation, attempts>>
    BY <1>2, EndsKeepsInv DEF Fails
  <1> QED
    BY <1>1, <1>2 DEF Fails

-----------------------------------------------------------------------------
(* The invariant *)

LEMMA InitInv == Init => Inv
  <1> SUFFICES ASSUME Init PROVE Inv
    OBVIOUS
  <1>1. attempts = <<>> /\ Len(attempts) = 0 /\ attempts \in Seq(Attempt)
    BY EmptySeq DEF Init
  <1>2. \A c \in Callers : call[c] \in {Ready, Off}
    BY DEF Init
  <1>3. /\ Ready \in CallRecord /\ Off \in CallRecord
        /\ Ready.pc # "calling" /\ Off.pc # "calling"
        /\ Ready.out = None /\ Off.out = None
    BY DEF CallRecord, Ready, Off, Call, Pcs
  <1>4. \A c \in Callers : call[c].pc # "calling" /\ call[c].out = None
    BY <1>2, <1>3
  <1>5. TypeOK
    <2>1. call \in [Callers -> CallRecord]
      BY <1>3 DEF Init
    <2> QED
      BY <1>1, <1>4, <2>1 DEF Init, TypeOK, CallRecord, Row, Statuses
  <1>6. LedgerAgrees
    BY <1>1 DEF Init, LedgerAgrees, HasAttempt, Row
  <1> QED
    BY <1>4, <1>5, <1>6 DEF Init, Inv, ReturnsCommittedOutput, CallsOK, ClaimOK

LEMMA NextInv == Inv /\ [Next]_vars => Inv'
  <1> SUFFICES ASSUME Inv, [Next]_vars PROVE Inv'
    OBVIOUS
  <1>1. CASE UNCHANGED vars
    BY <1>1 DEF vars, Inv, TypeOK, LedgerAgrees, HasAttempt, Latest,
      ReturnsCommittedOutput, CallsOK, ClaimOK
  <1>2. CASE LeaseExpires
    BY <1>2, LeaseExpiresKeepsInv
  <1>3. CASE DeadlinePasses
    BY <1>3, DeadlinePassesKeepsInv
  <1>4. ASSUME NEW c \in Callers,
               \/ ClaimJob(c) \/ LeaveJob(c) \/ Crash(c)
               \/ ModelInvoke(c) \/ ToolInvoke(c) \/ TryReplay(c) \/ Lookup(c) \/ Create(c)
               \/ Succeeds(c) \/ Fails(c) \/ Aborts(c)
        PROVE  Inv'
    BY <1>4, ClaimJobKeepsInv, LeaveJobKeepsInv, CrashKeepsInv, InvokeKeepsInv,
      TryReplayKeepsInv, LookupKeepsInv, CreateKeepsInv, SucceedsKeepsInv, FailsKeepsInv
  <1> QED
    BY <1>1, <1>2, <1>3, <1>4 DEF Next

LEMMA LedgerInv == Spec => []Inv
  BY InitInv, NextInv, PTL DEF Spec

\* Tables, claims and callers hold values of their declared kinds, and a call
\* under way is about an attempt that exists.
THEOREM LedgerTypeCorrect == Spec => []TypeOK
  <1>1. Inv => TypeOK
    BY DEF Inv
  <1> QED
    BY <1>1, LedgerInv, PTL

\* The two tables never tell different stories, however the transactions of the
\* callers interleave with crashes, takeovers and late answers.
THEOREM LedgerTablesAgree == Spec => []LedgerAgrees
  <1>1. Inv => LedgerAgrees
    BY DEF Inv
  <1> QED
    BY <1>1, LedgerInv, PTL

\* Every output a caller is given is the one on record.
THEOREM LedgerReturnsCommitted == Spec => []ReturnsCommittedOutput
  <1>1. Inv => ReturnsCommittedOutput
    BY DEF Inv
  <1> QED
    BY <1>1, LedgerInv, PTL

\* Of two calls of one key that are under way at once one is late.
THEOREM LedgerOneCallInTime == Spec => []OneCallInTime
  <1>1. Inv => OneCallInTime
    <2> SUFFICES ASSUME Inv, NEW c \in Callers, NEW d \in Callers, c # d,
                        call[c].pc = "calling", call[d].pc = "calling"
                 PROVE  attempts[call[c].n].late \/ attempts[call[d].n].late
      BY DEF OneCallInTime
    <2>1. call[c].n # call[d].n
      BY DEF Inv, CallsOK
    <2> QED
      BY <2>1 DEF Inv, CallsOK
  <1> QED
    BY <1>1, LedgerInv, PTL

-----------------------------------------------------------------------------
(* What a step may not do *)

\* Steps that write the attempts.
LEMMA WhoWrites ==
  ASSUME Inv, [Next]_vars
  PROVE  \/ invocation' = invocation /\ attempts' = attempts
         \/ DeadlinePasses
         \/ \E c \in Callers :
              \/ Lookup(c) /\ ~Replays /\ ~InFlight /\ attempts' = Begun(c, Superseded)
              \/ Create(c) /\ invocation.status = "absent" /\ attempts' = Begun(c, attempts)
              \/ /\ call[c].pc = "calling" /\ StillActive(call[c].n) /\ call'[c] # call[c]
                 /\ \/ attempts' = Answered(call[c].n)
                    \/ \E error \in ErrorClasses : attempts' = FailedAs(error)
  <1>1. CASE UNCHANGED vars
    BY <1>1 DEF vars
  <1>2. CASE LeaseExpires
    BY <1>2 DEF LeaseExpires
  <1>3. ASSUME NEW c \in Callers,
               \/ ClaimJob(c) \/ LeaveJob(c) \/ Crash(c)
               \/ ModelInvoke(c) \/ ToolInvoke(c) \/ TryReplay(c) \/ Aborts(c)
        PROVE  invocation' = invocation /\ attempts' = attempts
    BY <1>3 DEF ClaimJob, LeaveJob, Crash, ModelInvoke, ToolInvoke, TryReplay, Aborts
  <1>4. ASSUME NEW c \in Callers, Lookup(c)
        PROVE  \/ invocation' = invocation /\ attempts' = attempts
               \/ ~Replays /\ ~InFlight /\ attempts' = Begun(c, Superseded)
    BY <1>4 DEF Lookup
  <1>5. ASSUME NEW c \in Callers, Create(c)
        PROVE  \/ invocation' = invocation /\ attempts' = attempts
               \/ invocation.status = "absent" /\ attempts' = Begun(c, attempts)
    BY <1>5 DEF Create
  <1>6. ASSUME NEW c \in Callers, Succeeds(c)
        PROVE  \/ invocation' = invocation /\ attempts' = attempts
               \/ /\ call[c].pc = "calling" /\ StillActive(call[c].n) /\ call'[c] # call[c]
                  /\ attempts' = Answered(call[c].n)
    <2>1. Returns(c, call[c].n) => call'[c].pc = "ready"
      BY DEF Returns, Call, Inv, TypeOK
    <2> QED
      BY <1>6, <2>1 DEF Succeeds
  <1>7. ASSUME NEW c \in Callers, Fails(c)
        PROVE  \/ invocation' = invocation /\ attempts' = attempts
               \/ /\ call[c].pc = "calling" /\ StillActive(call[c].n) /\ call'[c] # call[c]
                  /\ \E error \in ErrorClasses : attempts' = FailedAs(error)
    <2>1. \A error : EndsWith(c, error) => call'[c].pc # "calling"
      BY EndsEffect DEF Inv, TypeOK
    <2>2. \A error : ErrorClass(error) \in ErrorClasses
      BY DEF ErrorClass, ErrorClasses
    <2> QED
      BY <1>7, <2>1, <2>2 DEF Fails
  <1> QED
    BY <1>1, <1>2, <1>3, <1>4, <1>5, <1>6, <1>7 DEF Next

\* A committed success stops every further call: both rows stay as they are.
THEOREM LedgerSuccessIsFinal == Spec => SuccessIsFinal
  <1> DEFINE Kept == invocation.status = "SUCCEEDED" =>
                       /\ invocation' = invocation
                       /\ Len(attempts') = Len(attempts)
                       /\ \A i \in DOMAIN attempts : attempts'[i].status = attempts[i].status
  <1>1. Inv /\ [Next]_vars => Kept
    <2> SUFFICES ASSUME Inv, [Next]_vars, invocation.status = "SUCCEEDED"
                 PROVE  /\ invocation' = invocation
                        /\ Len(attempts') = Len(attempts)
                        /\ \A i \in DOMAIN attempts : attempts'[i].status = attempts[i].status
      OBVIOUS
    <2>1. attempts \in Seq(Attempt) /\ LedgerAgrees
      BY DEF Inv, TypeOK
    <2>2. \A n : ~StillActive(n)
      BY <2>1, AttemptTyped DEF LedgerAgrees, StillActive, Latest
    <2>3. CASE invocation' = invocation /\ attempts' = attempts
      BY <2>3
    <2>4. CASE DeadlinePasses
      BY <2>1, <2>4, DeadlinePassesKeepsInv, AttemptTyped DEF DeadlinePasses
    <2> QED
      BY <2>2, <2>3, <2>4, WhoWrites DEF Replays
  <1>2. Spec => [][Kept]_vars
    BY <1>1, LedgerInv, PTL DEF Spec
  <1> QED
    BY <1>2, PTL DEF SuccessIsFinal

\* Whoever holds a valid claim keeps its call, however late the provider is.
THEOREM LedgerClaimProtectsCall == Spec => ClaimProtectsCall
  <1> DEFINE Mine(c) == /\ call[c].pc = "calling" /\ claim = [by |-> c, live |-> TRUE]
                        /\ attempts[call[c].n].status = "STARTED" /\ attempts[call[c].n].by = c
             Kept == \A c \in Callers : Mine(c) =>
                        attempts'[call[c].n].status = "STARTED" \/ call'[c] # call[c]
  <1>1. Inv /\ [Next]_vars => Kept
    <2> SUFFICES ASSUME Inv, [Next]_vars, NEW c \in Callers, Mine(c), call'[c] = call[c]
                 PROVE  attempts'[call[c].n].status = "STARTED"
      OBVIOUS
    <2>1. /\ attempts \in Seq(Attempt) /\ LedgerAgrees
          /\ call[c].n \in 1 .. Len(attempts)
      BY DEF Inv, TypeOK
    <2>2. call[c].n = Len(attempts) /\ HasAttempt /\ Latest.status = "STARTED" /\ Latest.by = c
      BY <2>1, AttemptTyped DEF LedgerAgrees, Latest
    <2>3. invocation.status = "IN_PROGRESS" /\ kind # "mcp" /\ ~CanReclaim
      BY <2>1, <2>2 DEF LedgerAgrees, Inv, ClaimOK, CanReclaim, JobHasValidClaim
    <2>4. CASE attempts' = attempts
      BY <2>4
    <2>5. CASE DeadlinePasses
      BY <2>1, <2>5, DeadlinePassesKeepsInv
    <2>6. ASSUME NEW d \in Callers, call[d].pc = "calling", StillActive(call[d].n),
                 call'[d] # call[d]
          PROVE  FALSE
      <3>1. call[d].n = Len(attempts) /\ attempts[call[d].n].by = d
        BY <2>6 DEF StillActive, Inv, CallsOK
      <3> QED
        BY <2>2, <2>6, <3>1 DEF Latest
    <2> QED
      BY <2>3, <2>4, <2>5, <2>6, WhoWrites DEF InFlight
  <1>2. Spec => [][Kept]_vars
    BY <1>1, LedgerInv, PTL DEF Spec
  <1> QED
    BY <1>2, PTL DEF ClaimProtectsCall
=============================================================================
