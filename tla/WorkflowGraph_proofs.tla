------------------------ MODULE WorkflowGraph_proofs ------------------------
(***************************************************************************)
(* Proofs about the workflow graph: the verdict a thread carries is the    *)
(* recorded one on its own draft, no report without a pass or an approval  *)
(* of that very candidate, the job's counters, and the fence of the        *)
(* evaluation runs.                                                        *)
(***************************************************************************)
EXTENDS WorkflowGraph, FiniteSetTheorems, TLAPS

-----------------------------------------------------------------------------
(* The inductive invariant *)

Unchecked == {"validate", "plan", "research", "draft", "verify_citations", "evaluate"}
Undrafted == {"validate", "plan", "research", "draft"}
Modes == {"NONE", "JOB_RETRY", "REVIEW_COMPLETE"}
Busy == {"node", "begin", "grading", "deciding", "post"}

\* One evaluation per repair and one before the first: the attempt a state asks
\* for always exists, and tells which draft it is about.
Progress(st) ==
    /\ st \in GraphStates
    /\ st.rep <= MaxRepairs
    /\ st.next = "repair" => st.rep < MaxRepairs
    /\ st.att = IF st.next \in Unchecked THEN st.rep ELSE st.rep + 1
    /\ st.next \notin Undrafted => st.draft = st.rep

RowTypes ==
    [status : {"absent", "IN_PROGRESS", "SUCCEEDED", "FAILED"}, fp : Fingerprints \cup {None},
     owner : Workers \cup {None}, late : BOOLEAN, verdict : Verdicts \cup {None}]

\* The row of attempt a is about draft a - 1.
RowOK(row, a) ==
    /\ row \in RowTypes
    /\ row.status # "absent" => row.fp \in Fingerprints /\ row.fp.draft + 1 = a
    /\ row.status = "SUCCEEDED" => row.verdict \in Verdicts

\* The rows ev of an execution agree with what the state says of its verdict,
\* and a state that may end in a report has not failed a hard dimension.
Judged(ev, st) ==
    /\ st.att > 0 =>
         /\ ev[st.att].status = "SUCCEEDED" /\ ev[st.att].fp = st.fp
         /\ ev[st.att].verdict.passed = st.passed
         /\ st.next \notin Unchecked =>
              ev[st.att].fp.draft = st.draft /\ ev[st.att].fp.found = st.found
    /\ st.next \in {"await_review", "complete", "end"} => ~ev[st.att].verdict.hard

StateOK(ev, st) == Progress(st) /\ Judged(ev, st)

\* What a worker in the evaluate node has read is about the state it holds.
FingerprintOf(st, fp) ==
    /\ fp \in Fingerprints
    /\ fp.found = st.found /\ fp.draft = st.draft

RunTypes ==
    [pc : Busy \cup {"off", "open", "except"}, mode : Modes, exec : Execs \cup {None},
     st : GraphStates \cup {None}, unsaved : BOOLEAN, fp : Fingerprints \cup {None},
     counts : [rc : Nat, retries : Nat, eac : Nat] \cup {None}, transient : BOOLEAN]

RunOK(ev, r) ==
    /\ r \in RunTypes
    /\ r.pc # "off" => r.exec \in Execs
    /\ r.pc \in Busy => StateOK(ev[r.exec], r.st)
    /\ r.pc \notin Busy => r.st = None /\ ~r.unsaved
    /\ r.pc \in {"begin", "grading"} => r.st.next = "evaluate" /\ FingerprintOf(r.st, r.fp)
    /\ r.pc = "grading" => LET row == ev[r.exec][r.st.att + 1]
                           IN  row.status # "absent" /\ row.fp = r.fp
    /\ r.pc = "deciding" => /\ r.st.next = "policy"
                            /\ r.counts.rc \in Nat /\ r.st.rep <= r.counts.rc

\* After an approval a claim only completes.
ReviewPhase(r) ==
    \/ r.pc = "open" /\ r.mode = "REVIEW_COMPLETE"
    \/ r.pc = "node" /\ r.st.next = "complete"
    \/ r.pc = "post" /\ r.st.next = "end"
    \/ r.pc = "except"

JobTypes ==
    [status : {"PENDING", "RUNNING", "AWAITING_REVIEW", "COMPLETED", "FAILED"},
     by : Workers \cup {None}, live : BOOLEAN, mode : Modes, exec : Execs \cup {None},
     rc : 0 .. MaxRepairs, retries : 0 .. MaxJobRetries, eac : Nat]

JobOK ==
    /\ job \in JobTypes
    /\ job.live => job.status = "RUNNING" /\ job.by \in Workers
    /\ job.status \in {"RUNNING", "AWAITING_REVIEW"} => job.exec \in Execs
    /\ job.mode = "REVIEW_COMPLETE" => job.status # "AWAITING_REVIEW"

\* The worker with the claim works on the job's execution.
ClaimOK ==
    \A w \in Workers : job.live /\ job.by = w =>
        /\ run[w].pc # "off" /\ run[w].exec = job.exec
        /\ job.mode = "REVIEW_COMPLETE" => ReviewPhase(run[w])

\* An execution is approved once: afterwards it is completed or left behind.
ApprovalsOK ==
    /\ approvals \in [Execs -> Fingerprints \cup {None}]
    /\ \A e \in Execs : approvals[e] # None =>
         /\ job.exec \in Execs /\ e <= job.exec
         /\ e = job.exec => \/ job.mode = "REVIEW_COMPLETE"
                            \/ job.mode = "JOB_RETRY" /\ job.status = "PENDING"

RowsOK ==
    /\ evals \in [Execs -> [Attempts -> RowTypes]]
    /\ \A e \in Execs, a \in Attempts : RowOK(evals[e][a], a)

RunsOK ==
    /\ run \in [Workers -> RunTypes]
    /\ \A w \in Workers : RunOK(evals, run[w])

CkptsOK ==
    /\ ckpt \in [Execs -> GraphStates \cup {None}]
    /\ \A e \in Execs : ckpt[e] = None \/ StateOK(evals[e], ckpt[e])

\* The run that judged the reported draft, in the rows ev of its execution.
ReportOK(ev, report, approval) ==
    LET row == ev[report.draft + 1]
    IN  /\ report.draft + 1 \in Attempts
        /\ row.status = "SUCCEEDED" /\ row.fp.found = report.found
        /\ ~row.verdict.hard
        /\ \/ row.verdict.passed
           \/ approval # None /\ approval.found = report.found /\ approval.draft = report.draft

ReportsOK ==
    /\ reports \in [Execs -> [found : SUBSET Items, draft : Nat] \cup {None}]
    /\ \A e \in Execs : reports[e] # None => ReportOK(evals[e], reports[e], approvals[e])

Inv ==
    /\ links \subseteq Items
    /\ JobOK /\ ClaimOK /\ ApprovalsOK /\ RowsOK /\ RunsOK /\ CkptsOK /\ ReportsOK

-----------------------------------------------------------------------------
(* The verdicts and the policy *)

\* The categories that categorize_evaluation_failure gives to a hard dimension.
HardCategories == {"QUALITY_CITATION_INTEGRITY", "QUALITY_STRUCTURE", "QUALITY_TOOL_POLICY"}

\* A failed hard dimension fails the evaluation and names a category for which
\* the policy ends the job or repairs the draft (aggregate_dimensions,
\* categorize_evaluation_failure).
LEMMA VerdictFacts ==
    ASSUME NEW v \in Verdicts
    PROVE  /\ v.passed \in BOOLEAN /\ v.hard \in BOOLEAN
           /\ v.hard => /\ ~v.passed
                        /\ v.category \in HardCategories
<1>1. PICK c \in Candidates : v = Verdict(c)
  BY DEF Verdicts
<1>2. PICK scores : scores = Grade(c)
  OBVIOUS
<1>3. PICK failed : failed = FailedDimensions(scores)
  OBVIOUS
<1>4. v = [passed |-> Passed(scores),
           category |-> IF Passed(scores) THEN "none" ELSE CategorizeEvaluationFailure(failed),
           hard |-> failed \cap HardDimensions # {}]
  BY <1>1, <1>2, <1>3 DEF Verdict
<1>5. Passed(scores) \in BOOLEAN
  BY DEF Passed
<1>6. ASSUME failed \cap HardDimensions # {}
      PROVE  /\ ~Passed(scores)
             /\ CategorizeEvaluationFailure(failed) \in HardCategories
  <2>1. PICK d \in failed : d \in HardDimensions
    BY <1>6
  <2>2. ~Stamped(scores, d) /\ d \in HardDimensions
    BY <2>1, <1>3 DEF FailedDimensions
  <2>3. ~HardOk(scores)
    BY <2>2 DEF HardOk, Stamped
  <2>4. CategorizeEvaluationFailure(failed) \in HardCategories
    BY <2>1 DEF CategorizeEvaluationFailure, HardCategories, HardDimensions
  <2> QED BY <2>3, <2>4 DEF Passed
<1> HIDE DEF Passed
<1> QED BY <1>4, <1>5, <1>6

\* What a decision says of the counters and the category it was taken from
\* (decide_for_evaluation).
LEMMA DecisionFacts ==
    ASSUME NEW category, NEW repairs \in Nat, NEW evaluations,
           NEW d, d = DecideForEvaluation(category, repairs, evaluations)
    PROVE  /\ d.action \in {"terminal", "repair", "await_review"}
           /\ d.action = "repair" => repairs < MaxRepairs
           /\ d.action = "await_review" => category \notin HardCategories
BY DEF DecideForEvaluation, Decision, HardCategories

\* The counters of the policy are at least those of the graph.
LEMMA MaxOfTwo ==
    ASSUME NEW m \in Nat, NEW n \in Nat
    PROVE  Max({m, n}) \in Nat /\ m <= Max({m, n}) /\ n <= Max({m, n})
<1>1. \E x \in {m, n} : \A y \in {m, n} : x >= y
  <2>1. CASE m >= n  BY <2>1
  <2>2. CASE n >= m  BY <2>2
  <2> QED BY <2>1, <2>2
<1>2. PICK x : x = Max({m, n})
  OBVIOUS
<1>3. x \in {m, n} /\ \A y \in {m, n} : x >= y
  BY <1>1, <1>2 DEF Max
<1> QED BY <1>2, <1>3
-----------------------------------------------------------------------------
(* The states of the graph *)

LEMMA ConstantFacts ==
    /\ MaxRepairs \in Nat
    /\ None \notin Nat /\ None \notin Workers /\ None \notin Execs
    /\ \A e \in Execs : e \in Nat
    /\ \A a : a \in Attempts <=> a \in Nat /\ 1 <= a /\ a <= MaxRepairs + 1
<1>1. Cardinality(Execs) \in Nat
  BY GraphAssumption, FS_CardinalityType
<1>2. \A e \in Execs : e \in Nat
  BY <1>1, GraphAssumption
<1> QED BY <1>2, GraphAssumption, PolicyAssumption DEF Attempts

\* The parts of a graph state.
LEMMA StateParts ==
    ASSUME NEW st \in GraphStates
    PROVE  /\ st.next \in Nodes \cup {"end"} /\ st.found \in SUBSET Items
           /\ st.draft \in Nat \cup {None} /\ st.rep \in Nat /\ st.att \in Nat
           /\ st.passed \in BOOLEAN /\ st.fp \in Fingerprints \cup {None}
BY DEF GraphStates

LEMMA AttemptExists ==
    ASSUME NEW st, Progress(st)
    PROVE  /\ st.att > 0 => st.att \in Attempts
           /\ st.next \in Unchecked => st.att + 1 \in Attempts
BY ConstantFacts, StateParts DEF Progress

LEMMA InitialState ==
    ASSUME NEW ev
    PROVE  StateOK(ev, InitialGraphState)
<1>1. InitialGraphState \in GraphStates
  BY DEF InitialGraphState, GraphStates, Nodes
<1>2. Progress(InitialGraphState)
  BY <1>1, ConstantFacts DEF Progress, InitialGraphState, Unchecked, Undrafted
<1> QED BY <1>2 DEF StateOK, Judged, InitialGraphState, Unchecked

LEMMA ValidatedState ==
    ASSUME NEW ev, NEW st, StateOK(ev, st), st.next = "validate", 
           NEW st2, st2 = [st EXCEPT !.next = "plan"]
    PROVE  StateOK(ev, st2)
<1>1. st2 \in GraphStates /\ st2.next = "plan" /\ st2.rep = st.rep /\ st2.att = st.att
      /\ st2.fp = st.fp /\ st2.passed = st.passed
  BY DEF StateOK, Progress, GraphStates, Nodes
<1>2. Progress(st2)
  BY <1>1 DEF StateOK, Progress, Unchecked, Undrafted
<1> QED BY <1>1, <1>2 DEF StateOK, Judged, Unchecked

LEMMA PlannedState ==
    ASSUME NEW ev, NEW st, StateOK(ev, st), st.next = "plan",
           NEW st2, st2 = [st EXCEPT !.next = "research"]
    PROVE  StateOK(ev, st2)
<1>1. st2 \in GraphStates /\ st2.next = "research" /\ st2.rep = st.rep /\ st2.att = st.att
      /\ st2.fp = st.fp /\ st2.passed = st.passed
  BY DEF StateOK, Progress, GraphStates, Nodes
<1>2. Progress(st2)
  BY <1>1 DEF StateOK, Progress, Unchecked, Undrafted
<1> QED BY <1>1, <1>2 DEF StateOK, Judged, Unchecked

LEMMA ResearchedState ==
    ASSUME NEW ev, NEW st, StateOK(ev, st), st.next = "research", NEW found \in SUBSET Items,
           NEW st2, st2 = [st EXCEPT !.next = "draft", !.found = found]
    PROVE  StateOK(ev, st2)
<1>1. st2 \in GraphStates /\ st2.next = "draft" /\ st2.rep = st.rep /\ st2.att = st.att
      /\ st2.fp = st.fp /\ st2.passed = st.passed
  BY DEF StateOK, Progress, GraphStates, Nodes
<1>2. Progress(st2)
  BY <1>1 DEF StateOK, Progress, Unchecked, Undrafted
<1> QED BY <1>1, <1>2 DEF StateOK, Judged, Unchecked

LEMMA DraftedState ==
    ASSUME NEW ev, NEW st, StateOK(ev, st), st.next = "draft",
           NEW st2, st2 = [st EXCEPT !.next = "verify_citations", !.draft = st.rep]
    PROVE  StateOK(ev, st2)
<1>1. st2 \in GraphStates /\ st2.next = "verify_citations" /\ st2.rep = st.rep
      /\ st2.draft = st.rep /\ st2.att = st.att /\ st2.fp = st.fp /\ st2.passed = st.passed
  BY DEF StateOK, Progress, GraphStates, Nodes
<1>2. Progress(st2)
  BY <1>1 DEF StateOK, Progress, Unchecked, Undrafted
<1> QED BY <1>1, <1>2 DEF StateOK, Judged, Unchecked

LEMMA VerifiedState ==
    ASSUME NEW ev, NEW st, StateOK(ev, st), st.next = "verify_citations",
           NEW st2, st2 = [st EXCEPT !.next = "evaluate"]
    PROVE  StateOK(ev, st2)
<1>1. st2 \in GraphStates /\ st2.next = "evaluate" /\ st2.rep = st.rep
      /\ st2.draft = st.draft /\ st2.att = st.att /\ st2.fp = st.fp /\ st2.passed = st.passed
  BY DEF StateOK, Progress, GraphStates, Nodes
<1>2. Progress(st2)
  BY <1>1 DEF StateOK, Progress, Unchecked, Undrafted
<1> QED BY <1>1, <1>2 DEF StateOK, Judged, Unchecked

\* The verdict of the attempt that comes next, on this draft.
LEMMA EvaluatedState ==
    ASSUME NEW ev, NEW st, StateOK(ev, st), st.next = "evaluate",
           NEW row, row = ev[st.att + 1], row.status = "SUCCEEDED", row.verdict \in Verdicts,
           FingerprintOf(st, row.fp),
           NEW st2, st2 = [st EXCEPT !.next = "policy", !.att = @ + 1, !.fp = row.fp,
                                     !.passed = row.verdict.passed]
    PROVE  StateOK(ev, st2)
<1>1. row.fp \in Fingerprints /\ row.verdict.passed \in BOOLEAN
  BY VerdictFacts DEF FingerprintOf
<1>2. PICK m \in Nat : m = st.att + 1
  BY StateParts DEF StateOK, Progress
<1>3. st2 = [st EXCEPT !.next = "policy", !.att = m, !.fp = row.fp,
                       !.passed = row.verdict.passed]
  BY <1>2
<1>4. st2 \in GraphStates /\ st2.next = "policy" /\ st2.rep = st.rep
      /\ st2.draft = st.draft /\ st2.found = st.found /\ st2.att = m
      /\ st2.fp = row.fp /\ st2.passed = row.verdict.passed
  BY <1>1, <1>3 DEF StateOK, Progress, GraphStates, Nodes
<1>5. st2.att = st.att + 1
  BY <1>2, <1>4
<1>6. Progress(st2)
  BY <1>5, <1>4 DEF StateOK, Progress, Unchecked, Undrafted
<1> QED BY <1>5, <1>6, <1>4 DEF StateOK, Judged, Unchecked, FingerprintOf

\* From the policy to what it decided.
LEMMA RoutedState ==
    ASSUME NEW ev, NEW st, StateOK(ev, st), st.next = "policy",
           NEW n \in {"complete", "repair", "await_review", "terminal"},
           n = "repair" => st.rep < MaxRepairs,
           n \in {"complete", "await_review"} => ~ev[st.att].verdict.hard,
           NEW st2, st2 = [st EXCEPT !.disp = n, !.next = n]
    PROVE  StateOK(ev, st2)
<1>1. st2 \in GraphStates /\ st2.next = n /\ st2.rep = st.rep
      /\ st2.draft = st.draft /\ st2.found = st.found /\ st2.att = st.att
      /\ st2.fp = st.fp /\ st2.passed = st.passed
  BY DEF StateOK, Progress, GraphStates, Nodes
<1>2. Progress(st2)
  BY <1>1 DEF StateOK, Progress, Unchecked, Undrafted
<1> QED BY <1>1, <1>2 DEF StateOK, Judged, Unchecked

LEMMA RepairedState ==
    ASSUME NEW ev, NEW st, StateOK(ev, st), st.next = "repair",
           NEW st2, st2 = [st EXCEPT !.next = "draft", !.rep = @ + 1]
    PROVE  StateOK(ev, st2)
<1>1. PICK k \in Nat : k = st.rep + 1
  BY StateParts DEF StateOK, Progress
<1>2. st2 = [st EXCEPT !.next = "draft", !.rep = k]
  BY <1>1
<1>3. st2 \in GraphStates /\ st2.next = "draft" /\ st2.rep = k
      /\ st2.draft = st.draft /\ st2.found = st.found /\ st2.att = st.att
      /\ st2.fp = st.fp /\ st2.passed = st.passed
  BY <1>2 DEF StateOK, Progress, GraphStates, Nodes
<1>4. st2.rep = st.rep + 1
  BY <1>1, <1>3
<1>5. st.rep < MaxRepairs /\ st.rep \in Nat /\ st.att = st.rep + 1
  BY StateParts DEF StateOK, Progress, Unchecked
<1>6. Progress(st2)
  BY <1>4, <1>5, <1>3, ConstantFacts DEF Progress, Unchecked, Undrafted
<1> QED BY <1>6, <1>3 DEF StateOK, Judged, Unchecked

\* Towards the report: from the review to complete and from there to the end.
LEMMA CompletingState ==
    ASSUME NEW ev, NEW st, StateOK(ev, st), st.next \in {"await_review", "complete"},
           NEW n \in {"complete", "end"},
           NEW st2, st2 = [st EXCEPT !.next = n]
    PROVE  StateOK(ev, st2)
<1>1. st2 \in GraphStates /\ st2.next = n /\ st2.rep = st.rep
      /\ st2.draft = st.draft /\ st2.found = st.found /\ st2.att = st.att
      /\ st2.fp = st.fp /\ st2.passed = st.passed
  BY DEF StateOK, Progress, GraphStates, Nodes
<1>2. Progress(st2)
  BY <1>1 DEF StateOK, Progress, Unchecked, Undrafted
<1> QED BY <1>1, <1>2 DEF StateOK, Judged, Unchecked

-----------------------------------------------------------------------------
(* What the evaluation runs do to the rest *)

\* A run that has begun keeps its candidate, one that has succeeded everything.
RowStep(row, row2) ==
    \/ row2 = row
    \/ /\ row.status # "SUCCEEDED" /\ row2.status # "absent"
       /\ row.status # "absent" => row2.fp = row.fp

LEMMA StateStays ==
    ASSUME NEW ev, NEW ev2, NEW st, StateOK(ev, st),
           \A a \in Attempts : RowStep(ev[a], ev2[a])
    PROVE  StateOK(ev2, st)
<1>1. Progress(st) /\ Judged(ev, st)
  BY DEF StateOK
<1>2. CASE st.att > 0
  <2>1. st.att \in Attempts
    BY <1>1, <1>2, AttemptExists
  <2>2. ev[st.att].status = "SUCCEEDED"
    BY <1>1, <1>2 DEF Judged
  <2>3. ev2[st.att] = ev[st.att]
    BY <2>1, <2>2 DEF RowStep
  <2> QED BY <1>1, <2>3 DEF StateOK, Judged
<1>3. CASE ~(st.att > 0)
  <2>1. st.next \notin {"await_review", "complete", "end"}
    BY <1>1, <1>3, StateParts DEF Progress, Unchecked
  <2> QED BY <1>1, <1>3, <2>1 DEF StateOK, Judged
<1> QED BY <1>2, <1>3

LEMMA RunStays ==
    ASSUME NEW ev, NEW ev2, NEW r, RunOK(ev, r),
           \A e \in Execs : \A a \in Attempts : RowStep(ev[e][a], ev2[e][a])
    PROVE  RunOK(ev2, r)
<1>1. r.pc \in Busy => StateOK(ev2[r.exec], r.st)
  BY StateStays DEF RunOK, Busy
<1>2. ASSUME r.pc = "grading"
      PROVE  /\ ev2[r.exec][r.st.att + 1].status # "absent"
             /\ ev2[r.exec][r.st.att + 1].fp = r.fp
  <2>1. /\ r.exec \in Execs /\ Progress(r.st) /\ r.st.next = "evaluate"
        /\ ev[r.exec][r.st.att + 1].status # "absent" /\ ev[r.exec][r.st.att + 1].fp = r.fp
    BY <1>2 DEF RunOK, Busy, StateOK
  <2>2. r.st.att + 1 \in Attempts
    BY <2>1, AttemptExists DEF Unchecked
  <2> QED BY <2>1, <2>2 DEF RowStep
<1> QED BY <1>1, <1>2 DEF RunOK
LEMMA ReportStays ==
    ASSUME NEW ev, NEW ev2, NEW report, NEW approval, ReportOK(ev, report, approval),
           \A a \in Attempts : RowStep(ev[a], ev2[a])
    PROVE  ReportOK(ev2, report, approval)
<1>1. ev2[report.draft + 1] = ev[report.draft + 1]
  BY DEF ReportOK, RowStep
<1> QED BY <1>1 DEF ReportOK

-----------------------------------------------------------------------------
(* What a worker's step leaves behind *)

\* An exception has left the graph.
RaisedFrom(e, b) == [Idle EXCEPT !.pc = "except", !.exec = e, !.transient = b]

LEMMA RaisedRun ==
    ASSUME NEW ev, NEW e \in Execs, NEW b \in BOOLEAN, NEW r2, r2 = RaisedFrom(e, b)
    PROVE  RunOK(ev, r2) /\ r2.pc = "except" /\ r2.exec = e
<1>1. /\ r2 \in RunTypes /\ r2.pc = "except" /\ r2.exec = e /\ r2.st = None
      /\ r2.unsaved = FALSE
  BY DEF RaisedFrom, Idle, RunTypes, Modes
<1> QED BY <1>1 DEF RunOK, Busy

\* A superstep has ended.
SteppedTo(e, st) ==
    [Idle EXCEPT !.pc = IF st.next = "end" THEN "post" ELSE "node",
                 !.exec = e, !.st = st, !.unsaved = TRUE]

LEMMA SteppedRun ==
    ASSUME NEW ev, NEW e \in Execs, NEW st, StateOK(ev[e], st), NEW r2, r2 = SteppedTo(e, st)
    PROVE  /\ RunOK(ev, r2) /\ r2.exec = e /\ r2.st = st
           /\ r2.pc = IF st.next = "end" THEN "post" ELSE "node"
<1>1. st \in GraphStates
  BY DEF StateOK, Progress
<1>2. /\ r2 \in RunTypes /\ r2.exec = e /\ r2.st = st
      /\ r2.pc = IF st.next = "end" THEN "post" ELSE "node"
  BY <1>1 DEF SteppedTo, Idle, RunTypes, Modes, Busy
<1> QED BY <1>2 DEF RunOK, Busy

\* A node and its save.
LEMMA PureRun ==
    ASSUME NEW ev, NEW r, RunOK(ev, r), r.pc = "node", NEW st, StateOK(ev[r.exec], st),
           NEW r2, r2 = [r EXCEPT !.st = st]
    PROVE  RunOK(ev, r2) /\ r2.pc = "node" /\ r2.exec = r.exec /\ r2.st = st
<1>1. st \in GraphStates /\ r \in RunTypes
  BY DEF StateOK, Progress, RunOK
<1>2. r2 \in RunTypes /\ r2.pc = r.pc /\ r2.exec = r.exec /\ r2.st = st
  BY <1>1 DEF RunTypes
<1> QED BY <1>2 DEF RunOK, Busy

Moves(w, r2) ==
    /\ run' = [run EXCEPT ![w] = r2]
    /\ RunOK(evals', r2)
    /\ r2.pc # "off" /\ r2.exec = run[w].exec
    /\ ReviewPhase(run[w]) => ReviewPhase(r2)

CkptMoves(w) ==
    \/ ckpt' = ckpt
    \/ \E st : /\ StateOK(evals'[run[w].exec], st)
               /\ ckpt' = [ckpt EXCEPT ![run[w].exec] = st]

RowsMove == \A e \in Execs : \A a \in Attempts : RowStep(evals[e][a], evals'[e][a])

KeepsClaim ==
    /\ job' \in JobTypes
    /\ job'.status = job.status /\ job'.by = job.by /\ job'.live = job.live
    /\ job'.mode = job.mode /\ job'.exec = job.exec

LEMMA RowsStand ==
    ASSUME evals' = evals, Inv
    PROVE  RowsMove /\ RowsOK'
BY DEF RowsMove, RowStep, RowsOK, RowOK, Inv

LEMMA JobStands ==
    ASSUME job' = job, Inv
    PROVE  KeepsClaim
BY DEF KeepsClaim, Inv, JobOK

LEMMA RunsMove ==
    ASSUME Inv, RowsMove, NEW w \in Workers, NEW r2, RunOK(evals', r2),
           run' = [run EXCEPT ![w] = r2]
    PROVE  RunsOK'
<1>1. r2 \in RunTypes /\ run \in [Workers -> RunTypes]
  BY DEF RunOK, Inv, RunsOK
<1>2. run' \in [Workers -> RunTypes]
  BY <1>1
<1>3. ASSUME NEW u \in Workers PROVE RunOK(evals', run'[u])
  <2>1. CASE u = w
    BY <1>1, <2>1
  <2>2. CASE u # w
    <3>1. run'[u] = run[u] /\ RunOK(evals, run[u])
      BY <1>1, <2>2 DEF Inv, RunsOK
    <3> QED BY <3>1, RunStays DEF RowsMove
  <2> QED BY <2>1, <2>2
<1> QED BY <1>2, <1>3 DEF RunsOK

LEMMA CkptsMove ==
    ASSUME Inv, RowsMove, NEW w \in Workers, run[w].exec \in Execs, CkptMoves(w)
    PROVE  CkptsOK'
<1>1. ckpt \in [Execs -> GraphStates \cup {None}]
  BY DEF Inv, CkptsOK
<1>2. ASSUME NEW e \in Execs, ckpt[e] # None PROVE StateOK(evals'[e], ckpt[e])
  BY <1>2, StateStays DEF Inv, CkptsOK, RowsMove
<1>3. CASE ckpt' = ckpt
  BY <1>1, <1>2, <1>3 DEF CkptsOK
<1>4. CASE ckpt' # ckpt
  <2>1. PICK st : /\ StateOK(evals'[run[w].exec], st)
                  /\ ckpt' = [ckpt EXCEPT ![run[w].exec] = st]
    BY <1>4 DEF CkptMoves
  <2>2. st \in GraphStates
    BY <2>1 DEF StateOK, Progress
  <2>3. ckpt' \in [Execs -> GraphStates \cup {None}]
    BY <1>1, <2>1, <2>2
  <2>4. ASSUME NEW e \in Execs PROVE ckpt'[e] = None \/ StateOK(evals'[e], ckpt'[e])
    <3>1. CASE e = run[w].exec  BY <3>1, <2>1, <1>1
    <3>2. CASE e # run[w].exec  BY <3>2, <2>1, <1>1, <1>2
    <3> QED BY <3>1, <3>2
  <2> QED BY <2>3, <2>4 DEF CkptsOK
<1> QED BY <1>3, <1>4

LEMMA ReportsStay ==
    ASSUME Inv, RowsMove, reports' = reports, approvals' = approvals
    PROVE  ReportsOK'
<1>1. ASSUME NEW e \in Execs, reports[e] # None
      PROVE  ReportOK(evals'[e], reports[e], approvals[e])
  BY <1>1, ReportStays DEF Inv, ReportsOK, RowsMove
<1> QED BY <1>1 DEF Inv, ReportsOK

\* A step of a worker in the graph preserves all that does not concern reports.
LEMMA MovePreserves ==
    ASSUME Inv, NEW w \in Workers, NEW r2, Moves(w, r2), run[w].exec \in Execs, CkptMoves(w),
           RowsMove, RowsOK', KeepsClaim, approvals' = approvals, ReportsOK', links' \subseteq Items
    PROVE  Inv'
<1>1. RunsOK'
  BY RunsMove DEF Moves
<1>2. CkptsOK'
  BY CkptsMove
<1>3. JobOK'
  BY DEF Inv, JobOK, KeepsClaim
<1>4. ApprovalsOK'
  BY DEF Inv, ApprovalsOK, KeepsClaim
<1>5. ClaimOK'
  <2> SUFFICES ASSUME NEW u \in Workers, job'.live, job'.by = u
               PROVE  /\ run'[u].pc # "off" /\ run'[u].exec = job'.exec
                      /\ job'.mode = "REVIEW_COMPLETE" => ReviewPhase(run'[u])
    BY DEF ClaimOK, ReviewPhase
  <2>1. /\ run[u].pc # "off" /\ run[u].exec = job'.exec
        /\ job'.mode = "REVIEW_COMPLETE" => ReviewPhase(run[u])
    BY DEF Inv, ClaimOK, KeepsClaim
  <2>2. run \in [Workers -> RunTypes]
    BY DEF Inv, RunsOK
  <2>3. CASE u = w
    BY <2>1, <2>2, <2>3 DEF Moves
  <2>4. CASE u # w
    BY <2>1, <2>2, <2>4 DEF Moves
  <2> QED BY <2>3, <2>4
<1> QED BY <1>1, <1>2, <1>3, <1>4, <1>5 DEF Inv
LEMMA QuietMove ==
    ASSUME Inv, NEW w \in Workers, NEW r2, Moves(w, r2), run[w].exec \in Execs, CkptMoves(w),
           job' = job, evals' = evals, approvals' = approvals, reports' = reports,
           links' \subseteq Items
    PROVE  Inv'
BY MovePreserves, RowsStand, JobStands, ReportsStay

LEMMA RunFacts ==
    ASSUME Inv, NEW w \in Workers
    PROVE  /\ RunOK(evals, run[w]) /\ run[w] \in RunTypes /\ run \in [Workers -> RunTypes]
           /\ run[w].pc # "off" => run[w].exec \in Execs
           /\ run[w].pc \in Busy => StateOK(evals[run[w].exec], run[w].st)
BY DEF Inv, RunsOK, RunOK

LEMMA RaiseMoves ==
    ASSUME Inv, NEW w \in Workers, run[w].pc # "off", NEW error, Raises(w, error)
    PROVE  \E r2 : Moves(w, r2)
<1>1. PICK e \in Execs : e = run[w].exec
  BY RunFacts
<1>2. PICK b \in BOOLEAN : run' = [run EXCEPT ![w] = RaisedFrom(e, b)]
  <2>1. CASE error \in TransientErrors
    <3>1. run' = [run EXCEPT ![w] = RaisedFrom(e, TRUE)]
      BY <1>1, <2>1 DEF Raises, RaisedFrom
    <3> QED BY <3>1
  <2>2. CASE error \notin TransientErrors
    <3>1. (error \in TransientErrors) = FALSE
      BY <2>2
    <3>2. run' = [run EXCEPT ![w] = RaisedFrom(e, FALSE)]
      BY <1>1, <3>1, Zenon DEF Raises, RaisedFrom
    <3> QED BY <3>2
  <2> QED BY <2>1, <2>2
<1>3. PICK r2 : r2 = RaisedFrom(e, b)
  OBVIOUS
<1>4. PICK ev : ev = evals'
  OBVIOUS
<1>5. RunOK(ev, r2) /\ r2.pc = "except" /\ r2.exec = e
  BY <1>3, RaisedRun
<1>6. Moves(w, r2)
  BY <1>1, <1>2, <1>3, <1>4, <1>5 DEF Moves, ReviewPhase
<1> QED BY <1>6

LEMMA StepMoves ==
    ASSUME Inv, NEW w \in Workers, run[w].exec \in Execs,
           NEW st, StateOK(evals'[run[w].exec], st), Superstep(w, st),
           ReviewPhase(run[w]) => st.next = "end"
    PROVE  \E r2 : Moves(w, r2)
<1>1. PICK e \in Execs : e = run[w].exec
  OBVIOUS
<1>2. PICK r2 : r2 = SteppedTo(e, st)
  OBVIOUS
<1>3. run' = [run EXCEPT ![w] = r2]
  BY <1>1, <1>2 DEF Superstep, SteppedTo
<1>4. PICK ev : ev = evals'
  OBVIOUS
<1>5. StateOK(ev[e], st)
  BY <1>1, <1>4
<1>6. /\ RunOK(ev, r2) /\ r2.exec = e /\ r2.st = st
      /\ r2.pc = IF st.next = "end" THEN "post" ELSE "node"
  BY <1>2, <1>5, SteppedRun
<1>7. Moves(w, r2)
  BY <1>1, <1>3, <1>4, <1>6 DEF Moves, ReviewPhase
<1> QED BY <1>7

-----------------------------------------------------------------------------
(* The nodes that commit nothing of their own *)

LEMMA PureNode ==
    ASSUME Inv, NEW w \in Workers, run[w].pc = "node", run[w].st.next # "complete",
           NEW st, StateOK(evals[run[w].exec], st), PureStep(w, st),
           job' = job, evals' = evals, approvals' = approvals, reports' = reports, links' = links
    PROVE  Inv'
<1>1. PICK r2 : r2 = [run[w] EXCEPT !.st = st]
  OBVIOUS
<1>2. run[w].exec \in Execs /\ RunOK(evals, run[w])
  BY RunFacts
<1>3. RunOK(evals, r2) /\ r2.pc = "node" /\ r2.exec = run[w].exec
  BY <1>1, <1>2, PureRun
<1>4. run' = [run EXCEPT ![w] = r2]
  BY <1>1 DEF PureStep
<1>5. Moves(w, r2)
  BY <1>3, <1>4 DEF Moves, ReviewPhase
<1>6. CkptMoves(w)
  BY DEF CkptMoves, PureStep
<1> QED BY <1>2, <1>5, <1>6, QuietMove DEF Inv

LEMMA ValidateNodeInv ==
    ASSUME Inv, NEW w \in Workers, ValidateNode(w)
    PROVE  Inv'
<1>1. PICK st : st = [run[w].st EXCEPT !.next = "plan"]
  OBVIOUS
<1>2. run[w].pc = "node" /\ run[w].st.next = "validate" /\ PureStep(w, st)
  BY <1>1 DEF ValidateNode, At
<1>3. StateOK(evals[run[w].exec], st)
  BY <1>1, <1>2, RunFacts, ValidatedState DEF Busy
<1> QED BY <1>2, <1>3, PureNode DEF ValidateNode

LEMMA PlanNodeInv ==
    ASSUME Inv, NEW w \in Workers, PlanNode(w)
    PROVE  Inv'
<1>1. PICK st : st = [run[w].st EXCEPT !.next = "research"]
  OBVIOUS
<1>2. run[w].pc = "node" /\ run[w].st.next = "plan" /\ PureStep(w, st)
  BY <1>1 DEF PlanNode, At
<1>3. StateOK(evals[run[w].exec], st)
  BY <1>1, <1>2, RunFacts, PlannedState DEF Busy
<1> QED BY <1>2, <1>3, PureNode DEF PlanNode

LEMMA DraftNodeInv ==
    ASSUME Inv, NEW w \in Workers, DraftNode(w)
    PROVE  Inv'
<1>1. PICK st : st = [run[w].st EXCEPT !.next = "verify_citations", !.draft = run[w].st.rep]
  OBVIOUS
<1>2. run[w].pc = "node" /\ run[w].st.next = "draft" /\ PureStep(w, st)
  BY <1>1 DEF DraftNode, At
<1>3. StateOK(evals[run[w].exec], st)
  BY <1>1, <1>2, RunFacts, DraftedState DEF Busy
<1> QED BY <1>2, <1>3, PureNode DEF DraftNode

LEMMA RepairNodeInv ==
    ASSUME Inv, NEW w \in Workers, RepairNode(w)
    PROVE  Inv'
<1>1. PICK st : st = [run[w].st EXCEPT !.next = "draft", !.rep = @ + 1]
  OBVIOUS
<1>2. run[w].pc = "node" /\ run[w].st.next = "repair" /\ PureStep(w, st)
  BY <1>1 DEF RepairNode, At
<1>3. StateOK(evals[run[w].exec], st)
  BY <1>1, <1>2, RunFacts, RepairedState DEF Busy
<1> QED BY <1>2, <1>3, PureNode DEF RepairNode

\* An exception out of a step that writes nothing else but perhaps links.
LEMMA QuietRaise ==
    ASSUME Inv, NEW w \in Workers, run[w].pc # "off", NEW error, Raises(w, error),
           job' = job, evals' = evals, approvals' = approvals, reports' = reports, ckpt' = ckpt,
           links' \subseteq Items
    PROVE  Inv'
<1>1. PICK r2 : Moves(w, r2)
  BY RaiseMoves
<1>2. run[w].exec \in Execs /\ CkptMoves(w)
  BY RunFacts DEF CkptMoves
<1> QED BY <1>1, <1>2, QuietMove

LEMMA VerifyCitationsNodeInv ==
    ASSUME Inv, NEW w \in Workers, VerifyCitationsNode(w)
    PROVE  Inv'
<1>1. PICK st : st = [run[w].st EXCEPT !.next = "evaluate"]
  OBVIOUS
<1>2. run[w].pc = "node" /\ run[w].st.next = "verify_citations"
  BY DEF VerifyCitationsNode, At
<1>3. StateOK(evals[run[w].exec], st)
  BY <1>1, <1>2, RunFacts, VerifiedState DEF Busy
<1>4. CASE run[w].st.found \subseteq links
  <2>1. PureStep(w, st)
    BY <1>1, <1>4 DEF VerifyCitationsNode
  <2> QED BY <1>2, <1>3, <2>1, PureNode DEF VerifyCitationsNode
<1>5. CASE ~(run[w].st.found \subseteq links)
  BY <1>2, <1>5, QuietRaise DEF VerifyCitationsNode, Inv
<1> QED BY <1>4, <1>5

LEMMA TerminalNodeInv ==
    ASSUME Inv, NEW w \in Workers, TerminalNode(w)
    PROVE  Inv'
BY QuietRaise DEF TerminalNode, At, Inv

LEMMA NodeFailsInv ==
    ASSUME Inv, NEW w \in Workers, NodeFails(w)
    PROVE  Inv'
<1>1. PICK error \in ErrorsOf(run[w].st.next) : Raises(w, error)
  BY DEF NodeFails
<1>2. links' \subseteq Items
  BY DEF NodeFails, Inv
<1> QED BY <1>1, <1>2, QuietRaise DEF NodeFails

LEMMA ResearchNodeInv ==
    ASSUME Inv, NEW w \in Workers, ResearchNode(w)
    PROVE  Inv'
<1>1. PICK found \in SUBSET Items :
         /\ links' = links \cup found
         /\ Superstep(w, [run[w].st EXCEPT !.next = "draft", !.found = found])
  BY DEF ResearchNode
<1>2. PICK st : st = [run[w].st EXCEPT !.next = "draft", !.found = found]
  OBVIOUS
<1>3. run[w].pc = "node" /\ run[w].st.next = "research"
  BY DEF ResearchNode, At
<1>4. StateOK(evals[run[w].exec], st)
  BY <1>2, <1>3, RunFacts, ResearchedState DEF Busy
<1>5. run[w].exec \in Execs /\ ~ReviewPhase(run[w])
  BY <1>3, RunFacts DEF ReviewPhase
<1>6. PICK r2 : Moves(w, r2)
  BY <1>1, <1>2, <1>4, <1>5, StepMoves DEF ResearchNode
<1>7. CkptMoves(w) /\ links' \subseteq Items
  BY <1>1 DEF CkptMoves, ResearchNode, Inv
<1> QED BY <1>5, <1>6, <1>7, QuietMove DEF ResearchNode

-----------------------------------------------------------------------------
(* Threads and checkpoints *)

LEMMA SaveCheckpointInv ==
    ASSUME Inv, NEW w \in Workers, SaveCheckpoint(w)
    PROVE  Inv'
<1>1. PICK r2 : r2 = [run[w] EXCEPT !.unsaved = FALSE]
  OBVIOUS
<1>2. /\ run[w].pc \in Busy /\ run[w].exec \in Execs /\ RunOK(evals, run[w])
      /\ StateOK(evals[run[w].exec], run[w].st)
  BY RunFacts DEF SaveCheckpoint, RunOK, Busy
<1>3. /\ r2 \in RunTypes /\ r2.pc = run[w].pc /\ r2.mode = run[w].mode /\ r2.exec = run[w].exec
      /\ r2.st = run[w].st /\ r2.fp = run[w].fp /\ r2.counts = run[w].counts
  BY <1>1, RunFacts DEF RunTypes
<1>4. RunOK(evals, r2)
  BY <1>2, <1>3 DEF RunOK
<1>5. Moves(w, r2)
  BY <1>1, <1>2, <1>3, <1>4 DEF Moves, ReviewPhase, SaveCheckpoint, Busy
<1>6. CkptMoves(w)
  BY <1>2 DEF CkptMoves, SaveCheckpoint
<1> QED BY <1>2, <1>5, <1>6, QuietMove DEF SaveCheckpoint, Inv

LEMMA OpenThreadInv ==
    ASSUME Inv, NEW w \in Workers, OpenThread(w)
    PROVE  Inv'
<1>1. PICK c : c = ckpt[run[w].exec]
  OBVIOUS
<1>2. PICK next : next = IF c = None THEN "validate" ELSE c.next
  OBVIOUS
<1>3. run[w].pc = "open" /\ run[w].exec \in Execs /\ RunOK(evals, run[w])
  BY RunFacts DEF OpenThread
<1>4. CASE Raises(w, "REVIEW_COMPLETE_BAD_CHECKPOINT")
  BY <1>3, <1>4, QuietRaise DEF OpenThread, Inv
<1>5. CASE /\ run[w].mode = "REVIEW_COMPLETE" => next = "complete"
           /\ run' = [run EXCEPT ![w].pc = IF next = "end" THEN "post" ELSE "node",
                                 ![w].mode = "NONE",
                                 ![w].st = IF c = None THEN InitialGraphState ELSE c]
  <2>1. PICK st : st = IF c = None THEN InitialGraphState ELSE c
    OBVIOUS
  <2>2. StateOK(evals[run[w].exec], st)
    BY <1>1, <1>3, <2>1, InitialState DEF Inv, CkptsOK
  <2>3. st.next = next
    BY <1>2, <2>1 DEF InitialGraphState
  <2>4. PICK pc : pc = IF next = "end" THEN "post" ELSE "node"
    OBVIOUS
  <2>5. PICK r2 : r2 = [run[w] EXCEPT !.pc = pc, !.mode = "NONE", !.st = st]
    OBVIOUS
  <2>6. st \in GraphStates
    BY <2>2 DEF StateOK, Progress
  <2>7. /\ r2 \in RunTypes /\ r2.pc = pc /\ r2.exec = run[w].exec /\ r2.st = st
    BY <2>4, <2>5, <2>6, RunFacts DEF RunTypes, Modes, Busy
  <2>8. RunOK(evals, r2)
    BY <1>3, <2>2, <2>4, <2>7 DEF RunOK, Busy
  <2>9. run' = [run EXCEPT ![w] = r2]
    BY <1>5, <2>1, <2>4, <2>5
  <2>10. ReviewPhase(run[w]) => ReviewPhase(r2)
    BY <1>3, <1>5, <2>3, <2>4, <2>7 DEF ReviewPhase
  <2>11. Moves(w, r2)
    BY <2>4, <2>7, <2>8, <2>9, <2>10 DEF Moves, OpenThread
  <2>12. CkptMoves(w)
    BY DEF CkptMoves, OpenThread
  <2> QED BY <1>3, <2>11, <2>12, QuietMove DEF OpenThread, Inv
<1> QED BY <1>1, <1>2, <1>4, <1>5 DEF OpenThread
-----------------------------------------------------------------------------
(* The evaluate node *)

LEMMA LoadGradingInputsInv ==
    ASSUME Inv, NEW w \in Workers, LoadGradingInputs(w)
    PROVE  Inv'
<1>1. PICK q : q = GradingSnapshot(w)
  OBVIOUS
<1>2. /\ run[w].pc = "node" /\ run[w].st.next = "evaluate"
      /\ run' = [run EXCEPT ![w] = [@ EXCEPT !.pc = "begin", !.fp = q]]
  BY <1>1 DEF LoadGradingInputs, At
<1>3. /\ RunOK(evals, run[w]) /\ run[w] \in RunTypes /\ run[w].exec \in Execs
      /\ StateOK(evals[run[w].exec], run[w].st)
  BY <1>2, RunFacts DEF Busy
<1>4. /\ run[w].st \in GraphStates /\ run[w].st.draft \in Nat /\ run[w].st.rep \in Nat
      /\ run[w].st.found \in SUBSET Items /\ run[w].st.att + 1 \in Nat
  BY <1>2, <1>3, StateParts DEF StateOK, Progress, Undrafted
<1>5. links \in SUBSET Items
  BY DEF Inv
<1>6. FingerprintOf(run[w].st, q)
  BY <1>1, <1>4, <1>5 DEF GradingSnapshot, FingerprintOf, Fingerprints
<1>7. PICK r2 : r2 = [run[w] EXCEPT !.pc = "begin", !.fp = q]
  OBVIOUS
<1>8. /\ r2 \in RunTypes /\ r2.pc = "begin" /\ r2.exec = run[w].exec /\ r2.st = run[w].st
      /\ r2.fp = q
  BY <1>3, <1>6, <1>7 DEF RunTypes, Busy, FingerprintOf
<1>9. RunOK(evals, r2)
  BY <1>2, <1>3, <1>6, <1>8 DEF RunOK, Busy
<1>10. Moves(w, r2)
  BY <1>2, <1>7, <1>8, <1>9 DEF Moves, ReviewPhase, LoadGradingInputs
<1>11. CkptMoves(w)
  BY DEF CkptMoves, LoadGradingInputs
<1> QED BY <1>3, <1>10, <1>11, QuietMove DEF LoadGradingInputs, Inv

\* What is known in the evaluate node.
LEMMA EvaluateFacts ==
    ASSUME Inv, NEW w \in Workers, run[w].pc \in {"begin", "grading"}
    PROVE  /\ run[w].exec \in Execs /\ run[w].st.att + 1 \in Attempts
           /\ StateOK(evals[run[w].exec], run[w].st) /\ run[w].st.next = "evaluate"
           /\ run[w].st.att \in Nat /\ run[w].st.draft \in Nat
           /\ run[w].st.att = run[w].st.draft
           /\ FingerprintOf(run[w].st, run[w].fp)
           /\ RowOK(EvalRow(w), run[w].st.att + 1)
           /\ run[w].pc = "grading" => /\ EvalRow(w).status # "absent"
                                       /\ EvalRow(w).fp = run[w].fp
<1>1. /\ run[w].exec \in Execs /\ run[w].st.next = "evaluate"
      /\ StateOK(evals[run[w].exec], run[w].st) /\ FingerprintOf(run[w].st, run[w].fp)
      /\ run[w].pc = "grading" => /\ EvalRow(w).status # "absent" /\ EvalRow(w).fp = run[w].fp
  BY RunFacts DEF RunOK, Busy, EvalRow
<1>2. Progress(run[w].st)
  BY <1>1 DEF StateOK
<1>3. run[w].st.att + 1 \in Attempts
  BY <1>1, <1>2, AttemptExists DEF Unchecked
<1>4. /\ run[w].st.att \in Nat /\ run[w].st.draft = run[w].st.rep /\ run[w].st.rep \in Nat
      /\ run[w].st.att = run[w].st.rep
  BY <1>1, <1>2, StateParts DEF Progress, Unchecked, Undrafted
<1>5. RowOK(EvalRow(w), run[w].st.att + 1)
  BY <1>1, <1>3 DEF Inv, RowsOK, EvalRow
<1> QED BY <1>1, <1>3, <1>4, <1>5

\* The graph goes on with a verdict that is, or is being, recorded.
LEMMA EvaluatedMoves ==
    ASSUME Inv, NEW w \in Workers, run[w].pc \in {"begin", "grading"}, RowsMove,
           NEW row, row = evals'[run[w].exec][run[w].st.att + 1],
           row.status = "SUCCEEDED", row.verdict \in Verdicts, row.fp = run[w].fp,
           Evaluated(w, row)
    PROVE  \E r2 : Moves(w, r2)
<1>1. PICK st2 : st2 = [run[w].st EXCEPT !.next = "policy", !.att = @ + 1, !.fp = row.fp,
                                         !.passed = row.verdict.passed]
  OBVIOUS
<1>2. PICK e \in Execs : e = run[w].exec
  BY EvaluateFacts
<1>3. PICK ev : ev = evals'[e]
  OBVIOUS
<1>4. PICK st : st = run[w].st
  OBVIOUS
<1>5. StateOK(evals[e], st) /\ st.next = "evaluate" /\ FingerprintOf(st, row.fp)
  BY <1>2, <1>4, EvaluateFacts
<1>6. StateOK(ev, st)
  <2>1. \A a \in Attempts : RowStep(evals[e][a], ev[a])
    BY <1>2, <1>3 DEF RowsMove
  <2> QED BY <1>5, <2>1, StateStays
<1>7. row = ev[st.att + 1]
  BY <1>2, <1>3, <1>4
<1>8. st2 = [st EXCEPT !.next = "policy", !.att = @ + 1, !.fp = row.fp,
                       !.passed = row.verdict.passed]
  BY <1>1, <1>4
<1>9. StateOK(ev, st2)
  BY <1>5, <1>6, <1>7, <1>8, EvaluatedState
<1>10. Superstep(w, st2)
  BY <1>1 DEF Evaluated
<1>11. ~ReviewPhase(run[w])
  BY DEF ReviewPhase
<1> QED BY <1>2, <1>3, <1>9, <1>10, <1>11, StepMoves

LEMMA ReplayRunInv ==
    ASSUME Inv, NEW w \in Workers, ReplayRun(w)
    PROVE  Inv'
<1>1. run[w].pc = "begin" /\ EvalRow(w).status = "SUCCEEDED"
  BY DEF ReplayRun
<1>2. CASE SameCandidate(w)
  <2>1. PICK row : row = EvalRow(w)
    OBVIOUS
  <2>2. /\ row = evals'[run[w].exec][run[w].st.att + 1] /\ row.status = "SUCCEEDED"
        /\ row.fp = run[w].fp /\ Evaluated(w, row)
    BY <1>1, <1>2, <2>1 DEF ReplayRun, SameCandidate, EvalRow
  <2>3. row.verdict \in Verdicts
    BY <1>1, <2>1, EvaluateFacts DEF RowOK
  <2>4. RowsMove
    BY RowsStand DEF ReplayRun
  <2>5. PICK r2 : Moves(w, r2)
    BY <1>1, <2>2, <2>3, <2>4, EvaluatedMoves
  <2>6. run[w].exec \in Execs /\ CkptMoves(w)
    BY <1>1, EvaluateFacts DEF CkptMoves, ReplayRun
  <2> QED BY <2>5, <2>6, QuietMove DEF ReplayRun, Inv
<1>3. CASE ~SameCandidate(w)
  BY <1>1, <1>3, QuietRaise DEF ReplayRun, Inv
<1> QED BY <1>2, <1>3

LEMMA RefuseRunInv ==
    ASSUME Inv, NEW w \in Workers, RefuseRun(w)
    PROVE  Inv'
BY QuietRaise DEF RefuseRun, Inv

\* One row of the evaluation runs is replaced.
LEMMA RowReplaced ==
    ASSUME Inv, NEW e \in Execs, NEW a \in Attempts, NEW row2, RowOK(row2, a),
           RowStep(evals[e][a], row2), evals' = [evals EXCEPT ![e][a] = row2]
    PROVE  RowsMove /\ RowsOK' /\ evals'[e][a] = row2
<1>1. evals \in [Execs -> [Attempts -> RowTypes]] /\ row2 \in RowTypes
  BY DEF Inv, RowsOK, RowOK
<1>2. evals' \in [Execs -> [Attempts -> RowTypes]]
  BY <1>1
<1>3. \A f \in Execs : \A b \in Attempts :
        evals'[f][b] = IF f = e /\ b = a THEN row2 ELSE evals[f][b]
  BY <1>1
<1>4. RowsMove
  BY <1>3 DEF RowsMove, RowStep
<1>5. \A f \in Execs, b \in Attempts : RowOK(evals'[f][b], b)
  BY <1>3 DEF Inv, RowsOK
<1> QED BY <1>2, <1>3, <1>4, <1>5 DEF RowsOK

LEMMA FinalizeSuccessInv ==
    ASSUME Inv, NEW w \in Workers, FinalizeSuccess(w)
    PROVE  Inv'
<1>1. run[w].pc = "grading" /\ run[w].exec \in Execs
  BY EvaluateFacts DEF FinalizeSuccess
<1>2. CASE Raises(w, "EvaluationOwnershipLostError") /\ evals' = evals
  BY <1>1, <1>2, QuietRaise DEF FinalizeSuccess, Inv
<1>3. CASE /\ OwnsRun(w)
           /\ \E v \in Verdicts :
                LET row == [Ended(w, "SUCCEEDED") EXCEPT !.verdict = v]
                IN  /\ evals' = [evals EXCEPT ![run[w].exec][run[w].st.att + 1] = row]
                    /\ Evaluated(w, row)
  <2>1. PICK v \in Verdicts :
           /\ evals' = [evals EXCEPT ![run[w].exec][run[w].st.att + 1] =
                                       [Ended(w, "SUCCEEDED") EXCEPT !.verdict = v]]
           /\ Evaluated(w, [Ended(w, "SUCCEEDED") EXCEPT !.verdict = v])
    BY <1>3
  <2>2. PICK row : row = [Ended(w, "SUCCEEDED") EXCEPT !.verdict = v]
    OBVIOUS
  <2>3. PICK e \in Execs, a \in Attempts : e = run[w].exec /\ a = run[w].st.att + 1
    BY <1>1, EvaluateFacts
  <2>4. PICK old : old = EvalRow(w)
    OBVIOUS
  <2>5. RowOK(old, a) /\ old.status = "IN_PROGRESS" /\ old.fp = run[w].fp
    BY <1>1, <1>3, <2>3, <2>4, EvaluateFacts DEF OwnsRun
  <2>6. row = [old EXCEPT !.status = "SUCCEEDED", !.owner = None, !.late = FALSE, !.verdict = v]
    BY <2>2, <2>4, <2>5 DEF Ended, RowOK, RowTypes
  <2>7. /\ row \in RowTypes /\ row.status = "SUCCEEDED" /\ row.fp = old.fp /\ row.verdict = v
    BY <2>5, <2>6 DEF RowOK, RowTypes
  <2>8. RowOK(row, a) /\ RowStep(evals[e][a], row)
    BY <2>3, <2>4, <2>5, <2>7 DEF RowOK, RowStep, EvalRow
  <2>9. evals' = [evals EXCEPT ![e][a] = row]
    BY <2>1, <2>2, <2>3
  <2>10. RowsMove /\ RowsOK' /\ evals'[e][a] = row
    BY <2>8, <2>9, RowReplaced
  <2>11. row = evals'[run[w].exec][run[w].st.att + 1] /\ Evaluated(w, row)
    BY <2>1, <2>2, <2>3, <2>10
  <2>12. PICK r2 : Moves(w, r2)
    BY <1>1, <2>5, <2>7, <2>10, <2>11, EvaluatedMoves
  <2>13. CkptMoves(w) /\ KeepsClaim /\ ReportsOK' /\ approvals' = approvals /\ links' \subseteq Items
    BY <2>10, ReportsStay, JobStands DEF CkptMoves, FinalizeSuccess, Inv
  <2> QED BY <1>1, <2>10, <2>12, <2>13, MovePreserves
<1> QED BY <1>2, <1>3 DEF FinalizeSuccess

LEMMA FinalizeFailureInv ==
    ASSUME Inv, NEW w \in Workers, FinalizeFailure(w)
    PROVE  Inv'
<1>1. run[w].pc = "grading" /\ run[w].exec \in Execs
  BY EvaluateFacts DEF FinalizeFailure
<1>2. PICK error : Raises(w, error) /\ \/ evals' = evals
                                       \/ /\ OwnsRun(w)
                                          /\ evals' = [evals EXCEPT ![run[w].exec][run[w].st.att + 1] = Ended(w, "FAILED")]
  BY DEF FinalizeFailure
<1>3. CASE evals' = evals
  BY <1>1, <1>2, <1>3, QuietRaise DEF FinalizeFailure, Inv
<1>4. CASE /\ OwnsRun(w)
           /\ evals' = [evals EXCEPT ![run[w].exec][run[w].st.att + 1] = Ended(w, "FAILED")]
  <2>1. PICK row : row = Ended(w, "FAILED")
    OBVIOUS
  <2>2. PICK e \in Execs, a \in Attempts : e = run[w].exec /\ a = run[w].st.att + 1
    BY <1>1, EvaluateFacts
  <2>3. PICK old : old = EvalRow(w)
    OBVIOUS
  <2>4. RowOK(old, a) /\ old.status = "IN_PROGRESS"
    BY <1>1, <1>4, <2>2, <2>3, EvaluateFacts DEF OwnsRun
  <2>5. row = [old EXCEPT !.status = "FAILED", !.owner = None, !.late = FALSE]
    BY <2>1, <2>3 DEF Ended
  <2>6. row \in RowTypes /\ row.status = "FAILED" /\ row.fp = old.fp
    BY <2>4, <2>5 DEF RowOK, RowTypes
  <2>7. RowOK(row, a) /\ RowStep(evals[e][a], row)
    BY <2>2, <2>3, <2>4, <2>6 DEF RowOK, RowStep, EvalRow
  <2>8. evals' = [evals EXCEPT ![e][a] = row]
    BY <1>4, <2>1, <2>2
  <2>9. RowsMove /\ RowsOK'
    BY <2>7, <2>8, RowReplaced
  <2>10. PICK r2 : Moves(w, r2)
    BY <1>1, <1>2, RaiseMoves
  <2>11. CkptMoves(w) /\ KeepsClaim /\ ReportsOK' /\ approvals' = approvals /\ links' \subseteq Items
    BY <2>9, ReportsStay, JobStands DEF CkptMoves, FinalizeFailure, Inv
  <2> QED BY <1>1, <2>9, <2>10, <2>11, MovePreserves
<1> QED BY <1>2, <1>3, <1>4

LEMMA BeginRunInv ==
    ASSUME Inv, NEW w \in Workers, BeginRun(w)
    PROVE  Inv'
<1>1. run[w].pc = "begin" /\ run[w].exec \in Execs /\ MayBegin(w) /\ Grades(w)
  BY EvaluateFacts DEF BeginRun
<1>2. PICK row : row = Started(w)
  OBVIOUS
<1>3. PICK e \in Execs, a \in Attempts : e = run[w].exec /\ a = run[w].st.att + 1
  BY <1>1, EvaluateFacts
<1>4. PICK old : old = EvalRow(w)
  OBVIOUS
<1>5. /\ RowOK(old, a) /\ old.status # "SUCCEEDED"
      /\ old.status # "absent" => old.fp = run[w].fp
  BY <1>1, <1>3, <1>4, EvaluateFacts DEF MayBegin, SameCandidate, BeginRun
<1>6. /\ run[w].fp \in Fingerprints /\ run[w].fp.draft + 1 = a
  BY <1>1, <1>3, EvaluateFacts DEF FingerprintOf
<1>7. row \in RowTypes /\ row.status = "IN_PROGRESS" /\ row.fp = run[w].fp
  BY <1>2, <1>6 DEF Started, RowTypes
<1>8. RowOK(row, a) /\ RowStep(evals[e][a], row)
  BY <1>3, <1>4, <1>5, <1>6, <1>7 DEF RowOK, RowStep, EvalRow
<1>9. evals' = [evals EXCEPT ![e][a] = row]
  BY <1>1, <1>2, <1>3 DEF Grades
<1>10. RowsMove /\ RowsOK' /\ evals'[e][a] = row
  BY <1>8, <1>9, RowReplaced
<1>11. PICK r2 : r2 = [run[w] EXCEPT !.pc = "grading"]
  OBVIOUS
<1>12. /\ r2 \in RunTypes /\ r2.pc = "grading" /\ r2.exec = run[w].exec /\ r2.st = run[w].st
       /\ r2.fp = run[w].fp
  BY <1>11, RunFacts DEF RunTypes, Busy
<1>13. StateOK(evals'[e], run[w].st)
  BY <1>1, <1>3, <1>10, EvaluateFacts, StateStays DEF RowsMove
<1>14. RunOK(evals', r2)
  BY <1>1, <1>3, <1>7, <1>10, <1>12, <1>13, EvaluateFacts DEF RunOK, Busy
<1>15. Moves(w, r2)
  BY <1>1, <1>11, <1>12, <1>14 DEF Moves, ReviewPhase, Grades
<1>16. KeepsClaim
  <2>1. job \in JobTypes /\ job.eac \in Nat
    BY DEF Inv, JobOK, JobTypes
  <2>2. PICK n \in Nat : job' = [job EXCEPT !.eac = n]
    BY <2>1 DEF BeginRun
  <2> QED BY <2>1, <2>2 DEF KeepsClaim, JobTypes
<1>17. CkptMoves(w) /\ ReportsOK' /\ approvals' = approvals /\ links' \subseteq Items
  BY <1>10, ReportsStay DEF CkptMoves, BeginRun, Inv
<1> QED BY <1>1, <1>10, <1>15, <1>16, <1>17, MovePreserves
-----------------------------------------------------------------------------
(* The policy node and the routes after it *)

LEMMA PolicyNodeInv ==
    ASSUME Inv, NEW w \in Workers, PolicyNode(w)
    PROVE  Inv'
<1>1. PICK st : st = run[w].st
  OBVIOUS
<1>2. run[w].pc = "node" /\ st.next = "policy"
  BY <1>1 DEF PolicyNode, At
<1>3. /\ RunOK(evals, run[w]) /\ run[w] \in RunTypes /\ run[w].exec \in Execs
      /\ StateOK(evals[run[w].exec], st)
  BY <1>1, <1>2, RunFacts DEF Busy
<1>4. PICK e \in Execs : e = run[w].exec
  BY <1>3
<1>5. ~ReviewPhase(run[w]) /\ CkptMoves(w)
  BY <1>1, <1>2 DEF ReviewPhase, CkptMoves, PolicyNode
<1>6. CASE st.passed
  <2>1. PICK st2 : st2 = [st EXCEPT !.disp = "complete", !.next = "complete"]
    OBVIOUS
  <2>2. Superstep(w, st2)
    BY <1>1, <1>6, <2>1 DEF PolicyNode
  <2>3. st.att \in Attempts /\ st.att > 0
    BY <1>2, <1>3, AttemptExists, StateParts DEF StateOK, Progress, Unchecked
  <2>4. evals[e][st.att].status = "SUCCEEDED" /\ evals[e][st.att].verdict.passed
    BY <1>3, <1>4, <1>6, <2>3 DEF StateOK, Judged
  <2>5. evals[e][st.att].verdict \in Verdicts
    BY <2>3, <2>4 DEF Inv, RowsOK, RowOK
  <2>6. ~evals[e][st.att].verdict.hard
    BY <2>4, <2>5, VerdictFacts
  <2>7. StateOK(evals[e], st2)
    BY <1>2, <1>3, <1>4, <2>1, <2>6, RoutedState
  <2>8. PICK r2 : Moves(w, r2)
    BY <1>4, <1>5, <2>2, <2>7, StepMoves DEF PolicyNode
  <2> QED BY <1>3, <1>5, <2>8, QuietMove DEF PolicyNode, Inv
<1>7. CASE ~st.passed
  <2>1. PICK counts : counts = [rc |-> Max({job.rc, st.rep}), retries |-> job.retries,
                                eac |-> Max({job.eac, st.att})]
    OBVIOUS
  <2>2. run' = [run EXCEPT ![w] = [@ EXCEPT !.pc = "deciding", !.counts = counts]]
    BY <1>1, <1>7, <2>1 DEF PolicyNode
  <2>3. st.rep \in Nat /\ st.att \in Nat /\ job.rc \in Nat /\ job.retries \in Nat /\ job.eac \in Nat
    BY <1>3, StateParts, PolicyAssumption DEF StateOK, Progress, Inv, JobOK, JobTypes
  <2>4. Max({job.rc, st.rep}) \in Nat /\ st.rep <= Max({job.rc, st.rep})
        /\ Max({job.eac, st.att}) \in Nat
    BY <2>3, MaxOfTwo
  <2>5. counts \in [rc : Nat, retries : Nat, eac : Nat] /\ st.rep <= counts.rc
    BY <2>1, <2>3, <2>4
  <2>6. PICK r2 : r2 = [run[w] EXCEPT !.pc = "deciding", !.counts = counts]
    OBVIOUS
  <2>7. /\ r2 \in RunTypes /\ r2.pc = "deciding" /\ r2.exec = run[w].exec /\ r2.st = st
        /\ r2.counts = counts
    BY <1>1, <1>3, <2>5, <2>6 DEF RunTypes, Busy
  <2>8. RunOK(evals, r2)
    BY <1>2, <1>3, <2>5, <2>7 DEF RunOK, Busy
  <2>9. Moves(w, r2)
    BY <1>5, <2>2, <2>6, <2>7, <2>8 DEF Moves, PolicyNode
  <2> QED BY <1>3, <1>5, <2>9, QuietMove DEF PolicyNode, Inv
<1> QED BY <1>6, <1>7

\* The row that the decision is read from, and what the decision promises.
LEMMA DecidingFacts ==
    ASSUME Inv, NEW w \in Workers, run[w].pc = "deciding"
    PROVE  /\ run[w].exec \in Execs /\ StateOK(evals[run[w].exec], run[w].st)
           /\ run[w].st.next = "policy"
           /\ DecisionRow(w).action \in {"terminal", "repair", "await_review"}
           /\ DecisionRow(w).action = "repair" => run[w].st.rep < MaxRepairs
           /\ DecisionRow(w).action = "await_review" =>
                ~evals[run[w].exec][run[w].st.att].verdict.hard
<1>1. PICK st : st = run[w].st
  OBVIOUS
<1>2. PICK e \in Execs : e = run[w].exec
  BY RunFacts
<1>3. /\ StateOK(evals[e], st) /\ st.next = "policy"
      /\ run[w].counts.rc \in Nat /\ st.rep <= run[w].counts.rc
  BY <1>1, <1>2, RunFacts DEF RunOK, Busy
<1>4. st.att \in Attempts /\ st.att > 0 /\ st.rep \in Nat
  BY <1>3, AttemptExists, StateParts DEF StateOK, Progress, Unchecked
<1>5. PICK v : v = evals[e][st.att].verdict
  OBVIOUS
<1>6. v \in Verdicts
  <2>1. evals[e][st.att].status = "SUCCEEDED"
    BY <1>3, <1>4 DEF StateOK, Judged
  <2> QED BY <1>4, <1>5, <2>1 DEF Inv, RowsOK, RowOK
<1>7. PICK d : d = DecideForEvaluation(v.category, run[w].counts.rc, run[w].counts.eac)
  OBVIOUS
<1>8. DecisionRow(w).action = d.action
  BY <1>1, <1>2, <1>5, <1>7 DEF DecisionRow
<1>9. /\ d.action \in {"terminal", "repair", "await_review"}
      /\ d.action = "repair" => run[w].counts.rc < MaxRepairs
      /\ d.action = "await_review" => v.category \notin HardCategories
  BY <1>3, <1>7, DecisionFacts DEF HardCategories
<1>10. d.action = "repair" => st.rep < MaxRepairs
  BY <1>3, <1>4, <1>9, ConstantFacts
<1>11. d.action = "await_review" => ~v.hard
  BY <1>6, <1>9, VerdictFacts
<1> QED BY <1>1, <1>2, <1>3, <1>5, <1>8, <1>9, <1>10, <1>11

LEMMA PolicyCallbackInv ==
    ASSUME Inv, NEW w \in Workers, PolicyCallback(w)
    PROVE  Inv'
<1>1. PICK d : d = DecisionRow(w)
  OBVIOUS
<1>2. PICK counted \in BOOLEAN : counted <=> d \notin decisions /\ d.action = "repair"
  OBVIOUS
<1>3. /\ run[w].pc = "deciding"
      /\ \/ /\ ~counted \/ MayCount(w)
            /\ job' = [job EXCEPT !.rc = IF counted THEN @ + 1 ELSE @]
            /\ Superstep(w, [run[w].st EXCEPT !.disp = d.action, !.next = d.action])
         \/ Raises(w, "ClaimOwnershipError") /\ job' = job
  BY <1>1, <1>2 DEF PolicyCallback
<1>4. CASE Raises(w, "ClaimOwnershipError") /\ job' = job
  BY <1>3, <1>4, QuietRaise DEF PolicyCallback, Inv
<1>5. CASE /\ ~counted \/ MayCount(w)
           /\ job' = [job EXCEPT !.rc = IF counted THEN @ + 1 ELSE @]
           /\ Superstep(w, [run[w].st EXCEPT !.disp = d.action, !.next = d.action])
  <2>1. PICK st2 : st2 = [run[w].st EXCEPT !.disp = d.action, !.next = d.action]
    OBVIOUS
  <2>2. StateOK(evals[run[w].exec], st2) /\ run[w].exec \in Execs
    BY <1>1, <1>3, <2>1, DecidingFacts, RoutedState
  <2>3. ~ReviewPhase(run[w]) /\ CkptMoves(w)
    BY <1>3 DEF ReviewPhase, CkptMoves, PolicyCallback
  <2>4. PICK r2 : Moves(w, r2)
    BY <1>5, <2>1, <2>2, <2>3, StepMoves DEF PolicyCallback
  <2>5. KeepsClaim
    <3>1. job \in JobTypes /\ job.rc \in Nat
      BY PolicyAssumption DEF Inv, JobOK, JobTypes
    <3>2. PICK n : n = IF counted THEN job.rc + 1 ELSE job.rc
      OBVIOUS
    <3>3. n \in 0 .. MaxRepairs
      BY <1>5, <3>1, <3>2, PolicyAssumption DEF MayCount, JobTypes
    <3>4. job' = [job EXCEPT !.rc = n]
      BY <1>5, <3>2
    <3> QED BY <3>1, <3>3, <3>4 DEF KeepsClaim, JobTypes
  <2>6. RowsMove /\ RowsOK'
    BY RowsStand DEF PolicyCallback
  <2>7. ReportsOK' /\ approvals' = approvals /\ links' \subseteq Items
    BY <2>6, ReportsStay DEF PolicyCallback, Inv
  <2> QED BY <2>2, <2>3, <2>4, <2>5, <2>6, <2>7, MovePreserves
<1> QED BY <1>3, <1>4, <1>5

LEMMA AwaitReviewNodeInv ==
    ASSUME Inv, NEW w \in Workers, AwaitReviewNode(w)
    PROVE  Inv'
<1>1. PICK st2 : st2 = [run[w].st EXCEPT !.next = "complete"]
  OBVIOUS
<1>2. run[w].pc = "node" /\ run[w].st.next = "await_review"
  BY DEF AwaitReviewNode, At
<1>3. /\ RunOK(evals, run[w]) /\ run[w] \in RunTypes /\ run[w].exec \in Execs
      /\ StateOK(evals[run[w].exec], run[w].st)
  BY <1>2, RunFacts DEF Busy
<1>4. StateOK(evals[run[w].exec], st2)
  BY <1>1, <1>2, <1>3, CompletingState
<1>5. PICK r2 : r2 = [run[w] EXCEPT !.pc = "post", !.st = st2, !.unsaved = TRUE]
  OBVIOUS
<1>6. run' = [run EXCEPT ![w] = r2]
  BY <1>1, <1>5, RunFacts DEF AwaitReviewNode, RunTypes
<1>7. st2 \in GraphStates
  BY <1>4 DEF StateOK, Progress
<1>8. r2 \in RunTypes /\ r2.pc = "post" /\ r2.exec = run[w].exec /\ r2.st = st2
  BY <1>3, <1>5, <1>7 DEF RunTypes, Busy
<1>9. RunOK(evals, r2)
  BY <1>3, <1>4, <1>8 DEF RunOK, Busy
<1>10. Moves(w, r2)
  BY <1>2, <1>6, <1>8, <1>9 DEF Moves, ReviewPhase, AwaitReviewNode
<1>11. CkptMoves(w)
  BY DEF CkptMoves, AwaitReviewNode
<1> QED BY <1>3, <1>10, <1>11, QuietMove DEF AwaitReviewNode, Inv

LEMMA CompleteNodeInv ==
    ASSUME Inv, NEW w \in Workers, CompleteNode(w)
    PROVE  Inv'
<1>1. PICK st : st = run[w].st
  OBVIOUS
<1>2. PICK e \in Execs : e = run[w].exec
  BY RunFacts DEF CompleteNode, At
<1>3. PICK report : report = [found |-> st.found, draft |-> st.draft]
  OBVIOUS
<1>4. run[w].pc = "node" /\ st.next = "complete" /\ StateOK(evals[e], st)
  BY <1>1, <1>2, RunFacts DEF CompleteNode, At, Busy
<1>5. CASE Raises(w, "ValueError") /\ reports' = reports
  BY <1>4, <1>5, QuietRaise DEF CompleteNode, Inv
<1>6. CASE /\ Authorized(w)
           /\ reports' = [reports EXCEPT ![e] = report]
           /\ Superstep(w, [st EXCEPT !.next = "end"])
  <2>1. /\ st \in GraphStates /\ st.draft = st.rep /\ st.rep \in Nat /\ st.att = st.rep + 1
        /\ st.found \in SUBSET Items /\ st.att \in Attempts
    BY <1>4, StateParts, AttemptExists DEF StateOK, Progress, Unchecked, Undrafted
  <2>2. PICK row : row = evals[e][st.att]
    OBVIOUS
  <2>3. /\ row.status = "SUCCEEDED" /\ row.fp = st.fp /\ row.verdict.passed = st.passed
        /\ row.fp.draft = st.draft /\ row.fp.found = st.found /\ ~row.verdict.hard
    BY <1>4, <2>1, <2>2 DEF StateOK, Judged, Unchecked
  <2>4. ReportOK(evals[e], report, approvals[e])
    <3>1. report.draft + 1 = st.att /\ report.found = st.found /\ report.draft = st.draft
      BY <1>3, <2>1
    <3>2. \/ row.verdict.passed
          \/ approvals[e] # None /\ approvals[e].found = st.found /\ approvals[e].draft = st.draft
      BY <1>1, <1>2, <1>6, <2>3 DEF Authorized
    <3> QED BY <2>1, <2>2, <2>3, <3>1, <3>2 DEF ReportOK
  <2>5. ReportsOK'
    <3>1. /\ evals' = evals /\ approvals' = approvals
          /\ reports \in [Execs -> [found : SUBSET Items, draft : Nat] \cup {None}]
          /\ \A f \in Execs : reports[f] # None => ReportOK(evals[f], reports[f], approvals[f])
      BY DEF CompleteNode, Inv, ReportsOK
    <3>2. report \in [found : SUBSET Items, draft : Nat]
      BY <1>3, <2>1
    <3>3. reports' \in [Execs -> [found : SUBSET Items, draft : Nat] \cup {None}]
      BY <1>6, <3>1, <3>2
    <3>4. ASSUME NEW f \in Execs, reports'[f] # None
          PROVE  ReportOK(evals[f], reports'[f], approvals[f])
      <4>1. CASE f = e  BY <4>1, <1>6, <3>1, <2>4
      <4>2. CASE f # e  BY <4>2, <1>6, <3>1, <3>4
      <4> QED BY <4>1, <4>2
    <3> QED BY <3>1, <3>3, <3>4 DEF ReportsOK
  <2>6. PICK st2 : st2 = [st EXCEPT !.next = "end"]
    OBVIOUS
  <2>7. StateOK(evals[e], st2) /\ st2.next = "end"
    BY <1>4, <2>1, <2>6, CompletingState DEF GraphStates
  <2>8. PICK r2 : Moves(w, r2)
    BY <1>2, <1>6, <2>6, <2>7, StepMoves DEF CompleteNode
  <2>9. RowsMove /\ RowsOK' /\ KeepsClaim /\ CkptMoves(w)
    BY RowsStand, JobStands DEF CompleteNode, CkptMoves
  <2> QED BY <1>2, <2>5, <2>8, <2>9, MovePreserves DEF CompleteNode, Inv
<1> QED BY <1>1, <1>2, <1>3, <1>5, <1>6 DEF CompleteNode
-----------------------------------------------------------------------------
(* The claim, time and faults *)

LEMMA IdleRun ==
    ASSUME NEW ev
    PROVE  RunOK(ev, Idle) /\ Idle.pc = "off"
<1>1. Idle \in RunTypes /\ Idle.pc = "off" /\ Idle.st = None /\ Idle.unsaved = FALSE
  BY DEF Idle, RunTypes, Modes
<1> QED BY <1>1 DEF RunOK, Busy

\* A step that leaves rows, checkpoints and reports alone.
LEMMA QuietTables ==
    ASSUME Inv, evals' = evals, ckpt' = ckpt, reports' = reports, approvals' = approvals
    PROVE  RowsMove /\ RowsOK' /\ CkptsOK' /\ ReportsOK'
<1>1. RowsMove /\ RowsOK'
  BY RowsStand
<1>2. CkptsOK'
  BY DEF Inv, CkptsOK
<1> QED BY <1>1, <1>2, ReportsStay

LEMMA LeaseExpiresInv ==
    ASSUME Inv, LeaseExpires
    PROVE  Inv'
<1>1. RowsOK' /\ CkptsOK' /\ ReportsOK'
  BY QuietTables DEF LeaseExpires
<1>2. RunsOK'
  BY DEF LeaseExpires, Inv, RunsOK
<1>3. job \in JobTypes /\ job' = [job EXCEPT !.live = FALSE]
  BY DEF Inv, JobOK, LeaseExpires
<1>4. /\ job' \in JobTypes /\ job'.live = FALSE /\ job'.status = job.status
      /\ job'.mode = job.mode /\ job'.exec = job.exec
  BY <1>3 DEF JobTypes
<1>5. JobOK'
  BY <1>4 DEF Inv, JobOK
<1>6. ClaimOK'
  BY <1>4 DEF ClaimOK
<1>7. ApprovalsOK'
  BY <1>4 DEF Inv, ApprovalsOK, LeaseExpires
<1> QED BY <1>1, <1>2, <1>5, <1>6, <1>7 DEF Inv, LeaseExpires

LEMMA CrashInv ==
    ASSUME Inv, NEW w \in Workers, Crash(w)
    PROVE  Inv'
<1>1. RowsMove /\ RowsOK' /\ CkptsOK' /\ ReportsOK'
  BY QuietTables DEF Crash
<1>2. RunOK(evals', Idle) /\ run' = [run EXCEPT ![w] = Idle]
  BY IdleRun DEF Crash
<1>3. RunsOK'
  BY <1>1, <1>2, RunsMove
<1>4. job \in JobTypes
  BY DEF Inv, JobOK
<1>5. /\ job' \in JobTypes
      /\ job'.live => job.live /\ job.by # w
      /\ job'.status = job.status /\ job'.by = job.by
      /\ job'.mode = job.mode /\ job'.exec = job.exec
  <2>1. CASE job.by = w
    BY <1>4, <2>1 DEF Crash, JobTypes
  <2>2. CASE job.by # w
    BY <1>4, <2>2 DEF Crash
  <2> QED BY <2>1, <2>2
<1>6. JobOK'
  BY <1>5 DEF Inv, JobOK
<1>7. ClaimOK'
  <2> SUFFICES ASSUME NEW u \in Workers, job'.live, job'.by = u
               PROVE  /\ run'[u].pc # "off" /\ run'[u].exec = job'.exec
                      /\ job'.mode = "REVIEW_COMPLETE" => ReviewPhase(run'[u])
    BY DEF ClaimOK, ReviewPhase
  <2>1. u # w /\ run'[u] = run[u]
    BY <1>2, <1>5, RunFacts
  <2> QED BY <1>5, <2>1 DEF Inv, ClaimOK
<1>8. ApprovalsOK'
  BY <1>5 DEF Inv, ApprovalsOK, Crash
<1> QED BY <1>1, <1>3, <1>6, <1>7, <1>8 DEF Inv, Crash

LEMMA EvaluationDeadlinePassesInv ==
    ASSUME Inv, NEW e \in Execs, NEW a \in Attempts, EvaluationDeadlinePasses(e, a)
    PROVE  Inv'
<1>1. PICK old : old = evals[e][a]
  OBVIOUS
<1>2. RowOK(old, a) /\ old.status = "IN_PROGRESS"
  BY <1>1 DEF Inv, RowsOK, EvaluationDeadlinePasses
<1>3. PICK row : row = [old EXCEPT !.late = TRUE]
  OBVIOUS
<1>4. row \in RowTypes /\ row.status = old.status /\ row.fp = old.fp /\ row.verdict = old.verdict
  BY <1>2, <1>3 DEF RowOK, RowTypes
<1>5. RowOK(row, a) /\ RowStep(evals[e][a], row)
  BY <1>1, <1>2, <1>4 DEF RowOK, RowStep
<1>6. evals' = [evals EXCEPT ![e][a] = row]
  BY <1>1, <1>3 DEF EvaluationDeadlinePasses, Inv, RowsOK
<1>7. RowsMove /\ RowsOK'
  BY <1>5, <1>6, RowReplaced
<1>8. ReportsOK'
  BY <1>7, ReportsStay DEF EvaluationDeadlinePasses
<1>9. CkptsOK'
  <2>1. ASSUME NEW f \in Execs, ckpt[f] # None PROVE StateOK(evals'[f], ckpt[f])
    BY <1>7, <2>1, StateStays DEF Inv, CkptsOK, RowsMove
  <2> QED BY <2>1 DEF Inv, CkptsOK, EvaluationDeadlinePasses
<1>10. RunsOK'
  <2>1. ASSUME NEW u \in Workers PROVE RunOK(evals', run[u])
    BY <1>7, RunFacts, RunStays DEF RowsMove
  <2> QED BY <2>1 DEF Inv, RunsOK, EvaluationDeadlinePasses
<1>11. JobOK' /\ ClaimOK' /\ ApprovalsOK'
  BY DEF Inv, JobOK, ClaimOK, ReviewPhase, ApprovalsOK, EvaluationDeadlinePasses
<1> QED BY <1>7, <1>8, <1>9, <1>10, <1>11 DEF Inv, EvaluationDeadlinePasses

LEMMA ClaimAndBindInv ==
    ASSUME Inv, NEW w \in Workers, ClaimAndBind(w)
    PROVE  Inv'
<1>1. RowsMove /\ RowsOK' /\ CkptsOK' /\ ReportsOK'
  BY QuietTables DEF ClaimAndBind
<1>2. job \in JobTypes /\ job.mode \in Modes /\ job.exec \in Execs \cup {None}
  BY DEF Inv, JobOK, JobTypes
<1>3. PICK e \in Execs :
        /\ e = IF job.exec = None THEN 1
               ELSE IF job.mode = "JOB_RETRY" \/ job.exec = None THEN job.exec + 1 ELSE job.exec
        /\ job' = [job EXCEPT !.status = "RUNNING", !.by = w, !.live = TRUE, !.exec = e]
        /\ run' = [run EXCEPT ![w] = [Idle EXCEPT !.pc = "open", !.exec = e, !.mode = job.mode]]
  BY DEF ClaimAndBind
<1>4. PICK r2 : r2 = [Idle EXCEPT !.pc = "open", !.exec = e, !.mode = job.mode]
  OBVIOUS
<1>5. /\ r2 \in RunTypes /\ r2.pc = "open" /\ r2.exec = e /\ r2.mode = job.mode
      /\ r2.st = None /\ r2.unsaved = FALSE
  BY <1>2, <1>4 DEF Idle, RunTypes
<1>6. RunOK(evals', r2)
  BY <1>5 DEF RunOK, Busy
<1>7. RunsOK'
  BY <1>1, <1>3, <1>4, <1>6, RunsMove
<1>8. /\ job' \in JobTypes /\ job'.status = "RUNNING" /\ job'.by = w /\ job'.exec = e
      /\ job'.mode = job.mode
  BY <1>2, <1>3 DEF JobTypes
<1>9. JobOK'
  BY <1>8 DEF JobOK
<1>10. ClaimOK'
  <2> SUFFICES /\ run'[w].pc # "off" /\ run'[w].exec = job'.exec
               /\ job'.mode = "REVIEW_COMPLETE" => ReviewPhase(run'[w])
    BY <1>8 DEF ClaimOK, ReviewPhase
  <2>1. run'[w] = r2
    BY <1>3, <1>4, RunFacts
  <2> QED BY <1>5, <1>8, <2>1 DEF ReviewPhase
<1>11. ApprovalsOK'
  <2>1. approvals' = approvals
    BY DEF ClaimAndBind
  <2>2. ASSUME NEW f \in Execs, approvals[f] # None
        PROVE  f <= e /\ (f = e => job.mode = "REVIEW_COMPLETE")
    <3>1. /\ job.exec \in Execs /\ f <= job.exec
          /\ f = job.exec => \/ job.mode = "REVIEW_COMPLETE"
                             \/ job.mode = "JOB_RETRY" /\ job.status = "PENDING"
      BY <2>2 DEF Inv, ApprovalsOK
    <3>2. job.exec # None /\ job.exec \in Nat /\ f \in Nat
      BY <3>1, ConstantFacts
    <3>3. CASE job.mode = "JOB_RETRY"
      BY <1>3, <3>1, <3>2, <3>3
    <3>4. CASE job.mode # "JOB_RETRY"
      BY <1>3, <3>1, <3>2, <3>4
    <3> QED BY <3>3, <3>4
  <2> QED BY <1>8, <2>1, <2>2 DEF Inv, ApprovalsOK
<1> QED BY <1>1, <1>7, <1>9, <1>10, <1>11 DEF Inv, ClaimAndBind

-----------------------------------------------------------------------------
(* What becomes of the job *)

\* A worker ends its run; the job is its own no more.
LEMMA EndedRun ==
    ASSUME Inv, NEW w \in Workers, run' = [run EXCEPT ![w] = Idle],
           UNCHANGED <<links, ckpt, evals, approvals, reports>>,
           JobOK', ApprovalsOK', (job' = job /\ ~Owns(w)) \/ job'.live = FALSE
    PROVE  Inv'
<1>1. RowsMove /\ RowsOK' /\ CkptsOK' /\ ReportsOK'
  BY QuietTables
<1>2. RunsOK'
  BY <1>1, IdleRun, RunsMove
<1>3. ClaimOK'
  <2>1. CASE job'.live = FALSE
    BY <2>1 DEF ClaimOK
  <2>2. CASE job' = job /\ ~Owns(w)
    <3> SUFFICES ASSUME NEW u \in Workers, job.live, job.by = u
                 PROVE  /\ run'[u].pc # "off" /\ run'[u].exec = job.exec
                        /\ job.mode = "REVIEW_COMPLETE" => ReviewPhase(run'[u])
      BY <2>2 DEF ClaimOK, ReviewPhase
    <3>1. u # w
      BY <2>2 DEF Owns, Inv, JobOK
    <3>2. run'[u] = run[u]
      BY <3>1, RunFacts
    <3> QED BY <3>2 DEF Inv, ClaimOK
  <2> QED BY <2>1, <2>2
<1> QED BY <1>1, <1>2, <1>3 DEF Inv

LEMMA SettledJob ==
    ASSUME Inv, NEW status \in {"PENDING", "AWAITING_REVIEW", "COMPLETED", "FAILED"}
    PROVE  /\ Settled(status) \in JobTypes /\ Settled(status).status = status
           /\ Settled(status).live = FALSE /\ Settled(status).mode = job.mode
           /\ Settled(status).exec = job.exec /\ Settled(status).rc = job.rc
           /\ Settled(status).eac = job.eac /\ Settled(status).retries = job.retries
<1>1. job \in JobTypes
  BY DEF Inv, JobOK
<1> QED BY <1>1 DEF Settled, JobTypes

LEMMA PostInvokeInv ==
    ASSUME Inv, NEW w \in Workers, PostInvoke(w)
    PROVE  Inv'
<1>1. /\ run[w].pc = "post" /\ run' = [run EXCEPT ![w] = Idle]
      /\ UNCHANGED <<links, ckpt, evals, approvals, reports>>
  BY DEF PostInvoke
<1>2. CASE ~Owns(w)
  <2>1. job' = job
    BY <1>2 DEF PostInvoke
  <2>2. JobOK' /\ ApprovalsOK'
    BY <1>1, <2>1 DEF Inv, JobOK, ApprovalsOK
  <2> QED BY <1>1, <1>2, <2>1, <2>2, EndedRun
<1>3. CASE Owns(w)
  <2>1. PICK status \in {"AWAITING_REVIEW", "COMPLETED", "FAILED"} :
           job' = Settled(status) /\ (status = "AWAITING_REVIEW" => run[w].st.next = "complete")
    BY <1>3 DEF PostInvoke
  <2>2. /\ job' \in JobTypes /\ job'.status = status /\ job'.live = FALSE
        /\ job'.mode = job.mode /\ job'.exec = job.exec
    BY <2>1, SettledJob
  <2>3. job.mode = "REVIEW_COMPLETE" => ReviewPhase(run[w])
    BY <1>3 DEF Owns, Inv, ClaimOK
  <2>4. job.mode = "REVIEW_COMPLETE" => status # "AWAITING_REVIEW"
    BY <1>1, <2>1, <2>3 DEF ReviewPhase
  <2>5. job.exec \in Execs
    BY <1>3 DEF Owns, Inv, JobOK
  <2>6. JobOK'
    BY <2>2, <2>4, <2>5 DEF JobOK
  <2>7. ApprovalsOK'
    BY <1>1, <1>3, <2>2 DEF Inv, ApprovalsOK, Owns
  <2> QED BY <1>1, <2>2, <2>6, <2>7, EndedRun
<1> QED BY <1>2, <1>3

LEMMA HandleExceptionInv ==
    ASSUME Inv, NEW w \in Workers, HandleException(w)
    PROVE  Inv'
<1>1. /\ run' = [run EXCEPT ![w] = Idle]
      /\ UNCHANGED <<links, ckpt, evals, approvals, reports>>
  BY DEF HandleException
<1>2. CASE ~Owns(w)
  <2>1. job' = job
    BY <1>2 DEF HandleException
  <2>2. JobOK' /\ ApprovalsOK'
    BY <1>1, <2>1 DEF Inv, JobOK, ApprovalsOK
  <2> QED BY <1>1, <1>2, <2>1, <2>2, EndedRun
<1>3. CASE Owns(w) /\ DecideForException(run[w].transient, job.retries) = "retry"
  <2>1. job' = [Settled("PENDING") EXCEPT !.mode = "JOB_RETRY", !.retries = @ + 1]
    BY <1>3 DEF HandleException
  <2>2. PICK s : s = Settled("PENDING")
    OBVIOUS
  <2>3. /\ s \in JobTypes /\ s.status = "PENDING" /\ s.live = FALSE /\ s.exec = job.exec
        /\ s.retries = job.retries
    BY <2>2, SettledJob
  <2>4. PICK n : n = job.retries + 1
    OBVIOUS
  <2>5. n \in 0 .. MaxJobRetries
    BY <1>3, <2>4, PolicyAssumption DEF DecideForException, Inv, JobOK, JobTypes
  <2>6. job' = [s EXCEPT !.mode = "JOB_RETRY", !.retries = n]
    BY <2>1, <2>2, <2>3, <2>4
  <2>7. /\ job' \in JobTypes /\ job'.status = "PENDING" /\ job'.live = FALSE
        /\ job'.mode = "JOB_RETRY" /\ job'.exec = job.exec
    BY <2>3, <2>5, <2>6 DEF JobTypes, Modes
  <2>8. JobOK'
    BY <2>7 DEF JobOK
  <2>9. ApprovalsOK'
    BY <1>1, <2>7 DEF Inv, ApprovalsOK
  <2> QED BY <1>1, <2>7, <2>8, <2>9, EndedRun
<1>4. CASE Owns(w) /\ DecideForException(run[w].transient, job.retries) # "retry"
  <2>1. job' = Settled("FAILED")
    BY <1>4 DEF HandleException
  <2>2. /\ job' \in JobTypes /\ job'.status = "FAILED" /\ job'.live = FALSE
        /\ job'.mode = job.mode /\ job'.exec = job.exec
    BY <2>1, SettledJob
  <2>3. JobOK'
    BY <2>2 DEF JobOK
  <2>4. ApprovalsOK'
    BY <1>1, <1>4, <2>2 DEF Inv, ApprovalsOK, Owns
  <2> QED BY <1>1, <2>2, <2>3, <2>4, EndedRun
<1> QED BY <1>2, <1>3, <1>4

LEMMA RejectInv ==
    ASSUME Inv, Reject
    PROVE  Inv'
<1>1. RowsOK' /\ CkptsOK' /\ ReportsOK'
  BY QuietTables DEF Reject
<1>2. RunsOK'
  BY DEF Reject, Inv, RunsOK
<1>3. /\ job' \in JobTypes /\ job'.status = "FAILED" /\ job'.live = FALSE
      /\ job'.mode = job.mode /\ job'.exec = job.exec /\ job.status = "AWAITING_REVIEW"
  BY SettledJob DEF Reject
<1>4. JobOK' /\ ClaimOK'
  BY <1>3 DEF JobOK, ClaimOK
<1>5. ApprovalsOK'
  BY <1>3 DEF Inv, ApprovalsOK, Reject
<1> QED BY <1>1, <1>2, <1>4, <1>5 DEF Inv, Reject

LEMMA ApproveInv ==
    ASSUME Inv, Approve
    PROVE  Inv'
<1>1. PICK e \in Execs : e = job.exec
  BY DEF Approve, Inv, JobOK
<1>2. PICK a \in Attempts : /\ evals[e][a].status = "SUCCEEDED"
                            /\ approvals' = [approvals EXCEPT ![e] = evals[e][a].fp]
  BY <1>1 DEF Approve, FailedRuns
<1>3. PICK q : q = evals[e][a].fp
  OBVIOUS
<1>4. q \in Fingerprints
  BY <1>2, <1>3 DEF Inv, RowsOK, RowOK
<1>5. job.status = "AWAITING_REVIEW" /\ job \in JobTypes
      /\ job' = [job EXCEPT !.status = "PENDING", !.mode = "REVIEW_COMPLETE"]
  BY DEF Approve, Inv, JobOK
<1>6. /\ job' \in JobTypes /\ job'.status = "PENDING" /\ job'.live = job.live
      /\ job'.mode = "REVIEW_COMPLETE" /\ job'.exec = e
  BY <1>1, <1>5 DEF JobTypes, Modes
<1>7. ~job.live
  BY <1>5 DEF Inv, JobOK
<1>8. JobOK' /\ ClaimOK'
  BY <1>6, <1>7 DEF JobOK, ClaimOK
<1>9. approvals \in [Execs -> Fingerprints \cup {None}] /\ approvals[e] = None
  BY <1>1, <1>5 DEF Inv, ApprovalsOK, JobOK
<1>10. ApprovalsOK'
  <2>1. approvals' \in [Execs -> Fingerprints \cup {None}]
    BY <1>2, <1>3, <1>4, <1>9
  <2>2. ASSUME NEW f \in Execs, approvals'[f] # None PROVE f <= e
    <3>1. CASE f = e  BY <3>1, ConstantFacts
    <3>2. CASE f # e
      <4>1. approvals[f] # None
        BY <1>2, <1>9, <2>2, <3>2
      <4> QED BY <4>1, <1>1 DEF Inv, ApprovalsOK
    <3> QED BY <3>1, <3>2
  <2> QED BY <1>6, <2>1, <2>2 DEF ApprovalsOK
<1>11. ReportsOK'
  <2>1. reports' = reports /\ evals' = evals
    BY DEF Approve
  <2>2. ASSUME NEW f \in Execs, reports[f] # None
        PROVE  ReportOK(evals[f], reports[f], approvals'[f])
    <3>1. ReportOK(evals[f], reports[f], approvals[f])
      BY <2>2 DEF Inv, ReportsOK
    <3>2. CASE f = e  BY <1>9, <3>1, <3>2 DEF ReportOK
    <3>3. CASE f # e  BY <1>2, <1>9, <3>1, <3>3
    <3> QED BY <3>2, <3>3
  <2> QED BY <2>1, <2>2 DEF Inv, ReportsOK
<1>12. RowsOK' /\ CkptsOK' /\ RunsOK'
  BY DEF Approve, Inv, RowsOK, CkptsOK, RunsOK
<1> QED BY <1>8, <1>10, <1>11, <1>12 DEF Inv, Approve

-----------------------------------------------------------------------------
(* The invariant *)

LEMMA InitInv == Init => Inv
<1> SUFFICES ASSUME Init PROVE Inv
  OBVIOUS
<1>1. NoRun \in RowTypes /\ NoRun.status = "absent"
  BY DEF NoRun, RowTypes
<1>2. evals \in [Execs -> [Attempts -> RowTypes]] /\ \A e \in Execs, a \in Attempts : evals[e][a] = NoRun
  BY <1>1 DEF Init
<1>3. RowsOK
  BY <1>1, <1>2 DEF RowsOK, RowOK
<1>4. RunsOK
  <2>1. Idle \in RunTypes /\ RunOK(evals, Idle)
    BY IdleRun DEF RunOK
  <2> QED BY <2>1 DEF Init, RunsOK
<1>5. CkptsOK
  BY DEF Init, CkptsOK
<1>6. ApprovalsOK /\ ReportsOK
  BY DEF Init, ApprovalsOK, ReportsOK
<1>7. job \in JobTypes /\ job.live = FALSE /\ job.status = "PENDING" /\ job.mode = "NONE"
  BY PolicyAssumption DEF Init, JobTypes, Modes
<1>8. JobOK /\ ClaimOK
  BY <1>7 DEF JobOK, ClaimOK
<1> QED BY <1>3, <1>4, <1>5, <1>6, <1>8 DEF Inv, Init

LEMMA NextInv == Inv /\ [Next]_vars => Inv'
<1> SUFFICES ASSUME Inv, [Next]_vars PROVE Inv'
  OBVIOUS
<1>1. CASE LeaseExpires BY <1>1, LeaseExpiresInv
<1>2. CASE Approve BY <1>2, ApproveInv
<1>3. CASE Reject BY <1>3, RejectInv
<1>4. CASE \E e \in Execs, a \in Attempts : EvaluationDeadlinePasses(e, a)
  BY <1>4, EvaluationDeadlinePassesInv
<1>5. ASSUME NEW w \in Workers,
             \/ ClaimAndBind(w) \/ OpenThread(w) \/ SaveCheckpoint(w) \/ Crash(w) \/ NodeFails(w)
             \/ ValidateNode(w) \/ PlanNode(w) \/ ResearchNode(w) \/ DraftNode(w)
             \/ VerifyCitationsNode(w)
             \/ LoadGradingInputs(w) \/ ReplayRun(w) \/ BeginRun(w) \/ RefuseRun(w)
             \/ FinalizeSuccess(w) \/ FinalizeFailure(w)
             \/ PolicyNode(w) \/ PolicyCallback(w) \/ RepairNode(w) \/ AwaitReviewNode(w)
             \/ TerminalNode(w) \/ CompleteNode(w) \/ PostInvoke(w) \/ HandleException(w)
      PROVE  Inv'
  BY <1>5, ClaimAndBindInv, OpenThreadInv, SaveCheckpointInv, CrashInv, NodeFailsInv,
     ValidateNodeInv, PlanNodeInv, ResearchNodeInv, DraftNodeInv, VerifyCitationsNodeInv,
     LoadGradingInputsInv, ReplayRunInv, BeginRunInv, RefuseRunInv, FinalizeSuccessInv,
     FinalizeFailureInv, PolicyNodeInv, PolicyCallbackInv, RepairNodeInv, AwaitReviewNodeInv,
     TerminalNodeInv, CompleteNodeInv, PostInvokeInv, HandleExceptionInv
<1>6. CASE UNCHANGED vars
  BY <1>6 DEF vars, Inv, JobOK, ClaimOK, ReviewPhase, ApprovalsOK, RowsOK, RunsOK, CkptsOK, ReportsOK
<1> QED BY <1>1, <1>2, <1>3, <1>4, <1>5, <1>6 DEF Next

LEMMA GraphInvariant == Spec => []Inv
BY InitInv, NextInv, PTL DEF Spec

-----------------------------------------------------------------------------
(* What follows *)

\* The tables and the threads of one job hold values of their kinds, for any
\* workers, evidence, executions, caps and faults.
THEOREM GraphTypeCorrect == Spec => []TypeOK
<1>1. Inv => TypeOK
  <2> SUFFICES ASSUME Inv PROVE TypeOK
    OBVIOUS
  <2>1. job \in JobTypes /\ links \subseteq Items
    BY DEF Inv, JobOK
  <2>2. \A e \in Execs : ckpt[e] = None \/ ckpt[e] \in GraphStates
    BY DEF Inv, CkptsOK
  <2>3. \A w \in Workers : run[w].st = None \/ run[w].st \in GraphStates
    BY DEF Inv, RunsOK, RunTypes
  <2>4. \A e \in Execs : approvals[e] \in Fingerprints \cup {None}
    BY DEF Inv, ApprovalsOK
  <2> QED BY <2>1, <2>2, <2>3, <2>4 DEF TypeOK, JobTypes
<1> QED BY <1>1, GraphInvariant, PTL

\* Whoever runs the graph, and whatever was resumed, replayed or taken over, the
\* verdict a thread or a checkpoint carries is the recorded one on the draft it
\* carries (evaluate_node, begin_or_resume).
THEOREM GraphVerdicts == Spec => []VerdictIsAboutThisDraft
<1>1. ASSUME NEW e, NEW st, StateOK(evals[e], st) PROVE GradedAs(st, e)
  BY <1>1 DEF StateOK, Judged, GradedAs, Unchecked
<1>2. Inv => VerdictIsAboutThisDraft
  <2> SUFFICES ASSUME Inv PROVE VerdictIsAboutThisDraft
    OBVIOUS
  <2>1. ASSUME NEW w \in Workers, run[w].st # None PROVE GradedAs(run[w].st, run[w].exec)
    BY <1>1, <2>1, RunFacts DEF RunOK
  <2>2. ASSUME NEW e \in Execs, ckpt[e] # None PROVE GradedAs(ckpt[e], e)
    BY <1>1, <2>2 DEF Inv, CkptsOK
  <2> QED BY <2>1, <2>2 DEF VerdictIsAboutThisDraft
<1> QED BY <1>2, GraphInvariant, PTL

\* No report without a pass of that draft or an approval of that very candidate,
\* and none for a draft that failed a hard dimension (complete_node,
\* _completion_auth_checker, decide_for_evaluation).
THEOREM GraphAuthorized == Spec => []AcceptedWasAuthorized
<1>1. Inv => AcceptedWasAuthorized
  <2> SUFFICES ASSUME Inv, NEW e \in Execs, reports[e] # None,
                      NEW graded,
                      graded = {a \in Attempts : /\ evals[e][a].status = "SUCCEEDED"
                                                 /\ evals[e][a].fp.found = reports[e].found
                                                 /\ evals[e][a].fp.draft = reports[e].draft}
               PROVE  /\ \/ \E a \in graded : evals[e][a].verdict.passed
                         \/ /\ approvals[e] # None
                            /\ approvals[e].found = reports[e].found
                            /\ approvals[e].draft = reports[e].draft
                      /\ \A a \in graded : ~evals[e][a].verdict.hard
    BY DEF AcceptedWasAuthorized
  <2>1. PICK a \in Attempts : a = reports[e].draft + 1
    BY DEF Inv, ReportsOK, ReportOK
  <2>2. /\ evals[e][a].status = "SUCCEEDED" /\ evals[e][a].fp.found = reports[e].found
        /\ ~evals[e][a].verdict.hard
        /\ \/ evals[e][a].verdict.passed
           \/ /\ approvals[e] # None
              /\ approvals[e].found = reports[e].found /\ approvals[e].draft = reports[e].draft
    BY <2>1 DEF Inv, ReportsOK, ReportOK
  <2>3. \A b \in Attempts : evals[e][b].status = "SUCCEEDED" =>
          evals[e][b].fp.draft \in Nat /\ evals[e][b].fp.draft + 1 = b
    BY DEF Inv, RowsOK, RowOK, Fingerprints
  <2>4. reports[e].draft \in Nat
    BY DEF Inv, ReportsOK
  <2>5. a \in graded
    BY <2>1, <2>2, <2>3, <2>4
  <2>6. \A b \in graded : b = a
    BY <2>1, <2>3, <2>4
  <2> QED BY <2>2, <2>5, <2>6
<1> QED BY <1>1, GraphInvariant, PTL
-----------------------------------------------------------------------------
(* The fence of the evaluation runs *)

\* Who writes evaluation runs.
LEMMA RowWriters ==
    ASSUME Next
    PROVE  \/ evals' = evals
           \/ \E e \in Execs, a \in Attempts : EvaluationDeadlinePasses(e, a)
           \/ \E w \in Workers : BeginRun(w) \/ FinalizeSuccess(w) \/ FinalizeFailure(w)
BY DEF Next, LeaseExpires, Approve, Reject, ClaimAndBind, OpenThread, SaveCheckpoint, Crash,
       NodeFails, ValidateNode, PlanNode, ResearchNode, DraftNode, VerifyCitationsNode,
       LoadGradingInputs, ReplayRun, RefuseRun, PolicyNode, PolicyCallback, RepairNode,
       AwaitReviewNode, TerminalNode, CompleteNode, PostInvoke, HandleException

\* The step that finalizes a run writes that run's row and leaves the node.
LEMMA FinalizeWrites ==
    ASSUME Inv, NEW w \in Workers, FinalizeSuccess(w) \/ FinalizeFailure(w), evals' # evals
    PROVE  \E e \in Execs, a \in Attempts : \E row2 :
             /\ evals' = [evals EXCEPT ![e][a] = row2] /\ row2.status # "absent"
             /\ evals[e][a].status = "IN_PROGRESS" /\ evals[e][a].owner = w
             /\ run'[w] # run[w]
<1>1. run[w].pc = "grading"
  BY DEF FinalizeSuccess, FinalizeFailure
<1>2. PICK e \in Execs, a \in Attempts : e = run[w].exec /\ a = run[w].st.att + 1
  BY <1>1, EvaluateFacts
<1>3. EvalRow(w) = evals[e][a] /\ evals[e][a] \in RowTypes
  BY <1>2 DEF EvalRow, Inv, RowsOK
<1>4. OwnsRun(w)
  BY DEF FinalizeSuccess, FinalizeFailure
<1>5. evals[e][a].status = "IN_PROGRESS" /\ evals[e][a].owner = w
  BY <1>3, <1>4 DEF OwnsRun
<1>6. run'[w] # run[w]
  <2>1. ASSUME NEW st, Superstep(w, st) PROVE run'[w].pc # "grading"
    BY <2>1, RunFacts DEF Superstep, Idle
  <2>2. ASSUME NEW error, Raises(w, error) PROVE run'[w].pc # "grading"
    BY <2>2, RunFacts DEF Raises, Idle
  <2>3. run'[w].pc # "grading"
    BY <2>1, <2>2 DEF FinalizeSuccess, FinalizeFailure, Evaluated
  <2> QED BY <1>1, <2>3
<1>7. \E row2 : evals' = [evals EXCEPT ![e][a] = row2] /\ row2.status # "absent"
  <2>1. CASE FinalizeSuccess(w)
    <3>1. PICK v \in Verdicts :
             evals' = [evals EXCEPT ![e][a] = [Ended(w, "SUCCEEDED") EXCEPT !.verdict = v]]
      BY <1>2, <2>1 DEF FinalizeSuccess
    <3>2. [Ended(w, "SUCCEEDED") EXCEPT !.verdict = v].status = "SUCCEEDED"
      BY <1>3 DEF Ended, RowTypes
    <3> QED BY <3>1, <3>2
  <2>2. CASE FinalizeFailure(w)
    <3>1. evals' = [evals EXCEPT ![e][a] = Ended(w, "FAILED")]
      BY <1>2, <2>2 DEF FinalizeFailure
    <3>2. Ended(w, "FAILED").status = "FAILED"
      BY <1>3 DEF Ended, RowTypes
    <3> QED BY <3>1, <3>2
  <2> QED BY <2>1, <2>2
<1> QED BY <1>5, <1>6, <1>7

\* A run that begins was absent, failed or overdue.
LEMMA BeginWrites ==
    ASSUME Inv, NEW w \in Workers, BeginRun(w)
    PROVE  \E e \in Execs, a \in Attempts : \E row2 :
             /\ evals' = [evals EXCEPT ![e][a] = row2] /\ row2.status = "IN_PROGRESS"
             /\ evals[e][a] = EvalRow(w) /\ evals[e][a].status # "SUCCEEDED"
             /\ evals[e][a].status = "IN_PROGRESS" => evals[e][a].late
<1>1. run[w].pc = "begin" /\ MayBegin(w) /\ Grades(w) /\ EvalRow(w).status # "SUCCEEDED"
  BY DEF BeginRun
<1>2. PICK e \in Execs, a \in Attempts : e = run[w].exec /\ a = run[w].st.att + 1
  BY <1>1, EvaluateFacts
<1>3. evals' = [evals EXCEPT ![e][a] = Started(w)] /\ Started(w).status = "IN_PROGRESS"
  BY <1>1, <1>2 DEF Grades, Started
<1>4. EvalRow(w) = evals[e][a]
  BY <1>2 DEF EvalRow
<1>5. evals[e][a].status = "IN_PROGRESS" => evals[e][a].late
  BY <1>1, <1>4 DEF MayBegin, Reclaimable
<1> QED BY <1>1, <1>3, <1>4, <1>5

\* A verdict is final, and until its deadline a run changes only by a step of the
\* worker that owns it (finalize_success, finalize_failure, reclaim_run).
THEOREM GraphRunsFenced == Spec => RunsAreFenced
<1>1. Inv /\ [Next]_vars =>
        [\A e \in Execs, a \in Attempts :
           LET r == evals[e][a]
           IN  /\ r.status = "SUCCEEDED" => evals'[e][a] = r
               /\ r.status = "IN_PROGRESS" /\ ~r.late /\ evals'[e][a] # r =>
                    evals'[e][a].late \/ run'[r.owner] # run[r.owner]]_vars
  <2> SUFFICES ASSUME Inv, Next, NEW f \in Execs, NEW b \in Attempts,
                      NEW r, r = evals[f][b]
               PROVE  /\ r.status = "SUCCEEDED" => evals'[f][b] = r
                      /\ r.status = "IN_PROGRESS" /\ ~r.late /\ evals'[f][b] # r =>
                           evals'[f][b].late \/ run'[r.owner] # run[r.owner]
    OBVIOUS
  <2>1. CASE evals' = evals
    BY <2>1
  <2>2. ASSUME NEW e \in Execs, NEW a \in Attempts, EvaluationDeadlinePasses(e, a)
        PROVE  /\ r.status = "SUCCEEDED" => evals'[f][b] = r
               /\ r.status = "IN_PROGRESS" /\ ~r.late /\ evals'[f][b] # r => evals'[f][b].late
    <3>1. PICK row2 : row2 = [evals[e][a] EXCEPT !.late = TRUE]
      OBVIOUS
    <3>2. evals[e][a] \in RowTypes /\ evals[e][a].status = "IN_PROGRESS"
      BY <2>2 DEF Inv, RowsOK, EvaluationDeadlinePasses
    <3>3. evals' = [evals EXCEPT ![e][a] = row2]
      BY <2>2, <3>1 DEF EvaluationDeadlinePasses, Inv, RowsOK
    <3>4. evals'[f][b] = IF f = e /\ b = a THEN row2 ELSE evals[f][b]
      BY <3>3 DEF Inv, RowsOK
    <3>5. row2.late
      BY <3>1, <3>2 DEF RowTypes
    <3> QED BY <3>2, <3>4, <3>5
  <2>3. ASSUME NEW w \in Workers, BeginRun(w)
        PROVE  /\ r.status = "SUCCEEDED" => evals'[f][b] = r
               /\ r.status = "IN_PROGRESS" /\ ~r.late => evals'[f][b] = r
    <3>0. PICK e \in Execs, a \in Attempts : \E row2 :
             /\ evals' = [evals EXCEPT ![e][a] = row2]
             /\ evals[e][a].status # "SUCCEEDED"
             /\ evals[e][a].status = "IN_PROGRESS" => evals[e][a].late
      BY <2>3, BeginWrites
    <3>1. PICK row2 :
             /\ evals' = [evals EXCEPT ![e][a] = row2]
             /\ evals[e][a].status # "SUCCEEDED"
             /\ evals[e][a].status = "IN_PROGRESS" => evals[e][a].late
      BY <3>0
    <3>2. evals'[f][b] = IF f = e /\ b = a THEN row2 ELSE evals[f][b]
      BY <3>1 DEF Inv, RowsOK
    <3> QED BY <3>1, <3>2
  <2>4. ASSUME NEW w \in Workers, FinalizeSuccess(w) \/ FinalizeFailure(w), evals' # evals
        PROVE  /\ r.status = "SUCCEEDED" => evals'[f][b] = r
               /\ evals'[f][b] # r => run'[r.owner] # run[r.owner]
    <3>0. PICK e \in Execs, a \in Attempts : \E row2 :
             /\ evals' = [evals EXCEPT ![e][a] = row2]
             /\ evals[e][a].status = "IN_PROGRESS" /\ evals[e][a].owner = w
             /\ run'[w] # run[w]
      BY <2>4, FinalizeWrites
    <3>1. PICK row2 :
             /\ evals' = [evals EXCEPT ![e][a] = row2]
             /\ evals[e][a].status = "IN_PROGRESS" /\ evals[e][a].owner = w
             /\ run'[w] # run[w]
      BY <3>0
    <3>2. evals'[f][b] = IF f = e /\ b = a THEN row2 ELSE evals[f][b]
      BY <3>1 DEF Inv, RowsOK
    <3> QED BY <3>1, <3>2
  <2> QED BY <2>1, <2>2, <2>3, <2>4, RowWriters
<1> QED BY <1>1, GraphInvariant, PTL DEF Spec, RunsAreFenced

-----------------------------------------------------------------------------
(* The counters of the job *)

Repairs == {d \in decisions : d.action = "repair"}
Begun == {p \in Execs \X Attempts : evals[p[1]][p[2]].status # "absent"}

CountInv ==
    /\ IsFiniteSet(decisions)
    /\ job.rc = Cardinality(Repairs)
    /\ job.eac = Cardinality(Begun)

LEMMA BegunFinite == IsFiniteSet(Begun)
<1>1. IsFiniteSet(Execs) /\ IsFiniteSet(Attempts)
  BY GraphAssumption, PolicyAssumption, FS_Interval DEF Attempts
<1>2. IsFiniteSet(Execs \X Attempts)
  BY <1>1, FS_Product
<1>3. Begun \subseteq Execs \X Attempts
  BY DEF Begun
<1> QED BY <1>2, <1>3, FS_Subset

\* Every step but the two that count leaves the counters and what they count
\* as they are.
LEMMA CountersStand ==
    ASSUME Inv, Next, \A w \in Workers : ~BeginRun(w) /\ ~PolicyCallback(w)
    PROVE  job'.rc = job.rc /\ job'.eac = job.eac /\ decisions' = decisions /\ Begun' = Begun
<1>1. job \in JobTypes
  BY DEF Inv, JobOK
<1>2. decisions' = decisions
  BY DEF Next, LeaseExpires, Approve, Reject, EvaluationDeadlinePasses, ClaimAndBind, OpenThread,
         SaveCheckpoint, Crash, NodeFails, ValidateNode, PlanNode, ResearchNode, DraftNode,
         VerifyCitationsNode, LoadGradingInputs, ReplayRun, RefuseRun, FinalizeSuccess,
         FinalizeFailure, PolicyNode, RepairNode, AwaitReviewNode, TerminalNode, CompleteNode,
         PostInvoke, HandleException
<1>3. job'.rc = job.rc /\ job'.eac = job.eac
  <2>1. CASE job' = job
    BY <2>1
  <2>2. CASE LeaseExpires \/ Approve
    BY <1>1, <2>2 DEF LeaseExpires, Approve, JobTypes
  <2>3. CASE Reject
    BY <2>3, SettledJob DEF Reject
  <2>4. ASSUME NEW w \in Workers, ClaimAndBind(w) \/ Crash(w)
        PROVE  job'.rc = job.rc /\ job'.eac = job.eac
    BY <1>1, <2>4 DEF ClaimAndBind, Crash, JobTypes
  <2>5. ASSUME NEW w \in Workers, PostInvoke(w)
        PROVE  job'.rc = job.rc /\ job'.eac = job.eac
    BY <2>5, SettledJob DEF PostInvoke
  <2>6. ASSUME NEW w \in Workers, HandleException(w)
        PROVE  job'.rc = job.rc /\ job'.eac = job.eac
    <3>1. PICK s : s = Settled("PENDING")
      OBVIOUS
    <3>2. s \in JobTypes /\ s.rc = job.rc /\ s.eac = job.eac
      BY <3>1, SettledJob
    <3>3. \/ job' = job \/ job' = Settled("FAILED")
          \/ job' = [s EXCEPT !.mode = "JOB_RETRY", !.retries = @ + 1]
      BY <2>6, <3>1 DEF HandleException
    <3>4. [s EXCEPT !.mode = "JOB_RETRY", !.retries = @ + 1].rc = job.rc
          /\ [s EXCEPT !.mode = "JOB_RETRY", !.retries = @ + 1].eac = job.eac
      BY <3>2 DEF JobTypes
    <3> QED BY <3>3, <3>4, SettledJob
  <2>7. \/ job' = job \/ LeaseExpires \/ Approve \/ Reject
        \/ \E w \in Workers : ClaimAndBind(w) \/ Crash(w) \/ PostInvoke(w) \/ HandleException(w)
    BY DEF Next, EvaluationDeadlinePasses, OpenThread, SaveCheckpoint, NodeFails, ValidateNode,
           PlanNode, ResearchNode, DraftNode, VerifyCitationsNode, LoadGradingInputs, ReplayRun,
           RefuseRun, FinalizeSuccess, FinalizeFailure, PolicyNode, RepairNode, AwaitReviewNode,
           TerminalNode, CompleteNode
  <2> QED BY <2>1, <2>2, <2>3, <2>4, <2>5, <2>6, <2>7
<1>4. Begun' = Begun
  <2>1. CASE evals' = evals
    BY <2>1 DEF Begun
  <2>2. ASSUME NEW e \in Execs, NEW a \in Attempts, NEW row2,
               evals' = [evals EXCEPT ![e][a] = row2],
               evals[e][a].status # "absent", row2.status # "absent"
        PROVE  Begun' = Begun
    <3>1. \A f \in Execs : \A b \in Attempts :
            evals'[f][b] = IF f = e /\ b = a THEN row2 ELSE evals[f][b]
      BY <2>2 DEF Inv, RowsOK
    <3>2. \A p \in Execs \X Attempts :
            evals'[p[1]][p[2]].status # "absent" <=> evals[p[1]][p[2]].status # "absent"
      BY <2>2, <3>1
    <3> QED BY <3>2 DEF Begun
  <2>3. ASSUME NEW e \in Execs, NEW a \in Attempts, EvaluationDeadlinePasses(e, a)
        PROVE  Begun' = Begun
    <3>1. PICK row2 : row2 = [evals[e][a] EXCEPT !.late = TRUE]
      OBVIOUS
    <3>2. evals[e][a] \in RowTypes /\ evals[e][a].status = "IN_PROGRESS"
      BY <2>3 DEF Inv, RowsOK, EvaluationDeadlinePasses
    <3>3. evals' = [evals EXCEPT ![e][a] = row2]
      BY <2>3, <3>1 DEF EvaluationDeadlinePasses, Inv, RowsOK
    <3>4. row2.status = "IN_PROGRESS"
      BY <3>1, <3>2 DEF RowTypes
    <3> QED BY <2>2, <3>2, <3>3, <3>4
  <2>4. ASSUME NEW w \in Workers, FinalizeSuccess(w) \/ FinalizeFailure(w), evals' # evals
        PROVE  Begun' = Begun
    <3>0. PICK e \in Execs, a \in Attempts : \E row2 :
             /\ evals' = [evals EXCEPT ![e][a] = row2] /\ row2.status # "absent"
             /\ evals[e][a].status = "IN_PROGRESS"
      BY <2>4, FinalizeWrites
    <3>1. PICK row2 :
             /\ evals' = [evals EXCEPT ![e][a] = row2] /\ row2.status # "absent"
             /\ evals[e][a].status = "IN_PROGRESS"
      BY <3>0
    <3> QED BY <2>2, <3>1
  <2> QED BY <2>1, <2>3, <2>4, RowWriters
<1> QED BY <1>2, <1>3, <1>4

LEMMA BeginCounts ==
    ASSUME Inv, CountInv, NEW w \in Workers, BeginRun(w)
    PROVE  CountInv'
<1>0. PICK e \in Execs, a \in Attempts : \E row2 :
         /\ evals' = [evals EXCEPT ![e][a] = row2] /\ row2.status = "IN_PROGRESS"
         /\ evals[e][a] = EvalRow(w)
  BY BeginWrites
<1>1. PICK row2 :
         /\ evals' = [evals EXCEPT ![e][a] = row2] /\ row2.status = "IN_PROGRESS"
         /\ evals[e][a] = EvalRow(w)
  BY <1>0
<1>2. \A f \in Execs : \A b \in Attempts :
        evals'[f][b] = IF f = e /\ b = a THEN row2 ELSE evals[f][b]
  BY <1>1 DEF Inv, RowsOK
<1>3. job \in JobTypes /\ job.eac \in Nat
  BY DEF Inv, JobOK, JobTypes
<1>4. /\ job' = [job EXCEPT !.eac = IF CountsAttempt(EvalRow(w)) THEN @ + 1 ELSE @]
      /\ decisions' = decisions
  BY DEF BeginRun
<1>5. job'.rc = job.rc
  BY <1>3, <1>4 DEF JobTypes
<1>6. CASE evals[e][a].status = "absent"
  <2>1. job'.eac = job.eac + 1
    BY <1>1, <1>3, <1>4, <1>6 DEF CountsAttempt, JobTypes
  <2>2. Begun' = Begun \cup {<<e, a>>} /\ <<e, a>> \notin Begun
    <3>1. \A p \in Execs \X Attempts :
            evals'[p[1]][p[2]].status # "absent" <=>
              evals[p[1]][p[2]].status # "absent" \/ p = <<e, a>>
      BY <1>1, <1>2
    <3> QED BY <1>6, <3>1 DEF Begun
  <2>3. Cardinality(Begun') = Cardinality(Begun) + 1
    BY <2>2, BegunFinite, FS_AddElement
  <2> QED BY <1>4, <1>5, <2>1, <2>3 DEF CountInv, Repairs
<1>7. CASE evals[e][a].status # "absent"
  <2>1. job'.eac = job.eac
    BY <1>1, <1>3, <1>4, <1>7 DEF CountsAttempt, JobTypes
  <2>2. Begun' = Begun
    <3>1. \A p \in Execs \X Attempts :
            evals'[p[1]][p[2]].status # "absent" <=> evals[p[1]][p[2]].status # "absent"
      BY <1>1, <1>2, <1>7
    <3> QED BY <3>1 DEF Begun
  <2> QED BY <1>4, <1>5, <2>1, <2>2 DEF CountInv, Repairs
<1> QED BY <1>6, <1>7

LEMMA DecisionCounts ==
    ASSUME Inv, CountInv, NEW w \in Workers, PolicyCallback(w)
    PROVE  CountInv'
<1>1. PICK d : d = DecisionRow(w)
  OBVIOUS
<1>2. Begun' = Begun
  BY DEF PolicyCallback, Begun
<1>3. job \in JobTypes /\ job.rc \in Nat
  BY PolicyAssumption DEF Inv, JobOK, JobTypes
<1>4. \/ job' = job /\ decisions' = decisions
      \/ /\ decisions' = decisions \cup {d}
         /\ job' = [job EXCEPT !.rc = IF d \notin decisions /\ d.action = "repair"
                                        THEN @ + 1 ELSE @]
  BY <1>1 DEF PolicyCallback
<1>5. CASE job' = job /\ decisions' = decisions
  BY <1>2, <1>5 DEF CountInv, Repairs
<1>6. CASE /\ decisions' = decisions \cup {d}
           /\ job' = [job EXCEPT !.rc = IF d \notin decisions /\ d.action = "repair"
                                          THEN @ + 1 ELSE @]
  <2>1. job'.eac = job.eac
    BY <1>3, <1>6 DEF JobTypes
  <2>2. IsFiniteSet(decisions')
    BY <1>6, FS_AddElement DEF CountInv
  <2>3. IsFiniteSet(Repairs)
    BY FS_Subset DEF CountInv, Repairs
  <2>4. CASE d \notin decisions /\ d.action = "repair"
    <3>1. job'.rc = job.rc + 1
      BY <1>3, <1>6, <2>4 DEF JobTypes
    <3>2. Repairs' = Repairs \cup {d} /\ d \notin Repairs
      BY <1>6, <2>4 DEF Repairs
    <3>3. Cardinality(Repairs') = Cardinality(Repairs) + 1
      BY <2>3, <3>2, FS_AddElement
    <3> QED BY <1>2, <2>1, <2>2, <3>1, <3>3 DEF CountInv
  <2>5. CASE ~(d \notin decisions /\ d.action = "repair")
    <3>1. job'.rc = job.rc
      BY <1>3, <1>6, <2>5 DEF JobTypes
    <3>2. Repairs' = Repairs
      BY <1>6, <2>5 DEF Repairs
    <3> QED BY <1>2, <2>1, <2>2, <3>1, <3>2 DEF CountInv
  <2> QED BY <2>4, <2>5
<1> QED BY <1>4, <1>5, <1>6

\* The repair count of the job is the number of recorded decisions to repair and
\* its evaluation count the number of runs that exist, whatever is taken over,
\* replayed or decided twice (begin_or_resume, _policy_callback).
THEOREM GraphCounters == Spec => []CountersAgree
<1>1. Init => CountInv
  <2> SUFFICES ASSUME Init PROVE CountInv
    OBVIOUS
  <2>1. Repairs = {} /\ Begun = {}
    BY DEF Init, Repairs, Begun, NoRun
  <2> QED BY <2>1, FS_EmptySet DEF Init, CountInv
<1>2. Inv /\ CountInv /\ [Next]_vars => CountInv'
  <2> SUFFICES ASSUME Inv, CountInv, [Next]_vars PROVE CountInv'
    OBVIOUS
  <2>1. CASE UNCHANGED vars
    BY <2>1 DEF vars, CountInv, Repairs, Begun
  <2>2. CASE Next /\ \A w \in Workers : ~BeginRun(w) /\ ~PolicyCallback(w)
    BY <2>2, CountersStand DEF CountInv, Repairs
  <2>3. ASSUME NEW w \in Workers, BeginRun(w) PROVE CountInv'
    BY <2>3, BeginCounts
  <2>4. ASSUME NEW w \in Workers, PolicyCallback(w) PROVE CountInv'
    BY <2>4, DecisionCounts
  <2> QED BY <2>1, <2>2, <2>3, <2>4
<1>3. CountInv => CountersAgree
  BY DEF CountInv, CountersAgree, Repairs, Begun
<1> QED BY <1>1, <1>2, <1>3, GraphInvariant, PTL DEF Spec
=============================================================================
