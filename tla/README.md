# Atlas: a TLA+ verification project

Atlas turns a research question into a cited report. The HTTP API stores a job,
workers claim jobs and run a LangGraph workflow over language models and tools,
an operator may have to approve the result, and every change of a job's state is
announced as a domain event through a transactional outbox, a Kafka topic and a
projection consumer. PostgreSQL holds all the state that must survive; every
process may crash, stall or be replaced at any point.

This directory models the protocols that keep this consistent: who may change a
job, what the workflow pays for and how often, which verdict and which evidence a
report rests on, in which order events leave, what a consumer does with them, and
how an operator repairs what it could not apply. Paths below are relative to
`src/src/atlas/` unless they start with `docs/`.

## 1. Inventory

| part | state | operations | interacts with | what is hard | correct when |
|---|---|---|---|---|---|
| job table, domain state machine (`domain/research_job.py`, `persistence/repositories/research_job.py`) | `research_jobs` | add, claim_next, finalize, schedule_retry, transition_awaiting_review, approve, fail_from_review, bind | worker, processor, review; writes events into the outbox | leases, stale tokens, lease boundaries, continuation modes | one owner at a time; terminal is final; every commit satisfies the CHECK constraints and enqueues its event |
| worker (`application/worker.py`) | a claim, a processor thread | claim, wait, time out, finalize | job table, processor | a timeout does not stop the thread; a failed finalization leaves the job RUNNING | no job is lost or finalized twice |
| processor (`workflow/processor.py`) | `workflow_executions`, checkpoints, reports, policy decisions | bind, resume, run, pause, retry, complete | job table, recovery policy | four transactions per outcome, unfenced checkpoints, replayed decisions | COMPLETED has its report; one RUNNING execution per job |
| graph (`workflow/graph.py`) | the state of a thread, counters on the job row | the eleven nodes and the routes between them | ledgers, evidence, evaluation, policy | saves in the background, a second worker in the same thread | what the nodes act on is about the draft they hold |
| recovery policy (`recovery/`) | decisions | categorize, decide, fingerprint | processor, graph | the count that is read is not the count that is written | the caps hold, a decision is counted once |
| review (`application/review.py`) | review decisions | submit_decision | job table, checkpoints | check and decision are separate transactions | a decision is taken once, on a paused job |
| outbox and relay (`persistence/repositories/outbox.py`, `outbox/`) | `outbox_events`, advisory lock | enqueue, claim, publish, mark, release | job transactions, Kafka | late commits, late deliveries, two relays, crashes between publish and mark | at least once, and in order per job |
| consumer (`consumer/`) | inbox, projection, dead letters, offsets | poll, apply, dead-letter, commit | topic, group | rebalances, lost answers, redelivery | nothing skipped, every event applied once and in order |
| dead-letter replay (`consumer/replay.py`, `persistence/repositories/consumer_dead_letter.py`) | replay state, attempts | claim, apply, record failure | consumer's tables | leases, reused keys, lost answers | one owner, one effect, settled is final |
| model and tool ledgers (`models/service.py`, `tools/service.py`, `mcp/server.py`) | invocations and attempts | begin, take over, call, finalize, replay | nodes of the graph, MCP clients | the provider is called between two transactions; late answers | one output per key, no second call after a success or in time |
| evaluation (`evaluation/`) | evaluation runs and dimensions | begin, resume, reclaim, grade, finalize, replay | graph, policy, ledger | inputs read before the run begins, deadlines, ownership | one recorded verdict per candidate, written by its owner |
| evidence and embeddings (`evidence/`, `specialists/`, `persistence/repositories/evidence.py`, `embedding.py`) | sources, documents, items, vectors, links, reports | ingest, embed, retrieve, link, pack, verify, persist | API clients, nodes of the graph | concurrent inserts of one identity, embedding after the commit, lock order | ids refer to stored rows, accepted citations verify |
| coordination (`coordination/`) | Redis counters and heartbeats | hit, beat | API, worker | failing open, expiry | advisory only |
| advisor, observability, configuration, HTTP routing | none that others depend on | | | | |

`PROJECT.json` lists the same parts with their status, and the hazards at the
lines where they bite.

## 2. Modules

```
ResearchJobs  <-- refines --  JobLifecycle          EventLog  <-- refines --  OutboxRelay
                                                        |
RecoveryPolicy <-- WorkflowGraph                    Consumer (its order as a hypothesis)
EvidenceText   <-- EvidenceStore                    DeadLetterReplay
InvocationLedger
```

`M_proofs` holds the theorems about module `M`: there is one for `ResearchJobs`,
`JobLifecycle`, `OutboxRelay`, `Consumer`, `DeadLetterReplay`, `InvocationLedger`,
`WorkflowGraph` and `EvidenceStore`.

* **ResearchJobs**: the job table as an abstract specification. `jobs` holds the
  rows, `outbox` the events enqueued with them, `spent` the tokens drawn. One action per
  repository transaction, each open to any caller with any token: the table must
  be right whoever calls it. `RowSpec` is what everybody else relies on.
* **JobLifecycle**: workers, processor threads and operators. One action per
  transaction or per stretch without one; a thread's program counter says which
  transaction comes next, so a reclaim, a timeout, a crash or a decision of an
  operator can come between any two. The checkpointer of LangGraph is external
  and modelled by what the processor reads of it: where the thread stands.
  `ImplementsRows` is the refinement of `ResearchJobs`.
* **EventLog**: the promise of the outbox: committed events only, any number of
  copies, each job's events in order the first time.
* **OutboxRelay**: the outbox table with identity positions drawn at INSERT and
  visible at COMMIT, relays, the advisory lock as PostgreSQL and as the relay see
  it, publishes whose fate is unknown. `ImplementsEventLog` is the refinement.
* **Consumer**: consumer processes over a topic that anybody writes, with a group
  that reassigns the partition. Two of the properties speak of a topic in the
  order of `EventLog` (`InOrder`), which is what the relays guarantee
  (`OutboxKeepsOrder`).
* **DeadLetterReplay**: the three transactions of a replay by several operators,
  beside the consumer. Its clocks are unconstrained: each transaction may find
  a lease expired or not.

* **RecoveryPolicy**: the graders, the verdict and the two policies as pure
  operators over abstract candidates; scores are fractions, so the thresholds
  are exact.
* **WorkflowGraph**: what happens inside one job. The state of a thread is the
  part of `ResearchGraphState` that routes it; one action per node, several for
  the evaluate and policy nodes, which commit in between. A superstep and the
  save of its checkpoint are separate actions (`SaveCheckpoint`; LangGraph is
  external), so a worker can be one node ahead of what a successor will read.
  Claims, leases and executions are what the graph sees of `JobLifecycle`, which
  has them transaction by transaction.
* **InvocationLedger**: one idempotency key of the model or the tool ledger and
  everybody who calls it. The services have the same two-table protocol; `kind`
  chooses between their rules for retries and takeovers.
* **EvidenceText**: chunking, source identity, ranking, merge and context pack as
  operators. A text is its length. `Distance` ranks documents: the id that breaks a
  tie in `ORDER BY distance, id` is part of it. What the code writes as a filter or
  a sort is written as positions and ranks (`Selected`, `Ranked`), which can be
  proved about; the windows are a recursive function, as they are a loop in the code.
* **EvidenceStore**: the transactions around them. Uncommitted rows are kept per
  actor (`tx`), an insert that meets another actor's uncommitted key waits. It has
  claims only as far as `persist_final` asks for them, and all claims of a job
  share one execution.

Data is abstracted to what the properties tell apart. A claim token is a number
drawn once (the code draws 256 random bits). Timestamps become the result of the
comparison the code makes (`lease_expires_at > at`, `< now`); with
`SkewedClocks` any result may be observed, otherwise a lease is live until an
action lets it expire. A report, a payload or an error text is not represented. A
transaction is one action when it locks the row before it reads, and several
when it reads without a lock what it uses later (`_handle_exception`,
`_terminal_execution_for_claim`, `claim_batch`, `record_and_apply`,
`submit_decision`). The UPDATE that ends an execution is thus two actions, the
statement with its unlocked subselect (`CompleteExecution`) and the commit
(`CommitCompletion`), and the inbox and the projection are read by one action
each. In `begin_or_resume` the job row is read before the wait for the run's lock;
there `MayBegin` lets a worker whose claim is gone take a run over or be refused.

## 3. Runs

| run | instance | shows |
|---|---|---|
| `job_safety` | 1 job, 2 workers, 3 claims, 3 executions, 1 retry, 1 fault, skewed clocks | the claim fence, the events, executions, reports and pauses stay consistent, and the lifecycle implements `ResearchJobs` |
| `job_liveness` | 2 workers of different profiles, 5 claims, exact clocks | every job ends or waits for an operator; a job stays with its profile |
| `finalize_window` (violation) | as `job_safety` | a crash between the completion of a reviewed execution and of its job fails the job |
| `late_end` (violation) | 2 claims, 2 executions, 1 fault, exact clocks | the commit of a processor that lost its claim fails the execution of a job that its successor has paused |
| `outbox_safety` | 2 jobs, 2 relays, 3 rows, 4 claims, batches of 1, 2 faults, skewed clocks | per-job order and at-least-once, with two relays and late records |
| `outbox_liveness` | 2 jobs, 2 relays, 2 rows, 7 claims, batches of 2, 2 faults | row fencing, every event is published |
| `consumer_safety` | 2 jobs of 2 events, 2 consumers, 3 records, 2 faults, any topic | nothing below the committed offset is unhandled, every record is handled, terminal projections stay; on an ordered topic projections follow the story and only applied events are refused |
| `commit_exhaustion` (violation) | 1 job of 2 events, 1 consumer, 2 records, 2 faults | exhausted offset commits do not end the process |
| `replay_safety` | 2 operators, 2 keys, 2 fingerprints, 4 records, 3 attempts, 2 faults | one owner per letter, one effect per event, settled is final |
| `ledger_safety` | any kind of key, 3 callers, 3 attempts, 2 rounds | the tables agree, a success is final and the only output returned, nobody pays twice for a call in time |
| `graph_safety` | 2 workers, 2 executions, 1 repair, 1 retry, 3 evaluations, 2 faults | verdict, approval and counters belong to the draft at hand; evaluation runs are fenced |
| `evidence_safety` | 2 workers, 1 API client, 2 jobs, 1 posted document, 1 fault | one row per identity, accepted citations verify, vectors are there, links do not deadlock, windows cover the text |

**Bounds.** Two actors and one fault more than a claim needs are what the races
are made of: a holder, a taker, and the holder's late step. Three tokens let a
job be claimed, reclaimed and claimed again; three executions let a retry follow
a resume; `MaxJobRetries = 1` puts every run at the cap. Three rows of two jobs
let a row commit late between two of another job. Three records hold a story of two
events and a duplicate, or a stranger among them. One job is enough where jobs share nothing but the claim
query (`FOR UPDATE SKIP LOCKED`); the theorems of section 5 cover any number.
Three callers are a worker, its successor and a late one; three attempts let an
attempt be superseded and its successor fail. In `WorkflowGraph` a node that
commits nothing waits for the save before it (`PureStep`), so a thread's
checkpoint lags by one committing node at most; two faults are a lost lease and a
crash of the successor. `Verdict` is evaluated over every candidate with up to
two claims, two tool calls and three tasks, so the verdicts the graph meets are
exactly those the graders can give. The texts of `EvidenceStore` are one window,
one code point more, the most that fits three windows, and one code point too
many; the embedding batch of 2 makes three windows two batches; the urls of one page
are spelt with a fragment, a default port, plainly, not at all and with a scheme
that is refused. `MAX_EMBED_ITEMS_PER_CALL` equals `MAX_CHUNKS_PER_DOCUMENT`
(64), so the cap of one embedding call is not represented.
Deadlock is not checked: with every job terminal, every row published and every
bound used up the systems rightly stop.

**Fairness.** *Jobs*: weak fairness of claiming, of each thread's and worker's
next step, of restarts and of time. The worker is a loop around these steps; that
a dead worker is started again is an assumption about the deployment
(`docker-compose.yml` sets no restart policy). *Relay*: weak fairness of the
steps of a relay, of taking the free lock and of leases expiring; strong fairness
of `ClaimBatch`, because `SKIP LOCKED` lets one of two contenders through but may
refuse the other for a while. *Consumer*: weak fairness of restarts, of
assignment and of each process. No fault, commit of another transaction, failing
publish or decision of an operator is ever owed. Faults are finite (`MaxFaults`):
a system that fails at every step makes no progress. The ledger, graph and
evidence runs check safety only: that a provider call comes to an end is a matter
of its timeout, and that a job goes on after a crash is `EveryJobSettles`.

## 4. What the checks taught

* The claim is no fence for what commits late. `_terminal_execution_for_claim`
  checks it in a subselect that locks nothing, so its commit can come after another
  worker has reclaimed the job and resumed the same execution; and checkpoints are
  not fenced at all. A job that waits for an operator can therefore own an execution
  that is COMPLETED or FAILED (`late_end`), and `submit_decision` refuses to decide
  it. What holds is `ExecutionsAgree`: the execution is the job's own, nobody has
  abandoned it, and no second one is RUNNING; and `FencedWrites`: of all endings of
  an execution one wins.
* A crash between the interrupt checkpoint and `transition_awaiting_review`
  makes the next claim resume behind the review node; the node refuses to
  complete without an authorisation and the job fails rather than completing
  (`AcceptedWasAuthorized`).
* A timeout fails the job and leaves its execution RUNNING; a rejection by the
  operator enqueues no `failed` event.
* With batches of two or more `ImplementsEventLog` is violated: rows that commit
  between the SELECTs of one claim are skipped within it. `outbox/__main__.py:295`
  passes a batch size of 1, and must; the setting of 50 in the configuration is
  not used by the process.
* `claim_batch` writes `publish_attempts` back from the row it peeked at, not from
  the one it locked, so a claim of another relay in between goes uncounted; the
  docstring at `persistence/repositories/outbox.py:92` says it "counts claim
  attempts (incremented once per row successfully claimed here)", and
  `docs/TECHNICAL_DESIGN.md:228` says the same. The column decides nothing (the
  advisor reports its maximum) and is not modelled. Whether the peeked row is
  claimable is decided from the same stale reading, so a live lease can be taken over
  in spite of the barrier described there; the fence by token makes that harmless
  (`FencedRows`, `ImplementsEventLog`).
* `lock.held` is a local flag, so two relays can be active after PostgreSQL drops
  the first one's connection. Order survives, because each takes only the head
  and marks are fenced by token.
* After exhausted offset commits the consumer polls on. Nothing is skipped, but
  the last record of a quiet topic can stay uncommitted; `EveryRecordHandled`
  therefore speaks of handling, not of committing.
* An event that was applied can be dead-lettered. After a rebalance one consumer
  reads an empty inbox, the other applies the terminal event, and the first one then
  reads a terminal projection and takes the event for an order violation.
  `docs/TECHNICAL_DESIGN.md:251` says that "An exact redelivery of the same
  `event_id` never reaches this check", and the docstring at
  `persistence/repositories/research_job_projection.py:31` the same. On an ordered topic
  this is the only way to be refused (`RefusedWasApplied`), so nothing is lost, but
  an operator finds a letter whose replay is a duplicate.
* An attempt IN_PROGRESS always carries its letter's current token. The converse,
  which the docstring of `DeadLetterReplayService` also states, does not hold: a
  letter keeps the token of an attempt that was given up by its own key until
  the next claim.
* A late answer of the processor is harmless but not silent: `docs/TECHNICAL_DESIGN.md:169`
  says the processor never returns an outcome after ownership loss, while
  `workflow/processor.py:385` returns a completed job's result and recorded
  decisions without comparing the token. `finalize_completion` then refuses it.
* Publication is in order per job, not by `outbox_position` as the docstring at
  `outbox/relay.py:7` says: a position is drawn at INSERT and visible at COMMIT.
* A replay whose commit answer is lost ends in `ReplayOwnershipLostError` although
  it was applied (`consumer/replay_errors.py:47` says it never is); a retry with
  the same key reports it as applied.

*Graph and evaluation*

* A crash after `_policy_callback` commits and before the checkpoint of the policy
  node makes the next claim decide the same evaluation with the counters already
  moved. The first decision was a repair, the second may be "exhausted": the
  counted repair is never made. `CountersAgree` holds throughout; what does not
  is that one evaluation has one decision.
* The grading fingerprint contains the links of the whole job. A worker that lost
  its claim and links one more item makes the replay of a finished evaluation a
  conflict, which is final; so is an evaluation run that a new claimant meets
  within the 25 seconds of its deadline.
* The policy takes the first failed hard dimension, and the dimensions are read back
  ORDER BY `dimension_name` (`evaluation/repository.py:268`): a draft that fails both
  `report_structure` and `tool_use` counts as a structure failure and is repaired.
  The comment at `recovery/policy.py:353` says that tool policy is "always immediately
  terminal". No such draft is accepted or put up for review either way
  (`AcceptedWasAuthorized`).
* With a threshold of 0.70 and three tasks `completeness` passes only if all
  three are satisfied (2/3 < 0.70).

*Ledgers*

* `_can_reclaim` asks whether the job has any valid claim. A worker that takes the
  job over from a killed one holds such a claim itself, so it is refused the
  stale call of its predecessor as long as it holds the job
  (`docs/TECHNICAL_DESIGN.md:113` speaks of "the owning research-job claim").
  The refusal is final for the job (`categorize_exception`).
* TX1 locks the invocation before the attempt, TX2 the attempt before the
  invocation. PostgreSQL may abort either; `Aborts` covers it, and the ledger stays
  consistent because the attempt then counts as stale.

*Evidence*

* The race between two inserts of one document needs an existing source: with a
  new one the second writer already waits at the source's unique key.
* Links are inserted in the order of retrieval, distance and then id. Two
  transactions of one job agree on that order only because they query the same
  plan and question.
* A batch that contains a window of white space only is refused by
  `EmbedTextsRequest` as a whole. The comment at `evidence/service.py:99` says
  missing vectors can be backfilled; for such a batch another ingestion fails
  the same way, and nothing else backfills.
* The HNSW search limits its candidates before it filters by source kind, so near
  search hits can displace every corpus item. `PackClaimsVerify` does not depend
  on what was found.

The three violation runs are findings in `PROJECT.json`, with the lines they
disagree with.

## 5. Proofs

The `_proofs` modules are checked by TLAPS for any sets of jobs, workers, tokens,
executions, relays, consumers, callers, operators, clients and keys, any topic, any
texts and windows and any bounds. The assumptions are the ones in the modules: `None` is no member of the
sets it stands beside, the caps and the bounds are natural numbers, the executions
of a job are numbered from 1, a topic is a sequence of events, the overlap of windows
is smaller than a window (`chunk_normalized_text` checks it), no text is empty (so
does the normaliser) and no two documents are at one distance. Nothing is
assumed about clocks, schedulers or the number of faults. Every invariant and
action property of the runs of these eight modules is a theorem; each invariant
that the proofs add was first checked by TLC on the instance of the module's run.

*ResearchJobs.* `RowInv` is `RowTypeOK`, `StatusFields` and `OutboxMatchesRow`;
it is inductive for every transaction with every token (`RowsConsistent`).
`TerminalIsFinal` follows because every transaction requires a status that is not
terminal. `RetriesAnnounced` counts events in the outbox and needs lemmas about
the number of `retry_scheduled` events in an appended sequence.

*JobLifecycle.* The invariant is

    Inv == TypeOK /\ RowInv /\ TokensOK /\ ThreadsOK

`TokensOK` says that the tokens on rows and in threads have been drawn and that
no two threads share one. `ThreadsOK` says what a thread knows as long as its
token is still on the row: the row is bound to the execution it works on, and the
retry count it read is the row's and below the cap. Without them neither the retry cap nor
"paused with an execution" can be shown, because the count is read in one
transaction and used in a later one. One lemma per action shows that it preserves
`Inv` and is a step of `ResearchJobs` or a stutter; `LifecycleImplementsRows`
combines them, and `LifecycleStatusFields`, `LifecycleOutbox`,
`LifecycleRetriesAnnounced` and `LifecycleTerminalIsFinal` are then inherited
from the theorems about `ResearchJobs`.

The other properties are layers on top of `Inv`. Lemmas about who changes what
(`RowMoves`, `ExecMoves`, `ThreadMoves`, `DecisionMoves`) come first: they give
`LifecycleFencedWrites` almost at once, and let each layer look only at the steps
that concern it.

* `LifecycleBoundProfile` needs only that no claim is granted across profiles and
  that a profile, once bound, is never changed.
* `ExecInv` (`LifecycleExecutionsAgree`): the active execution of a row is its
  job's own (`ActiveOK`), and as long as a thread holds the claim nobody has
  abandoned its execution (`BoundOK`). It may have been completed or failed: a thread
  that has passed the check commits whether or not it still has the claim, so the
  argument is not about who holds the claim but about who may abandon (the claim
  holder, under the row lock of the job) and about the status the commit looks at again.
* `ReportInv` (`LifecycleCompletedHasReport`): a checkpoint with a result, a
  COMPLETED execution and a thread on its way to complete one each imply that the
  report of that execution is persisted, and a thread that completes a review runs
  no node before `complete_node`. The property of the row is the last link of this
  chain.
* `DecisionInv` (`LifecycleDeferred`): a decision on record has had its effect. A
  retry was counted after it, and a job that runs again, at the same count, on an
  execution it has paused with was approved and does not pause. So whoever finds a
  fingerprint on record has no claim left; retry counts that only grow are what
  makes the fingerprints distinct.

*OutboxRelay.* The invariant is

    Inv == TypeOK /\ StoryOK /\ FlagsOK /\ RelaysOK /\ InflightOK /\ PublishedIsInLog

`StoryOK` says that a row's predecessor in the story of its job is committed at a
lower position; `FlagsOK` that only committed rows are claimed or published.
`RelaysOK` says what a relay has to show for its program counter: a head it peeked
at, or a batch of one, is deliverable (its predecessor is in the log), and what it
is about to mark is in the log. `InflightOK` says that a copy whose fate is unknown
is deliverable too: it may reach the log long after its relay lost the row.
`OutboxRefinesEventLog` has `BatchSize = 1` as its hypothesis, the value `main`
passes: with larger batches the argument does not hold, because a batch is claimed
by several SELECTs. `OutboxKeepsOrder` follows under the same hypothesis: what
`EventLog` allows to be delivered keeps the topic in order (`DeliveredInOrder`). It
is the premise under which the consumer's last two theorems speak.

*Consumer.* The invariant is

    Inv == TypeOK /\ ProcsOK /\ DeadOK /\ CommittedIsHandled

`ProcsOK` says that all records before the one a consumer holds are handled, and
what it knows of its own; `DeadOK` that letters are about records they fit. The key lemma,
`WritersShareRecord`, says that two consumers that could both still write hold the
same record, so that the primary keys let one of them through. `StoryInv` adds that,
as long as every event follows its predecessor in the topic (`InOrder`), the inbox
holds the first events of each story up to the projection; then whatever is refused
has been applied (`ConsumerRefusesOnlyApplied`) and the projection only moves forward
(`ConsumerFollowsStory`). `InOrder` is a condition on the topic inside these two
properties and in no other.

*DeadLetterReplay.* The invariant is

    Inv == TypeOK /\ TokensOK /\ LocksOK /\ InProgressHoldsToken /\ AppliedOnce

`TokensOK` says that the tokens of letters and of invocations are attempts at that
letter and that only decoded records are attempted; `LocksOK` that an invocation
between TX2's locks and its commit still owns its letter, and alone (this is what
the row lock gives, and without it the commit could settle an attempt that was
superseded). `ReplayHoldsToken`, `ReplayAppliedOnce` and `ReplayTypeCorrect` follow
from it. The same lemmas show that each step leaves finished attempts and replayed
letters alone, which is `ReplaySettledIsFinal`. Time plays no part in the
argument: a transaction may find any lease expired or not.

*InvocationLedger.* The invariant is

    Inv == TypeOK /\ LedgerAgrees /\ ReturnsCommittedOutput /\ CallsOK /\ ClaimOK

`CallsOK` says that a call under way is about an attempt of its own caller, and
that this is the attempt the tables hold open or one whose deadline passed before it
was superseded; `ClaimOK` that the calls of an MCP client belong to no job. The
invariants follow from it, the two action properties from the same case
distinction.

*WorkflowGraph.* The invariant `Inv` is a conjunction of

* `Progress` of every state in a thread or a checkpoint: it has had one evaluation
  per repair and one more after the evaluate node, and its draft carries the number
  of its repair. So the attempt it asks for exists, and attempt `a` is about draft
  `a - 1`, which makes the run on record for a draft unique;
* `Judged`: the run of the latest attempt has succeeded and is about this draft,
  and a state on its way to the report has not failed a hard dimension (a verdict
  with a failed hard dimension, whichever of them is read first, has not passed and
  has a category for which the policy never says review: `VerdictFacts`,
  `DecisionFacts`);
* `RunOK` of a worker inside a node: the fingerprint it read is of the state it
  holds and of the run it grades;
* `ClaimOK` and `ApprovalsOK`: after an approval the claim can only complete, so
  an execution is approved once. Without this a second approval could take away
  the authorization of a report that exists.

A run keeps its candidate once begun and everything once succeeded (`RowStep`);
this alone carries `Judged` and `RunOK` through the steps of other workers and
through unfenced saves. `GraphRunsFenced` is a case distinction over the writers of
evaluation runs, `GraphCounters` adds cardinalities of the decisions and of the
runs that exist. The graders are opaque here: the theorems hold for whatever
scores they give.

*EvidenceStore.* The first half is about the operators of `EvidenceText`. `Ranks`:
in a finite set under a strict total order, the number of smaller elements is a
bijection to the places; so `Ranked` is sorted and `Selected` returns the elements
asked for. `WindowsExist` and `WindowsCover`: the recursion that cuts a text is well
defined and its windows cover the text without a gap, for every length, window and
overlap; both by the least counterexample, because the induction theorems of the
library cannot be instantiated. `PackIs`: the context pack is a prefix. The
invariant is

    Inv == TablesOK /\ ActorsOK /\ UniqueRows /\ SourcesOK
           /\ \A a : Roles(a) /\ HeldOK(a) /\ LinkingOK(a)
           /\ refused = FALSE

`UniqueRows` says that a document has one row, committed or not: this is what the
wait for another transaction's key gives, and without the uncommitted rows two
commits could store it twice. `SourcesOK` says that the source of a stored row is
stored, and that of a row being written is stored or in the same transaction;
`HeldOK` that what a process holds or has merged is stored and linked, and what is
neither embedded nor waiting for a batch does not exist; `LinkingOK` that the links
of a transaction are the first ones of a sorted list. `StoreNoWaitCycle` follows: in a
cycle each of two links would be nearer than the other. The strict order needs that
two vectors of one window of one document cannot exist, which is `UniqueRows` again.

Model-checked only: the liveness properties (`EveryJobSettles`,
`EveryEventPublished`, `EveryRecordHandled`), because fairness and ENABLED are beyond the prover.

## 6. Not modelled

Payload fields and serialization of events (one record is well-formed or not),
metrics, logs and spans, the text of prompts and reports, vectors and their
arithmetic, tool adapters, the read-only advisor, the rate limiter (one atomic
script that fails open) and the heartbeat, configuration and HTTP routing: no
state that a modelled part depends on. The weighted aggregate of an evaluation
decides nothing. The arithmetic of deadlines and backoff is abstracted to the
outcomes "retry" and "give up", or to time passing.

Node attempts are an audit log and are left out, with one consequence:
`begin_node_attempt` numbers them by max + 1 under a unique index, so two workers
in one thread can collide there, and the IntegrityError ends whichever comes second.

## 7. Plan

1. `WorkflowGraph` as a refinement of the checkpoint positions of `JobLifecycle`.
2. Idempotency keys of submission and review; node attempts; the fixed-window
   rate limiter.
