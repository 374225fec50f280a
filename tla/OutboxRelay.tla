----------------------------- MODULE OutboxRelay -----------------------------
(***************************************************************************)
(* The outbox_events table (persistence/repositories/outbox.py), the       *)
(* transactions that insert into it, and the relay processes that move its *)
(* rows into the Kafka topic (outbox/relay.py, outbox/__main__.py) under a *)
(* singleton advisory lock (outbox/relay_lock.py).                         *)
(*                                                                         *)
(* A row takes its outbox_position when it is inserted and is visible when *)
(* its transaction commits.  A relay claims the head of the unpublished    *)
(* rows, publishes outside any transaction and marks the row in another.   *)
(* A lease is "live" (now < lease) or "expired" (lease <= now).            *)
(*                                                                         *)
(* publish_attempts, which no step of the relay reads, is left out: it is  *)
(* written back from the row as claim_batch first saw it (Peek), so that a *)
(* claim by another relay in between goes uncounted.                       *)
(***************************************************************************)
EXTENDS Naturals, Sequences, FiniteSets

CONSTANTS
    Jobs,         \* aggregates: the research jobs
    Relays,       \* relay processes
    None,         \* SQL NULL
    BatchSize,    \* batch_size of OutboxRelay
    MaxRows,      \* bound: insertions into outbox_events
    MaxClaims,    \* bound: claim tokens drawn
    MaxFaults,    \* bound: failed publishes, stops, lost locks, early expiries
    SkewedClocks  \* whether clock readings may be stale or differ by host

ASSUME BatchAssumption == BatchSize \in Nat \ {0}
ASSUME BoundAssumption == MaxRows \in Nat /\ MaxClaims \in Nat /\ MaxFaults \in Nat
ASSUME NoneAssumption == None \notin Nat /\ None \notin Relays
ASSUME SkewAssumption == SkewedClocks \in BOOLEAN

VARIABLES
    rows,     \* outbox_events by outbox_position, open transactions included
    enqueued, \* number of events committed for each job
    log,      \* the records of the topic
    inflight, \* records handed to the broker whose fate the relay never learnt
    drawn,    \* number of claim tokens drawn
    lock,     \* who holds the advisory lock, as PostgreSQL sees it
    relay,    \* the relay processes
    faults

dbVars == <<rows, enqueued>>
vars == <<rows, enqueued, log, inflight, drawn, lock, relay, faults>>

Positions == DOMAIN rows
Committed == {p \in Positions : rows[p].state = "committed"}

Off == [pc |-> "off", head |-> 0, batch |-> <<>>, token |-> 0, stop |-> FALSE]

Init ==
    /\ rows = <<>>
    /\ enqueued = [j \in Jobs |-> 0]
    /\ log = <<>>
    /\ inflight = {}
    /\ drawn = 0
    /\ lock = None
    /\ relay = [r \in Relays |-> Off]
    /\ faults = 0

Fault == faults < MaxFaults /\ faults' = faults + 1

-----------------------------------------------------------------------------
(* Transactions that enqueue: ResearchJobs has them *)

NextEvent(j) == <<j, enqueued[j] + 1>>

\* enqueue: the position comes from an identity sequence at INSERT.  Two
\* transactions of one job exclude each other by the job's row lock.
Enqueue(j) ==
    /\ Len(rows) < MaxRows
    /\ \A p \in Positions : ~(rows[p].state = "open" /\ rows[p].event[1] = j)
    /\ rows' = Append(rows, [state |-> "open", event |-> NextEvent(j),
                             published |-> FALSE, token |-> None, lease |-> "none"])
    /\ UNCHANGED <<enqueued, log, inflight, drawn, lock, relay, faults>>

Commit(p) ==
    /\ rows[p].state = "open"
    /\ rows' = [rows EXCEPT ![p].state = "committed"]
    /\ enqueued' = [enqueued EXCEPT ![rows[p].event[1]] = @ + 1]
    /\ UNCHANGED <<log, inflight, drawn, lock, relay, faults>>

\* The position is not given back.
Rollback(p) ==
    /\ rows[p].state = "open"
    /\ rows' = [rows EXCEPT ![p].state = "aborted"]
    /\ UNCHANGED <<enqueued, log, inflight, drawn, lock, relay, faults>>

-----------------------------------------------------------------------------
(* The repository *)

Observed(phase) == IF SkewedClocks THEN {"live", "expired"} ELSE {phase}

Unpublished == {p \in Committed : ~rows[p].published}

\* Mutant: any unpublished row will do.
IsHead_anyRow(p) == p \in Unpublished
IsHead(p) == p \in Unpublished /\ \A q \in Unpublished : p <= q

\* Mutant: a claim whose relay died is never taken over.
IsClaimable_unclaimedOnly(p) == ~rows[p].published /\ rows[p].token = None
\* _is_claimable
IsClaimable(p) ==
    /\ ~rows[p].published
    /\ rows[p].token = None \/ "expired" \in Observed(rows[p].lease)

\* The contiguous runs of unpublished rows from p on that can be claimed whole.
Runs(p) ==
    {run \in {{q \in Unpublished : p <= q /\ q <= last} : last \in Unpublished} :
        /\ p \in run /\ Cardinality(run) <= BatchSize
        /\ \A q \in run \ {p} : IsClaimable(q)}

Ascending(run) ==
    [i \in 1 .. Cardinality(run) |->
        CHOOSE p \in run : Cardinality({q \in run : q <= p}) = i]

\* Mutant: the claim token is not compared.
OwnsRow_anyToken(p, tok) == ~rows[p].published /\ "live" \in Observed(rows[p].lease)
\* The WHERE clause of mark_published and of release_failed_claim.
OwnsRow(p, tok) ==
    rows[p].token = tok /\ ~rows[p].published /\ "live" \in Observed(rows[p].lease)
LosesRow(p, tok) ==
    rows[p].token = tok /\ ~rows[p].published => "expired" \in Observed(rows[p].lease)

Unclaimed(row) == [row EXCEPT !.token = None, !.lease = "none"]

-----------------------------------------------------------------------------
(* The relay process *)

\* lock.acquire at startup, or when it fails the process exits again.
Acquire(r) ==
    /\ relay[r].pc = "off"
    /\ lock = None
    /\ lock' = r
    /\ relay' = [relay EXCEPT ![r].pc = "idle"]
    /\ UNCHANGED <<dbVars, log, inflight, drawn, faults>>

\* PostgreSQL drops the dedicated connection: another process can take the
\* lock, while lock.held goes on saying True.
LockLost(r) ==
    /\ lock = r
    /\ lock' = None
    /\ Fault
    /\ UNCHANGED <<dbVars, log, inflight, drawn, relay>>

\* The process ends: a signal, a crash, a terminal outcome or a failed
\* transaction.  Claims it holds stay in the table.
StopRelay(r) ==
    /\ relay' = [relay EXCEPT ![r] = Off]
    /\ lock' = IF lock = r THEN None ELSE lock

Stop(r) ==
    /\ relay[r].pc # "off"
    /\ StopRelay(r)
    /\ Fault
    /\ UNCHANGED <<dbVars, log, inflight, drawn>>

\* claim_batch peeks at the head in one SELECT and locks it in another.
Peek(r) ==
    /\ relay[r].pc = "idle"
    /\ \E p \in Unpublished :
         /\ IsHead(p) /\ IsClaimable(p)
         /\ relay' = [relay EXCEPT ![r].pc = "claim", ![r].head = p]
    /\ UNCHANGED <<dbVars, log, inflight, drawn, lock, faults>>

\* Rows can be locked by the transactions of another relay (SKIP LOCKED).
Contended(r) == \E s \in Relays \ {r} : relay[s].pc # "off"

\* The head is locked or taken by now: claim_batch returns nothing.
ClaimNothing(r) ==
    /\ relay[r].pc = "claim" /\ Contended(r)
    /\ relay' = [relay EXCEPT ![r].pc = "idle", ![r].head = 0]
    /\ UNCHANGED <<dbVars, log, inflight, drawn, lock, faults>>

ClaimedRow(row, tok) == [row EXCEPT !.token = tok, !.lease = "live"]

\* The head and the rows after it, as many as fit; fewer when one is locked.  The
\* second SELECT of a session may return the object of the first with the
\* attributes it had then: another relay may have claimed the head since.
ClaimBatch(r) ==
    LET head == relay[r].head
    IN  /\ relay[r].pc = "claim" /\ ~rows[head].published
        /\ drawn < MaxClaims
        /\ drawn' = drawn + 1
        /\ \E run \in Runs(head) :
             /\ (\A other \in Runs(head) : other \subseteq run) \/ Contended(r)
             /\ rows' = [p \in Positions |->
                           IF p \in run THEN ClaimedRow(rows[p], drawn') ELSE rows[p]]
             /\ relay' = [relay EXCEPT ![r] = [@ EXCEPT !.pc = "publish", !.head = 0,
                                        !.token = drawn', !.batch = Ascending(run)]]
        /\ UNCHANGED <<enqueued, log, inflight, lock, faults>>

\* A claim on a row that was published in between: the UPDATE violates
\* ck_outbox_events_published_clears_claim and the poll loop ends.
ClaimRefused(r) ==
    /\ relay[r].pc = "claim" /\ rows[relay[r].head].published
    /\ StopRelay(r)
    /\ UNCHANGED <<dbVars, log, inflight, drawn, faults>>

\* publish returns: the broker has the record.
Publish(r) ==
    /\ relay[r].pc = "publish"
    /\ log' = Append(log, rows[Head(relay[r].batch)].event)
    /\ relay' = [relay EXCEPT ![r].pc = "mark"]
    /\ UNCHANGED <<dbVars, inflight, drawn, lock, faults>>

\* Mutant: a failed publish is taken for a delivery.
PublishFails_marks(r) ==
    /\ relay[r].pc = "publish"
    /\ inflight' = inflight \cup {<<rows[Head(relay[r].batch)].event, relay[r].token>>}
    /\ relay' = [relay EXCEPT ![r].pc = "mark"]
    /\ Fault
    /\ UNCHANGED <<dbVars, log, drawn, lock>>

\* publish raises: the record may be in the topic, may get there later, or not.
\* After a fatal or unexpected error the process ends once claims are released.
PublishFails(r) ==
    /\ relay[r].pc = "publish"
    /\ inflight' = inflight \cup {<<rows[Head(relay[r].batch)].event, relay[r].token>>}
    /\ \E stop \in BOOLEAN : relay' = [relay EXCEPT ![r].pc = "release", ![r].stop = stop]
    /\ Fault
    /\ UNCHANGED <<dbVars, log, drawn, lock>>

Lands(copy) ==
    /\ copy \in inflight
    /\ log' = Append(log, copy[1])
    /\ inflight' = inflight \ {copy}
    /\ UNCHANGED <<dbVars, drawn, lock, relay, faults>>

Vanishes(copy) ==
    /\ copy \in inflight
    /\ inflight' = inflight \ {copy}
    /\ UNCHANGED <<dbVars, log, drawn, lock, relay, faults>>

\* What remains of the batch, and what the relay does with it.
Continue(r, rest, pc) ==
    IF rest # <<>>
    THEN relay' = [relay EXCEPT ![r].batch = rest, ![r].pc = pc] /\ UNCHANGED lock
    ELSE IF relay[r].stop
    THEN StopRelay(r)
    ELSE relay' = [relay EXCEPT ![r] = [Off EXCEPT !.pc = "idle"]] /\ UNCHANGED lock

\* mark_published; when the claim is lost the rest of the batch is released.
Mark(r) ==
    LET p == Head(relay[r].batch)
        rest == Tail(relay[r].batch)
    IN  /\ relay[r].pc = "mark"
        /\ \/ /\ OwnsRow(p, relay[r].token)
              /\ rows' = [rows EXCEPT ![p] = [Unclaimed(@) EXCEPT !.published = TRUE]]
              /\ Continue(r, rest, "publish")
           \/ /\ LosesRow(p, relay[r].token)
              /\ Continue(r, rest, "release")
              /\ UNCHANGED rows
        /\ UNCHANGED <<enqueued, log, inflight, drawn, faults>>

\* _release_owned, _release_remaining: one transaction per row.
Release(r) ==
    LET p == Head(relay[r].batch)
    IN  /\ relay[r].pc = "release"
        /\ \/ OwnsRow(p, relay[r].token) /\ rows' = [rows EXCEPT ![p] = Unclaimed(@)]
           \/ LosesRow(p, relay[r].token) /\ UNCHANGED rows
        /\ Continue(r, Tail(relay[r].batch), "release")
        /\ UNCHANGED <<enqueued, log, inflight, drawn, faults>>

\* A lease runs out, under a relay that still works on the row (a fault) or not.
LeaseExpires(p) ==
    /\ ~SkewedClocks
    /\ rows[p].lease = "live"
    /\ rows' = [rows EXCEPT ![p].lease = "expired"]
    /\ IF \E r \in Relays : relay[r].pc # "off" /\ relay[r].token = rows[p].token
       THEN Fault
       ELSE UNCHANGED faults
    /\ UNCHANGED <<enqueued, log, inflight, drawn, lock, relay>>

-----------------------------------------------------------------------------
Running(r) ==
    \/ Peek(r) \/ ClaimNothing(r) \/ ClaimBatch(r) \/ ClaimRefused(r)
    \/ Publish(r) \/ PublishFails(r) \/ Mark(r) \/ Release(r)

Next ==
    \/ \E j \in Jobs : Enqueue(j)
    \/ \E p \in Positions : Commit(p) \/ Rollback(p) \/ LeaseExpires(p)
    \/ \E copy \in inflight : Lands(copy) \/ Vanishes(copy)
    \/ \E r \in Relays : Acquire(r) \/ LockLost(r) \/ Stop(r) \/ Running(r)

Spec == Init /\ [][Next]_vars

\* Processes are scheduled and restarted, time passes, and of two transactions
\* that want one row's lock one gets it.  No fault is ever owed, no commit either.
Fairness ==
    /\ \A p \in 1 .. MaxRows : WF_vars(p \in Positions /\ LeaseExpires(p))
    /\ WF_vars(\E r \in Relays : Acquire(r))
    /\ \A r \in Relays :
         /\ SF_vars(ClaimBatch(r))
         /\ WF_vars(Peek(r) \/ ClaimRefused(r) \/ Publish(r) \/ Mark(r) \/ Release(r))

FairSpec == Spec /\ Fairness

-----------------------------------------------------------------------------
(* Correctness *)

Events == Jobs \X (Nat \ {0})

OutboxRow == [state : {"open", "committed", "aborted"}, event : Events,
              published : BOOLEAN, token : Nat \cup {None},
              lease : {"none", "live", "expired"}]

Relay == [pc : {"off", "idle", "claim", "publish", "mark", "release"},
          head : Nat, batch : Seq(Nat), token : Nat, stop : BOOLEAN]

\* Rows, records and processes hold values of their declared kinds.
TypeOK ==
    /\ rows \in Seq(OutboxRow)
    /\ enqueued \in [Jobs -> Nat]
    /\ log \in Seq(Events)
    /\ inflight \subseteq Events \X Nat
    /\ drawn \in Nat
    /\ lock \in Relays \cup {None}
    /\ relay \in [Relays -> Relay]
    /\ faults \in Nat

EL == INSTANCE EventLog WITH Jobs <- Jobs, enqueued <- enqueued, log <- log

\* The relays keep the promise of EventLog: only committed events are published,
\* and the events of one job come in their order the first time, whatever
\* crashes, times out, loses its lock, or is delivered again.
ImplementsEventLog == EL!LogSpec

\* mark_published never loses an event: what counts as published is in the topic.
PublishedIsInLog == \A p \in Committed : rows[p].published => EL!InLog(rows[p].event)

\* A claimed row is written by the relay that holds its token, by a relay that
\* claims it anew, or by time; a published row is never written again.
FencedRows ==
    [][\A p \in Positions :
         /\ rows[p].published => rows'[p] = rows[p]
         /\ rows[p].token # None /\ rows'[p] # rows[p] =>
              \/ rows'[p] = [rows[p] EXCEPT !.lease = "expired"]
              \/ rows'[p].token = drawn' /\ drawn' # drawn
              \/ \E r \in Relays : relay'[r] # relay[r] /\ relay[r].token = rows[p].token]_vars

\* Every event whose transaction committed is published and marked in the end.
EveryEventPublished ==
    \A p \in 1 .. MaxRows :
      (p \in Committed) ~> (p \in Committed /\ rows[p].published)
=============================================================================
