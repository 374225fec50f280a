-------------------------- MODULE OutboxRelay_proofs --------------------------
(***************************************************************************)
(* Theorems about OutboxRelay, for any number of jobs, relays, rows, claims*)
(* and faults and any clocks.  The order of a job's events needs batches   *)
(* of one row, as the relay process is deployed; everything else holds for *)
(* batches of any size.                                                    *)
(***************************************************************************)
EXTENDS OutboxRelay, SequenceTheorems, FiniteSetTheorems, WellFoundedInduction, TLAPS

-----------------------------------------------------------------------------
(* The inductive invariant *)

\* An event that may be delivered: it is committed, and its predecessor of the
\* same job is in the topic.
Deliverable(event) ==
    /\ event[2] <= enqueued[event[1]]
    /\ event[2] # 1 => EL!InLog(<<event[1], event[2] - 1>>)

\* The rows of a job that were not rolled back have the job's events, each once
\* and each at a higher position than its predecessor.
StoryOK ==
    /\ \A p \in Positions :
         /\ rows[p].state = "committed" => rows[p].event[2] <= enqueued[rows[p].event[1]]
         /\ rows[p].state = "open" => rows[p].event[2] = enqueued[rows[p].event[1]] + 1
         /\ rows[p].state # "aborted" /\ rows[p].event[2] # 1 =>
              \E q \in Positions :
                /\ q < p /\ rows[q].state = "committed"
                /\ rows[q].event = <<rows[p].event[1], rows[p].event[2] - 1>>
    /\ \A p, q \in Positions :
         rows[p].state # "aborted" /\ rows[q].state # "aborted"
           /\ rows[p].event = rows[q].event => p = q
    /\ \A j \in Jobs : enqueued[j] # 0 =>
         \E q \in Positions : rows[q].state = "committed" /\ rows[q].event = <<j, enqueued[j]>>

\* Only committed rows are claimed or published, and a published row is nobody's.
FlagsOK ==
    \A p \in Positions :
      /\ rows[p].state # "committed" =>
           ~rows[p].published /\ rows[p].token = None /\ rows[p].lease = "none"
      /\ rows[p].published => rows[p].token = None /\ rows[p].lease = "none"

\* What a relay has to show for its program counter.
Fine(x) ==
    /\ x.pc = "claim" => x.head \in Committed /\ Deliverable(rows[x.head].event)
    /\ x.pc \in {"publish", "mark", "release"} =>
         /\ x.batch # <<>>
         /\ \A i \in DOMAIN x.batch : x.batch[i] \in Committed
         /\ BatchSize = 1 => Len(x.batch) = 1
    /\ x.pc = "publish" /\ BatchSize = 1 => Deliverable(rows[Head(x.batch)].event)
    /\ x.pc = "mark" => EL!InLog(rows[Head(x.batch)].event)

RelaysOK == \A r \in Relays : Fine(relay[r])

InflightOK == BatchSize = 1 => \A copy \in inflight : Deliverable(copy[1])

Inv == TypeOK /\ StoryOK /\ FlagsOK /\ RelaysOK /\ InflightOK /\ PublishedIsInLog

-----------------------------------------------------------------------------
(* Facts about the state *)

LEMMA RowsTyped ==
  ASSUME TypeOK
  PROVE  /\ Len(rows) \in Nat /\ Len(log) \in Nat
         /\ \A p : p \in Positions <=> p \in 1 .. Len(rows)
         /\ \A p \in Positions :
              /\ rows[p] \in OutboxRow
              /\ rows[p].event[1] \in Jobs /\ rows[p].event[2] \in Nat \ {0}
              /\ rows[p].event = <<rows[p].event[1], rows[p].event[2]>>
         /\ \A j \in Jobs : enqueued[j] \in Nat
         /\ Committed \subseteq Positions
  <1>1. rows \in Seq(OutboxRow) /\ log \in Seq(Events)
    BY DEF TypeOK
  <1>2. Len(rows) \in Nat /\ Len(log) \in Nat /\ \A p : p \in Positions <=> p \in 1 .. Len(rows)
    BY <1>1, LenProperties DEF Positions
  <1>3. \A p \in Positions : rows[p] \in OutboxRow
    BY <1>1, <1>2, ElementOfSeq
  <1>4. \A row \in OutboxRow : row.event \in Events
    BY DEF OutboxRow
  <1>5. \A e \in Events : e[1] \in Jobs /\ e[2] \in Nat \ {0} /\ e = <<e[1], e[2]>>
    BY DEF Events
  <1> QED
    BY <1>2, <1>3, <1>4, <1>5 DEF TypeOK, Committed

\* The outbox and the topic only grow.
Grows ==
    /\ \A p \in Committed : p \in Committed' /\ rows'[p].event = rows[p].event
    /\ \A j \in Jobs : enqueued'[j] \in Nat /\ enqueued[j] <= enqueued'[j]
    /\ \A event : EL!InLog(event) => EL!InLog(event)'

LEMMA DeliverableGrows ==
  ASSUME TypeOK, Grows, NEW event \in Events, Deliverable(event)
  PROVE  Deliverable(event)'
  <1>1. event[1] \in Jobs /\ event[2] \in Nat
    BY DEF Events
  <1>2. enqueued[event[1]] \in Nat
    BY <1>1 DEF TypeOK
  <1> QED
    BY <1>1, <1>2 DEF Deliverable, Grows

LEMMA RowEvent ==
  ASSUME TypeOK, NEW p \in Positions
  PROVE  rows[p].event \in Events
  BY RowsTyped DEF OutboxRow

LEMMA FineGrows ==
  ASSUME TypeOK, Grows, NEW x \in Relay, Fine(x)
  PROVE  Fine(x)'
  <1>1. ASSUME NEW p \in Committed
        PROVE  /\ p \in Committed' /\ rows'[p].event = rows[p].event
               /\ Deliverable(rows[p].event) => Deliverable(rows[p].event)'
               /\ EL!InLog(rows[p].event) => EL!InLog(rows[p].event)'
    <2>1. PICK event \in Events : event = rows[p].event
      BY RowEvent, RowsTyped
    <2>2. p \in Committed' /\ rows'[p].event = event
      BY <2>1 DEF Grows
    <2>3. Deliverable(event) => Deliverable(event)'
      BY DeliverableGrows
    <2>4. EL!InLog(event) => EL!InLog(event)'
      BY DEF Grows
    <2> QED
      BY <2>1, <2>2, <2>3, <2>4 DEF Deliverable, EL!InLog
  <1>2. x.pc = "claim" => x.head \in Committed' /\ Deliverable(rows[x.head].event)'
    BY <1>1 DEF Fine
  <1>3. x.pc \in {"publish", "mark", "release"} =>
          /\ x.batch # <<>>
          /\ \A i \in DOMAIN x.batch : x.batch[i] \in Committed'
          /\ BatchSize = 1 => Len(x.batch) = 1
    BY <1>1 DEF Fine
  <1>4. x.pc \in {"publish", "mark", "release"} => Head(x.batch) \in Committed
    <2> SUFFICES ASSUME x.pc \in {"publish", "mark", "release"} PROVE Head(x.batch) \in Committed
      OBVIOUS
    <2>1. x.batch \in Seq(Nat) /\ x.batch # <<>>
      BY DEF Relay, Fine
    <2>2. 1 \in DOMAIN x.batch /\ Head(x.batch) = x.batch[1]
      BY <2>1, EmptySeq
    <2> QED
      BY <2>2 DEF Fine
  <1>5. x.pc = "publish" /\ BatchSize = 1 => Deliverable(rows[Head(x.batch)].event)'
    BY <1>1, <1>4 DEF Fine
  <1>6. x.pc = "mark" => EL!InLog(rows[Head(x.batch)].event)'
    BY <1>1, <1>4 DEF Fine
  <1> QED
    BY <1>2, <1>3, <1>5, <1>6 DEF Fine

-----------------------------------------------------------------------------
(* Frames *)

LEMMA LogGrows ==
  ASSUME TypeOK, NEW e \in Events, log' = Append(log, e)
  PROVE  /\ log' \in Seq(Events)
         /\ EL!InLog(e)'
         /\ \A event : EL!InLog(event) => EL!InLog(event)'
  <1>1. log \in Seq(Events) /\ Len(log) \in Nat
    BY RowsTyped DEF TypeOK
  <1>2. /\ Append(log, e) \in Seq(Events)
        /\ Len(Append(log, e)) = Len(log) + 1
        /\ \A i \in 1 .. Len(log) : Append(log, e)[i] = log[i]
        /\ Append(log, e)[Len(log) + 1] = e
    BY <1>1, AppendProperties
  <1>3. /\ \A i : i \in DOMAIN log => i \in 1 .. Len(log)
        /\ \A i : i \in 1 .. (Len(log) + 1) => i \in DOMAIN Append(log, e)
    BY <1>1, <1>2, LenProperties
  <1>4. \A i \in 1 .. Len(log) : i \in 1 .. (Len(log) + 1)
    BY <1>1
  <1>5. Len(log) + 1 \in 1 .. (Len(log) + 1)
    BY <1>1
  <1>6. EL!InLog(e)'
    BY <1>2, <1>3, <1>5 DEF EL!InLog
  <1>7. ASSUME NEW event, EL!InLog(event) PROVE EL!InLog(event)'
    BY <1>2, <1>3, <1>4, <1>7 DEF EL!InLog
  <1> QED
    BY <1>2, <1>6, <1>7

\* A step that writes no event, no row state and no counter.
Kept ==
    /\ UNCHANGED enqueued
    /\ rows' \in Seq(OutboxRow) /\ DOMAIN rows' = DOMAIN rows
    /\ \A p \in Positions : rows'[p].state = rows[p].state /\ rows'[p].event = rows[p].event

LEMMA StoryKept ==
  ASSUME TypeOK, StoryOK, Kept
  PROVE  StoryOK' /\ Committed' = Committed
  <1>1. Positions' = Positions
    BY DEF Positions, Kept
  <1>2. \A p \in Positions : rows'[p].state = rows[p].state /\ rows'[p].event = rows[p].event
    BY DEF Kept
  <1>3. enqueued' = enqueued
    BY DEF Kept
  <1>4. Committed' = Committed
    BY <1>1, <1>2 DEF Committed
  <1>5. \A p \in Positions' :
         /\ rows'[p].state = "committed" => rows'[p].event[2] <= enqueued'[rows'[p].event[1]]
         /\ rows'[p].state = "open" => rows'[p].event[2] = enqueued'[rows'[p].event[1]] + 1
    BY <1>1, <1>2, <1>3 DEF StoryOK
  <1>6. ASSUME NEW p \in Positions', rows'[p].state # "aborted", rows'[p].event[2] # 1
        PROVE \E q \in Positions' :
                /\ q < p /\ rows'[q].state = "committed"
                /\ rows'[q].event = <<rows'[p].event[1], rows'[p].event[2] - 1>>
    <2>1. p \in Positions /\ rows'[p].event = rows[p].event /\ rows[p].state # "aborted"
      BY <1>1, <1>2, <1>6
    <2>2. PICK q \in Positions :
                /\ q < p /\ rows[q].state = "committed"
                /\ rows[q].event = <<rows[p].event[1], rows[p].event[2] - 1>>
      BY <2>1, <1>6 DEF StoryOK
    <2> QED
      BY <2>1, <2>2, <1>1, <1>2
  <1>7. \A p, q \in Positions' :
         rows'[p].state # "aborted" /\ rows'[q].state # "aborted"
           /\ rows'[p].event = rows'[q].event => p = q
    BY <1>1, <1>2 DEF StoryOK
  <1>8. ASSUME NEW j \in Jobs, enqueued'[j] # 0
        PROVE \E q \in Positions' :
                rows'[q].state = "committed" /\ rows'[q].event = <<j, enqueued'[j]>>
    <2>1. PICK q \in Positions :
            rows[q].state = "committed" /\ rows[q].event = <<j, enqueued[j]>>
      BY <1>3, <1>8 DEF StoryOK
    <2> QED
      BY <2>1, <1>1, <1>2, <1>3
  <1> QED
    BY <1>4, <1>5, <1>6, <1>7, <1>8 DEF StoryOK

LEMMA KeptGrows ==
  ASSUME TypeOK, StoryOK, Kept, \A event : EL!InLog(event) => EL!InLog(event)'
  PROVE  Grows
  <1>1. Committed' = Committed /\ Committed \subseteq Positions
    BY StoryKept, RowsTyped
  <1>2. \A j \in Jobs : enqueued'[j] \in Nat /\ enqueued[j] <= enqueued'[j]
    BY RowsTyped DEF Kept
  <1> QED
    BY <1>1, <1>2 DEF Grows, Kept

\* What a step has to show for the invariant.
LEMMA StepKeepsInv ==
  ASSUME Inv, TypeOK', StoryOK', FlagsOK', Grows,
         \A r \in Relays : relay'[r] = relay[r] \/ Fine(relay[r])',
         BatchSize = 1 =>
           \A copy \in inflight' : copy \in inflight \/ Deliverable(copy[1])',
         \A p \in Committed' : rows'[p].published =>
           (p \in Committed /\ rows[p].published) \/ EL!InLog(rows[p].event)'
  PROVE  Inv'
  <1> USE DEF Inv
  <1>1. RelaysOK'
    <2> SUFFICES ASSUME NEW r \in Relays PROVE Fine(relay[r])'
      BY DEF RelaysOK
    <2>1. CASE relay'[r] = relay[r]
      <3>1. PICK x \in Relay : x = relay[r]
        BY DEF TypeOK
      <3>2. Fine(x)
        BY <3>1 DEF RelaysOK
      <3>3. Fine(x)'
        BY <3>2, FineGrows
      <3> QED
        BY <2>1, <3>1, <3>3 DEF Fine
    <2> QED
      BY <2>1
  <1>2. InflightOK'
    <2> SUFFICES ASSUME BatchSize = 1, NEW copy \in inflight' PROVE Deliverable(copy[1])'
      BY DEF InflightOK
    <2>1. CASE copy \in inflight
      <3>1. copy[1] \in Events /\ Deliverable(copy[1])
        BY <2>1 DEF InflightOK, TypeOK
      <3> QED
        BY <3>1, DeliverableGrows
    <2> QED
      BY <2>1
  <1>3. PublishedIsInLog'
    <2> SUFFICES ASSUME NEW p \in Committed', rows'[p].published PROVE EL!InLog(rows[p].event)'
      BY DEF PublishedIsInLog
    <2>1. CASE p \in Committed /\ rows[p].published
      <3>1. EL!InLog(rows[p].event) /\ rows'[p].event = rows[p].event
        BY <2>1 DEF PublishedIsInLog, Grows
      <3>2. PICK e : e = rows[p].event
        OBVIOUS
      <3>3. EL!InLog(e)'
        BY <3>1, <3>2 DEF Grows
      <3> QED
        BY <3>1, <3>2, <3>3 DEF EL!InLog
    <2> QED
      BY <2>1
  <1> QED
    BY <1>1, <1>2, <1>3

-----------------------------------------------------------------------------
(* Transactions that enqueue *)

\* The row that an insertion adds.
Inserted(j) == [state |-> "open", event |-> NextEvent(j), published |-> FALSE,
                token |-> None, lease |-> "none"]

LEMMA InsertedTyped ==
  ASSUME TypeOK, NEW j \in Jobs
  PROVE  Inserted(j) \in OutboxRow
  <1>1. enqueued[j] \in Nat
    BY DEF TypeOK
  <1>2. NextEvent(j) \in Events
    BY <1>1 DEF NextEvent, Events
  <1> QED
    BY <1>2 DEF Inserted, OutboxRow

LEMMA EnqueueAppends ==
  ASSUME TypeOK, NEW j \in Jobs, Enqueue(j)
  PROVE  /\ rows' \in Seq(OutboxRow)
         /\ \A p : p \in Positions' <=> p \in Positions \/ p = Len(rows) + 1
         /\ Len(rows) + 1 \notin Positions
         /\ \A p \in Positions : rows'[p] = rows[p] /\ p < Len(rows) + 1
         /\ rows'[Len(rows) + 1] = Inserted(j)
  <1>1. Len(rows) \in Nat /\ \A p : p \in Positions <=> p \in 1 .. Len(rows)
    BY RowsTyped
  <1>2. rows \in Seq(OutboxRow) /\ rows' = Append(rows, Inserted(j))
    BY DEF TypeOK, Enqueue, Inserted
  <1>3. /\ rows' \in Seq(OutboxRow) /\ Len(rows') = Len(rows) + 1
        /\ \A i \in 1 .. Len(rows) : rows'[i] = rows[i]
        /\ rows'[Len(rows) + 1] = Inserted(j)
    BY <1>2, AppendProperties, InsertedTyped
  <1>4. \A p : p \in Positions' <=> p \in 1 .. (Len(rows) + 1)
    BY <1>3, LenProperties DEF Positions
  <1>5. \A p : p \in 1 .. (Len(rows) + 1) <=> p \in 1 .. Len(rows) \/ p = Len(rows) + 1
    BY <1>1
  <1>6. Len(rows) + 1 \notin 1 .. Len(rows) /\ \A p \in 1 .. Len(rows) : p < Len(rows) + 1
    BY <1>1
  <1> QED
    BY <1>1, <1>3, <1>4, <1>5, <1>6

LEMMA EnqueueStory ==
  ASSUME TypeOK, StoryOK, NEW j \in Jobs, Enqueue(j)
  PROVE  StoryOK'
  <1> DEFINE n == Len(rows) + 1
  <1>1. /\ \A p : p \in Positions' <=> p \in Positions \/ p = n
        /\ \A p \in Positions : rows'[p] = rows[p] /\ p < n
        /\ rows'[n] = Inserted(j)
    BY EnqueueAppends
  <1>2. enqueued' = enqueued /\ enqueued[j] \in Nat
    BY DEF Enqueue, TypeOK
  <1>3. /\ rows'[n].state = "open" /\ rows'[n].event = <<j, enqueued[j] + 1>>
        /\ rows'[n].event[1] = j /\ rows'[n].event[2] = enqueued[j] + 1
    BY <1>1 DEF Inserted, NextEvent
  <1>4. \A p \in Positions : ~(rows[p].state = "open" /\ rows[p].event[1] = j)
    BY DEF Enqueue
  <1> HIDE DEF n
  <1>5. ASSUME NEW p \in Positions'
        PROVE  /\ rows'[p].state = "committed" => rows'[p].event[2] <= enqueued'[rows'[p].event[1]]
               /\ rows'[p].state = "open" => rows'[p].event[2] = enqueued'[rows'[p].event[1]] + 1
    <2>1. CASE p \in Positions
      BY <2>1, <1>1, <1>2 DEF StoryOK
    <2>2. CASE p = n
      BY <2>2, <1>2, <1>3
    <2> QED
      BY <2>1, <2>2, <1>1
  <1>6. ASSUME NEW p \in Positions', rows'[p].state # "aborted", rows'[p].event[2] # 1
        PROVE  \E q \in Positions' :
                 /\ q < p /\ rows'[q].state = "committed"
                 /\ rows'[q].event = <<rows'[p].event[1], rows'[p].event[2] - 1>>
    <2>1. CASE p \in Positions
      <3>1. PICK q \in Positions :
              /\ q < p /\ rows[q].state = "committed"
              /\ rows[q].event = <<rows[p].event[1], rows[p].event[2] - 1>>
        BY <2>1, <1>1, <1>6 DEF StoryOK
      <3> QED
        BY <3>1, <2>1, <1>1
    <2>2. CASE p = n
      <3>1. enqueued[j] # 0 /\ rows'[p].event[2] - 1 = enqueued[j]
        BY <2>2, <1>2, <1>3, <1>6
      <3>2. PICK q \in Positions :
              rows[q].state = "committed" /\ rows[q].event = <<j, enqueued[j]>>
        BY <3>1 DEF StoryOK
      <3> QED
        BY <3>1, <3>2, <2>2, <1>1, <1>3
    <2> QED
      BY <2>1, <2>2, <1>1
  <1>7. ASSUME NEW p \in Positions, rows[p].state # "aborted"
        PROVE  rows[p].event # <<j, enqueued[j] + 1>>
    <2> SUFFICES ASSUME rows[p].event = <<j, enqueued[j] + 1>> PROVE FALSE
      OBVIOUS
    <2>1. rows[p].event[1] = j /\ rows[p].event[2] = enqueued[j] + 1
      OBVIOUS
    <2>2. rows[p].state = "committed"
      BY <2>1, <1>4, <1>7, RowsTyped DEF OutboxRow
    <2>3. rows[p].event[2] <= enqueued[j]
      BY <2>1, <2>2 DEF StoryOK
    <2> QED
      BY <2>1, <2>3, <1>2
  <1>8. ASSUME NEW p \in Positions', NEW q \in Positions', rows'[p].state # "aborted",
               rows'[q].state # "aborted", rows'[p].event = rows'[q].event
        PROVE  p = q
    <2>1. CASE p \in Positions /\ q \in Positions
      BY <2>1, <1>1, <1>8 DEF StoryOK
    <2>2. CASE p = n /\ q \in Positions
      BY <2>2, <1>1, <1>3, <1>7, <1>8
    <2>3. CASE p \in Positions /\ q = n
      BY <2>3, <1>1, <1>3, <1>7, <1>8
    <2> QED
      BY <2>1, <2>2, <2>3, <1>1
  <1>9. ASSUME NEW k \in Jobs, enqueued'[k] # 0
        PROVE  \E q \in Positions' :
                 rows'[q].state = "committed" /\ rows'[q].event = <<k, enqueued'[k]>>
    <2>1. PICK q \in Positions :
            rows[q].state = "committed" /\ rows[q].event = <<k, enqueued[k]>>
      BY <1>2, <1>9 DEF StoryOK
    <2> QED
      BY <2>1, <1>1, <1>2
  <1> QED
    BY <1>5, <1>6, <1>8, <1>9 DEF StoryOK

LEMMA EnqueueInv ==
  ASSUME Inv, NEW j \in Jobs, Enqueue(j)
  PROVE  Inv'
  <1> USE DEF Inv
  <1>1. /\ rows' \in Seq(OutboxRow)
        /\ \A p : p \in Positions' <=> p \in Positions \/ p = Len(rows) + 1
        /\ \A p \in Positions : rows'[p] = rows[p]
        /\ rows'[Len(rows) + 1] = Inserted(j)
    BY EnqueueAppends
  <1>2. UNCHANGED <<enqueued, log, inflight, drawn, lock, relay, faults>>
    BY DEF Enqueue
  <1>3. TypeOK'
    BY <1>1, <1>2 DEF TypeOK
  <1>4. StoryOK'
    BY EnqueueStory
  <1>5. \A p \in Committed' : p \in Committed /\ rows'[p] = rows[p]
    BY <1>1 DEF Committed, Inserted
  <1>6. \A p \in Committed : p \in Committed' /\ rows'[p] = rows[p]
    BY <1>1 DEF Committed
  <1>7. FlagsOK'
    BY <1>1 DEF FlagsOK, Inserted
  <1>8. Grows
    BY <1>2, <1>6, RowsTyped DEF Grows, EL!InLog
  <1> QED
    BY <1>2, <1>3, <1>4, <1>5, <1>7, <1>8, StepKeepsInv

-----------------------------------------------------------------------------
(* One row rewritten *)

LEMMA RowRewritten ==
  ASSUME TypeOK, NEW p \in Positions, NEW row \in OutboxRow, rows' = [rows EXCEPT ![p] = row]
  PROVE  /\ rows' \in Seq(OutboxRow) /\ DOMAIN rows' = DOMAIN rows /\ Positions' = Positions
         /\ rows'[p] = row
         /\ \A q \in Positions : q # p => rows'[q] = rows[q]
  <1>1. rows \in Seq(OutboxRow) /\ p \in 1 .. Len(rows)
    BY RowsTyped DEF TypeOK
  <1>2. rows' \in Seq(OutboxRow)
    BY <1>1, ExceptSeq
  <1>3. DOMAIN rows' = DOMAIN rows
    OBVIOUS
  <1>4. rows'[p] = row /\ \A q \in Positions : q # p => rows'[q] = rows[q]
    BY DEF Positions
  <1> QED
    BY <1>2, <1>3, <1>4 DEF Positions

LEMMA CommitRow ==
  ASSUME TypeOK, NEW p \in Positions, NEW state \in {"committed", "aborted"},
         rows' = [rows EXCEPT ![p].state = state]
  PROVE  /\ rows' \in Seq(OutboxRow) /\ Positions' = Positions
         /\ rows'[p] = [rows[p] EXCEPT !.state = state]
         /\ rows'[p].state = state
         /\ \A q \in Positions : q # p => rows'[q] = rows[q]
         /\ \A q \in Positions :
              /\ rows'[q].event = rows[q].event /\ rows'[q].published = rows[q].published
              /\ rows'[q].token = rows[q].token /\ rows'[q].lease = rows[q].lease
  <1>1. rows[p] \in OutboxRow
    BY RowsTyped
  <1>2. PICK row \in OutboxRow : row = [rows[p] EXCEPT !.state = state]
    BY <1>1 DEF OutboxRow
  <1>3. rows' = [rows EXCEPT ![p] = row]
    BY <1>2
  <1>4. /\ rows' \in Seq(OutboxRow) /\ Positions' = Positions
        /\ rows'[p] = row
        /\ \A q \in Positions : q # p => rows'[q] = rows[q]
    BY <1>3, RowRewritten
  <1>5. /\ row.state = state /\ row.event = rows[p].event
        /\ row.published = rows[p].published
        /\ row.token = rows[p].token /\ row.lease = rows[p].lease
    BY <1>1, <1>2 DEF OutboxRow
  <1> QED
    BY <1>2, <1>4, <1>5

LEMMA CommitStory ==
  ASSUME TypeOK, StoryOK, NEW p \in Positions, Commit(p)
  PROVE  StoryOK'
  <1>1. /\ Positions' = Positions
        /\ rows'[p].state = "committed"
        /\ \A q \in Positions : q # p => rows'[q] = rows[q]
        /\ \A q \in Positions : rows'[q].event = rows[q].event
    BY CommitRow DEF Commit
  <1>2. PICK j \in Jobs, n \in Nat \ {0} :
          j = rows[p].event[1] /\ n = rows[p].event[2] /\ rows[p].event = <<j, n>>
    BY RowsTyped
  <1>3. enqueued[j] \in Nat /\ n = enqueued[j] + 1 /\ rows[p].state = "open"
    BY <1>2 DEF StoryOK, Commit, TypeOK
  <1>4. /\ enqueued'[j] = n
        /\ \A k \in Jobs : k # j => enqueued'[k] = enqueued[k]
    BY <1>2, <1>3 DEF Commit, TypeOK
  <1>5. ASSUME NEW q \in Positions
        PROVE  /\ rows'[q].state = "committed" => rows[q].event[2] <= enqueued'[rows[q].event[1]]
               /\ rows'[q].state = "open" => rows[q].event[2] = enqueued'[rows[q].event[1]] + 1
    <2>1. CASE q = p
      BY <2>1, <1>1, <1>2, <1>4
    <2>2. CASE q # p
      <3>1. PICK k \in Jobs, m \in Nat \ {0} :
              k = rows[q].event[1] /\ m = rows[q].event[2] /\ rows[q].event = <<k, m>>
        BY RowsTyped
      <3>2. rows'[q].state = rows[q].state
        BY <2>2, <1>1
      <3>3. CASE k # j
        BY <3>1, <3>2, <3>3, <1>4 DEF StoryOK
      <3>4. CASE k = j
        <4>1. rows[q].state # "open"
          <5> SUFFICES ASSUME rows[q].state = "open" PROVE FALSE
            OBVIOUS
          <5>0. rows[q].event[2] = enqueued[rows[q].event[1]] + 1
            BY DEF StoryOK
          <5>1. m = enqueued[j] + 1
            BY <5>0, <3>1, <3>4
          <5>2. rows[q].event = rows[p].event
            BY <5>1, <3>1, <3>4, <1>2, <1>3
          <5> QED
            BY <5>2, <2>2, <1>3 DEF StoryOK
        <4>2. rows[q].state = "committed" => m <= enqueued[j]
          BY <3>1, <3>4 DEF StoryOK
        <4> QED
          BY <4>1, <4>2, <3>1, <3>2, <3>4, <1>3, <1>4
      <3> QED
        BY <3>3, <3>4
    <2> QED
      BY <2>1, <2>2
  <1>6. \A q \in Positions : rows[q].state = "committed" => rows'[q].state = "committed"
    BY <1>1
  <1>7. \A q \in Positions : rows'[q].state # "aborted" => rows[q].state # "aborted"
    BY <1>1, <1>3
  <1>8. ASSUME NEW q \in Positions, rows'[q].state # "aborted", rows[q].event[2] # 1
        PROVE  \E o \in Positions :
                 /\ o < q /\ rows'[o].state = "committed"
                 /\ rows'[o].event = <<rows[q].event[1], rows[q].event[2] - 1>>
    <2>1. PICK o \in Positions :
            /\ o < q /\ rows[o].state = "committed"
            /\ rows[o].event = <<rows[q].event[1], rows[q].event[2] - 1>>
      BY <1>7, <1>8 DEF StoryOK
    <2> QED
      BY <2>1, <1>1, <1>6
  <1>9. \A o, q \in Positions :
          rows'[o].state # "aborted" /\ rows'[q].state # "aborted"
            /\ rows'[o].event = rows'[q].event => o = q
    BY <1>1, <1>7 DEF StoryOK
  <1>10. ASSUME NEW k \in Jobs, enqueued'[k] # 0
         PROVE  \E q \in Positions : rows'[q].state = "committed" /\ rows'[q].event = <<k, enqueued'[k]>>
    <2>1. CASE k = j
      BY <2>1, <1>1, <1>2, <1>4
    <2>2. CASE k # j
      <3>1. PICK q \in Positions :
              rows[q].state = "committed" /\ rows[q].event = <<k, enqueued[k]>>
        BY <2>2, <1>4, <1>10 DEF StoryOK
      <3> QED
        BY <3>1, <2>2, <1>1, <1>4, <1>6
    <2> QED
      BY <2>1, <2>2
  <1>11. \A q \in Positions' :
         /\ rows'[q].state = "committed" => rows'[q].event[2] <= enqueued'[rows'[q].event[1]]
         /\ rows'[q].state = "open" => rows'[q].event[2] = enqueued'[rows'[q].event[1]] + 1
    BY <1>1, <1>5
  <1>12. \A q \in Positions' : rows'[q].state # "aborted" /\ rows'[q].event[2] # 1 =>
              \E o \in Positions' :
                /\ o < q /\ rows'[o].state = "committed"
                /\ rows'[o].event = <<rows'[q].event[1], rows'[q].event[2] - 1>>
    BY <1>1, <1>8
  <1> QED
    BY <1>1, <1>9, <1>10, <1>11, <1>12 DEF StoryOK

LEMMA CommitInv ==
  ASSUME Inv, NEW p \in Positions, Commit(p)
  PROVE  Inv'
  <1> USE DEF Inv
  <1>1. /\ rows' \in Seq(OutboxRow) /\ Positions' = Positions
        /\ rows'[p].state = "committed"
        /\ \A q \in Positions : q # p => rows'[q] = rows[q]
        /\ \A q \in Positions :
             /\ rows'[q].event = rows[q].event /\ rows'[q].published = rows[q].published
             /\ rows'[q].token = rows[q].token /\ rows'[q].lease = rows[q].lease
    BY CommitRow DEF Commit
  <1>2. UNCHANGED <<log, inflight, drawn, lock, relay, faults>> /\ rows[p].state = "open"
    BY DEF Commit
  <1>3. \A j \in Jobs : enqueued'[j] \in Nat /\ enqueued[j] <= enqueued'[j]
    BY RowsTyped DEF Commit, TypeOK
  <1>4. enqueued' \in [Jobs -> Nat]
    BY RowsTyped DEF Commit, TypeOK
  <1>5. TypeOK'
    BY <1>1, <1>2, <1>4 DEF TypeOK
  <1>6. StoryOK'
    BY CommitStory
  <1>7. FlagsOK'
    BY <1>1 DEF FlagsOK
  <1>8. \A q \in Committed : q \in Committed' /\ rows'[q].event = rows[q].event
    BY <1>1, <1>2 DEF Committed
  <1>9. Grows
    BY <1>2, <1>3, <1>8 DEF Grows, EL!InLog
  <1>10. \A q \in Committed' : rows'[q].published => q \in Committed /\ rows[q].published
    BY <1>1 DEF Committed, FlagsOK
  <1> QED
    BY <1>2, <1>5, <1>6, <1>7, <1>9, <1>10, StepKeepsInv

LEMMA RollbackInv ==
  ASSUME Inv, NEW p \in Positions, Rollback(p)
  PROVE  Inv'
  <1> USE DEF Inv
  <1>1. /\ rows' \in Seq(OutboxRow) /\ Positions' = Positions
        /\ rows'[p].state = "aborted"
        /\ \A q \in Positions : q # p => rows'[q] = rows[q]
        /\ \A q \in Positions :
             /\ rows'[q].event = rows[q].event /\ rows'[q].published = rows[q].published
             /\ rows'[q].token = rows[q].token /\ rows'[q].lease = rows[q].lease
    BY CommitRow DEF Rollback
  <1>2. UNCHANGED <<enqueued, log, inflight, drawn, lock, relay, faults>> /\ rows[p].state = "open"
    BY DEF Rollback
  <1>3. TypeOK'
    BY <1>1, <1>2 DEF TypeOK
  <1>4. /\ \A q \in Positions : rows[q].state = "committed" <=> rows'[q].state = "committed"
        /\ \A q \in Positions : rows'[q].state # "aborted" => rows'[q].state = rows[q].state
    BY <1>1, <1>2
  <1>5. StoryOK'
    <2>1. \A q \in Positions' :
           /\ rows'[q].state = "committed" => rows'[q].event[2] <= enqueued'[rows'[q].event[1]]
           /\ rows'[q].state = "open" => rows'[q].event[2] = enqueued'[rows'[q].event[1]] + 1
      BY <1>1, <1>2, <1>4 DEF StoryOK
    <2>2. ASSUME NEW q \in Positions', rows'[q].state # "aborted", rows'[q].event[2] # 1
          PROVE  \E o \in Positions' :
                   /\ o < q /\ rows'[o].state = "committed"
                   /\ rows'[o].event = <<rows'[q].event[1], rows'[q].event[2] - 1>>
      <3>0. q \in Positions /\ rows[q].state # "aborted" /\ rows[q].event[2] # 1
        BY <2>2, <1>1, <1>4
      <3>1. PICK o \in Positions :
              /\ o < q /\ rows[o].state = "committed"
              /\ rows[o].event = <<rows[q].event[1], rows[q].event[2] - 1>>
        BY <3>0 DEF StoryOK
      <3> QED
        BY <3>1, <1>1, <1>4
    <2>3. \A o, q \in Positions' :
            rows'[o].state # "aborted" /\ rows'[q].state # "aborted"
              /\ rows'[o].event = rows'[q].event => o = q
      BY <1>1, <1>4 DEF StoryOK
    <2>4. ASSUME NEW k \in Jobs, enqueued'[k] # 0
          PROVE  \E q \in Positions' : rows'[q].state = "committed" /\ rows'[q].event = <<k, enqueued'[k]>>
      <3>1. PICK q \in Positions :
              rows[q].state = "committed" /\ rows[q].event = <<k, enqueued[k]>>
        BY <2>4, <1>2 DEF StoryOK
      <3> QED
        BY <3>1, <1>1, <1>2, <1>4
    <2> QED
      BY <2>1, <2>2, <2>3, <2>4 DEF StoryOK
  <1>6. FlagsOK'
    BY <1>1, <1>2 DEF FlagsOK
  <1>7. Committed' = Committed /\ \A q \in Committed : rows'[q].event = rows[q].event
    BY <1>1, <1>4 DEF Committed
  <1>8. Grows
    BY <1>2, <1>7, RowsTyped DEF Grows, EL!InLog
  <1>9. \A q \in Committed' : rows'[q].published => q \in Committed /\ rows[q].published
    BY <1>1, <1>7 DEF Committed
  <1> QED
    BY <1>2, <1>3, <1>5, <1>6, <1>8, <1>9, StepKeepsInv

LEMMA LeaseExpiresInv ==
  ASSUME Inv, NEW p \in Positions, LeaseExpires(p)
  PROVE  Inv'
  <1> USE DEF Inv
  <1>1. rows[p] \in OutboxRow /\ rows[p].lease = "live"
    BY RowsTyped DEF LeaseExpires
  <1>2. PICK row \in OutboxRow : row = [rows[p] EXCEPT !.lease = "expired"]
    BY <1>1 DEF OutboxRow
  <1>3. rows' = [rows EXCEPT ![p] = row]
    BY <1>2 DEF LeaseExpires
  <1>4. /\ rows' \in Seq(OutboxRow) /\ DOMAIN rows' = DOMAIN rows /\ Positions' = Positions
        /\ rows'[p] = row
        /\ \A q \in Positions : q # p => rows'[q] = rows[q]
    BY <1>3, RowRewritten
  <1>5. /\ row.state = rows[p].state /\ row.event = rows[p].event
        /\ row.published = rows[p].published /\ row.token = rows[p].token
    BY <1>1, <1>2 DEF OutboxRow
  <1>6. UNCHANGED <<enqueued, log, inflight, drawn, lock, relay>> /\ faults' \in Nat
    BY DEF LeaseExpires, Fault, TypeOK
  <1>7. Kept
    BY <1>4, <1>5, <1>6 DEF Kept
  <1>8. TypeOK'
    BY <1>4, <1>6 DEF TypeOK
  <1>9. StoryOK' /\ Committed' = Committed
    BY <1>7, StoryKept
  <1>10. FlagsOK'
    BY <1>1, <1>4, <1>5 DEF FlagsOK
  <1>11. Grows
    BY <1>6, <1>7, KeptGrows DEF EL!InLog
  <1>12. \A q \in Committed' : rows'[q].published => q \in Committed /\ rows[q].published
    BY <1>4, <1>5, <1>9 DEF Committed
  <1> QED
    BY <1>6, <1>8, <1>9, <1>10, <1>11, <1>12, StepKeepsInv

-----------------------------------------------------------------------------
(* The broker *)

LEMMA BrokerInv ==
  ASSUME Inv, NEW copy \in inflight, Lands(copy) \/ Vanishes(copy)
  PROVE  Inv'
  <1> USE DEF Inv
  <1>1. UNCHANGED <<rows, enqueued, drawn, lock, relay, faults>> /\ inflight' = inflight \ {copy}
    BY DEF Lands, Vanishes, dbVars
  <1>2. copy[1] \in Events
    BY DEF TypeOK
  <1>3. log' \in Seq(Events) /\ \A event : EL!InLog(event) => EL!InLog(event)'
    <2>1. CASE Lands(copy)
      BY <2>1, <1>2, LogGrows DEF Lands
    <2>2. CASE Vanishes(copy)
      BY <2>2 DEF Vanishes, TypeOK, EL!InLog
    <2> QED
      BY <2>1, <2>2
  <1>4. Kept
    BY <1>1 DEF Kept, TypeOK
  <1>5. TypeOK'
    BY <1>1, <1>3 DEF TypeOK
  <1>6. StoryOK' /\ Committed' = Committed
    BY <1>4, StoryKept
  <1>7. FlagsOK'
    BY <1>1 DEF FlagsOK, Positions
  <1>8. Grows
    BY <1>3, <1>4, KeptGrows
  <1> QED
    BY <1>1, <1>5, <1>6, <1>7, <1>8, StepKeepsInv

-----------------------------------------------------------------------------
(* The relay processes *)

\* What the step of one relay has to show.
LEMMA MoveKeepsInv ==
  ASSUME Inv, Kept, FlagsOK', NEW r \in Relays, NEW x \in Relay,
         relay' = [relay EXCEPT ![r] = x], Fine(x)',
         log' \in Seq(Events), inflight' \subseteq Events \X Nat, drawn' \in Nat,
         lock' \in Relays \cup {None}, faults' \in Nat,
         \A event : EL!InLog(event) => EL!InLog(event)',
         BatchSize = 1 =>
           \A copy \in inflight' : copy \in inflight \/ Deliverable(copy[1])',
         \A p \in Committed : rows'[p].published =>
           rows[p].published \/ EL!InLog(rows[p].event)'
  PROVE  Inv'
  <1> USE DEF Inv
  <1>1. relay' \in [Relays -> Relay] /\ enqueued' = enqueued
    BY DEF TypeOK, Kept
  <1>2. TypeOK'
    BY <1>1 DEF TypeOK, Kept
  <1>3. StoryOK' /\ Committed' = Committed
    BY StoryKept
  <1>4. Grows
    BY KeptGrows
  <1>5. ASSUME NEW s \in Relays PROVE relay'[s] = relay[s] \/ Fine(relay[s])'
    <2>1. CASE s = r
      <3>1. relay'[s] = x
        BY <2>1 DEF TypeOK
      <3> QED
        BY <3>1 DEF Fine
    <2>2. CASE s # r
      BY <2>2 DEF TypeOK
    <2> QED
      BY <2>1, <2>2
  <1> QED
    BY <1>2, <1>3, <1>4, <1>5, StepKeepsInv

\* A step of one relay that touches neither the table nor the broker.
LEMMA QuietMove ==
  ASSUME Inv, NEW r \in Relays, NEW x \in Relay, relay' = [relay EXCEPT ![r] = x], Fine(x),
         UNCHANGED <<dbVars, log, inflight, drawn>>,
         lock' \in Relays \cup {None}, faults' \in Nat
  PROVE  Inv'
  <1> USE DEF Inv
  <1>1. UNCHANGED <<rows, enqueued, log, inflight, drawn>>
    BY DEF dbVars
  <1>2. Kept
    BY <1>1 DEF Kept, TypeOK
  <1>3. \A event : EL!InLog(event) => EL!InLog(event)'
    BY <1>1 DEF EL!InLog
  <1>4. Grows
    BY <1>2, <1>3, KeptGrows
  <1>5. Fine(x)'
    BY <1>4, FineGrows
  <1>6. FlagsOK'
    BY <1>1 DEF FlagsOK, Positions
  <1>7. log' \in Seq(Events) /\ inflight' \subseteq Events \X Nat /\ drawn' \in Nat
    BY <1>1 DEF TypeOK
  <1> QED
    BY <1>1, <1>2, <1>3, <1>5, <1>6, <1>7, MoveKeepsInv

LEMMA OffFine == Off \in Relay /\ Fine(Off)
  <1>1. <<>> \in Seq(Nat)
    BY EmptySeq
  <1>2. Off \in Relay
    BY <1>1 DEF Off, Relay
  <1> QED
    BY <1>2 DEF Fine, Off

LEMMA AcquireInv ==
  ASSUME Inv, NEW r \in Relays, Acquire(r)
  PROVE  Inv'
  <1>1. relay \in [Relays -> Relay] /\ faults \in Nat
    BY DEF Inv, TypeOK
  <1>2. PICK x \in Relay : x = [relay[r] EXCEPT !.pc = "idle"]
    BY <1>1 DEF Relay
  <1>3. relay' = [relay EXCEPT ![r] = x] /\ x.pc = "idle"
    BY <1>1, <1>2 DEF Acquire, Relay
  <1>4. Fine(x)
    BY <1>3 DEF Fine
  <1> QED
    BY <1>1, <1>3, <1>4, QuietMove DEF Acquire

LEMMA LockLostInv ==
  ASSUME Inv, NEW r \in Relays, LockLost(r)
  PROVE  Inv'
  <1>1. relay \in [Relays -> Relay]
    BY DEF Inv, TypeOK
  <1>2. PICK x \in Relay : x = relay[r]
    BY <1>1
  <1>3. relay' = [relay EXCEPT ![r] = x] /\ Fine(x)
    BY <1>1, <1>2 DEF LockLost, Inv, RelaysOK
  <1>4. lock' \in Relays \cup {None} /\ faults' \in Nat
    BY DEF LockLost, Fault, Inv, TypeOK
  <1> QED
    BY <1>3, <1>4, QuietMove DEF LockLost

LEMMA StopRelayMoves ==
  ASSUME TypeOK, NEW r \in Relays, StopRelay(r)
  PROVE  relay' = [relay EXCEPT ![r] = Off] /\ lock' \in Relays \cup {None}
  BY DEF TypeOK, StopRelay

LEMMA StopInv ==
  ASSUME Inv, NEW r \in Relays, Stop(r) \/ ClaimRefused(r)
  PROVE  Inv'
  <1>1. relay' = [relay EXCEPT ![r] = Off] /\ lock' \in Relays \cup {None}
    BY StopRelayMoves DEF Inv, Stop, ClaimRefused
  <1>2. faults' \in Nat
    BY DEF Stop, ClaimRefused, Fault, Inv, TypeOK
  <1> QED
    BY <1>1, <1>2, OffFine, QuietMove DEF Stop, ClaimRefused

\* The head of the unpublished rows can be delivered: every row before it is in
\* the topic, its predecessor too.
LEMMA HeadDeliverable ==
  ASSUME Inv, NEW p, IsHead(p)
  PROVE  p \in Committed /\ Deliverable(rows[p].event)
  <1> USE DEF Inv
  <1>1. p \in Committed /\ p \in Positions /\ rows[p].state = "committed"
    BY DEF IsHead, Unpublished, Committed
  <1>2. rows[p].event[2] <= enqueued[rows[p].event[1]]
    BY <1>1 DEF StoryOK
  <1>3. ASSUME rows[p].event[2] # 1
        PROVE  EL!InLog(<<rows[p].event[1], rows[p].event[2] - 1>>)
    <2>1. PICK q \in Positions :
            /\ q < p /\ rows[q].state = "committed"
            /\ rows[q].event = <<rows[p].event[1], rows[p].event[2] - 1>>
      BY <1>1, <1>3 DEF StoryOK
    <2>2. q \in Nat /\ p \in Nat
      BY <1>1, RowsTyped
    <2>3. ~(p <= q)
      BY <2>1, <2>2
    <2>4. q \in Committed /\ q \notin Unpublished
      BY <2>1, <2>3 DEF IsHead, Committed
    <2>5. rows[q].published
      BY <2>4 DEF Unpublished
    <2> QED
      BY <2>1, <2>4, <2>5 DEF PublishedIsInLog
  <1> QED
    BY <1>1, <1>2, <1>3 DEF Deliverable

LEMMA PeekInv ==
  ASSUME Inv, NEW r \in Relays, Peek(r)
  PROVE  Inv'
  <1>1. relay \in [Relays -> Relay] /\ faults \in Nat /\ lock \in Relays \cup {None}
    BY DEF Inv, TypeOK
  <1>2. PICK p \in Unpublished :
          IsHead(p) /\ relay' = [relay EXCEPT ![r].pc = "claim", ![r].head = p]
    BY DEF Peek
  <1>3. p \in Committed /\ Deliverable(rows[p].event) /\ p \in Nat
    BY <1>2, HeadDeliverable, RowsTyped DEF Inv
  <1>4. PICK x \in Relay : x = [relay[r] EXCEPT !.pc = "claim", !.head = p]
    BY <1>1, <1>3 DEF Relay
  <1>5. relay' = [relay EXCEPT ![r] = x] /\ x.pc = "claim" /\ x.head = p
    BY <1>1, <1>2, <1>4 DEF Relay
  <1>6. Fine(x)
    BY <1>3, <1>5 DEF Fine
  <1> QED
    BY <1>1, <1>5, <1>6, QuietMove DEF Peek

LEMMA ClaimNothingInv ==
  ASSUME Inv, NEW r \in Relays, ClaimNothing(r)
  PROVE  Inv'
  <1>1. relay \in [Relays -> Relay] /\ faults \in Nat /\ lock \in Relays \cup {None}
    BY DEF Inv, TypeOK
  <1>2. PICK x \in Relay : x = [relay[r] EXCEPT !.pc = "idle", !.head = 0]
    BY <1>1 DEF Relay
  <1>3. relay' = [relay EXCEPT ![r] = x] /\ x.pc = "idle"
    BY <1>1, <1>2 DEF ClaimNothing, Relay
  <1>4. Fine(x)
    BY <1>3 DEF Fine
  <1> QED
    BY <1>1, <1>3, <1>4, QuietMove DEF ClaimNothing

LEMMA BatchHead ==
  ASSUME Inv, NEW r \in Relays, relay[r].pc \in {"publish", "mark", "release"}
  PROVE  /\ relay[r] \in Relay
         /\ relay[r].batch \in Seq(Nat) /\ relay[r].batch # <<>>
         /\ Head(relay[r].batch) \in Committed /\ Head(relay[r].batch) \in Positions
         /\ rows[Head(relay[r].batch)].event \in Events
  <1> USE DEF Inv
  <1>1. relay[r] \in Relay /\ Fine(relay[r])
    BY DEF TypeOK, RelaysOK
  <1>2. relay[r].batch \in Seq(Nat) /\ relay[r].batch # <<>>
    BY <1>1 DEF Relay, Fine
  <1>3. 1 \in DOMAIN relay[r].batch /\ Head(relay[r].batch) = relay[r].batch[1]
    BY <1>2, EmptySeq
  <1>4. Head(relay[r].batch) \in Committed
    BY <1>1, <1>3 DEF Fine
  <1> QED
    BY <1>1, <1>2, <1>4, RowEvent, RowsTyped

\* What Continue leaves behind.
LEMMA ContinueMoves ==
  ASSUME Inv, NEW r \in Relays, NEW pc \in {"publish", "release"},
         relay[r].pc \in {"mark", "release"},
         Continue(r, Tail(relay[r].batch), pc)
  PROVE  /\ lock' \in Relays \cup {None}
         /\ \E x \in Relay :
              relay' = [relay EXCEPT ![r] = x] /\ Fine(x) /\ x # relay[r]
  <1> USE DEF Inv
  <1> DEFINE rest == Tail(relay[r].batch)
  <1>1. relay[r] \in Relay /\ relay[r].batch \in Seq(Nat) /\ relay[r].batch # <<>>
    BY BatchHead
  <1>2. relay \in [Relays -> Relay] /\ lock \in Relays \cup {None}
    BY DEF TypeOK
  <1>3. /\ rest \in Seq(Nat) /\ Len(rest) = Len(relay[r].batch) - 1
        /\ \A i \in 1 .. Len(rest) : rest[i] = relay[r].batch[i + 1]
        /\ Len(relay[r].batch) \in Nat /\ Len(rest) \in Nat
    BY <1>1, HeadTailProperties, LenProperties
  <1>4. CASE rest # <<>>
    <2>1. relay' = [relay EXCEPT ![r].batch = rest, ![r].pc = pc] /\ lock' = lock
      BY <1>4 DEF Continue
    <2>2. PICK x \in Relay : x = [relay[r] EXCEPT !.batch = rest, !.pc = pc]
      BY <1>1, <1>3 DEF Relay
    <2>3. relay' = [relay EXCEPT ![r] = x] /\ x.batch = rest /\ x.pc = pc
      BY <1>1, <1>2, <2>1, <2>2 DEF Relay
    <2>4. rest # relay[r].batch
      <3> HIDE DEF rest
      <3>1. \A m, n \in Nat : m = n - 1 => m # n
        OBVIOUS
      <3>2. Len(rest) # Len(relay[r].batch)
        BY <1>3, <3>1
      <3> QED
        BY <3>2
    <2>5. BatchSize # 1
      <3>1. Len(rest) # 0
        BY <1>3, <1>4, EmptySeq
      <3>2. BatchSize = 1 => Len(relay[r].batch) = 1
        BY DEF RelaysOK, Fine
      <3> QED
        BY <3>1, <3>2, <1>3
    <2>6. ASSUME NEW i \in DOMAIN rest PROVE rest[i] \in Committed
      <3>1. i \in 1 .. Len(rest)
        BY <1>3, LenProperties
      <3>2. i + 1 \in 1 .. Len(relay[r].batch) /\ rest[i] = relay[r].batch[i + 1]
        BY <3>1, <1>3
      <3>3. i + 1 \in DOMAIN relay[r].batch
        BY <3>2, <1>1, LenProperties
      <3> QED
        BY <3>2, <3>3 DEF RelaysOK, Fine
    <2>7. Fine(x)
      BY <2>3, <2>5, <2>6, <1>4 DEF Fine
    <2> QED
      BY <2>1, <2>3, <2>4, <2>7, <1>2
  <1>5. CASE rest = <<>> /\ relay[r].stop
    <2>1. StopRelay(r)
      BY <1>5 DEF Continue
    <2>2. relay' = [relay EXCEPT ![r] = Off] /\ lock' \in Relays \cup {None}
      BY <2>1, StopRelayMoves
    <2>3. Off # relay[r]
      BY DEF Off
    <2> QED
      BY <2>2, <2>3, OffFine
  <1>6. CASE rest = <<>> /\ ~relay[r].stop
    <2>1. relay' = [relay EXCEPT ![r] = [Off EXCEPT !.pc = "idle"]] /\ lock' = lock
      BY <1>6 DEF Continue
    <2>2. PICK x \in Relay : x = [Off EXCEPT !.pc = "idle"]
      BY OffFine DEF Relay
    <2>3. x.pc = "idle"
      BY <2>2 DEF Off
    <2>4. Fine(x) /\ x # relay[r]
      BY <2>3 DEF Fine
    <2> QED
      BY <2>1, <2>2, <2>4, <1>2
  <1> QED
    BY <1>4, <1>5, <1>6

LEMMA PublishInv ==
  ASSUME Inv, NEW r \in Relays, Publish(r)
  PROVE  Inv'
  <1> USE DEF Inv
  <1>1. relay[r].pc = "publish" /\ UNCHANGED <<rows, enqueued, inflight, drawn, lock, faults>>
    BY DEF Publish, dbVars
  <1>2. PICK p \in Committed, e \in Events : p = Head(relay[r].batch) /\ e = rows[p].event
    BY <1>1, BatchHead
  <1>3. log' = Append(log, e)
    BY <1>2 DEF Publish
  <1>4. /\ log' \in Seq(Events)
        /\ EL!InLog(e)'
        /\ \A event : EL!InLog(event) => EL!InLog(event)'
    BY <1>3, LogGrows
  <1>5. Kept
    BY <1>1 DEF Kept, TypeOK
  <1>6. relay[r] \in Relay /\ relay \in [Relays -> Relay]
    BY DEF TypeOK
  <1>7. PICK x \in Relay : x = [relay[r] EXCEPT !.pc = "mark"]
    BY <1>6 DEF Relay
  <1>8. relay' = [relay EXCEPT ![r] = x] /\ x.pc = "mark" /\ x.batch = relay[r].batch
    BY <1>6, <1>7 DEF Publish, Relay
  <1>9. Fine(relay[r]) /\ Committed' = Committed
    BY <1>1 DEF RelaysOK, Committed, Positions
  <1>10. EL!InLog(rows[Head(x.batch)].event)'
    BY <1>1, <1>2, <1>4, <1>8 DEF EL!InLog
  <1>11. Fine(x)'
    BY <1>1, <1>8, <1>9, <1>10 DEF Fine
  <1>12. FlagsOK'
    BY <1>1 DEF FlagsOK, Positions
  <1>13. inflight' \subseteq Events \X Nat /\ drawn' \in Nat /\ lock' \in Relays \cup {None}
           /\ faults' \in Nat
    BY <1>1 DEF TypeOK
  <1> QED
    BY <1>1, <1>4, <1>5, <1>8, <1>11, <1>12, <1>13, MoveKeepsInv

LEMMA PublishFailsInv ==
  ASSUME Inv, NEW r \in Relays, PublishFails(r)
  PROVE  Inv'
  <1> USE DEF Inv
  <1>1. relay[r].pc = "publish" /\ UNCHANGED <<rows, enqueued, log, drawn, lock>>
    BY DEF PublishFails, dbVars
  <1>2. PICK p \in Committed, e \in Events : p = Head(relay[r].batch) /\ e = rows[p].event
    BY <1>1, BatchHead
  <1>3. relay[r] \in Relay /\ relay \in [Relays -> Relay] /\ relay[r].token \in Nat
    BY DEF TypeOK, Relay
  <1>4. inflight' = inflight \cup {<<e, relay[r].token>>}
    BY <1>2 DEF PublishFails
  <1>5. inflight' \subseteq Events \X Nat
    BY <1>3, <1>4 DEF TypeOK
  <1>6. PICK stop \in BOOLEAN : relay' = [relay EXCEPT ![r].pc = "release", ![r].stop = stop]
    BY DEF PublishFails
  <1>7. PICK x \in Relay : x = [relay[r] EXCEPT !.pc = "release", !.stop = stop]
    BY <1>3 DEF Relay
  <1>8. relay' = [relay EXCEPT ![r] = x] /\ x.pc = "release" /\ x.batch = relay[r].batch
    BY <1>3, <1>6, <1>7 DEF Relay
  <1>9. Kept
    BY <1>1 DEF Kept, TypeOK
  <1>10. \A event : EL!InLog(event) => EL!InLog(event)'
    BY <1>1 DEF EL!InLog
  <1>11. Grows
    BY <1>9, <1>10, KeptGrows
  <1>12. Fine(relay[r])
    BY DEF RelaysOK
  <1>13. Fine(x)
    BY <1>1, <1>8, <1>12 DEF Fine
  <1>14. Fine(x)'
    BY <1>11, <1>13, FineGrows
  <1>15. BatchSize = 1 => Deliverable(e)'
    <2>1. BatchSize = 1 => Deliverable(e)
      BY <1>1, <1>2, <1>12 DEF Fine
    <2> QED
      BY <2>1, <1>11, DeliverableGrows
  <1>16. BatchSize = 1 => \A copy \in inflight' : copy \in inflight \/ Deliverable(copy[1])'
    BY <1>4, <1>15 DEF Deliverable
  <1>17. FlagsOK'
    BY <1>1 DEF FlagsOK, Positions
  <1>18. log' \in Seq(Events) /\ drawn' \in Nat /\ lock' \in Relays \cup {None} /\ faults' \in Nat
    BY <1>1 DEF TypeOK, PublishFails, Fault
  <1> QED
    BY <1>1, <1>5, <1>8, <1>9, <1>10, <1>14, <1>16, <1>17, <1>18, MoveKeepsInv

\* mark_published and release_failed_claim write one row, or none.
LEMMA RowWritten ==
  ASSUME Inv, NEW p \in Committed, NEW published \in BOOLEAN, ~rows[p].published,
         rows' = [rows EXCEPT ![p] = [Unclaimed(@) EXCEPT !.published = published]],
         UNCHANGED enqueued
  PROVE  /\ Kept /\ FlagsOK' /\ rows'[p].published = published
         /\ \A q \in Positions : q # p => rows'[q] = rows[q]
  <1> USE DEF Inv
  <1>1. p \in Positions /\ rows[p] \in OutboxRow /\ rows[p].state = "committed"
    BY RowsTyped DEF Committed
  <1>2. PICK row \in OutboxRow : row = [Unclaimed(rows[p]) EXCEPT !.published = published]
    BY <1>1 DEF OutboxRow, Unclaimed
  <1>3. rows' = [rows EXCEPT ![p] = row]
    BY <1>2
  <1>4. /\ rows' \in Seq(OutboxRow) /\ DOMAIN rows' = DOMAIN rows /\ Positions' = Positions
        /\ rows'[p] = row
        /\ \A q \in Positions : q # p => rows'[q] = rows[q]
    BY <1>1, <1>3, RowRewritten
  <1>5. /\ row.state = rows[p].state /\ row.event = rows[p].event
        /\ row.published = published /\ row.token = None /\ row.lease = "none"
    BY <1>1, <1>2 DEF OutboxRow, Unclaimed
  <1>6. Kept
    BY <1>4, <1>5 DEF Kept
  <1>7. FlagsOK'
    BY <1>1, <1>4, <1>5 DEF FlagsOK
  <1> QED
    BY <1>4, <1>5, <1>6, <1>7

\* The rest of a batch, once the table is written.
LEMMA ContinueInv ==
  ASSUME Inv, NEW r \in Relays, NEW pc \in {"publish", "release"},
         relay[r].pc \in {"mark", "release"},
         Continue(r, Tail(relay[r].batch), pc),
         Kept, FlagsOK', UNCHANGED <<enqueued, log, inflight, drawn, faults>>,
         \A p \in Committed : rows'[p].published =>
           rows[p].published \/ EL!InLog(rows[p].event)
  PROVE  Inv'
  <1> USE DEF Inv
  <1>1. lock' \in Relays \cup {None}
    BY ContinueMoves
  <1>2. PICK x \in Relay : relay' = [relay EXCEPT ![r] = x] /\ Fine(x)
    BY ContinueMoves
  <1>3. \A event : EL!InLog(event) => EL!InLog(event)'
    BY DEF EL!InLog
  <1>4. Fine(x)'
    BY <1>2, <1>3, KeptGrows, FineGrows
  <1>5. log' \in Seq(Events) /\ inflight' \subseteq Events \X Nat /\ drawn' \in Nat /\ faults' \in Nat
    BY DEF TypeOK
  <1>6. \A p \in Committed : rows'[p].event = rows[p].event
    BY RowsTyped DEF Kept
  <1>7. \A p \in Committed : rows'[p].published => rows[p].published \/ EL!InLog(rows[p].event)'
    BY <1>6 DEF EL!InLog
  <1> QED
    BY <1>1, <1>2, <1>3, <1>4, <1>5, <1>7, MoveKeepsInv

LEMMA NothingWritten ==
  ASSUME Inv, UNCHANGED rows, UNCHANGED enqueued
  PROVE  Kept /\ FlagsOK'
  BY DEF Inv, Kept, TypeOK, FlagsOK, Positions

LEMMA MarkInv ==
  ASSUME Inv, NEW r \in Relays, Mark(r)
  PROVE  Inv'
  <1> USE DEF Inv
  <1>1. relay[r].pc = "mark" /\ UNCHANGED <<enqueued, log, inflight, drawn, faults>>
    BY DEF Mark
  <1>2. PICK p \in Committed : p = Head(relay[r].batch)
    BY <1>1, BatchHead
  <1>3. EL!InLog(rows[p].event)
    BY <1>1, <1>2 DEF RelaysOK, Fine
  <1>4. CASE /\ OwnsRow(p, relay[r].token)
             /\ rows' = [rows EXCEPT ![p] = [Unclaimed(@) EXCEPT !.published = TRUE]]
             /\ Continue(r, Tail(relay[r].batch), "publish")
    <2>1. Kept /\ FlagsOK' /\ \A q \in Positions : q # p => rows'[q] = rows[q]
      BY <1>1, <1>4, RowWritten DEF OwnsRow
    <2>2. \A q \in Committed : rows'[q].published => rows[q].published \/ EL!InLog(rows[q].event)
      BY <2>1, <1>3, RowsTyped
    <2> QED
      BY <2>1, <2>2, <1>1, <1>4, ContinueInv
  <1>5. CASE Continue(r, Tail(relay[r].batch), "release") /\ UNCHANGED rows
    BY <1>1, <1>5, NothingWritten, ContinueInv
  <1> QED
    BY <1>2, <1>4, <1>5 DEF Mark

LEMMA ReleaseInv ==
  ASSUME Inv, NEW r \in Relays, Release(r)
  PROVE  Inv'
  <1> USE DEF Inv
  <1>1. /\ relay[r].pc = "release" /\ UNCHANGED <<enqueued, log, inflight, drawn, faults>>
        /\ Continue(r, Tail(relay[r].batch), "release")
    BY DEF Release
  <1>2. PICK p \in Committed : p = Head(relay[r].batch)
    BY <1>1, BatchHead
  <1>3. CASE OwnsRow(p, relay[r].token) /\ rows' = [rows EXCEPT ![p] = Unclaimed(@)]
    <2>1. rows[p] \in OutboxRow /\ ~rows[p].published
      BY <1>3, RowsTyped DEF OwnsRow
    <2>2. Unclaimed(rows[p]) = [Unclaimed(rows[p]) EXCEPT !.published = FALSE]
      BY <2>1 DEF OutboxRow, Unclaimed
    <2>3. rows' = [rows EXCEPT ![p] = [Unclaimed(@) EXCEPT !.published = FALSE]]
      BY <2>2, <1>3
    <2>4. /\ Kept /\ FlagsOK' /\ rows'[p].published = FALSE
          /\ \A q \in Positions : q # p => rows'[q] = rows[q]
      BY <2>1, <2>3, <1>1, RowWritten
    <2>5. \A q \in Committed : rows'[q].published => rows[q].published
      BY <2>4, RowsTyped
    <2> QED
      BY <2>4, <2>5, <1>1, ContinueInv
  <1>4. CASE UNCHANGED rows
    BY <1>1, <1>4, NothingWritten, ContinueInv
  <1> QED
    BY <1>2, <1>3, <1>4 DEF Release

-----------------------------------------------------------------------------
(* A claim takes a run of rows in the order of their positions *)

LEMMA NatMin ==
  ASSUME NEW T, T \subseteq Nat, T # {}
  PROVE  \E m \in T : \A n \in T : m <= n
  <1>1. PICK R : R = OpToRel(<, Nat)
    OBVIOUS
  <1>2. IsWellFoundedOn(R, Nat)
    BY <1>1, NatLessThanWellFounded
  <1>3. PICK m \in T : \A n \in T : ~(<<n, m>> \in R)
    BY <1>2, WFMin
  <1>4. \A n \in T : ~(n < m)
    BY <1>1, <1>3 DEF OpToRel
  <1> QED
    BY <1>4

LEMMA BoundedIsFinite ==
  ASSUME NEW top \in Nat, NEW run \in SUBSET (1 .. top)
  PROVE  IsFiniteSet(run) /\ Cardinality(run) \in Nat
  <1>1. run \in SUBSET Nat /\ \A q \in run : q <= top
    OBVIOUS
  <1>2. IsFiniteSet(run)
    BY <1>1, FS_BoundedSetOfNaturals
  <1> QED
    BY <1>2, FS_CardinalityType

\* Every place of a finite set of positions is taken.
LEMMA EveryPlaceTaken ==
  ASSUME NEW top \in Nat, NEW run \in SUBSET (1 .. top), NEW i \in 1 .. Cardinality(run)
  PROVE  \E p \in run : Cardinality({q \in run : q <= p}) = i
  <1> DEFINE Below(n) == {q \in run : q <= n}
             Enough == {n \in Nat : i <= Cardinality(Below(n))}
  <1>1. IsFiniteSet(run) /\ Cardinality(run) \in Nat
    BY BoundedIsFinite
  <1>2. \A n \in Nat : IsFiniteSet(Below(n)) /\ Cardinality(Below(n)) \in Nat
    <2> TAKE n \in Nat
    <2>1. Below(n) \in SUBSET run
      OBVIOUS
    <2> QED
      BY <2>1, <1>1, FS_Subset, FS_CardinalityType
  <1>0. \A q \in run : q \in Nat /\ 1 <= q /\ q <= top
    OBVIOUS
  <1>3. Below(top) = run
    BY <1>0
  <1>4. top \in Enough
    BY <1>1, <1>3
  <1>5. PICK m \in Enough : \A n \in Enough : m <= n
    <2>1. Enough \subseteq Nat /\ Enough # {}
      BY <1>4
    <2> HIDE DEF Enough
    <2> QED
      BY <2>1, NatMin
  <1>6. m \in Nat /\ i <= Cardinality(Below(m)) /\ i \in Nat /\ 1 <= i
    BY <1>1, <1>5
  <1>7. m # 0
    <2> SUFFICES ASSUME m = 0 PROVE FALSE
      OBVIOUS
    <2>1. \A q \in run : ~(q <= m)
      BY <1>0
    <2>2. Below(m) = {}
      BY <2>1
    <2>3. Cardinality(Below(m)) = 0
      BY <2>2, FS_EmptySet
    <2> QED
      BY <2>3, <1>6
  <1>8. PICK k \in Nat : m = k + 1
    <2>1. m - 1 \in Nat /\ m = (m - 1) + 1
      BY <1>6, <1>7
    <2> QED
      BY <2>1
  <1>9. k \notin Enough
    BY <1>5, <1>8
  <1>10. Cardinality(Below(k)) < i
    BY <1>2, <1>6, <1>8, <1>9
  <1>11. m \in run
    <2> SUFFICES ASSUME m \notin run PROVE FALSE
      OBVIOUS
    <2>1. \A q \in run : q <= m <=> q <= k
      BY <1>0, <1>8
    <2>2. Below(m) = Below(k)
      BY <2>1
    <2>3. Cardinality(Below(k)) \in Nat
      BY <1>2
    <2> HIDE DEF Below
    <2> QED
      BY <2>2, <2>3, <1>6, <1>10
  <1>12. Below(m) = Below(k) \cup {m} /\ m \notin Below(k)
    <2>1. \A q \in run : q <= m <=> q <= k \/ q = m
      BY <1>0, <1>8
    <2>2. m <= m /\ ~(m <= k)
      BY <1>8
    <2> QED
      BY <2>1, <2>2, <1>11
  <1>13. Cardinality(Below(m)) = Cardinality(Below(k)) + 1
    <2> HIDE DEF Below
    <2> QED
      BY <1>2, <1>8, <1>12, FS_AddElement
  <1>14. Cardinality(Below(m)) = i
    <2>1. Cardinality(Below(m)) \in Nat /\ Cardinality(Below(k)) \in Nat
      BY <1>2, <1>6, <1>8
    <2> HIDE DEF Below
    <2> QED
      BY <2>1, <1>6, <1>10, <1>13
  <1> QED
    BY <1>11, <1>14

\* The batch is a sequence of the rows of the run, as long as the run.
LEMMA AscendingIsSeq ==
  ASSUME NEW top \in Nat, NEW run \in SUBSET (1 .. top)
  PROVE  /\ Cardinality(run) \in Nat
         /\ Ascending(run) \in Seq(run) /\ Len(Ascending(run)) = Cardinality(run)
  <1>1. IsFiniteSet(run) /\ Cardinality(run) \in Nat
    BY BoundedIsFinite
  <1>2. ASSUME NEW i \in 1 .. Cardinality(run)
        PROVE  (CHOOSE p \in run : Cardinality({q \in run : q <= p}) = i) \in run
    BY EveryPlaceTaken
  <1>3. Ascending(run) \in [1 .. Cardinality(run) -> run]
    BY <1>2 DEF Ascending
  <1>4. Ascending(run) \in Seq(run)
    BY <1>1, <1>3, SeqDef
  <1> QED
    BY <1>1, <1>3, <1>4, LenProperties

\* A claim of run by r with the token it draws.
Claims(r, run) ==
    /\ run \subseteq Unpublished /\ relay[r].head \in run /\ Cardinality(run) <= BatchSize
    /\ rows' = [p \in Positions |-> IF p \in run THEN ClaimedRow(rows[p], drawn') ELSE rows[p]]
    /\ relay' = [relay EXCEPT ![r] = [@ EXCEPT !.pc = "publish", !.head = 0,
                                      !.token = drawn', !.batch = Ascending(run)]]

LEMMA ClaimTakesRun ==
  ASSUME Inv, NEW r \in Relays, ClaimBatch(r)
  PROVE  /\ relay[r].pc = "claim" /\ drawn \in Nat /\ drawn' = drawn + 1
         /\ UNCHANGED <<enqueued, log, inflight, lock, faults>>
         /\ \E run : Claims(r, run)
  <1>1. PICK run \in Runs(relay[r].head) :
          /\ rows' = [p \in Positions |->
                        IF p \in run THEN ClaimedRow(rows[p], drawn') ELSE rows[p]]
          /\ relay' = [relay EXCEPT ![r] = [@ EXCEPT !.pc = "publish", !.head = 0,
                                            !.token = drawn', !.batch = Ascending(run)]]
    BY DEF ClaimBatch
  <1>2. run \subseteq Unpublished /\ relay[r].head \in run /\ Cardinality(run) <= BatchSize
    BY DEF Runs
  <1>3. Claims(r, run)
    BY <1>1, <1>2 DEF Claims
  <1> QED
    BY <1>3 DEF ClaimBatch, Inv, TypeOK

LEMMA RunBounds ==
  ASSUME Inv, NEW r \in Relays, NEW run, Claims(r, run)
  PROVE  /\ Cardinality(run) \in Nat /\ Cardinality(run) # 0
         /\ Ascending(run) \in Seq(Nat) /\ Len(Ascending(run)) = Cardinality(run)
         /\ \A i \in DOMAIN Ascending(run) : Ascending(run)[i] \in run
         /\ Ascending(run) # <<>> /\ Head(Ascending(run)) \in run
         /\ BatchSize = 1 =>
              Len(Ascending(run)) = 1 /\ Head(Ascending(run)) = relay[r].head
  <1> DEFINE batch == Ascending(run)
  <1>1. Len(rows) \in Nat /\ run \in SUBSET (1 .. Len(rows))
    BY RowsTyped DEF Inv, Claims, Unpublished
  <1>2. /\ IsFiniteSet(run) /\ Cardinality(run) \in Nat
        /\ batch \in Seq(run) /\ Len(batch) = Cardinality(run)
    BY <1>1, BoundedIsFinite, AscendingIsSeq
  <1>3. Cardinality(run) # 0
    BY <1>2, FS_EmptySet DEF Claims
  <1> HIDE DEF batch
  <1>4. run \subseteq Nat
    BY <1>1
  <1>5. batch \in Seq(Nat)
    BY <1>2, <1>4, SeqMonotonic
  <1>6. batch # <<>>
    BY <1>2, <1>3, EmptySeq
  <1>7. \A i \in DOMAIN batch : batch[i] \in run
    BY <1>2, LenProperties, ElementOfSeq
  <1>8. Head(batch) \in run
    BY <1>2, <1>6, HeadTailProperties
  <1>9. ASSUME BatchSize = 1 PROVE Len(batch) = 1 /\ Head(batch) = relay[r].head
    <2>1. Cardinality(run) = 1
      BY <1>2, <1>3, <1>9 DEF Claims
    <2>2. PICK y : run = {y}
      BY <2>1, <1>2, FS_Singleton
    <2> QED
      BY <2>1, <2>2, <1>2, <1>8 DEF Claims
  <1> QED
    BY <1>2, <1>3, <1>5, <1>6, <1>7, <1>8, <1>9 DEF batch

LEMMA ClaimedRows ==
  ASSUME Inv, NEW r \in Relays, NEW run, Claims(r, run), drawn' \in Nat, UNCHANGED enqueued
  PROVE  /\ Kept /\ FlagsOK' /\ Positions' = Positions
         /\ run \subseteq Committed
         /\ \A p \in run : ~rows[p].published /\ rows'[p].token = drawn'
         /\ \A p \in Positions : p \notin run => rows'[p] = rows[p]
         /\ \A p \in Positions : rows'[p].published = rows[p].published
  <1> USE DEF Inv
  <1>1. /\ Len(rows) \in Nat /\ rows \in Seq(OutboxRow)
        /\ \A p : p \in Positions <=> p \in 1 .. Len(rows)
        /\ \A p \in Positions : rows[p] \in OutboxRow
    BY RowsTyped DEF TypeOK
  <1>2. run \subseteq Committed /\ \A p \in run : ~rows[p].published /\ rows[p].state = "committed"
    BY DEF Claims, Unpublished, Committed
  <1>3. ASSUME NEW row \in OutboxRow
        PROVE  /\ ClaimedRow(row, drawn') \in OutboxRow
               /\ ClaimedRow(row, drawn').state = row.state
               /\ ClaimedRow(row, drawn').event = row.event
               /\ ClaimedRow(row, drawn').published = row.published
               /\ ClaimedRow(row, drawn').token = drawn'
    BY DEF ClaimedRow, OutboxRow
  <1>4. /\ DOMAIN rows' = Positions
        /\ \A p \in Positions : rows'[p] = IF p \in run THEN ClaimedRow(rows[p], drawn') ELSE rows[p]
    BY DEF Claims
  <1>5. \A p \in Positions : p \in run => rows'[p] = ClaimedRow(rows[p], drawn')
    BY <1>4
  <1>6. \A p \in Positions : p \notin run => rows'[p] = rows[p]
    BY <1>4
  <1>7. \A p \in Positions :
          /\ rows'[p] \in OutboxRow /\ rows'[p].state = rows[p].state
          /\ rows'[p].event = rows[p].event /\ rows'[p].published = rows[p].published
    BY <1>1, <1>3, <1>5, <1>6
  <1>8. rows' \in Seq(OutboxRow)
    <2>1. Positions = 1 .. Len(rows)
      BY <1>1
    <2>2. rows' \in [1 .. Len(rows) -> OutboxRow]
      BY <2>1, <1>7 DEF Claims
    <2> QED
      BY <2>2, <1>1, SeqDef
  <1>9. Kept /\ Positions' = Positions
    BY <1>4, <1>7, <1>8 DEF Kept, Positions
  <1>10. FlagsOK'
    BY <1>2, <1>5, <1>6, <1>7, <1>9 DEF FlagsOK
  <1>11. run \subseteq Positions
    BY <1>2 DEF Committed
  <1>12. \A p \in run : rows'[p].token = drawn'
    BY <1>1, <1>3, <1>5, <1>11
  <1> QED
    BY <1>2, <1>6, <1>7, <1>9, <1>10, <1>12

LEMMA ClaimBatchInv ==
  ASSUME Inv, NEW r \in Relays, ClaimBatch(r)
  PROVE  Inv'
  <1> USE DEF Inv
  <1>1. /\ relay[r].pc = "claim" /\ drawn' \in Nat
        /\ UNCHANGED <<enqueued, log, inflight, lock, faults>>
    BY ClaimTakesRun
  <1>2. PICK run : Claims(r, run)
    BY ClaimTakesRun
  <1>3. /\ Kept /\ FlagsOK' /\ run \subseteq Committed
        /\ \A p \in Positions : rows'[p].published = rows[p].published
    BY <1>1, <1>2, ClaimedRows
  <1>4. PICK batch \in Seq(Nat) :
          /\ batch = Ascending(run) /\ batch # <<>>
          /\ \A i \in DOMAIN batch : batch[i] \in run
          /\ BatchSize = 1 => Len(batch) = 1 /\ Head(batch) = relay[r].head
    BY <1>2, RunBounds
  <1>5. relay[r] \in Relay /\ relay \in [Relays -> Relay]
    BY DEF TypeOK
  <1>6. PICK tok \in Nat : tok = drawn'
    BY <1>1
  <1>7. PICK x \in Relay : x = [relay[r] EXCEPT !.pc = "publish", !.head = 0,
                                                !.token = tok, !.batch = batch]
    BY <1>5 DEF Relay
  <1>8. relay' = [relay EXCEPT ![r] = x]
    BY <1>2, <1>4, <1>6, <1>7 DEF Claims
  <1>9. x.pc = "publish" /\ x.batch = batch
    BY <1>5, <1>7 DEF Relay
  <1>10. Deliverable(rows[relay[r].head].event)
    BY <1>1 DEF RelaysOK, Fine
  <1>11. Fine(x)
    BY <1>3, <1>4, <1>9, <1>10 DEF Fine
  <1>12. \A event : EL!InLog(event) => EL!InLog(event)'
    BY <1>1 DEF EL!InLog
  <1>13. Fine(x)'
    BY <1>3, <1>11, <1>12, KeptGrows, FineGrows
  <1>14. /\ log' \in Seq(Events) /\ inflight' \subseteq Events \X Nat
         /\ lock' \in Relays \cup {None} /\ faults' \in Nat
    BY <1>1 DEF TypeOK
  <1>15. \A p \in Committed : rows'[p].published => rows[p].published
    BY <1>3, RowsTyped
  <1> QED
    BY <1>1, <1>3, <1>8, <1>12, <1>13, <1>14, <1>15, MoveKeepsInv

-----------------------------------------------------------------------------
(* The theorems *)

LEMMA InitInv == Init => Inv
  <1> SUFFICES ASSUME Init PROVE Inv
    OBVIOUS
  <1>1. rows = <<>> /\ Positions = {} /\ Committed = {}
    BY EmptySeq DEF Init, Positions, Committed
  <1>2. TypeOK
    <2>1. rows \in Seq(OutboxRow) /\ log \in Seq(Events)
      BY EmptySeq DEF Init
    <2> QED
      BY <2>1, OffFine DEF Init, TypeOK
  <1>3. StoryOK /\ FlagsOK /\ PublishedIsInLog
    BY <1>1 DEF StoryOK, FlagsOK, PublishedIsInLog, Init
  <1>4. RelaysOK
    BY OffFine DEF RelaysOK, Init
  <1>5. InflightOK
    BY DEF InflightOK, Init
  <1> QED
    BY <1>2, <1>3, <1>4, <1>5 DEF Inv

LEMMA StutterInv ==
  ASSUME Inv, UNCHANGED vars
  PROVE  Inv'
  <1> USE DEF Inv
  <1>1. UNCHANGED <<rows, enqueued, log, inflight, drawn, lock, relay, faults>>
    BY DEF vars
  <1>2. TypeOK'
    BY <1>1 DEF TypeOK
  <1>3. Kept
    BY <1>1 DEF Kept, TypeOK
  <1>4. StoryOK' /\ Committed' = Committed
    BY <1>3, StoryKept
  <1>5. FlagsOK'
    BY <1>1 DEF FlagsOK, Positions
  <1>6. Grows
    BY <1>1, <1>3, KeptGrows DEF EL!InLog
  <1> QED
    BY <1>1, <1>2, <1>4, <1>5, <1>6, StepKeepsInv

LEMMA NextInv ==
  ASSUME Inv, [Next]_vars
  PROVE  Inv'
  <1>1. CASE \E j \in Jobs : Enqueue(j)
    BY <1>1, EnqueueInv
  <1>2. CASE \E p \in Positions : Commit(p) \/ Rollback(p) \/ LeaseExpires(p)
    BY <1>2, CommitInv, RollbackInv, LeaseExpiresInv
  <1>3. CASE \E copy \in inflight : Lands(copy) \/ Vanishes(copy)
    BY <1>3, BrokerInv
  <1>4. CASE \E r \in Relays : Acquire(r) \/ LockLost(r) \/ Stop(r) \/ Running(r)
    BY <1>4, AcquireInv, LockLostInv, StopInv, PeekInv, ClaimNothingInv, ClaimBatchInv,
       PublishInv, PublishFailsInv, MarkInv, ReleaseInv DEF Running
  <1>5. CASE UNCHANGED vars
    BY <1>5, StutterInv
  <1> QED
    BY <1>1, <1>2, <1>3, <1>4, <1>5 DEF Next

LEMMA InvHolds == Spec => []Inv
  <1>1. Init => Inv
    BY InitInv
  <1>2. Inv /\ [Next]_vars => Inv'
    BY NextInv
  <1> QED
    BY <1>1, <1>2, PTL DEF Spec

\* Rows, records and processes hold values of their declared kinds.
THEOREM OutboxTypeCorrect == Spec => []TypeOK
  <1>1. Inv => TypeOK
    BY DEF Inv
  <1> QED
    BY <1>1, InvHolds, PTL

\* mark_published never loses an event, whatever fails, expires or is claimed
\* twice, for batches of any size: a row that counts as published is in the topic.
THEOREM OutboxLosesNothing == Spec => []PublishedIsInLog
  <1>1. Inv => PublishedIsInLog
    BY DEF Inv
  <1> QED
    BY <1>1, InvHolds, PTL

-----------------------------------------------------------------------------
(* The refinement of EventLog *)

LEMMA DeliverableIsDelivered ==
  ASSUME Inv, NEW e \in Events, Deliverable(e), log' = Append(log, e), UNCHANGED enqueued
  PROVE  EL!LogNext
  <1>1. PICK j \in Jobs, n \in Nat \ {0} : e = <<j, n>> /\ e[1] = j /\ e[2] = n
    BY DEF Events
  <1>2. enqueued[j] \in Nat /\ n <= enqueued[j]
    BY <1>1 DEF Deliverable, Inv, TypeOK
  <1>3. n \in 1 .. enqueued[j]
    BY <1>1, <1>2
  <1>4. n = 1 \/ EL!InLog(<<j, n - 1>>)
    BY <1>1 DEF Deliverable
  <1>5. EL!Delivered(j, n)
    BY <1>1, <1>3, <1>4 DEF EL!Delivered
  <1> QED
    BY <1>3, <1>5 DEF EL!LogNext

LEMMA StepDelivers ==
  ASSUME Inv, BatchSize = 1, [Next]_vars
  PROVE  EL!LogNext \/ UNCHANGED <<enqueued, log>>
  <1> USE DEF Inv
  <1>1. ASSUME NEW j \in Jobs, Enqueue(j)
        PROVE  UNCHANGED <<enqueued, log>>
    BY <1>1 DEF Enqueue
  <1>2. ASSUME NEW p \in Positions, Commit(p)
        PROVE  EL!LogNext
    <2>1. PICK j \in Jobs : j = rows[p].event[1]
      BY RowsTyped
    <2>2. EL!Enqueued(j)
      BY <1>2, <2>1 DEF Commit, EL!Enqueued
    <2> QED
      BY <2>2 DEF EL!LogNext
  <1>3. ASSUME NEW p \in Positions, Rollback(p) \/ LeaseExpires(p)
        PROVE  UNCHANGED <<enqueued, log>>
    BY <1>3 DEF Rollback, LeaseExpires
  <1>4. ASSUME NEW copy \in inflight, Lands(copy)
        PROVE  EL!LogNext
    <2>1. copy[1] \in Events /\ Deliverable(copy[1])
      BY DEF TypeOK, InflightOK
    <2> QED
      BY <2>1, <1>4, DeliverableIsDelivered DEF Lands, dbVars
  <1>5. ASSUME NEW copy \in inflight, Vanishes(copy)
        PROVE  UNCHANGED <<enqueued, log>>
    BY <1>5 DEF Vanishes, dbVars
  <1>6. ASSUME NEW r \in Relays, Publish(r)
        PROVE  EL!LogNext
    <2>1. relay[r].pc = "publish"
      BY <1>6 DEF Publish
    <2>2. rows[Head(relay[r].batch)].event \in Events
      BY <2>1, BatchHead
    <2>3. Deliverable(rows[Head(relay[r].batch)].event)
      BY <2>1 DEF RelaysOK, Fine
    <2> QED
      BY <2>2, <2>3, <1>6, DeliverableIsDelivered DEF Publish, dbVars
  <1>7. ASSUME NEW r \in Relays, Acquire(r) \/ LockLost(r) \/ Stop(r) \/ Running(r), ~Publish(r)
        PROVE  UNCHANGED <<enqueued, log>>
    BY <1>7 DEF Acquire, LockLost, Stop, Running, Peek, ClaimNothing, ClaimBatch, ClaimRefused,
       PublishFails, Mark, Release, dbVars
  <1>8. CASE UNCHANGED vars
    BY <1>8 DEF vars
  <1> QED
    BY <1>1, <1>2, <1>3, <1>4, <1>5, <1>6, <1>7, <1>8 DEF Next

\* With batches of one, as deployed, the relays implement EventLog: only
\* committed events are published, and the events of one job reach the topic in
\* their order the first time, whatever crashes, times out, loses its lock or is
\* delivered again.
THEOREM OutboxRefinesEventLog == BatchSize = 1 => (Spec => ImplementsEventLog)
  <1> SUFFICES ASSUME BatchSize = 1 PROVE Spec => ImplementsEventLog
    OBVIOUS
  <1>1. Init => EL!LogInit
    BY DEF Init, EL!LogInit
  <1>2. Inv /\ [Next]_vars => [EL!LogNext]_(EL!logVars)
    BY StepDelivers DEF EL!logVars
  <1> QED
    BY <1>1, <1>2, InvHolds, PTL DEF Spec, ImplementsEventLog, EL!LogSpec

\* A record that EventLog allows keeps the topic in order.
LEMMA DeliveredInOrder ==
  ASSUME Inv, EL!InOrder, EL!LogNext
  PROVE  EL!InOrder'
  <1>1. ASSUME NEW j \in Jobs, EL!Enqueued(j)
        PROVE  EL!InOrder'
    BY <1>1 DEF EL!Enqueued, EL!InOrder
  <1>2. ASSUME NEW j \in Jobs, NEW n \in 1 .. enqueued[j], EL!Delivered(j, n)
        PROVE  EL!InOrder'
    <2>1. log \in Seq(Events) /\ <<j, n>> \in Events
      BY DEF Inv, TypeOK, Events
    <2>2. /\ log' = Append(log, <<j, n>>)
          /\ n # 1 => \E k \in DOMAIN log : log[k] = <<j, n - 1>>
      BY <1>2 DEF EL!Delivered, EL!InLog
    <2>3. /\ log' \in Seq(Events) /\ Len(log') = Len(log) + 1 /\ Len(log) \in Nat
          /\ log'[Len(log) + 1] = <<j, n>>
          /\ \A i \in 1 .. Len(log) : log'[i] = log[i]
      BY <2>1, <2>2, LenProperties, AppendProperties
    <2>4. /\ \A i : i \in DOMAIN log <=> i \in 1 .. Len(log)
          /\ \A i : i \in DOMAIN log' <=> i \in 1 .. Len(log')
      BY <2>1, <2>3
    <2> SUFFICES ASSUME NEW i \in 1 .. Len(log'), log'[i][2] # 1
                 PROVE  \E k \in 1 .. Len(log') :
                          k < i /\ log'[k] = <<log'[i][1], log'[i][2] - 1>>
      BY <2>4 DEF EL!InOrder
    <2>5. CASE i \in 1 .. Len(log)
      <3>1. PICK k \in 1 .. Len(log) : k < i /\ log[k] = <<log[i][1], log[i][2] - 1>>
        BY <2>3, <2>4, <2>5 DEF EL!InOrder
      <3>2. k \in 1 .. Len(log')
        BY <2>3
      <3> QED
        BY <2>3, <2>5, <3>1, <3>2
    <2>6. CASE i \notin 1 .. Len(log)
      <3>1. i = Len(log) + 1 /\ log'[i] = <<j, n>> /\ n # 1
        BY <2>3, <2>6
      <3>2. PICK k \in 1 .. Len(log) : log[k] = <<j, n - 1>>
        BY <2>2, <2>4, <3>1
      <3>3. k \in 1 .. Len(log') /\ k < i /\ log'[k] = log[k]
        BY <2>3, <3>1
      <3> QED
        BY <3>1, <3>2, <3>3
    <2> QED
      BY <2>5, <2>6
  <1> QED
    BY <1>1, <1>2 DEF EL!LogNext

\* With batches of one the topic is in order in every state, which is what the
\* consumer's theorems about projections and refusals suppose of it.
THEOREM OutboxKeepsOrder == BatchSize = 1 => (Spec => []EL!InOrder)
  <1> SUFFICES ASSUME BatchSize = 1 PROVE Spec => []EL!InOrder
    OBVIOUS
  <1>1. Init => EL!InOrder
    BY DEF Init, EL!InOrder
  <1>2. Inv /\ EL!InOrder /\ [Next]_vars => EL!InOrder'
    <2> SUFFICES ASSUME Inv, EL!InOrder, [Next]_vars PROVE EL!InOrder'
      OBVIOUS
    <2>1. CASE UNCHANGED <<enqueued, log>>
      BY <2>1 DEF EL!InOrder
    <2> QED
      BY <2>1, StepDelivers, DeliveredInOrder
  <1> QED
    BY <1>1, <1>2, InvHolds, PTL DEF Spec

-----------------------------------------------------------------------------
(* Who writes a row *)

\* The row p after a step of the model, as FencedRows describes it.
Fenced(p) ==
    /\ rows[p].published => rows'[p] = rows[p]
    /\ rows[p].token # None /\ rows'[p] # rows[p] =>
         \/ rows'[p] = [rows[p] EXCEPT !.lease = "expired"]
         \/ rows'[p].token = drawn' /\ drawn' # drawn
         \/ \E r \in Relays : relay'[r] # relay[r] /\ relay[r].token = rows[p].token

LEMMA UnwrittenIsFenced ==
  ASSUME NEW p, rows'[p] = rows[p]
  PROVE  Fenced(p)
  BY DEF Fenced

LEMMA TransactionFenced ==
  ASSUME Inv, NEW o \in Positions, Commit(o) \/ Rollback(o) \/ LeaseExpires(o),
         NEW p \in Positions
  PROVE  Fenced(p)
  <1> USE DEF Inv
  <1>1. CASE p # o
    <2>1. rows'[p] = rows[p]
      BY <1>1 DEF Commit, Rollback, LeaseExpires, Positions
    <2> QED
      BY <2>1, UnwrittenIsFenced
  <1>2. CASE p = o /\ (Commit(o) \/ Rollback(o))
    <2>1. ~rows[p].published /\ rows[p].token = None
      BY <1>2 DEF Commit, Rollback, FlagsOK
    <2> QED
      BY <2>1 DEF Fenced
  <1>3. CASE p = o /\ LeaseExpires(o)
    <2>1. ~rows[p].published
      BY <1>3 DEF LeaseExpires, FlagsOK
    <2>2. rows'[p] = [rows[p] EXCEPT !.lease = "expired"]
      BY <1>3 DEF LeaseExpires, Positions
    <2> QED
      BY <2>1, <2>2 DEF Fenced
  <1> QED
    BY <1>1, <1>2, <1>3

LEMMA ClaimFenced ==
  ASSUME Inv, NEW r \in Relays, ClaimBatch(r), NEW p \in Positions
  PROVE  Fenced(p)
  <1>1. drawn' \in Nat /\ drawn' # drawn /\ enqueued' = enqueued
    BY ClaimTakesRun
  <1>2. PICK run : Claims(r, run)
    BY ClaimTakesRun
  <1>3. /\ \A q \in run : ~rows[q].published /\ rows'[q].token = drawn'
        /\ \A q \in Positions : q \notin run => rows'[q] = rows[q]
    BY <1>1, <1>2, ClaimedRows
  <1>4. CASE p \in run
    BY <1>1, <1>3, <1>4 DEF Fenced
  <1>5. CASE p \notin run
    BY <1>3, <1>5, UnwrittenIsFenced
  <1> QED
    BY <1>4, <1>5

\* Mark and Release write the head of the batch if the token is still theirs.
LEMMA BatchFenced ==
  ASSUME Inv, NEW r \in Relays, Mark(r) \/ Release(r), NEW p \in Positions
  PROVE  Fenced(p)
  <1>1. PICK o : o = Head(relay[r].batch)
    OBVIOUS
  <1>2. CASE rows'[p] = rows[p]
    BY <1>2, UnwrittenIsFenced
  <1>3. CASE rows'[p] # rows[p]
    <2>1. p = o /\ OwnsRow(o, relay[r].token)
      BY <1>1, <1>3 DEF Mark, Release, Positions
    <2>2. \E pc \in {"publish", "release"} :
            relay[r].pc \in {"mark", "release"} /\ Continue(r, Tail(relay[r].batch), pc)
      BY DEF Mark, Release
    <2>3. PICK x \in Relay : relay' = [relay EXCEPT ![r] = x] /\ x # relay[r]
      BY <2>2, ContinueMoves
    <2>4. relay'[r] # relay[r]
      BY <2>3 DEF Inv, TypeOK
    <2> QED
      BY <2>1, <2>4 DEF Fenced, OwnsRow
  <1> QED
    BY <1>2, <1>3

LEMMA StepFenced ==
  ASSUME Inv, Next, NEW p \in Positions
  PROVE  Fenced(p)
  <1>1. ASSUME NEW j \in Jobs, Enqueue(j) PROVE Fenced(p)
    BY <1>1, EnqueueAppends, UnwrittenIsFenced DEF Inv
  <1>2. CASE \E o \in Positions : Commit(o) \/ Rollback(o) \/ LeaseExpires(o)
    BY <1>2, TransactionFenced
  <1>3. ASSUME NEW copy \in inflight, Lands(copy) \/ Vanishes(copy) PROVE Fenced(p)
    BY <1>3, UnwrittenIsFenced DEF Lands, Vanishes, dbVars
  <1>4. ASSUME NEW r \in Relays, Acquire(r) \/ LockLost(r) \/ Stop(r) \/ Running(r)
        PROVE  Fenced(p)
    <2>1. CASE ClaimBatch(r)
      BY <2>1, ClaimFenced
    <2>2. CASE Mark(r) \/ Release(r)
      BY <2>2, BatchFenced
    <2>3. CASE ~(ClaimBatch(r) \/ Mark(r) \/ Release(r))
      <3>1. UNCHANGED rows
        BY <1>4, <2>3 DEF Acquire, LockLost, Stop, Running, Peek, ClaimNothing, ClaimRefused,
           Publish, PublishFails, dbVars
      <3> QED
        BY <3>1, UnwrittenIsFenced
    <2> QED
      BY <2>1, <2>2, <2>3
  <1> QED
    BY <1>1, <1>2, <1>3, <1>4 DEF Next

\* A claimed row is written by the relay that holds its token, by a new claim or
\* by time, and a published row never again: what an overtaken relay still has to
\* say about a row is ignored, for batches of any size.
THEOREM OutboxRowsFenced == Spec => FencedRows
  <1>1. Inv /\ [Next]_vars =>
          [\A p \in Positions :
             /\ rows[p].published => rows'[p] = rows[p]
             /\ rows[p].token # None /\ rows'[p] # rows[p] =>
                  \/ rows'[p] = [rows[p] EXCEPT !.lease = "expired"]
                  \/ rows'[p].token = drawn' /\ drawn' # drawn
                  \/ \E r \in Relays : relay'[r] # relay[r] /\ relay[r].token = rows[p].token]_vars
    BY StepFenced DEF Fenced
  <1> QED
    BY <1>1, InvHolds, PTL DEF Spec, FencedRows
=============================================================================
