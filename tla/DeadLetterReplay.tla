-------------------------- MODULE DeadLetterReplay --------------------------
(***************************************************************************)
(* Replaying dead letters (DeadLetterReplayService of                      *)
(* persistence/repositories/consumer_dead_letter.py, run by the operator   *)
(* command consumer/replay.py) beside the consumer that writes them.  One  *)
(* replay is up to three transactions: claim the row (TX1), apply the      *)
(* event and settle (TX2), or record the failure of TX2 (TX3).             *)
(*                                                                         *)
(* The events of one job are numbered, LastEvent is the terminal one, and  *)
(* 0 stands for a record that cannot be decoded.  Operators may run the    *)
(* command on machines whose clocks disagree, so a transaction that looks  *)
(* at a lease finds it expired or not.  The token of an attempt is its     *)
(* index.                                                                  *)
(***************************************************************************)
EXTENDS Naturals, Sequences

CONSTANTS
    Operators,   \* concurrent invocations of the command
    Keys,        \* idempotency keys
    Requests,    \* request fingerprints
    LastEvent,   \* the terminal event of the job
    Topic,       \* the events at offsets 1, 2, ...
    MaxReplays,  \* bound: replay attempts
    MaxFaults    \* bound: crashes, database failures and corrections

ASSUME ReplayAssumption ==
    /\ LastEvent \in Nat \ {0} /\ Topic \in Seq(0 .. LastEvent)
    /\ MaxReplays \in Nat /\ MaxFaults \in Nat

VARIABLES
    read,       \* how far the consumer has come in the topic
    inbox,      \* consumer_inbox: the offset each event was applied from, or 0
    projection, \* research_job_event_projection: the last event applied, or 0
    row,        \* consumer_dead_letters by offset
    attempts,   \* consumer_dead_letter_replay_attempts in order of creation
    proc,       \* the invocations
    faults

vars == <<read, inbox, projection, row, attempts, proc, faults>>

Offsets == 1 .. Len(Topic)
NoRow == [state |-> "absent", eligible |-> FALSE, token |-> 0]
Idle == [pc |-> "idle", attempt |-> 0, seen |-> 0]

Init ==
    /\ read = 0 /\ inbox = [e \in 1 .. LastEvent |-> 0] /\ projection = 0
    /\ row = [l \in Offsets |-> NoRow] /\ attempts = <<>>
    /\ proc = [o \in Operators |-> Idle] /\ faults = 0

Fault == faults < MaxFaults /\ faults' = faults + 1

Step(o, p) == proc' = [proc EXCEPT ![o] = p]

-----------------------------------------------------------------------------
(* The consumer and the projection *)

Refuses == projection = LastEvent

\* Delivery of a new record or, after a rebalance, of an old one: apply it, or
\* upsert its dead letter.  A row that is there already keeps its replay state.
\* A process that was overtaken between its two reads (Consumer) refuses even
\* what has been applied.  A refused event whose canonical form is too large is
\* not eligible.
Consume(x) ==
    LET e == Topic[x]
    IN  /\ x <= read + 1
        /\ read' = IF x > read THEN x ELSE read
        /\ \/ e # 0 /\ inbox[e] # 0 /\ UNCHANGED <<inbox, projection, row>>
           \/ /\ e # 0 /\ inbox[e] = 0 /\ ~Refuses
              /\ inbox' = [inbox EXCEPT ![e] = x] /\ projection' = e
              /\ UNCHANGED row
           \/ /\ (e # 0 => Refuses)
              /\ row' \in {IF row[x].state = "absent"
                           THEN [row EXCEPT ![x] = [state |-> "PENDING", eligible |-> eligible,
                                                    token |-> 0]]
                           ELSE row : eligible \in IF e = 0 THEN {FALSE} ELSE BOOLEAN}
              /\ UNCHANGED <<inbox, projection>>
        /\ UNCHANGED <<attempts, proc, faults>>

\* "a separately authorized correction of the underlying projection row"
Correct ==
    /\ Refuses
    /\ projection' \in 0 .. LastEvent - 1
    /\ Fault
    /\ UNCHANGED <<read, inbox, row, attempts, proc>>

-----------------------------------------------------------------------------
(* TX1: _claim *)

\* Between the ownership check and the commit of TX2 its session holds the locks
\* of the row and of the attempt.
InTX2 == {"applying", "writing"}
Locked(l) == \E o \in Operators : proc[o].pc \in InTX2 /\ attempts[proc[o].attempt].letter = l

Existing(l, k) == {a \in DOMAIN attempts : attempts[a].letter = l /\ attempts[a].key = k}

Eligible(l, expired) ==
    /\ row[l].eligible
    /\ row[l].state \in {"PENDING", "REPLAY_FAILED"} \/ (row[l].state = "REPLAYING" /\ expired)

\* Mutant: the superseded attempt is left as it is.
Lost_untouched(as, a) == as
\* An attempt that is still IN_PROGRESS becomes LOST_OWNERSHIP.
Lost(as, a) ==
    IF a \in DOMAIN as /\ as[a].status = "IN_PROGRESS"
    THEN [as EXCEPT ![a].status = "LOST_OWNERSHIP"] ELSE as

\* A key that was not used for this letter.
Claim(o, l, k, f, expired) ==
    /\ proc[o].pc = "idle" /\ ~Locked(l) /\ Len(attempts) < MaxReplays
    /\ Existing(l, k) = {} /\ Eligible(l, expired)
    /\ attempts' = Append(Lost(attempts, row[l].token),
                          [letter |-> l, key |-> k, fingerprint |-> f, status |-> "IN_PROGRESS"])
    /\ row' = [row EXCEPT ![l].state = "REPLAYING", ![l].token = Len(attempts) + 1]
    /\ Step(o, [Idle EXCEPT !.pc = "claimed", !.attempt = Len(attempts) + 1])
    /\ UNCHANGED <<read, inbox, projection, faults>>

\* expired_same_key: the key's own attempt is given up, a new key is needed.
\* Every other outcome of TX1 (not_found, conflict, terminal, in_progress,
\* already_claimed, not_eligible) is an answer that changes nothing.
ExpireSameKey(o, l, k, f, expired) ==
    /\ proc[o].pc = "idle" /\ ~Locked(l) /\ Eligible(l, expired)
    /\ \E a \in Existing(l, k) :
         /\ attempts[a].fingerprint = f /\ attempts[a].status = "IN_PROGRESS"
         /\ attempts' = Lost(attempts, a)
    /\ UNCHANGED <<read, inbox, projection, row, proc, faults>>

-----------------------------------------------------------------------------
(* TX2: _apply *)

Letter(o) == attempts[proc[o].attempt].letter

\* Mutant: the status of the attempt is not looked at.
Owned_byTokenOnly(o, expired) ==
    LET r == row[Letter(o)]
    IN  r.state = "REPLAYING" /\ r.token = proc[o].attempt /\ ~expired

Owned(o, expired) ==
    LET r == row[Letter(o)]
    IN  /\ r.state = "REPLAYING" /\ r.token = proc[o].attempt /\ ~expired
        /\ attempts[proc[o].attempt].status = "IN_PROGRESS"

\* The attempt and its letter are settled in the committing transaction.
Settled(o, status, state) ==
    /\ attempts' = [attempts EXCEPT ![proc[o].attempt].status = status]
    /\ row' = [row EXCEPT ![Letter(o)].state = state, ![Letter(o)].token = 0]

\* The commit succeeds; if its answer is lost, the error leads to TX3.
Committed(o) ==
    \/ Step(o, Idle) /\ UNCHANGED faults
    \/ Step(o, [proc[o] EXCEPT !.pc = "failed"]) /\ Fault

\* The row and the attempt are locked and the inbox is read, without a lock.
BeginApply(o, expired) ==
    /\ proc[o].pc = "claimed" /\ ~Locked(Letter(o)) /\ Owned(o, expired)
    /\ inbox[Topic[Letter(o)]] = 0
    /\ Step(o, [proc[o] EXCEPT !.pc = "applying"])
    /\ UNCHANGED <<read, inbox, projection, row, attempts, faults>>

\* The projection is read in a statement of its own.
ReadProjection(o) ==
    /\ proc[o].pc = "applying"
    /\ Step(o, IF Refuses THEN [proc[o] EXCEPT !.pc = "failed"]
               ELSE [proc[o] EXCEPT !.pc = "writing", !.seen = projection])
    /\ UNCHANGED <<read, inbox, projection, row, attempts, faults>>

ApplyDuplicate(o, expired) ==
    /\ proc[o].pc = "claimed" /\ ~Locked(Letter(o)) /\ Owned(o, expired)
    /\ inbox[Topic[Letter(o)]] # 0
    /\ Settled(o, "DUPLICATE", "REPLAYED_DUPLICATE")
    /\ Committed(o)
    /\ UNCHANGED <<read, inbox, projection>>

\* Mutant: the inbox has no primary key.
Conflict_noInboxKey(o) == proc[o].seen = 0 /\ projection # 0
\* A row that was inserted since the reads is an IntegrityError.
Conflict(o) == inbox[Topic[Letter(o)]] # 0 \/ (proc[o].seen = 0 /\ projection # 0)

FinishApply(o) ==
    LET e == Topic[Letter(o)]
    IN  /\ proc[o].pc = "writing" /\ ~Conflict(o)
        /\ inbox' = [inbox EXCEPT ![e] = Letter(o)] /\ projection' = e
        /\ Settled(o, "APPLIED", "REPLAYED_APPLIED")
        /\ Committed(o)
        /\ UNCHANGED read

\* A conflict or a database failure rolls TX2 back.
ApplyFails(o) ==
    /\ \/ proc[o].pc = "writing" /\ Conflict(o) /\ UNCHANGED faults
       \/ proc[o].pc \in {"claimed"} \cup InTX2 /\ Fault
    /\ Step(o, [proc[o] EXCEPT !.pc = "failed"])
    /\ UNCHANGED <<read, inbox, projection, row, attempts>>

\* ReplayOwnershipLostError, in TX2 and in TX3: nothing but the attempt's own
\* status is touched.
LosesOwnership(o, expired) ==
    /\ proc[o].pc \in {"claimed", "failed"} /\ ~Locked(Letter(o)) /\ ~Owned(o, expired)
    /\ attempts' = Lost(attempts, proc[o].attempt)
    /\ Step(o, Idle)
    /\ UNCHANGED <<read, inbox, projection, row, faults>>

\* TX3: _record_failure
RecordFailure(o, expired) ==
    /\ proc[o].pc = "failed" /\ ~Locked(Letter(o)) /\ Owned(o, expired)
    /\ Settled(o, "FAILED", "REPLAY_FAILED")
    /\ Step(o, Idle)
    /\ UNCHANGED <<read, inbox, projection, faults>>

\* The command is killed, or fails in a way _apply does not expect.
Crash(o) ==
    /\ proc[o].pc # "idle"
    /\ Step(o, Idle)
    /\ Fault
    /\ UNCHANGED <<read, inbox, projection, row, attempts>>

-----------------------------------------------------------------------------
Next ==
    \/ \E x \in Offsets : Consume(x)
    \/ Correct
    \/ \E o \in Operators :
         \/ ReadProjection(o) \/ FinishApply(o) \/ ApplyFails(o) \/ Crash(o)
         \/ \E expired \in BOOLEAN :
              \/ BeginApply(o, expired) \/ ApplyDuplicate(o, expired)
              \/ RecordFailure(o, expired) \/ LosesOwnership(o, expired)
              \/ \E l \in Offsets, k \in Keys, f \in Requests :
                   Claim(o, l, k, f, expired) \/ ExpireSameKey(o, l, k, f, expired)

Spec == Init /\ [][Next]_vars

-----------------------------------------------------------------------------
(* Correctness *)

Statuses == {"IN_PROGRESS", "APPLIED", "DUPLICATE", "FAILED", "LOST_OWNERSHIP"}
States == {"absent", "PENDING", "REPLAYING", "REPLAY_FAILED",
           "REPLAYED_APPLIED", "REPLAYED_DUPLICATE"}

Attempt == [letter : Offsets, key : Keys, fingerprint : Requests, status : Statuses]
DeadLetterRow == [state : States, eligible : BOOLEAN, token : 0 .. MaxReplays]
Invocation == [pc : {"idle", "claimed", "applying", "writing", "failed"},
               attempt : 0 .. MaxReplays, seen : 0 .. LastEvent]

\* The tables satisfy their CHECK constraints: a claim token goes with REPLAYING,
\* and only a record that was decoded is eligible.
TypeOK ==
    /\ read \in 0 .. Len(Topic) /\ projection \in 0 .. LastEvent
    /\ inbox \in [1 .. LastEvent -> 0 .. Len(Topic)]
    /\ row \in [Offsets -> DeadLetterRow]
    /\ attempts \in Seq(Attempt) /\ Len(attempts) <= MaxReplays
    /\ proc \in [Operators -> Invocation]
    /\ faults \in Nat
    /\ \A l \in Offsets : /\ row[l].state = "REPLAYING" <=> row[l].token # 0
                          /\ row[l].eligible => Topic[l] # 0

\* An attempt in progress is the one whose token its letter carries, so that at
\* most one attempt per letter can still have an effect, across crashes, expired
\* leases and disagreeing clocks.
InProgressHoldsToken ==
    \A a \in DOMAIN attempts :
      attempts[a].status = "IN_PROGRESS" =>
        row[attempts[a].letter].state = "REPLAYING" /\ row[attempts[a].letter].token = a

\* A letter that is replayed as applied was applied once, by one attempt and not
\* by the consumer or by the replay of another letter with the same event.
AppliedOnce ==
    /\ \A a \in DOMAIN attempts :
         attempts[a].status = "APPLIED" =>
           /\ inbox[Topic[attempts[a].letter]] = attempts[a].letter
           /\ row[attempts[a].letter].state = "REPLAYED_APPLIED"
    /\ \A a, b \in DOMAIN attempts :
         attempts[a].status = "APPLIED" /\ attempts[b].status = "APPLIED"
           /\ Topic[attempts[a].letter] = Topic[attempts[b].letter] => a = b

\* What is settled stays: the status of a finished attempt, and a letter that was
\* replayed, whatever a late or confused command does afterwards.
SettledIsFinal ==
    [][/\ \A a \in DOMAIN attempts :
            attempts[a].status # "IN_PROGRESS" => attempts'[a] = attempts[a]
       /\ \A l \in Offsets :
            row[l].state \in {"REPLAYED_APPLIED", "REPLAYED_DUPLICATE"} => row'[l] = row[l]]_vars
=============================================================================
