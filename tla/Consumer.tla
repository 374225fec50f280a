------------------------------ MODULE Consumer ------------------------------
(***************************************************************************)
(* The projection consumer (consumer/runner.py, consumer/__main__.py): it  *)
(* polls a topic, applies each event once by an inbox and a projection row *)
(* written in one transaction, dead-letters what it cannot apply, and then *)
(* commits the offset.  Kafka's consumer group gives the one partition to  *)
(* one process, but a process that is too slow or cut off learns of that   *)
(* only at its next commit or poll.                                        *)
(*                                                                         *)
(* A record is an event <<j, n>> or Foreign: something that decode_message *)
(* (consumer/deserialize.py) rejects.  The last event of a job's story is  *)
(* its terminal one.                                                       *)
(***************************************************************************)
EXTENDS Naturals, Sequences, FiniteSets

CONSTANTS
    Jobs,         \* aggregates: the research jobs
    Consumers,    \* consumer processes of the group
    None,
    StoryLength,  \* how many events each job has, the last one terminal
    MaxAttempts,  \* max_attempts of RetryTimingParameters
    MaxLog,       \* bound: records in the topic
    MaxFaults     \* bound: failed calls, stops and rebalances

ASSUME StoryAssumption == StoryLength \in [Jobs -> Nat \ {0}]
ASSUME NoneAssumption == None \notin Consumers
ASSUME AttemptAssumption == MaxAttempts \in Nat \ {0} /\ MaxLog \in Nat /\ MaxFaults \in Nat

VARIABLES
    log,        \* the records of the topic, in offset order
    owner,      \* the process the group has assigned the partition to
    committed,  \* the group's committed offset: the next record to deliver
    inbox,      \* consumer_inbox: events that have been applied
    projection, \* research_job_event_projections: last event of each job, or 0
    dead,       \* consumer_dead_letters by offset
    proc,       \* the consumer processes
    faults

db == <<inbox, projection, dead>>
vars == <<log, owner, committed, inbox, projection, dead, proc, faults>>

Event(offset) == log[offset]

\* A record that is no event of the catalog; events are numbered from 1.
Foreign == <<None, 0>>

Off == [pc |-> "off", next |-> 0, at |-> 0, tries |-> 0, seen |-> 0, code |-> "none"]

Init ==
    /\ log = <<>>
    /\ owner = None /\ committed = 1
    /\ inbox = {} /\ projection = [j \in Jobs |-> 0]
    /\ dead = <<>>
    /\ proc = [c \in Consumers |-> Off]
    /\ faults = 0

Fault == faults < MaxFaults /\ faults' = faults + 1

Terminal(j, n) == n = StoryLength[j]

-----------------------------------------------------------------------------
(* The topic *)

\* Relays append events; the topic itself keeps nobody from writing to it.
Write ==
    /\ Len(log) < MaxLog
    /\ \/ log' = Append(log, Foreign)
       \/ \E j \in Jobs : \E n \in 1 .. StoryLength[j] : log' = Append(log, <<j, n>>)
    /\ UNCHANGED <<owner, committed, db, proc, faults>>

-----------------------------------------------------------------------------
(* The group *)

Step(c, p) == proc' = [proc EXCEPT ![c] = p]

Start(c) ==
    /\ proc[c].pc = "off"
    /\ Step(c, [Off EXCEPT !.pc = "poll"])
    /\ UNCHANGED <<log, owner, committed, db, faults>>

\* The partition is assigned inside poll; fetching starts at the committed
\* offset (auto.offset.reset = earliest when there is none).
Assign(c) ==
    /\ proc[c].pc = "poll" /\ owner = None
    /\ owner' = c
    /\ Step(c, [proc[c] EXCEPT !.next = committed])
    /\ UNCHANGED <<log, committed, db, faults>>

\* The owner missed its session or poll interval; it goes on until it notices.
Revoke ==
    /\ owner # None /\ proc[owner].pc # "off"
    /\ owner' = None
    /\ Fault
    /\ UNCHANGED <<log, committed, db, proc>>

\* The process ends: a signal, a crash, a fatal error, an exhausted retry.
StopProc(c) ==
    /\ Step(c, Off)
    /\ owner' = IF owner = c THEN None ELSE owner

Stop(c) ==
    /\ proc[c].pc # "off"
    /\ StopProc(c)
    /\ Fault
    /\ UNCHANGED <<log, committed, db>>

-----------------------------------------------------------------------------
(* ConsumerRunner.run_once *)

\* poll and decode_message
Poll(c) ==
    LET p == proc[c]
    IN  /\ p.pc = "poll" /\ owner = c /\ p.next \in DOMAIN log
        /\ Step(c, [p EXCEPT !.at = p.next, !.next = @ + 1, !.tries = 1,
                             !.code = IF Event(p.next) = Foreign THEN "malformed" ELSE "none",
                             !.pc = IF Event(p.next) = Foreign THEN "dead" ELSE "apply"])
        /\ UNCHANGED <<log, owner, committed, db, faults>>

\* Mutant: the inbox is not consulted.
IsDuplicate_never(event) == FALSE
IsDuplicate(event) == event \in inbox

\* Mutant: a terminal projection is overwritten.
Refuses_never(j) == FALSE
\* Mutant: off by one, the last but one event counts as terminal.
Refuses_early(j) == projection[j] # 0 /\ projection[j] + 1 >= StoryLength[j]
\* The terminal guard of ResearchJobProjectionRepository.apply.
Refuses(j) == projection[j] # 0 /\ Terminal(j, projection[j])

\* record_and_apply reads the inbox, without a lock.
ReadInbox(c) ==
    LET p == proc[c]
    IN  /\ p.pc = "apply"
        /\ Step(c, IF IsDuplicate(Event(p.at))
                   THEN [p EXCEPT !.pc = "commit", !.tries = 1]
                   ELSE [p EXCEPT !.pc = "effect"])
        /\ UNCHANGED <<log, owner, committed, db, faults>>

\* apply reads the projection in a statement of its own: what another process
\* committed since the inbox was read is seen here.
ReadProjection(c) ==
    LET p == proc[c]
        j == Event(p.at)[1]
    IN  /\ p.pc = "effect"
        /\ Step(c, IF Refuses(j)
                   THEN [p EXCEPT !.pc = "dead", !.code = "lifecycle", !.tries = 1]
                   ELSE [p EXCEPT !.pc = "write", !.seen = projection[j]])
        /\ UNCHANGED <<log, owner, committed, db, faults>>

\* Mutant: the inbox has no primary key.
Conflict_noInboxKey(c) == proc[c].seen = 0 /\ projection[Event(proc[c].at)[1]] # 0

\* The writes and their commit.  A row inserted in between by another process is
\* an IntegrityError: the transaction rolls back and the process ends.  When only
\* the answer to the commit is lost, the attempt counts as failed.
Conflict(c) ==
    LET p == proc[c]
        event == Event(p.at)
    IN  event \in inbox \/ (p.seen = 0 /\ projection[event[1]] # 0)

Apply(c) ==
    LET p == proc[c]
        event == Event(p.at)
    IN  /\ p.pc = "write" /\ ~Conflict(c)
        /\ inbox' = inbox \cup {event}
        /\ projection' = [projection EXCEPT ![event[1]] = event[2]]
        /\ \/ Step(c, [p EXCEPT !.pc = "commit", !.tries = 1]) /\ UNCHANGED faults
           \/ /\ p.tries < MaxAttempts
              /\ Step(c, [p EXCEPT !.pc = "apply", !.tries = @ + 1]) /\ Fault
        /\ UNCHANGED <<log, owner, committed, dead>>

ApplyConflict(c) ==
    /\ proc[c].pc = "write" /\ Conflict(c)
    /\ StopProc(c)
    /\ UNCHANGED <<log, committed, db, faults>>

\* Mutant: the offset of the record is forgotten.
Upserted_newRow(d, offset, letter) == Append(d, letter)
\* upsert: one row per offset, which only counts further deliveries.
Upserted(d, offset, letter) ==
    IF \E i \in DOMAIN d : d[i].offset = offset
    THEN [i \in DOMAIN d |-> IF d[i].offset = offset THEN [d[i] EXCEPT !.count = @ + 1] ELSE d[i]]
    ELSE Append(d, letter)

\* _dead_letter_and_commit
DeadLetter(c) ==
    LET p == proc[c]
    IN  /\ p.pc = "dead"
        /\ dead' = Upserted(dead, p.at, [offset |-> p.at, code |-> p.code, count |-> 1])
        /\ \/ Step(c, [p EXCEPT !.pc = "commit", !.tries = 1]) /\ UNCHANGED faults
           \/ /\ p.tries < MaxAttempts
              /\ Step(c, [p EXCEPT !.tries = @ + 1]) /\ Fault
        /\ UNCHANGED <<log, owner, committed, inbox, projection>>

\* A transient database error rolls the attempt back; attempts are bounded.
DatabaseFails(c) ==
    LET p == proc[c]
    IN  /\ p.pc \in {"apply", "effect", "write", "dead"} /\ p.tries < MaxAttempts
        /\ Step(c, [p EXCEPT !.pc = IF @ = "dead" THEN "dead" ELSE "apply", !.tries = @ + 1])
        /\ Fault
        /\ UNCHANGED <<log, owner, committed, db>>

\* Mutant: the offset of the next record is committed too.
CommitTarget_oneMore(p) == p.at + 2
CommitTarget(p) == p.at + 1

\* commit_message by the owner.
CommitOffset(c) ==
    LET p == proc[c]
    IN  /\ p.pc = "commit" /\ owner = c
        /\ committed' = CommitTarget(p)
        /\ Step(c, [p EXCEPT !.pc = "poll", !.at = 0, !.tries = 0, !.seen = 0, !.code = "none"])
        /\ UNCHANGED <<log, owner, db, faults>>

\* The broker answers with a retriable error, or its answer is lost.  When the
\* attempts are used up after a dead letter the process ends; after an apply the
\* TransientKafkaError leaves run_once, and the poll loop backs off and polls on.
CommitFails(c) ==
    LET p == proc[c]
    IN  /\ p.pc = "commit" /\ owner = c
        /\ committed' \in {committed, p.at + 1}
        /\ Fault
        /\ IF p.tries < MaxAttempts
           THEN Step(c, [p EXCEPT !.tries = @ + 1]) /\ UNCHANGED owner
           ELSE IF p.code # "none"
           THEN StopProc(c)
           ELSE /\ Step(c, [p EXCEPT !.pc = "poll", !.at = 0, !.tries = 0, !.seen = 0])
                /\ UNCHANGED owner
        /\ UNCHANGED <<log, db>>

\* A process that is no longer the owner may not commit, and ends.
CommitRefused(c) ==
    /\ proc[c].pc = "commit" /\ owner # c
    /\ StopProc(c)
    /\ UNCHANGED <<log, committed, db, faults>>

-----------------------------------------------------------------------------
Progress(c) ==
    \/ Poll(c) \/ ReadInbox(c) \/ ReadProjection(c) \/ Apply(c) \/ ApplyConflict(c) \/ DeadLetter(c)
    \/ CommitOffset(c) \/ CommitRefused(c)

Next ==
    \/ Write \/ Revoke
    \/ \E c \in Consumers :
         Start(c) \/ Assign(c) \/ Stop(c) \/ Progress(c) \/ DatabaseFails(c) \/ CommitFails(c)

Spec == Init /\ [][Next]_vars

\* Processes run and are restarted, and the group assigns the partition.
Fairness ==
    /\ WF_vars(\E c \in Consumers : Assign(c))
    /\ \A c \in Consumers : WF_vars(Start(c)) /\ WF_vars(Progress(c))

FairSpec == Spec /\ Fairness

-----------------------------------------------------------------------------
(* Correctness *)

Records == {Foreign} \cup (Jobs \X (Nat \ {0}))

\* Tables, group state and processes hold values of their declared kinds.
TypeOK ==
    /\ log \in Seq(Records)
    /\ owner \in Consumers \cup {None} /\ committed \in Nat \ {0}
    /\ inbox \subseteq Records \ {Foreign} /\ projection \in [Jobs -> Nat]
    /\ dead \in Seq([offset : Nat \ {0}, code : {"malformed", "lifecycle"}, count : Nat \ {0}])
    /\ proc \in [Consumers -> [pc : {"off", "poll", "apply", "effect", "write",
                                     "dead", "commit"},
                               next : Nat, at : Nat, tries : 0 .. MaxAttempts, seen : Nat,
                               code : {"none", "malformed", "lifecycle"}]]
    /\ faults \in Nat

IsDead(offset) == \E i \in DOMAIN dead : dead[i].offset = offset
Handled(offset) == Event(offset) \in inbox \/ IsDead(offset)

\* Nothing is skipped: a record below the committed offset was applied or is a
\* dead letter, whoever committed it, and also when a commit failed and the poll
\* loop went on to the next record.
CommittedIsHandled ==
    /\ committed <= Len(log) + 1
    /\ \A offset \in 1 .. committed - 1 : Handled(offset)

\* A record has one dead letter however often it is delivered, and an event is
\* refused only when the story of its job has ended for good.  (It may have been
\* applied all the same, by a process that overtook the one that refused it.)
DeadLettersAreSettled ==
    \A i, k \in DOMAIN dead :
      /\ dead[i].offset = dead[k].offset => i = k
      /\ dead[i].code = "malformed" <=> Event(dead[i].offset) = Foreign
      /\ dead[i].code = "lifecycle" => Refuses(Event(dead[i].offset)[1])

\* The projection of a job that reached its terminal event never changes again.
TerminalProjectionIsFinal ==
    [][\A j \in Jobs : Terminal(j, projection[j]) => projection'[j] = projection[j]]_vars

\* What EventLog promises of the topic that relays alone write.
EL == INSTANCE EventLog WITH enqueued <- StoryLength

\* While the topic is in order each projection goes through its job's events one
\* by one and never back, across duplicates, restarts, rebalances and two
\* processes that both hold the record.
ProjectionFollowsStory ==
    [][EL!InOrder => \A j \in Jobs :
         projection'[j] # projection[j] => projection'[j] = projection[j] + 1]_vars

\* While the topic is in order a refusal loses nothing: whatever was refused for
\* its place in the story has been applied, by the process that overtook.
RefusedWasApplied ==
    EL!InOrder => \A i \in DOMAIN dead :
                    dead[i].code = "lifecycle" => Event(dead[i].offset) \in inbox

\* Every record of the topic is applied or dead-lettered in the end.  (Its offset
\* need not be committed: after CommitFails that is left to the next record.)
EveryRecordHandled ==
    \A offset \in 1 .. MaxLog :
      (offset \in DOMAIN log) ~> (offset \in DOMAIN log /\ Handled(offset))
=============================================================================
