------------------------------ MODULE EventLog ------------------------------
(***************************************************************************)
(* What the transactional outbox promises its readers: every domain event  *)
(* committed with a job may appear in the Kafka topic any number of times, *)
(* and the first time it does, its predecessor of the same job is there    *)
(* already.  Nothing is said about the order of events of different jobs.  *)
(*                                                                         *)
(* The n-th event of job j is <<j, n>>.  The topic has one partition       *)
(* (REQUIRED_PARTITION_COUNT of outbox/topic_admin.py), so it is one       *)
(* sequence.                                                               *)
(***************************************************************************)
EXTENDS Naturals, Sequences

CONSTANT Jobs

VARIABLES
    enqueued, \* number of events committed for each job
    log       \* the records of the topic, in offset order

logVars == <<enqueued, log>>

InLog(event) == \E i \in DOMAIN log : log[i] = event

\* Every event follows its predecessor of the same job.
InOrder ==
    \A i \in DOMAIN log : log[i][2] # 1 =>
      \E k \in DOMAIN log : k < i /\ log[k] = <<log[i][1], log[i][2] - 1>>

LogInit == enqueued = [j \in Jobs |-> 0] /\ log = <<>>

Enqueued(j) == enqueued' = [enqueued EXCEPT ![j] = @ + 1] /\ UNCHANGED log

Delivered(j, n) ==
    /\ n \in 1 .. enqueued[j]
    /\ n = 1 \/ InLog(<<j, n - 1>>)
    /\ log' = Append(log, <<j, n>>)
    /\ UNCHANGED enqueued

LogNext == \E j \in Jobs : Enqueued(j) \/ \E n \in 1 .. enqueued[j] : Delivered(j, n)

LogSpec == LogInit /\ [][LogNext]_logVars
=============================================================================
