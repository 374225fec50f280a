----------------------------- MODULE MCConsumer -----------------------------
(* Instances of Consumer for TLC.                                             *)
EXTENDS Consumer, TLC

\* Two events per job, the last one terminal.
ShortStories == [j \in Jobs |-> 2]

SameConsumers == Permutations(Consumers)

\* "If bounded transient commit retries exhaust, processing terminates with the
\* offset uncommitted" (docs/TECHNICAL_DESIGN.md).  After an applied event the
\* poll loop takes the error for one of poll() and goes on.
CommitExhaustionTerminates ==
    [][\A c \in Consumers :
         CommitFails(c) /\ proc[c].tries = MaxAttempts => proc'[c].pc = "off"]_vars
=============================================================================
