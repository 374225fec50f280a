------------------------ MODULE MCDeadLetterReplay ------------------------
(* An instance of DeadLetterReplay for TLC.                                 *)
EXTENDS DeadLetterReplay, TLC

\* A record that cannot be decoded; then the terminal event overtakes the first
\* one, which is delivered twice.
OvertakenTopic == <<0, 2, 1, 1>>

Symmetric == Permutations(Operators) \cup Permutations(Keys) \cup Permutations(Requests)
=============================================================================
