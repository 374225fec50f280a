---------------------------- MODULE MCOutboxRelay ----------------------------
(* Instances of OutboxRelay for TLC.                                          *)
EXTENDS OutboxRelay, TLC

SameRelays == Permutations(Relays)
SameJobs == Permutations(Jobs)
Symmetric == SameRelays \cup SameJobs
=============================================================================
