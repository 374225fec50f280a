------------------------- MODULE MCInvocationLedger -------------------------
(* Instances of InvocationLedger for TLC.                                     *)
EXTENDS InvocationLedger, TLC

SameCallers == Permutations(Callers)
=============================================================================
