--------------------------- MODULE MCWorkflowGraph ---------------------------
(* Instances of WorkflowGraph for TLC.                                     *)
EXTENDS WorkflowGraph

MCExecs == 1 .. 2
Symmetry == Permutations(Workers)
=============================================================================
