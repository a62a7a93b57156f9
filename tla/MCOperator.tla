------------------------------ MODULE MCOperator ------------------------------
(* Constants for the runs of ReleaseOperator.                               *)
EXTENDS ReleaseOperator, TLC

CONSTANTS m1, m2, b1

Interchangeable == Permutations(Messages)
=============================================================================
