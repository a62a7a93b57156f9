------------------------------ MODULE MCSender ------------------------------
(* Constants for the runs of DurableSender.                                *)
EXTENDS DurableSender, TLC

CONSTANTS j1, j2

Interchangeable == Permutations(Jobs)
=============================================================================
