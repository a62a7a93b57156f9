------------------------------ MODULE MCWatcher ------------------------------
(* Constants for the run of Watcher.                                       *)
EXTENDS Watcher, TLC

CONSTANTS m1, m2, p1, p2, executed

Interchangeable == Permutations(Messages) \union Permutations(Payloads) \union Permutations(Outcomes)
=============================================================================
