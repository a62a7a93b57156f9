----------------------------- MODULE MCGuardian -----------------------------
(* Symmetry for the runs of HoldHistory: nonces are only compared.       *)
EXTENDS HoldHistory, TLC

NonceSymmetry == Permutations(Nonces)
=============================================================================
