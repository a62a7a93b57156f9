------------------------------ MODULE MCVault -------------------------------
(* Symmetry for the runs of VaultHistory: guardian nonces are only compared.*)
EXTENDS VaultHistory, TLC

NonceSymmetry == Permutations(Nonces)
=============================================================================
