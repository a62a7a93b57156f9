--------------------------- MODULE MCEscrowHistory --------------------------
(* The runs of EscrowHistory, with the constants of MCEscrow.              *)
EXTENDS MCEscrow, EscrowHistory
=============================================================================
