--------------------------- MODULE MCSenderHistory --------------------------
(* The run of SenderHistory, with the constants of MCSender.               *)
EXTENDS MCSender, SenderHistory
=============================================================================
