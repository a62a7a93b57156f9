----------------------------- MODULE MCRpcQuorum -----------------------------
(* Constants for the run of RpcQuorum: three honest providers and one that  *)
(* lies.                                                                    *)
EXTENDS RpcQuorum, TLC

CONSTANTS p1, p2, p3, f1

Interchangeable == Permutations(Honest)
=============================================================================
