--------------------------- MODULE MCTransportStats ---------------------------
(* Small instances of TransportStats for TLC.                              *)
EXTENDS TransportStats, TLC

Symmetric == Permutations(Requests)
===============================================================================
