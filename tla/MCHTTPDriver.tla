----------------------------- MODULE MCHTTPDriver -----------------------------
(* Small instances of HTTPDriver for TLC.                                  *)
EXTENDS HTTPDriver, TLC

Symmetric == Permutations(Callers) \cup Permutations(Paths)
===============================================================================
