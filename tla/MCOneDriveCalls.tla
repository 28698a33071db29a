--------------------------- MODULE MCOneDriveCalls ---------------------------
(* Callers are not made symmetric: the run checks a liveness property.     *)
EXTENDS OneDriveCalls
==============================================================================
