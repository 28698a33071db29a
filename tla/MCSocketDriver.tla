---------------------------- MODULE MCSocketDriver ----------------------------
(* Small instances of SocketDriver for TLC.                                *)
EXTENDS SocketDriver, TLC

(* Paths and callers are interchangeable, as long as only safety is        *)
(* checked.                                                                *)
Symmetric == Permutations(Paths) \cup Permutations(Callers)
===============================================================================
