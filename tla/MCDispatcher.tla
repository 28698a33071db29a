----------------------------- MODULE MCDispatcher -----------------------------
(* Small instances of Dispatcher for TLC.                                  *)
EXTENDS Dispatcher, TLC

Symmetric ==
    Permutations(Callers) \cup Permutations(MountIDs) \cup Permutations(Drivers)
===============================================================================
