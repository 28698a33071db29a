---------------------------- MODULE MCGDriveCache ----------------------------
(* Two names at the top, and one below the first.                          *)
EXTENDS GDriveCache, TLC

PathsTwoLevels ==
    {<<"a">>, <<"b">>, <<"a", "x">>}

(* The ids are interchangeable, for nothing but Drive chooses among them,  *)
(* and so are the callers.                                                 *)
Symmetric == Permutations(Ids) \cup Permutations(Callers)

(* Nothing is promised of a behaviour that has gone astray: TLC leaves it. *)
OnCourse == ~astray

(* What the bound on calls leaves room for.  A Stat, which walks its path  *)
(* as any call does and then changes nothing, comes first; the third call  *)
(* makes no folder, and does not move a file while another is being moved  *)
(* or removed.                                                             *)
Moves(c) == req[c].op \in {"remove", "rename"}
InBounds ==
    /\ \A c \in Callers : /\ req[c].op = "stat" => calls = 1
                          /\ req[c].op = "mkdir" => calls <= 2
    /\ calls = 3 => \A c, d \in Callers : Moves(c) /\ Moves(d) => c = d
==============================================================================
