------------------------------ MODULE MCS3Store ------------------------------
(* Bucket shapes for TLC.                                                  *)
EXTENDS S3Store, TLC

Symmetric == Permutations(Callers)

(* Two directories side by side, one file in each, and a free name.        *)
PathsApart == {<<"a">>, <<"b">>, <<"a", "x">>, <<"b", "x">>}
==============================================================================
