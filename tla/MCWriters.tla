------------------------------ MODULE MCWriters ------------------------------
(***************************************************************************)
(* Writers for TLC: two processes, three heights, branches from height 1.  *)
(***************************************************************************)
EXTENDS Writers, TLC

MCBranches == {<<"g", "a", "a">>, <<"g", "b">>}
AnyProcess == Permutations(Process)
=============================================================================
