---------------------------- MODULE MCSubscriber ----------------------------
(***************************************************************************)
(* Subscriber for TLC.  Two branches part at height 2.  Above the fork a   *)
(* height where one branch has a log that is stored ("k") has a block with *)
(* a log that is filtered out ("r"), or with no log ("n"), on the other.   *)
(***************************************************************************)
EXTENDS Subscriber

ShortBranches == {<<"g", "k", "n", "k", "n">>, <<"g", "k", "r", "n", "k">>}
LongBranches == {<<"g", "k", "n", "k", "n", "k">>, <<"g", "k", "r", "n", "k", "n">>}
=============================================================================
