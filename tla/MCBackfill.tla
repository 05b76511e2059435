----------------------------- MODULE MCBackfill -----------------------------
(***************************************************************************)
(* Backfill for TLC: four or five blocks in partitions of two.             *)
(***************************************************************************)
EXTENDS Backfill, TLC

Chain4 == <<"g", "k", "k", "k">>
Chain5 == <<"g", "k", "k", "n", "k">>
OnlyChain4 == {Chain4}
OnlyChain5 == {Chain5}

\* The export that was loaded first lacks a log that the corrected one has.
First == [first |-> 0, last |-> 2, rows |-> 0 :> {1} @@ 1 :> {}, print |-> 0 :> "a1" @@ 1 :> "b1",
          heights |-> 0..2, blocksPrint |-> "c1"]
\* Same count but other bytes in one partition; blocks/ runs ahead.
Corrected == [first |-> 0, last |-> 2, rows |-> 0 :> {1} @@ 1 :> {2}, print |-> 0 :> "a2" @@ 1 :> "b2",
              heights |-> 0..3, blocksPrint |-> "c2"]
\* Never loadable as a whole: a log outside its interval, a block missing.
Faulty == [first |-> 0, last |-> 2, rows |-> 0 :> {1} @@ 1 :> {2, 3}, print |-> 0 :> "a2" @@ 1 :> "b3",
           heights |-> {0, 1, 3}, blocksPrint |-> "c3"]
CorrectedAndFaulty == {First, Corrected, Faulty}

\* Two adjacent exports.
Below == [Corrected EXCEPT !.last = 3]
Above == [first |-> 4, last |-> 4, rows |-> 2 :> {4}, print |-> 2 :> "d1",
          heights |-> {4}, blocksPrint |-> "c4"]
Adjacent == {Below, Above}
=============================================================================
