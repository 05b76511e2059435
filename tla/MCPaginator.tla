---------------------------- MODULE MCPaginator ----------------------------
(***************************************************************************)
(* Paginator for TLC: a range of seven blocks.  A provider returns two     *)
(* logs at most; a block has none, as many, or more.  MostWithLogs bounds  *)
(* the blocks that have any.                                               *)
(***************************************************************************)
EXTENDS Paginator, FiniteSets

CONSTANT MostWithLogs

Sparse == {d \in [Wanted -> {0, 2, 3}] :
               Cardinality({n \in Wanted : d[n] > 0}) <= MostWithLogs}
=============================================================================
