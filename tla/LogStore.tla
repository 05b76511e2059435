------------------------------ MODULE LogStore ------------------------------
(***************************************************************************)
(* The warehouse tables and the transactions that change them              *)
(* (internal/logstore/store.go).  Every operation is one database          *)
(* transaction, so it is one step: it commits whole or leaves no trace.    *)
(*                                                                         *)
(* An operation Op comes with OpAllowed, the conditions under which the    *)
(* code does not return an error; a caller that gets the error sees the    *)
(* tables unchanged.                                                       *)
(***************************************************************************)
EXTENDS Chain

VARIABLES
    blocks,  \* eth_blocks: height -> hash of the block stored there
    logs,    \* eth_logs: rows [n |-> height, hash |-> the block they come from]
    cursor   \* ingest_cursor: the covered interval, or NoCursor

storeVars == <<blocks, logs, cursor>>

\* No cursor row yet.  It reads as an empty interval.
NoCursor == [start |-> 1, head |-> 0]
HasCursor == cursor # NoCursor
Coverage == [start : Nat, head : Nat]
Covered == cursor.start..cursor.head

LogRow == [n : Nat, hash : Block \cup {NoHash}]
StoredLogRow == [n : Nat, hash : Block]

\* Store.StoredBlockHash: blocks[n] where there is a row.
Stored(n) == n \in DOMAIN blocks

\* logsMatchBlocks: each log names a block row of the batch, by its hash.
LogsMatchBlocks(bs, ls) ==
    \A l \in ls : /\ l.hash # NoHash
                  /\ l.n \in DOMAIN bs
                  /\ bs[l.n] = l.hash

\* Mutant: off by one, a batch may leave a block out.
NearlyTouchesCoverage(from, to) ==
    HasCursor => from <= cursor.head + 2 /\ to + 1 >= cursor.start

\* The interval [from, to] overlaps the coverage or is adjacent to it.
TouchesCoverage(from, to) ==
    HasCursor => from <= cursor.head + 1 /\ to + 1 >= cursor.start

MergedCoverage(from, to) ==
    IF HasCursor THEN [start |-> Lesser(cursor.start, from), head |-> Greater(cursor.head, to)]
                 ELSE [start |-> from, head |-> to]

WriteRangeAllowed(from, to, bs, ls) ==
    /\ DOMAIN bs = from..to
    /\ LogsMatchBlocks(bs, ls)
    /\ TouchesCoverage(from, to)

\* Delete what is stored in [from, to], copy the batch in, extend the cursor.
WriteRange(from, to, bs, ls) ==
    /\ WriteRangeAllowed(from, to, bs, ls)
    /\ logs' = {l \in logs : l.n \notin from..to} \cup ls
    /\ blocks' = [n \in DOMAIN blocks \cup from..to |->
                     IF n \in from..to THEN bs[n] ELSE blocks[n]]
    /\ cursor' = MergedCoverage(from, to)

RewindAllowed(to) ==
    /\ HasCursor
    /\ cursor.head > to
    /\ to >= cursor.start

\* Mutant: the head moves one block too far down.
RewindBelow(to) ==
    /\ RewindAllowed(to)
    /\ logs' = {l \in logs : l.n <= to}
    /\ blocks' = [n \in {m \in DOMAIN blocks : m <= to} |-> blocks[n]]
    /\ cursor' = [start |-> cursor.start, head |-> to - 1]

\* Delete everything above `to`; `to` becomes the head.
Rewind(to) ==
    /\ RewindAllowed(to)
    /\ logs' = {l \in logs : l.n <= to}
    /\ blocks' = [n \in {m \in DOMAIN blocks : m <= to} |-> blocks[n]]
    /\ cursor' = [start |-> cursor.start, head |-> to]

-----------------------------------------------------------------------------
(***************************************************************************)
(* The store under any caller: every range, every list of blocks for it,   *)
(* the logs of any of those blocks and, at most, one log that belongs to   *)
(* none of them.                                                           *)
(***************************************************************************)
StoreInit ==
    /\ blocks = [n \in {} |-> NoHash]
    /\ logs = {}
    /\ cursor = NoCursor

AnyWriteRange ==
    \E from, to \in Heights :
        /\ from <= to
        /\ \E bs \in [from..to -> Block], own \in SUBSET (from..to),
              stray \in {{}} \cup {{l} : l \in [n : Heights, hash : Block \cup {NoHash}]} :
              WriteRange(from, to, bs, {[n |-> n, hash |-> bs[n]] : n \in own} \cup stray)

AnyRewind == \E to \in Heights : Rewind(to)

StoreNext == AnyWriteRange \/ AnyRewind
StoreSpec == StoreInit /\ [][StoreNext]_storeVars

-----------------------------------------------------------------------------
\* The rows and the cursor stay well-formed: WriteRange stores no log without
\* a block hash, and neither it nor Rewind moves the cursor below zero.
StoreTypeOK ==
    /\ DOMAIN blocks \subseteq Nat
    /\ \A n \in DOMAIN blocks : blocks[n] \in Block
    /\ logs \subseteq StoredLogRow
    /\ cursor \in Coverage

\* The cursor is never ahead of the data (the reason WriteRange is one
\* transaction): every covered height has its block row, so no covered block
\* is ever served as "empty" for want of its rows.
CoverageComplete == Covered \subseteq DOMAIN blocks

\* A log row always sits under the block it was emitted in: a rewrite or a
\* rewind that left old rows behind would serve one branch's logs under the
\* other branch's block hash.
LogsPaired == \A l \in logs : l.n \in DOMAIN blocks /\ blocks[l.n] = l.hash
=============================================================================
