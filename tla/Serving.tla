------------------------------- MODULE Serving -------------------------------
(***************************************************************************)
(* The JSON-RPC API (internal/rpcapi) over the tables: eth_getLogs,        *)
(* eth_blockNumber and /health, each in one read snapshot (reader.go),     *)
(* while the tail writes and withdraws blocks and backfills come and go.   *)
(*                                                                         *)
(* A row of the table `logs` stands for the logs of its block that         *)
(* ingestion keeps (module EventSet).  The writers keep to what Subscriber *)
(* and Backfill show of them: the covered blocks are one chain with all    *)
(* their rows, except under maintenance; outside the coverage rows may be  *)
(* left over.                                                              *)
(***************************************************************************)
EXTENDS LogStore, LogFilter

CONSTANTS
    Emits,        \* label -> the logs of a block with that label
    Filters,      \* the filters that requests may have
    MaxResults,   \* rpc.max_results, 0 = unlimited
    MaxTailBatch  \* most blocks in one write of the tail

ASSUME ServingAssumption ==
    /\ DOMAIN Emits = Label
    /\ MaxResults \in Nat /\ MaxTailBatch \in Nat

\* The EVM has no log of more than four topics; log indexes are numbers.
ASSUME LogsAssumption ==
    \A l \in Label :
        /\ IsFiniteSet(Emits[l])
        /\ \A x \in Emits[l] : /\ x.index \in Nat
                               /\ x.args \in Seq(STRING) /\ Len(x.args) <= 3

ASSUME FiltersAssumption == \A f \in Filters : f.topics \in Seq(SUBSET STRING)

VARIABLES
    maintenance,  \* a backfill is at work, or died at work (see Backfill)
    reader,       \* one request
    client        \* the head that eth_blockNumber answered last, or NoHead if
                  \* there was none or its block was withdrawn since it was read

tables == <<storeVars, maintenance>>
vars == <<tables, reader, client>>

NoReader == [op |-> "none"]
NoHead == -1

\* What the node emits in block b; what of it is stored.
Emitted(b) == Emits[b[Len(b)]]
StoredLogs(b) == {l \in Emitted(b) : l.sig \in Topics /\ Keep(l)}

-----------------------------------------------------------------------------
(* Store.Read: every statement of a request sees the tables as they were   *)
(* when its transaction began.                                             *)

Snapshot == [blocks |-> blocks, logs |-> logs, cursor |-> cursor, maintenance |-> maintenance]

\* Mutant: the rows are read outside the snapshot (the pool-backed FilterLogs).
LogsNow(view) == Snapshot

LogsOf(view) == view

\* filterLogs: the rows of the range that the filter selects, joined to their
\* blocks.
SelectedRows(view, filter, from, to) ==
    UNION {{[n |-> row.n, hash |-> view.blocks[row.n], log |-> l] :
                l \in {x \in StoredLogs(row.hash) : Selects(filter, x)}} :
           row \in {r \in view.logs : r.n \in from..to \cap DOMAIN view.blocks}}

\* ORDER BY block_number, log_index LIMIT k.
Before(r, s) == r.n < s.n \/ (r.n = s.n /\ r.log.index < s.log.index)
FirstRows(rows, k) == {s \in rows : Cardinality({r \in rows : Before(r, s)}) < k}

\* One row past the limit.
RowsRead(rows) == IF MaxResults > 0 THEN FirstRows(rows, MaxResults + 1) ELSE rows

TooManyResults(rows) == MaxResults > 0 /\ Cardinality(rows) > MaxResults

-----------------------------------------------------------------------------
(* resolveRange.  A bound is a number, or a tag by geth's negative number. *)

Pending == -1
Latest == -2
Finalized == -3
Safe == -4
Earliest == -5
OtherNegative == -6
Bounds == OtherNegative..-1 \cup Heights \cup {n + 1 : n \in Heights}

\* resolveSpecial.
Unserved(bound) == bound < 0 /\ bound \notin {Latest, Earliest}
ResolveSpecial(bound, head) ==
    CASE bound = Latest -> head [] bound = Earliest -> 0 [] OTHER -> bound

BadRequest(begin, end) ==
    \/ begin > 0 /\ end > 0 /\ begin > end
    \/ Unserved(begin) \/ Unserved(end)

InCoverage(view, n) == view.cursor.start <= n /\ n <= view.cursor.head

\* A reply, and the block hash it was asked for, if any.
Answer(from, to, asked, rows) ==
    [op |-> "answered", filter |-> reader.filter, from |-> from, to |-> to, asked |-> asked,
     rows |-> rows]
Refusal(why, to) == [op |-> "refused", why |-> why, to |-> to]
Select(from, to, asked) ==
    [op |-> "select", filter |-> reader.filter, view |-> reader.view,
     from |-> from, to |-> to, asked |-> asked]

-----------------------------------------------------------------------------
(* A request.  The bounds are not looked at before the coverage is read,   *)
(* so they are chosen there.                                               *)

GetLogs ==
    /\ reader = NoReader
    /\ \E filter \in Filters :
        /\ ~ExceedsTopics(filter)
        /\ InTopicScope(DecodedTopics(filter))
        /\ reader' = [op |-> "get logs", filter |-> filter, view |-> Snapshot]
    /\ UNCHANGED <<tables, client>>

\* Decoding and the topic scope come before the database.
GetLogsOutOfScope ==
    /\ reader = NoReader
    /\ \E filter \in Filters :
        /\ ExceedsTopics(filter) \/ ~InTopicScope(DecodedTopics(filter))
        /\ reader' = Refusal("filter", 0)
    /\ UNCHANGED <<tables, client>>

\* eth_blockNumber reads the coverage only; so does /health, which answers more
\* of it.
ReadHead ==
    /\ reader = NoReader
    /\ reader' = [op |-> "get head", view |-> Snapshot]
    /\ UNCHANGED <<tables, client>>

\* ErrMaintenance, or an empty warehouse.
Unavailable(view) == view.maintenance \/ view.cursor = NoCursor

RefuseAll ==
    /\ reader.op \in {"get logs", "get head"} /\ Unavailable(reader.view)
    /\ reader' = Refusal("unavailable", 0)
    /\ UNCHANGED <<tables, client>>

\* Mutant: the head is the highest stored block.
HighestRow(view) == CHOOSE n \in DOMAIN view.blocks : \A k \in DOMAIN view.blocks : k <= n

HeadOf(view) == view.cursor.head

\* The covered blocks of a view are covered still.
NotWithdrawn(view) == BlockAt(blocks[cursor.head], view.cursor.head) = view.blocks[view.cursor.head]

BlockNumber ==
    /\ reader.op = "get head" /\ ~Unavailable(reader.view)
    /\ client' = IF reader.view.cursor.head <= cursor.head /\ NotWithdrawn(reader.view)
                 THEN HeadOf(reader.view) ELSE NoHead
    /\ reader' = NoReader
    /\ UNCHANGED tables

\* A blockHash filter: only a block of the coverage.
ResolveHash ==
    /\ reader.op = "get logs" /\ ~Unavailable(reader.view)
    /\ \E b \in Block :
        LET found == {n \in DOMAIN reader.view.blocks : reader.view.blocks[n] = b} IN
        \/ /\ found = {}
           /\ reader' = Refusal("unknown block", 0)
        \/ \E n \in found :
               reader' = IF InCoverage(reader.view, n) THEN Select(n, n, b)
                                                       ELSE Refusal("outside coverage", 0)
    /\ UNCHANGED <<tables, client>>

ResolveRange ==
    /\ reader.op = "get logs" /\ ~Unavailable(reader.view)
    /\ \E begin, end \in Bounds :
        LET cov == reader.view.cursor
            from == ResolveSpecial(begin, cov.head)
            to == ResolveSpecial(end, cov.head) IN
        reader' =
            CASE BadRequest(begin, end) -> Refusal("bad request", 0)
              [] ~BadRequest(begin, end) /\ from > to -> Answer(from, to, NoHash, {})
              [] ~BadRequest(begin, end) /\ from <= to /\ to > cov.head -> Refusal("above head", to)
              [] ~BadRequest(begin, end) /\ from <= to /\ to <= cov.head /\ from < cov.start ->
                     Refusal("below start", to)
              [] OTHER -> Select(from, to, NoHash)
    /\ UNCHANGED <<tables, client>>

FilterLogs ==
    /\ reader.op = "select"
    /\ LET rows == RowsRead(SelectedRows(LogsOf(reader.view), reader.filter,
                                        reader.from, reader.to)) IN
       reader' = IF TooManyResults(rows) THEN Refusal("too many results", 0)
                 ELSE Answer(reader.from, reader.to, reader.asked, rows)
    /\ UNCHANGED <<tables, client>>

\* The query timeout, a lost connection, a client that has gone.
ReadFails ==
    /\ reader.op \in {"get logs", "get head", "select"}
    /\ reader' = NoReader
    /\ UNCHANGED <<tables, client>>

Replied ==
    /\ reader.op \in {"answered", "refused"}
    /\ reader' = NoReader
    /\ UNCHANGED <<tables, client>>

-----------------------------------------------------------------------------
(* The writers (external to this module: see Subscriber and Backfill).     *)

\* The next blocks of the chain that the coverage ends in, with their logs.
TailWrites ==
    /\ ~maintenance
    /\ \E b \in Block, k \in 1..MaxTailBatch :
        LET to == Height(b)
            from == to - k + 1 IN
        /\ from >= 0
        /\ HasCursor => from = cursor.head + 1 /\ BlockAt(b, cursor.head) = blocks[cursor.head]
        /\ WriteRange(from, to, [n \in from..to |-> BlockAt(b, n)],
                      {[n |-> n, hash |-> BlockAt(b, n)] :
                           n \in {h \in from..to : StoredLogs(BlockAt(b, h)) # {}}})
    /\ UNCHANGED <<maintenance, reader, client>>

\* Blocks that are replaced are withdrawn, and the head told before with them.
Withdraws ==
    /\ ~maintenance
    /\ \E to \in Heights :
        /\ Rewind(to)
        /\ client' = IF client > to THEN NoHead ELSE client
    /\ UNCHANGED <<maintenance, reader>>

\* A first backfill is interrupted: block rows without their logs or a cursor.
LeavesRows ==
    /\ ~HasCursor
    /\ \E b \in Block : blocks' = [n \in 0..Height(b) |-> BlockAt(b, n)]
    /\ UNCHANGED <<logs, cursor, maintenance, reader, client>>

\* A backfill of the covered blocks: their log rows go, and come back.
ReloadBegins ==
    /\ HasCursor /\ ~maintenance
    /\ maintenance' = TRUE
    /\ logs' = {r \in logs : r.n \notin Covered}
    /\ UNCHANGED <<blocks, cursor, reader, client>>

ReloadEnds ==
    /\ maintenance /\ maintenance' = FALSE
    /\ logs' = logs \cup {[n |-> n, hash |-> blocks[n]] :
                              n \in {k \in Covered : StoredLogs(blocks[k]) # {}}}
    /\ UNCHANGED <<blocks, cursor, reader, client>>

Writers == TailWrites \/ Withdraws \/ LeavesRows \/ ReloadBegins \/ ReloadEnds

-----------------------------------------------------------------------------
Init ==
    /\ StoreInit
    /\ maintenance = FALSE
    /\ reader = NoReader
    /\ client = NoHead

Request ==
    \/ GetLogs \/ GetLogsOutOfScope \/ ReadHead \/ RefuseAll \/ BlockNumber
    \/ ResolveHash \/ ResolveRange \/ FilterLogs \/ ReadFails \/ Replied

Next == Request \/ Writers
Spec == Init /\ [][Next]_vars

-----------------------------------------------------------------------------
\* Shapes; no answer is longer than the limit.
TypeOK ==
    /\ StoreTypeOK
    /\ maintenance \in BOOLEAN
    /\ client \in Nat \cup {NoHead}
    /\ reader.op \in {"none", "get logs", "get head", "select", "answered", "refused"}
    /\ reader.op = "answered" /\ MaxResults > 0 => Cardinality(reader.rows) <= MaxResults

\* What a node on the chain that ends in c returns for the range, without the
\* shapes that are never stored.
NodeAnswer(c, filter, from, to) ==
    UNION {{[n |-> n, hash |-> BlockAt(c, n), log |-> l] :
                l \in {x \in Emitted(BlockAt(c, n)) : NodeSelects(filter, x) /\ ~Omitted(x)}} :
           n \in from..to}

\* An answer is the answer of a node on some one chain, minus the documented
\* shapes: nothing of the range is missing or cut off, nothing comes from another
\* branch, whatever was written, withdrawn or reloaded while it was read
\* (View, GetLogs, filterLogs); a blockHash filter is answered for that block.
AnswersOneChain ==
    reader.op = "answered" =>
        \E c \in Block :
            /\ Height(c) >= reader.to
            /\ reader.asked # NoHash => BlockAt(c, reader.from) = reader.asked
            /\ reader.rows = NodeAnswer(c, reader.filter, reader.from, reader.to)

\* The head that eth_blockNumber answers is where a client may split its ranges:
\* until blocks are withdrawn, no range up to it is refused as above the head.
SplitPointHolds ==
    reader.op = "refused" /\ reader.why = "above head" => reader.to > client
=============================================================================
