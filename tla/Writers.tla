------------------------------ MODULE Writers ------------------------------
(***************************************************************************)
(* The processes that write one warehouse (serve's tail, the rewind        *)
(* command, the backfill), statement by statement: the writer lock, which  *)
(* belongs to a database session of its own, and the transactions of       *)
(* internal/logstore/store.go as PostgreSQL runs them (READ COMMITTED).    *)
(* LogStore has each transaction as one step; here that is shown.          *)
(*                                                                         *)
(* A process whose lock session is gone is not told: it goes on writing    *)
(* over the other connections of its pool.                                 *)
(***************************************************************************)
EXTENDS LogStore

CONSTANTS
    Process,       \* the processes an operator may start
    MaxTailBatch,  \* most blocks in one write of the tail
    Faults         \* what may go wrong, of AllFaults

AllFaults == {"session lost",             \* a lock session ends before its process
              "lost before first write",  \* ... even while there is no cursor row
              "backfill not alone"}       \* the operator leaves a backfill to the lock alone

ASSUME WritersAssumption == Faults \subseteq AllFaults /\ MaxTailBatch \in Nat

VARIABLES
    lock,  \* the process whose session holds the writer lock, or NoProcess
    proc   \* per process: its kind, and its open transaction if any

vars == <<storeVars, lock, proc>>

NoProcess == "nobody"
ASSUME NoProcessAssumption == NoProcess \notin Process
NoTxn == [at |-> "none"]
Dead == [kind |-> "dead", txn |-> NoTxn]
Kinds == {"serve", "rewind", "backfill"}

Txn(p) == proc[p].txn
Others(p) == Process \ {p}
Set(p, txn) == proc' = [proc EXCEPT ![p].txn = txn]
Goto(p, at) == Set(p, [Txn(p) EXCEPT !.at = at])
Rollback(p) == Set(p, NoTxn)

\* A transaction: the call, the statement it is at, and what it has done so far
\* that no one else sees.
Call(op, from, to, bs, ls) ==
    [op |-> op, from |-> from, to |-> to, bs |-> bs, ls |-> ls, at |-> "cursor",
     cov |-> NoCursor, sawRow |-> FALSE, gone |-> {}, goneLogs |-> {}, copied |-> {}, copiedLogs |-> {}]

Empty == [n \in {} |-> NoHash]

-----------------------------------------------------------------------------
(* Processes.                                                              *)

\* pg_try_advisory_lock: a second holder gets ErrWriterBusy, and exits.
LockFree == lock = NoProcess

\* The runbook: nothing else runs while a backfill does.
AsInRunbook(p, kind) ==
    \A q \in Others(p) : "backfill" \in {kind, proc[q].kind} => proc[q] = Dead

Starts(p) ==
    /\ proc[p] = Dead /\ LockFree
    /\ lock' = p
    /\ \E kind \in Kinds :
        /\ AsInRunbook(p, kind) \/ "backfill not alone" \in Faults
        /\ proc' = [proc EXCEPT ![p].kind = kind]
    /\ UNCHANGED storeVars

\* Mutant: a process that dies leaves the lock taken.
LockAfterCrash(p) == lock

LockWithout(p) == IF lock = p THEN NoProcess ELSE lock

\* release, or a crash: its sessions end, and open transactions with them.
Ends(p) ==
    /\ proc[p] # Dead
    /\ proc' = [proc EXCEPT ![p] = Dead]
    /\ lock' = LockWithout(p)
    /\ UNCHANGED storeVars

LosesSession(p) ==
    /\ lock = p /\ "session lost" \in Faults
    /\ HasCursor \/ "lost before first write" \in Faults
    /\ lock' = NoProcess
    /\ UNCHANGED <<storeVars, proc>>

-----------------------------------------------------------------------------
(* Calls.  What is checked before the transaction begins is a guard here.  *)

Idle(p, kinds) == proc[p].kind \in kinds /\ Txn(p) = NoTxn

\* WriteRange: a batch of one chain, with logs that may come from another one.
CallsWriteRange(p) ==
    /\ Idle(p, {"serve"})
    /\ \E b, c \in Block, k \in 1..MaxTailBatch, own \in SUBSET Heights :
        LET to == Height(b)
            from == to - k + 1
            bs == [n \in from..to |-> BlockAt(b, n)]
            ls == {[n |-> n, hash |-> BlockAt(c, n)] : n \in own} IN
        /\ from >= 0 /\ Height(c) = to /\ own \subseteq from..to
        /\ LogsMatchBlocks(bs, ls)
        /\ Set(p, Call("write", from, to, bs, ls))
    /\ UNCHANGED <<storeVars, lock>>

CallsRewind(p) ==
    /\ Idle(p, {"serve", "rewind"})
    /\ \E to \in Heights : Set(p, Call("rewind", to + 1, to, Empty, {}))
    /\ UNCHANGED <<storeVars, lock>>

\* Finish: the rows of an interval are found complete, then it is published.
CallsSetCoverage(p) ==
    /\ Idle(p, {"backfill"})
    /\ \E from, to \in Heights :
        /\ from <= to /\ from..to \subseteq DOMAIN blocks
        /\ Set(p, Call("publish", from, to, Empty, {}))
    /\ UNCHANGED <<storeVars, lock>>

\* The other stages in one step (see Backfill): the rows of an interval are
\* replaced, once no open transaction holds one of them.
LoadsRows(p) ==
    /\ Idle(p, {"backfill"})
    /\ \A q \in Others(p) : Txn(q).at \in {"none", "cursor", "clear logs"}
    /\ \E b \in Block, from \in Heights :
        /\ from <= Height(b)
        /\ blocks' = [n \in DOMAIN blocks \cup from..Height(b) |->
                         IF n \in from..Height(b) THEN BlockAt(b, n) ELSE blocks[n]]
        /\ logs' = {l \in logs : l.n \notin from..Height(b)}
    /\ UNCHANGED <<cursor, lock, proc>>

-----------------------------------------------------------------------------
(* Statements.  A statement sees what is committed when it runs, and what  *)
(* its own transaction did; it waits for a row that another open           *)
(* transaction has changed.                                                *)

Affected(txn) == IF txn.op = "rewind" THEN {n \in Heights : n > txn.to} ELSE txn.from..txn.to

\* The cursor row is locked by who read it FOR UPDATE, or wrote it.
HoldsCursor(q) == Txn(q).at \notin {"none", "cursor"} /\ (Txn(q).sawRow \/ Txn(q).at = "commit")
CursorRowFree(p) == \A q \in Others(p) : ~HoldsCursor(q)

Allowed(txn) ==
    IF txn.op = "rewind" THEN RewindAllowed(txn.to) ELSE TouchesCoverage(txn.from, txn.to)

NewCoverage(txn) ==
    IF txn.op = "rewind" THEN [start |-> cursor.start, head |-> txn.to]
                         ELSE MergedCoverage(txn.from, txn.to)

\* Mutant: the row is read, not locked.
ReadsCursorUnlocked(p) ==
    /\ Txn(p).at = "cursor"
    /\ IF Allowed(Txn(p))
       THEN Set(p, [Txn(p) EXCEPT !.cov = NewCoverage(Txn(p)),
                                  !.at = IF Txn(p).op = "publish" THEN "upsert" ELSE "clear logs"])
       ELSE Rollback(p)
    /\ UNCHANGED <<storeVars, lock>>

\* readCoverage FOR UPDATE.  A row that is not there, or not yet committed,
\* cannot be locked or waited for.
ReadsCursor(p) ==
    /\ Txn(p).at = "cursor"
    /\ HasCursor => CursorRowFree(p)
    /\ IF Allowed(Txn(p))
       THEN Set(p, [Txn(p) EXCEPT !.cov = NewCoverage(Txn(p)), !.sawRow = HasCursor,
                                  !.at = IF Txn(p).op = "publish" THEN "upsert" ELSE "clear logs"])
       ELSE Rollback(p)
    /\ UNCHANGED <<storeVars, lock>>

\* Mutant: the rows of a batch are added to those that are there.
ClearsNoLogs(p) == Txn(p).at = "clear logs" /\ Goto(p, "clear blocks") /\ UNCHANGED <<storeVars, lock>>

ClearsLogs(p) ==
    LET hit == {l \in logs : l.n \in Affected(Txn(p))} IN
    /\ Txn(p).at = "clear logs"
    /\ \A q \in Others(p) : Txn(q) # NoTxn => Txn(q).goneLogs \cap hit = {}
    /\ Set(p, [Txn(p) EXCEPT !.goneLogs = hit, !.at = "clear blocks"])
    /\ UNCHANGED <<storeVars, lock>>

ClearsBlocks(p) ==
    LET hit == DOMAIN blocks \cap Affected(Txn(p)) IN
    /\ Txn(p).at = "clear blocks"
    /\ \A q \in Others(p) : Txn(q) # NoTxn => Txn(q).gone \cap hit = {}
    /\ Set(p, [Txn(p) EXCEPT !.gone = hit,
                             !.at = IF Txn(p).op = "rewind" THEN "upsert" ELSE "copy blocks"])
    /\ UNCHANGED <<storeVars, lock>>

\* copyBlocks: a key that another transaction has copied is waited for; one that
\* is there already is an error.
CopiesBlocks(p) ==
    /\ Txn(p).at = "copy blocks"
    /\ \A q \in Others(p) : Txn(q) # NoTxn => Txn(q).copied \cap DOMAIN Txn(p).bs = {}
    /\ IF (DOMAIN blocks \ Txn(p).gone) \cap DOMAIN Txn(p).bs = {}
       THEN Set(p, [Txn(p) EXCEPT !.copied = DOMAIN Txn(p).bs, !.at = "copy logs"])
       ELSE Rollback(p)
    /\ UNCHANGED <<storeVars, lock>>

CopiesLogs(p) ==
    /\ Txn(p).at = "copy logs"
    /\ Set(p, [Txn(p) EXCEPT !.copiedLogs = Txn(p).ls, !.at = "upsert"])
    /\ UNCHANGED <<storeVars, lock>>

\* setCoverage, the upsert.
SetsCoverage(p) ==
    /\ Txn(p).at = "upsert" /\ CursorRowFree(p)
    /\ Goto(p, "commit")
    /\ UNCHANGED <<storeVars, lock>>

Commits(p) ==
    /\ Txn(p).at = "commit"
    /\ blocks' = [n \in (DOMAIN blocks \ Txn(p).gone) \cup Txn(p).copied |->
                     IF n \in Txn(p).copied THEN Txn(p).bs[n] ELSE blocks[n]]
    /\ logs' = (logs \ Txn(p).goneLogs) \cup Txn(p).copiedLogs
    /\ cursor' = Txn(p).cov
    /\ Rollback(p)
    /\ UNCHANGED lock

\* A statement fails (a timeout, a canceled caller, a deadlock detected).
Fails(p) ==
    /\ Txn(p) # NoTxn
    /\ Rollback(p)
    /\ UNCHANGED <<storeVars, lock>>

Statement(p) ==
    \/ ReadsCursor(p) \/ ClearsLogs(p) \/ ClearsBlocks(p) \/ CopiesBlocks(p) \/ CopiesLogs(p)
    \/ SetsCoverage(p) \/ Commits(p)

-----------------------------------------------------------------------------
Init ==
    /\ StoreInit
    /\ lock = NoProcess
    /\ proc = [p \in Process |-> Dead]

Next ==
    \E p \in Process :
        \/ Starts(p) \/ Ends(p) \/ LosesSession(p)
        \/ CallsWriteRange(p) \/ CallsRewind(p) \/ CallsSetCoverage(p) \/ LoadsRows(p)
        \/ Statement(p) \/ Fails(p)

Spec == Init /\ [][Next]_vars

-----------------------------------------------------------------------------
\* Shapes; the holder of the lock is alive.
TypeOK ==
    /\ StoreTypeOK
    /\ lock \in Process \cup {NoProcess}
    /\ lock # NoProcess => proc[lock] # Dead

\* The call as LogStore has it: one step on the tables as they are now.
InOneStep(txn) ==
    \/ txn.op = "write" /\ WriteRange(txn.from, txn.to, txn.bs, txn.ls)
    \/ txn.op = "rewind" /\ Rewind(txn.to)
    \/ /\ txn.op = "publish" /\ TouchesCoverage(txn.from, txn.to)
       /\ cursor' = MergedCoverage(txn.from, txn.to)
       /\ UNCHANGED <<blocks, logs>>

\* A transaction of several statements changes the tables as if it were one step
\* on what is there when it commits, also beside a writer that has lost the lock:
\* the cursor row, read FOR UPDATE first, keeps the writers apart (readCoverage).
TransactionsAreAtomic ==
    [][\E p \in Process : \/ Txn(p).at = "commit" /\ InOneStep(Txn(p))
                          \/ LoadsRows(p)]_storeVars
=============================================================================
