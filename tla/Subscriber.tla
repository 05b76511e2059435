----------------------------- MODULE Subscriber -----------------------------
(***************************************************************************)
(* Tail ingestion (internal/ingestion): the process that follows the head  *)
(* of the chain and writes confirmed blocks, with their logs, to the       *)
(* warehouse of module LogStore.                                           *)
(*                                                                         *)
(* The process is sequential, but the node is not: between any two of its  *)
(* answers the canonical chain may grow or be reorganized.  Every read of  *)
(* the node is therefore a step of its own, and what the process does      *)
(* between one read and the next is part of the step that made the read.   *)
(* Variable job is the point the process is at, with the local variables   *)
(* that are live there.                                                    *)
(***************************************************************************)
EXTENDS LogStore

CONSTANTS
    ConfirmationBlocks,        \* Config.ConfirmationBlocks
    MaxCatchupBlocks,          \* Config.MaxCatchupBlocks; 0: no bound
    StartBlock,                \* RunConfig.StartBlock; 0: not configured
    MaxBridgeWalk,             \* maxBridgeWalk (64)
    MaxForkWalk,               \* maxForkWalk (1024)
    CatchupBatchBlocks,        \* catchupBatchBlocks (10)
    BatchConsistencyAttempts,  \* batchConsistencyAttempts (3)
    MaxQueuedHeads,            \* heads taken in one receive, drainHeads included
    InitHeight,                \* height of the chain when the service is first started
    TipMayDrop,                \* may a reorg leave the node with a lower tip?
    ReturnsToBranch,           \* may the node return to a branch it has left?
    OmitsBlockHash             \* may the node leave blockHash out of a log?

\* What a configuration must satisfy, of what is modelled (config.Validate).
Validate == MaxCatchupBlocks > 0 => ConfirmationBlocks < MaxCatchupBlocks

ASSUME ConfigAssumption ==
    /\ ConfirmationBlocks \in Nat /\ MaxCatchupBlocks \in Nat /\ StartBlock \in Nat
    /\ Validate
ASSUME LimitsAssumption ==
    /\ MaxBridgeWalk \in Nat /\ MaxForkWalk \in Nat /\ MaxQueuedHeads \in Nat
    /\ CatchupBatchBlocks \in Nat \ {0}
    /\ BatchConsistencyAttempts \in Nat \ {0}
    /\ InitHeight \in Nat
ASSUME NodeAssumption == TipMayDrop \in BOOLEAN /\ ReturnsToBranch \in BOOLEAN /\ OmitsBlockHash \in BOOLEAN

VARIABLES
    canon,       \* node: the canonical chain, named by its tip
    tips,        \* node: every block that has been the tip, so may be announced
    live,        \* node: does the newHeads subscription still deliver?
    next,        \* streamState.next: first block not written
    lowerBound,  \* streamState.lowerBound: nothing below is ever written
    tip,         \* streamState.tip: highest head accepted
    heads,       \* streamState.heads: retained heads by height
    job          \* where the process is, and its locals

nodeVars == <<canon, tips>>
stream == <<next, lowerBound, tip, heads>>
vars == <<canon, tips, live, blocks, logs, cursor, next, lowerBound, tip, heads, job>>

NoHeads == [n \in {} |-> NoHash]

-----------------------------------------------------------------------------
(***************************************************************************)
(* The node (external).                                                    *)
(***************************************************************************)

\* eth_getBlockByNumber finds a block at n; the block it returns.
Known(n) == n <= Height(canon)
HeadByNumber(n) == BlockAt(canon, n)

\* b is a block of the chain that ends in c.
IsOnChain(b, c) == Len(b) <= Len(c) /\ BlockAt(c, Height(b)) = b

\* The node never serves again a block that it has once abandoned.
NeverAbandoned(c) ==
    \A t \in tips : \A n \in 0..Lesser(Height(t), Height(c)) :
        BlockAt(t, n) = BlockAt(c, n) => IsOnChain(BlockAt(t, n), canon)

\* The chain grows by a block, or a reorg replaces its end by another branch,
\* whose tip need not be higher: the weight of attestations decides.
NodeMoves ==
    \E c \in Block :
        /\ Parent(c) = canon \/ (~IsOnChain(c, canon) /\ ~IsOnChain(canon, c))
        /\ TipMayDrop \/ Height(c) >= Height(canon)
        /\ ReturnsToBranch \/ NeverAbandoned(c)
        /\ canon' = c
        /\ tips' = tips \cup {c}
        /\ UNCHANGED <<live, storeVars, stream, job>>

\* A half-open connection: no head arrives any more, and no error either.
SubscriptionGoesSilent ==
    /\ live
    /\ live' = FALSE
    /\ UNCHANGED <<nodeVars, storeVars, stream, job>>

\* The answer of eth_getLogs for [from, to]: what the canonical chain holds.
NodeLogs(from, to) ==
    {[n |-> n, hash |-> HeadByNumber(n)] :
        n \in {m \in from..to : Known(m) /\ HasRawLog(HeadByNumber(m))}}

-----------------------------------------------------------------------------
(***************************************************************************)
(* The process: start and end.                                             *)
(***************************************************************************)
Running == job.op # "down"

\* The process ends and loses its memory; every error of the code is fatal.
Exit ==
    /\ job' = [op |-> "down"]
    /\ next' = 0 /\ lowerBound' = 0 /\ tip' = 0 /\ heads' = NoHeads
    /\ live' = FALSE
    /\ UNCHANGED <<nodeVars, storeVars>>

\* A crash, a signal, a subscription error, or a node or database call that
\* still fails when its retries are used up.
Crash == Running /\ Exit

\* resolveStartBlock with start_block configured as sb, then a subscription.
Start(sb) ==
    /\ job.op = "down"
    /\ HasCursor => sb = 0
    /\ next' = IF HasCursor THEN cursor.head + 1 ELSE IF sb # 0 THEN sb ELSE Height(canon)
    /\ lowerBound' = next'
    /\ tip' = 0 /\ heads' = NoHeads
    /\ live' = TRUE
    /\ job' = [op |-> "resume"]
    /\ UNCHANGED <<nodeVars, storeVars>>

\* `ff-eth-logs rewind -to`, which needs the writer lock: the service is down.
OperatorRewind ==
    /\ job.op = "down"
    /\ \E to \in Covered : Rewind(to)
    /\ UNCHANGED <<nodeVars, live, stream, job>>

\* The watchdog is armed only here.
HeadTimeout == job.op = "wait" /\ Exit

-----------------------------------------------------------------------------
(***************************************************************************)
(* Deep reorgs: recoverDeepReorg and findForkPoint.                        *)
(***************************************************************************)

\* Look below `height` for the fork, the retained heads being hs; `after` says
\* what the caller does then.
FindForkPoint(hs, height, after, batch) ==
    IF height = 0
    THEN Exit
    ELSE /\ heads' = hs
         /\ job' = [op |-> "fork", height |-> height, n |-> height - 1,
                    after |-> after, batch |-> batch]
         /\ UNCHANGED <<nodeVars, live, storeVars, next, lowerBound, tip>>

\* The walk is not too long, and both sides have a block at its height.
ForkWalkGoesOn ==
    /\ job.height - job.n <= MaxForkWalk
    /\ Stored(job.n)
    /\ Known(job.n)

\* Written and canonical: a verified common ancestor.
IsAncestor(n) == HeadByNumber(n) = blocks[n]

\* No ancestor in reach, or one that the warehouse refuses to rewind to.
ForkWalkFails ==
    /\ job.op = "fork"
    /\ ForkWalkGoesOn => IF IsAncestor(job.n) THEN ~RewindAllowed(job.n) ELSE job.n = 0
    /\ Exit

ForkWalkStep ==
    /\ job.op = "fork" /\ ForkWalkGoesOn
    /\ ~IsAncestor(job.n)
    /\ job.n > 0
    /\ job' = [job EXCEPT !.n = @ - 1]
    /\ UNCHANGED <<nodeVars, live, storeVars, stream>>

\* Mutant: the retained heads outlive the rewind.
RecoverDeepReorgKeepsHeads ==
    /\ job.op = "fork" /\ ForkWalkGoesOn
    /\ IsAncestor(job.n)
    /\ Rewind(job.n)
    /\ next' = job.n + 1
    /\ tip' = job.n
    /\ job' = [op |-> "wait"]
    /\ UNCHANGED <<nodeVars, live, lowerBound, heads>>

\* The common ancestor: drop everything above it and restart the stream there.
RecoverDeepReorg ==
    /\ job.op = "fork" /\ ForkWalkGoesOn
    /\ IsAncestor(job.n)
    /\ Rewind(job.n)
    /\ heads' = [n \in {job.n} |-> HeadByNumber(job.n)]
    /\ next' = job.n + 1
    /\ tip' = job.n
    /\ lowerBound' = IF job.after = "resume" THEN Lesser(lowerBound, job.n + 1) ELSE lowerBound
    /\ job' = IF job.after = "record" THEN [op |-> "record", batch |-> job.batch]
                                      ELSE [op |-> "wait"]
    /\ UNCHANGED <<nodeVars, live>>

\* Mutant: resume without a look at what is stored.
ResumeUnverified(n) == TRUE

\* The block to resume after is the stored one, or nothing is stored there.
ResumeAgrees(n) == Stored(n) => blocks[n] = HeadByNumber(n)

\* verifyResumePoint: is the last written block still canonical?
VerifyResumePoint ==
    /\ job.op = "resume"
    /\ LET last == next - 1 IN
       \/ /\ next = 0
          /\ job' = [op |-> "wait"]
          /\ UNCHANGED <<nodeVars, live, storeVars, stream>>
       \/ next > 0 /\ ~Known(last) /\ Exit
       \/ /\ next > 0 /\ Known(last)
          /\ ResumeAgrees(last)
          /\ heads' = Put(heads, last, HeadByNumber(last))
          /\ tip' = last
          /\ job' = [op |-> "wait"]
          /\ UNCHANGED <<nodeVars, live, storeVars, next, lowerBound>>
       \/ /\ next > 0 /\ Known(last)
          /\ ~ResumeAgrees(last)
          /\ FindForkPoint(heads, last, "resume", <<>>)

-----------------------------------------------------------------------------
(***************************************************************************)
(* Received heads: planRange's first half, record and reconcile.           *)
(***************************************************************************)
Gap(n, t) == IF t >= n THEN t - n + 1 ELSE 0

\* Mutant: measure the confirmed part of the gap only.
CatchupConfirmedTooLarge(t) ==
    MaxCatchupBlocks > 0 /\ Gap(next, t - ConfirmationBlocks) > MaxCatchupBlocks

\* checkCatchupBound: the gap is more than one process may fill.
CatchupTooLarge(t) == MaxCatchupBlocks > 0 /\ Gap(next, t) > MaxCatchupBlocks

\* One receive and drainHeads: the announced heads of a load-balanced
\* provider come late, twice, in any order, or not at all.
QueuedHeads == UNION {[1..m -> tips] : m \in 1..MaxQueuedHeads}
Highest(hs) == CHOOSE t \in {tip} \cup {Height(hs[i]) : i \in DOMAIN hs} :
                   t >= tip /\ \A i \in DOMAIN hs : t >= Height(hs[i])

Receive ==
    /\ job.op = "wait" /\ live
    /\ \E hs \in QueuedHeads :
           IF CatchupTooLarge(Highest(hs))
           THEN Exit
           ELSE /\ job' = [op |-> "record", batch |-> hs]
                /\ UNCHANGED <<nodeVars, live, storeVars, stream>>

\* The head being recorded, and its height.
TheHead == Head(job.batch)
TheHeight == Height(TheHead)

\* On to the next head of the batch, or to the planning.
NextHead ==
    job' = IF Len(job.batch) > 1 THEN [op |-> "record", batch |-> Tail(job.batch)]
                                 ELSE [op |-> "plan"]

\* truncateAbove
UpTo(hs, n) == Drop(hs, {m \in DOMAIN hs : m > n})

\* The end of record, hs being the heads retained after reconcile: keep the
\* head unless it is stale, and forget what descends from a replaced head.
FinishRecord(hs, stale, replaced) ==
    LET n == TheHeight
        replaces == ~stale /\ n \in DOMAIN hs /\ hs[n] # TheHead
        fork == IF replaced THEN n - 1 ELSE n
        cut == IF replaced \/ replaces THEN UpTo(hs, fork) ELSE hs
        base == IF replaced \/ replaces THEN fork ELSE tip
    IN  /\ heads' = IF stale THEN cut ELSE Put(cut, n, TheHead)
        /\ tip' = IF stale THEN base ELSE Greater(base, n)
        /\ NextHead
        /\ UNCHANGED <<nodeVars, live, storeVars, next, lowerBound>>

\* The blocks held for n: retained, or stored.
HeldAt(n) == {heads[m] : m \in DOMAIN heads \cap {n}} \cup {blocks[m] : m \in DOMAIN blocks \cap {n}}

\* Below the lower bound, or a block that is retained or stored already.
RecordIgnored ==
    /\ job.op = "record"
    /\ \/ TheHeight < lowerBound
       \/ TheHeight < next /\ TheHead \in HeldAt(TheHeight)
    /\ NextHead
    /\ UNCHANGED <<nodeVars, live, storeVars, stream>>

\* Mutant: a head that differs from the written block is taken for a reorg.
RecordWrittenHeightTrusted ==
    /\ job.op = "record"
    /\ lowerBound <= TheHeight /\ TheHeight < next
    /\ TheHead \notin HeldAt(TheHeight)
    /\ FindForkPoint(heads, TheHeight, "record", job.batch)

\* handleWrittenHeightHead: only the node decides about a written height.
RecordWrittenHeight ==
    /\ job.op = "record"
    /\ lowerBound <= TheHeight /\ TheHeight < next
    /\ TheHead \notin HeldAt(TheHeight)
    /\ \/ ~Known(TheHeight) /\ Exit
       \/ /\ Known(TheHeight) /\ Stored(TheHeight)
          /\ HeadByNumber(TheHeight) = blocks[TheHeight]
          /\ NextHead
          /\ UNCHANGED <<nodeVars, live, storeVars, stream>>
       \/ /\ Known(TheHeight)
          /\ Stored(TheHeight) => HeadByNumber(TheHeight) # blocks[TheHeight]
          /\ FindForkPoint(heads, TheHeight, "record", job.batch)

\* Is a written (or anchoring) block retained to walk down to?
Bridge == next - 1 \in DOMAIN heads

\* nearestRetainedBelow
NearestRetainedBelow(n) ==
    LET below == {m \in DOMAIN heads : m < n}
    IN  IF below = {} THEN 0 ELSE CHOOSE m \in below : \A o \in below : o <= m

IsFar(n) == Bridge /\ n - NearestRetainedBelow(n) > MaxBridgeWalk

\* A head at an unwritten height is reconciled first; genesis has no parent.
RecordUnwrittenHeight ==
    /\ job.op = "record"
    /\ TheHeight >= lowerBound /\ TheHeight >= next
    /\ IF TheHeight = 0
       THEN FinishRecord(heads, FALSE, FALSE)
       ELSE /\ ~IsFar(TheHeight)
            /\ job' = [op |-> "reconcile", batch |-> job.batch, k |-> TheHeight - 1,
                       expected |-> Parent(TheHead), replaced |-> FALSE]
            /\ UNCHANGED <<nodeVars, live, storeVars, stream>>

\* Far above everything retained: is the head itself canonical?
RecordFarHead ==
    /\ job.op = "record"
    /\ TheHeight >= lowerBound /\ TheHeight >= next /\ TheHeight > 0
    /\ IsFar(TheHeight)
    /\ IF Known(TheHeight)
       THEN FinishRecord(heads, HeadByNumber(TheHeight) # TheHead, FALSE)
       ELSE Exit

\* reconcile, the walk ends: the chains rejoin at k, or nothing is retained.
ReconcileEnds ==
    /\ job.op = "reconcile"
    /\ IF job.k \in DOMAIN heads THEN heads[job.k] = job.expected
                                 ELSE ~Bridge \/ job.k < next
    /\ FinishRecord(heads, FALSE, job.replaced)

\* reconcile, one turn of the loop that reads the canonical head at k.
ReconcileFetch ==
    LET k == job.k
        differs == k \in DOMAIN heads /\ heads[k] # HeadByNumber(k)
        replaced == job.replaced \/ differs
        hs == Put(heads, k, HeadByNumber(k))
    IN  /\ job.op = "reconcile"
        /\ IF k \in DOMAIN heads THEN heads[k] # job.expected
                                 ELSE Bridge /\ k >= next
        /\ \/ ~Known(k) /\ Exit
           \/ Known(k) /\ differs /\ k < next /\ FindForkPoint(heads, k, "record", job.batch)
           \/ /\ Known(k) /\ ~(differs /\ k < next)
              /\ IF HeadByNumber(k) = job.expected /\ k > 0
                 THEN /\ heads' = hs
                      /\ job' = [job EXCEPT !.k = k - 1, !.replaced = replaced,
                                            !.expected = Parent(HeadByNumber(k))]
                      /\ UNCHANGED <<nodeVars, live, storeVars, next, lowerBound, tip>>
                 ELSE FinishRecord(hs, HeadByNumber(k) # job.expected, replaced)

-----------------------------------------------------------------------------
(***************************************************************************)
(* planRange's second half, ingestRange and ingestBatch.  The batch being  *)
(* written is next..BatchEnd of the planned range next..job.to: ingestRange*)
(* advances the stream past each batch it has written.                     *)
(***************************************************************************)
BatchEnd == Lesser(next + CatchupBatchBlocks - 1, job.to)

\* One attempt at the batch, from the metadata on.
Attempt(to, attempt, from) == [op |-> "metadata", to |-> to, attempt |-> attempt, k |-> from]

\* Mutant: one block too early.
UnconfirmedHeight == tip - ConfirmationBlocks + 1

\* The highest block with ConfirmationBlocks blocks on top of it.
ConfirmedHeight == tip - ConfirmationBlocks

\* Fix the range to write; its last block is read if no head came for it.
PlanRange ==
    LET to == ConfirmedHeight IN
    /\ job.op = "plan"
    /\ \/ CatchupTooLarge(tip) /\ Exit
       \/ /\ ~CatchupTooLarge(tip) /\ to < next
          /\ job' = [op |-> "wait"]
          /\ UNCHANGED <<nodeVars, live, storeVars, stream>>
       \/ /\ ~CatchupTooLarge(tip) /\ to >= next
          /\ to \notin DOMAIN heads /\ ~Known(to)
          /\ Exit
       \/ /\ ~CatchupTooLarge(tip) /\ to >= next
          /\ to \in DOMAIN heads \/ Known(to)
          /\ heads' = IF to \in DOMAIN heads THEN heads ELSE Put(heads, to, HeadByNumber(to))
          /\ job' = Attempt(to, 1, next)
          /\ UNCHANGED <<nodeVars, live, storeVars, next, lowerBound, tip>>

\* Mutant: no bound on the attempts.
RetryForever(hs, stale) ==
    /\ heads' = Drop(hs, stale)
    /\ job' = Attempt(job.to, job.attempt + 1, next)
    /\ UNCHANGED <<nodeVars, live, storeVars, next, lowerBound, tip>>

\* The batch could not be read consistently: forget `stale` and try again.
Retry(hs, stale) ==
    IF job.attempt = BatchConsistencyAttempts
    THEN Exit
    ELSE /\ heads' = Drop(hs, stale)
         /\ job' = Attempt(job.to, job.attempt + 1, next)
         /\ UNCHANGED <<nodeVars, live, storeVars, next, lowerBound, tip>>

\* boundaryMoved: the batch does not descend from the block held below it.
BoundaryMoved(hs) ==
    IF Stored(next - 1)
    THEN FindForkPoint(hs, next - 1, "replan", <<>>)
    ELSE /\ heads' = hs
         /\ job' = [op |-> "reanchor"]
         /\ UNCHANGED <<nodeVars, live, storeVars, next, lowerBound, tip>>

\* boundaryMoved, nothing stored below: the anchor itself was replaced.
Reanchor ==
    /\ job.op = "reanchor"
    /\ \/ ~Known(next - 1) /\ Exit
       \/ /\ Known(next - 1)
          /\ heads' = Put(Drop(heads, next..tip), next - 1, HeadByNumber(next - 1))
          /\ tip' = next - 1
          /\ job' = [op |-> "wait"]
          /\ UNCHANGED <<nodeVars, live, storeVars, next, lowerBound>>

\* Mutants: check no parent; check parents inside the batch only.
AnyParent(hs, k) == TRUE
LinkedInBatch(hs, k) == k > next => Parent(hs[k]) = hs[k - 1]

\* The block at k descends from the one held for k - 1, if one is held.
Linked(hs, k) == k - 1 \in DOMAIN hs => Parent(hs[k]) = hs[k - 1]

\* blockMetadata, one turn of its loop: the header of block k, retained or
\* read, must descend from the one held for k - 1.
BlockMetadata ==
    LET k == job.k
        head == IF k \in DOMAIN heads THEN heads[k] ELSE HeadByNumber(k)
        hs == Put(heads, k, head)
    IN  /\ job.op = "metadata"
        /\ \/ k \notin DOMAIN heads /\ ~Known(k) /\ Exit
           \/ /\ k \in DOMAIN heads \/ Known(k)
              /\ \/ /\ Linked(hs, k)
                    /\ heads' = hs
                    /\ job' = IF k < BatchEnd
                              THEN [job EXCEPT !.k = k + 1]
                              ELSE [op |-> "fetch", to |-> job.to, attempt |-> job.attempt,
                                    k |-> next, raw |-> {}]
                    /\ UNCHANGED <<nodeVars, live, storeVars, next, lowerBound, tip>>
                 \/ ~Linked(hs, k) /\ k = next /\ BoundaryMoved(hs)
                 \/ ~Linked(hs, k) /\ k > next /\ Retry(hs, (k - 1)..BatchEnd)

\* Mutant: trust a log without a block hash.
DisagreeingWithHash(raw) == {l.n : l \in {r \in raw : r.hash \notin {NoHash, heads[r.n]}}}

\* disagreeingHeights: a log names another block than the metadata, or none.
Disagreeing(raw) == {l.n : l \in {r \in raw : r.hash # heads[r.n]}}

\* Blocks of the batch for which the node returned no log at all.
Logless(raw) == (next..BatchEnd) \ {l.n : l \in raw}

\* eventset.Keep: the logs in the shape the warehouse stores (it does not look
\* at the block hash, so a log without one may be of any shape).
Kept(raw) == {l \in raw : l.hash = NoHash \/ HasKeptLog(l.hash)}

\* FetchIngestionLogs, one call: a window of any size the paginator may come
\* to, or the receipts of a dense block (a window of one).  With the last
\* window the logs are compared with the metadata.
FetchWindow ==
    /\ job.op = "fetch"
    /\ \E w \in job.k..BatchEnd, omitted \in IF OmitsBlockHash THEN BOOLEAN ELSE {FALSE} :
       LET answer == {IF omitted THEN [l EXCEPT !.hash = NoHash] ELSE l : l \in NodeLogs(job.k, w)}
           raw == job.raw \cup answer
       IN  \/ /\ w < BatchEnd
              /\ job' = [job EXCEPT !.k = w + 1, !.raw = raw]
              /\ UNCHANGED <<nodeVars, live, storeVars, stream>>
           \/ w = BatchEnd /\ Disagreeing(raw) # {} /\ Retry(heads, Disagreeing(raw))
           \/ /\ w = BatchEnd /\ Disagreeing(raw) = {}
              /\ job' = [op |-> "recheck", to |-> job.to, attempt |-> job.attempt,
                         raw |-> raw, todo |-> Logless(raw), moved |-> {}]
              /\ UNCHANGED <<nodeVars, live, storeVars, stream>>

\* Mutant: a block without logs is not read again.
RecheckNothing ==
    /\ job.op = "recheck" /\ job.todo # {}
    /\ job' = [job EXCEPT !.todo = {}]
    /\ UNCHANGED <<nodeVars, live, storeVars, stream>>

\* recheckLoglessBlocks, one turn: the lowest logless block is read again.
RecheckBlock ==
    /\ job.op = "recheck" /\ job.todo # {}
    /\ LET n == CHOOSE m \in job.todo : \A o \in job.todo : m <= o IN
       \/ ~Known(n) /\ Exit
       \/ /\ Known(n)
          /\ job' = [job EXCEPT !.todo = @ \ {n},
                                !.moved = IF HeadByNumber(n) = heads[n] THEN @ ELSE @ \cup {n}]
          /\ UNCHANGED <<nodeVars, live, storeVars, stream>>

RecheckFindsMove ==
    /\ job.op = "recheck" /\ job.todo = {} /\ job.moved # {}
    /\ Retry(heads, job.moved)

\* The heads the metadata was taken from, for the heights of the batch.
Metadata == [n \in next..BatchEnd |-> heads[n]]

ReadyToWrite == job.op = "recheck" /\ job.todo = {} /\ job.moved = {}

\* The batch is consistent: store it and advance past it.
WriteBatch ==
    /\ ReadyToWrite
    /\ WriteRange(next, BatchEnd, Metadata, Kept(job.raw))
    /\ next' = BatchEnd + 1
    /\ heads' = Drop(heads, {n \in DOMAIN heads : n < BatchEnd})
    /\ job' = IF BatchEnd = job.to THEN [op |-> "wait"] ELSE Attempt(job.to, 1, next')
    /\ UNCHANGED <<nodeVars, live, lowerBound, tip>>

-----------------------------------------------------------------------------
(***************************************************************************)
(* The specification.  The service is first started on an empty warehouse, *)
(* or on one to which a backfill has published an interval of the chain    *)
(* (an export of history: blocks that are confirmed long since).           *)
(***************************************************************************)
ChainRows(c, start, head) ==
    /\ blocks = [n \in start..head |-> BlockAt(c, n)]
    /\ logs = {[n |-> n, hash |-> BlockAt(c, n)] :
                  n \in {m \in start..head : HasKeptLog(BlockAt(c, m))}}

Init ==
    /\ canon \in {b \in Block : Height(b) = InitHeight}
    /\ tips = {canon}
    /\ \/ StoreInit
       \/ \E start, head \in 0..(InitHeight - ConfirmationBlocks) :
             /\ start <= head
             /\ cursor = [start |-> start, head |-> head]
             /\ ChainRows(canon, start, head)
    /\ live = FALSE
    /\ next = 0 /\ lowerBound = 0 /\ tip = 0 /\ heads = NoHeads
    /\ job = [op |-> "down"]

Step ==
    \/ VerifyResumePoint
    \/ ForkWalkFails \/ ForkWalkStep \/ RecoverDeepReorg
    \/ RecordIgnored \/ RecordWrittenHeight \/ RecordUnwrittenHeight \/ RecordFarHead
    \/ ReconcileEnds \/ ReconcileFetch
    \/ PlanRange \/ Reanchor
    \/ BlockMetadata \/ FetchWindow
    \/ RecheckBlock \/ RecheckFindsMove \/ WriteBatch

Next ==
    \/ NodeMoves \/ SubscriptionGoesSilent
    \/ \E sb \in {0, StartBlock} : Start(sb)
    \/ Receive \/ Step
    \/ Crash \/ HeadTimeout \/ OperatorRewind

Spec == Init /\ [][Next]_vars

-----------------------------------------------------------------------------
(***************************************************************************)
(* Properties.                                                             *)
(***************************************************************************)
\* The locals that are live at each point of the process.
Job ==
    [op : {"down", "resume", "wait", "plan", "reanchor"}]
    \cup [op : {"record"}, batch : Seq(Block) \ {<<>>}]
    \cup [op : {"reconcile"}, batch : Seq(Block) \ {<<>>}, k : Nat,
          expected : Block \cup {NoHash}, replaced : BOOLEAN]
    \cup [op : {"fork"}, height : Nat, n : Nat,
          after : {"resume", "record", "replan"}, batch : Seq(Block)]
    \cup [op : {"metadata"}, to : Nat, attempt : 1..BatchConsistencyAttempts, k : Nat]
    \cup [op : {"fetch"}, to : Nat, attempt : 1..BatchConsistencyAttempts, k : Nat,
          raw : SUBSET LogRow]
    \cup [op : {"recheck"}, to : Nat, attempt : 1..BatchConsistencyAttempts,
          raw : SUBSET LogRow, todo : SUBSET Nat, moved : SUBSET Nat]

\* The variables and the locals have their types; among them the number of the
\* attempt at a batch, which ingestBatch bounds.
TypeOK ==
    /\ StoreTypeOK
    /\ canon \in Block /\ tips \subseteq Block
    /\ live \in BOOLEAN
    /\ next \in Nat /\ lowerBound \in Nat /\ tip \in Nat
    /\ DOMAIN heads \subseteq Nat
    /\ \A n \in DOMAIN heads : heads[n] \in Block
    /\ job \in Job

\* The covered blocks are one chain: each is the child of the one below, at
\* its own height.  blockMetadata checks the parents within a batch and the one
\* below it; batches, rewinds and restarts must fit together to keep it.
StoreIsOneChain ==
    \A n \in Covered :
        /\ Height(blocks[n]) = n
        /\ n > cursor.start => Parent(blocks[n]) = blocks[n - 1]

\* The stored logs of a covered block are all its logs, though ingestBatch reads
\* headers and logs at different times: disagreeingHeights and the second read
\* of recheckLoglessBlocks find every block that changed in between.
LogsComplete ==
    \A n \in Covered : HasKeptLog(blocks[n]) => [n |-> n, hash |-> blocks[n]] \in logs

\* The stream stands right above the written blocks, and the head it retains
\* for the last of them is the block that is stored: advance, recoverDeepReorg
\* and verifyResumePoint leave memory and tables in step.
StreamMatchesStore ==
    Running => /\ HasCursor => next = cursor.head + 1
               /\ job.op \notin {"resume", "fork"} /\ next > 0 => next - 1 \in DOMAIN heads
               /\ next - 1 \in DOMAIN heads \cap DOMAIN blocks => heads[next - 1] = blocks[next - 1]
               /\ \A n \in DOMAIN heads : n >= next - 1

\* The checks of WriteRange are the last line of defence: the batch that
\* ingestion brings to it always passes them.
WriteNeverRefused ==
    ReadyToWrite => WriteRangeAllowed(next, BatchEnd, Metadata, Kept(job.raw))

\* A running service cuts its coverage off at the fork, though findForkPoint looks
\* for it over many reads of a chain that moves on: every block that stays is
\* canonical, and every block that goes has been replaced.  The exception is the
\* last written block, which boundaryMoved gives up without asking the node.
RewindsToTheFork ==
    [][Running /\ HasCursor /\ cursor'.head < cursor.head
          => /\ \A n \in Covered' : IsOnChain(blocks[n], canon)
             /\ \A n \in Covered \ Covered' :
                   IsOnChain(blocks[n], canon) => n = cursor.head /\ job.after = "replan"]_vars

\* What a reader can be served: each covered block and the logs stored for it.
Served == [n \in Covered |-> [block |-> blocks[n], logs |-> {l.hash : l \in {r \in logs : r.n = n}}]]
Promise == INSTANCE CoveredChain WITH served <- Served
\* Readers see one chain that is extended, or cut back, and never altered:
\* WriteRange and Rewind are all that ingestion does to the tables.
ImplementsCoveredChain == Promise!Spec

\* Some chain the node has had puts ConfirmationBlocks blocks on top of b.
WasConfirmed(b) ==
    \E t \in tips : IsOnChain(b, t) /\ Height(t) >= Height(b) + ConfirmationBlocks

\* A block is written only once it is ConfirmationBlocks deep (planRange).
WrittenOnceConfirmed == \A n \in Covered : WasConfirmed(blocks[n])

\* No process fills a larger gap than MaxCatchupBlocks, even one that a deep
\* reorg found in the received heads has just widened (checkCatchupBound, before
\* and after the heads are recorded).
CatchupIsBounded ==
    MaxCatchupBlocks > 0 /\ job.op \in {"metadata", "fetch", "recheck"}
        => tip - next + 1 <= MaxCatchupBlocks

-----------------------------------------------------------------------------
(***************************************************************************)
(* Liveness: once the chain has settled on a branch and faults have ended, *)
(* the warehouse comes to hold the confirmed part of that branch.          *)
(***************************************************************************)
Settled == canon \in Branches

LiveNext ==
    \/ NodeMoves \/ Start(0) \/ Receive \/ Step
    \/ ~live /\ HeadTimeout
    \/ ~Settled /\ (SubscriptionGoesSilent \/ Crash \/ OperatorRewind)

ReceiveTheTip == Receive /\ job' = [op |-> "record", batch |-> <<canon>>]

Fairness ==
    /\ WF_vars(NodeMoves /\ Parent(canon') = canon)
    /\ WF_vars(Start(0))
    /\ WF_vars(Step)
    /\ SF_vars(ReceiveTheTip)
    /\ WF_vars(~live /\ HeadTimeout)

LiveSpec == Init /\ [][LiveNext]_vars /\ Fairness

\* Everything confirmed is written, and everything written is canonical.  An
\* empty warehouse waits for the block it starts at to be confirmed.
CaughtUp ==
    IF HasCursor
    THEN /\ cursor.head >= Height(canon) - ConfirmationBlocks
         /\ \A n \in Covered : IsOnChain(blocks[n], canon)
    ELSE Running /\ next > Height(canon) - ConfirmationBlocks

\* The reorg reached below the coverage: an operator has to rebuild.
ForkBelowCoverage == HasCursor /\ ~IsOnChain(blocks[cursor.start], canon)

\* From some time on no head of an abandoned branch is delivered any more.
StaleHeadsEnd ==
    <>[][job.op = "wait" /\ job'.op = "record" => \A i \in DOMAIN job'.batch : IsOnChain(job'.batch[i], canon)]_vars

\* The service catches up with the branch that the chain has settled on, through
\* restarts, rewinds and retries: verifyResumePoint and the fork walk free it
\* from what it wrote of an abandoned branch.
EventuallyCaughtUp == StaleHeadsEnd => <>[](CaughtUp \/ ForkBelowCoverage)
=============================================================================
