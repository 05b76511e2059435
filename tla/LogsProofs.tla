----------------------------- MODULE LogsProofs -----------------------------
(***************************************************************************)
(* What holds of ingestion if the node never returns to a branch that it   *)
(* has left: covered blocks have all their logs (LogsAreComplete), and a   *)
(* running service cuts its coverage off at the fork (CutsAtTheFork).      *)
(*                                                                         *)
(* A block that had logs and is read without them was not canonical at the *)
(* log fetch.  Its header had been read, or announced, before; so the node *)
(* has left its branch (Gone) and the second read cannot find it again.    *)
(*                                                                         *)
(* A block that the fork walk has passed is gone for the same reason, and  *)
(* with it all covered blocks above, which descend from it.                *)
(***************************************************************************)
EXTENDS SubscriberPromises

(* A block of some chain that the node has had.                            *)
Seen(b) == \E t \in tips : IsOnChain(b, t)

(* A block of a chain that the node has left.                              *)
Gone(b) == Seen(b) /\ ~IsOnChain(b, canon)

HasRow(raw, n) == \E l \in raw : l.n = n

SeenHeads(hs) == \A n \in DOMAIN hs : Seen(hs[n])

SeenBatch ==
    job.op \in {"record", "reconcile", "fork"} => \A i \in DOMAIN job.batch : Seen(job.batch[i])

(* A block that has logs is in the answers so far, or gone; after the      *)
(* second read of its header it is in the answers or known to have moved.  *)
LogsRead ==
    /\ job.op = "fetch" =>
          \A n \in next..(job.k - 1) : HasRawLog(heads[n]) => HasRow(job.raw, n) \/ Gone(heads[n])
    /\ job.op = "recheck" =>
          \A n \in next..BatchEnd :
             HasRawLog(heads[n]) =>
                HasRow(job.raw, n) \/ n \in job.moved \/ (n \in job.todo /\ Gone(heads[n]))

LogsInv ==
    /\ LogsComplete
    /\ canon \in tips
    /\ SeenHeads(heads)
    /\ SeenBatch
    /\ LogsRead

(* What the node answers for a height is a block it has had.               *)
LEMMA HeadIsSeen ==
    ASSUME SubInv, canon \in tips, NEW n \in Nat, Known(n)
    PROVE  Seen(HeadByNumber(n)) /\ IsOnChain(HeadByNumber(n), canon)
  BY HeadIsCanonical DEF Seen

(* A block is canonical exactly when the node answers with it.             *)
LEMMA OnChainIsRead ==
    ASSUME SubInv, NEW b \in Block, NEW n \in Nat, Height(b) = n
    PROVE  IsOnChain(b, canon) <=> Known(n) /\ HeadByNumber(n) = b
<1>1. Len(b) \in Nat /\ Len(canon) \in Nat
  BY BlockIsPath DEF SubInv
<1> QED
  BY <1>1 DEF IsOnChain, Known, HeadByNumber, Height

(* Retained heads stay seen when a block of the node's chain is added, or  *)
(* heads are dropped.                                                      *)
LEMMA SeenPut ==
    ASSUME NEW hs, SeenHeads(hs), NEW n, NEW b, Seen(b)
    PROVE  SeenHeads(Put(hs, n, b))
  BY DEF SeenHeads, Put

LEMMA SeenDrop ==
    ASSUME NEW hs, SeenHeads(hs), NEW S
    PROVE  SeenHeads(Drop(hs, S))
  BY DEF SeenHeads, Drop, Restrict

(* A step of the process that leaves the tables alone and is not in the    *)
(* middle of reading logs.                                                 *)
LEMMA SeenStep ==
    ASSUME LogsInv, UNCHANGED <<nodeVars, storeVars>>,
           SeenHeads(heads'), SeenBatch', LogsRead'
    PROVE  LogsInv'
<1>1. LogsComplete' /\ (canon \in tips)'
  BY DEF LogsInv, LogsComplete, Covered, nodeVars, storeVars
<1>2. SeenHeads(heads)'
  BY DEF SeenHeads, Seen, nodeVars
<1> QED
  BY <1>1, <1>2 DEF LogsInv

LEMMA ExitLogs == LogsInv /\ Exit => LogsInv'
<1> SUFFICES ASSUME LogsInv, Exit PROVE LogsInv'
  OBVIOUS
<1>1. SeenHeads(heads') /\ SeenBatch' /\ LogsRead' /\ UNCHANGED <<nodeVars, storeVars>>
  BY DEF Exit, SeenHeads, NoHeads, SeenBatch, LogsRead
<1> QED
  BY <1>1, SeenStep

LEMMA FindForkPointLogs ==
    ASSUME LogsInv, NEW hs, SeenHeads(hs), NEW height, NEW after, NEW batch,
           \A i \in DOMAIN batch : Seen(batch[i]),
           FindForkPoint(hs, height, after, batch)
    PROVE  LogsInv'
<1>1. CASE height = 0
  BY <1>1, ExitLogs DEF FindForkPoint
<1>2. CASE height # 0
  <2>1. UNCHANGED <<nodeVars, storeVars>> /\ SeenHeads(heads')
    BY <1>2 DEF FindForkPoint
  <2>2. SeenBatch' /\ LogsRead'
    BY <1>2 DEF FindForkPoint, SeenBatch, LogsRead, Seen, nodeVars
  <2> QED
    BY <2>1, <2>2, SeenStep
<1> QED
  BY <1>1, <1>2

LEMMA NextHeadLogs ==
    ASSUME job.batch \in Seq(Block), job.batch # <<>>, \A i \in DOMAIN job.batch : Seen(job.batch[i]),
           UNCHANGED nodeVars, NextHead
    PROVE  SeenBatch' /\ LogsRead' /\ Seen(TheHead)
<1>1. Seen(TheHead)
  BY DEF TheHead
<1>2. CASE Len(job.batch) > 1
  <2>1. \A i \in DOMAIN Tail(job.batch) : Tail(job.batch)[i] = job.batch[i + 1] /\ i + 1 \in DOMAIN job.batch
    BY <1>2
  <2> QED
    BY <1>1, <1>2, <2>1 DEF NextHead, SeenBatch, LogsRead, Seen, nodeVars
<1>3. CASE ~(Len(job.batch) > 1)
  BY <1>1, <1>3 DEF NextHead, SeenBatch, LogsRead
<1> QED
  BY <1>2, <1>3

LEMMA FinishRecordLogs ==
    ASSUME SubInv, LogsInv, job.op \in {"record", "reconcile"},
           NEW hs, SeenHeads(hs), NEW stale, NEW replaced, FinishRecord(hs, stale, replaced)
    PROVE  LogsInv'
<1>1. job.batch \in Seq(Block) /\ job.batch # <<>> /\ \A i \in DOMAIN job.batch : Seen(job.batch[i])
  BY JobFields DEF SubInv, JobInv, LogsInv, SeenBatch
<1>2. NextHead /\ UNCHANGED <<nodeVars, storeVars>>
  BY DEF FinishRecord
<1>3. SeenBatch' /\ LogsRead' /\ Seen(TheHead)
  BY <1>1, <1>2, NextHeadLogs
<1> DEFINE n == TheHeight
           replaces == ~stale /\ n \in DOMAIN hs /\ hs[n] # TheHead
           fork == IF replaced THEN n - 1 ELSE n
           cut == IF replaced \/ replaces THEN UpTo(hs, fork) ELSE hs
<1>4. SeenHeads(UpTo(hs, fork))
  <2> HIDE DEF fork
  <2> QED BY SeenDrop DEF UpTo
<1>5. SeenHeads(cut)
  BY <1>4
<1>6. heads' = IF stale THEN cut ELSE Put(cut, n, TheHead)
  BY DEF FinishRecord
<1>7. SeenHeads(heads')
  <2> HIDE DEF cut, n
  <2>1. SeenHeads(Put(cut, n, TheHead))
    BY <1>3, <1>5, SeenPut
  <2> QED
    BY <1>5, <1>6, <2>1
<1> QED
  BY <1>2, <1>3, <1>7, SeenStep

LEMMA RetryLogs ==
    ASSUME LogsInv, NEW hs, SeenHeads(hs), NEW stale, Retry(hs, stale)
    PROVE  LogsInv'
<1>1. CASE job.attempt = BatchConsistencyAttempts
  BY <1>1, ExitLogs DEF Retry
<1>2. CASE job.attempt # BatchConsistencyAttempts
  <2>1. heads' = Drop(hs, stale) /\ UNCHANGED <<nodeVars, storeVars>>
    BY <1>2 DEF Retry
  <2>2. SeenHeads(Drop(hs, stale))
    BY SeenDrop
  <2>3. SeenBatch' /\ LogsRead'
    BY <1>2 DEF Retry, Attempt, SeenBatch, LogsRead
  <2> QED
    BY <2>1, <2>2, <2>3, SeenStep
<1> QED
  BY <1>1, <1>2

-----------------------------------------------------------------------------
(* When the node moves, what was gone stays gone: the new chain holds no   *)
(* block of a chain that was left.                                         *)
LEMMA GoneStays ==
    ASSUME ReturnsToBranch = FALSE, SubInv, NodeMoves
    PROVE  /\ \A b : Seen(b) => Seen(b)'
           /\ \A b \in Block : Gone(b) => Gone(b)'
<1>1. PICK c \in Block : NeverAbandoned(c) /\ canon' = c /\ tips' = tips \cup {c}
  BY DEF NodeMoves
<1>2. \A b : Seen(b) => Seen(b)'
  BY <1>1 DEF Seen, IsOnChain
<1>3. ASSUME NEW b \in Block, Gone(b) PROVE Gone(b)'
  <2>1. PICK t \in tips : IsOnChain(b, t)
    BY <1>3 DEF Gone, Seen
  <2>2. t \in Block /\ Height(b) \in Nat /\ Len(b) \in Nat /\ Len(c) \in Nat /\ Len(t) \in Nat
    BY BlockIsPath DEF SubInv
  <2>3. ~IsOnChain(b, c)
    <3> SUFFICES ASSUME IsOnChain(b, c) PROVE FALSE
      OBVIOUS
    <3>1. Height(b) \in 0..Lesser(Height(t), Height(c))
      BY <2>1, <2>2 DEF IsOnChain, Height, Lesser
    <3>2. BlockAt(t, Height(b)) = b /\ BlockAt(c, Height(b)) = b
      BY <2>1 DEF IsOnChain
    <3>3. IsOnChain(b, canon)
      BY <1>1, <3>1, <3>2 DEF NeverAbandoned
    <3> QED
      BY <1>3, <3>3 DEF Gone
  <2> QED
    BY <1>1, <1>2, <1>3, <2>3 DEF Gone, IsOnChain
<1> QED
  BY <1>2, <1>3

LEMMA NodeMovesLogs == ReturnsToBranch = FALSE /\ SubInv /\ LogsInv /\ NodeMoves => LogsInv'
<1> SUFFICES ASSUME ReturnsToBranch = FALSE, SubInv, LogsInv, NodeMoves PROVE LogsInv'
  OBVIOUS
<1>1. /\ canon' \in tips'
      /\ UNCHANGED <<live, storeVars, stream, job>>
  BY DEF NodeMoves
<1>2. \A b : Seen(b) => Seen(b)'
  BY GoneStays
<1>3. \A b \in Block : Gone(b) => Gone(b)'
  BY GoneStays
<1>4. LogsComplete'
  BY <1>1 DEF LogsInv, LogsComplete, storeVars, Covered
<1>5. SeenHeads(heads)' /\ SeenBatch'
  BY <1>1, <1>2 DEF LogsInv, SeenHeads, SeenBatch, stream
<1>6. LogsRead'
  <2>1. next' = next /\ heads' = heads /\ job' = job /\ BatchEnd' = BatchEnd
    BY <1>1 DEF stream, BatchEnd
  <2>2. job.op = "fetch" => next \in Nat /\ job.k \in next..BatchEnd /\ Held(next, BatchEnd) /\ BatchEnd \in Int
    BY JobFields, LimitsAssumption DEF SubInv, JobInv, BatchEnd, Lesser, InBatch
  <2>3. job.op = "fetch" => \A n \in next..(job.k - 1) : heads[n] \in Block
    BY <2>2 DEF Held, SubInv, GoodHeads
  <2>4. job.op = "recheck" => \A n \in next..BatchEnd : heads[n] \in Block
    BY DEF SubInv, JobInv, Held, GoodHeads
  <2>5. job.op = "fetch" =>
          \A n \in next..(job.k - 1) : HasRawLog(heads[n]) => HasRow(job.raw, n) \/ Gone(heads[n])'
    BY <1>3, <2>1, <2>3 DEF LogsInv, LogsRead
  <2>6. job.op = "recheck" =>
          \A n \in next..BatchEnd :
             HasRawLog(heads[n]) =>
                HasRow(job.raw, n) \/ n \in job.moved \/ (n \in job.todo /\ Gone(heads[n])')
    BY <1>3, <2>1, <2>4 DEF LogsInv, LogsRead
  <2> QED
    BY <2>1, <2>5, <2>6 DEF LogsRead, HasRow, HasRawLog
<1> QED
  BY <1>1, <1>4, <1>5, <1>6 DEF LogsInv

(* The ends of the process, and the steps that touch neither the tables    *)
(* nor the retained heads.                                                 *)
LEMMA QuietLogs ==
    LogsInv /\ (SubscriptionGoesSilent \/ Crash \/ HeadTimeout \/ ForkWalkFails) => LogsInv'
<1> SUFFICES ASSUME LogsInv, SubscriptionGoesSilent \/ Crash \/ HeadTimeout \/ ForkWalkFails
             PROVE  LogsInv'
  OBVIOUS
<1>1. CASE SubscriptionGoesSilent
  <2>1. SeenHeads(heads') /\ SeenBatch' /\ LogsRead' /\ UNCHANGED <<nodeVars, storeVars>>
    BY <1>1 DEF SubscriptionGoesSilent, LogsInv, SeenBatch, LogsRead, Seen, Gone, HasRow, HasRawLog,
                BatchEnd, stream, nodeVars
  <2> QED
    BY <2>1, SeenStep
<1>2. CASE Crash \/ HeadTimeout \/ ForkWalkFails
  BY <1>2, ExitLogs DEF Crash, HeadTimeout, ForkWalkFails
<1> QED
  BY <1>1, <1>2

LEMMA StartLogs ==
    ASSUME LogsInv, NEW sb, Start(sb)
    PROVE  LogsInv'
<1>1. SeenHeads(heads') /\ SeenBatch' /\ LogsRead' /\ UNCHANGED <<nodeVars, storeVars>>
  BY DEF Start, SeenHeads, NoHeads, SeenBatch, LogsRead
<1> QED
  BY <1>1, SeenStep

(* A rewind keeps every row of the blocks that stay covered.               *)
LEMMA RewindLogs ==
    ASSUME SubInv, LogsComplete, NEW to \in Nat, Rewind(to)
    PROVE  LogsComplete'
<1>1. /\ StoreSide' /\ cursor'.head = to
      /\ \A n \in DOMAIN blocks' : n \in DOMAIN blocks /\ n <= to /\ blocks'[n] = blocks[n]
  BY StoreRewind DEF SubInv
<1> SUFFICES ASSUME NEW n \in Covered', HasKeptLog(blocks'[n])
             PROVE  [n |-> n, hash |-> blocks'[n]] \in logs'
  BY DEF LogsComplete, HasKeptLog
<1>2. n \in Covered /\ n <= to /\ blocks'[n] = blocks[n]
  BY <1>1 DEF StoreSide, SubInv
<1>3. [n |-> n, hash |-> blocks[n]] \in logs
  BY <1>2 DEF LogsComplete, HasKeptLog
<1> QED
  BY <1>2, <1>3 DEF Rewind

LEMMA OperatorRewindLogs == SubInv /\ LogsInv /\ OperatorRewind => LogsInv'
<1> SUFFICES ASSUME SubInv, LogsInv, OperatorRewind PROVE LogsInv'
  OBVIOUS
<1>1. PICK to \in Covered : Rewind(to)
  BY DEF OperatorRewind
<1>2. to \in Nat
  BY DEF SubInv, StoreSide, StoreInv, StoreTypeOK, Coverage, Covered
<1>3. LogsComplete'
  BY <1>1, <1>2, RewindLogs DEF LogsInv
<1>4. job.op = "down" /\ job' = job /\ heads' = heads /\ canon' = canon /\ tips' = tips
  BY DEF OperatorRewind, stream, nodeVars
<1>5. SeenHeads(heads)' /\ SeenBatch' /\ LogsRead'
  BY <1>4 DEF LogsInv, SeenHeads, Seen, SeenBatch, LogsRead
<1> QED
  BY <1>3, <1>4, <1>5 DEF LogsInv

-----------------------------------------------------------------------------
LEMMA ForkWalkStepLogs == SubInv /\ LogsInv /\ ForkWalkStep => LogsInv'
<1> SUFFICES ASSUME SubInv, LogsInv, ForkWalkStep PROVE LogsInv'
  OBVIOUS
<1>1. job'.op = "fork" /\ job'.batch = job.batch /\ UNCHANGED <<nodeVars, storeVars, heads>>
  BY DEF ForkWalkStep, SubInv, JobInv, Job, stream
<1>2. SeenHeads(heads') /\ SeenBatch' /\ LogsRead'
  BY <1>1 DEF ForkWalkStep, LogsInv, SeenBatch, LogsRead, Seen, nodeVars
<1> QED
  BY <1>1, <1>2, SeenStep

LEMMA RecoverDeepReorgLogs == SubInv /\ LogsInv /\ RecoverDeepReorg => LogsInv'
<1> SUFFICES ASSUME SubInv, LogsInv, RecoverDeepReorg PROVE LogsInv'
  OBVIOUS
<1>1. /\ job.op = "fork" /\ Known(job.n) /\ Rewind(job.n)
      /\ heads' = [n \in {job.n} |-> HeadByNumber(job.n)]
      /\ job' = IF job.after = "record" THEN [op |-> "record", batch |-> job.batch]
                                        ELSE [op |-> "wait"]
      /\ canon' = canon /\ tips' = tips
  BY DEF RecoverDeepReorg, ForkWalkGoesOn, nodeVars
<1>2. job.n \in Nat
  BY <1>1, JobFields DEF SubInv, JobInv
<1>3. LogsComplete'
  BY <1>1, <1>2, RewindLogs DEF LogsInv
<1>4. Seen(HeadByNumber(job.n))
  BY <1>1, <1>2, HeadIsSeen DEF LogsInv
<1>5. SeenHeads(heads)'
  BY <1>1, <1>4 DEF SeenHeads, Seen
<1>6. SeenBatch' /\ LogsRead'
  BY <1>1 DEF LogsInv, SeenBatch, LogsRead, Seen
<1> QED
  BY <1>1, <1>3, <1>5, <1>6 DEF LogsInv

LEMMA VerifyResumePointLogs == SubInv /\ LogsInv /\ VerifyResumePoint => LogsInv'
<1> SUFFICES ASSUME SubInv, LogsInv, VerifyResumePoint PROVE LogsInv'
  OBVIOUS
<1>1. CASE job' = [op |-> "wait"] /\ UNCHANGED <<nodeVars, live, storeVars, stream>>
  <2>1. SeenHeads(heads') /\ SeenBatch' /\ LogsRead' /\ UNCHANGED <<nodeVars, storeVars>>
    BY <1>1 DEF LogsInv, SeenBatch, LogsRead, stream
  <2> QED
    BY <2>1, SeenStep
<1>2. CASE Exit
  BY <1>2, ExitLogs
<1>3. CASE /\ next > 0 /\ Known(next - 1)
           /\ heads' = Put(heads, next - 1, HeadByNumber(next - 1))
           /\ job' = [op |-> "wait"]
           /\ UNCHANGED <<nodeVars, live, storeVars, next, lowerBound>>
  <2>1. next - 1 \in Nat
    BY <1>3 DEF SubInv
  <2>2. Seen(HeadByNumber(next - 1)) /\ SeenHeads(heads)
    BY <1>3, <2>1, HeadIsSeen DEF LogsInv
  <2>3. SeenHeads(heads')
    BY <1>3, <2>2, SeenPut
  <2>4. SeenBatch' /\ LogsRead'
    BY <1>3 DEF SeenBatch, LogsRead
  <2> QED
    BY <1>3, <2>3, <2>4, SeenStep
<1>4. CASE FindForkPoint(heads, next - 1, "resume", <<>>)
  <2>1. SeenHeads(heads) /\ \A i \in DOMAIN <<>> : Seen(<<>>[i])
    BY DEF LogsInv
  <2> QED
    BY <1>4, <2>1, FindForkPointLogs
<1> QED
  BY <1>1, <1>2, <1>3, <1>4 DEF VerifyResumePoint

-----------------------------------------------------------------------------
LEMMA ReceiveLogs == SubInv /\ LogsInv /\ Receive => LogsInv'
<1> SUFFICES ASSUME SubInv, LogsInv, Receive PROVE LogsInv'
  OBVIOUS
<1>1. PICK hs \in QueuedHeads :
          IF CatchupTooLarge(Highest(hs))
          THEN Exit
          ELSE /\ job' = [op |-> "record", batch |-> hs]
               /\ UNCHANGED <<nodeVars, live, storeVars, stream>>
  BY DEF Receive
<1>2. CASE Exit
  BY <1>2, ExitLogs
<1>3. CASE ~Exit
  <2>1. job' = [op |-> "record", batch |-> hs] /\ UNCHANGED <<nodeVars, live, storeVars, stream>>
    BY <1>1, <1>3
  <2>2. \A t \in tips : Seen(t)
    <3> SUFFICES ASSUME NEW t \in tips PROVE Seen(t)
      OBVIOUS
    <3>1. t \in Seq(Label) /\ Len(t) \in Nat /\ SubSeq(t, 1, Len(t)) = t
      BY BlockIsPath DEF SubInv
    <3>2. IsOnChain(t, t)
      BY <3>1 DEF IsOnChain, BlockAt, Height
    <3> QED
      BY <3>2 DEF Seen
  <2>3. \A i \in DOMAIN hs : hs[i] \in tips
    BY DEF QueuedHeads
  <2>4. SeenHeads(heads') /\ SeenBatch' /\ LogsRead'
    BY <2>1, <2>2, <2>3 DEF LogsInv, SeenBatch, LogsRead, Seen, nodeVars, stream
  <2> QED
    BY <2>1, <2>4, SeenStep
<1> QED
  BY <1>2, <1>3

(* The heads of a batch that is being recorded.                            *)
LEMMA BatchIsSeen ==
    ASSUME SubInv, LogsInv, job.op \in {"record", "reconcile"}
    PROVE  job.batch \in Seq(Block) /\ job.batch # <<>> /\ \A i \in DOMAIN job.batch : Seen(job.batch[i])
  BY JobFields DEF SubInv, JobInv, LogsInv, SeenBatch

LEMMA RecordLogs ==
    SubInv /\ LogsInv /\ (RecordIgnored \/ RecordWrittenHeight \/ RecordUnwrittenHeight \/ RecordFarHead)
        => LogsInv'
<1> SUFFICES ASSUME SubInv, LogsInv,
                    RecordIgnored \/ RecordWrittenHeight \/ RecordUnwrittenHeight \/ RecordFarHead
             PROVE  LogsInv'
  OBVIOUS
<1>1. job.op = "record"
  BY DEF RecordIgnored, RecordWrittenHeight, RecordUnwrittenHeight, RecordFarHead
<1>2. /\ job.batch \in Seq(Block) /\ job.batch # <<>> /\ \A i \in DOMAIN job.batch : Seen(job.batch[i])
      /\ SeenHeads(heads)
  BY <1>1, BatchIsSeen DEF LogsInv
<1>3. CASE Exit
  BY <1>3, ExitLogs
<1>4. CASE NextHead /\ UNCHANGED <<nodeVars, live, storeVars, stream>>
  <2>1. SeenBatch' /\ LogsRead' /\ heads' = heads
    BY <1>2, <1>4, NextHeadLogs DEF stream
  <2> QED
    BY <1>2, <1>4, <2>1, SeenStep
<1>5. CASE FindForkPoint(heads, TheHeight, "record", job.batch)
  <2> HIDE DEF TheHeight
  <2> QED BY <1>2, <1>5, FindForkPointLogs
<1>6. CASE FinishRecord(heads, FALSE, FALSE)
  BY <1>1, <1>2, <1>6, FinishRecordLogs
<1>7. CASE FinishRecord(heads, HeadByNumber(TheHeight) # TheHead, FALSE)
  BY <1>1, <1>2, <1>7, FinishRecordLogs
<1>8. CASE /\ job' = [op |-> "reconcile", batch |-> job.batch, k |-> TheHeight - 1,
                      expected |-> Parent(TheHead), replaced |-> FALSE]
           /\ UNCHANGED <<nodeVars, live, storeVars, stream>>
  <2>1. SeenHeads(heads') /\ SeenBatch' /\ LogsRead' /\ UNCHANGED <<nodeVars, storeVars>>
    BY <1>2, <1>8 DEF SeenBatch, LogsRead, Seen, nodeVars, stream
  <2> QED
    BY <2>1, SeenStep
<1> QED
  BY <1>3, <1>4, <1>5, <1>6, <1>7, <1>8
     DEF RecordIgnored, RecordWrittenHeight, RecordUnwrittenHeight, RecordFarHead

LEMMA ReconcileLogs == SubInv /\ LogsInv /\ (ReconcileEnds \/ ReconcileFetch) => LogsInv'
<1> SUFFICES ASSUME SubInv, LogsInv, ReconcileEnds \/ ReconcileFetch PROVE LogsInv'
  OBVIOUS
<1> DEFINE k == job.k
           differs == k \in DOMAIN heads /\ heads[k] # HeadByNumber(k)
           replaced == job.replaced \/ differs
           hs == Put(heads, k, HeadByNumber(k))
<1>1. job.op = "reconcile"
  BY DEF ReconcileEnds, ReconcileFetch
<1>2. /\ job.batch \in Seq(Block) /\ job.batch # <<>> /\ \A i \in DOMAIN job.batch : Seen(job.batch[i])
      /\ SeenHeads(heads) /\ k \in Nat
  BY <1>1, BatchIsSeen, JobFields DEF LogsInv, SubInv, JobInv
<1>3. CASE Exit
  BY <1>3, ExitLogs
<1>4. CASE FinishRecord(heads, FALSE, job.replaced)
  BY <1>1, <1>2, <1>4, FinishRecordLogs
<1>5. CASE FindForkPoint(heads, k, "record", job.batch)
  <2> HIDE DEF k
  <2> QED BY <1>2, <1>5, FindForkPointLogs
<1>6. CASE /\ Known(k)
           /\ IF HeadByNumber(k) = job.expected /\ k > 0
              THEN /\ heads' = hs
                   /\ job' = [job EXCEPT !.k = k - 1, !.replaced = replaced,
                                         !.expected = Parent(HeadByNumber(k))]
                   /\ UNCHANGED <<nodeVars, live, storeVars, next, lowerBound, tip>>
              ELSE FinishRecord(hs, HeadByNumber(k) # job.expected, replaced)
  <2>1. Seen(HeadByNumber(k))
    <3> HIDE DEF k
    <3> QED BY <1>2, <1>6, HeadIsSeen DEF LogsInv
  <2>2. SeenHeads(hs)
    <3> HIDE DEF k
    <3> QED BY <1>2, <2>1, SeenPut
  <2>3. CASE HeadByNumber(k) = job.expected /\ k > 0
    <3>1. /\ heads' = hs
          /\ job' = [job EXCEPT !.k = k - 1, !.replaced = replaced,
                                !.expected = Parent(HeadByNumber(k))]
          /\ UNCHANGED <<nodeVars, live, storeVars, next, lowerBound, tip>>
      BY <1>6, <2>3
    <3>2. job'.op = "reconcile" /\ job'.batch = job.batch
      <4> HIDE DEF k, replaced
      <4> QED BY <1>1, <3>1 DEF SubInv, JobInv, Job
    <3>3. SeenBatch' /\ LogsRead'
      BY <1>2, <3>1, <3>2 DEF SeenBatch, LogsRead, Seen, nodeVars
    <3> QED
      <4> HIDE DEF hs
      <4> QED BY <2>2, <3>1, <3>3, SeenStep
  <2>4. CASE ~(HeadByNumber(k) = job.expected /\ k > 0)
    <3>1. FinishRecord(hs, HeadByNumber(k) # job.expected, replaced)
      BY <1>6, <2>4
    <3> HIDE DEF hs, replaced
    <3> QED
      BY <1>1, <2>2, <3>1, FinishRecordLogs
  <2> QED
    BY <2>3, <2>4
<1> QED
  BY <1>3, <1>4, <1>5, <1>6 DEF ReconcileEnds, ReconcileFetch

-----------------------------------------------------------------------------
LEMMA PlanRangeLogs == SubInv /\ LogsInv /\ PlanRange => LogsInv'
<1> SUFFICES ASSUME SubInv, LogsInv, PlanRange PROVE LogsInv'
  OBVIOUS
<1> DEFINE to == ConfirmedHeight
<1>1. CASE Exit
  BY <1>1, ExitLogs
<1>2. CASE job' = [op |-> "wait"] /\ UNCHANGED <<nodeVars, live, storeVars, stream>>
  <2>1. SeenHeads(heads') /\ SeenBatch' /\ LogsRead' /\ UNCHANGED <<nodeVars, storeVars>>
    BY <1>2 DEF LogsInv, SeenBatch, LogsRead, stream
  <2> QED
    BY <2>1, SeenStep
<1>3. CASE /\ to >= next
           /\ to \in DOMAIN heads \/ Known(to)
           /\ heads' = IF to \in DOMAIN heads THEN heads ELSE Put(heads, to, HeadByNumber(to))
           /\ job' = Attempt(to, 1, next)
           /\ UNCHANGED <<nodeVars, live, storeVars, next, lowerBound, tip>>
  <2>1. to \in Nat
    BY <1>3, ConfigAssumption DEF SubInv, ConfirmedHeight
  <2>2. SeenBatch' /\ LogsRead'
    BY <1>3 DEF Attempt, SeenBatch, LogsRead
  <2>3. SeenHeads(heads')
    <3> HIDE DEF to
    <3>1. CASE to \in DOMAIN heads
      BY <1>3, <3>1 DEF LogsInv
    <3>2. CASE to \notin DOMAIN heads
      <4>1. Seen(HeadByNumber(to)) /\ SeenHeads(heads)
        BY <1>3, <2>1, <3>2, HeadIsSeen DEF LogsInv
      <4>2. SeenHeads(Put(heads, to, HeadByNumber(to)))
        BY <4>1, SeenPut
      <4> QED
        BY <1>3, <3>2, <4>2
    <3> QED
      BY <3>1, <3>2
  <2> QED
    BY <1>3, <2>2, <2>3, SeenStep
<1> QED
  BY <1>1, <1>2, <1>3 DEF PlanRange

LEMMA ReanchorLogs == SubInv /\ LogsInv /\ Reanchor => LogsInv'
<1> SUFFICES ASSUME SubInv, LogsInv, Reanchor PROVE LogsInv'
  OBVIOUS
<1>1. CASE Exit
  BY <1>1, ExitLogs
<1>2. CASE ~Exit
  <2>1. /\ Known(next - 1)
        /\ heads' = Put(Drop(heads, next..tip), next - 1, HeadByNumber(next - 1))
        /\ job' = [op |-> "wait"]
        /\ UNCHANGED <<nodeVars, storeVars>>
    BY <1>2 DEF Reanchor
  <2>2. next - 1 \in Nat
    BY DEF Reanchor, SubInv, JobInv
  <2>3. Seen(HeadByNumber(next - 1)) /\ SeenHeads(heads)
    BY <2>1, <2>2, HeadIsSeen DEF LogsInv
  <2>4. SeenHeads(heads')
    <3> DEFINE hs == Drop(heads, next..tip)
    <3>1. SeenHeads(hs)
      BY <2>3, SeenDrop
    <3>2. heads' = Put(hs, next - 1, HeadByNumber(next - 1))
      BY <2>1
    <3> HIDE DEF hs
    <3> QED
      BY <2>3, <3>1, <3>2, SeenPut
  <2>5. SeenBatch' /\ LogsRead'
    BY <2>1 DEF SeenBatch, LogsRead
  <2> QED
    BY <2>1, <2>4, <2>5, SeenStep
<1> QED
  BY <1>1, <1>2

LEMMA BlockMetadataLogs == SubInv /\ LogsInv /\ BlockMetadata => LogsInv'
<1> SUFFICES ASSUME SubInv, LogsInv, BlockMetadata PROVE LogsInv'
  OBVIOUS
<1> DEFINE k == job.k
           head == IF k \in DOMAIN heads THEN heads[k] ELSE HeadByNumber(k)
           hs == Put(heads, k, head)
<1>1. job.op = "metadata" /\ k \in Nat /\ next \in Nat /\ SeenHeads(heads) /\ job \in Job
  BY JobFields DEF BlockMetadata, SubInv, JobInv, LogsInv
<1>2. CASE Exit
  BY <1>2, ExitLogs
<1>3. CASE k \in DOMAIN heads \/ Known(k)
  <2>1. Seen(head)
    BY <1>1, <1>3, HeadIsSeen DEF LogsInv, SeenHeads
  <2>2. SeenHeads(hs)
    <3> HIDE DEF k, head
    <3> QED BY <1>1, <2>1, SeenPut
  <2> HIDE DEF hs
  <2>3. CASE /\ heads' = hs
             /\ job' = IF k < BatchEnd
                       THEN [job EXCEPT !.k = k + 1]
                       ELSE [op |-> "fetch", to |-> job.to, attempt |-> job.attempt,
                             k |-> next, raw |-> {}]
             /\ UNCHANGED <<nodeVars, live, storeVars, next, lowerBound, tip>>
    <3>1. CASE job' = [job EXCEPT !.k = k + 1]
      <4>1. job'.op = "metadata"
        BY <1>1, <3>1 DEF Job
      <4>2. SeenBatch' /\ LogsRead'
        BY <4>1 DEF SeenBatch, LogsRead
      <4> QED
        BY <2>2, <2>3, <4>2, SeenStep
    <3>2. CASE job' = [op |-> "fetch", to |-> job.to, attempt |-> job.attempt, k |-> next, raw |-> {}]
      <4>1. SeenBatch' /\ LogsRead'
        BY <1>1, <2>3, <3>2 DEF SeenBatch, LogsRead
      <4> QED
        BY <2>2, <2>3, <4>1, SeenStep
    <3> QED
      BY <2>3, <3>1, <3>2
  <2>4. CASE BoundaryMoved(hs)
    <3>1. CASE FindForkPoint(hs, next - 1, "replan", <<>>)
      <4>1. \A i \in DOMAIN <<>> : Seen(<<>>[i])
        OBVIOUS
      <4> QED
        BY <2>2, <3>1, <4>1, FindForkPointLogs
    <3>2. CASE heads' = hs /\ job' = [op |-> "reanchor"] /\ UNCHANGED <<nodeVars, live, storeVars, next, lowerBound, tip>>
      <4>1. SeenBatch' /\ LogsRead'
        BY <3>2 DEF SeenBatch, LogsRead
      <4> QED
        BY <2>2, <3>2, <4>1, SeenStep
    <3> QED
      BY <2>4, <3>1, <3>2 DEF BoundaryMoved
  <2>5. CASE Retry(hs, (k - 1)..BatchEnd)
    BY <2>2, <2>5, RetryLogs
  <2> QED
    <3> USE DEF hs
    <3> QED BY <1>2, <1>3, <2>3, <2>4, <2>5 DEF BlockMetadata
<1> QED
  BY <1>2, <1>3 DEF BlockMetadata

-----------------------------------------------------------------------------
(* One answer of eth_getLogs: a block of the window that has logs is in    *)
(* it, or is not canonical, and so gone.                                   *)
LEMMA AnswerOrGone ==
    ASSUME SubInv, LogsInv, NEW from \in Nat, NEW to \in Nat,
           NEW n \in from..to, n \in DOMAIN heads, HasRawLog(heads[n])
    PROVE  [n |-> n, hash |-> heads[n]] \in NodeLogs(from, to) \/ Gone(heads[n])
<1>1. heads[n] \in Block /\ Height(heads[n]) = n /\ n \in Nat /\ Seen(heads[n])
  BY DEF SubInv, GoodHeads, LogsInv, SeenHeads
<1>2. CASE IsOnChain(heads[n], canon)
  <2>1. Known(n) /\ HeadByNumber(n) = heads[n]
    BY <1>1, <1>2, OnChainIsRead
  <2> QED
    BY <2>1 DEF NodeLogs
<1>3. CASE ~IsOnChain(heads[n], canon)
  BY <1>1, <1>3 DEF Gone
<1> QED
  BY <1>2, <1>3

LEMMA FetchWindowLogs == SubInv /\ LogsInv /\ FetchWindow => LogsInv'
<1> SUFFICES ASSUME SubInv, LogsInv, FetchWindow PROVE LogsInv'
  OBVIOUS
<1>1. /\ job.op = "fetch" /\ job \in Job
      /\ next \in Nat /\ job.k \in Nat /\ job.k >= next /\ job.k <= BatchEnd /\ BatchEnd \in Nat
      /\ Held(next, BatchEnd)
  <2>1. job.op = "fetch" /\ InBatch
    BY DEF FetchWindow, InBatch
  <2>2. job.to \in Nat /\ next \in Nat /\ job.k \in Nat /\ job.k \in next..BatchEnd
        /\ job.to >= next /\ Held(next, BatchEnd) /\ job \in Job
    BY <2>1, JobFields DEF SubInv, JobInv
  <2>3. BatchEnd \in Nat
    BY <2>2, LimitsAssumption DEF BatchEnd, Lesser
  <2> QED
    BY <2>1, <2>2, <2>3
<1>2. PICK w \in job.k..BatchEnd :
        \E omitted \in IF OmitsBlockHash THEN BOOLEAN ELSE {FALSE} :
          LET answer == {IF omitted THEN [l EXCEPT !.hash = NoHash] ELSE l : l \in NodeLogs(job.k, w)}
              raw == job.raw \cup answer
          IN  \/ /\ w < BatchEnd
                 /\ job' = [job EXCEPT !.k = w + 1, !.raw = raw]
                 /\ UNCHANGED <<nodeVars, live, storeVars, stream>>
              \/ w = BatchEnd /\ Disagreeing(raw) # {} /\ Retry(heads, Disagreeing(raw))
              \/ /\ w = BatchEnd /\ Disagreeing(raw) = {}
                 /\ job' = [op |-> "recheck", to |-> job.to, attempt |-> job.attempt,
                            raw |-> raw, todo |-> Logless(raw), moved |-> {}]
                 /\ UNCHANGED <<nodeVars, live, storeVars, stream>>
  BY DEF FetchWindow
<1>3. PICK omitted \in IF OmitsBlockHash THEN BOOLEAN ELSE {FALSE} :
          LET answer == {IF omitted THEN [l EXCEPT !.hash = NoHash] ELSE l : l \in NodeLogs(job.k, w)}
              raw == job.raw \cup answer
          IN  \/ /\ w < BatchEnd
                 /\ job' = [job EXCEPT !.k = w + 1, !.raw = raw]
                 /\ UNCHANGED <<nodeVars, live, storeVars, stream>>
              \/ w = BatchEnd /\ Disagreeing(raw) # {} /\ Retry(heads, Disagreeing(raw))
              \/ /\ w = BatchEnd /\ Disagreeing(raw) = {}
                 /\ job' = [op |-> "recheck", to |-> job.to, attempt |-> job.attempt,
                            raw |-> raw, todo |-> Logless(raw), moved |-> {}]
                 /\ UNCHANGED <<nodeVars, live, storeVars, stream>>
  BY <1>2
<1> DEFINE answer == {IF omitted THEN [l EXCEPT !.hash = NoHash] ELSE l : l \in NodeLogs(job.k, w)}
           raw == job.raw \cup answer
<1>4. \A n \in next..w : HasRawLog(heads[n]) => HasRow(raw, n) \/ Gone(heads[n])
  <2> SUFFICES ASSUME NEW n \in next..w, HasRawLog(heads[n]), ~Gone(heads[n])
               PROVE  HasRow(raw, n)
    OBVIOUS
  <2>0. n \in Nat /\ n \in DOMAIN heads /\ w \in Nat
    BY <1>1 DEF Held
  <2>1. CASE n < job.k
    <3>1. HasRow(job.raw, n)
      BY <1>1, <2>0, <2>1 DEF LogsInv, LogsRead
    <3> QED
      <4> HIDE DEF answer
      <4> QED BY <3>1 DEF HasRow
  <2>2. CASE ~(n < job.k)
    <3>1. n \in job.k..w
      BY <1>1, <2>0, <2>2
    <3>2. [n |-> n, hash |-> heads[n]] \in NodeLogs(job.k, w)
      BY <1>1, <2>0, <3>1, AnswerOrGone
    <3> DEFINE l == [n |-> n, hash |-> heads[n]]
    <3>3. (IF omitted THEN [l EXCEPT !.hash = NoHash] ELSE l) \in answer
      BY <3>2
    <3>4. (IF omitted THEN [l EXCEPT !.hash = NoHash] ELSE l).n = n
      OBVIOUS
    <3> HIDE DEF answer
    <3> QED
      BY <3>3, <3>4 DEF HasRow
  <2> QED
    BY <2>1, <2>2
<1> HIDE DEF raw
<1>5. CASE w < BatchEnd /\ job' = [job EXCEPT !.k = w + 1, !.raw = raw] /\ UNCHANGED <<nodeVars, live, storeVars, stream>>
  <2>1. job'.op = "fetch" /\ job'.k = w + 1 /\ job'.raw = raw
    BY <1>1, <1>5 DEF Job
  <2>2. (w + 1) - 1 = w /\ next' = next /\ heads' = heads /\ canon' = canon /\ tips' = tips
    BY <1>1, <1>5 DEF stream, nodeVars
  <2>3. SeenBatch' /\ LogsRead'
    BY <1>4, <2>1, <2>2 DEF SeenBatch, LogsRead, HasRow, HasRawLog, Gone, Seen
  <2> QED
    BY <1>5, <2>2, <2>3, SeenStep DEF LogsInv
<1>6. CASE Retry(heads, Disagreeing(raw))
  <2>1. SeenHeads(heads)
    BY DEF LogsInv
  <2> QED
    BY <1>6, <2>1, RetryLogs
<1>7. CASE /\ w = BatchEnd
           /\ job' = [op |-> "recheck", to |-> job.to, attempt |-> job.attempt,
                      raw |-> raw, todo |-> Logless(raw), moved |-> {}]
           /\ UNCHANGED <<nodeVars, live, storeVars, stream>>
  <2>1. BatchEnd' = BatchEnd /\ next' = next /\ heads' = heads /\ canon' = canon /\ tips' = tips
    BY <1>7 DEF BatchEnd, stream, nodeVars
  <2>2. \A n \in next..BatchEnd : ~HasRow(raw, n) => n \in Logless(raw)
    BY DEF HasRow, Logless
  <2>3. \A n \in next..BatchEnd :
           HasRawLog(heads[n]) => HasRow(raw, n) \/ (n \in Logless(raw) /\ Gone(heads[n]))
    BY <1>4, <1>7, <2>2
  <2>4. SeenBatch' /\ LogsRead'
    BY <1>7, <2>1, <2>3 DEF SeenBatch, LogsRead, HasRow, HasRawLog, Gone, Seen
  <2> QED
    BY <1>7, <2>1, <2>4, SeenStep DEF LogsInv
<1> QED
  <2> USE DEF raw
  <2> QED BY <1>3, <1>5, <1>6, <1>7

(* A gone block is not found again, so the second read tells it moved.     *)
LEMMA RecheckBlockLogs == SubInv /\ LogsInv /\ RecheckBlock => LogsInv'
<1> SUFFICES ASSUME SubInv, LogsInv, RecheckBlock PROVE LogsInv'
  OBVIOUS
<1> DEFINE n == CHOOSE m \in job.todo : \A o \in job.todo : m <= o
<1>1. /\ job.op = "recheck" /\ job \in Job /\ Held(next, BatchEnd)
      /\ job.todo \subseteq next..BatchEnd /\ job.todo \subseteq Nat
  BY JobFields DEF RecheckBlock, SubInv, JobInv
<1>2. CASE Exit
  BY <1>2, ExitLogs
<1>3. CASE /\ Known(n)
           /\ job' = [job EXCEPT !.todo = @ \ {n},
                                 !.moved = IF HeadByNumber(n) = heads[n] THEN @ ELSE @ \cup {n}]
           /\ UNCHANGED <<nodeVars, live, storeVars, stream>>
  <2> HIDE DEF n
  <2>1. /\ job'.op = "recheck" /\ job'.to = job.to /\ job'.raw = job.raw
        /\ job'.todo = job.todo \ {n}
        /\ job'.moved = IF HeadByNumber(n) = heads[n] THEN job.moved ELSE job.moved \cup {n}
    BY <1>1, <1>3 DEF Job
  <2>2. BatchEnd' = BatchEnd /\ next' = next /\ heads' = heads /\ canon' = canon /\ tips' = tips
    BY <1>3, <2>1 DEF BatchEnd, stream, nodeVars
  <2>3. n \in job.todo /\ HeadByNumber(n) = heads[n] => ~Gone(heads[n])
    <3> SUFFICES ASSUME n \in job.todo, HeadByNumber(n) = heads[n]
                 PROVE  IsOnChain(heads[n], canon)
      BY DEF Gone
    <3>1. n \in Nat /\ heads[n] \in Block /\ Height(heads[n]) = n
      BY <1>1 DEF Held, SubInv, GoodHeads
    <3> QED
      BY <1>3, <3>1, OnChainIsRead
  <2>4. \A m \in next..BatchEnd :
           HasRawLog(heads[m]) =>
              HasRow(job.raw, m) \/ m \in job'.moved \/ (m \in job'.todo /\ Gone(heads[m]))
    BY <1>1, <2>1, <2>3 DEF LogsInv, LogsRead
  <2>5. SeenBatch' /\ LogsRead'
    BY <2>1, <2>2, <2>4 DEF SeenBatch, LogsRead, HasRow, HasRawLog, Gone, Seen
  <2> QED
    BY <1>3, <2>2, <2>5, SeenStep DEF LogsInv
<1> QED
  BY <1>2, <1>3 DEF RecheckBlock

(* The batch that is written has a row for every block with stored logs.   *)
LEMMA WriteBatchLogs == SubInv /\ LogsInv /\ WriteBatch => LogsInv'
<1> SUFFICES ASSUME SubInv, LogsInv, WriteBatch PROVE LogsInv'
  OBVIOUS
<1>1. /\ job.op = "recheck" /\ job.todo = {} /\ job.moved = {}
      /\ WriteRange(next, BatchEnd, Metadata, Kept(job.raw))
      /\ heads' = Drop(heads, {n \in DOMAIN heads : n < BatchEnd})
      /\ job' = IF BatchEnd = job.to THEN [op |-> "wait"] ELSE Attempt(job.to, 1, next')
      /\ UNCHANGED nodeVars
  BY DEF WriteBatch, ReadyToWrite
<1>2. /\ next \in Nat /\ BatchEnd \in Nat /\ next <= BatchEnd
      /\ \A n \in next..BatchEnd : n \in DOMAIN heads
      /\ \A l \in job.raw : l.hash = heads[l.n] /\ l \in LogRow
  BY <1>1, ReadyBatch, JobFields DEF WriteBatch, SubInv, JobInv
<1>3. /\ \A n \in next..BatchEnd : blocks'[n] = heads[n]
      /\ \A n \in DOMAIN blocks \ (next..BatchEnd) : blocks'[n] = blocks[n]
      /\ \A l \in Kept(job.raw) : l \in logs'
      /\ \A l \in logs : l.n \notin next..BatchEnd => l \in logs'
  BY <1>1 DEF WriteRange, Metadata
<1>4. DOMAIN blocks' = Covered' /\ DOMAIN blocks = Covered
  BY WriteBatchInv DEF SubInv, StoreSide
<1>5. DOMAIN blocks' = DOMAIN blocks \cup next..BatchEnd
  BY <1>1 DEF WriteRange
<1>6. \A n \in next..BatchEnd : HasKeptLog(heads[n]) => [n |-> n, hash |-> heads[n]] \in Kept(job.raw)
  <2> SUFFICES ASSUME NEW n \in next..BatchEnd, HasKeptLog(heads[n])
               PROVE  [n |-> n, hash |-> heads[n]] \in Kept(job.raw)
    OBVIOUS
  <2>1. HasRawLog(heads[n])
    BY LabelsAssumption DEF HasKeptLog, HasRawLog
  <2>2. PICK l \in job.raw : l.n = n
    BY <1>1, <2>1 DEF LogsInv, LogsRead, HasRow
  <2>3. l = [n |-> n, hash |-> heads[n]]
    BY <1>2, <2>2 DEF LogRow
  <2> QED
    BY <2>2, <2>3 DEF Kept
<1>7. LogsComplete'
  <2> SUFFICES ASSUME NEW n \in Covered', HasKeptLog(blocks'[n])
               PROVE  [n |-> n, hash |-> blocks'[n]] \in logs'
    BY DEF LogsComplete, HasKeptLog
  <2>1. CASE n \in next..BatchEnd
    BY <1>3, <1>6, <2>1
  <2>2. CASE n \notin next..BatchEnd
    <3>1. n \in Covered /\ blocks'[n] = blocks[n]
      BY <1>3, <1>4, <1>5, <2>2
    <3>2. [n |-> n, hash |-> blocks[n]] \in logs
      BY <3>1 DEF LogsInv, LogsComplete
    <3> QED
      BY <1>3, <2>2, <3>1, <3>2
  <2> QED
    BY <2>1, <2>2
<1>8. SeenHeads(heads)'
  <2>1. SeenHeads(heads')
    BY <1>1, SeenDrop DEF LogsInv
  <2> QED
    BY <1>1, <2>1 DEF SeenHeads, Seen, nodeVars
<1>9. SeenBatch' /\ LogsRead'
  BY <1>1 DEF Attempt, SeenBatch, LogsRead
<1> QED
  BY <1>1, <1>7, <1>8, <1>9 DEF LogsInv, nodeVars

-----------------------------------------------------------------------------
(* What a backfill published has the logs of the chain it was read from.   *)
LEMMA InitLogs == Init => LogsInv
<1> SUFFICES ASSUME Init PROVE LogsInv
  OBVIOUS
<1>1. LogsComplete
  <2>1. CASE StoreInit
    BY <2>1 DEF StoreInit, NoCursor, LogsComplete, Covered
  <2>2. CASE \E start, head \in 0..(InitHeight - ConfirmationBlocks) :
               /\ start <= head
               /\ cursor = [start |-> start, head |-> head]
               /\ ChainRows(canon, start, head)
    BY <2>2 DEF ChainRows, LogsComplete, Covered
  <2> QED
    BY <2>1, <2>2 DEF Init
<1>2. canon \in tips /\ SeenHeads(heads) /\ SeenBatch /\ LogsRead
  BY DEF Init, SeenHeads, NoHeads, SeenBatch, LogsRead
<1> QED
  BY <1>1, <1>2 DEF LogsInv

(* Every step keeps the invariant.                                         *)
LEMMA NextLogs == ReturnsToBranch = FALSE /\ SubInv /\ LogsInv /\ [Next]_vars => LogsInv'
<1> SUFFICES ASSUME ReturnsToBranch = FALSE, SubInv, LogsInv, [Next]_vars PROVE LogsInv'
  OBVIOUS
<1>1. CASE NodeMoves
  BY <1>1, NodeMovesLogs
<1>2. CASE SubscriptionGoesSilent \/ Crash \/ HeadTimeout \/ ForkWalkFails
  BY <1>2, QuietLogs
<1>3. CASE \E sb \in {0, StartBlock} : Start(sb)
  BY <1>3, StartLogs
<1>4. CASE OperatorRewind \/ VerifyResumePoint \/ ForkWalkStep \/ RecoverDeepReorg
  BY <1>4, OperatorRewindLogs, VerifyResumePointLogs, ForkWalkStepLogs, RecoverDeepReorgLogs
<1>5. CASE Receive
  BY <1>5, ReceiveLogs
<1>6. CASE RecordIgnored \/ RecordWrittenHeight \/ RecordUnwrittenHeight \/ RecordFarHead
  BY <1>6, RecordLogs
<1>7. CASE ReconcileEnds \/ ReconcileFetch
  BY <1>7, ReconcileLogs
<1>8. CASE PlanRange \/ Reanchor \/ BlockMetadata
  BY <1>8, PlanRangeLogs, ReanchorLogs, BlockMetadataLogs
<1>9. CASE FetchWindow \/ RecheckBlock \/ WriteBatch
  BY <1>9, FetchWindowLogs, RecheckBlockLogs, WriteBatchLogs
<1>10. CASE RecheckFindsMove
  BY <1>10, RetryLogs DEF RecheckFindsMove, LogsInv
<1>11. CASE UNCHANGED vars
  BY <1>11 DEF vars, LogsInv, LogsComplete, Covered, SeenHeads, SeenBatch, LogsRead, Seen, Gone,
               HasRow, HasRawLog, BatchEnd
<1> QED
  BY <1>1, <1>2, <1>3, <1>4, <1>5, <1>6, <1>7, <1>8, <1>9, <1>10, <1>11 DEF Next, Step

(* The stored logs of every covered block are all its logs, provided that  *)
(* the node never returns to a branch it has left: the second read of      *)
(* recheckLoglessBlocks needs no more (and no less: see the run            *)
(* logless_return).                                                        *)
THEOREM LogsAreComplete == ReturnsToBranch = FALSE => (Spec => []LogsComplete)
<1>1. ReturnsToBranch = FALSE => (Spec => []LogsInv)
  <2>1. ASSUME ReturnsToBranch = FALSE
        PROVE  Spec => []LogsInv
    <3>1. SubInv /\ LogsInv /\ [Next]_vars => LogsInv'
      BY <2>1, NextLogs
    <3> QED
      BY <3>1, InitLogs, SubscriberInvariant, PTL DEF Spec
  <2> QED
    BY <2>1
<1>2. LogsInv => LogsComplete
  BY DEF LogsInv
<1> QED
  BY <1>1, <1>2, PTL

-----------------------------------------------------------------------------
(* Where a rewind stops.  What the fork walk has passed is gone, and stays *)
(* gone while it goes on, because the stored blocks are one chain.         *)

(* Every covered block is one the node has had.                            *)
StoredSeen == \A n \in Covered : Seen(blocks[n])

(* The covered blocks above the place of the walk have been replaced; the  *)
(* last of them perhaps not, if it is boundaryMoved that looks for a fork. *)
ForkWalked ==
    job.op = "fork" /\ Stored(job.n) =>
        \A m \in Covered :
            m > job.n => Gone(blocks[m]) \/ (m = cursor.head /\ job.after = "replan")

ForkInv == StoredSeen /\ ForkWalked

(* What the tables hold of a covered height.                               *)
LEMMA CoveredFields ==
    ASSUME StoreSide
    PROVE  /\ cursor.start \in Nat /\ cursor.head \in Nat
           /\ DOMAIN blocks = Covered
           /\ \A n \in Covered : /\ n \in Nat /\ blocks[n] \in Block /\ Height(blocks[n]) = n
                                 /\ n > cursor.start => Parent(blocks[n]) = blocks[n - 1]
           /\ Covered # {} => HasCursor
  BY DEF StoreSide, StoreInv, StoreTypeOK, StoreIsOneChain, Coverage, Covered, HasCursor, NoCursor

(* A block of the chain of an ancestor is one of the block's own chain.    *)
LEMMA AncestorAt ==
    ASSUME NEW b \in Block, NEW n \in Nat, NEW i \in Nat, i <= n, n <= Height(b)
    PROVE  BlockAt(BlockAt(b, n), i) = BlockAt(b, i)
<1>1. b \in Seq(Label) /\ n + 1 <= Len(b) /\ Len(b) \in Nat
  BY BlockIsPath DEF Height
<1> DEFINE a == SubSeq(b, 1, n + 1)
<1>2. a \in Seq(Label) /\ Len(a) = n + 1 /\ \A j \in 1..(n + 1) : a[j] = b[j]
  BY <1>1
<1> HIDE DEF a
<1>3. SubSeq(a, 1, i + 1) = SubSeq(b, 1, i + 1)
  BY <1>1, <1>2
<1> QED
  BY <1>3 DEF BlockAt, a

(* A covered block is on the chain of every covered block above it.        *)
LEMMA CoveredDescends ==
    ASSUME StoreSide, NEW i \in Covered, NEW j \in Covered, i <= j
    PROVE  BlockAt(blocks[j], i) = blocks[i]
<1> DEFINE Off == {n \in Covered : i <= n /\ n <= j /\ BlockAt(blocks[n], i) # blocks[i]}
<1> SUFFICES ASSUME Off # {} PROVE FALSE
  BY CoveredFields
<1>1. Off \in SUBSET Nat
  BY CoveredFields
<1>2. PICK n \in Off : \A o \in Off : n <= o
  <2> HIDE DEF Off
  <2> QED BY <1>1, LeastNat
<1>3. n \in Covered /\ i <= n /\ n <= j /\ BlockAt(blocks[n], i) # blocks[i]
  BY <1>2
<1>4. /\ n \in Nat /\ i \in Nat /\ blocks[n] \in Block /\ Height(blocks[n]) = n
      /\ Len(blocks[n]) = n + 1
  BY <1>3, CoveredFields, BlockIsPath DEF Height
<1>5. CASE n = i
  <2>1. SubSeq(blocks[n], 1, Len(blocks[n])) = blocks[n]
    BY <1>4, BlockIsPath
  <2> QED
    BY <1>3, <1>4, <1>5, <2>1 DEF BlockAt
<1>6. CASE n # i
  <2>1. n - 1 \in Covered /\ n > cursor.start /\ i <= n - 1 /\ n - 1 \in Nat
    BY <1>3, <1>4, <1>6, CoveredFields DEF Covered
  <2>2. blocks[n - 1] = BlockAt(blocks[n], n - 1)
    <3>1. Parent(blocks[n]) = blocks[n - 1]
      BY <1>3, <2>1, CoveredFields
    <3>2. Len(blocks[n]) - 1 = (n - 1) + 1
      BY <1>4
    <3> QED
      BY <3>1, <3>2 DEF Parent, BlockAt
  <2>3. BlockAt(blocks[n - 1], i) = BlockAt(blocks[n], i)
    BY <1>4, <2>1, <2>2, AncestorAt
  <2>4. n - 1 \in Off
    BY <1>3, <1>4, <2>1, <2>3
  <2> HIDE DEF Off
  <2> QED
    BY <1>2, <1>4, <2>4
<1> QED
  BY <1>5, <1>6

(* So if a covered block is canonical, every covered block below it is.    *)
LEMMA CanonicalBelow ==
    ASSUME SubInv, NEW i \in Covered, NEW j \in Covered, i <= j, IsOnChain(blocks[j], canon)
    PROVE  IsOnChain(blocks[i], canon)
<1>1. /\ i \in Nat /\ j \in Nat /\ blocks[i] \in Block /\ blocks[j] \in Block
      /\ Height(blocks[i]) = i /\ Height(blocks[j]) = j
  BY CoveredFields DEF SubInv
<1>2. BlockAt(blocks[j], i) = blocks[i]
  BY CoveredDescends DEF SubInv
<1>3. Known(j) /\ HeadByNumber(j) = blocks[j]
  BY <1>1, OnChainIsRead
<1>4. j <= Height(canon) /\ canon \in Block /\ Height(canon) \in Nat
  BY <1>3, BlockIsPath DEF Known, SubInv
<1>5. BlockAt(canon, i) = blocks[i]
  BY <1>1, <1>2, <1>3, <1>4, AncestorAt DEF HeadByNumber
<1> QED
  BY <1>1, <1>4, <1>5, OnChainIsRead DEF Known, HeadByNumber

-----------------------------------------------------------------------------
(* A step that leaves node and tables alone and enters no fork walk.       *)
LEMMA NoFork ==
    ASSUME ForkInv, UNCHANGED <<nodeVars, storeVars>>, job'.op # "fork" \/ job' = job
    PROVE  ForkInv'
<1>1. StoredSeen'
  BY DEF ForkInv, StoredSeen, Covered, Seen, nodeVars, storeVars
<1>2. ForkWalked'
  BY DEF ForkInv, ForkWalked, Stored, Covered, Gone, Seen, nodeVars, storeVars
<1> QED
  BY <1>1, <1>2 DEF ForkInv

LEMMA ExitFork == ForkInv /\ Exit => ForkInv'
  BY NoFork DEF Exit

(* A walk starts below a written height.  If its block is not canonical,   *)
(* no covered block above it is; else it is the last one, and boundaryMoved*)
(* has given it up.                                                        *)
LEMMA FindForkPointFork ==
    ASSUME SubInv, ForkInv, Running, NEW hs, NEW height \in Nat, NEW after, NEW batch,
           height < next,
           \/ height \in Covered => ~IsOnChain(blocks[height], canon)
           \/ height = cursor.head /\ after = "replan",
           FindForkPoint(hs, height, after, batch)
    PROVE  ForkInv'
<1>1. CASE height = 0
  BY <1>1, ExitFork DEF FindForkPoint
<1>2. CASE height # 0
  <2>1. /\ job'.op = "fork" /\ job'.n = height - 1 /\ job'.after = after
        /\ UNCHANGED <<nodeVars, storeVars>>
    BY <1>2 DEF FindForkPoint
  <2>2. StoredSeen'
    BY <2>1 DEF ForkInv, StoredSeen, Covered, Seen, nodeVars, storeVars
  <2>3. ForkWalked'
    <3> SUFFICES ASSUME Stored(height - 1), NEW m \in Covered, m > height - 1
                 PROVE  Gone(blocks[m]) \/ (m = cursor.head /\ after = "replan")
      BY <2>1 DEF ForkWalked, Stored, Covered, Gone, Seen, nodeVars, storeVars
    <3>1. /\ height - 1 \in Covered /\ HasCursor /\ m \in Nat
          /\ cursor.start \in Nat /\ cursor.head \in Nat
      BY CoveredFields DEF SubInv, Stored
    <3>2. next = cursor.head + 1
      BY <3>1 DEF SubInv
    <3>3. height \in Covered /\ height <= m /\ m <= cursor.head
      BY <3>1, <3>2 DEF Covered
    <3>4. CASE ~IsOnChain(blocks[height], canon)
      <4>1. ~IsOnChain(blocks[m], canon)
        BY <3>3, <3>4, CanonicalBelow
      <4> QED
        BY <4>1 DEF ForkInv, StoredSeen, Gone
    <3>5. CASE height = cursor.head /\ after = "replan"
      BY <3>1, <3>3, <3>5
    <3> QED
      BY <3>3, <3>4, <3>5
  <2> QED
    BY <2>2, <2>3 DEF ForkInv
<1> QED
  BY <1>1, <1>2

LEMMA NodeMovesFork == ReturnsToBranch = FALSE /\ SubInv /\ ForkInv /\ NodeMoves => ForkInv'
<1> SUFFICES ASSUME ReturnsToBranch = FALSE, SubInv, ForkInv, NodeMoves PROVE ForkInv'
  OBVIOUS
<1>1. UNCHANGED <<storeVars, job>>
  BY DEF NodeMoves
<1>2. /\ \A n \in Covered : blocks[n] \in Block
      /\ \A b : Seen(b) => Seen(b)'
      /\ \A b \in Block : Gone(b) => Gone(b)'
  BY GoneStays, CoveredFields DEF SubInv
<1>3. blocks' = blocks /\ cursor' = cursor /\ Covered' = Covered /\ job' = job
  BY <1>1 DEF storeVars, Covered
<1>4. StoredSeen'
  BY <1>2, <1>3 DEF ForkInv, StoredSeen
<1>5. ForkWalked'
  <2> SUFFICES ASSUME job.op = "fork", Stored(job.n), NEW m \in Covered, m > job.n
               PROVE  Gone(blocks[m])' \/ (m = cursor.head /\ job.after = "replan")
    BY <1>3 DEF ForkWalked, Stored
  <2>1. Gone(blocks[m]) \/ (m = cursor.head /\ job.after = "replan")
    BY DEF ForkInv, ForkWalked
  <2>2. Gone(blocks[m]) => Gone(blocks[m])'
    BY <1>2, <1>3
  <2> QED
    BY <2>1, <2>2
<1> QED
  BY <1>4, <1>5 DEF ForkInv

(* The walk goes on below a block that the node no longer has.             *)
LEMMA ForkWalkStepFork == SubInv /\ ForkInv /\ ForkWalkStep => ForkInv'
<1> SUFFICES ASSUME SubInv, ForkInv, ForkWalkStep PROVE ForkInv'
  OBVIOUS
<1>1. /\ job.op = "fork" /\ Stored(job.n) /\ Known(job.n) /\ HeadByNumber(job.n) # blocks[job.n]
      /\ job' = [job EXCEPT !.n = @ - 1] /\ UNCHANGED <<nodeVars, storeVars>>
      /\ job.n \in Nat /\ job \in Job
  BY JobFields DEF ForkWalkStep, ForkWalkGoesOn, IsAncestor, SubInv, JobInv
<1>2. job'.op = "fork" /\ job'.n = job.n - 1 /\ job'.after = job.after
  BY <1>1 DEF Job
<1>3. /\ job.n \in Covered /\ blocks[job.n] \in Block /\ Height(blocks[job.n]) = job.n
      /\ \A m \in Covered : m \in Nat
  BY <1>1, CoveredFields DEF Stored, SubInv
<1>4. ~IsOnChain(blocks[job.n], canon)
  BY <1>1, <1>3, OnChainIsRead
<1>5. Gone(blocks[job.n])
  BY <1>3, <1>4 DEF ForkInv, StoredSeen, Gone
<1>6. \A m \in Covered :
         m > job.n - 1 => Gone(blocks[m]) \/ (m = cursor.head /\ job.after = "replan")
  BY <1>1, <1>3, <1>5 DEF ForkInv, ForkWalked
<1>7. StoredSeen'
  BY <1>1 DEF ForkInv, StoredSeen, Covered, Seen, nodeVars, storeVars
<1>8. ForkWalked'
  BY <1>1, <1>2, <1>6 DEF ForkWalked, Covered, Gone, Seen, nodeVars, storeVars
<1> QED
  BY <1>7, <1>8 DEF ForkInv

(* A rewind of a running service or of the operator.                       *)
LEMMA RewindFork ==
    ASSUME SubInv, ForkInv, NEW to \in Nat, Rewind(to), UNCHANGED nodeVars, job'.op # "fork"
    PROVE  ForkInv'
<1>1. /\ StoreSide'
      /\ \A n \in DOMAIN blocks' : n \in DOMAIN blocks /\ blocks'[n] = blocks[n]
  BY StoreRewind DEF SubInv
<1>2. DOMAIN blocks = Covered /\ (DOMAIN blocks)' = Covered'
  BY <1>1 DEF SubInv, StoreSide
<1>3. StoredSeen'
  BY <1>1, <1>2 DEF ForkInv, StoredSeen, Seen, nodeVars
<1> QED
  BY <1>3 DEF ForkInv, ForkWalked

LEMMA WriteBatchFork == SubInv /\ LogsInv /\ ForkInv /\ WriteBatch => ForkInv'
<1> SUFFICES ASSUME SubInv, LogsInv, ForkInv, WriteBatch PROVE ForkInv'
  OBVIOUS
<1>1. /\ WriteRange(next, BatchEnd, Metadata, Kept(job.raw))
      /\ job' = IF BatchEnd = job.to THEN [op |-> "wait"] ELSE Attempt(job.to, 1, next')
      /\ UNCHANGED nodeVars
  BY DEF WriteBatch
<1>2. \A n \in next..BatchEnd : n \in DOMAIN heads
  BY ReadyBatch DEF WriteBatch, SubInv
<1>3. /\ DOMAIN blocks' = DOMAIN blocks \cup next..BatchEnd
      /\ \A n \in next..BatchEnd : blocks'[n] = heads[n]
      /\ \A n \in DOMAIN blocks \ (next..BatchEnd) : blocks'[n] = blocks[n]
  BY <1>1 DEF WriteRange, Metadata
<1>4. DOMAIN blocks' = Covered' /\ DOMAIN blocks = Covered
  BY WriteBatchInv DEF SubInv, StoreSide
<1>5. \A n \in Covered' : Seen(blocks'[n])
  BY <1>2, <1>3, <1>4 DEF ForkInv, StoredSeen, LogsInv, SeenHeads
<1>6. StoredSeen'
  BY <1>1, <1>5 DEF StoredSeen, Seen, nodeVars
<1> QED
  BY <1>1, <1>6 DEF ForkInv, ForkWalked, Attempt

-----------------------------------------------------------------------------
(* The four places that look for a fork.  All but boundaryMoved have just  *)
(* found that the block they start from is not the node's.                 *)
LEMMA VerifyResumePointFork == SubInv /\ ForkInv /\ VerifyResumePoint => ForkInv'
<1> SUFFICES ASSUME SubInv, ForkInv, VerifyResumePoint PROVE ForkInv'
  OBVIOUS
<1>1. job.op = "resume" /\ next \in Nat
  BY DEF VerifyResumePoint, SubInv
<1>2. CASE job' = [op |-> "wait"] /\ UNCHANGED <<nodeVars, storeVars>>
  BY <1>2, NoFork
<1>3. CASE Exit
  BY <1>3, ExitFork
<1>4. CASE /\ next > 0 /\ Known(next - 1) /\ ~ResumeAgrees(next - 1)
           /\ FindForkPoint(heads, next - 1, "resume", <<>>)
  <2>1. next - 1 \in Nat /\ next - 1 < next /\ Running
    BY <1>1, <1>4 DEF Running
  <2>2. next - 1 \in Covered => ~IsOnChain(blocks[next - 1], canon)
    BY <1>4, CoveredFields, OnChainIsRead DEF ResumeAgrees, SubInv
  <2> QED
    BY <1>4, <2>1, <2>2, FindForkPointFork
<1> QED
  BY <1>2, <1>3, <1>4 DEF VerifyResumePoint

LEMMA RecordFork ==
    SubInv /\ ForkInv /\ (RecordIgnored \/ RecordWrittenHeight \/ RecordUnwrittenHeight \/ RecordFarHead)
        => ForkInv'
<1> SUFFICES ASSUME SubInv, ForkInv,
                    RecordIgnored \/ RecordWrittenHeight \/ RecordUnwrittenHeight \/ RecordFarHead
             PROVE  ForkInv'
  OBVIOUS
<1>1. job.op = "record" /\ job.batch \in Seq(Block) /\ job.batch # <<>>
  BY JobFields DEF RecordIgnored, RecordWrittenHeight, RecordUnwrittenHeight, RecordFarHead, SubInv, JobInv
<1>2. CASE Exit
  BY <1>2, ExitFork
<1>3. CASE NextHead /\ UNCHANGED <<nodeVars, storeVars>>
  BY <1>3, NoFork, Endings
<1>4. CASE \E hs, st, rep : FinishRecord(hs, st, rep)
  <2>1. NextHead /\ UNCHANGED <<nodeVars, storeVars>>
    BY <1>4 DEF FinishRecord
  <2> QED
    BY <2>1, NoFork, Endings
<1>5. CASE /\ job' = [op |-> "reconcile", batch |-> job.batch, k |-> TheHeight - 1,
                      expected |-> Parent(TheHead), replaced |-> FALSE]
           /\ UNCHANGED <<nodeVars, live, storeVars, stream>>
  BY <1>5, NoFork
<1>6. CASE /\ TheHeight < next /\ Known(TheHeight)
           /\ Stored(TheHeight) => HeadByNumber(TheHeight) # blocks[TheHeight]
           /\ FindForkPoint(heads, TheHeight, "record", job.batch)
  <2>1. TheHead \in Block /\ TheHeight \in Nat
    BY <1>1, BlockIsPath DEF TheHead, TheHeight
  <2>2. TheHeight \in Covered => ~IsOnChain(blocks[TheHeight], canon)
    <3> SUFFICES ASSUME TheHeight \in Covered PROVE ~IsOnChain(blocks[TheHeight], canon)
      OBVIOUS
    <3>1. /\ blocks[TheHeight] \in Block /\ Height(blocks[TheHeight]) = TheHeight
          /\ HeadByNumber(TheHeight) # blocks[TheHeight]
      BY <1>6, CoveredFields DEF SubInv, Stored
    <3> QED
      BY <2>1, <3>1, OnChainIsRead
  <2>3. Running
    BY <1>1 DEF Running
  <2> HIDE DEF TheHeight
  <2> QED
    BY <1>6, <2>1, <2>2, <2>3, FindForkPointFork
<1> QED
  BY <1>2, <1>3, <1>4, <1>5, <1>6
     DEF RecordIgnored, RecordWrittenHeight, RecordUnwrittenHeight, RecordFarHead

LEMMA ReconcileFork == SubInv /\ ForkInv /\ (ReconcileEnds \/ ReconcileFetch) => ForkInv'
<1> SUFFICES ASSUME SubInv, ForkInv, ReconcileEnds \/ ReconcileFetch PROVE ForkInv'
  OBVIOUS
<1> DEFINE k == job.k
<1>1. job.op = "reconcile" /\ k \in Nat /\ job \in Job /\ next \in Nat
  BY JobFields DEF ReconcileEnds, ReconcileFetch, SubInv, JobInv
<1>2. CASE Exit
  BY <1>2, ExitFork
<1>3. CASE \E hs, st, rep : FinishRecord(hs, st, rep)
  <2>1. NextHead /\ UNCHANGED <<nodeVars, storeVars>>
    BY <1>3 DEF FinishRecord
  <2> QED
    BY <2>1, NoFork, Endings
<1>4. CASE job'.op = "reconcile" /\ UNCHANGED <<nodeVars, storeVars>>
  BY <1>4, NoFork
<1>5. CASE /\ Known(k) /\ k < next /\ k \in DOMAIN heads /\ heads[k] # HeadByNumber(k)
           /\ FindForkPoint(heads, k, "record", job.batch)
  <2>1. k \in Covered => ~IsOnChain(blocks[k], canon)
    <3> SUFFICES ASSUME k \in Covered PROVE ~IsOnChain(blocks[k], canon)
      OBVIOUS
    <3>1. blocks[k] \in Block /\ Height(blocks[k]) = k /\ Stored(k)
      BY CoveredFields DEF SubInv, Stored
    <3>2. k = next - 1 /\ heads[k] = blocks[k]
      BY <1>1, <1>5, <3>1 DEF SubInv, GoodHeads
    <3> QED
      BY <1>1, <1>5, <3>1, <3>2, OnChainIsRead
  <2>2. Running
    BY <1>1 DEF Running
  <2> HIDE DEF k
  <2> QED
    BY <1>1, <1>5, <2>1, <2>2, FindForkPointFork
<1>6. ASSUME ReconcileFetch
      PROVE  \/ Exit \/ (\E hs, st, rep : FinishRecord(hs, st, rep))
             \/ job'.op = "reconcile" /\ UNCHANGED <<nodeVars, storeVars>>
             \/ /\ Known(k) /\ k < next /\ k \in DOMAIN heads /\ heads[k] # HeadByNumber(k)
                /\ FindForkPoint(heads, k, "record", job.batch)
  BY <1>1, <1>6 DEF ReconcileFetch, Job
<1> QED
  BY <1>2, <1>3, <1>4, <1>5, <1>6 DEF ReconcileEnds

LEMMA BlockMetadataFork == SubInv /\ ForkInv /\ BlockMetadata => ForkInv'
<1> SUFFICES ASSUME SubInv, ForkInv, BlockMetadata PROVE ForkInv'
  OBVIOUS
<1>1. job.op = "metadata" /\ Running /\ next \in Nat /\ UNCHANGED nodeVars
  BY DEF BlockMetadata, Running, SubInv, BoundaryMoved, FindForkPoint, Retry, Exit
<1>2. UNCHANGED storeVars
  BY DEF BlockMetadata, BoundaryMoved, FindForkPoint, Retry, Exit
<1>3. CASE job'.op # "fork"
  BY <1>1, <1>2, <1>3, NoFork
<1>4. CASE job'.op = "fork"
  <2>1. PICK hs : BoundaryMoved(hs)
    BY <1>4, LoopSteps, Endings
  <2>2. Stored(next - 1) /\ FindForkPoint(hs, next - 1, "replan", <<>>)
    BY <1>4, <2>1 DEF BoundaryMoved
  <2>3. next - 1 \in Covered /\ next - 1 \in Nat /\ next - 1 < next /\ next - 1 = cursor.head
    BY <1>1, <2>2, CoveredFields DEF Stored, SubInv
  <2> QED
    BY <1>1, <2>2, <2>3, FindForkPointFork
<1> QED
  BY <1>3, <1>4

-----------------------------------------------------------------------------
(* Every other step leaves node and tables alone and looks for no fork, or *)
(* is taken while the process does not run.                                *)
LEMMA QuietFork ==
    ForkInv /\ (SubscriptionGoesSilent \/ Crash \/ HeadTimeout \/ ForkWalkFails \/ Receive \/ UNCHANGED vars)
        => ForkInv'
<1> SUFFICES ASSUME ForkInv,
                    \/ SubscriptionGoesSilent \/ Crash \/ HeadTimeout \/ ForkWalkFails
                    \/ Receive \/ UNCHANGED vars
             PROVE  ForkInv'
  OBVIOUS
<1>1. CASE SubscriptionGoesSilent \/ UNCHANGED vars
  BY <1>1, NoFork DEF SubscriptionGoesSilent, vars, nodeVars, storeVars
<1>2. CASE Crash \/ HeadTimeout \/ ForkWalkFails
  BY <1>2, ExitFork DEF Crash, HeadTimeout, ForkWalkFails
<1>3. CASE Receive
  <2>1. PICK hs \in QueuedHeads :
          Exit \/ (UNCHANGED <<nodeVars, storeVars>> /\ job' = [op |-> "record", batch |-> hs])
    <3> HIDE DEF Exit, QueuedHeads, CatchupTooLarge
    <3> QED BY <1>3, Zenon DEF Receive
  <2> QED
    BY <2>1, ExitFork, NoFork
<1> QED
  BY <1>1, <1>2, <1>3

LEMMA StartFork == ForkInv /\ (\E sb \in {0, StartBlock} : Start(sb)) => ForkInv'
  BY NoFork DEF Start

(* Planning, fetching and reading again: the writing loop without the      *)
(* headers' own fork check.                                                *)
LEMMA LoopFork ==
    SubInv /\ ForkInv /\ (PlanRange \/ Reanchor \/ FetchWindow \/ RecheckBlock \/ RecheckFindsMove)
        => ForkInv'
<1> SUFFICES ASSUME SubInv, ForkInv, PlanRange \/ Reanchor \/ FetchWindow \/ RecheckBlock \/ RecheckFindsMove
             PROVE  ForkInv'
  OBVIOUS
<1>1. ASSUME NEW hs, NEW st, Retry(hs, st) PROVE ForkInv'
  BY <1>1, ExitFork, NoFork DEF Retry, Attempt
<1>2. CASE PlanRange
  BY <1>2, ExitFork, NoFork DEF PlanRange, Attempt
<1>3. CASE Reanchor
  BY <1>3, ExitFork, NoFork DEF Reanchor
<1>4. CASE FetchWindow
  <2>1. CASE \E hs, st : Retry(hs, st)
    BY <2>1, <1>1
  <2>2. CASE \A hs, st : ~Retry(hs, st)
    <3>1. UNCHANGED <<nodeVars, storeVars>>
      BY <1>4, <2>2 DEF FetchWindow
    <3>2. job'.op \in {"fetch", "recheck"}
      BY <1>4, <2>2, LoopSteps
    <3> QED
      BY <3>1, <3>2, NoFork
  <2> QED
    BY <2>1, <2>2
<1>5. CASE RecheckBlock
  <2>1. CASE Exit
    BY <2>1, ExitFork
  <2>2. CASE ~Exit
    <3>1. UNCHANGED <<nodeVars, storeVars>> /\ job'.op = "recheck"
      BY <1>5, <2>2, LoopSteps DEF RecheckBlock
    <3> QED
      BY <3>1, NoFork
  <2> QED
    BY <2>1, <2>2
<1>6. CASE RecheckFindsMove
  BY <1>6, <1>1 DEF RecheckFindsMove
<1> QED
  BY <1>2, <1>3, <1>4, <1>5, <1>6

(* The two rewinds.                                                        *)
LEMMA RewindsFork == SubInv /\ ForkInv /\ (OperatorRewind \/ RecoverDeepReorg) => ForkInv'
<1> SUFFICES ASSUME SubInv, ForkInv, OperatorRewind \/ RecoverDeepReorg PROVE ForkInv'
  OBVIOUS
<1>1. CASE OperatorRewind
  <2>1. PICK to \in Covered : Rewind(to)
    BY <1>1 DEF OperatorRewind
  <2>2. to \in Nat /\ UNCHANGED nodeVars /\ job'.op # "fork"
    BY <1>1, CoveredFields DEF OperatorRewind, SubInv
  <2> QED
    BY <2>1, <2>2, RewindFork
<1>2. CASE RecoverDeepReorg
  <2>1. job.n \in Nat /\ Rewind(job.n) /\ UNCHANGED nodeVars /\ job'.op # "fork"
    BY <1>2, JobFields DEF RecoverDeepReorg, SubInv, JobInv
  <2> QED
    BY <2>1, RewindFork
<1> QED
  BY <1>1, <1>2

-----------------------------------------------------------------------------
LEMMA InitFork == Init => ForkInv
<1> SUFFICES ASSUME Init PROVE ForkInv
  OBVIOUS
<1>1. SubInv /\ canon \in tips /\ job.op = "down"
  BY InitInv DEF Init
<1>2. \A n \in Covered : n \in Nat /\ Known(n) /\ blocks[n] = HeadByNumber(n)
  <2>1. CASE StoreInit
    BY <2>1 DEF StoreInit, NoCursor, Covered
  <2>2. CASE \E start, head \in 0..(InitHeight - ConfirmationBlocks) :
               /\ start <= head
               /\ cursor = [start |-> start, head |-> head]
               /\ ChainRows(canon, start, head)
    <3>1. PICK start \in Nat, head \in Nat :
             /\ head <= InitHeight - ConfirmationBlocks
             /\ cursor = [start |-> start, head |-> head]
             /\ blocks = [n \in start..head |-> BlockAt(canon, n)]
      BY <2>2, ConfigAssumption, LimitsAssumption DEF ChainRows
    <3>2. Height(canon) = InitHeight /\ InitHeight \in Nat /\ ConfirmationBlocks \in Nat
      BY ConfigAssumption, LimitsAssumption DEF Init
    <3>3. Covered \subseteq start..head
      BY <3>1 DEF Covered
    <3> QED
      BY <3>1, <3>2, <3>3 DEF Known, HeadByNumber
  <2> QED
    BY <2>1, <2>2 DEF Init
<1>3. StoredSeen
  BY <1>1, <1>2, HeadIsSeen DEF StoredSeen
<1> QED
  BY <1>1, <1>3 DEF ForkInv, ForkWalked

(* Every step keeps the invariant.                                         *)
LEMMA NextFork ==
    ReturnsToBranch = FALSE /\ SubInv /\ LogsInv /\ ForkInv /\ [Next]_vars => ForkInv'
<1> SUFFICES ASSUME ReturnsToBranch = FALSE, SubInv, LogsInv, ForkInv, [Next]_vars PROVE ForkInv'
  OBVIOUS
<1>1. CASE NodeMoves
  BY <1>1, NodeMovesFork
<1>2. CASE SubscriptionGoesSilent \/ Crash \/ HeadTimeout \/ ForkWalkFails \/ Receive \/ UNCHANGED vars
  BY <1>2, QuietFork
<1>3. CASE \E sb \in {0, StartBlock} : Start(sb)
  BY <1>3, StartFork
<1>4. CASE OperatorRewind \/ RecoverDeepReorg
  BY <1>4, RewindsFork
<1>5. CASE VerifyResumePoint \/ ForkWalkStep
  BY <1>5, VerifyResumePointFork, ForkWalkStepFork
<1>6. CASE RecordIgnored \/ RecordWrittenHeight \/ RecordUnwrittenHeight \/ RecordFarHead
  BY <1>6, RecordFork
<1>7. CASE ReconcileEnds \/ ReconcileFetch
  BY <1>7, ReconcileFork
<1>8. CASE PlanRange \/ Reanchor \/ FetchWindow \/ RecheckBlock \/ RecheckFindsMove
  BY <1>8, LoopFork
<1>9. CASE BlockMetadata \/ WriteBatch
  BY <1>9, BlockMetadataFork, WriteBatchFork
<1> QED
  BY <1>1, <1>2, <1>3, <1>4, <1>5, <1>6, <1>7, <1>8, <1>9 DEF Next, Step

(* What a running service does when its coverage shrinks.                  *)
LEMMA RewindAtFork ==
    ASSUME SubInv, ForkInv, [Next]_vars, Running, HasCursor, cursor'.head < cursor.head
    PROVE  /\ \A n \in Covered' : IsOnChain(blocks[n], canon)
           /\ \A n \in Covered \ Covered' :
                 IsOnChain(blocks[n], canon) => n = cursor.head /\ job.after = "replan"
<1>1. ~OperatorRewind
  BY DEF OperatorRewind, Running
<1>2. cursor.start \in Nat /\ cursor.head \in Nat /\ cursor # NoCursor
  BY CoveredFields DEF SubInv, HasCursor
<1>3. ~WriteBatch
  <2> SUFFICES ASSUME WriteBatch PROVE FALSE
    OBVIOUS
  <2>1. next \in Nat /\ BatchEnd \in Nat /\ next <= BatchEnd /\ next = cursor.head + 1
    BY ReadyBatch DEF WriteBatch, SubInv
  <2>2. cursor' = MergedCoverage(next, BatchEnd)
    BY DEF WriteBatch, WriteRange
  <2> QED
    BY <1>2, <2>1, <2>2 DEF MergedCoverage, Greater
<1>4. RecoverDeepReorg
  BY <1>1, <1>2, <1>3, TablesUnchanged DEF storeVars
<1>5. /\ job.op = "fork" /\ Stored(job.n) /\ Known(job.n) /\ HeadByNumber(job.n) = blocks[job.n]
      /\ job.n \in Nat /\ Rewind(job.n)
  BY <1>4, JobFields DEF RecoverDeepReorg, ForkWalkGoesOn, IsAncestor, SubInv, JobInv
<1>6. job.n \in Covered /\ IsOnChain(blocks[job.n], canon)
  BY <1>5, CoveredFields, HeadIsCanonical DEF Stored, SubInv
<1>7. \A n \in Covered : n \in Nat /\ (n \in Covered' <=> n <= job.n)
  BY <1>2, <1>5, <1>6, CoveredFields DEF Rewind, Covered, SubInv
<1>8. Covered' \subseteq Covered
  BY <1>2, <1>5, <1>6 DEF Rewind, Covered
<1>9. \A n \in Covered' : IsOnChain(blocks[n], canon)
  BY <1>6, <1>7, <1>8, CanonicalBelow
<1>10. \A n \in Covered \ Covered' : Gone(blocks[n]) \/ (n = cursor.head /\ job.after = "replan")
  BY <1>5, <1>6, <1>7 DEF ForkInv, ForkWalked
<1> QED
  BY <1>9, <1>10 DEF Gone

(* A running service cuts its coverage off at the fork: the blocks it keeps*)
(* are canonical, and those it withdraws have been replaced (all but the   *)
(* last one, that boundaryMoved gives up unseen), provided that the node   *)
(* never returns to a branch it has left.  The fork walk (findForkPoint)   *)
(* reads one block at a time while the chain moves on.                     *)
THEOREM CutsAtTheFork == ReturnsToBranch = FALSE => (Spec => RewindsToTheFork)
<1> SUFFICES ASSUME ReturnsToBranch = FALSE PROVE Spec => RewindsToTheFork
  OBVIOUS
<1>1. SubInv /\ LogsInv /\ [Next]_vars => LogsInv'
  BY NextLogs
<1>2. SubInv /\ LogsInv /\ ForkInv /\ [Next]_vars => ForkInv'
  BY NextFork
<1>3. SubInv /\ ForkInv /\ [Next]_vars =>
        [Running /\ HasCursor /\ cursor'.head < cursor.head
            => /\ \A n \in Covered' : IsOnChain(blocks[n], canon)
               /\ \A n \in Covered \ Covered' :
                     IsOnChain(blocks[n], canon) => n = cursor.head /\ job.after = "replan"]_vars
  BY RewindAtFork
<1> QED
  BY <1>1, <1>2, <1>3, InitLogs, InitFork, SubscriberInvariant, PTL DEF Spec, RewindsToTheFork
=============================================================================
