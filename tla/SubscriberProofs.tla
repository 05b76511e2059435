-------------------------- MODULE SubscriberProofs --------------------------
(***************************************************************************)
(* The subscriber keeps its types, writes one linked chain, stays in step  *)
(* with the cursor and never brings a batch that the warehouse refuses:    *)
(* for every chain, every node behaviour and every configuration.          *)
(*                                                                         *)
(* The proof is one inductive invariant, SubInv.  Most steps of the        *)
(* process change its memory only (lemma StreamStep); they share their     *)
(* endings (ExitInv, FindForkPointInv, FinishRecordInv, RetryInv).  Three  *)
(* steps change the tables: WriteBatch, RecoverDeepReorg, OperatorRewind.  *)
(***************************************************************************)
EXTENDS Subscriber, LogStoreProofs, WellFoundedInduction

(* Retained heads: blocks at their own height, none below the last written *)
(* one, and at that height the block that is stored.                       *)
GoodHeads(hs) ==
    /\ DOMAIN hs \subseteq Nat
    /\ \A n \in DOMAIN hs :
          /\ hs[n] \in Block
          /\ Height(hs[n]) = n
          /\ n >= next - 1
          /\ n = next - 1 /\ Stored(n) => hs[n] = blocks[n]

(* The head of the block below the first unwritten one is retained (the    *)
(* bridge of reconcile, the boundary of blockMetadata).                    *)
Anchored(hs) == next > 0 => next - 1 \in DOMAIN hs

(* The heads i..j are retained, and each descends from the one below it.   *)
Held(i, j) == \A n \in i..j : n \in DOMAIN heads /\ Linked(heads, n)

InBatch == job.op \in {"metadata", "fetch", "recheck"}

(* What holds of the locals at each point of the process.                  *)
JobInv ==
    /\ job \in Job
    /\ job.op = "reconcile" => TheHeight >= next /\ job.k < TheHeight
    /\ job.op = "fork" => (job.after = "record" => job.batch # <<>>)
    /\ job.op = "reanchor" => next > 0 /\ ~Stored(next - 1)
    /\ InBatch => job.to >= next
    /\ job.op = "metadata" => job.k \in next..BatchEnd /\ Held(next, job.k - 1)
    /\ job.op \in {"fetch", "recheck"} => Held(next, BatchEnd)
    /\ job.op = "fetch" =>
          job.k \in next..BatchEnd /\ \A l \in job.raw : l.n \in next..(job.k - 1)
    /\ job.op = "recheck" =>
          /\ job.todo \subseteq next..BatchEnd
          /\ job.moved \subseteq next..BatchEnd
          /\ \A l \in job.raw : l.n \in next..BatchEnd /\ l.hash = heads[l.n]

(* Where the stream and the warehouse may disagree: the process is down,   *)
(* has yet to verify where it resumes, or is looking for the fork.         *)
Parted == job.op \in {"down", "resume", "fork"}

(* The tables: what any caller maintains (StoreInv), no row outside the    *)
(* coverage, and one chain.                                                *)
StoreSide ==
    /\ StoreInv
    /\ DOMAIN blocks = Covered
    /\ StoreIsOneChain

(* The inductive invariant.                                                *)
SubInv ==
    /\ canon \in Block /\ tips \subseteq Block /\ live \in BOOLEAN
    /\ StoreSide
    /\ next \in Nat /\ lowerBound \in Nat /\ tip \in Nat
    /\ GoodHeads(heads)
    /\ Running /\ HasCursor => next = cursor.head + 1
    /\ ~Parted => Anchored(heads)
    /\ JobInv

(* The types of the locals, by the point of the process.                   *)
LEMMA JobFields ==
    ASSUME job \in Job
    PROVE  /\ job.op = "record" => job.batch \in Seq(Block) /\ job.batch # <<>>
           /\ job.op = "reconcile" =>
                 /\ job.batch \in Seq(Block) /\ job.batch # <<>> /\ job.k \in Nat
                 /\ job.expected \in Block \cup {NoHash} /\ job.replaced \in BOOLEAN
           /\ job.op = "fork" =>
                 /\ job.height \in Nat /\ job.n \in Nat /\ job.batch \in Seq(Block)
                 /\ job.after \in {"resume", "record", "replan"}
           /\ InBatch => job.to \in Nat /\ job.attempt \in 1..BatchConsistencyAttempts
           /\ job.op \in {"metadata", "fetch"} => job.k \in Nat
           /\ job.op \in {"fetch", "recheck"} => job.raw \subseteq LogRow
           /\ job.op = "recheck" => job.todo \subseteq Nat /\ job.moved \subseteq Nat
  BY DEF Job, InBatch


-----------------------------------------------------------------------------
(* Retaining a block at its height, or dropping heads, keeps the retained  *)
(* heads good.                                                             *)
LEMMA PutGood ==
    ASSUME GoodHeads(heads), next \in Nat,
           NEW n \in Nat, NEW b \in Block, Height(b) = n, n >= next - 1,
           n = next - 1 /\ Stored(n) => b = blocks[n]
    PROVE  /\ GoodHeads(Put(heads, n, b))
           /\ Anchored(heads) => Anchored(Put(heads, n, b))
           /\ DOMAIN Put(heads, n, b) = DOMAIN heads \cup {n}
           /\ Put(heads, n, b)[n] = b
           /\ \A m \in DOMAIN heads : m # n => Put(heads, n, b)[m] = heads[m]
  BY DEF GoodHeads, Put, Anchored

(* Dropping heads keeps them good, and anchored unless the anchor goes.    *)
LEMMA DropGood ==
    ASSUME NEW hs, GoodHeads(hs), NEW S
    PROVE  /\ GoodHeads(Drop(hs, S))
           /\ Anchored(hs) /\ next - 1 \notin S => Anchored(Drop(hs, S))
           /\ DOMAIN Drop(hs, S) = DOMAIN hs \ S
           /\ \A m \in DOMAIN hs \ S : Drop(hs, S)[m] = hs[m]
  BY DEF GoodHeads, Drop, Restrict, Anchored

(* eth_getBlockByNumber answers with a block of the height asked for.      *)
LEMMA HeadAt ==
    ASSUME SubInv, NEW n \in Nat, Known(n)
    PROVE  HeadByNumber(n) \in Block /\ Height(HeadByNumber(n)) = n
  BY BlockAtIsBlock DEF SubInv, Known, HeadByNumber

(* A step that leaves the tables and the position alone has only the       *)
(* retained heads and the locals to account for.                           *)
LEMMA StreamStep ==
    ASSUME SubInv, Running, Running',
           UNCHANGED <<nodeVars, live, storeVars, next>>,
           lowerBound' \in Nat, tip' \in Nat,
           GoodHeads(heads'), ~Parted' => Anchored(heads'), JobInv'
    PROVE  SubInv'
<1>1. GoodHeads(heads)' /\ (~Parted => Anchored(heads))'
  BY DEF GoodHeads, Anchored, Stored, storeVars
<1>2. StoreSide'
  BY DEF SubInv, StoreSide, storeVars, StoreInv, StoreTypeOK, HasCursor, CoverageComplete,
         LogsPaired, StoreIsOneChain, Covered
<1> QED
  BY <1>1, <1>2 DEF SubInv, nodeVars, storeVars, HasCursor

(* The end of the process loses memory only.                               *)
LEMMA ExitInv == SubInv /\ Exit => SubInv'
<1> SUFFICES ASSUME SubInv, Exit PROVE SubInv'
  OBVIOUS
<1>1. StoreSide'
  BY DEF SubInv, Exit, StoreSide, storeVars, StoreInv, StoreTypeOK, HasCursor, CoverageComplete,
         LogsPaired, StoreIsOneChain, Covered
<1>2. JobInv'
  BY DEF Exit, JobInv, Job, InBatch
<1>3. GoodHeads(heads)'
  BY DEF Exit, GoodHeads, NoHeads
<1> QED
  BY <1>1, <1>2, <1>3 DEF SubInv, Exit, nodeVars, Running, Parted

(* Entering the fork walk, with any good heads.                            *)
LEMMA FindForkPointInv ==
    ASSUME SubInv, Running, NEW hs, GoodHeads(hs), NEW height \in Nat,
           NEW after \in {"resume", "record", "replan"}, NEW batch \in Seq(Block),
           after = "record" => batch # <<>>,
           FindForkPoint(hs, height, after, batch)
    PROVE  SubInv'
<1>1. CASE height = 0
  BY <1>1, ExitInv DEF FindForkPoint
<1>2. CASE height # 0
  <2>1. JobInv' /\ Parted' /\ Running'
    BY <1>2 DEF FindForkPoint, JobInv, Job, InBatch, Parted, Running
  <2> QED
    BY <1>2, <2>1, StreamStep DEF FindForkPoint, SubInv
<1> QED
  BY <1>1, <1>2

(* The step from one head of a batch to the next, or to the planning.      *)
LEMMA NextHeadInv ==
    ASSUME job.batch \in Seq(Block), job.batch # <<>>, NextHead
    PROVE  JobInv' /\ Running' /\ ~Parted'
<1>1. CASE Len(job.batch) > 1
  <2>1. Tail(job.batch) \in Seq(Block) /\ Tail(job.batch) # <<>>
    BY <1>1
  <2> QED
    BY <1>1, <2>1 DEF NextHead, JobInv, Job, InBatch, Running, Parted
<1>2. CASE ~(Len(job.batch) > 1)
  BY <1>2 DEF NextHead, JobInv, Job, InBatch, Running, Parted
<1> QED
  BY <1>1, <1>2

(* The end of record: truncation and retention of the head, at a height    *)
(* that is not written.                                                    *)
LEMMA FinishRecordInv ==
    ASSUME SubInv, job.op \in {"record", "reconcile"}, TheHeight >= next,
           NEW hs, GoodHeads(hs), Anchored(hs),
           NEW stale \in BOOLEAN, NEW replaced \in BOOLEAN, replaced => TheHeight > 0,
           FinishRecord(hs, stale, replaced)
    PROVE  SubInv'
<1>1. job.batch \in Seq(Block) /\ job.batch # <<>>
  BY JobFields DEF SubInv, JobInv
<1>2. TheHead \in Block /\ TheHeight \in Nat
  BY <1>1, BlockIsPath DEF TheHead, TheHeight
<1>3. Running /\ ~Parted
  BY DEF Running, Parted
<1>4. JobInv' /\ Running' /\ ~Parted'
  BY <1>1, NextHeadInv DEF FinishRecord
<1> DEFINE n == TheHeight
           replaces == ~stale /\ n \in DOMAIN hs /\ hs[n] # TheHead
           fork == IF replaced THEN n - 1 ELSE n
           cut == IF replaced \/ replaces THEN UpTo(hs, fork) ELSE hs
           base == IF replaced \/ replaces THEN fork ELSE tip
<1>5. GoodHeads(cut) /\ Anchored(cut)
  <2>1. next - 1 \notin {m \in DOMAIN hs : m > fork}
    BY <1>2 DEF SubInv
  <2>2. GoodHeads(UpTo(hs, fork)) /\ Anchored(UpTo(hs, fork))
    <3> HIDE DEF fork
    <3> QED BY <2>1, DropGood DEF UpTo
  <2> QED
    BY <2>2
<1>6. GoodHeads(Put(cut, n, TheHead)) /\ Anchored(Put(cut, n, TheHead))
  <2> HIDE DEF cut
  <2> QED BY <1>2, <1>5 DEF GoodHeads, Put, Anchored, SubInv, TheHeight
<1>7. base \in Nat
  BY <1>2 DEF SubInv
<1>8. heads' = (IF stale THEN cut ELSE Put(cut, n, TheHead)) /\ tip' = (IF stale THEN base ELSE Greater(base, n))
  BY DEF FinishRecord
<1>9. tip' \in Nat /\ GoodHeads(heads') /\ Anchored(heads')
  <2> HIDE DEF cut, base
  <2> QED BY <1>2, <1>5, <1>6, <1>7, <1>8 DEF Greater
<1> QED
  BY <1>3, <1>4, <1>9, StreamStep DEF FinishRecord, SubInv

(* Another attempt at the batch; the anchor below it is never dropped.     *)
LEMMA RetryInv ==
    ASSUME SubInv, InBatch, NEW hs, GoodHeads(hs), Anchored(hs),
           NEW stale, next - 1 \notin stale, Retry(hs, stale)
    PROVE  SubInv'
<1>1. CASE job.attempt = BatchConsistencyAttempts
  BY <1>1, ExitInv DEF Retry
<1>2. CASE job.attempt # BatchConsistencyAttempts
  <2>1. job.to \in Nat /\ job.to >= next /\ job.attempt + 1 \in 1..BatchConsistencyAttempts
    BY <1>2, JobFields, LimitsAssumption DEF SubInv, JobInv
  <2>2. job' = [op |-> "metadata", to |-> job.to, attempt |-> job.attempt + 1, k |-> next]
    BY <1>2 DEF Retry, Attempt
  <2>3. UNCHANGED <<nodeVars, live, storeVars, next, lowerBound, tip>>
    BY <1>2 DEF Retry
  <2>4. JobInv' /\ Running' /\ ~Parted'
    BY <2>1, <2>2, <2>3, LimitsAssumption
       DEF JobInv, Job, InBatch, Running, Parted, Held, BatchEnd, Lesser, SubInv
  <2>5. GoodHeads(heads') /\ Anchored(heads')
    <3>1. heads' = Drop(hs, stale)
      BY <1>2 DEF Retry
    <3>2. GoodHeads(Drop(hs, stale)) /\ Anchored(Drop(hs, stale))
      BY DropGood
    <3> QED
      BY <3>1, <3>2
  <2>6. Running
    BY DEF InBatch, Running
  <2> QED
    BY <2>3, <2>4, <2>5, <2>6, StreamStep DEF SubInv
<1> QED
  BY <1>1, <1>2

-----------------------------------------------------------------------------
(* A rewind leaves the lower part of the same chain.                       *)
LEMMA StoreRewind ==
    ASSUME StoreSide, NEW to \in Nat, Rewind(to)
    PROVE  /\ StoreSide'
           /\ HasCursor' /\ cursor'.head = to
           /\ to \in DOMAIN blocks'
           /\ \A n \in DOMAIN blocks' : n \in DOMAIN blocks /\ n <= to /\ blocks'[n] = blocks[n]
<1> USE DEF StoreSide
<1>1. StoreInv'
  BY RewindInv
<1>2. /\ DOMAIN blocks' = {m \in DOMAIN blocks : m <= to}
      /\ \A n \in DOMAIN blocks' : blocks'[n] = blocks[n]
      /\ cursor' = [start |-> cursor.start, head |-> to]
      /\ cursor.start <= to /\ to < cursor.head
      /\ cursor.start \in Nat /\ cursor.head \in Nat
  BY DEF Rewind, RewindAllowed, StoreInv, StoreTypeOK, Coverage
<1>3. DOMAIN blocks' = Covered' /\ HasCursor'
  BY <1>2 DEF Covered, HasCursor, NoCursor
<1>4. StoreIsOneChain'
  <2> SUFFICES ASSUME NEW n \in Covered'
               PROVE  /\ Height(blocks'[n]) = n
                      /\ n > cursor'.start => Parent(blocks'[n]) = blocks'[n - 1]
    BY DEF StoreIsOneChain
  <2>1. n \in Covered /\ n \in Nat /\ blocks'[n] = blocks[n]
    BY <1>2, <1>3 DEF Covered
  <2>2. n > cursor.start => n - 1 \in Covered' /\ blocks'[n - 1] = blocks[n - 1]
    BY <1>2, <1>3, <2>1 DEF Covered
  <2> QED
    BY <1>2, <2>1, <2>2 DEF StoreIsOneChain
<1>5. cursor'.head = to /\ to \in Covered'
  BY <1>2 DEF Covered
<1> QED
  BY <1>1, <1>2, <1>3, <1>4, <1>5

(* The node and the network touch nothing of the process.                  *)
LEMMA NodeMovesInv == SubInv /\ (NodeMoves \/ SubscriptionGoesSilent) => SubInv'
<1> SUFFICES ASSUME SubInv, NodeMoves \/ SubscriptionGoesSilent PROVE SubInv'
  OBVIOUS
<1>1. canon' \in Block /\ tips' \subseteq Block /\ live' \in BOOLEAN
  BY DEF SubInv, NodeMoves, SubscriptionGoesSilent, nodeVars
<1>2. UNCHANGED <<storeVars, stream, job>>
  BY DEF NodeMoves, SubscriptionGoesSilent
<1>3. StoreSide'
  BY <1>2 DEF SubInv, StoreSide, storeVars, StoreInv, StoreTypeOK, HasCursor, CoverageComplete,
         LogsPaired, StoreIsOneChain, Covered
<1>4. GoodHeads(heads)' /\ (~Parted => Anchored(heads))'
  BY <1>2 DEF SubInv, stream, storeVars, GoodHeads, Anchored, Stored, Parted
<1>5. JobInv'
  BY <1>2 DEF SubInv, stream, storeVars, JobInv, InBatch, Held, BatchEnd, TheHeight, TheHead,
              Stored, Linked
<1> QED
  BY <1>1, <1>2, <1>3, <1>4, <1>5 DEF SubInv, stream, storeVars, Running, HasCursor

(* A start resumes right above the cursor.                                 *)
LEMMA StartInv ==
    ASSUME SubInv, NEW sb \in {0, StartBlock}, Start(sb)
    PROVE  SubInv'
<1>1. StoreSide'
  BY DEF SubInv, Start, StoreSide, storeVars, StoreInv, StoreTypeOK, HasCursor, CoverageComplete,
         LogsPaired, StoreIsOneChain, Covered
<1>2. cursor.head \in Nat /\ Height(canon) \in Nat /\ sb \in Nat
  BY BlockIsPath, ConfigAssumption DEF SubInv, StoreSide, StoreInv, StoreTypeOK, Coverage
<1>3. next' \in Nat /\ (HasCursor => next' = cursor.head + 1)
  BY <1>2 DEF Start
<1>4. GoodHeads(heads)' /\ JobInv' /\ Parted'
  BY DEF Start, GoodHeads, NoHeads, JobInv, Job, InBatch, Parted
<1> QED
  BY <1>1, <1>3, <1>4 DEF SubInv, Start, nodeVars, storeVars, HasCursor

(* The rewind command finds the process down.                              *)
LEMMA OperatorRewindInv == SubInv /\ OperatorRewind => SubInv'
<1> SUFFICES ASSUME SubInv, OperatorRewind PROVE SubInv'
  OBVIOUS
<1>1. PICK to \in Covered : Rewind(to)
  BY DEF OperatorRewind
<1>2. to \in Nat
  BY DEF SubInv, StoreSide, StoreInv, StoreTypeOK, Coverage, Covered
<1>3. StoreSide' /\ \A n \in DOMAIN blocks' : n \in DOMAIN blocks /\ blocks'[n] = blocks[n]
  BY <1>1, <1>2, StoreRewind DEF SubInv
<1>4. job.op = "down" /\ UNCHANGED <<nodeVars, live, stream, job>>
  BY DEF OperatorRewind
<1>5. GoodHeads(heads)'
  BY <1>3, <1>4 DEF SubInv, GoodHeads, Stored, stream
<1>6. JobInv'
  BY <1>4 DEF SubInv, JobInv, InBatch
<1> QED
  BY <1>3, <1>4, <1>5, <1>6 DEF SubInv, Running, Parted, stream, nodeVars

-----------------------------------------------------------------------------
(* One block further down the fork walk.                                   *)
LEMMA ForkWalkStepInv == SubInv /\ ForkWalkStep => SubInv'
<1> SUFFICES ASSUME SubInv, ForkWalkStep PROVE SubInv'
  OBVIOUS
<1>1. job' \in Job /\ job'.op = "fork" /\ job'.after = job.after /\ job'.batch = job.batch
  BY DEF ForkWalkStep, SubInv, JobInv, Job
<1>2. JobInv' /\ Running /\ Running' /\ Parted'
  BY <1>1 DEF ForkWalkStep, SubInv, JobInv, InBatch, Running, Parted
<1> QED
  BY <1>2, StreamStep DEF ForkWalkStep, SubInv, stream

(* The recovery restarts the stream at a block that is stored and          *)
(* canonical.                                                              *)
LEMMA RecoverDeepReorgInv == SubInv /\ RecoverDeepReorg => SubInv'
<1> SUFFICES ASSUME SubInv, RecoverDeepReorg PROVE SubInv'
  OBVIOUS
<1>1. /\ job.op = "fork" /\ Known(job.n) /\ IsAncestor(job.n)
      /\ Rewind(job.n)
      /\ heads' = [n \in {job.n} |-> HeadByNumber(job.n)]
      /\ next' = job.n + 1 /\ tip' = job.n
  BY DEF RecoverDeepReorg, ForkWalkGoesOn
<1>2. job.n \in Nat /\ job.batch \in Seq(Block) /\ (job.after = "record" => job.batch # <<>>)
  BY <1>1, JobFields DEF SubInv, JobInv
<1>3. /\ StoreSide' /\ HasCursor' /\ cursor'.head = job.n
      /\ \A n \in DOMAIN blocks' : n \in DOMAIN blocks /\ blocks'[n] = blocks[n]
  BY <1>1, <1>2, StoreRewind DEF SubInv
<1>4. HeadByNumber(job.n) \in Block /\ Height(HeadByNumber(job.n)) = job.n
  BY <1>1, <1>2, HeadAt
<1>5. GoodHeads(heads)' /\ Anchored(heads)'
  BY <1>1, <1>2, <1>3, <1>4 DEF GoodHeads, Anchored, Stored, IsAncestor
<1>6. lowerBound' \in Nat
  BY <1>2 DEF RecoverDeepReorg, SubInv, Lesser
<1>7. JobInv'
  BY <1>2 DEF RecoverDeepReorg, JobInv, Job, InBatch
<1>8. canon' = canon /\ tips' = tips /\ live' = live
  BY DEF RecoverDeepReorg, nodeVars
<1>9. next' = cursor'.head + 1 /\ next' \in Nat /\ tip' \in Nat
  BY <1>1, <1>2, <1>3
<1> QED
  BY <1>3, <1>5, <1>6, <1>7, <1>8, <1>9 DEF SubInv

(* The block the stream is anchored on is the stored one, if one is        *)
(* stored.                                                                 *)
LEMMA VerifyResumePointInv == SubInv /\ VerifyResumePoint => SubInv'
<1> SUFFICES ASSUME SubInv, VerifyResumePoint PROVE SubInv'
  OBVIOUS
<1>1. job.op = "resume" /\ Running
  BY DEF VerifyResumePoint, Running
<1>2. next \in Nat
  BY DEF SubInv
<1> DEFINE last == next - 1
<1>3. CASE next = 0 /\ job' = [op |-> "wait"] /\ UNCHANGED <<nodeVars, live, storeVars, stream>>
  <2>1. JobInv' /\ Running'
    BY <1>3 DEF JobInv, Job, InBatch, Running
  <2> QED
    BY <1>1, <1>3, <2>1, StreamStep DEF SubInv, stream, Anchored
<1>4. CASE Exit
  BY <1>4, ExitInv
<1>5. CASE /\ next > 0 /\ Known(last)
           /\ ResumeAgrees(last)
           /\ heads' = Put(heads, last, HeadByNumber(last))
           /\ tip' = last
           /\ job' = [op |-> "wait"]
           /\ UNCHANGED <<nodeVars, live, storeVars, next, lowerBound>>
  <2>1. last \in Nat
    BY <1>2, <1>5
  <2>2. HeadByNumber(last) \in Block /\ Height(HeadByNumber(last)) = last
    BY <1>5, <2>1, HeadAt
  <2>3. GoodHeads(heads') /\ Anchored(heads')
    BY <1>2, <1>5, <2>1, <2>2 DEF SubInv, GoodHeads, Anchored, Put, ResumeAgrees
  <2>4. JobInv' /\ Running'
    BY <1>5 DEF JobInv, Job, InBatch, Running
  <2> QED
    BY <1>1, <1>5, <2>1, <2>3, <2>4, StreamStep DEF SubInv
<1>6. CASE next > 0 /\ FindForkPoint(heads, last, "resume", <<>>)
  <2>1. last \in Nat /\ <<>> \in Seq(Block) /\ GoodHeads(heads)
    BY <1>2, <1>6 DEF SubInv
  <2>2. FindForkPoint(heads, last, "resume", <<>>)
    BY <1>6
  <2> HIDE DEF last
  <2> QED
    BY <1>1, <2>1, <2>2, FindForkPointInv
<1> QED
  BY <1>3, <1>4, <1>5, <1>6 DEF VerifyResumePoint

-----------------------------------------------------------------------------
(* A received batch is a non-empty sequence of blocks.                     *)
LEMMA ReceiveInv == SubInv /\ Receive => SubInv'
<1> SUFFICES ASSUME SubInv, Receive PROVE SubInv'
  OBVIOUS
<1>1. job.op = "wait" /\ Running /\ ~Parted
  BY DEF Receive, Running, Parted
<1>2. PICK hs \in QueuedHeads :
          IF CatchupTooLarge(Highest(hs))
          THEN Exit
          ELSE /\ job' = [op |-> "record", batch |-> hs]
               /\ UNCHANGED <<nodeVars, live, storeVars, stream>>
  BY DEF Receive
<1>3. CASE Exit
  BY <1>3, ExitInv
<1>4. CASE ~Exit
  <2>1. job' = [op |-> "record", batch |-> hs] /\ UNCHANGED <<nodeVars, live, storeVars, stream>>
    BY <1>2, <1>4
  <2>2. PICK m \in 1..MaxQueuedHeads : hs \in [1..m -> tips]
    BY DEF QueuedHeads
  <2>3. m \in Nat /\ m > 0 /\ hs \in [1..m -> Block]
    BY <2>2, LimitsAssumption DEF SubInv
  <2>4. hs \in Seq(Block) /\ hs # <<>>
    BY <2>3
  <2>5. JobInv' /\ Running' /\ ~Parted'
    BY <2>1, <2>4 DEF JobInv, Job, InBatch, Running, Parted
  <2> QED
    BY <1>1, <2>1, <2>5, StreamStep DEF SubInv, stream
<1> QED
  BY <1>3, <1>4

(* An ignored head changes nothing.                                        *)
LEMMA RecordIgnoredInv == SubInv /\ RecordIgnored => SubInv'
<1> SUFFICES ASSUME SubInv, RecordIgnored PROVE SubInv'
  OBVIOUS
<1>1. Running /\ ~Parted /\ NextHead /\ UNCHANGED <<nodeVars, live, storeVars, stream>>
  BY DEF RecordIgnored, Running, Parted
<1>2. JobInv' /\ Running' /\ ~Parted'
  BY <1>1, JobFields, NextHeadInv DEF RecordIgnored, SubInv, JobInv
<1> QED
  BY <1>1, <1>2, StreamStep DEF SubInv, stream

(* A head at a written height is skipped or starts the fork walk.          *)
LEMMA RecordWrittenHeightInv == SubInv /\ RecordWrittenHeight => SubInv'
<1> SUFFICES ASSUME SubInv, RecordWrittenHeight PROVE SubInv'
  OBVIOUS
<1>1. job.op = "record" /\ Running /\ ~Parted
  BY DEF RecordWrittenHeight, Running, Parted
<1>2. job.batch \in Seq(Block) /\ job.batch # <<>>
  BY <1>1, JobFields DEF SubInv, JobInv
<1>3. TheHeight \in Nat
  BY <1>2, BlockIsPath DEF TheHead, TheHeight
<1>4. CASE Exit
  BY <1>4, ExitInv
<1>5. CASE NextHead /\ UNCHANGED <<nodeVars, live, storeVars, stream>>
  BY <1>1, <1>2, <1>5, NextHeadInv, StreamStep DEF SubInv, stream
<1>6. CASE FindForkPoint(heads, TheHeight, "record", job.batch)
  <2>1. GoodHeads(heads)
    BY DEF SubInv
  <2> QED
    BY <1>1, <1>2, <1>3, <1>6, <2>1, FindForkPointInv
<1> QED
  BY <1>4, <1>5, <1>6 DEF RecordWrittenHeight

(* A head above the written ones is retained or reconciled first.          *)
LEMMA RecordUnwrittenHeightInv == SubInv /\ (RecordUnwrittenHeight \/ RecordFarHead) => SubInv'
<1> SUFFICES ASSUME SubInv, RecordUnwrittenHeight \/ RecordFarHead PROVE SubInv'
  OBVIOUS
<1>1. job.op = "record" /\ Running /\ ~Parted /\ TheHeight >= next
  BY DEF RecordUnwrittenHeight, RecordFarHead, Running, Parted
<1>2. job.batch \in Seq(Block) /\ job.batch # <<>> /\ next \in Nat
  BY <1>1, JobFields DEF SubInv, JobInv
<1>3. TheHead \in Block /\ TheHeight \in Nat
  BY <1>2, BlockIsPath DEF TheHead, TheHeight
<1>4. GoodHeads(heads) /\ Anchored(heads)
  BY <1>1 DEF SubInv
<1>5. CASE Exit
  BY <1>5, ExitInv
<1>6. CASE FinishRecord(heads, FALSE, FALSE)
  BY <1>1, <1>4, <1>6, FinishRecordInv
<1>7. CASE FinishRecord(heads, HeadByNumber(TheHeight) # TheHead, FALSE)
  BY <1>1, <1>4, <1>7, FinishRecordInv
<1>8. CASE /\ TheHeight # 0
           /\ job' = [op |-> "reconcile", batch |-> job.batch, k |-> TheHeight - 1,
                      expected |-> Parent(TheHead), replaced |-> FALSE]
           /\ UNCHANGED <<nodeVars, live, storeVars, stream>>
  <2>1. Parent(TheHead) \in Block
    BY <1>3, <1>8, ParentIsBlock DEF TheHeight
  <2>2. TheHeight' = TheHeight /\ next' = next
    BY <1>8 DEF TheHeight, TheHead, stream
  <2>3. job' \in Job
    BY <1>2, <1>3, <1>8, <2>1 DEF Job
  <2>4. JobInv' /\ Running' /\ ~Parted'
    BY <1>1, <1>3, <1>8, <2>2, <2>3 DEF JobInv, InBatch, Running, Parted
  <2> QED
    BY <1>1, <1>8, <2>4, <1>4, StreamStep DEF SubInv, stream
<1> QED
  BY <1>5, <1>6, <1>7, <1>8 DEF RecordUnwrittenHeight, RecordFarHead

(* reconcile ends its walk at a retained head, or below all of them.       *)
LEMMA ReconcileEndsInv == SubInv /\ ReconcileEnds => SubInv'
<1> SUFFICES ASSUME SubInv, ReconcileEnds PROVE SubInv'
  OBVIOUS
<1>1. job.op = "reconcile"
  BY DEF ReconcileEnds
<1>2. job.replaced \in BOOLEAN /\ job.k \in Nat /\ job.k < TheHeight /\ TheHeight >= next
  BY <1>1, JobFields DEF SubInv, JobInv
<1>3. TheHeight > 0
  <2>1. TheHeight \in Nat
    BY <1>1, JobFields, BlockIsPath DEF SubInv, JobInv, TheHead, TheHeight
  <2> QED
    BY <1>2, <2>1
<1>4. GoodHeads(heads) /\ Anchored(heads)
  BY <1>1 DEF SubInv, Parted
<1> QED
  BY <1>1, <1>2, <1>3, <1>4, FinishRecordInv DEF ReconcileEnds

(* reconcile retains what it reads; at the anchor it reads only what it    *)
(* holds.                                                                  *)
LEMMA ReconcileFetchInv == SubInv /\ ReconcileFetch => SubInv'
<1> SUFFICES ASSUME SubInv, ReconcileFetch PROVE SubInv'
  OBVIOUS
<1> DEFINE k == job.k
           differs == k \in DOMAIN heads /\ heads[k] # HeadByNumber(k)
           replaced == job.replaced \/ differs
           hs == Put(heads, k, HeadByNumber(k))
<1>1. /\ job.op = "reconcile" /\ Running /\ ~Parted
      /\ IF k \in DOMAIN heads THEN heads[k] # job.expected ELSE Bridge /\ k >= next
  BY DEF ReconcileFetch, Running, Parted
<1>2. /\ job.batch \in Seq(Block) /\ job.batch # <<>> /\ k \in Nat /\ k < TheHeight
      /\ job.replaced \in BOOLEAN /\ TheHeight >= next /\ next \in Nat
  BY <1>1, JobFields DEF SubInv, JobInv
<1>3. TheHeight \in Nat
  BY <1>2, BlockIsPath DEF TheHead, TheHeight
<1>4. GoodHeads(heads) /\ Anchored(heads)
  BY <1>1 DEF SubInv
<1>5. CASE Exit
  BY <1>5, ExitInv
<1>6. CASE FindForkPoint(heads, k, "record", job.batch)
  <2> HIDE DEF k
  <2> QED BY <1>1, <1>2, <1>4, <1>6, FindForkPointInv
<1>7. CASE /\ Known(k) /\ ~(differs /\ k < next)
           /\ IF HeadByNumber(k) = job.expected /\ k > 0
              THEN /\ heads' = hs
                   /\ job' = [job EXCEPT !.k = k - 1, !.replaced = replaced,
                                         !.expected = Parent(HeadByNumber(k))]
                   /\ UNCHANGED <<nodeVars, live, storeVars, next, lowerBound, tip>>
              ELSE FinishRecord(hs, HeadByNumber(k) # job.expected, replaced)
  <2>1. HeadByNumber(k) \in Block /\ Height(HeadByNumber(k)) = k
    BY <1>2, <1>7, HeadAt
  <2>2. k >= next - 1
    BY <1>1, <1>2, <1>4 DEF GoodHeads
  <2>3. k = next - 1 /\ Stored(k) => HeadByNumber(k) = blocks[k]
    BY <1>1, <1>2, <1>4, <1>7 DEF GoodHeads
  <2>4. GoodHeads(hs) /\ Anchored(hs)
    <3> HIDE DEF k
    <3> QED BY <1>2, <1>4, <2>1, <2>2, <2>3, PutGood
  <2>5. CASE HeadByNumber(k) = job.expected /\ k > 0
    <3>1. Parent(HeadByNumber(k)) \in Block
      BY <2>1, <2>5, ParentIsBlock
    <3>2. replaced \in BOOLEAN /\ k - 1 \in Nat
      BY <1>2, <2>5
    <3>3. /\ heads' = hs
          /\ job' = [job EXCEPT !.k = k - 1, !.replaced = replaced,
                                !.expected = Parent(HeadByNumber(k))]
          /\ UNCHANGED <<nodeVars, live, storeVars, next, lowerBound, tip>>
      BY <1>7, <2>5
    <3>4. job' \in Job /\ job'.op = "reconcile" /\ job'.k = k - 1 /\ job'.batch = job.batch
      <4> HIDE DEF k, replaced
      <4> QED BY <1>1, <3>1, <3>2, <3>3 DEF SubInv, JobInv, Job
    <3>5. JobInv' /\ Running' /\ ~Parted'
      BY <1>2, <1>3, <3>3, <3>4 DEF JobInv, InBatch, Running, Parted, TheHeight, TheHead
    <3> QED
      <4> HIDE DEF hs
      <4> QED BY <1>1, <2>4, <3>3, <3>5, StreamStep DEF SubInv
  <2>6. CASE ~(HeadByNumber(k) = job.expected /\ k > 0)
    <3>1. FinishRecord(hs, HeadByNumber(k) # job.expected, replaced)
      BY <1>7, <2>6
    <3>2. replaced \in BOOLEAN /\ (HeadByNumber(k) # job.expected) \in BOOLEAN /\ TheHeight > 0
      BY <1>2, <1>3
    <3> HIDE DEF hs, replaced
    <3> QED
      BY <1>1, <1>2, <2>4, <3>1, <3>2, FinishRecordInv
  <2> QED
    BY <2>5, <2>6
<1> QED
  BY <1>5, <1>6, <1>7 DEF ReconcileFetch

-----------------------------------------------------------------------------
(* The planned range is not empty, and its last block is retained.         *)
LEMMA PlanRangeInv == SubInv /\ PlanRange => SubInv'
<1> SUFFICES ASSUME SubInv, PlanRange PROVE SubInv'
  OBVIOUS
<1> DEFINE to == ConfirmedHeight
<1>1. job.op = "plan" /\ Running /\ ~Parted
  BY DEF PlanRange, Running, Parted
<1>2. next \in Nat /\ to \in Int /\ GoodHeads(heads) /\ Anchored(heads)
  BY <1>1, ConfigAssumption DEF SubInv, ConfirmedHeight
<1>3. CASE Exit
  BY <1>3, ExitInv
<1>4. CASE job' = [op |-> "wait"] /\ UNCHANGED <<nodeVars, live, storeVars, stream>>
  <2>1. JobInv' /\ Running' /\ ~Parted'
    BY <1>4 DEF JobInv, Job, InBatch, Running, Parted
  <2> QED
    BY <1>1, <1>2, <1>4, <2>1, StreamStep DEF SubInv, stream
<1>5. CASE /\ to >= next
           /\ to \in DOMAIN heads \/ Known(to)
           /\ heads' = IF to \in DOMAIN heads THEN heads ELSE Put(heads, to, HeadByNumber(to))
           /\ job' = Attempt(to, 1, next)
           /\ UNCHANGED <<nodeVars, live, storeVars, next, lowerBound, tip>>
  <2>1. to \in Nat
    BY <1>2, <1>5
  <2>2. GoodHeads(heads') /\ Anchored(heads')
    <3>1. CASE to \in DOMAIN heads
      BY <3>1, <1>2, <1>5
    <3>2. CASE to \notin DOMAIN heads
      <4>1. HeadByNumber(to) \in Block /\ Height(HeadByNumber(to)) = to
        BY <1>5, <2>1, <3>2, HeadAt
      <4>2. to >= next - 1 /\ ~(to = next - 1)
        BY <1>2, <1>5
      <4> HIDE DEF to
      <4>3. GoodHeads(Put(heads, to, HeadByNumber(to))) /\ Anchored(Put(heads, to, HeadByNumber(to)))
        BY <1>2, <2>1, <4>1, <4>2, PutGood
      <4> QED
        BY <1>5, <3>2, <4>3
    <3> QED
      BY <3>1, <3>2
  <2>3. job' = [op |-> "metadata", to |-> to, attempt |-> 1, k |-> next] /\ next' = next
    BY <1>5 DEF Attempt
  <2>4. JobInv' /\ Running' /\ ~Parted'
    <3> HIDE DEF to
    <3> QED BY <1>2, <1>5, <2>1, <2>3, LimitsAssumption
               DEF JobInv, Job, InBatch, Running, Parted, Held, BatchEnd, Lesser
  <2> QED
    BY <1>1, <1>5, <2>2, <2>4, StreamStep DEF SubInv
<1> QED
  BY <1>3, <1>4, <1>5 DEF PlanRange

(* A new anchor, where no block is stored.                                 *)
LEMMA ReanchorInv == SubInv /\ Reanchor => SubInv'
<1> SUFFICES ASSUME SubInv, Reanchor PROVE SubInv'
  OBVIOUS
<1>1. job.op = "reanchor" /\ Running /\ ~Parted
  BY DEF Reanchor, Running, Parted
<1>2. next > 0 /\ next - 1 \in Nat /\ ~Stored(next - 1) /\ GoodHeads(heads)
  BY <1>1 DEF SubInv, JobInv
<1>3. CASE Exit
  BY <1>3, ExitInv
<1>4. CASE ~Exit
  <2>1. /\ Known(next - 1)
        /\ heads' = Put(Drop(heads, next..tip), next - 1, HeadByNumber(next - 1))
        /\ tip' = next - 1
        /\ job' = [op |-> "wait"]
        /\ UNCHANGED <<nodeVars, live, storeVars, next, lowerBound>>
    BY <1>4 DEF Reanchor
  <2>2. HeadByNumber(next - 1) \in Block /\ Height(HeadByNumber(next - 1)) = next - 1
    BY <1>2, <2>1, HeadAt
  <2>3. GoodHeads(Drop(heads, next..tip))
    BY <1>2, DropGood
  <2>4. GoodHeads(heads') /\ Anchored(heads')
    <3> DEFINE hs == Drop(heads, next..tip)
    <3>1. GoodHeads(hs)
      BY <2>3
    <3>2. heads' = Put(hs, next - 1, HeadByNumber(next - 1))
      BY <2>1
    <3> HIDE DEF hs
    <3> QED
      BY <1>2, <2>2, <3>1, <3>2 DEF GoodHeads, Anchored, Put
  <2>5. JobInv' /\ Running'
    BY <2>1 DEF JobInv, Job, InBatch, Running
  <2> QED
    BY <1>1, <1>2, <2>1, <2>4, <2>5, StreamStep DEF SubInv
<1> QED
  BY <1>3, <1>4

(* The metadata grows from below, each block linked to the one before.     *)
LEMMA BlockMetadataInv == SubInv /\ BlockMetadata => SubInv'
<1> SUFFICES ASSUME SubInv, BlockMetadata PROVE SubInv'
  OBVIOUS
<1> DEFINE k == job.k
           head == IF k \in DOMAIN heads THEN heads[k] ELSE HeadByNumber(k)
           hs == Put(heads, k, head)
<1>1. job.op = "metadata" /\ Running /\ ~Parted /\ InBatch
  BY DEF BlockMetadata, Running, Parted, InBatch
<1>2. /\ next \in Nat /\ job.to \in Nat /\ job.to >= next /\ k \in Nat
      /\ job.attempt \in 1..BatchConsistencyAttempts
      /\ k >= next /\ k <= BatchEnd /\ BatchEnd \in Nat
      /\ Held(next, k - 1)
  <2>1. next \in Nat /\ job.to \in Nat /\ job.to >= next /\ k \in Nat /\ job.attempt \in 1..BatchConsistencyAttempts
    BY <1>1, JobFields DEF SubInv, JobInv
  <2>2. BatchEnd \in Nat
    BY <2>1, LimitsAssumption DEF BatchEnd, Lesser
  <2> QED
    BY <1>1, <2>1, <2>2 DEF SubInv, JobInv
<1>3. GoodHeads(heads) /\ Anchored(heads)
  BY <1>1 DEF SubInv
<1>4. CASE Exit
  BY <1>4, ExitInv
<1>5. CASE k \in DOMAIN heads \/ Known(k)
  <2>1. head \in Block /\ Height(head) = k
    BY <1>2, <1>3, <1>5, HeadAt DEF GoodHeads
  <2>2. /\ GoodHeads(hs) /\ Anchored(hs)
        /\ DOMAIN hs = DOMAIN heads \cup {k} /\ hs[k] = head
        /\ \A m \in DOMAIN heads : m # k => hs[m] = heads[m]
    <3>1. k >= next - 1 /\ ~(k = next - 1)
      BY <1>2
    <3> HIDE DEF k, head
    <3> QED BY <1>2, <1>3, <2>1, <3>1, PutGood
  <2> HIDE DEF hs
  <2>3. CASE /\ Linked(hs, k)
             /\ heads' = hs
             /\ job' = IF k < BatchEnd
                       THEN [job EXCEPT !.k = k + 1]
                       ELSE [op |-> "fetch", to |-> job.to, attempt |-> job.attempt,
                             k |-> next, raw |-> {}]
             /\ UNCHANGED <<nodeVars, live, storeVars, next, lowerBound, tip>>
    <3>1. \A n \in next..k : n \in DOMAIN hs /\ Linked(hs, n)
      <4> SUFFICES ASSUME NEW n \in next..k
                   PROVE  n \in DOMAIN hs /\ Linked(hs, n)
        OBVIOUS
      <4>1. CASE n = k
        BY <4>1, <2>2, <2>3
      <4>2. CASE n # k
        <5>1. n \in next..(k - 1)
          BY <4>2, <1>2
        <5>2. n \in DOMAIN heads /\ Linked(heads, n) /\ n - 1 # k
          BY <1>2, <5>1 DEF Held
        <5> QED
          BY <2>2, <4>2, <5>2 DEF Linked
      <4> QED
        BY <4>1, <4>2
    <3>2. CASE k < BatchEnd
      <4>1. job' = [job EXCEPT !.k = k + 1]
        BY <2>3, <3>2
      <4>2. job' \in Job /\ job'.op = "metadata" /\ job'.to = job.to /\ job'.k = k + 1
        BY <1>1, <1>2, <4>1 DEF SubInv, JobInv, Job
      <4>3. BatchEnd' = BatchEnd /\ next' = next
        BY <2>3, <4>2 DEF BatchEnd
      <4>4. Held(next, job.k - 1)'
        BY <1>2, <2>3, <3>1, <4>2, <4>3 DEF Held, Linked
      <4>5. JobInv' /\ Running' /\ ~Parted'
        BY <1>2, <3>2, <4>2, <4>3, <4>4 DEF JobInv, InBatch, Running, Parted
      <4> QED
        BY <1>1, <2>2, <2>3, <4>5, StreamStep DEF SubInv
    <3>3. CASE ~(k < BatchEnd)
      <4>1. k = BatchEnd
        BY <3>3, <1>2
      <4>2. job' = [op |-> "fetch", to |-> job.to, attempt |-> job.attempt, k |-> next, raw |-> {}]
        BY <2>3, <3>3
      <4>3. BatchEnd' = BatchEnd /\ next' = next
        BY <2>3, <4>2 DEF BatchEnd
      <4>4. Held(next, BatchEnd)'
        BY <2>3, <3>1, <4>1, <4>3 DEF Held, Linked
      <4>5. job' \in Job
        BY <1>2, <4>2 DEF Job
      <4>6. JobInv' /\ Running' /\ ~Parted'
        BY <1>2, <4>1, <4>2, <4>3, <4>4, <4>5 DEF JobInv, InBatch, Running, Parted
      <4> QED
        BY <1>1, <2>2, <2>3, <4>6, StreamStep DEF SubInv
    <3> QED
      BY <3>2, <3>3
  <2>4. CASE ~Linked(hs, k) /\ k = next /\ BoundaryMoved(hs)
    <3>1. next - 1 \in Nat
      BY <2>2, <2>4 DEF Linked, GoodHeads
    <3>2. CASE Stored(next - 1)
      <4>1. FindForkPoint(hs, next - 1, "replan", <<>>) /\ <<>> \in Seq(Block)
        BY <2>4, <3>2 DEF BoundaryMoved
      <4> QED
        BY <1>1, <2>2, <3>1, <4>1, FindForkPointInv
    <3>3. CASE ~Stored(next - 1)
      <4>1. heads' = hs /\ job' = [op |-> "reanchor"] /\ UNCHANGED <<nodeVars, live, storeVars, next, lowerBound, tip>>
        BY <2>4, <3>3 DEF BoundaryMoved
      <4>2. next' > 0 /\ ~Stored(next - 1)'
        BY <1>2, <3>1, <3>3, <4>1 DEF Stored, storeVars
      <4>3. JobInv' /\ Running' /\ ~Parted'
        BY <4>1, <4>2 DEF JobInv, Job, InBatch, Running, Parted
      <4> QED
        BY <1>1, <2>2, <4>1, <4>3, StreamStep DEF SubInv
    <3> QED
      BY <3>2, <3>3
  <2>5. CASE k > next /\ Retry(hs, (k - 1)..BatchEnd)
    <3>1. next - 1 \notin (k - 1)..BatchEnd
      BY <1>2, <2>5
    <3> QED
      BY <1>1, <2>2, <2>5, <3>1, RetryInv
  <2> QED
    <3> USE DEF hs
    <3> QED BY <1>1, <1>4, <1>5, <2>3, <2>4, <2>5 DEF BlockMetadata
<1> QED
  BY <1>4, <1>5 DEF BlockMetadata

(* A non-empty set of natural numbers has a least element.                 *)
LEMMA LeastNat ==
    ASSUME NEW S \in SUBSET Nat, S # {}
    PROVE  \E m \in S : \A o \in S : m <= o
<1> DEFINE R == {ss \in Nat \X Nat : ss[1] < ss[2]}
<1>1. IsWellFoundedOn(R, Nat)
  BY NatLessThanWellFounded DEF OpToRel
<1>2. PICK x \in S : \A y \in S : ~(<<y, x>> \in R)
  <2> HIDE DEF R
  <2> QED BY <1>1, WFMin
<1>3. \A y \in S : ~(y < x)
  <2> SUFFICES ASSUME NEW y \in S, y < x PROVE FALSE
    OBVIOUS
  <2>1. <<y, x>> \in Nat \X Nat
    OBVIOUS
  <2>2. <<y, x>> \in R
    BY <2>1
  <2> QED BY <1>2, <2>2
<1>4. \A y \in S : x <= y
  BY <1>3
<1> QED BY <1>4

(* eth_getLogs answers with rows of the asked range.                       *)
LEMMA NodeLogsAreRows ==
    ASSUME SubInv, NEW from \in Nat, NEW to \in Nat
    PROVE  \A l \in NodeLogs(from, to) :
              /\ l \in LogRow /\ l.n \in from..to
              /\ [l EXCEPT !.hash = NoHash] \in LogRow /\ [l EXCEPT !.hash = NoHash].n = l.n
<1> SUFFICES ASSUME NEW l \in NodeLogs(from, to)
             PROVE  /\ l \in LogRow /\ l.n \in from..to
                    /\ [l EXCEPT !.hash = NoHash] \in LogRow /\ [l EXCEPT !.hash = NoHash].n = l.n
  OBVIOUS
<1>1. PICK n \in from..to : Known(n) /\ l = [n |-> n, hash |-> HeadByNumber(n)]
  BY DEF NodeLogs
<1>2. n \in Nat /\ HeadByNumber(n) \in Block
  BY <1>1, HeadAt
<1> QED
  BY <1>1, <1>2 DEF LogRow

(* The logs of the windows before k are in hand, the metadata is complete. *)
LEMMA FetchWindowInv == SubInv /\ FetchWindow => SubInv'
<1> SUFFICES ASSUME SubInv, FetchWindow PROVE SubInv'
  OBVIOUS
<1>1. job.op = "fetch" /\ Running /\ ~Parted /\ InBatch
  BY DEF FetchWindow, Running, Parted, InBatch
<1>2. /\ next \in Nat /\ job.to \in Nat /\ job.to >= next /\ job.k \in Nat
      /\ job.attempt \in 1..BatchConsistencyAttempts
      /\ job.k >= next /\ job.k <= BatchEnd
      /\ job.raw \subseteq LogRow /\ \A l \in job.raw : l.n \in next..(job.k - 1)
      /\ Held(next, BatchEnd)
  BY <1>1, JobFields DEF SubInv, JobInv
<1>3. GoodHeads(heads) /\ Anchored(heads) /\ BatchEnd \in Nat
  BY <1>1, <1>2, LimitsAssumption DEF SubInv, BatchEnd, Lesser
<1>4. PICK w \in job.k..BatchEnd :
        \E omitted \in IF OmitsBlockHash THEN BOOLEAN ELSE {FALSE} :
          LET answer == {IF omitted THEN [l EXCEPT !.hash = NoHash] ELSE l : l \in NodeLogs(job.k, w)}
              raw == job.raw \cup answer
          IN  \/ /\ w < BatchEnd
                 /\ job' = [job EXCEPT !.k = w + 1, !.raw = raw]
                 /\ UNCHANGED <<nodeVars, live, storeVars, stream>>
              \/ w = BatchEnd /\ Disagreeing(raw) # {} /\ Retry(heads, Disagreeing(raw))
              \/ /\ w = BatchEnd /\ Disagreeing(raw) = {}
                 /\ job' = [op |-> "recheck", to |-> job.to, attempt |-> job.attempt,
                            raw |-> raw, todo |-> Logless(raw), moved |-> {}]
                 /\ UNCHANGED <<nodeVars, live, storeVars, stream>>
  BY DEF FetchWindow
<1>5. PICK omitted \in IF OmitsBlockHash THEN BOOLEAN ELSE {FALSE} :
          LET answer == {IF omitted THEN [l EXCEPT !.hash = NoHash] ELSE l : l \in NodeLogs(job.k, w)}
              raw == job.raw \cup answer
          IN  \/ /\ w < BatchEnd
                 /\ job' = [job EXCEPT !.k = w + 1, !.raw = raw]
                 /\ UNCHANGED <<nodeVars, live, storeVars, stream>>
              \/ w = BatchEnd /\ Disagreeing(raw) # {} /\ Retry(heads, Disagreeing(raw))
              \/ /\ w = BatchEnd /\ Disagreeing(raw) = {}
                 /\ job' = [op |-> "recheck", to |-> job.to, attempt |-> job.attempt,
                            raw |-> raw, todo |-> Logless(raw), moved |-> {}]
                 /\ UNCHANGED <<nodeVars, live, storeVars, stream>>
  BY <1>4
<1> DEFINE answer == {IF omitted THEN [l EXCEPT !.hash = NoHash] ELSE l : l \in NodeLogs(job.k, w)}
           raw == job.raw \cup answer
<1>6. \A l \in raw : l \in LogRow /\ l.n \in next..w
  <2>1. w \in Nat /\ job.k <= w
    BY <1>2, <1>3
  <2>2. \A l \in answer : l \in LogRow /\ l.n \in job.k..w
    <3> SUFFICES ASSUME NEW a \in answer
                 PROVE  a \in LogRow /\ a.n \in job.k..w
      OBVIOUS
    <3>1. PICK l \in NodeLogs(job.k, w) : a = IF omitted THEN [l EXCEPT !.hash = NoHash] ELSE l
      OBVIOUS
    <3>2. /\ l \in LogRow /\ l.n \in job.k..w
          /\ [l EXCEPT !.hash = NoHash] \in LogRow /\ [l EXCEPT !.hash = NoHash].n = l.n
      BY <1>2, <2>1, NodeLogsAreRows
    <3> QED
      BY <3>1, <3>2
  <2>3. \A l \in job.raw : l \in LogRow /\ l.n \in next..w
    BY <1>2, <2>1
  <2> HIDE DEF answer
  <2> QED
    BY <1>2, <2>1, <2>2, <2>3
<1> HIDE DEF raw
<1>7. CASE w < BatchEnd /\ job' = [job EXCEPT !.k = w + 1, !.raw = raw] /\ UNCHANGED <<nodeVars, live, storeVars, stream>>
  <2>0. w + 1 \in Nat /\ raw \in SUBSET LogRow /\ job \in Job
    BY <1>2, <1>3, <1>6 DEF SubInv, JobInv
  <2>1. /\ job' \in Job /\ job'.op = "fetch" /\ job'.to = job.to /\ job'.k = w + 1 /\ job'.raw = raw
    BY <1>1, <1>7, <2>0 DEF Job
  <2>2. BatchEnd' = BatchEnd /\ next' = next /\ Held(next, BatchEnd)'
    BY <1>2, <1>7, <2>1 DEF BatchEnd, stream, Held, Linked
  <2>3. job'.k \in next'..BatchEnd' /\ \A l \in job'.raw : l.n \in next'..(job'.k - 1)
    BY <1>2, <1>3, <1>6, <1>7, <2>1, <2>2
  <2>4. JobInv' /\ Running' /\ ~Parted'
    BY <1>2, <2>1, <2>2, <2>3 DEF JobInv, InBatch, Running, Parted
  <2> QED
    BY <1>1, <1>3, <1>7, <2>4, StreamStep DEF SubInv, stream
<1>8. CASE w = BatchEnd /\ Retry(heads, Disagreeing(raw))
  <2>1. next - 1 \notin Disagreeing(raw)
    BY <1>2, <1>6 DEF Disagreeing
  <2> QED
    BY <1>1, <1>3, <1>8, <2>1, RetryInv
<1>9. CASE /\ w = BatchEnd /\ Disagreeing(raw) = {}
           /\ job' = [op |-> "recheck", to |-> job.to, attempt |-> job.attempt,
                      raw |-> raw, todo |-> Logless(raw), moved |-> {}]
           /\ UNCHANGED <<nodeVars, live, storeVars, stream>>
  <2>1. Logless(raw) \subseteq next..BatchEnd /\ Logless(raw) \subseteq Nat
    BY <1>2, <1>3 DEF Logless
  <2>2. \A l \in raw : l.n \in next..BatchEnd /\ l.hash = heads[l.n]
    BY <1>6, <1>9 DEF Disagreeing
  <2>3. job' \in Job
    BY <1>2, <1>6, <1>9, <2>1 DEF Job
  <2>4. BatchEnd' = BatchEnd /\ next' = next /\ heads' = heads /\ Held(next, BatchEnd)'
    BY <1>2, <1>9 DEF BatchEnd, stream, Held, Linked
  <2>5. JobInv' /\ Running' /\ ~Parted'
    BY <1>2, <1>9, <2>1, <2>2, <2>3, <2>4 DEF JobInv, InBatch, Running, Parted
  <2> QED
    BY <1>1, <1>3, <1>9, <2>5, StreamStep DEF SubInv, stream
<1> QED
  <2> USE DEF raw
  <2> QED BY <1>5, <1>7, <1>8, <1>9

(* The second read of a logless block changes no head.                     *)
LEMMA RecheckBlockInv == SubInv /\ RecheckBlock => SubInv'
<1> SUFFICES ASSUME SubInv, RecheckBlock PROVE SubInv'
  OBVIOUS
<1> DEFINE n == CHOOSE m \in job.todo : \A o \in job.todo : m <= o
<1>1. job.op = "recheck" /\ Running /\ ~Parted /\ InBatch
  BY DEF RecheckBlock, Running, Parted, InBatch
<1>2. /\ job.todo \subseteq Nat /\ job.moved \subseteq Nat /\ job.to >= next
      /\ job.todo \subseteq next..BatchEnd /\ job.moved \subseteq next..BatchEnd
      /\ Held(next, BatchEnd)
      /\ \A l \in job.raw : l.n \in next..BatchEnd /\ l.hash = heads[l.n]
  BY <1>1, JobFields DEF SubInv, JobInv
<1>3. n \in job.todo
  <2>1. \E m \in job.todo : \A o \in job.todo : m <= o
    <3>1. job.todo # {} /\ job.todo \subseteq Nat
      BY <1>2 DEF RecheckBlock
    <3> QED
      BY <3>1, LeastNat
  <2> QED
    BY <2>1
<1>4. CASE Exit
  BY <1>4, ExitInv
<1>5. CASE /\ job' = [job EXCEPT !.todo = @ \ {n},
                                 !.moved = IF HeadByNumber(n) = heads[n] THEN @ ELSE @ \cup {n}]
           /\ UNCHANGED <<nodeVars, live, storeVars, stream>>
  <2> HIDE DEF n
  <2>1. /\ job' \in Job /\ job'.op = "recheck" /\ job'.to = job.to /\ job'.raw = job.raw
        /\ job'.todo = job.todo \ {n} /\ job'.moved \subseteq job.moved \cup {n}
    BY <1>1, <1>2, <1>3, <1>5 DEF SubInv, JobInv, Job
  <2>2. BatchEnd' = BatchEnd /\ next' = next /\ heads' = heads /\ Held(next, BatchEnd)'
    BY <1>2, <1>5, <2>1 DEF BatchEnd, stream, Held, Linked
  <2>3. JobInv' /\ Running' /\ ~Parted'
    BY <1>2, <1>3, <2>1, <2>2 DEF JobInv, InBatch, Running, Parted
  <2>4. GoodHeads(heads) /\ Anchored(heads)
    BY <1>1 DEF SubInv
  <2> QED
    BY <1>1, <1>5, <2>3, <2>4, StreamStep DEF SubInv, stream
<1> QED
  BY <1>4, <1>5 DEF RecheckBlock

(* A block that moved is dropped, and the batch read again.                *)
LEMMA RecheckFindsMoveInv == SubInv /\ RecheckFindsMove => SubInv'
<1> SUFFICES ASSUME SubInv, RecheckFindsMove PROVE SubInv'
  OBVIOUS
<1>1. job.op = "recheck" /\ ~Parted /\ InBatch /\ Retry(heads, job.moved)
  BY DEF RecheckFindsMove, Parted, InBatch
<1>2. next - 1 \notin job.moved /\ GoodHeads(heads) /\ Anchored(heads)
  BY <1>1 DEF SubInv, JobInv
<1> QED
  BY <1>1, <1>2, RetryInv

(* The batch that is ready passes every check of WriteRange.               *)
LEMMA ReadyBatch ==
    ASSUME SubInv, ReadyToWrite
    PROVE  /\ next \in Nat /\ BatchEnd \in Nat /\ next <= BatchEnd /\ BatchEnd <= job.to
           /\ Metadata \in [next..BatchEnd -> Block]
           /\ \A n \in next..BatchEnd : n \in DOMAIN heads /\ Linked(heads, n)
           /\ Kept(job.raw) \subseteq LogRow
           /\ \A l \in Kept(job.raw) : l.n \in next..BatchEnd /\ l.hash = heads[l.n]
           /\ WriteRangeAllowed(next, BatchEnd, Metadata, Kept(job.raw))
<1>1. job.op = "recheck" /\ Running /\ InBatch
  BY DEF ReadyToWrite, Running, InBatch
<1>2. /\ next \in Nat /\ job.to \in Nat /\ job.to >= next
      /\ job.raw \subseteq LogRow /\ Held(next, BatchEnd)
      /\ \A l \in job.raw : l.n \in next..BatchEnd /\ l.hash = heads[l.n]
  BY <1>1, JobFields DEF SubInv, JobInv
<1>3. BatchEnd \in Nat /\ next <= BatchEnd /\ BatchEnd <= job.to
  BY <1>2, LimitsAssumption DEF BatchEnd, Lesser
<1>4. \A n \in next..BatchEnd : n \in DOMAIN heads /\ heads[n] \in Block /\ Linked(heads, n)
  BY <1>2 DEF SubInv, GoodHeads, Held
<1>5. Metadata \in [next..BatchEnd -> Block]
  BY <1>4 DEF Metadata
<1>6. Kept(job.raw) \subseteq job.raw
  BY DEF Kept
<1>7. LogsMatchBlocks(Metadata, Kept(job.raw))
  BY <1>2, <1>4, <1>6, BlockIsPath DEF LogsMatchBlocks, Metadata
<1>8. TouchesCoverage(next, BatchEnd)
  BY <1>1, <1>2, <1>3 DEF SubInv, TouchesCoverage, StoreSide, StoreInv, StoreTypeOK, Coverage
<1> QED
  BY <1>2, <1>3, <1>4, <1>5, <1>6, <1>7, <1>8 DEF WriteRangeAllowed, Metadata

(* The batch continues the stored chain from its head, or starts it.       *)
LEMMA WriteBatchInv == SubInv /\ WriteBatch => SubInv'
<1> SUFFICES ASSUME SubInv, WriteBatch PROVE SubInv'
  OBVIOUS
<1>1. /\ next \in Nat /\ BatchEnd \in Nat /\ next <= BatchEnd /\ BatchEnd <= job.to
      /\ Metadata \in [next..BatchEnd -> Block] /\ Kept(job.raw) \subseteq LogRow
      /\ \A n \in next..BatchEnd : n \in DOMAIN heads /\ Linked(heads, n)
  BY ReadyBatch DEF WriteBatch
<1>2. /\ job.op = "recheck" /\ Running /\ job.to \in Nat /\ job.attempt \in 1..BatchConsistencyAttempts
      /\ GoodHeads(heads) /\ Anchored(heads)
      /\ cursor.start \in Nat /\ cursor.head \in Nat /\ (HasCursor => cursor.start <= cursor.head)
      /\ StoreInv
  BY JobFields DEF WriteBatch, ReadyToWrite, SubInv, JobInv, InBatch, Parted, Running, StoreSide, StoreInv, StoreTypeOK, Coverage
<1>3. WriteRange(next, BatchEnd, Metadata, Kept(job.raw))
  BY DEF WriteBatch
<1>4. StoreInv'
  BY <1>1, <1>2, <1>3, WriteRangeInv
<1>5. /\ DOMAIN blocks' = DOMAIN blocks \cup next..BatchEnd
      /\ \A n \in next..BatchEnd : blocks'[n] = heads[n]
      /\ \A n \in DOMAIN blocks \ (next..BatchEnd) : blocks'[n] = blocks[n]
      /\ cursor' = IF HasCursor THEN [start |-> cursor.start, head |-> BatchEnd]
                                ELSE [start |-> next, head |-> BatchEnd]
  <2>1. HasCursor => next = cursor.head + 1
    BY <1>2 DEF SubInv
  <2>2. MergedCoverage(next, BatchEnd) =
           IF HasCursor THEN [start |-> cursor.start, head |-> BatchEnd]
                        ELSE [start |-> next, head |-> BatchEnd]
    BY <1>1, <1>2, <2>1 DEF MergedCoverage, Lesser, Greater
  <2> QED
    BY <1>1, <1>3, <2>2 DEF WriteRange, Metadata
<1>6. HasCursor' /\ cursor'.head = BatchEnd /\ Covered' = Covered \cup next..BatchEnd
      /\ DOMAIN blocks = Covered
  <2>1. HasCursor => next = cursor.head + 1
    BY <1>2 DEF SubInv
  <2>2. ~HasCursor => Covered = {}
    BY DEF HasCursor, NoCursor, Covered
  <2>3. DOMAIN blocks = Covered
    BY DEF SubInv, StoreSide
  <2>4. cursor'.head = BatchEnd /\ HasCursor'
    BY <1>1, <1>2, <1>5, <2>1 DEF HasCursor, NoCursor
  <2>5. CASE HasCursor
    BY <1>1, <1>2, <1>5, <2>1, <2>3, <2>4, <2>5 DEF Covered
  <2>6. CASE ~HasCursor
    BY <1>1, <1>5, <2>2, <2>3, <2>4, <2>6 DEF Covered
  <2> QED
    BY <2>5, <2>6
<1>7. StoreIsOneChain'
  <2> SUFFICES ASSUME NEW n \in Covered'
               PROVE  /\ Height(blocks'[n]) = n
                      /\ n > cursor'.start => Parent(blocks'[n]) = blocks'[n - 1]
    BY DEF StoreIsOneChain
  <2>0. n \in Nat
    BY <1>1, <1>2, <1>6 DEF Covered
  <2>1. CASE n \in next..BatchEnd
    <3>1. blocks'[n] = heads[n] /\ Height(heads[n]) = n /\ Linked(heads, n)
      BY <1>1, <1>2, <1>5, <2>1 DEF GoodHeads
    <3>2. CASE n > next
      <4>1. n - 1 \in next..BatchEnd
        BY <1>1, <2>1, <3>2
      <4> QED
        BY <1>1, <1>5, <3>1, <4>1 DEF Linked
    <3>3. CASE n = next /\ HasCursor
      <4>1. next - 1 = cursor.head /\ next - 1 \in Covered /\ next > 0
        BY <1>1, <1>2, <3>3 DEF SubInv, Covered
      <4>2. next - 1 \in DOMAIN heads /\ heads[next - 1] = blocks[next - 1]
        BY <1>2, <1>6, <4>1 DEF Anchored, GoodHeads, Stored
      <4>3. blocks'[next - 1] = blocks[next - 1]
        BY <1>1, <1>5, <1>6, <4>1
      <4> QED
        BY <3>1, <3>3, <4>2, <4>3 DEF Linked
    <3>4. CASE n = next /\ ~HasCursor
      BY <1>1, <1>5, <3>1, <3>4
    <3> QED
      BY <1>1, <2>1, <3>2, <3>3, <3>4
  <2>2. CASE n \notin next..BatchEnd
    <3>1. n \in Covered /\ HasCursor
      BY <1>6, <2>2 DEF Covered, HasCursor, NoCursor
    <3>2. next = cursor.head + 1 /\ cursor'.start = cursor.start
      BY <1>2, <1>5, <3>1 DEF SubInv
    <3>3. blocks'[n] = blocks[n]
      BY <1>5, <1>6, <2>2, <3>1
    <3>4. n > cursor.start => n - 1 \in Covered /\ n - 1 \notin next..BatchEnd
      BY <1>1, <1>2, <2>0, <3>1, <3>2 DEF Covered
    <3>5. n > cursor.start => blocks'[n - 1] = blocks[n - 1]
      BY <1>5, <1>6, <3>4
    <3> QED
      BY <3>1, <3>2, <3>3, <3>5 DEF SubInv, StoreSide, StoreIsOneChain
  <2> QED
    BY <2>1, <2>2
<1>8. /\ next' = BatchEnd + 1
      /\ heads' = Drop(heads, {n \in DOMAIN heads : n < BatchEnd})
      /\ UNCHANGED <<nodeVars, live, lowerBound, tip>>
  BY DEF WriteBatch
<1>9. GoodHeads(heads)' /\ Anchored(heads)'
  <2>1. /\ DOMAIN heads' = {n \in DOMAIN heads : ~(n < BatchEnd)}
        /\ \A n \in DOMAIN heads' : heads'[n] = heads[n]
    BY <1>8 DEF Drop, Restrict
  <2>2. next' - 1 = BatchEnd /\ BatchEnd \in DOMAIN heads'
    BY <1>1, <1>8, <2>1
  <2>3. blocks'[BatchEnd] = heads[BatchEnd]
    BY <1>1, <1>5
  <2> QED
    BY <1>1, <1>2, <2>1, <2>2, <2>3 DEF GoodHeads, Anchored
<1>10. JobInv'
  <2>1. CASE BatchEnd = job.to
    BY <2>1 DEF WriteBatch, JobInv, Job, InBatch
  <2>2. CASE BatchEnd # job.to
    <3>1. job' = [op |-> "metadata", to |-> job.to, attempt |-> 1, k |-> BatchEnd + 1] /\ next' = BatchEnd + 1
      BY <2>2, <1>8 DEF WriteBatch, Attempt
    <3>2. job.to >= BatchEnd + 1
      BY <1>1, <1>2, <2>2
    <3> HIDE DEF Attempt
    <3>3. BatchEnd' = Lesser(next' + CatchupBatchBlocks - 1, job.to)
      BY <3>1 DEF BatchEnd
    <3>4. BatchEnd' >= next' /\ BatchEnd' \in Nat /\ next' \in Nat
      BY <1>1, <1>2, <3>1, <3>2, <3>3, LimitsAssumption DEF Lesser
    <3>5. job' \in Job
      BY <1>1, <1>2, <3>1, LimitsAssumption DEF Job
    <3>6. Held(next, job.k - 1)'
      BY <3>1, <3>4 DEF Held
    <3> QED
      BY <3>1, <3>2, <3>4, <3>5, <3>6 DEF JobInv, InBatch
  <2> QED
    BY <2>1, <2>2
<1>11. canon' \in Block /\ tips' \subseteq Block /\ live' \in BOOLEAN /\ lowerBound' \in Nat /\ tip' \in Nat
  BY <1>8 DEF SubInv, nodeVars
<1>12. DOMAIN blocks' = Covered' /\ next' \in Nat /\ next' = cursor'.head + 1
  BY <1>1, <1>5, <1>6, <1>8
<1> QED
  BY <1>4, <1>7, <1>9, <1>10, <1>11, <1>12 DEF SubInv, StoreSide

-----------------------------------------------------------------------------
(* What a backfill published is one chain.                                 *)
LEMMA ChainRowsInv ==
    ASSUME NEW c \in Block, NEW start \in Nat, NEW head \in Nat,
           start <= head, head <= Height(c),
           cursor = [start |-> start, head |-> head], ChainRows(c, start, head)
    PROVE  StoreSide
<1>1. \A n \in start..head : n \in Nat /\ BlockAt(c, n) \in Block /\ Height(BlockAt(c, n)) = n
  BY BlockAtIsBlock, BlockIsPath
<1>2. /\ Covered = start..head /\ HasCursor /\ DOMAIN blocks = start..head
      /\ \A n \in start..head : blocks[n] = BlockAt(c, n)
  BY DEF Covered, HasCursor, NoCursor, ChainRows
<1>3. \A l \in logs : l.n \in start..head /\ l.hash = BlockAt(c, l.n) /\ l \in StoredLogRow
  BY <1>1 DEF ChainRows, StoredLogRow
<1>4. StoreInv
  BY <1>1, <1>2, <1>3 DEF StoreInv, StoreTypeOK, Coverage, CoverageComplete, LogsPaired
<1>5. StoreIsOneChain
  <2> SUFFICES ASSUME NEW n \in start..head
               PROVE  n > start => Parent(BlockAt(c, n)) = BlockAt(c, n - 1)
    BY <1>1, <1>2 DEF StoreIsOneChain
  <2> SUFFICES ASSUME n > start
               PROVE  Parent(BlockAt(c, n)) = BlockAt(c, n - 1)
    OBVIOUS
  <2>1. c \in Seq(Label) /\ n \in Nat /\ n > 0 /\ n + 1 <= Len(c)
    BY BlockIsPath DEF Height
  <2>2. Len(BlockAt(c, n)) = n + 1
    BY <2>1 DEF BlockAt
  <2> QED
    BY <2>1, <2>2 DEF Parent, BlockAt
<1> QED
  BY <1>2, <1>4, <1>5 DEF StoreSide

(* The invariant holds at first, and every step keeps it.                  *)
LEMMA InitInv == Init => SubInv
<1> SUFFICES ASSUME Init PROVE SubInv
  OBVIOUS
<1>1. canon \in Block /\ Height(canon) = InitHeight /\ tips \subseteq Block /\ live \in BOOLEAN
  BY DEF Init
<1>2. StoreSide
  <2>1. CASE StoreInit
    <3>1. StoreInv
      BY <2>1, StoreInitInv
    <3>2. DOMAIN blocks = {} /\ Covered = {}
      BY <2>1 DEF StoreInit, Covered, NoCursor
    <3> QED
      BY <3>1, <3>2 DEF StoreSide, StoreIsOneChain
  <2>2. CASE \E start, head \in 0..(InitHeight - ConfirmationBlocks) :
               /\ start <= head
               /\ cursor = [start |-> start, head |-> head]
               /\ ChainRows(canon, start, head)
    BY <1>1, <2>2, ChainRowsInv, ConfigAssumption, LimitsAssumption
  <2> QED
    BY <2>1, <2>2 DEF Init
<1>3. GoodHeads(heads)
  BY DEF Init, GoodHeads, NoHeads
<1>4. JobInv
  BY DEF Init, JobInv, Job, InBatch
<1> QED
  BY <1>1, <1>2, <1>3, <1>4 DEF Init, SubInv, Running, Parted

(* Every step keeps the invariant.                                         *)
LEMMA NextInv == SubInv /\ [Next]_vars => SubInv'
<1> SUFFICES ASSUME SubInv, [Next]_vars PROVE SubInv'
  OBVIOUS
<1>1. CASE NodeMoves \/ SubscriptionGoesSilent
  BY <1>1, NodeMovesInv
<1>2. CASE \E sb \in {0, StartBlock} : Start(sb)
  BY <1>2, StartInv
<1>3. CASE Receive
  BY <1>3, ReceiveInv
<1>4. CASE Crash \/ HeadTimeout \/ ForkWalkFails
  BY <1>4, ExitInv DEF Crash, HeadTimeout, ForkWalkFails
<1>5. CASE OperatorRewind
  BY <1>5, OperatorRewindInv
<1>6. CASE VerifyResumePoint \/ ForkWalkStep \/ RecoverDeepReorg
  BY <1>6, VerifyResumePointInv, ForkWalkStepInv, RecoverDeepReorgInv
<1>7. CASE RecordIgnored \/ RecordWrittenHeight \/ RecordUnwrittenHeight \/ RecordFarHead
  BY <1>7, RecordIgnoredInv, RecordWrittenHeightInv, RecordUnwrittenHeightInv
<1>8. CASE ReconcileEnds \/ ReconcileFetch
  BY <1>8, ReconcileEndsInv, ReconcileFetchInv
<1>9. CASE PlanRange \/ Reanchor \/ BlockMetadata
  BY <1>9, PlanRangeInv, ReanchorInv, BlockMetadataInv
<1>10. CASE FetchWindow \/ RecheckBlock \/ RecheckFindsMove \/ WriteBatch
  BY <1>10, FetchWindowInv, RecheckBlockInv, RecheckFindsMoveInv, WriteBatchInv
<1>11. CASE UNCHANGED vars
  <2>1. StoreSide'
    BY <1>11 DEF vars, SubInv, StoreSide, StoreInv, StoreTypeOK, HasCursor, CoverageComplete,
                 LogsPaired, StoreIsOneChain, Covered
  <2>2. GoodHeads(heads)' /\ (~Parted => Anchored(heads))'
    BY <1>11 DEF vars, SubInv, GoodHeads, Anchored, Stored, Parted
  <2>3. JobInv'
    BY <1>11 DEF vars, SubInv, JobInv, InBatch, Held, BatchEnd, TheHeight, TheHead, Stored, Linked
  <2> QED
    BY <1>11, <2>1, <2>2, <2>3 DEF vars, SubInv, Running, HasCursor
<1> QED
  BY <1>1, <1>2, <1>3, <1>4, <1>5, <1>6, <1>7, <1>8, <1>9, <1>10, <1>11 DEF Next, Step

(* The invariant, for every behaviour of the subscriber.                   *)
THEOREM SubscriberInvariant == Spec => []SubInv
  BY InitInv, NextInv, PTL DEF Spec

(* Type correctness; the attempts at a batch stay within their bound.      *)
THEOREM TypeCorrect == Spec => []TypeOK
<1>1. SubInv => TypeOK
  BY DEF SubInv, TypeOK, StoreSide, StoreInv, GoodHeads, JobInv
<1> QED
  BY <1>1, SubscriberInvariant, PTL

(* The covered blocks are one chain, each the child of the one below: the  *)
(* parent checks of blockMetadata reach across batches, restarts and       *)
(* rewinds.                                                                *)
THEOREM OneChain == Spec => []StoreIsOneChain
<1>1. SubInv => StoreIsOneChain
  BY DEF SubInv, StoreSide
<1> QED
  BY <1>1, SubscriberInvariant, PTL

(* The stream stands right above the cursor and holds the hash that is     *)
(* stored there, after every write, recovery and restart.                  *)
THEOREM StreamInStep == Spec => []StreamMatchesStore
<1>1. SubInv => StreamMatchesStore
  BY DEF SubInv, StreamMatchesStore, GoodHeads, Anchored, Parted, Running, Stored
<1> QED
  BY <1>1, SubscriberInvariant, PTL

(* WriteRange never refuses the batch that ingestBatch brings to it: its   *)
(* checks are a second line of defence only.                               *)
THEOREM NeverRefused == Spec => []WriteNeverRefused
<1>1. SubInv => WriteNeverRefused
  BY ReadyBatch DEF WriteNeverRefused
<1> QED
  BY <1>1, SubscriberInvariant, PTL

(* Whatever the node answers and whenever the process dies, ingestion      *)
(* leaves no covered height without its block row, and no log row under    *)
(* another block than its own (WriteRange, Rewind, recoverDeepReorg).      *)
THEOREM TablesSafe == Spec => [](CoverageComplete /\ LogsPaired)
<1>1. SubInv => CoverageComplete /\ LogsPaired
  BY DEF SubInv, StoreSide, StoreInv
<1> QED
  BY <1>1, SubscriberInvariant, PTL
=============================================================================
