------------------------- MODULE SubscriberPromises -------------------------
(***************************************************************************)
(* What the subscriber promises its readers, on top of its invariant:      *)
(*   - it implements module CoveredChain (SubscriberRefines);              *)
(*   - no process fills a gap above the bound (CatchupBounded);            *)
(*   - only confirmed blocks are written, if the node's tip never drops    *)
(*     (OnlyConfirmed).                                                    *)
(***************************************************************************)
EXTENDS SubscriberProofs

(* What the node answers for a height is a block of its chain.             *)
LEMMA HeadIsCanonical ==
    ASSUME SubInv, NEW n \in Nat, Known(n)
    PROVE  /\ IsOnChain(HeadByNumber(n), canon)
           /\ HeadByNumber(n) \in Block /\ Height(HeadByNumber(n)) = n
<1>1. HeadByNumber(n) \in Block /\ Height(HeadByNumber(n)) = n
  BY HeadAt
<1>2. Len(HeadByNumber(n)) = n + 1 /\ n + 1 <= Len(canon)
  BY <1>1, BlockIsPath DEF Height, Known, SubInv
<1> QED
  BY <1>1, <1>2 DEF IsOnChain, HeadByNumber

-----------------------------------------------------------------------------
(* Both modules speak of the same blocks.                                  *)
LEMMA SameBlocks == Promise!Block = Block /\ Promise!Heights = Heights
  BY DEF Promise!Block, Block, Promise!Heights, Heights, Promise!Height, Height

(* What is served at a covered height: its block, and logs of that block.  *)
LEMMA ServedFields ==
    ASSUME StoreSide, NEW n \in Covered
    PROVE  /\ Served[n].block = blocks[n] /\ blocks[n] \in Block
           /\ Served[n].logs \subseteq {blocks[n]}
           /\ n \in DOMAIN blocks
           /\ Served[n] = [block |-> blocks[n], logs |-> {l.hash : l \in {r \in logs : r.n = n}}]
  BY DEF StoreSide, StoreInv, StoreTypeOK, LogsPaired, Served

(* The covered interval is a run of the promise.                           *)
CoverageIsRun ==
    /\ cursor.start \in Heights /\ cursor.head \in Heights /\ cursor.start <= cursor.head
    /\ Promise!IsRun(Served, cursor.start, cursor.head)

(* It is, whenever something is covered.                                   *)
LEMMA ServedIsRun == StoreSide /\ HasCursor => CoverageIsRun
<1> SUFFICES ASSUME StoreSide, HasCursor PROVE CoverageIsRun
  OBVIOUS
<1>1. cursor.start \in Nat /\ cursor.head \in Nat /\ cursor.start <= cursor.head
  BY DEF StoreSide, StoreInv, StoreTypeOK, Coverage
<1>2. \A n \in Covered : /\ Height(blocks[n]) = n
                         /\ n > cursor.start => Parent(blocks[n]) = blocks[n - 1]
  BY DEF StoreSide, StoreIsOneChain
<1>3. cursor.start \in Covered /\ cursor.head \in Covered
  BY <1>1 DEF Covered
<1>4. cursor.start \in Heights /\ cursor.head \in Heights
  BY <1>2, <1>3, ServedFields DEF Heights
<1>5. ASSUME NEW n \in cursor.start..cursor.head
      PROVE  /\ Served[n] \in Promise!Entry
             /\ Promise!Height(Served[n].block) = n
             /\ Served[n].logs \subseteq {Served[n].block}
             /\ n > cursor.start => Promise!Parent(Served[n].block) = Served[n - 1].block
  <2>1. n \in Covered /\ n \in Nat
    BY <1>1 DEF Covered
  <2>2. /\ Served[n].block = blocks[n] /\ blocks[n] \in Block
        /\ Served[n].logs \subseteq {blocks[n]}
        /\ Served[n] = [block |-> blocks[n], logs |-> {l.hash : l \in {r \in logs : r.n = n}}]
    BY <2>1, ServedFields
  <2>3. Served[n] \in Promise!Entry
    BY <2>2, SameBlocks DEF Promise!Entry
  <2>4. Promise!Height(Served[n].block) = n
    BY <1>2, <2>1, <2>2 DEF Promise!Height, Height
  <2>5. ASSUME n > cursor.start PROVE Promise!Parent(Served[n].block) = Served[n - 1].block
    <3>1. n - 1 \in Covered
      BY <1>1, <2>1, <2>5 DEF Covered
    <3>2. Served[n - 1].block = blocks[n - 1]
      BY <3>1, ServedFields
    <3> QED
      BY <1>2, <2>1, <2>2, <2>5, <3>2 DEF Promise!Parent, Parent
  <2> QED
    BY <2>2, <2>3, <2>4, <2>5
<1>6. DOMAIN Served = cursor.start..cursor.head
  BY DEF Served, Covered
<1> QED
  BY <1>1, <1>4, <1>5, <1>6 DEF CoverageIsRun, Promise!IsRun

(* The initial states map to initial states.                               *)
LEMMA InitPromise == Init => Promise!Init
<1> SUFFICES ASSUME Init PROVE Promise!Init
  OBVIOUS
<1>1. StoreSide
  BY InitInv DEF SubInv
<1>2. CASE HasCursor
  BY <1>1, <1>2, ServedIsRun, SameBlocks DEF CoverageIsRun, Promise!Init
<1>3. CASE ~HasCursor
  <2>1. Covered = {}
    BY <1>3 DEF HasCursor, NoCursor, Covered
  <2>2. Served = [n \in {} |-> Promise!NoHash]
    BY <2>1 DEF Served
  <2> QED
    BY <2>2 DEF Promise!Init
<1> QED
  BY <1>2, <1>3

(* A rewind cuts the run back to one of its blocks.                        *)
LEMMA RewindPromise ==
    ASSUME StoreSide, NEW to \in Nat, Rewind(to)
    PROVE  Promise!CutBack
<1>1. /\ logs' = {l \in logs : l.n <= to}
      /\ DOMAIN blocks' = {m \in DOMAIN blocks : m <= to}
      /\ \A n \in DOMAIN blocks' : blocks'[n] = blocks[n]
      /\ cursor' = [start |-> cursor.start, head |-> to]
      /\ cursor.start <= to /\ to < cursor.head
      /\ cursor.start \in Nat /\ cursor.head \in Nat
      /\ DOMAIN blocks = Covered
  BY DEF Rewind, RewindAllowed, StoreSide, StoreInv, StoreTypeOK, Coverage
<1>2. to \in DOMAIN Served /\ Covered' = {m \in DOMAIN Served : m <= to}
  BY <1>1 DEF Covered, Served
<1>3. \A n \in Covered' : blocks'[n] = blocks[n] /\ {r \in logs' : r.n = n} = {r \in logs : r.n = n}
  BY <1>1, <1>2 DEF Served
<1>4. Served' = [n \in {m \in DOMAIN Served : m <= to} |-> Served[n]]
  BY <1>2, <1>3 DEF Served
<1> QED
  BY <1>2, <1>4 DEF Promise!CutBack

(* A written batch extends the run, or is its first part.                  *)
LEMMA WritePromise == SubInv /\ WriteBatch => Promise!Extend
<1> SUFFICES ASSUME SubInv, WriteBatch PROVE Promise!Extend
  OBVIOUS
<1>1. SubInv' /\ StoreSide /\ StoreSide'
  BY WriteBatchInv DEF SubInv
<1>2. /\ next \in Nat /\ BatchEnd \in Nat /\ next <= BatchEnd
      /\ \A l \in Kept(job.raw) : l.n \in next..BatchEnd
  BY ReadyBatch DEF WriteBatch
<1>3. /\ logs' = {l \in logs : l.n \notin next..BatchEnd} \cup Kept(job.raw)
      /\ \A n \in DOMAIN blocks \ (next..BatchEnd) : blocks'[n] = blocks[n]
      /\ cursor' = MergedCoverage(next, BatchEnd)
  BY DEF WriteBatch, WriteRange
<1>4. cursor.start \in Nat /\ cursor.head \in Nat /\ (HasCursor => cursor.start <= cursor.head /\ next = cursor.head + 1)
  BY DEF WriteBatch, ReadyToWrite, Running, SubInv, StoreSide, StoreInv, StoreTypeOK, Coverage
<1>5. HasCursor' /\ (HasCursor => cursor'.start = cursor.start /\ cursor'.head = BatchEnd)
  BY <1>2, <1>3, <1>4 DEF MergedCoverage, Lesser, Greater, HasCursor, NoCursor
<1>6. /\ cursor'.start \in Heights /\ cursor'.head \in Heights /\ cursor'.start <= cursor'.head
      /\ Promise!IsRun(Served', cursor'.start, cursor'.head)
  <2>1. (StoreSide /\ HasCursor => CoverageIsRun)'
    BY ServedIsRun, PTL
  <2>2. CoverageIsRun'
    BY <1>1, <1>5, <2>1
  <2> QED
    BY <2>2 DEF CoverageIsRun, Promise!IsRun
<1>7. CASE HasCursor
  <2>1. /\ \A n \in Covered : n \in Covered' /\ n \notin next..BatchEnd
        /\ cursor.start \in Covered
    BY <1>2, <1>4, <1>5, <1>7 DEF Covered
  <2>2. \A n \in Covered : blocks'[n] = blocks[n] /\ {r \in logs' : r.n = n} = {r \in logs : r.n = n}
    BY <1>1, <1>2, <1>3, <2>1 DEF StoreSide
  <2>3. \A n \in DOMAIN Served : Served'[n] = Served[n]
    BY <2>1, <2>2 DEF Served
  <2>4. DOMAIN Served \subseteq cursor'.start..cursor'.head /\ cursor'.start \in DOMAIN Served
    BY <1>5, <1>7, <2>1 DEF Served, Covered
  <2> QED
    BY <1>6, <2>3, <2>4, SameBlocks DEF Promise!Extend
<1>8. CASE ~HasCursor
  <2>1. Covered = {}
    BY <1>8 DEF HasCursor, NoCursor, Covered
  <2>2. Served = [n \in {} |-> Promise!NoHash] /\ DOMAIN Served = {}
    BY <2>1 DEF Served
  <2> QED
    BY <1>6, <2>2, SameBlocks DEF Promise!Extend
<1> QED
  BY <1>7, <1>8

(* What is served depends on the tables only.                              *)
LEMMA ServedUnchanged == UNCHANGED storeVars => UNCHANGED Served
  BY DEF storeVars, Served, Covered

(* Only three steps change the tables.                                     *)
LEMMA TablesUnchanged ==
    ASSUME [Next]_vars, ~OperatorRewind, ~RecoverDeepReorg, ~WriteBatch
    PROVE  UNCHANGED storeVars
<1>1. ASSUME Exit PROVE UNCHANGED storeVars
  BY <1>1 DEF Exit
<1>2. ASSUME NEW hs, NEW st, NEW rep, FinishRecord(hs, st, rep) PROVE UNCHANGED storeVars
  BY <1>2 DEF FinishRecord
<1>3. ASSUME NEW hs, NEW h, NEW a, NEW b, FindForkPoint(hs, h, a, b) PROVE UNCHANGED storeVars
  BY <1>1, <1>3 DEF FindForkPoint
<1>4. ASSUME NEW hs, NEW st, Retry(hs, st) PROVE UNCHANGED storeVars
  BY <1>1, <1>4 DEF Retry
<1>5. CASE NodeMoves \/ SubscriptionGoesSilent \/ (\E sb \in {0, StartBlock} : Start(sb))
  BY <1>5 DEF NodeMoves, SubscriptionGoesSilent, Start
<1>6. CASE Receive \/ Crash \/ HeadTimeout \/ ForkWalkFails
  BY <1>1, <1>6 DEF Receive, Crash, HeadTimeout, ForkWalkFails
<1>7. CASE VerifyResumePoint \/ ForkWalkStep
  BY <1>1, <1>3, <1>7 DEF VerifyResumePoint, ForkWalkStep
<1>8. CASE RecordIgnored \/ RecordWrittenHeight \/ RecordUnwrittenHeight \/ RecordFarHead
  BY <1>1, <1>2, <1>3, <1>8 DEF RecordIgnored, RecordWrittenHeight, RecordUnwrittenHeight, RecordFarHead
<1>9. CASE ReconcileEnds \/ ReconcileFetch
  BY <1>1, <1>2, <1>3, <1>9 DEF ReconcileEnds, ReconcileFetch
<1>10. CASE PlanRange \/ Reanchor
  BY <1>1, <1>10 DEF PlanRange, Reanchor
<1>11. CASE BlockMetadata \/ FetchWindow
  BY <1>1, <1>3, <1>4, <1>11 DEF BlockMetadata, BoundaryMoved, FetchWindow
<1>12. CASE RecheckBlock \/ RecheckFindsMove
  BY <1>1, <1>4, <1>12 DEF RecheckBlock, RecheckFindsMove
<1>13. CASE UNCHANGED vars
  BY <1>13 DEF vars, storeVars
<1> QED
  BY <1>5, <1>6, <1>7, <1>8, <1>9, <1>10, <1>11, <1>12, <1>13 DEF Next, Step

(* Every step of the subscriber is a step of the promise, or changes       *)
(* nothing that is served.                                                 *)
LEMMA StepPromise == SubInv /\ [Next]_vars => [Promise!Next]_Served
<1> SUFFICES ASSUME SubInv, [Next]_vars PROVE [Promise!Next]_Served
  OBVIOUS
<1>1. StoreSide
  BY DEF SubInv
<1>2. CASE OperatorRewind
  <2>1. PICK to \in Covered : Rewind(to)
    BY <1>2 DEF OperatorRewind
  <2>2. to \in Nat
    BY <1>1 DEF StoreSide, StoreInv, StoreTypeOK, Coverage, Covered
  <2> QED
    BY <1>1, <2>1, <2>2, RewindPromise DEF Promise!Next
<1>3. CASE RecoverDeepReorg
  <2>1. job.n \in Nat /\ Rewind(job.n)
    BY <1>3, JobFields DEF RecoverDeepReorg, SubInv, JobInv
  <2> QED
    BY <1>1, <2>1, RewindPromise DEF Promise!Next
<1>4. CASE WriteBatch
  BY <1>4, WritePromise DEF Promise!Next
<1>5. CASE ~OperatorRewind /\ ~RecoverDeepReorg /\ ~WriteBatch
  BY <1>5, TablesUnchanged, ServedUnchanged
<1> QED
  BY <1>2, <1>3, <1>4, <1>5

(* Readers see one chain that is extended and cut back, and never altered, *)
(* whatever the node, the process and the operator do.                     *)
THEOREM SubscriberRefines == Spec => ImplementsCoveredChain
  BY InitPromise, StepPromise, SubscriberInvariant, PTL DEF Spec, Promise!Spec, ImplementsCoveredChain

-----------------------------------------------------------------------------
(* Where the shared endings of the steps leave the process.                *)
LEMMA Endings ==
    /\ Exit => job'.op = "down" /\ tip' = 0
    /\ \A hs, h, a, b : FindForkPoint(hs, h, a, b) =>
          Exit \/ (job'.op = "fork" /\ job'.batch = b /\ tip' = tip)
    /\ NextHead => \/ job' = [op |-> "plan"]
                   \/ Len(job.batch) > 1 /\ job' = [op |-> "record", batch |-> Tail(job.batch)]
    /\ \A hs, st, rep : FinishRecord(hs, st, rep) => NextHead
    /\ \A hs, st : Retry(hs, st) =>
          \/ Exit
          \/ /\ job'.op = "metadata" /\ job'.to = job.to
             /\ UNCHANGED <<nodeVars, storeVars, next, tip>>
    /\ \A hs : BoundaryMoved(hs) =>
          Exit \/ (job'.op = "reanchor" /\ tip' = tip) \/ (job'.op = "fork" /\ job'.batch = <<>> /\ tip' = tip)
<1>1. Exit => job'.op = "down" /\ tip' = 0
  BY DEF Exit
<1>2. \A hs, h, a, b : FindForkPoint(hs, h, a, b) =>
         Exit \/ (job'.op = "fork" /\ job'.batch = b /\ tip' = tip)
  BY DEF FindForkPoint
<1>3. NextHead => \/ job' = [op |-> "plan"]
                  \/ Len(job.batch) > 1 /\ job' = [op |-> "record", batch |-> Tail(job.batch)]
  BY DEF NextHead
<1>4. \A hs, st, rep : FinishRecord(hs, st, rep) => NextHead
  BY DEF FinishRecord
<1>5. \A hs, st : Retry(hs, st) =>
         \/ Exit
         \/ /\ job'.op = "metadata" /\ job'.to = job.to
            /\ UNCHANGED <<nodeVars, storeVars, next, tip>>
  BY DEF Retry, Attempt
<1>6. \A hs : BoundaryMoved(hs) =>
         Exit \/ (job'.op = "reanchor" /\ tip' = tip) \/ (job'.op = "fork" /\ job'.batch = <<>> /\ tip' = tip)
  BY <1>2 DEF BoundaryMoved
<1> QED
  BY <1>1, <1>2, <1>3, <1>4, <1>5, <1>6

(* The three loops of a batch: another attempt, or on to the next turn.    *)
LEMMA LoopSteps ==
    ASSUME SubInv
    PROVE  /\ BlockMetadata =>
                 \/ Exit \/ (\E hs : BoundaryMoved(hs)) \/ (\E hs, st : Retry(hs, st))
                 \/ /\ job'.op \in {"metadata", "fetch"} /\ job'.to = job.to
                    /\ UNCHANGED <<nodeVars, next, tip>>
           /\ FetchWindow =>
                 \/ \E hs, st : Retry(hs, st)
                 \/ /\ job'.op \in {"fetch", "recheck"} /\ job'.to = job.to
                    /\ UNCHANGED <<nodeVars, next, tip>>
           /\ RecheckBlock =>
                 \/ Exit
                 \/ /\ job'.op = "recheck" /\ job'.to = job.to
                    /\ UNCHANGED <<nodeVars, next, tip>>
           /\ BlockMetadata \/ FetchWindow \/ RecheckBlock => InBatch
<1>1. job \in Job
  BY DEF SubInv, JobInv
<1>2. ASSUME BlockMetadata, ~Exit, \A hs : ~BoundaryMoved(hs), \A hs, st : ~Retry(hs, st)
      PROVE  /\ job'.op \in {"metadata", "fetch"} /\ job'.to = job.to
             /\ UNCHANGED <<nodeVars, next, tip>>
  <2>1. /\ job.op = "metadata"
        /\ \/ job' = [job EXCEPT !.k = job.k + 1]
           \/ job' = [op |-> "fetch", to |-> job.to, attempt |-> job.attempt, k |-> next, raw |-> {}]
        /\ UNCHANGED <<nodeVars, next, tip>>
    BY <1>2 DEF BlockMetadata
  <2> QED
    BY <1>1, <2>1 DEF Job
<1>3. ASSUME FetchWindow, \A hs, st : ~Retry(hs, st)
      PROVE  /\ job'.op \in {"fetch", "recheck"} /\ job'.to = job.to
             /\ UNCHANGED <<nodeVars, next, tip>>
  <2>1. job.op = "fetch" /\ UNCHANGED <<nodeVars, stream>>
    BY <1>3 DEF FetchWindow
  <2>2. PICK k, raw, todo :
           \/ job' = [job EXCEPT !.k = k, !.raw = raw]
           \/ job' = [op |-> "recheck", to |-> job.to, attempt |-> job.attempt,
                      raw |-> raw, todo |-> todo, moved |-> {}]
    BY <1>3 DEF FetchWindow
  <2>3. CASE job' = [job EXCEPT !.k = k, !.raw = raw]
    <3>1. job'.op = "fetch" /\ job'.to = job.to
      BY <1>1, <2>1, <2>3 DEF Job
    <3> QED
      BY <2>1, <3>1 DEF stream
  <2> QED
    BY <2>1, <2>2, <2>3 DEF stream
<1>4. ASSUME RecheckBlock, ~Exit
      PROVE  /\ job'.op = "recheck" /\ job'.to = job.to
             /\ UNCHANGED <<nodeVars, next, tip>>
  <2>1. PICK todo, moved : /\ job' = [job EXCEPT !.todo = todo, !.moved = moved]
                           /\ job.op = "recheck"
                           /\ UNCHANGED <<nodeVars, stream>>
    BY <1>4 DEF RecheckBlock
  <2>2. job'.op = "recheck" /\ job'.to = job.to
    BY <1>1, <2>1 DEF Job
  <2> QED
    BY <2>1, <2>2 DEF stream
<1>5. BlockMetadata \/ FetchWindow \/ RecheckBlock => InBatch
  BY DEF BlockMetadata, FetchWindow, RecheckBlock, InBatch
<1> QED
  BY <1>2, <1>3, <1>4, <1>5

(* A batch is entered by planning it; from then on, for as long as the     *)
(* process is in it, the range and the tip stand and the stream only moves *)
(* on.                                                                     *)
LEMMA BatchGoesOn ==
    ASSUME SubInv, [Next]_vars, InBatch', ~PlanRange
    PROVE  InBatch /\ tip' = tip /\ job'.to = job.to /\ next' >= next
<1>1. CASE NodeMoves \/ SubscriptionGoesSilent \/ UNCHANGED vars
  BY <1>1 DEF NodeMoves, SubscriptionGoesSilent, vars, stream, InBatch, SubInv
<1>2. CASE (\E sb \in {0, StartBlock} : Start(sb)) \/ OperatorRewind
  BY <1>2 DEF Start, OperatorRewind, InBatch
<1>3. CASE Receive \/ Crash \/ HeadTimeout \/ ForkWalkFails \/ VerifyResumePoint \/ Reanchor
  BY <1>3, Endings DEF Receive, Crash, HeadTimeout, ForkWalkFails, VerifyResumePoint, Reanchor, InBatch
<1>4. CASE ForkWalkStep \/ RecoverDeepReorg
  <2>1. CASE ForkWalkStep
    BY <2>1 DEF ForkWalkStep, InBatch, SubInv, JobInv, Job
  <2>2. CASE RecoverDeepReorg
    BY <2>2 DEF RecoverDeepReorg, InBatch
  <2> QED
    BY <1>4, <2>1, <2>2
<1>5. CASE RecordIgnored \/ RecordWrittenHeight \/ RecordUnwrittenHeight \/ RecordFarHead
  <2>1. job.op = "record"
    BY <1>5 DEF RecordIgnored, RecordWrittenHeight, RecordUnwrittenHeight, RecordFarHead
  <2>2. CASE Exit \/ NextHead \/ FindForkPoint(heads, TheHeight, "record", job.batch)
    BY <2>2, Endings DEF InBatch
  <2>3. CASE job'.op = "reconcile"
    BY <2>3 DEF InBatch
  <2> QED
    BY <1>5, <2>2, <2>3
       DEF RecordIgnored, RecordWrittenHeight, RecordUnwrittenHeight, RecordFarHead, FinishRecord
<1>6. CASE ReconcileEnds \/ ReconcileFetch
  <2> DEFINE replaced == job.replaced \/ (job.k \in DOMAIN heads /\ heads[job.k] # HeadByNumber(job.k))
  <2>1. job.op = "reconcile" /\ job \in Job
    BY <1>6 DEF ReconcileEnds, ReconcileFetch, SubInv, JobInv
  <2>2. CASE Exit \/ NextHead \/ FindForkPoint(heads, job.k, "record", job.batch)
    BY <2>2, Endings DEF InBatch
  <2>3. CASE job' = [job EXCEPT !.k = job.k - 1, !.replaced = replaced, !.expected = Parent(HeadByNumber(job.k))]
    <3> HIDE DEF replaced
    <3> QED BY <2>1, <2>3 DEF InBatch, Job
  <2> QED
    BY <1>6, <2>2, <2>3 DEF ReconcileEnds, ReconcileFetch, FinishRecord
<1>7. CASE BlockMetadata \/ FetchWindow \/ RecheckBlock \/ RecheckFindsMove
  <2>1. InBatch /\ next \in Nat
    BY <1>7, LoopSteps DEF RecheckFindsMove, InBatch, SubInv
  <2>2. CASE Exit \/ (\E hs : BoundaryMoved(hs)) \/ (\E hs, st : Retry(hs, st))
    BY <2>1, <2>2, Endings DEF InBatch
  <2> QED
    BY <1>7, <2>1, <2>2, LoopSteps DEF RecheckFindsMove
<1>8. CASE WriteBatch
  <2>1. next \in Nat /\ BatchEnd \in Nat /\ next <= BatchEnd /\ job.op = "recheck"
    BY <1>8, ReadyBatch DEF WriteBatch, ReadyToWrite
  <2>2. next' = BatchEnd + 1 /\ tip' = tip
        /\ job' = IF BatchEnd = job.to THEN [op |-> "wait"] ELSE Attempt(job.to, 1, next')
    BY <1>8 DEF WriteBatch
  <2> QED
    BY <2>1, <2>2 DEF InBatch, Attempt
<1> QED
  BY <1>1, <1>2, <1>3, <1>4, <1>5, <1>6, <1>7, <1>8 DEF Next, Step

(* No process fills a larger gap than MaxCatchupBlocks                     *)
(* (checkCatchupBound).                                                    *)
THEOREM CatchupBounded == Spec => []CatchupIsBounded
<1>1. Init => CatchupIsBounded
  BY DEF Init, CatchupIsBounded
<1>2. SubInv /\ CatchupIsBounded /\ [Next]_vars => CatchupIsBounded'
  <2> SUFFICES ASSUME SubInv, CatchupIsBounded, [Next]_vars, MaxCatchupBlocks > 0, InBatch'
               PROVE  tip' - next' + 1 <= MaxCatchupBlocks
    BY DEF CatchupIsBounded, InBatch
  <2>1. CASE PlanRange
    <3>1. ~CatchupTooLarge(tip) /\ ConfirmedHeight >= next /\ UNCHANGED <<next, tip>>
      BY <2>1, Endings DEF PlanRange, InBatch
    <3> QED
      BY <3>1, ConfigAssumption DEF CatchupTooLarge, Gap, ConfirmedHeight, SubInv
  <2>2. CASE ~PlanRange
    <3>1. InBatch /\ tip' = tip /\ next' >= next
      BY <2>2, BatchGoesOn
    <3>2. tip - next + 1 <= MaxCatchupBlocks
      BY <3>1 DEF CatchupIsBounded, InBatch
    <3>3. SubInv'
      BY NextInv
    <3>4. next \in Nat /\ next' \in Nat /\ tip \in Nat
      BY <3>3 DEF SubInv
    <3>5. \A n, m, t, b \in Nat : t - n + 1 <= b /\ m >= n => t - m + 1 <= b
      OBVIOUS
    <3> QED
      BY <3>1, <3>2, <3>4, <3>5, ConfigAssumption
  <2> QED
    BY <2>1, <2>2
<1> QED
  BY <1>1, <1>2, SubscriberInvariant, PTL DEF Spec

-----------------------------------------------------------------------------
(* The tip is that of a head the node announced or served, so no higher    *)
(* than the node's chain when the node's tip never drops.                  *)
TipInv ==
    /\ canon \in tips
    /\ \A t \in tips : Height(t) <= Height(canon)
    /\ job.op \in {"record", "reconcile", "fork"} => \A i \in DOMAIN job.batch : job.batch[i] \in tips
    /\ tip <= Height(canon)

(* A planned range is ConfirmationBlocks below the tip; what the answers   *)
(* of the node said of its blocks, the node said with the tip in place.    *)
ReadConfirmed ==
    /\ InBatch => job.to + ConfirmationBlocks <= tip
    /\ job.op = "fetch" => \A l \in job.raw : l.hash = NoHash \/ WasConfirmed(l.hash)
    /\ job.op = "recheck" =>
          \A n \in next..BatchEnd : n \in job.todo \/ n \in job.moved \/ WasConfirmed(heads[n])

ConfirmedInv ==
    /\ WrittenOnceConfirmed
    /\ TipInv
    /\ ReadConfirmed

(* Only the node changes its chain.                                        *)
LEMMA NodeStands ==
    ASSUME [Next]_vars, ~NodeMoves
    PROVE  UNCHANGED nodeVars
<1>1. /\ \A hs, st, rep : FinishRecord(hs, st, rep) => UNCHANGED nodeVars
      /\ Exit => UNCHANGED nodeVars
  BY DEF FinishRecord, Exit
<1>2. /\ \A hs, h, a, b : FindForkPoint(hs, h, a, b) => UNCHANGED nodeVars
      /\ \A hs, st : Retry(hs, st) => UNCHANGED nodeVars
  BY <1>1 DEF FindForkPoint, Retry
<1>3. CASE SubscriptionGoesSilent \/ (\E sb \in {0, StartBlock} : Start(sb)) \/ OperatorRewind \/ UNCHANGED vars
  BY <1>3 DEF SubscriptionGoesSilent, Start, OperatorRewind, vars, nodeVars
<1>4. CASE Receive \/ Crash \/ HeadTimeout \/ ForkWalkFails \/ Reanchor \/ PlanRange \/ WriteBatch
  BY <1>1, <1>4 DEF Receive, Crash, HeadTimeout, ForkWalkFails, Reanchor, PlanRange, WriteBatch
<1>5. CASE VerifyResumePoint \/ ForkWalkStep \/ RecoverDeepReorg
  BY <1>1, <1>2, <1>5 DEF VerifyResumePoint, ForkWalkStep, RecoverDeepReorg
<1>6. CASE RecordIgnored \/ RecordWrittenHeight \/ RecordUnwrittenHeight \/ RecordFarHead
  BY <1>1, <1>2, <1>6 DEF RecordIgnored, RecordWrittenHeight, RecordUnwrittenHeight, RecordFarHead
<1>7. CASE ReconcileEnds \/ ReconcileFetch
  BY <1>1, <1>2, <1>7 DEF ReconcileEnds, ReconcileFetch
<1>8. CASE BlockMetadata \/ FetchWindow \/ RecheckBlock \/ RecheckFindsMove
  BY <1>1, <1>2, <1>8 DEF BlockMetadata, BoundaryMoved, FetchWindow, RecheckBlock, RecheckFindsMove
<1> QED
  BY <1>3, <1>4, <1>5, <1>6, <1>7, <1>8 DEF Next, Step

(* A chain that puts enough blocks on top of one keeps doing so.           *)
LEMMA ConfirmedStays ==
    ASSUME tips \subseteq tips'
    PROVE  \A b : WasConfirmed(b) => WasConfirmed(b)'
  BY DEF WasConfirmed, IsOnChain

(* A canonical block far enough below the tip is confirmed.                *)
LEMMA CanonicalIsConfirmed ==
    ASSUME SubInv, TipInv, NEW n \in Nat, Known(n), n + ConfirmationBlocks <= tip
    PROVE  WasConfirmed(HeadByNumber(n))
<1>1. IsOnChain(HeadByNumber(n), canon) /\ Height(HeadByNumber(n)) = n
  BY HeadIsCanonical
<1>2. Height(canon) >= n + ConfirmationBlocks
  <2>1. tip \in Nat /\ Height(canon) \in Nat /\ tip <= Height(canon)
    BY BlockIsPath DEF SubInv, TipInv
  <2> QED
    BY <2>1, ConfigAssumption
<1> QED
  BY <1>1, <1>2 DEF WasConfirmed, TipInv

-----------------------------------------------------------------------------
(* The chain changes to one that is not lower.                             *)
LEMMA NodeMovesTip == TipMayDrop = FALSE /\ SubInv /\ TipInv /\ NodeMoves => TipInv'
<1> SUFFICES ASSUME TipMayDrop = FALSE, SubInv, TipInv, NodeMoves PROVE TipInv'
  OBVIOUS
<1>1. PICK c \in Block : /\ Height(c) >= Height(canon)
                         /\ canon' = c /\ tips' = tips \cup {c}
                         /\ UNCHANGED <<stream, job>>
  BY DEF NodeMoves
<1>2. /\ Height(c) \in Nat /\ Height(canon) \in Nat /\ tip \in Nat
      /\ \A t \in tips : Height(t) \in Nat
  BY BlockIsPath DEF SubInv
<1>3. \A t \in tips' : Height(t) <= Height(c)
  BY <1>1, <1>2 DEF TipInv
<1>4. tip <= Height(c)
  BY <1>1, <1>2 DEF TipInv
<1> QED
  BY <1>1, <1>3, <1>4 DEF TipInv, stream

(* A step of the process keeps the announced heads it has still to record, *)
(* and moves the tip to a height of the chain.                             *)
LEMMA TipStep ==
    ASSUME TipInv, UNCHANGED nodeVars, tip' = tip \/ tip' <= Height(canon),
           job'.op \in {"record", "reconcile", "fork"} =>
               \A i \in DOMAIN job'.batch : job'.batch[i] \in tips
    PROVE  TipInv'
  BY DEF TipInv, nodeVars

(* The shared endings.                                                     *)
LEMMA ExitTip == SubInv /\ TipInv /\ Exit => TipInv'
<1> SUFFICES ASSUME SubInv, TipInv, Exit PROVE TipInv'
  OBVIOUS
<1>1. 0 <= Height(canon)
  BY BlockIsPath DEF SubInv
<1> QED
  BY <1>1, TipStep DEF Exit

LEMMA NextHeadTip ==
    ASSUME SubInv, TipInv, job.op \in {"record", "reconcile"}, NextHead, UNCHANGED nodeVars,
           tip' = tip \/ tip' <= Height(canon)
    PROVE  TipInv'
<1>1. job.batch \in Seq(Block) /\ \A i \in DOMAIN job.batch : job.batch[i] \in tips
  BY JobFields DEF SubInv, JobInv, TipInv
<1>2. CASE job' = [op |-> "plan"]
  BY <1>2, TipStep
<1>3. CASE Len(job.batch) > 1 /\ job' = [op |-> "record", batch |-> Tail(job.batch)]
  <2>1. \A i \in DOMAIN Tail(job.batch) : Tail(job.batch)[i] = job.batch[i + 1] /\ i + 1 \in DOMAIN job.batch
    BY <1>1, <1>3
  <2>2. \A i \in DOMAIN job'.batch : job'.batch[i] \in tips
    BY <1>1, <1>3, <2>1
  <2> QED
    BY <2>2, TipStep
<1> QED
  BY <1>2, <1>3, Endings

LEMMA FinishRecordTip ==
    ASSUME SubInv, TipInv, job.op \in {"record", "reconcile"}, NEW hs, NEW stale, NEW replaced,
           FinishRecord(hs, stale, replaced)
    PROVE  TipInv'
<1>1. TheHead \in tips /\ TheHead \in Block
  BY JobFields DEF SubInv, JobInv, TipInv, TheHead
<1>2. TheHeight \in Nat /\ TheHeight <= Height(canon) /\ tip <= Height(canon) /\ tip \in Nat /\ Height(canon) \in Nat
  BY <1>1, BlockIsPath DEF TipInv, TheHeight, SubInv
<1> DEFINE n == TheHeight
           replaces == ~stale /\ n \in DOMAIN hs /\ hs[n] # TheHead
           fork == IF replaced THEN n - 1 ELSE n
           base == IF replaced \/ replaces THEN fork ELSE tip
<1>3. tip' = IF stale THEN base ELSE Greater(base, n)
  BY DEF FinishRecord
<1>4. base \in Int /\ base <= Height(canon)
  <2> HIDE DEF replaces
  <2> QED BY <1>2
<1>5. tip' <= Height(canon)
  <2> HIDE DEF base
  <2> QED BY <1>2, <1>3, <1>4 DEF Greater
<1> QED
  BY <1>5, NextHeadTip DEF FinishRecord

LEMMA FindForkPointTip ==
    ASSUME SubInv, TipInv, NEW hs, NEW height, NEW after, NEW batch,
           \A i \in DOMAIN batch : batch[i] \in tips,
           FindForkPoint(hs, height, after, batch)
    PROVE  TipInv'
<1>1. CASE Exit
  BY <1>1, ExitTip
<1>2. CASE ~Exit
  <2>1. UNCHANGED nodeVars /\ tip' = tip /\ job'.batch = batch
    BY <1>2 DEF FindForkPoint
  <2> QED
    BY <2>1, TipStep
<1> QED
  BY <1>1, <1>2

(* The steps that end the process, or leave the tip and the heads still to *)
(* be recorded as they are.                                                *)
LEMMA QuietTip ==
    ASSUME SubInv, TipInv,
           \/ SubscriptionGoesSilent \/ Crash \/ HeadTimeout \/ OperatorRewind \/ ForkWalkFails \/ ForkWalkStep
           \/ UNCHANGED vars \/ \E sb \in {0, StartBlock} : Start(sb)
    PROVE  TipInv'
<1>1. CASE SubscriptionGoesSilent \/ OperatorRewind \/ UNCHANGED vars
  BY <1>1 DEF SubscriptionGoesSilent, OperatorRewind, vars, stream, nodeVars, TipInv
<1>2. CASE Crash \/ HeadTimeout \/ ForkWalkFails
  BY <1>2, ExitTip DEF Crash, HeadTimeout, ForkWalkFails
<1>3. CASE ForkWalkStep
  <2>1. job'.op = "fork" /\ job'.batch = job.batch /\ job.op = "fork" /\ tip' = tip /\ UNCHANGED nodeVars
    BY <1>3 DEF ForkWalkStep, SubInv, JobInv, Job, stream
  <2> QED
    BY <2>1, TipStep DEF TipInv
<1>4. CASE \E sb \in {0, StartBlock} : Start(sb)
  <2>1. 0 <= Height(canon)
    BY BlockIsPath DEF SubInv
  <2> QED
    BY <1>4, <2>1, TipStep DEF Start
<1> QED
  BY <1>1, <1>2, <1>3, <1>4

(* The steps that restart the stream at a block the node has just served.  *)
LEMMA ServedTip ==
    ASSUME SubInv, TipInv, VerifyResumePoint \/ RecoverDeepReorg \/ Reanchor
    PROVE  TipInv'
<1>1. CASE VerifyResumePoint
  <2>1. CASE FindForkPoint(heads, next - 1, "resume", <<>>)
    BY <2>1, FindForkPointTip
  <2>2. CASE /\ job' = [op |-> "wait"] /\ UNCHANGED nodeVars
             /\ tip' = tip \/ (Known(next - 1) /\ tip' = next - 1)
    BY <2>2, TipStep DEF Known
  <2> QED
    BY <1>1, <2>1, <2>2, ExitTip DEF VerifyResumePoint, stream
<1>2. CASE RecoverDeepReorg
  <2>1. /\ job.op = "fork" /\ UNCHANGED nodeVars /\ tip' = job.n /\ job.n <= Height(canon)
        /\ job' = IF job.after = "record" THEN [op |-> "record", batch |-> job.batch]
                                          ELSE [op |-> "wait"]
    BY <1>2 DEF RecoverDeepReorg, ForkWalkGoesOn, Known
  <2> QED
    BY <2>1, TipStep DEF TipInv
<1>3. CASE Reanchor
  BY <1>3, ExitTip, TipStep DEF Reanchor, Known
<1> QED
  BY <1>1, <1>2, <1>3

LEMMA RecordTip ==
    ASSUME SubInv, TipInv,
           \/ Receive \/ ReconcileEnds \/ ReconcileFetch
           \/ RecordIgnored \/ RecordWrittenHeight \/ RecordUnwrittenHeight \/ RecordFarHead
    PROVE  TipInv'
<1>1. job.op \in {"record", "reconcile"} => \A i \in DOMAIN job.batch : job.batch[i] \in tips
  BY DEF TipInv
<1>2. CASE Receive
  <2>1. CASE \E hs \in QueuedHeads : job' = [op |-> "record", batch |-> hs] /\ UNCHANGED <<nodeVars, stream>>
    <3>1. PICK hs \in QueuedHeads : job' = [op |-> "record", batch |-> hs] /\ UNCHANGED <<nodeVars, stream>>
      BY <2>1
    <3>2. \A i \in DOMAIN hs : hs[i] \in tips
      BY DEF QueuedHeads
    <3> QED
      BY <3>1, <3>2, TipStep DEF stream
  <2> QED
    BY <1>2, <2>1, ExitTip DEF Receive
<1>3. CASE RecordIgnored \/ RecordWrittenHeight \/ RecordUnwrittenHeight \/ RecordFarHead
  <2>1. job.op = "record"
    BY <1>3 DEF RecordIgnored, RecordWrittenHeight, RecordUnwrittenHeight, RecordFarHead
  <2>2. CASE NextHead /\ UNCHANGED <<nodeVars, stream>>
    BY <2>1, <2>2, NextHeadTip DEF stream
  <2>3. CASE FindForkPoint(heads, TheHeight, "record", job.batch)
    BY <1>1, <2>1, <2>3, FindForkPointTip
  <2>4. CASE \E stale : FinishRecord(heads, stale, FALSE)
    BY <2>1, <2>4, FinishRecordTip
  <2>5. CASE job' = [op |-> "reconcile", batch |-> job.batch, k |-> TheHeight - 1,
                     expected |-> Parent(TheHead), replaced |-> FALSE] /\ UNCHANGED <<nodeVars, stream>>
    BY <1>1, <2>1, <2>5, TipStep DEF stream
  <2> QED
    BY <1>3, <2>2, <2>3, <2>4, <2>5, ExitTip
       DEF RecordIgnored, RecordWrittenHeight, RecordUnwrittenHeight, RecordFarHead
<1>4. CASE ReconcileEnds
  BY <1>4, FinishRecordTip DEF ReconcileEnds
<1>5. CASE ReconcileFetch
  <2> DEFINE replaced == job.replaced \/ (job.k \in DOMAIN heads /\ heads[job.k] # HeadByNumber(job.k))
             hs == Put(heads, job.k, HeadByNumber(job.k))
  <2>1. job.op = "reconcile" /\ job \in Job
    BY <1>5 DEF ReconcileFetch, SubInv, JobInv
  <2>2. CASE FindForkPoint(heads, job.k, "record", job.batch)
    BY <1>1, <2>1, <2>2, FindForkPointTip
  <2>3. CASE /\ job' = [job EXCEPT !.k = job.k - 1, !.replaced = replaced, !.expected = Parent(HeadByNumber(job.k))]
             /\ UNCHANGED <<nodeVars, tip>>
    <3>1. job'.op = "reconcile" /\ job'.batch = job.batch
      <4> HIDE DEF replaced
      <4> QED BY <2>1, <2>3 DEF Job
    <3> QED
      BY <1>1, <2>1, <2>3, <3>1, TipStep
  <2>4. CASE FinishRecord(hs, HeadByNumber(job.k) # job.expected, replaced)
    BY <2>1, <2>4, FinishRecordTip
  <2> QED
    BY <1>5, <2>2, <2>3, <2>4, ExitTip DEF ReconcileFetch
<1> QED
  BY <1>2, <1>3, <1>4, <1>5

(* Planning, reading and writing a batch moves no tip.                     *)
LEMMA BatchTip ==
    ASSUME SubInv, TipInv,
           PlanRange \/ BlockMetadata \/ FetchWindow \/ RecheckBlock \/ RecheckFindsMove \/ WriteBatch
    PROVE  TipInv'
<1>1. ASSUME UNCHANGED nodeVars, tip' = tip, job'.op \in {"wait", "reanchor", "metadata", "fetch", "recheck"}
      PROVE  TipInv'
  BY <1>1, TipStep
<1>2. ASSUME NEW hs, NEW stale, Retry(hs, stale) PROVE TipInv'
  BY <1>1, <1>2, ExitTip, Endings
<1>3. CASE PlanRange
  BY <1>1, <1>3, ExitTip DEF PlanRange, Attempt, stream
<1>4. ASSUME NEW hs, BoundaryMoved(hs) PROVE TipInv'
  <2>1. CASE FindForkPoint(hs, next - 1, "replan", <<>>)
    BY <2>1, FindForkPointTip
  <2>2. CASE job' = [op |-> "reanchor"] /\ UNCHANGED <<nodeVars, tip>>
    BY <1>1, <2>2
  <2> QED
    BY <1>4, <2>1, <2>2 DEF BoundaryMoved
<1>5. CASE BlockMetadata \/ FetchWindow \/ RecheckBlock \/ RecheckFindsMove
  BY <1>1, <1>2, <1>4, <1>5, ExitTip, LoopSteps DEF RecheckFindsMove
<1>6. CASE WriteBatch
  BY <1>1, <1>6 DEF WriteBatch, Attempt
<1> QED
  BY <1>3, <1>5, <1>6

LEMMA NextTip == TipMayDrop = FALSE /\ SubInv /\ TipInv /\ [Next]_vars => TipInv'
  BY NodeMovesTip, QuietTip, ServedTip, RecordTip, BatchTip DEF Next, Step

-----------------------------------------------------------------------------
(* The step that may take the process to the logs, or on with them.        *)
LEMMA ReadingGoesOn ==
    ASSUME SubInv, [Next]_vars, job'.op \in {"fetch", "recheck"}, ~FetchWindow, ~RecheckBlock
    PROVE  \/ job'.op = "fetch" /\ job'.raw = {}
           \/ UNCHANGED <<job, next, heads>>
<1>1. CASE PlanRange
  BY <1>1, Endings DEF PlanRange, Attempt
<1>2. CASE WriteBatch
  BY <1>2 DEF WriteBatch, Attempt
<1>3. CASE RecheckFindsMove
  BY <1>3, Endings DEF RecheckFindsMove
<1>4. CASE BlockMetadata
  <2>1. job.op = "metadata" /\ job \in Job
    BY <1>4 DEF BlockMetadata, SubInv, JobInv
  <2>2. CASE job' = [job EXCEPT !.k = job.k + 1]
    BY <2>1, <2>2 DEF Job
  <2> QED
    BY <1>4, <2>2, Endings DEF BlockMetadata
<1>5. CASE NodeMoves \/ SubscriptionGoesSilent \/ UNCHANGED vars
  BY <1>5 DEF NodeMoves, SubscriptionGoesSilent, vars, stream
<1>6. CASE ~(PlanRange \/ WriteBatch \/ RecheckFindsMove \/ BlockMetadata
             \/ NodeMoves \/ SubscriptionGoesSilent \/ UNCHANGED vars)
  <2>1. ~PlanRange /\ InBatch' => InBatch
    BY BatchGoesOn
  <2>2. InBatch
    BY <1>6, <2>1 DEF InBatch
  <2>3. Crash \/ HeadTimeout \/ OperatorRewind \/ Receive \/ VerifyResumePoint \/ ForkWalkFails
        \/ ForkWalkStep \/ RecoverDeepReorg \/ RecordIgnored \/ RecordWrittenHeight
        \/ RecordUnwrittenHeight \/ RecordFarHead \/ ReconcileEnds \/ ReconcileFetch \/ Reanchor
        \/ \E sb \in {0, StartBlock} : Start(sb)
    BY <1>6 DEF Next, Step
  <2> QED
    BY <2>2, <2>3, Endings
       DEF InBatch, Crash, HeadTimeout, OperatorRewind, Receive, VerifyResumePoint, ForkWalkFails,
           ForkWalkStep, RecoverDeepReorg, RecordIgnored, RecordWrittenHeight,
           RecordUnwrittenHeight, RecordFarHead, ReconcileEnds, ReconcileFetch, Reanchor, Start
<1> QED
  BY <1>1, <1>2, <1>3, <1>4, <1>5, <1>6

(* What the batch was read from is confirmed.                              *)
LEMMA ReadSteps ==
    ASSUME TipMayDrop = FALSE, SubInv, TipInv, ReadConfirmed, [Next]_vars
    PROVE  ReadConfirmed'
<1>1. SubInv' /\ TipInv'
  BY NextInv, NextTip
<1>2. tips \subseteq tips'
  BY NodeStands DEF NodeMoves, nodeVars
<1>3. (InBatch => job.to + ConfirmationBlocks <= tip)'
  <2> SUFFICES ASSUME InBatch' PROVE job'.to + ConfirmationBlocks <= tip'
    OBVIOUS
  <2>1. CASE PlanRange
    <3>1. job'.to = ConfirmedHeight /\ tip' = tip /\ tip \in Nat
      BY <2>1, Endings DEF PlanRange, Attempt, InBatch, SubInv
    <3> QED
      BY <3>1, ConfigAssumption DEF ConfirmedHeight
  <2>2. CASE ~PlanRange
    BY <2>2, BatchGoesOn DEF ReadConfirmed
  <2> QED
    BY <2>1, <2>2
<1>4. CASE job'.op \notin {"fetch", "recheck"}
  BY <1>3, <1>4 DEF ReadConfirmed
<1>5. CASE FetchWindow
  <2>1. job.op = "fetch" /\ job \in Job /\ InBatch
    BY <1>5 DEF FetchWindow, SubInv, JobInv, InBatch
  <2>2. next \in Nat /\ job.k \in Nat /\ job.to \in Nat /\ BatchEnd \in Int /\ BatchEnd <= job.to
        /\ tip \in Nat /\ job.to + ConfirmationBlocks <= tip /\ Held(next, BatchEnd)
    BY <2>1, JobFields, LimitsAssumption DEF SubInv, JobInv, BatchEnd, Lesser, ReadConfirmed
  <2>3. PICK w \in job.k..BatchEnd, omitted \in IF OmitsBlockHash THEN BOOLEAN ELSE {FALSE} :
           LET answer == {IF omitted THEN [l EXCEPT !.hash = NoHash] ELSE l : l \in NodeLogs(job.k, w)}
               raw == job.raw \cup answer
           IN  \/ /\ w < BatchEnd
                  /\ job' = [job EXCEPT !.k = w + 1, !.raw = raw]
                  /\ UNCHANGED <<nodeVars, live, storeVars, stream>>
               \/ w = BatchEnd /\ Disagreeing(raw) # {} /\ Retry(heads, Disagreeing(raw))
               \/ /\ w = BatchEnd /\ Disagreeing(raw) = {}
                  /\ job' = [op |-> "recheck", to |-> job.to, attempt |-> job.attempt,
                             raw |-> raw, todo |-> Logless(raw), moved |-> {}]
                  /\ UNCHANGED <<nodeVars, live, storeVars, stream>>
    BY <1>5 DEF FetchWindow
  <2> DEFINE answer == {IF omitted THEN [l EXCEPT !.hash = NoHash] ELSE l : l \in NodeLogs(job.k, w)}
             raw == job.raw \cup answer
  <2>4. \A l \in NodeLogs(job.k, w) : WasConfirmed(l.hash) /\ l = [n |-> l.n, hash |-> l.hash]
    <3> SUFFICES ASSUME NEW n \in job.k..w, Known(n) PROVE WasConfirmed(HeadByNumber(n))
      BY DEF NodeLogs
    <3>1. n \in Nat /\ n + ConfirmationBlocks <= tip
      BY <2>2, ConfigAssumption
    <3> QED
      BY <3>1, CanonicalIsConfirmed
  <2>5. \A l \in answer : l.hash = NoHash \/ WasConfirmed(l.hash)
    BY <2>4
  <2>6. \A l \in raw : l.hash = NoHash \/ WasConfirmed(l.hash)
    <3> HIDE DEF answer
    <3> QED BY <2>1, <2>5 DEF ReadConfirmed
  <2> HIDE DEF raw
  <2>7. CASE job' = [job EXCEPT !.k = w + 1, !.raw = raw]
    <3>1. job'.op = "fetch" /\ job'.raw = raw
      BY <2>1, <2>7 DEF Job
    <3> QED
      BY <1>2, <1>3, <2>6, <3>1, ConfirmedStays DEF ReadConfirmed
  <2>8. CASE /\ Disagreeing(raw) = {}
             /\ job' = [op |-> "recheck", to |-> job.to, attempt |-> job.attempt,
                        raw |-> raw, todo |-> Logless(raw), moved |-> {}]
             /\ UNCHANGED <<nodeVars, live, storeVars, stream>>
    <3>1. \A n \in next..BatchEnd : n \in Logless(raw) \/ WasConfirmed(heads[n])
      <4> SUFFICES ASSUME NEW n \in next..BatchEnd, n \notin Logless(raw) PROVE WasConfirmed(heads[n])
        OBVIOUS
      <4>1. PICK l \in raw : l.n = n
        BY DEF Logless
      <4>2. l.hash = heads[n]
        BY <2>8, <4>1 DEF Disagreeing
      <4>3. heads[n] \in Block
        BY <2>2 DEF Held, SubInv, GoodHeads
      <4>4. heads[n] # NoHash
        BY <4>3, BlockIsPath DEF NoHash
      <4> QED
        BY <2>6, <4>1, <4>2, <4>4
    <3>2. BatchEnd' = BatchEnd /\ next' = next /\ heads' = heads
      BY <2>8 DEF BatchEnd, stream
    <3> QED
      BY <1>2, <1>3, <2>8, <3>1, <3>2, ConfirmedStays DEF ReadConfirmed
  <2> QED
    <3>1. CASE Retry(heads, Disagreeing(raw))
      BY <1>4, <3>1, Endings
    <3> QED
      BY <2>3, <2>7, <2>8, <3>1 DEF raw
<1>6. CASE RecheckBlock
  <2> DEFINE n == CHOOSE m \in job.todo : \A o \in job.todo : m <= o
  <2>1. job.op = "recheck" /\ job \in Job /\ InBatch
    BY <1>6 DEF RecheckBlock, SubInv, JobInv, InBatch
  <2>2. CASE Exit
    BY <1>4, <2>2, Endings
  <2>3. CASE /\ Known(n)
             /\ job' = [job EXCEPT !.todo = @ \ {n},
                                   !.moved = IF HeadByNumber(n) = heads[n] THEN @ ELSE @ \cup {n}]
             /\ UNCHANGED <<nodeVars, live, storeVars, stream>>
    <3> HIDE DEF n
    <3>1. /\ job'.op = "recheck" /\ job'.to = job.to /\ job'.todo = job.todo \ {n}
          /\ job'.moved = IF HeadByNumber(n) = heads[n] THEN job.moved ELSE job.moved \cup {n}
      BY <2>1, <2>3 DEF Job
    <3>2. BatchEnd' = BatchEnd /\ next' = next /\ heads' = heads
      BY <2>3, <3>1 DEF BatchEnd, stream
    <3>3. next \in Nat /\ job.to \in Nat /\ BatchEnd \in Int /\ BatchEnd <= job.to
          /\ tip \in Nat /\ job.to + ConfirmationBlocks <= tip
      BY <2>1, JobFields, LimitsAssumption DEF SubInv, JobInv, BatchEnd, Lesser, ReadConfirmed
    <3>4. n \in next..BatchEnd /\ HeadByNumber(n) = heads[n] => WasConfirmed(heads[n])
      <4> SUFFICES ASSUME n \in next..BatchEnd, HeadByNumber(n) = heads[n] PROVE WasConfirmed(heads[n])
        OBVIOUS
      <4>1. n \in Nat /\ n + ConfirmationBlocks <= tip
        BY <3>3, ConfigAssumption
      <4> QED
        BY <2>3, <4>1, CanonicalIsConfirmed
    <3>5. \A m \in next..BatchEnd : m \in job'.todo \/ m \in job'.moved \/ WasConfirmed(heads[m])
      BY <2>1, <3>1, <3>4 DEF ReadConfirmed
    <3> QED
      BY <1>2, <1>3, <3>1, <3>2, <3>5, ConfirmedStays DEF ReadConfirmed
  <2> QED
    BY <1>6, <2>2, <2>3 DEF RecheckBlock
<1>7. CASE job'.op \in {"fetch", "recheck"} /\ ~FetchWindow /\ ~RecheckBlock
  <2>1. CASE job'.op = "fetch" /\ job'.raw = {}
    BY <1>3, <2>1 DEF ReadConfirmed
  <2>2. CASE UNCHANGED <<job, next, heads>>
    <3>1. BatchEnd' = BatchEnd
      BY <2>2 DEF BatchEnd
    <3> QED
      BY <1>2, <1>3, <2>2, <3>1, ConfirmedStays DEF ReadConfirmed
  <2> QED
    BY <1>7, <2>1, <2>2, ReadingGoesOn
<1> QED
  BY <1>4, <1>5, <1>6, <1>7

-----------------------------------------------------------------------------
(* What is written is confirmed.                                           *)
LEMMA WrittenSteps ==
    ASSUME SubInv, WrittenOnceConfirmed, ReadConfirmed, [Next]_vars
    PROVE  WrittenOnceConfirmed'
<1>1. tips \subseteq tips'
  BY NodeStands DEF NodeMoves, nodeVars
<1>2. DOMAIN blocks = Covered /\ DOMAIN blocks' = Covered'
  <2>1. SubInv'
    BY NextInv
  <2> QED
    BY <2>1 DEF SubInv, StoreSide
<1>3. SUFFICES ASSUME NEW n \in DOMAIN blocks'
               PROVE  WasConfirmed(blocks'[n]) \/ (n \in DOMAIN blocks /\ blocks'[n] = blocks[n])
  BY <1>1, <1>2, ConfirmedStays DEF WrittenOnceConfirmed, WasConfirmed
<1>4. CASE OperatorRewind \/ RecoverDeepReorg
  BY <1>4 DEF OperatorRewind, RecoverDeepReorg, Rewind
<1>5. CASE WriteBatch
  <2>1. CASE n \in next..BatchEnd
    <3>1. WasConfirmed(heads[n]) /\ blocks'[n] = heads[n] /\ UNCHANGED nodeVars
      BY <1>5, <2>1 DEF WriteBatch, ReadyToWrite, WriteRange, Metadata, ReadConfirmed
    <3> QED
      BY <3>1
  <2>2. CASE n \notin next..BatchEnd
    BY <1>5, <2>2 DEF WriteBatch, WriteRange
  <2> QED
    BY <2>1, <2>2
<1>6. CASE ~OperatorRewind /\ ~RecoverDeepReorg /\ ~WriteBatch
  BY <1>6, TablesUnchanged DEF storeVars
<1> QED
  BY <1>4, <1>5, <1>6

(* What a backfill published is confirmed, and the process is down.        *)
LEMMA InitConfirmed == Init => ConfirmedInv
<1> SUFFICES ASSUME Init PROVE ConfirmedInv
  OBVIOUS
<1>1. SubInv
  BY InitInv
<1>2. canon \in Block /\ Height(canon) = InitHeight /\ tips = {canon} /\ InitHeight \in Nat
  BY LimitsAssumption DEF Init
<1>3. WrittenOnceConfirmed
  <2>1. CASE StoreInit
    BY <2>1 DEF StoreInit, NoCursor, WrittenOnceConfirmed, Covered
  <2>2. CASE \E start, head \in 0..(InitHeight - ConfirmationBlocks) :
               /\ start <= head
               /\ cursor = [start |-> start, head |-> head]
               /\ ChainRows(canon, start, head)
    <3> SUFFICES ASSUME NEW n \in Covered PROVE WasConfirmed(blocks[n])
      BY DEF WrittenOnceConfirmed
    <3>1. n \in Nat /\ n + ConfirmationBlocks <= InitHeight /\ n <= InitHeight
          /\ blocks[n] = BlockAt(canon, n)
      BY <1>2, <2>2, ConfigAssumption DEF Covered, ChainRows
    <3>2. Known(n) /\ HeadByNumber(n) = blocks[n]
      BY <1>2, <3>1 DEF Known, HeadByNumber
    <3>3. IsOnChain(blocks[n], canon) /\ Height(blocks[n]) = n
      BY <1>1, <3>1, <3>2, HeadIsCanonical
    <3> QED
      BY <1>2, <3>1, <3>3 DEF WasConfirmed
  <2> QED
    BY <2>1, <2>2 DEF Init
<1>4. TipInv /\ ReadConfirmed
  BY <1>2 DEF Init, TipInv, ReadConfirmed, InBatch
<1> QED
  BY <1>3, <1>4 DEF ConfirmedInv

(* A block is written only once ConfirmationBlocks blocks are on top of it *)
(* (planRange), if a reorg never leaves the node with a lower tip: then    *)
(* the answers that the block is written from show it canonical at a time  *)
(* when the chain is at least as high as the head the range was planned    *)
(* from.                                                                   *)
THEOREM OnlyConfirmed == TipMayDrop = FALSE => (Spec => []WrittenOnceConfirmed)
<1> SUFFICES ASSUME TipMayDrop = FALSE PROVE Spec => []WrittenOnceConfirmed
  OBVIOUS
<1>1. SubInv /\ ConfirmedInv /\ [Next]_vars => ConfirmedInv'
  BY NextTip, ReadSteps, WrittenSteps DEF ConfirmedInv
<1>2. ConfirmedInv => WrittenOnceConfirmed
  BY DEF ConfirmedInv
<1> QED
  BY <1>1, <1>2, InitConfirmed, SubscriberInvariant, PTL DEF Spec
=============================================================================
