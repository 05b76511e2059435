--------------------------- MODULE LogStoreProofs ---------------------------
(***************************************************************************)
(* The tables stay well-formed, the cursor never gets ahead of the data    *)
(* and log rows stay with their block, for every chain and every caller.   *)
(* First the facts about blocks as paths that all proofs need.             *)
(***************************************************************************)
EXTENDS LogStore, TLAPS

(* A block is a non-empty path, so its height is a natural number and it   *)
(* is never the zero hash.                                                 *)
LEMMA BlockIsPath ==
    ASSUME NEW b \in Block
    PROVE  /\ b \in Seq(Label)
           /\ Len(b) \in Nat \ {0}
           /\ Height(b) \in Nat
           /\ Height(b) \in Heights
           /\ b # NoHash
<1>0. PICK c \in Branches : \E i \in 1..Len(c) : b = SubSeq(c, 1, i)
  BY DEF Block
<1>1. PICK i \in 1..Len(c) : b = SubSeq(c, 1, i)
  BY <1>0
<1>2. c \in Seq(Label) /\ Len(c) \in Nat
  BY BranchesAssumption
<1>3. b \in Seq(Label) /\ Len(b) = i
  BY <1>1, <1>2
<1>4. b # <<>>
  BY <1>2, <1>3
<1> QED
  BY <1>2, <1>3, <1>4 DEF Height, Heights, NoHash

(* The chain of a block consists of blocks, each at its own height.        *)
LEMMA BlockAtIsBlock ==
    ASSUME NEW c \in Block, NEW n \in Nat, n <= Height(c)
    PROVE  BlockAt(c, n) \in Block /\ Height(BlockAt(c, n)) = n
<1>0. PICK d \in Branches : \E i \in 1..Len(d) : c = SubSeq(d, 1, i)
  BY DEF Block
<1>1. PICK i \in 1..Len(d) : c = SubSeq(d, 1, i)
  BY <1>0
<1>2. d \in Seq(Label) /\ Len(d) \in Nat
  BY BranchesAssumption
<1>3. Len(c) = i /\ c \in Seq(Label)
  BY <1>1, <1>2
<1>4. n + 1 \in 1..Len(d) /\ n + 1 <= i
  BY <1>2, <1>3 DEF Height
<1>5. SubSeq(c, 1, n + 1) = SubSeq(d, 1, n + 1)
  BY <1>1, <1>2, <1>4
<1>6. Len(SubSeq(d, 1, n + 1)) = n + 1
  BY <1>2, <1>4
<1> QED
  BY <1>4, <1>5, <1>6 DEF Block, BlockAt, Height

(* The parent of a block above genesis is a block, one height lower.       *)
LEMMA ParentIsBlock ==
    ASSUME NEW b \in Block, Height(b) > 0
    PROVE  Parent(b) \in Block /\ Height(Parent(b)) = Height(b) - 1
<1>1. Height(b) - 1 \in Nat /\ Height(b) - 1 <= Height(b)
  BY BlockIsPath
<1>2. Parent(b) = BlockAt(b, Height(b) - 1)
  BY BlockIsPath DEF Parent, BlockAt, Height
<1> QED
  BY <1>1, <1>2, BlockAtIsBlock

LEMMA HeightsAreNat == Heights \subseteq Nat
  BY BlockIsPath DEF Heights

-----------------------------------------------------------------------------
(* The inductive invariant.  The interval of a cursor is not empty: without*)
(* that a range could "touch" a coverage that it does not extend.          *)
StoreInv ==
    /\ StoreTypeOK
    /\ HasCursor => cursor.start <= cursor.head
    /\ CoverageComplete
    /\ LogsPaired

LEMMA StoreInitInv == StoreInit => StoreInv
<1> SUFFICES ASSUME StoreInit PROVE StoreInv
  OBVIOUS
<1>1. NoCursor \in Coverage /\ DOMAIN blocks = {} /\ logs = {} /\ cursor = NoCursor
  BY DEF StoreInit, NoCursor, Coverage
<1>2. StoreTypeOK
  BY <1>1 DEF StoreTypeOK
<1>3. CoverageComplete
  BY <1>1 DEF CoverageComplete, Covered, NoCursor
<1> QED
  BY <1>1, <1>2, <1>3 DEF StoreInv, LogsPaired, HasCursor

(* A write of consecutive blocks keeps the invariant, whoever makes it.    *)
LEMMA WriteRangeInv ==
    ASSUME StoreInv, NEW from \in Nat, NEW to \in Nat, from <= to,
           NEW bs \in [from..to -> Block], NEW ls \in SUBSET LogRow,
           WriteRange(from, to, bs, ls)
    PROVE  StoreInv'
<1> USE DEF StoreInv
<1>1. /\ logs' = {l \in logs : l.n \notin from..to} \cup ls
      /\ DOMAIN blocks' = DOMAIN blocks \cup from..to
      /\ \A n \in from..to : blocks'[n] = bs[n]
      /\ \A n \in DOMAIN blocks \ (from..to) : blocks'[n] = blocks[n]
      /\ cursor' = MergedCoverage(from, to)
  BY DEF WriteRange
<1>2. \A l \in ls : l.n \in from..to /\ l.hash = bs[l.n] /\ bs[l.n] \in Block
  BY DEF WriteRange, WriteRangeAllowed, LogsMatchBlocks
<1>3. ls \subseteq StoredLogRow
  BY <1>2 DEF LogRow, StoredLogRow
<1>4. TouchesCoverage(from, to)
  BY DEF WriteRange, WriteRangeAllowed
<1>5. cursor \in Coverage
  BY DEF StoreTypeOK
<1>6. cursor' \in Coverage /\ cursor'.start <= cursor'.head
  BY <1>1, <1>5 DEF MergedCoverage, Coverage, Lesser, Greater
<1>7. StoreTypeOK'
  <2>1. DOMAIN blocks' \subseteq Nat /\ \A n \in DOMAIN blocks' : blocks'[n] \in Block
    BY <1>1 DEF StoreTypeOK
  <2>2. logs' \subseteq StoredLogRow
    BY <1>1, <1>3 DEF StoreTypeOK
  <2> QED
    BY <2>1, <2>2, <1>6 DEF StoreTypeOK
<1>8. CoverageComplete'
  <2>1. CASE HasCursor
    <3>1. \A n \in cursor'.start..cursor'.head : n \in Covered \/ n \in from..to
      BY <2>1, <1>1, <1>4, <1>5 DEF TouchesCoverage, MergedCoverage, Covered, Coverage, Lesser, Greater
    <3> QED
      BY <3>1, <1>1 DEF CoverageComplete, Covered
  <2>2. CASE ~HasCursor
    BY <2>2, <1>1 DEF CoverageComplete, Covered, MergedCoverage
  <2> QED
    BY <2>1, <2>2
<1>9. LogsPaired'
  <2> SUFFICES ASSUME NEW l \in logs'
               PROVE  l.n \in DOMAIN blocks' /\ blocks'[l.n] = l.hash
    BY DEF LogsPaired
  <2>1. CASE l \in ls
    BY <2>1, <1>1, <1>2
  <2>2. CASE l \in logs /\ l.n \notin from..to
    BY <2>2, <1>1 DEF LogsPaired
  <2> QED
    BY <2>1, <2>2, <1>1
<1> QED
  BY <1>6, <1>7, <1>8, <1>9

(* So does a rewind, to any height.                                        *)
LEMMA RewindInv ==
    ASSUME StoreInv, NEW to \in Nat, Rewind(to)
    PROVE  StoreInv'
<1> USE DEF StoreInv
<1>1. /\ logs' = {l \in logs : l.n <= to}
      /\ DOMAIN blocks' = {m \in DOMAIN blocks : m <= to}
      /\ \A n \in DOMAIN blocks' : blocks'[n] = blocks[n]
      /\ cursor' = [start |-> cursor.start, head |-> to]
      /\ cursor.start <= to /\ to < cursor.head
  BY DEF Rewind, RewindAllowed, StoreTypeOK, Coverage
<1>2. cursor \in Coverage
  BY DEF StoreTypeOK
<1>3. StoreTypeOK' /\ cursor'.start <= cursor'.head
  BY <1>1, <1>2 DEF StoreTypeOK, Coverage
<1>4. CoverageComplete'
  BY <1>1, <1>2 DEF CoverageComplete, Covered, Coverage
<1>5. LogsPaired'
  BY <1>1 DEF LogsPaired
<1> QED
  BY <1>3, <1>4, <1>5

LEMMA StoreNextInv == StoreInv /\ [StoreNext]_storeVars => StoreInv'
<1> SUFFICES ASSUME StoreInv, [StoreNext]_storeVars
             PROVE  StoreInv'
  OBVIOUS
<1>1. CASE AnyWriteRange
  <2>1. PICK from \in Heights : \E to \in Heights :
            /\ from <= to
            /\ \E bs \in [from..to -> Block], own \in SUBSET (from..to),
                  stray \in {{}} \cup {{l} : l \in [n : Heights, hash : Block \cup {NoHash}]} :
                  WriteRange(from, to, bs, {[n |-> n, hash |-> bs[n]] : n \in own} \cup stray)
    BY <1>1 DEF AnyWriteRange
  <2>2. PICK to \in Heights :
            /\ from <= to
            /\ \E bs \in [from..to -> Block], own \in SUBSET (from..to),
                  stray \in {{}} \cup {{l} : l \in [n : Heights, hash : Block \cup {NoHash}]} :
                  WriteRange(from, to, bs, {[n |-> n, hash |-> bs[n]] : n \in own} \cup stray)
    BY <2>1
  <2>3. PICK bs \in [from..to -> Block], own \in SUBSET (from..to),
             stray \in {{}} \cup {{l} : l \in [n : Heights, hash : Block \cup {NoHash}]} :
             WriteRange(from, to, bs, {[n |-> n, hash |-> bs[n]] : n \in own} \cup stray)
    BY <2>2
  <2>4. from \in Nat /\ to \in Nat
    BY HeightsAreNat
  <2>5. {[n |-> n, hash |-> bs[n]] : n \in own} \subseteq LogRow
    BY <2>4 DEF LogRow
  <2>6. stray \subseteq LogRow
    BY HeightsAreNat DEF LogRow
  <2> QED
    BY <2>2, <2>3, <2>4, <2>5, <2>6, WriteRangeInv
<1>2. CASE AnyRewind
  BY <1>2, HeightsAreNat, RewindInv DEF AnyRewind
<1>3. CASE UNCHANGED storeVars
  BY <1>3 DEF storeVars, StoreInv, StoreTypeOK, HasCursor, CoverageComplete, Covered, LogsPaired
<1> QED
  BY <1>1, <1>2, <1>3 DEF StoreNext

(* Type correctness, no coverage without its rows, no log row under        *)
(* another block: for every caller of WriteRange and Rewind.               *)
THEOREM StoreCorrect == StoreSpec => [](StoreTypeOK /\ CoverageComplete /\ LogsPaired)
<1>1. StoreInv => StoreTypeOK /\ CoverageComplete /\ LogsPaired
  BY DEF StoreInv
<1> QED
  BY <1>1, StoreInitInv, StoreNextInv, PTL DEF StoreSpec
=============================================================================
