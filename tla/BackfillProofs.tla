--------------------------- MODULE BackfillProofs ---------------------------
(***************************************************************************)
(* Backfills, the tail, rewinds and readers share one warehouse.           *)
(***************************************************************************)
EXTENDS Backfill, LogStoreProofs, FiniteSetTheorems

Top == Height(Canonical)

-----------------------------------------------------------------------------
(* Partitions.  The partition of a height is the quotient; it is the only  *)
(* one whose bounds the height lies between.                               *)
LEMMA DivBounds ==
    ASSUME NEW d \in Nat \ {0}, NEW n \in Nat
    PROVE  /\ n \div d \in Nat
           /\ (n \div d) * d <= n
           /\ n <= (n \div d) * d + d - 1
<1>1. n = d * (n \div d) + (n % d) /\ n % d \in 0..(d - 1) /\ n \div d \in Int
  OBVIOUS
<1> QED
  BY <1>1

LEMMA DivLess ==
    ASSUME NEW d \in Nat \ {0}, NEW p \in Nat, NEW q \in Nat, p < q
    PROVE  p * d + d <= q * d
<1>1. q >= p + 1 /\ (p + 1) * d <= q * d /\ (p + 1) * d = p * d + d
  OBVIOUS
<1> QED
  BY <1>1

LEMMA DivUnique ==
    ASSUME NEW d \in Nat \ {0}, NEW n \in Nat, NEW p \in Nat,
           p * d <= n, n <= p * d + d - 1
    PROVE  n \div d = p
<1> DEFINE q == n \div d
<1>1. q \in Nat /\ q * d <= n /\ n <= q * d + d - 1
  BY DivBounds
<1> HIDE DEF q
<1>2. p * d \in Int /\ q * d \in Int
  BY <1>1
<1>3. ~(q < p) /\ ~(p < q)
  BY <1>1, <1>2, DivLess
<1> QED
  BY <1>1, <1>3 DEF q

LEMMA DivMonotone ==
    ASSUME NEW d \in Nat \ {0}, NEW m \in Nat, NEW n \in Nat, m <= n
    PROVE  m \div d <= n \div d
<1> DEFINE p == m \div d
           q == n \div d
<1>1. p \in Nat /\ p * d <= m /\ q \in Nat /\ n <= q * d + d - 1
  BY DivBounds
<1> HIDE DEF p, q
<1>2. p * d \in Int /\ q * d \in Int
  BY <1>1
<1>3. ~(q < p)
  BY <1>1, <1>2, DivLess
<1> QED
  BY <1>1, <1>3 DEF p, q

(* What the assumptions say of an export.                                  *)
LEMMA ExportFields ==
    ASSUME NEW e \in Exports
    PROVE  /\ Top \in Nat /\ Canonical \in Block
           /\ e.first \in 0..Top /\ e.last \in 0..Top /\ e.first <= e.last
           /\ e.heights \subseteq 0..Top
           /\ DOMAIN e.print = DOMAIN e.rows
           /\ Interval(e) \subseteq 0..Top
<1>1. Top \in Nat /\ Canonical \in Block
  BY WarehouseAssumption, BlockIsPath DEF Top
<1>2. e.first \in 0..Top /\ e.last \in 0..Top /\ e.heights \subseteq 0..Top /\ e.first <= e.last
      /\ DOMAIN e.print = DOMAIN e.rows
  BY ExportsAssumption DEF ManifestOK, Top
<1> QED
  BY <1>1, <1>2 DEF Interval

(* The units of an export cut its interval into partitions.                *)
LEMMA UnitOf ==
    ASSUME NEW e \in Exports, NEW n \in Interval(e)
    PROVE  n \in 0..Top /\ Part(n) \in Nat /\ Part(n) \in PartsOf(e) /\ n \in UnitInterval(e, Part(n))
<1>1. e.first \in Nat /\ e.last \in Nat /\ n \in Nat /\ e.first <= n /\ n <= e.last /\ n \in 0..Top
  BY ExportFields DEF Interval
<1>2. PartitionBlocks \in Nat \ {0}
  BY WarehouseAssumption
<1>3. /\ Part(n) \in Nat /\ Part(n) * PartitionBlocks <= n
      /\ n <= Part(n) * PartitionBlocks + PartitionBlocks - 1
  BY <1>1, <1>2, DivBounds DEF Part
<1>4. Part(e.first) \in Nat /\ Part(e.last) \in Nat
  BY <1>1, <1>2, DivBounds DEF Part
<1>5. Part(e.first) <= Part(n) /\ Part(n) <= Part(e.last)
  BY <1>1, <1>2, DivMonotone DEF Part
<1>6. Part(n) * PartitionBlocks \in Nat
  BY <1>2, <1>3
<1> HIDE DEF Part
<1>7. n \in UnitInterval(e, Part(n))
  BY <1>1, <1>2, <1>3, <1>6 DEF UnitInterval, Greater, Lesser
<1> QED
  BY <1>1, <1>3, <1>4, <1>5, <1>7 DEF PartsOf

(* A height of a unit belongs to the interval, and to no other partition.  *)
LEMMA InUnit ==
    ASSUME NEW e \in Exports, NEW p \in Nat, NEW n \in UnitInterval(e, p)
    PROVE  n \in Interval(e) /\ n \in 0..Top /\ Part(n) = p
<1>1. e.first \in Nat /\ e.last \in Nat /\ PartitionBlocks \in Nat \ {0} /\ p * PartitionBlocks \in Nat
  BY ExportFields, WarehouseAssumption
<1>2. /\ n \in Nat /\ e.first <= n /\ n <= e.last
      /\ p * PartitionBlocks <= n /\ n <= p * PartitionBlocks + PartitionBlocks - 1
  BY <1>1 DEF UnitInterval, Greater, Lesser
<1>3. Part(n) = p
  BY <1>1, <1>2, DivUnique DEF Part
<1> QED
  BY <1>2, <1>3, ExportFields DEF Interval

LEMMA PartsAreNat ==
    ASSUME NEW e \in Exports
    PROVE  /\ PartsOf(e) \subseteq Nat
           /\ Part(e.first) \in PartsOf(e)
           /\ \A p \in PartsOf(e) : p < Part(e.last) => p + 1 \in PartsOf(e)
<1>1. e.first \in Interval(e) /\ e.last \in Interval(e)
  BY ExportFields DEF Interval
<1>2. Part(e.first) \in Nat /\ Part(e.last) \in Nat /\ Part(e.first) \in PartsOf(e)
  BY <1>1, UnitOf
<1> HIDE DEF Part
<1> QED
  BY <1>2 DEF PartsOf

(* The chain has a block at each of its heights.                           *)
LEMMA CanonicalRows ==
    ASSUME NEW n \in 0..Top
    PROVE  BlockAt(Canonical, n) \in Block /\ LogAt(n) \in StoredLogRow /\ LogAt(n).n = n /\ n \in Nat
<1>1. n \in Nat /\ n <= Height(Canonical) /\ Canonical \in Block
  BY WarehouseAssumption, BlockIsPath DEF Top
<1>2. BlockAt(Canonical, n) \in Block
  BY <1>1, BlockAtIsBlock
<1> QED
  BY <1>1, <1>2 DEF LogAt, StoredLogRow

-----------------------------------------------------------------------------
(* The tables hold blocks of the chain and logs of its blocks, and the     *)
(* cursor names a part of it.                                              *)
TablesInv ==
    /\ DOMAIN blocks \subseteq 0..Top
    /\ \A n \in DOMAIN blocks : blocks[n] = BlockAt(Canonical, n)
    /\ \A l \in logs : l.n \in 0..Top /\ l = LogAt(l.n)
    /\ cursor \in Coverage
    /\ HasCursor => cursor.start <= cursor.head /\ cursor.head <= Top
    /\ maintenance \in BOOLEAN
    /\ DOMAIN loaded \subseteq UNION {DOMAIN e.print : e \in Exports}
    /\ DOMAIN source = 0..Top

Stage == {"prepare", "logs", "blocks", "finish"}

(* Where a process and a reader can be; a process inside a stage has not   *)
(* taken it off its list yet.                                              *)
Running(r) ==
    \/ r \in [op : {"lock", "stage"}, stages : Seq(Stage)]
    \/ r \in [op : {"blocks", "load blocks", "verify", "publish", "unflag"},
              stages : Seq(Stage) \ {<<>>}]
    \/ r \in [op : {"part", "load"}, stages : Seq(Stage) \ {<<>>}, part : PartsOf(manifest)]

RunInv ==
    /\ run = Idle \/ Running(run)
    /\ run.op = "load" => PartFilesMatch(run.part)
    /\ (writer = "backfill") <=> (run # Idle)
    /\ writer \in {"none", "serve", "backfill"}
    /\ {manifest, files} \subseteq Exports

ReaderType ==
    reader \in {NoReader} \cup [op : {"begun", "refused", "serving"}, flagged : BOOLEAN, sound : BOOLEAN]

TypeInv == TablesInv /\ RunInv /\ ReaderType

(* What a place says of the locals that are live there.                    *)
LEMMA RunFields ==
    ASSUME RunInv
    PROVE  /\ run.op \in {"idle", "lock", "stage", "part", "load", "blocks", "load blocks", "verify",
                         "publish", "unflag"}
           /\ run.op = "idle" <=> run = Idle
           /\ run.op # "idle" => run.stages \in Seq(Stage)
           /\ run.op \notin {"idle", "lock", "stage"} => run.stages # <<>>
           /\ run.op \in {"part", "load"} =>
                 /\ run \in [op : {"part", "load"}, stages : Seq(Stage) \ {<<>>}, part : PartsOf(manifest)]
                 /\ run.part \in PartsOf(manifest) /\ run.part \in Nat
           /\ run.op \notin {"idle", "part", "load"} =>
                 run \in [op : {"lock", "stage", "blocks", "load blocks", "verify", "publish", "unflag"},
                          stages : Seq(Stage)]
           /\ run.op # "idle" <=> writer = "backfill"
<1>1. PartsOf(manifest) \subseteq Nat
  BY PartsAreNat DEF RunInv
<1>2. CASE run = Idle
  BY <1>2 DEF Idle, RunInv, Running
<1>3. CASE run # Idle
  BY <1>1, <1>3 DEF Idle, RunInv, Running
<1> QED
  BY <1>2, <1>3

LEMMA TypeFollows == TypeInv => TypeOK
<1> SUFFICES ASSUME TypeInv PROVE TypeOK
  OBVIOUS
<1>1. StoreTypeOK
  <2>1. DOMAIN blocks \subseteq Nat /\ \A n \in DOMAIN blocks : blocks[n] \in Block
    BY CanonicalRows DEF TypeInv, TablesInv
  <2>2. logs \subseteq StoredLogRow
    BY CanonicalRows DEF TypeInv, TablesInv
  <2> QED
    BY <2>1, <2>2 DEF StoreTypeOK, TypeInv, TablesInv
<1>2. run.op \in {"part", "load"} => run.part \in PartsOf(manifest)
  BY RunFields DEF TypeInv
<1> QED
  BY <1>1, <1>2 DEF TypeOK, TypeInv, TablesInv, RunInv

LEMMA InitType == Init => TypeInv
<1> SUFFICES ASSUME Init PROVE TypeInv
  OBVIOUS
<1>1. TablesInv
  <2>1. cursor = NoCursor /\ NoCursor \in Coverage
    BY DEF Init, StoreInit, NoCursor, Coverage
  <2> QED
    BY <2>1 DEF Init, StoreInit, TablesInv, HasCursor, Top
<1>2. RunInv /\ ReaderType
  BY DEF Init, RunInv, ReaderType, Idle
<1> QED
  BY <1>1, <1>2 DEF TypeInv

-----------------------------------------------------------------------------
(* The transactions keep the tables well-formed.                           *)
LEMMA TablesSame == TablesInv /\ UNCHANGED tables => TablesInv'
  BY DEF tables, storeVars, units, TablesInv, HasCursor

LEMMA FlagTables == TablesInv /\ (MarkMaintenance \/ ClearMaintenance) => TablesInv'
  BY DEF MarkMaintenance, ClearMaintenance, storeVars, units, TablesInv, HasCursor

(* A unit is replaced by the rows of files that lie inside it.             *)
LEMMA LoadPartTables ==
    ASSUME TablesInv, manifest \in Exports, NEW p \in Nat, PartFilesMatch(p),
           files.rows[p] \subseteq UnitInterval(manifest, p), LoadPart(p)
    PROVE  TablesInv'
<1>1. \A n \in files.rows[p] : n \in 0..Top
  BY InUnit
<1>2. \A l \in logs' : l \in logs \/ \E n \in files.rows[p] : l = LogAt(n)
  BY DEF LoadPart
<1>3. \A l \in logs' : l.n \in 0..Top /\ l = LogAt(l.n)
  BY <1>1, <1>2, CanonicalRows DEF TablesInv
<1>4. DOMAIN loaded' = DOMAIN loaded \cup {p} /\ p \in DOMAIN manifest.print
  BY DEF LoadPart, Put, PartFilesMatch
<1>5. DOMAIN source' = DOMAIN source /\ UNCHANGED <<blocks, cursor, maintenance>>
  BY DEF LoadPart
<1> QED
  BY <1>3, <1>4, <1>5 DEF TablesInv, HasCursor

(* Block rows are replaced by blocks of the chain.                         *)
LEMMA LoadBlocksTables ==
    ASSUME TablesInv, manifest \in Exports, LoadBlocks
    PROVE  TablesInv'
<1>1. Interval(manifest) \subseteq 0..Top
  BY ExportFields
<1> QED
  BY <1>1 DEF LoadBlocks, TablesInv, HasCursor

(* The merged coverage is the union, for an interval that touches.         *)
LEMMA Merged ==
    ASSUME TablesInv, NEW from \in 0..Top, NEW to \in 0..Top, from <= to,
           TouchesCoverage(from, to), cursor' = MergedCoverage(from, to)
    PROVE  /\ cursor' \in Coverage /\ HasCursor'
           /\ cursor'.start <= cursor'.head /\ cursor'.head <= Top
           /\ Covered' = Covered \cup from..to
           /\ cursor'.head = IF HasCursor THEN Greater(cursor.head, to) ELSE to
<1>1. Top \in Nat /\ cursor.start \in Nat /\ cursor.head \in Nat
  BY WarehouseAssumption, BlockIsPath DEF Top, TablesInv, Coverage
<1>2. CASE HasCursor
  <2>1. cursor.start <= cursor.head /\ cursor.head <= Top
    BY <1>2 DEF TablesInv
  <2>2. cursor' = [start |-> Lesser(cursor.start, from), head |-> Greater(cursor.head, to)]
    BY <1>2 DEF MergedCoverage
  <2>3. /\ Lesser(cursor.start, from) \in Nat /\ Greater(cursor.head, to) \in Nat
        /\ Lesser(cursor.start, from) <= Greater(cursor.head, to) /\ Greater(cursor.head, to) <= Top
    BY <1>1, <2>1 DEF Lesser, Greater
  <2>4. Lesser(cursor.start, from)..Greater(cursor.head, to) = Covered \cup from..to
    BY <1>1, <1>2, <2>1 DEF Lesser, Greater, Covered, TouchesCoverage
  <2>5. cursor'.start = Lesser(cursor.start, from) /\ cursor'.head = Greater(cursor.head, to)
        /\ cursor' \in Coverage
    BY <2>2, <2>3 DEF Coverage
  <2>6. HasCursor'
    BY <2>3, <2>5 DEF HasCursor, NoCursor
  <2> QED
    BY <1>2, <2>3, <2>4, <2>5, <2>6 DEF Covered
<1>3. CASE ~HasCursor
  <2>1. cursor' = [start |-> from, head |-> to] /\ Covered = {}
    BY <1>3 DEF MergedCoverage, HasCursor, NoCursor, Covered
  <2> QED
    BY <1>1, <1>3, <2>1 DEF Coverage, HasCursor, NoCursor, Covered
<1> QED
  BY <1>2, <1>3

(* The coverage published is the old one and the interval.                 *)
LEMMA SetCoverageTables ==
    ASSUME TablesInv, manifest \in Exports, SetCoverage
    PROVE  TablesInv' /\ Covered' = Covered \cup Interval(manifest) /\ HasCursor'
           /\ cursor'.head = IF HasCursor THEN Greater(cursor.head, manifest.last) ELSE manifest.last
<1>1. manifest.first \in 0..Top /\ manifest.last \in 0..Top /\ manifest.first <= manifest.last
  BY ExportFields
<1>2. /\ cursor' \in Coverage /\ HasCursor'
      /\ cursor'.start <= cursor'.head /\ cursor'.head <= Top
      /\ Covered' = Covered \cup manifest.first..manifest.last
      /\ cursor'.head = IF HasCursor THEN Greater(cursor.head, manifest.last) ELSE manifest.last
  BY <1>1, Merged DEF SetCoverage, Preflight
<1>3. DOMAIN source' = DOMAIN source /\ UNCHANGED <<blocks, logs, maintenance, loaded>>
  BY DEF SetCoverage, NoteVerified, units
<1> QED
  BY <1>2, <1>3 DEF TablesInv, Interval

(* The tail writes blocks of the chain with their logs.                    *)
LEMMA TailWritesTables ==
    ASSUME TablesInv, TailWrites
    PROVE  TablesInv'
<1>1. PICK from \in 0..Top, to \in 0..Top :
        /\ from <= to
        /\ WriteRange(from, to, [n \in from..to |-> BlockAt(Canonical, n)],
                      {LogAt(n) : n \in {k \in from..to : HasLogs(k)}})
        /\ DOMAIN source' = DOMAIN source
        /\ UNCHANGED <<maintenance, loaded>>
  BY DEF TailWrites, Top, units
<1>2. /\ \A l \in logs' : l \in logs \/ \E n \in from..to : l = LogAt(n)
      /\ DOMAIN blocks' = DOMAIN blocks \cup from..to
      /\ \A n \in DOMAIN blocks' : blocks'[n] = IF n \in from..to THEN BlockAt(Canonical, n) ELSE blocks[n]
      /\ TouchesCoverage(from, to) /\ cursor' = MergedCoverage(from, to)
  BY <1>1 DEF WriteRange, WriteRangeAllowed
<1>3. from..to \subseteq 0..Top
  BY WarehouseAssumption, BlockIsPath DEF Top
<1>4. \A l \in logs' : l.n \in 0..Top /\ l = LogAt(l.n)
  BY <1>2, <1>3, CanonicalRows DEF TablesInv
<1>5. DOMAIN blocks' \subseteq 0..Top /\ \A n \in DOMAIN blocks' : blocks'[n] = BlockAt(Canonical, n)
  BY <1>2, <1>3 DEF TablesInv
<1>6. cursor' \in Coverage /\ cursor'.start <= cursor'.head /\ cursor'.head <= Top
  BY <1>1, <1>2, Merged
<1> QED
  BY <1>1, <1>4, <1>5, <1>6 DEF TablesInv

(* A rewind leaves the rows up to the new head.                            *)
LEMMA RewindsTables ==
    ASSUME TablesInv, Rewinds
    PROVE  TablesInv'
<1>1. PICK to \in 0..Top : /\ Rewind(to)
                           /\ DOMAIN source' = DOMAIN source
                           /\ UNCHANGED <<maintenance, loaded>>
  BY DEF Rewinds, Top, units
<1>2. to \in Nat /\ to <= Top
  BY WarehouseAssumption, BlockIsPath DEF Top
<1>3. cursor' = [start |-> cursor.start, head |-> to] /\ cursor.start <= to /\ cursor.start \in Nat
  BY <1>1 DEF Rewind, RewindAllowed, TablesInv, Coverage
<1> QED
  BY <1>1, <1>2, <1>3 DEF TablesInv, Rewind, Coverage

-----------------------------------------------------------------------------
(* A process goes from one place of its stages to another, or ends.        *)
LEMMA Continued ==
    ASSUME RunInv, UNCHANGED <<disk, writer>>, run # Idle, run' # Idle, Running(run)',
           run'.op = "load" => PartFilesMatch(run'.part)
    PROVE  RunInv'
BY DEF RunInv, disk, PartFilesMatch

LEMMA Ended == RunInv /\ UNCHANGED disk /\ RunEnds => RunInv'
BY DEF RunInv, disk, RunEnds, Idle

LEMMA Standing ==
    RunInv /\ UNCHANGED <<disk, run>> /\ ((run = Idle /\ writer' \in {"none", "serve"}) \/ UNCHANGED writer)
        => RunInv'
BY DEF RunInv, Running, disk, PartFilesMatch, PartsOf, Part, Idle

LEMMA NextStageRuns ==
    ASSUME RunInv, UNCHANGED disk, run.op \notin {"idle", "lock"}, run.stages # <<>>,
           Continue(NextStage)
    PROVE  RunInv'
<1>1. run.stages \in Seq(Stage) /\ run # Idle
  BY RunFields DEF Idle
<1>2. Tail(run.stages) \in Seq(Stage)
  BY <1>1
<1>3. run' = [op |-> "stage", stages |-> Tail(run.stages)] /\ writer' = writer
  BY DEF Continue, NextStage
<1>4. Running(run)' /\ run' # Idle /\ run'.op # "load"
  BY <1>2, <1>3 DEF Running, Idle
<1> QED
  BY <1>1, <1>3, <1>4, Continued

(* Another place in the same stage.                                        *)
LEMMA OpChanges ==
    ASSUME RunInv, UNCHANGED <<disk, writer>>, run.op \notin {"idle", "lock", "stage"},
           NEW o \in {"blocks", "load blocks", "verify", "publish", "unflag"},
           run.op \notin {"part", "load"},
           run' = [run EXCEPT !.op = o]
    PROVE  RunInv'
<1>1. run \in [op : {"blocks", "load blocks", "verify", "publish", "unflag"},
               stages : Seq(Stage) \ {<<>>}]
  <2>1. run # Idle /\ Running(run)
    <3>1. Idle.op = "idle"
      BY DEF Idle
    <3>2. run # Idle
      BY <3>1
    <3> QED
      BY <3>2 DEF RunInv
  <2>2. run \notin [op : {"lock", "stage"}, stages : Seq(Stage)]
    OBVIOUS
  <2>3. run \notin [op : {"part", "load"}, stages : Seq(Stage) \ {<<>>}, part : PartsOf(manifest)]
    OBVIOUS
  <2> QED
    BY <2>1, <2>2, <2>3 DEF Running
<1>2. run' \in [op : {"blocks", "load blocks", "verify", "publish", "unflag"},
                stages : Seq(Stage) \ {<<>>}]
  BY <1>1
<1>3. Running(run)'
  BY <1>2 DEF Running
<1>4. run' # Idle /\ run'.op # "load" /\ run # Idle
  <2>1. Idle.op = "idle"
    BY DEF Idle
  <2>2. run'.op \in {"blocks", "load blocks", "verify", "publish", "unflag"}
    BY <1>2
  <2> QED
    BY <2>1, <2>2
<1> QED
  BY <1>3, <1>4, Continued

(* The partition after this one is one of the interval, or the stage is    *)
(* over.                                                                   *)
LEMMA NextPartRuns ==
    ASSUME RunInv, UNCHANGED disk, run.op \in {"part", "load"}, NextPart
    PROVE  RunInv' /\ run'.op \in {"part", "stage"}
<1>1. /\ run \in [op : {"part", "load"}, stages : Seq(Stage) \ {<<>>}, part : PartsOf(manifest)]
      /\ run.part \in PartsOf(manifest) /\ run.stages # <<>> /\ run # Idle
      /\ manifest \in Exports /\ manifest' = manifest
  BY RunFields DEF Idle, RunInv, disk
<1>2. CASE run.part < Part(manifest.last)
  <2>1. run' = [run EXCEPT !.op = "part", !.part = run.part + 1] /\ writer' = writer
    BY <1>2 DEF NextPart, Continue
  <2>2. run.part + 1 \in PartsOf(manifest)
    BY <1>1, <1>2, PartsAreNat
  <2>3. run' \in [op : {"part", "load"}, stages : Seq(Stage) \ {<<>>}, part : PartsOf(manifest)]
        /\ run'.op = "part"
    BY <1>1, <2>1, <2>2
  <2>4. Running(run)'
    <3>1. PartsOf(manifest') = PartsOf(manifest)
      BY <1>1
    <3> QED
      BY <2>3, <3>1 DEF Running
  <2>5. run' # Idle
    BY <2>3 DEF Idle
  <2> QED
    BY <1>1, <2>1, <2>3, <2>4, <2>5, Continued
<1>3. CASE ~(run.part < Part(manifest.last))
  <2>1. Continue(NextStage)
    BY <1>3 DEF NextPart
  <2> QED
    BY <1>1, <2>1, NextStageRuns DEF Continue, NextStage
<1> QED
  BY <1>2, <1>3

LEMMA StageStartsRuns ==
    ASSUME RunInv, StageStarts
    PROVE  RunInv'
<1>1. run.op = "stage" /\ run.stages # <<>> /\ UNCHANGED disk
  BY DEF StageStarts
<1>2. run.stages \in Seq(Stage) /\ run # Idle /\ manifest \in Exports /\ manifest' = manifest
  BY <1>1, RunFields DEF Idle, RunInv, disk
<1>3. Head(run.stages) \in Stage
  BY <1>1, <1>2
<1>4. CASE Head(run.stages) = "prepare"
  BY <1>1, <1>4, NextStageRuns DEF StageStarts
<1>5. CASE Head(run.stages) = "logs"
  <2>1. run' = [op |-> "part", stages |-> run.stages, part |-> Part(manifest.first)] /\ writer' = writer
    BY <1>5 DEF StageStarts, Continue
  <2>2. Running(run)' /\ run' # Idle /\ run'.op # "load"
    BY <1>1, <1>2, <2>1, PartsAreNat DEF Running, Idle
  <2> QED
    BY <1>1, <1>2, <2>1, <2>2, Continued
<1>6. CASE Head(run.stages) \in {"blocks", "finish"}
  <2>1. /\ run' = [op |-> IF Head(run.stages) = "blocks" THEN "blocks" ELSE "verify", stages |-> run.stages]
        /\ writer' = writer
    BY <1>6 DEF StageStarts, Continue
  <2>2. Running(run)' /\ run' # Idle /\ run'.op # "load"
    BY <1>1, <1>2, <2>1 DEF Running, Idle
  <2> QED
    BY <1>1, <1>2, <2>1, <2>2, Continued
<1> QED
  BY <1>3, <1>4, <1>5, <1>6 DEF Stage

LEMMA StartRuns ==
    ASSUME RunInv, BackfillStarts
    PROVE  RunInv'
<1>1. PICK stages \in Commands : run' = [op |-> "lock", stages |-> stages]
  BY DEF BackfillStarts
<1>2. stages \in Seq(Stage)
  <2>1. AllStages \in Seq(Stage) /\ \A i \in 1..4 : AllStages[i] \in Stage
    BY DEF AllStages, Stage
  <2>2. \A s \in Stage : <<s>> \in Seq(Stage)
    OBVIOUS
  <2> QED
    BY <2>1, <2>2 DEF Commands
<1>3. Running(run)' /\ run' # Idle
  BY <1>1, <1>2 DEF Running, Idle
<1> QED
  BY <1>1, <1>3 DEF BackfillStarts, RunInv, disk

LEMMA LockRuns ==
    ASSUME RunInv, MaintenanceLocked
    PROVE  RunInv'
<1>1. run.stages \in Seq(Stage) /\ run # Idle
  BY RunFields DEF MaintenanceLocked, Idle
<1>2. run' = [op |-> "stage", stages |-> run.stages] /\ UNCHANGED <<disk, writer>>
  BY DEF MaintenanceLocked, Continue
<1>3. Running(run)' /\ run' # Idle /\ run'.op # "load"
  BY <1>1, <1>2 DEF Running, Idle
<1> QED
  BY <1>1, <1>2, <1>3, Continued

LEMMA ExaminePartRuns ==
    ASSUME RunInv, ExaminePart
    PROVE  RunInv'
<1>1. /\ run \in [op : {"part", "load"}, stages : Seq(Stage) \ {<<>>}, part : PartsOf(manifest)]
      /\ run.op = "part" /\ run # Idle /\ UNCHANGED disk
      /\ PartsOf(manifest') = PartsOf(manifest)
  BY RunFields DEF ExaminePart, disk
<1>2. CASE RunEnds
  BY <1>1, <1>2, Ended
<1>3. CASE NextPart
  BY <1>1, <1>3, NextPartRuns
<1>4. CASE PartFilesMatch(run.part) /\ Continue([run EXCEPT !.op = "load"])
  <2>1. run' = [run EXCEPT !.op = "load"] /\ writer' = writer
    BY <1>4 DEF Continue
  <2>2. /\ run' \in [op : {"part", "load"}, stages : Seq(Stage) \ {<<>>}, part : PartsOf(manifest)]
        /\ run'.op = "load" /\ run'.part = run.part
    BY <1>1, <2>1
  <2>3. Running(run)'
    BY <1>1, <2>2 DEF Running
  <2>4. run' # Idle
    BY <2>2 DEF Idle
  <2> QED
    BY <1>1, <1>4, <2>1, <2>2, <2>3, <2>4, Continued
<1> QED
  BY <1>2, <1>3, <1>4 DEF ExaminePart

LEMMA ReloadPartRuns ==
    ASSUME RunInv, ReloadPart
    PROVE  RunInv'
BY NextPartRuns, Ended DEF ReloadPart

LEMMA BlocksRuns ==
    ASSUME RunInv, ExamineBlocks \/ ReloadBlocks
    PROVE  RunInv'
<1>1. run.op \in {"blocks", "load blocks"} /\ UNCHANGED disk /\ run.stages # <<>>
  BY RunFields DEF ExamineBlocks, ReloadBlocks
<1>2. CASE RunEnds
  BY <1>1, <1>2, Ended
<1>3. CASE Continue(NextStage)
  BY <1>1, <1>3, NextStageRuns
<1>4. CASE Continue([run EXCEPT !.op = "load blocks"])
  BY <1>1, <1>4, OpChanges DEF Continue
<1> QED
  BY <1>2, <1>3, <1>4 DEF ExamineBlocks, ReloadBlocks

LEMMA FinishRuns ==
    ASSUME RunInv, VerifyLoaded \/ Publish \/ Unflag
    PROVE  RunInv'
<1>1. run.op \in {"verify", "publish", "unflag"} /\ UNCHANGED disk /\ run.stages # <<>>
  BY RunFields DEF VerifyLoaded, Publish, Unflag
<1>2. CASE RunEnds
  BY <1>1, <1>2, Ended
<1>3. CASE Continue(NextStage)
  BY <1>1, <1>3, NextStageRuns
<1>4. ASSUME NEW o \in {"publish", "unflag"}, Continue([run EXCEPT !.op = o]) PROVE RunInv'
  BY <1>1, <1>4, OpChanges DEF Continue
<1> QED
  BY <1>2, <1>3, <1>4 DEF VerifyLoaded, Publish, Unflag

LEMMA OutsideRuns ==
    ASSUME RunInv, OperatorCopies \/ ServeStarts \/ ServeEnds \/ TailWrites \/ Rewinds \/ ReaderStep
    PROVE  RunInv'
<1>1. CASE OperatorCopies
  <2>1. run = Idle /\ run' = run /\ writer' = writer /\ {manifest, files}' \subseteq Exports
    BY <1>1 DEF OperatorCopies, RunInv
  <2>2. run'.op # "load"
    BY <2>1 DEF Idle
  <2> QED
    BY <2>1, <2>2 DEF RunInv
<1>2. CASE ServeStarts \/ ServeEnds
  <2>1. run = Idle
    BY <1>2 DEF RunInv, ServeStarts, ServeEnds
  <2> QED
    BY <1>2, <2>1, Standing DEF ServeStarts, ServeEnds
<1>3. CASE TailWrites \/ Rewinds
  BY <1>3, Standing DEF TailWrites, Rewinds
<1>4. CASE ReaderStep
  BY <1>4, Standing DEF ReaderStep, BeginRead, NotAdmitted, Admitted, EndRead
<1> QED
  BY <1>1, <1>2, <1>3, <1>4

LEMMA RunsKept ==
    ASSUME RunInv, [Next]_vars
    PROVE  RunInv'
<1>1. CASE BackfillStarts
  BY <1>1, StartRuns
<1>2. CASE MaintenanceLocked
  BY <1>2, LockRuns
<1>3. CASE ReadersDoNotDrain \/ StagesEnd \/ BackfillDies
  BY <1>3, Ended DEF ReadersDoNotDrain, StagesEnd, BackfillDies
<1>4. CASE StageStarts
  BY <1>4, StageStartsRuns
<1>5. CASE ExaminePart \/ ReloadPart
  BY <1>5, ExaminePartRuns, ReloadPartRuns
<1>6. CASE ExamineBlocks \/ ReloadBlocks
  BY <1>6, BlocksRuns
<1>7. CASE VerifyLoaded \/ Publish \/ Unflag
  BY <1>7, FinishRuns
<1>8. CASE OperatorCopies \/ ServeStarts \/ ServeEnds \/ TailWrites \/ Rewinds \/ ReaderStep
  BY <1>8, OutsideRuns
<1>9. CASE UNCHANGED vars
  BY <1>9, Standing DEF vars
<1> QED
  BY <1>1, <1>2, <1>3, <1>4, <1>5, <1>6, <1>7, <1>8, <1>9 DEF Next, BackfillStep

-----------------------------------------------------------------------------
(* What a step does to the tables: nothing, one of the transactions of the *)
(* backfill under its conditions, or a write of another process.           *)
LEMMA TableSteps ==
    ASSUME RunInv, [Next]_vars
    PROVE  \/ UNCHANGED tables
           \/ run.op \in {"part", "blocks"} /\ MarkMaintenance
           \/ /\ run.op = "load" /\ LoadPart(run.part) /\ UNCHANGED disk
              /\ run.part \in Nat /\ run.part \in PartsOf(manifest) /\ PartFilesMatch(run.part)
              /\ files.rows[run.part] \subseteq UnitInterval(manifest, run.part)
           \/ run.op = "load blocks" /\ LoadBlocks /\ UNCHANGED disk
           \/ Publish
           \/ Unflag
           \/ TailWrites
           \/ Rewinds
<1>1. CASE ReloadPart
  <2>1. run.op = "load" /\ run.part \in Nat /\ run.part \in PartsOf(manifest) /\ PartFilesMatch(run.part)
    BY <1>1, RunFields DEF ReloadPart, RunInv
  <2> QED
    BY <1>1, <2>1 DEF ReloadPart
<1>2. CASE ExaminePart
  BY <1>2 DEF ExaminePart
<1>3. CASE ExamineBlocks \/ ReloadBlocks
  BY <1>3 DEF ExamineBlocks, ReloadBlocks
<1>4. CASE \/ BackfillStarts \/ MaintenanceLocked \/ ReadersDoNotDrain \/ StageStarts \/ StagesEnd
           \/ VerifyLoaded \/ BackfillDies \/ OperatorCopies \/ ServeStarts \/ ServeEnds
           \/ ReaderStep \/ UNCHANGED vars
  BY <1>4 DEF BackfillStarts, MaintenanceLocked, ReadersDoNotDrain, StageStarts, StagesEnd,
              VerifyLoaded, BackfillDies, OperatorCopies, ServeStarts, ServeEnds,
              ReaderStep, BeginRead, NotAdmitted, Admitted, EndRead, vars
<1> QED
  BY <1>1, <1>2, <1>3, <1>4 DEF Next, BackfillStep

LEMMA TablesKept ==
    ASSUME RunInv, TablesInv, [Next]_vars
    PROVE  TablesInv'
<1>1. manifest \in Exports
  BY DEF RunInv
<1>2. CASE UNCHANGED tables
  BY <1>2, TablesSame
<1>3. CASE MarkMaintenance \/ Unflag
  BY <1>3, FlagTables DEF Unflag
<1>4. CASE /\ LoadPart(run.part) /\ run.part \in Nat /\ PartFilesMatch(run.part)
           /\ files.rows[run.part] \subseteq UnitInterval(manifest, run.part)
  BY <1>1, <1>4, LoadPartTables
<1>5. CASE LoadBlocks
  BY <1>1, <1>5, LoadBlocksTables
<1>6. CASE Publish
  BY <1>1, <1>6, SetCoverageTables DEF Publish
<1>7. CASE TailWrites
  BY <1>7, TailWritesTables
<1>8. CASE Rewinds
  BY <1>8, RewindsTables
<1> QED
  BY <1>2, <1>3, <1>4, <1>5, <1>6, <1>7, <1>8, TableSteps

LEMMA ReaderKept ==
    ASSUME TablesInv, ReaderType, [Next]_vars
    PROVE  ReaderType'
<1>1. CASE UNCHANGED reader
  BY <1>1 DEF ReaderType
<1>2. CASE BeginRead
  BY <1>2 DEF BeginRead, ReaderType, TablesInv, Sound
<1>3. CASE NotAdmitted \/ EndRead
  BY <1>3 DEF NotAdmitted, EndRead, ReaderType
<1>4. CASE Admitted
  BY <1>4 DEF Admitted, ReaderType, NoReader
<1>5. ReaderStep \/ UNCHANGED reader
  BY DEF Next, vars, BackfillStarts, BackfillStep, MaintenanceLocked, ReadersDoNotDrain, StageStarts,
         StagesEnd, ExaminePart, ReloadPart, ExamineBlocks, ReloadBlocks, VerifyLoaded, Publish, Unflag,
         BackfillDies, OperatorCopies, ServeStarts, ServeEnds, TailWrites, Rewinds
<1> QED
  BY <1>1, <1>2, <1>3, <1>4, <1>5 DEF ReaderStep

LEMMA TypeKept == TypeInv /\ [Next]_vars => TypeInv'
BY TablesKept, RunsKept, ReaderKept DEF TypeInv

(***************************************************************************)
(* The tables, the marks of the loaded units and the place of the process  *)
(* are always well-formed, and the writer lock is the backfill's exactly   *)
(* while one runs, however it dies and whatever an operator copies between *)
(* runs (AcquireBackfillLocks, Logs, Blocks, Finish).                      *)
(***************************************************************************)
THEOREM BackfillTypeCorrect == Spec => []TypeOK
<1>1. Spec => []TypeInv
  BY InitType, TypeKept, PTL DEF Spec
<1> QED
  BY <1>1, TypeFollows, PTL

-----------------------------------------------------------------------------
(***************************************************************************)
(* No step but a rewind takes a block out of the coverage: neither a       *)
(* finish, rerun after the tail has gone on or over an interval below the  *)
(* coverage, nor the tail (SetCoverage, WriteRange).                       *)
(***************************************************************************)
THEOREM CoverageKept == Spec => CoverageOnlyRewound
<1>1. Spec => []TypeInv
  BY InitType, TypeKept, PTL DEF Spec
<1>2. ASSUME TypeInv, [Next]_vars
      PROVE  [(Covered \subseteq cursor'.start..cursor'.head) \/ Rewinds]_vars
  <2>1. Covered' = cursor'.start..cursor'.head
    BY DEF Covered
  <2>2. TablesInv /\ RunInv /\ manifest \in Exports
    BY <1>2 DEF TypeInv, RunInv
  <2>3. CASE UNCHANGED cursor
    BY <2>1, <2>3 DEF Covered
  <2>4. CASE Publish
    BY <2>1, <2>2, <2>4, SetCoverageTables DEF Publish
  <2>5. CASE TailWrites
    <3>1. PICK from \in 0..Top, to \in 0..Top :
              from <= to /\ TouchesCoverage(from, to) /\ cursor' = MergedCoverage(from, to)
      BY <2>5 DEF TailWrites, Top, WriteRange, WriteRangeAllowed
    <3> QED
      BY <2>1, <2>2, <3>1, Merged
  <2>6. CASE Unflag
    BY <2>3, <2>6 DEF Unflag, ClearMaintenance, storeVars
  <2> QED
    BY <1>2, <2>2, <2>3, <2>4, <2>5, <2>6, TableSteps
       DEF tables, storeVars, MarkMaintenance, LoadPart, LoadBlocks
<1> QED
  BY <1>1, <1>2, PTL DEF Spec, CoverageOnlyRewound

-----------------------------------------------------------------------------
(* The exports are of one interval: a load is corrected by another export  *)
(* of the same blocks.                                                     *)
OneInterval == \A e, f \in Exports : e.first = f.first /\ e.last = f.last

(* An export that has the logs of a height has those of every block below  *)
(* it in the partition that has any: it may be cut short, not full of      *)
(* holes.                                                                  *)
NoLogMissedBelow ==
    \A e \in Exports : \A p \in DOMAIN e.rows : \A n \in e.rows[p], m \in UnitInterval(e, p) :
        m < n /\ HasLogs(m) => m \in e.rows[p]

LEMMA SameUnits ==
    ASSUME OneInterval, NEW e \in Exports, NEW f \in Exports
    PROVE  Interval(e) = Interval(f) /\ \A p : UnitInterval(e, p) = UnitInterval(f, p)
BY DEF OneInterval, Interval, UnitInterval

(* Where the row of a height comes from: no row, the tail, or the last     *)
(* load of its partition.                                                  *)
HasRow(n) == LogAt(n) \in logs

FromNowhere(n) ==
    /\ source[n] = Nothing
    /\ ~HasRow(n) /\ n \notin Covered
    /\ n \in Interval(manifest) /\ Part(n) \in DOMAIN loaded => HasCursor /\ n > cursor.head

FromTheTail(n) ==
    /\ source[n] = FromTail
    /\ n \in Covered
    /\ HasRow(n) <=> HasLogs(n)

FromLoad(n) ==
    /\ n \in Interval(manifest) /\ Part(n) \in DOMAIN loaded
    /\ source[n].print = loaded[Part(n)]
    /\ \E e \in Exports : /\ Part(n) \in DOMAIN e.print
                          /\ source[n].print = e.print[Part(n)] /\ source[n].rows = e.rows[Part(n)]
    /\ HasRow(n) <=> n \in source[n].rows

SourceFine == \A n \in 0..Top : FromNowhere(n) \/ FromTheTail(n) \/ FromLoad(n)

(* A unit was loaded from an export whose rows lie inside the unit.        *)
LoadedFine ==
    \A p \in DOMAIN loaded : \E e \in Exports :
        p \in DOMAIN e.print /\ loaded[p] = e.print[p] /\ e.rows[p] \subseteq UnitInterval(e, p)

(* What the tail has written, no load takes away.                          *)
OutsideFine == \A n \in Covered \ Interval(manifest) : Stored(n)

(* The flag is down only while all that is covered is verified.            *)
AllVerified == \A n \in Covered : Stored(n) /\ source[n].verified
FlagFine == ~maintenance => AllVerified

RowsInv == LoadedFine /\ SourceFine /\ OutsideFine /\ FlagFine

(* A load is under way only under the flag; what is published is verified, *)
(* and the flag is cleared over what is.                                   *)
StageInv ==
    /\ run.op \in {"load", "load blocks"} /\ HasCursor => maintenance
    /\ run.op = "publish" => Verified
    /\ run.op = "unflag" => AllVerified

ReaderInv ==
    /\ reader.op = "begun" => reader.flagged \/ reader.sound
    /\ reader.op = "serving" => reader.sound

ServedInv == TypeInv /\ RowsInv /\ StageInv /\ ReaderInv

LEMMA InitServed == Init => ServedInv
<1> SUFFICES ASSUME Init PROVE ServedInv
  OBVIOUS
<1>1. TypeInv
  BY InitType
<1>2. Covered = {} /\ logs = {} /\ loaded = [p \in {} |-> NoPrint] /\ \A n \in 0..Top : source[n] = Nothing
  BY DEF Init, StoreInit, NoCursor, Covered, Top
<1>3. LoadedFine /\ OutsideFine /\ FlagFine
  BY <1>2 DEF LoadedFine, OutsideFine, FlagFine, AllVerified
<1>4. SourceFine
  BY <1>2 DEF SourceFine, FromNowhere, HasRow
<1>5. StageInv /\ ReaderInv
  BY DEF Init, StageInv, ReaderInv, Idle, NoReader
<1> QED
  BY <1>1, <1>3, <1>4, <1>5 DEF ServedInv, RowsInv

(* Without coverage there is nothing to verify.                            *)
LEMMA NothingCovered == ~HasCursor => AllVerified
BY DEF HasCursor, NoCursor, Covered, AllVerified

(* A snapshot taken with the flag down is sound.                           *)
LEMMA FlagDownIsSound ==
    ASSUME TypeInv, RowsInv, ~maintenance
    PROVE  Sound
<1> SUFFICES ASSUME NEW n \in Covered
             PROVE  /\ Stored(n) /\ source[n].verified
                    /\ IF source[n] = FromTail THEN HasRow(n) <=> HasLogs(n)
                                               ELSE HasRow(n) <=> n \in source[n].rows
  BY DEF Sound, HasRow
<1>1. Stored(n) /\ source[n].verified
  BY DEF RowsInv, FlagFine, AllVerified
<1>2. n \in 0..Top
  <2>1. HasCursor
    BY DEF HasCursor, NoCursor, Covered
  <2>2. Top \in Nat /\ cursor.start \in Nat /\ cursor.head \in Nat /\ cursor.head <= Top
    BY <2>1, WarehouseAssumption, BlockIsPath DEF Top, TypeInv, TablesInv, Coverage
  <2> QED
    BY <2>2 DEF Covered
<1>3. CASE FromTheTail(n)
  BY <1>1, <1>3 DEF FromTheTail
<1>4. CASE FromLoad(n)
  <2>1. source[n].print # FromTail.print
    BY <1>4, PrintsAssumption DEF FromLoad
  <2> QED
    BY <1>1, <1>4, <2>1 DEF FromLoad
<1> QED
  BY <1>2, <1>3, <1>4 DEF RowsInv, SourceFine, FromNowhere

(* Steps that leave the rows alone keep what is said of them, whatever the *)
(* operator copies.                                                        *)
LEMMA RowsSame ==
    ASSUME OneInterval, RunInv, RunInv', RowsInv,
           UNCHANGED <<logs, blocks, cursor, units, source>>,
           ~maintenance' => ~maintenance \/ AllVerified
    PROVE  RowsInv'
<1>1. Interval(manifest') = Interval(manifest)
  BY SameUnits DEF RunInv
<1>2. \A n : Stored(n)' = Stored(n) /\ HasRow(n)' = HasRow(n)
  BY DEF Stored, HasRow, LogAt
<1>3. Covered' = Covered /\ HasCursor' = HasCursor
  BY DEF Covered, HasCursor
<1>4. LoadedFine'
  BY DEF units, RowsInv, LoadedFine
<1>5. \A n : /\ FromNowhere(n)' <=> FromNowhere(n)
             /\ FromTheTail(n)' <=> FromTheTail(n)
             /\ FromLoad(n)' <=> FromLoad(n)
  BY <1>1, <1>2, <1>3 DEF units, FromNowhere, FromTheTail, FromLoad
<1>6. SourceFine'
  BY <1>5 DEF RowsInv, SourceFine
<1>7. OutsideFine'
  BY <1>1, <1>2, <1>3 DEF RowsInv, OutsideFine
<1>8. AllVerified' <=> AllVerified
  BY <1>2, <1>3 DEF AllVerified
<1>9. FlagFine'
  BY <1>8 DEF RowsInv, FlagFine
<1> QED
  BY <1>4, <1>6, <1>7, <1>9 DEF RowsInv

(* A loaded unit has the rows of its files; the flag is up, or nothing     *)
(* covered.                                                                *)
LEMMA LoadPartRows ==
    ASSUME OneInterval, TablesInv, RowsInv, NEW p \in Nat, LoadPart(p), UNCHANGED disk,
           {manifest, files} \subseteq Exports, PartFilesMatch(p),
           files.rows[p] \subseteq UnitInterval(manifest, p),
           HasCursor => maintenance
    PROVE  RowsInv'
<1> DEFINE here == UnitInterval(manifest, p)
           rows == files.rows[p]
<1>1. /\ logs' = (logs \ LogsIn(here)) \cup {LogAt(n) : n \in rows}
      /\ loaded' = Put(loaded, p, manifest.print[p])
      /\ source' = [n \in DOMAIN source |->
                        IF n \in here THEN [print |-> files.print[p], rows |-> rows, verified |-> FALSE]
                                      ELSE source[n]]
      /\ UNCHANGED <<blocks, cursor, maintenance, manifest>>
  BY DEF LoadPart, disk
<1>2. p \in DOMAIN files.print /\ files.print[p] = manifest.print[p] /\ rows \subseteq here
      /\ manifest \in Exports /\ files \in Exports
  BY DEF PartFilesMatch
<1>3. here = UnitInterval(files, p)
  BY <1>2, SameUnits
<1>4. /\ DOMAIN loaded' = DOMAIN loaded \cup {p}
      /\ \A q \in DOMAIN loaded' : loaded'[q] = IF q = p THEN files.print[p] ELSE loaded[q]
  BY <1>1, <1>2 DEF Put
<1>5. \A n \in here : n \in Interval(manifest) /\ n \in 0..Top /\ Part(n) = p
  BY <1>2, InUnit
<1>6. \A n \in Interval(manifest) : Part(n) = p => n \in here
  BY <1>2, UnitOf
<1>7. Covered' = Covered /\ HasCursor' = HasCursor /\ (\A n : Stored(n)' = Stored(n))
      /\ Interval(manifest)' = Interval(manifest)
  BY <1>1 DEF Covered, HasCursor, Stored
<1>8. LoadedFine'
  <2> SUFFICES ASSUME NEW q \in DOMAIN loaded'
               PROVE  \E e \in Exports : q \in DOMAIN e.print /\ loaded'[q] = e.print[q]
                                       /\ e.rows[q] \subseteq UnitInterval(e, q)
    BY DEF LoadedFine
  <2>1. CASE q = p
    BY <1>2, <1>3, <1>4, <2>1
  <2>2. CASE q # p
    BY <1>4, <2>2 DEF RowsInv, LoadedFine
  <2> QED
    BY <2>1, <2>2
<1>9. \A n \in 0..Top : HasRow(n)' <=> IF n \in here THEN n \in rows ELSE HasRow(n)
  <2> SUFFICES ASSUME NEW n \in 0..Top
               PROVE  LogAt(n) \in logs' <=> IF n \in here THEN n \in rows ELSE LogAt(n) \in logs
    BY DEF HasRow, LogAt
  <2>1. \A m : LogAt(m).n = m
    BY DEF LogAt
  <2>2. (LogAt(n) \in {LogAt(m) : m \in rows}) <=> n \in rows
    BY <2>1
  <2>3. LogAt(n) \in LogsIn(here) <=> LogAt(n) \in logs /\ n \in here
    BY <2>1 DEF LogsIn
  <2> QED
    BY <1>1, <1>2, <2>2, <2>3
<1> HIDE DEF here, rows
<1>10. SourceFine'
  <2> SUFFICES ASSUME NEW n \in 0..Top
               PROVE  (FromNowhere(n) \/ FromTheTail(n) \/ FromLoad(n))'
    BY DEF SourceFine
  <2>1. n \in DOMAIN source
    BY DEF TablesInv
  <2>2. CASE n \in here
    <3>1. source'[n].print = files.print[p] /\ source'[n].rows = rows
      BY <1>1, <2>1, <2>2
    <3>2. rows = files.rows[p]
      BY DEF rows
    <3> QED
      BY <1>2, <1>4, <1>5, <1>7, <1>9, <2>2, <3>1, <3>2 DEF FromLoad
  <2>3. CASE n \notin here
    <3>1. source'[n] = source[n] /\ (HasRow(n)' <=> HasRow(n))
      BY <1>1, <1>9, <2>1, <2>3
    <3>2. n \in Interval(manifest) => Part(n) # p
      BY <1>6, <2>3
    <3>3. CASE FromNowhere(n)
      BY <1>1, <1>4, <1>7, <3>1, <3>2, <3>3 DEF FromNowhere
    <3>4. CASE FromTheTail(n)
      BY <1>7, <3>1, <3>4 DEF FromTheTail
    <3>5. CASE FromLoad(n)
      BY <1>4, <1>7, <3>1, <3>2, <3>5 DEF FromLoad
    <3> QED
      BY <3>3, <3>4, <3>5 DEF RowsInv, SourceFine
  <2> QED
    BY <2>2, <2>3
<1>11. OutsideFine'
  BY <1>7 DEF RowsInv, OutsideFine
<1>12. FlagFine'
  <2>1. ~HasCursor => AllVerified'
    BY <1>7, NothingCovered DEF HasCursor, NoCursor, Covered, AllVerified
  <2> QED
    BY <1>1, <2>1 DEF FlagFine
<1> QED
  BY <1>8, <1>10, <1>11, <1>12 DEF RowsInv

(* A load of blocks takes none from outside the interval.                  *)
LEMMA LoadBlocksRows ==
    ASSUME TablesInv, RowsInv, LoadBlocks, UNCHANGED disk, HasCursor => maintenance
    PROVE  RowsInv'
<1>1. /\ DOMAIN blocks \ Interval(manifest) \subseteq DOMAIN blocks'
      /\ UNCHANGED <<logs, cursor, maintenance, loaded, source, manifest>>
  BY DEF LoadBlocks, disk
<1>2. Covered' = Covered /\ HasCursor' = HasCursor /\ (\A n : HasRow(n)' = HasRow(n))
      /\ Interval(manifest)' = Interval(manifest)
  BY <1>1 DEF Covered, HasCursor, HasRow, LogAt
<1>3. LoadedFine'
  BY <1>1 DEF RowsInv, LoadedFine
<1>4. \A n : /\ FromNowhere(n)' <=> FromNowhere(n)
             /\ FromTheTail(n)' <=> FromTheTail(n)
             /\ FromLoad(n)' <=> FromLoad(n)
  BY <1>1, <1>2 DEF FromNowhere, FromTheTail, FromLoad
<1>5. SourceFine'
  BY <1>4 DEF RowsInv, SourceFine
<1>6. OutsideFine'
  BY <1>1, <1>2 DEF RowsInv, OutsideFine, Stored
<1>7. FlagFine'
  <2>1. ~HasCursor => Covered' = {}
    BY <1>2 DEF HasCursor, NoCursor, Covered
  <2> QED
    BY <1>1, <2>1 DEF FlagFine, AllVerified
<1> QED
  BY <1>3, <1>5, <1>6, <1>7 DEF RowsInv

(* The rows that the tail writes are the tail's, right above the head.     *)
LEMMA TailWritesRows ==
    ASSUME TablesInv, RowsInv, TailWrites
    PROVE  RowsInv'
<1>1. PICK from \in 0..Top, to \in 0..Top :
        /\ from <= to
        /\ HasCursor => from = cursor.head + 1
        /\ WriteRange(from, to, [n \in from..to |-> BlockAt(Canonical, n)],
                      {LogAt(n) : n \in {k \in from..to : HasLogs(k)}})
        /\ source' = [n \in DOMAIN source |-> IF n \in from..to THEN FromTail ELSE source[n]]
        /\ UNCHANGED <<maintenance, loaded, manifest>>
  BY DEF TailWrites, Top, units, disk
<1> DEFINE new == from..to
<1>2. /\ logs' = {l \in logs : l.n \notin new} \cup {LogAt(n) : n \in {k \in new : HasLogs(k)}}
      /\ DOMAIN blocks' = DOMAIN blocks \cup new
      /\ TouchesCoverage(from, to) /\ cursor' = MergedCoverage(from, to)
  BY <1>1 DEF WriteRange, WriteRangeAllowed
<1>3. /\ Covered' = Covered \cup new /\ HasCursor'
      /\ cursor'.head = IF HasCursor THEN Greater(cursor.head, to) ELSE to
  BY <1>1, <1>2, Merged
<1>4. /\ Top \in Nat /\ from \in Nat /\ to \in Nat /\ cursor.head \in Nat
      /\ Interval(manifest)' = Interval(manifest)
  BY <1>1, WarehouseAssumption, BlockIsPath DEF Top, TablesInv, Coverage
<1>5. \A n \in 0..Top : HasRow(n)' <=> IF n \in new THEN HasLogs(n) ELSE HasRow(n)
  <2> SUFFICES ASSUME NEW n \in 0..Top
               PROVE  LogAt(n) \in logs' <=> IF n \in new THEN HasLogs(n) ELSE LogAt(n) \in logs
    BY DEF HasRow, LogAt
  <2>1. \A m : LogAt(m).n = m
    BY DEF LogAt
  <2>2. (LogAt(n) \in {LogAt(m) : m \in {k \in new : HasLogs(k)}}) <=> n \in new /\ HasLogs(n)
    BY <2>1
  <2> QED
    BY <1>2, <2>1, <2>2
<1>6. \A n \in 0..Top : HasCursor /\ n > cursor.head /\ n \notin new => n > cursor'.head
  <2>1. HasCursor => cursor'.head = to /\ from = cursor.head + 1
    BY <1>1, <1>3, <1>4 DEF Greater
  <2> QED
    BY <1>4, <2>1
<1>7. \A n : n \in new \/ Stored(n) => Stored(n)'
  BY <1>2 DEF Stored
<1> HIDE DEF new
<1>8. LoadedFine'
  BY <1>1 DEF RowsInv, LoadedFine
<1>9. \A n \in 0..Top : source'[n] = IF n \in new THEN FromTail ELSE source[n]
  BY <1>1 DEF new, TablesInv
<1>10. SourceFine'
  <2> SUFFICES ASSUME NEW n \in 0..Top
               PROVE  (FromNowhere(n) \/ FromTheTail(n) \/ FromLoad(n))'
    BY DEF SourceFine
  <2>1. CASE n \in new
    BY <1>3, <1>5, <1>9, <2>1 DEF FromTheTail, HasLogs
  <2>2. CASE n \notin new
    <3>1. source'[n] = source[n] /\ (HasRow(n)' <=> HasRow(n)) /\ (n \in Covered' <=> n \in Covered)
      BY <1>3, <1>5, <1>9, <2>2
    <3>2. CASE FromNowhere(n)
      BY <1>1, <1>3, <1>4, <1>6, <2>2, <3>1, <3>2 DEF FromNowhere
    <3>3. CASE FromTheTail(n)
      BY <3>1, <3>3 DEF FromTheTail
    <3>4. CASE FromLoad(n)
      BY <1>1, <1>4, <3>1, <3>4 DEF FromLoad
    <3> QED
      BY <3>2, <3>3, <3>4 DEF RowsInv, SourceFine
  <2> QED
    BY <2>1, <2>2
<1>11. OutsideFine'
  BY <1>3, <1>4, <1>7 DEF RowsInv, OutsideFine
<1>12. FlagFine'
  <2>1. Covered' \subseteq 0..Top
    <3>1. Covered \subseteq 0..Top /\ new \subseteq 0..Top
      <4>1. HasCursor => Covered \subseteq 0..Top
        BY <1>4 DEF Covered, TablesInv, Coverage
      <4>2. ~HasCursor => Covered = {}
        BY DEF HasCursor, NoCursor, Covered
      <4> QED
        BY <1>4, <4>1, <4>2 DEF new
    <3> QED
      BY <1>3, <3>1
  <2>2. FromTail.verified
    BY DEF FromTail
  <2> QED
    BY <1>1, <1>3, <1>7, <1>9, <2>1, <2>2 DEF RowsInv, FlagFine, AllVerified
<1> QED
  BY <1>8, <1>10, <1>11, <1>12 DEF RowsInv

(* What a rewind cuts off comes from nowhere, above the new head.          *)
LEMMA RewindsRows ==
    ASSUME TablesInv, RowsInv, Rewinds
    PROVE  RowsInv'
<1>1. PICK to \in 0..Top :
        /\ Rewind(to)
        /\ source' = [n \in DOMAIN source |-> IF n > to THEN Nothing ELSE source[n]]
        /\ UNCHANGED <<maintenance, loaded, manifest>>
  BY DEF Rewinds, Top, units, disk
<1>2. /\ to \in Nat /\ cursor.start \in Nat /\ cursor.head \in Nat /\ cursor.head <= Top /\ Top \in Nat
      /\ HasCursor /\ to < cursor.head /\ cursor.start <= to
      /\ cursor' = [start |-> cursor.start, head |-> to]
      /\ logs' = {l \in logs : l.n <= to}
      /\ DOMAIN blocks' = {m \in DOMAIN blocks : m <= to}
  BY <1>1, WarehouseAssumption, BlockIsPath DEF Rewind, RewindAllowed, Top, TablesInv, Coverage
<1>3. /\ \A n \in 0..Top : n \in Covered' <=> n \in Covered /\ n <= to
      /\ Covered' \subseteq Covered /\ Covered \subseteq 0..Top
      /\ cursor'.head = to /\ HasCursor'
  BY <1>2 DEF Covered, HasCursor, NoCursor
<1>4. \A n \in 0..Top : HasRow(n)' <=> HasRow(n) /\ n <= to
  BY <1>2 DEF HasRow, LogAt
<1>5. \A n \in 0..Top : source'[n] = IF n > to THEN Nothing ELSE source[n]
  BY <1>1 DEF TablesInv
<1>6. \A n \in 0..Top : Stored(n) /\ n <= to => Stored(n)'
  BY <1>2 DEF Stored
<1>7. Interval(manifest)' = Interval(manifest)
  BY <1>1
<1>8. LoadedFine'
  BY <1>1 DEF RowsInv, LoadedFine
<1>9. SourceFine'
  <2> SUFFICES ASSUME NEW n \in 0..Top
               PROVE  (FromNowhere(n) \/ FromTheTail(n) \/ FromLoad(n))'
    BY DEF SourceFine
  <2>1. CASE n > to
    <3>1. n \in Nat /\ ~(n <= to)
      BY <1>2, <2>1
    <3> QED
      BY <1>3, <1>4, <1>5, <2>1, <3>1 DEF FromNowhere
  <2>2. CASE ~(n > to)
    <3>1. n <= to /\ n <= cursor.head /\ ~(n > cursor.head)
      BY <1>2, <2>2
    <3>2. source'[n] = source[n] /\ (HasRow(n)' <=> HasRow(n)) /\ (n \in Covered' <=> n \in Covered)
      BY <1>3, <1>4, <1>5, <2>2, <3>1
    <3>3. CASE FromNowhere(n)
      BY <1>1, <1>7, <3>1, <3>2, <3>3 DEF FromNowhere
    <3>4. CASE FromTheTail(n)
      BY <3>2, <3>4 DEF FromTheTail
    <3>5. CASE FromLoad(n)
      BY <1>1, <1>7, <3>2, <3>5 DEF FromLoad
    <3> QED
      BY <3>3, <3>4, <3>5 DEF RowsInv, SourceFine
  <2> QED
    BY <2>1, <2>2
<1>10. OutsideFine'
  BY <1>3, <1>6, <1>7 DEF RowsInv, OutsideFine
<1>11. FlagFine'
  <2>1. \A n \in Covered' : n \in 0..Top /\ n \in Covered /\ n <= to /\ ~(n > to)
    <3>1. \A n \in 0..Top : n <= to => ~(n > to)
      BY <1>2
    <3> QED
      BY <1>3, <3>1
  <2> QED
    BY <1>1, <1>5, <1>6, <2>1 DEF RowsInv, FlagFine, AllVerified
<1> QED
  BY <1>8, <1>9, <1>10, <1>11 DEF RowsInv

(* A verified unit was loaded from the files that the manifest describes,  *)
(* and has as many rows.                                                   *)
LEMMA VerifiedUnit ==
    ASSUME manifest \in Exports, Verified, NEW p \in PartsOf(manifest)
    PROVE  /\ p \in DOMAIN loaded /\ p \in DOMAIN manifest.print /\ p \in DOMAIN manifest.rows
           /\ loaded[p] = manifest.print[p]
           /\ HasPartRows(p)
           /\ \A e \in Exports : p \in DOMAIN e.print /\ e.print[p] = loaded[p]
                                   => e.rows[p] = manifest.rows[p]
<1>1. /\ p \in DOMAIN manifest.print /\ HasPartRows(p) /\ LoadedFrom(p) = manifest.print[p]
  BY DEF Verified, PartFilesMatch, PartIsLoaded
<1>2. p \in DOMAIN loaded /\ loaded[p] = manifest.print[p]
  BY <1>1, PrintsAssumption DEF LoadedFrom
<1>3. p \in DOMAIN manifest.rows
  BY <1>1, ExportFields
<1>4. \A e \in Exports : p \in DOMAIN e.print /\ e.print[p] = loaded[p] => e.rows[p] = manifest.rows[p]
  BY <1>1, <1>2, ExportsAssumption
<1> QED
  BY <1>1, <1>2, <1>3, <1>4

(* The manifest has no row outside a verified unit.                        *)
LEMMA RowsInUnit ==
    ASSUME OneInterval, manifest \in Exports, LoadedFine, Verified, NEW p \in PartsOf(manifest)
    PROVE  manifest.rows[p] \subseteq UnitInterval(manifest, p)
<1>1. PICK e \in Exports :
          p \in DOMAIN e.print /\ loaded[p] = e.print[p] /\ e.rows[p] \subseteq UnitInterval(e, p)
  BY VerifiedUnit DEF LoadedFine
<1>2. e.rows[p] = manifest.rows[p]
  BY <1>1, VerifiedUnit
<1> QED
  BY <1>1, <1>2, SameUnits

(* No row of the manifest is missing from a verified unit: the rows that   *)
(* are there all belong to it, and there are as many.                      *)
LEMMA NoRowMissing ==
    ASSUME OneInterval, NoLogMissedBelow, TablesInv, manifest \in Exports, RowsInv, Verified,
           NEW n \in Interval(manifest), FromNowhere(n)
    PROVE  n \notin manifest.rows[Part(n)]
<1> DEFINE p == Part(n)
           U == UnitInterval(manifest, p)
           R == manifest.rows[p]
           L == LogsIn(U)
<1>1. p \in PartsOf(manifest) /\ p \in Nat /\ n \in U /\ n \in 0..Top
  BY UnitOf
<1>2. /\ p \in DOMAIN loaded /\ p \in DOMAIN manifest.rows
      /\ loaded[p] = manifest.print[p] /\ Cardinality(L) = Cardinality(R)
      /\ \A e \in Exports : p \in DOMAIN e.print /\ e.print[p] = loaded[p] => e.rows[p] = R
  BY <1>1, VerifiedUnit DEF RowsInv, HasPartRows
<1>3. R \subseteq U
  BY <1>1, RowsInUnit DEF RowsInv
<1>4. HasCursor /\ n > cursor.head /\ ~HasRow(n)
  BY <1>2 DEF FromNowhere
<1>5. \A m \in U : m \in Interval(manifest) /\ m \in 0..Top /\ Part(m) = p
  BY <1>1, InUnit
<1> SUFFICES ASSUME n \in R PROVE FALSE
  OBVIOUS
<1>6. IsFiniteSet(R)
  <2>1. /\ PartitionBlocks \in Nat /\ p * PartitionBlocks \in Int
        /\ manifest.first \in Int /\ manifest.last \in Int
    BY <1>1, WarehouseAssumption, ExportFields
  <2>2. IsFiniteSet(U)
    <3> DEFINE a == Greater(p * PartitionBlocks, manifest.first)
               b == Lesser(p * PartitionBlocks + PartitionBlocks - 1, manifest.last)
    <3>1. a \in Int /\ b \in Int
      BY <2>1 DEF Greater, Lesser
    <3> HIDE DEF a, b
    <3>2. IsFiniteSet(a..b)
      BY <3>1, FS_Interval
    <3> QED
      BY <3>2 DEF a, b, UnitInterval
  <2> QED
    BY <1>3, <2>2, FS_Subset
<1> HIDE DEF p, U, R
<1>7. ASSUME NEW l \in L
      PROVE  l.n \in R \ {n} /\ l = LogAt(l.n)
  <2>1. l \in logs /\ l.n \in U /\ l = LogAt(l.n)
    BY DEF LogsIn, TablesInv
  <2>2. HasRow(l.n) /\ l.n # n /\ l.n \in 0..Top
    BY <1>4, <1>5, <2>1 DEF HasRow
  <2>3. CASE FromTheTail(l.n)
    <3>1. HasLogs(l.n) /\ l.n \in Covered
      BY <2>2, <2>3 DEF FromTheTail
    <3>2. l.n < n
      <4>1. cursor.start \in Nat /\ cursor.head \in Nat /\ n \in Int /\ l.n \in Int
        BY <1>1, <2>2 DEF TablesInv, Coverage
      <4> QED
        BY <1>4, <3>1, <4>1 DEF Covered
    <3>3. l.n \in R
      BY <1>2, <2>1, <3>1, <3>2 DEF NoLogMissedBelow, R, U
    <3> QED
      BY <2>1, <2>2, <3>3
  <2>4. CASE FromLoad(l.n)
    <3>1. /\ source[l.n].print = loaded[p] /\ l.n \in source[l.n].rows
          /\ \E e \in Exports : /\ p \in DOMAIN e.print /\ source[l.n].print = e.print[p]
                               /\ source[l.n].rows = e.rows[p]
      BY <1>5, <2>1, <2>2, <2>4 DEF FromLoad
    <3>2. source[l.n].rows = R
      BY <1>2, <3>1
    <3> QED
      BY <2>1, <2>2, <3>1, <3>2
  <2> QED
    BY <2>2, <2>3, <2>4 DEF RowsInv, SourceFine, FromNowhere
<1> HIDE DEF L
<1>8. IsFiniteSet(R \ {n}) /\ Cardinality(R \ {n}) = Cardinality(R) - 1 /\ Cardinality(R) \in Nat
  BY <1>6, FS_RemoveElement, FS_CardinalityType
<1>9. [l \in L |-> l.n] \in Injection(L, R \ {n})
  <2> DEFINE f == [l \in L |-> l.n]
  <2>1. f \in [L -> R \ {n}]
    BY <1>7
  <2>2. \A l, k \in L : f[l] = f[k] => l = k
    BY <1>7
  <2> QED
    BY <2>1, <2>2 DEF Injection, IsInjective
<1>10. Cardinality(L) <= Cardinality(R \ {n}) /\ IsFiniteSet(L)
  BY <1>8, <1>9, FS_Injection
<1> QED
  BY <1>2, <1>8, <1>10, FS_CardinalityType DEF L

(* As many block rows as the interval has heights: each has its own.       *)
LEMMA NoBlockMissing ==
    ASSUME manifest \in Exports, HasBlockRows
    PROVE  Interval(manifest) \subseteq DOMAIN blocks
<1>1. manifest.first \in Int /\ manifest.last \in Int /\ manifest.first <= manifest.last
  BY ExportFields
<1>2. /\ IsFiniteSet(Interval(manifest))
      /\ Cardinality(Interval(manifest)) = manifest.last - manifest.first + 1
  BY <1>1, FS_Interval DEF Interval
<1>3. Cardinality(BlocksIn(Interval(manifest))) = Cardinality(Interval(manifest))
  BY <1>2 DEF HasBlockRows
<1>4. BlocksIn(Interval(manifest)) \in SUBSET Interval(manifest)
  BY DEF BlocksIn
<1>5. Interval(manifest) = BlocksIn(Interval(manifest))
  BY <1>2, <1>3, <1>4, FS_Subset
<1> QED
  BY <1>5 DEF BlocksIn

(* Once verified, all rows of the interval are those of the manifest or    *)
(* the tail.                                                               *)
LEMMA PublishRows ==
    ASSUME OneInterval, NoLogMissedBelow, TablesInv, manifest \in Exports, RowsInv, Verified,
           SetCoverage, UNCHANGED disk
    PROVE  RowsInv' /\ AllVerified'
<1> DEFINE I == Interval(manifest)
           Taken(n) == /\ n \in I
                       /\ \/ source[n].print = manifest.print[Part(n)]
                          \/ source[n] = Nothing /\ n \notin manifest.rows[Part(n)]
           now(n) == [print |-> manifest.print[Part(n)], rows |-> manifest.rows[Part(n)], verified |-> TRUE]
<1>1. /\ Covered' = Covered \cup I
      /\ UNCHANGED <<blocks, logs, maintenance, loaded, manifest>>
      /\ I \subseteq 0..Top
  BY SetCoverageTables, ExportFields DEF SetCoverage, units, disk
<1>2. \A n \in 0..Top : source'[n] = IF Taken(n) THEN now(n) ELSE source[n]
  BY DEF SetCoverage, NoteVerified, TablesInv
<1>3. /\ \A n : Stored(n)' = Stored(n) /\ HasRow(n)' = HasRow(n)
      /\ Interval(manifest)' = I
  BY <1>1 DEF Stored, HasRow, LogAt
<1>4. Covered \subseteq 0..Top
  <2>1. HasCursor => Covered \subseteq 0..Top
    BY WarehouseAssumption, BlockIsPath DEF Top, Covered, TablesInv, Coverage
  <2>2. ~HasCursor => Covered = {}
    BY DEF HasCursor, NoCursor, Covered
  <2> QED
    BY <2>1, <2>2
<1>5. ASSUME NEW n \in I
      PROVE  /\ Part(n) \in DOMAIN loaded /\ Part(n) \in DOMAIN manifest.print
             /\ loaded[Part(n)] = manifest.print[Part(n)]
             /\ manifest.print[Part(n)] \notin {NoPrint, FromTail.print}
             /\ \A e \in Exports : Part(n) \in DOMAIN e.print /\ e.print[Part(n)] = loaded[Part(n)]
                                     => e.rows[Part(n)] = manifest.rows[Part(n)]
  BY <1>5, UnitOf, VerifiedUnit, PrintsAssumption DEF RowsInv
<1>6. ASSUME NEW n \in I
      PROVE  /\ (FromTheTail(n) \/ FromLoad(n))'
             /\ source'[n].verified
  <2>1. n \in 0..Top
    BY <1>1, <1>6
  <2>2. CASE FromNowhere(n)
    <3>1. n \notin manifest.rows[Part(n)]
      BY <1>6, <2>2, NoRowMissing
    <3>2. Taken(n) /\ ~HasRow(n)
      BY <1>6, <2>2, <3>1 DEF FromNowhere
    <3>3. source'[n] = now(n)
      BY <1>2, <2>1, <3>2
    <3>4. source'[n].print = manifest.print[Part(n)] /\ source'[n].rows = manifest.rows[Part(n)]
          /\ source'[n].verified
      BY <3>3
    <3>5. FromLoad(n)'
      BY <1>1, <1>3, <1>5, <1>6, <3>1, <3>2, <3>4 DEF FromLoad
    <3> QED
      BY <3>4, <3>5
  <2>3. CASE FromTheTail(n)
    <3>1. ~Taken(n)
      <4>1. FromTail # Nothing /\ source[n].print = FromTail.print
        BY <2>3 DEF FromTheTail, FromTail, Nothing, NoPrint
      <4> QED
        BY <1>5, <1>6, <2>3, <4>1 DEF FromTheTail
    <3>2. source'[n] = FromTail
      BY <1>2, <2>1, <2>3, <3>1 DEF FromTheTail
    <3> QED
      BY <1>1, <1>3, <2>3, <3>2 DEF FromTheTail, FromTail, HasLogs
  <2>4. CASE FromLoad(n)
    <3>1. source[n].print = manifest.print[Part(n)] /\ source[n].rows = manifest.rows[Part(n)]
      BY <1>5, <1>6, <2>4 DEF FromLoad
    <3>2. Taken(n)
      BY <1>6, <3>1
    <3>3. source'[n] = now(n)
      BY <1>2, <2>1, <3>2
    <3>4. source'[n].print = manifest.print[Part(n)] /\ source'[n].rows = manifest.rows[Part(n)]
          /\ source'[n].verified
      BY <3>3
    <3>5. FromLoad(n)'
      BY <1>1, <1>3, <1>5, <1>6, <2>4, <3>1, <3>4 DEF FromLoad
    <3> QED
      BY <3>4, <3>5
  <2> QED
    BY <2>1, <2>2, <2>3, <2>4 DEF RowsInv, SourceFine
<1>7. ASSUME NEW n \in 0..Top, n \notin I
      PROVE  /\ (FromNowhere(n) \/ FromTheTail(n))'
             /\ n \in Covered => source'[n].verified
  <2>1. source'[n] = source[n]
    BY <1>2, <1>7
  <2>2. FromNowhere(n) \/ FromTheTail(n)
    BY <1>7 DEF RowsInv, SourceFine, FromLoad
  <2>3. CASE FromNowhere(n)
    BY <1>1, <1>3, <1>7, <2>1, <2>3 DEF FromNowhere
  <2>4. CASE FromTheTail(n)
    BY <1>1, <1>3, <2>1, <2>4 DEF FromTheTail, FromTail, HasLogs
  <2> QED
    BY <2>2, <2>3, <2>4
<1> HIDE DEF Taken, now
<1>8. SourceFine'
  <2> SUFFICES ASSUME NEW n \in 0..Top
               PROVE  (FromNowhere(n) \/ FromTheTail(n) \/ FromLoad(n))'
    BY DEF SourceFine
  <2> QED
    BY <1>6, <1>7
<1>9. \A n \in Covered' : Stored(n)
  <2>1. I \subseteq DOMAIN blocks
    BY NoBlockMissing DEF Verified
  <2> QED
    BY <1>1, <2>1 DEF RowsInv, OutsideFine, Stored
<1>10. AllVerified'
  BY <1>1, <1>3, <1>4, <1>6, <1>7, <1>9 DEF AllVerified
<1>11. LoadedFine'
  BY <1>1 DEF RowsInv, LoadedFine
<1>12. OutsideFine'
  BY <1>3, <1>9 DEF OutsideFine
<1> QED
  BY <1>8, <1>10, <1>11, <1>12 DEF RowsInv, FlagFine

-----------------------------------------------------------------------------
(* Every step keeps what is said of the rows.                              *)
LEMMA RowsKept ==
    ASSUME OneInterval, NoLogMissedBelow, ServedInv, [Next]_vars, RunInv'
    PROVE  RowsInv'
<1>1. RunInv /\ TablesInv /\ RowsInv /\ StageInv /\ {manifest, files} \subseteq Exports
  BY DEF ServedInv, TypeInv, RunInv
<1>2. CASE UNCHANGED tables
  BY <1>1, <1>2, RowsSame DEF tables, storeVars
<1>3. CASE MarkMaintenance
  BY <1>1, <1>3, RowsSame DEF MarkMaintenance, storeVars
<1>4. CASE /\ run.op = "load" /\ LoadPart(run.part) /\ UNCHANGED disk
           /\ run.part \in Nat /\ run.part \in PartsOf(manifest) /\ PartFilesMatch(run.part)
           /\ files.rows[run.part] \subseteq UnitInterval(manifest, run.part)
  BY <1>1, <1>4, LoadPartRows DEF StageInv
<1>5. CASE run.op = "load blocks" /\ LoadBlocks /\ UNCHANGED disk
  BY <1>1, <1>5, LoadBlocksRows DEF StageInv
<1>6. CASE Publish
  BY <1>1, <1>6, PublishRows DEF Publish, StageInv
<1>7. CASE Unflag
  BY <1>1, <1>7, RowsSame DEF Unflag, ClearMaintenance, storeVars, StageInv
<1>8. CASE TailWrites
  BY <1>1, <1>8, TailWritesRows
<1>9. CASE Rewinds
  BY <1>1, <1>9, RewindsRows
<1> QED
  BY <1>1, <1>2, <1>3, <1>4, <1>5, <1>6, <1>7, <1>8, <1>9, TableSteps

(* A process comes to a load by way of the mark, to publish by way of the  *)
(* verification and to the end of the mark by way of publish.              *)
LEMMA StageKept ==
    ASSUME OneInterval, NoLogMissedBelow, ServedInv, [Next]_vars, RunInv'
    PROVE  StageInv'
<1>1. RunInv /\ TablesInv /\ RowsInv /\ StageInv /\ manifest \in Exports
  BY DEF ServedInv, TypeInv, RunInv
<1>2. CASE UNCHANGED <<tables, disk, run>>
  <2>1. Verified' = Verified
    BY <1>2 DEF tables, storeVars, units, disk, Verified, HasBlockRows, BlocksIn,
                PartFilesMatch, PartIsLoaded, HasPartRows, LogsIn, LoadedFrom,
                BlocksFilesMatch, Interval, UnitInterval, PartsOf, Part
  <2>2. HasCursor' = HasCursor /\ AllVerified' = AllVerified
    BY <1>2 DEF tables, storeVars, HasCursor, AllVerified, Covered, Stored
  <2> QED
    BY <1>1, <1>2, <2>1, <2>2 DEF StageInv, tables
<1>3. CASE run'.op \notin {"load", "load blocks", "publish", "unflag"}
  BY <1>3 DEF StageInv
<1>4. ASSUME NEW o \in {"load", "load blocks"}, run' = [run EXCEPT !.op = o], run.op \in {"part", "blocks"},
             MarkMaintenance
      PROVE  StageInv'
  <2>1. run'.op \in {"load", "load blocks"}
    BY <1>1, <1>4, RunFields
  <2>2. HasCursor' => maintenance'
    BY <1>4 DEF MarkMaintenance, storeVars, HasCursor
  <2> QED
    BY <2>1, <2>2 DEF StageInv
<1>5. Idle.op = "idle"
  BY DEF Idle
<1>6. CASE RunEnds
  BY <1>3, <1>5, <1>6 DEF RunEnds
<1>7. CASE Continue(NextStage)
  BY <1>3, <1>7 DEF Continue, NextStage
<1>8. CASE BackfillStarts \/ MaintenanceLocked
  <2>1. run'.op \in {"lock", "stage"}
    BY <1>8 DEF BackfillStarts, MaintenanceLocked, Continue
  <2> QED
    BY <1>3, <2>1
<1>9. CASE StageStarts
  <2>1. run.op = "stage" /\ run.stages # <<>> /\ run.stages \in Seq(Stage)
    BY <1>1, <1>9, RunFields DEF StageStarts
  <2>2. Head(run.stages) \in {"prepare", "logs", "blocks", "finish"}
    BY <2>1 DEF Stage
  <2>3. run'.op \in {"stage", "part", "blocks", "verify"}
    <3>1. CASE Head(run.stages) = "prepare"
      <4>1. run' = NextStage
        BY <1>9, <3>1 DEF StageStarts, Continue
      <4> QED
        BY <4>1 DEF NextStage
    <3>2. CASE Head(run.stages) = "logs"
      <4>1. run' = [op |-> "part", stages |-> run.stages, part |-> Part(manifest.first)]
        BY <1>9, <3>2 DEF StageStarts, Continue
      <4> QED
        BY <4>1
    <3>3. CASE Head(run.stages) \in {"blocks", "finish"}
      <4>1. run' = [op |-> IF Head(run.stages) = "blocks" THEN "blocks" ELSE "verify", stages |-> run.stages]
        BY <1>9, <3>3 DEF StageStarts, Continue
      <4> QED
        BY <3>3, <4>1
    <3> QED
      BY <2>2, <3>1, <3>2, <3>3
  <2> QED
    BY <1>3, <2>3
<1>10. CASE ExaminePart
  <2>1. run.op = "part" /\ UNCHANGED disk
    BY <1>10 DEF ExaminePart
  <2>2. CASE NextPart
    BY <1>1, <1>3, <2>1, <2>2, NextPartRuns
  <2> QED
    BY <1>4, <1>6, <1>10, <2>1, <2>2 DEF ExaminePart, Continue
<1>11. CASE ReloadPart
  <2>1. run.op = "load" /\ UNCHANGED disk
    BY <1>11 DEF ReloadPart
  <2>2. CASE NextPart
    BY <1>1, <1>3, <2>1, <2>2, NextPartRuns
  <2> QED
    BY <1>6, <1>11, <2>2 DEF ReloadPart
<1>12. CASE ExamineBlocks \/ ReloadBlocks
  BY <1>4, <1>6, <1>7, <1>12 DEF ExamineBlocks, ReloadBlocks, Continue
<1>13. CASE VerifyLoaded
  <2>1. CASE Verified /\ Continue([run EXCEPT !.op = "publish"])
    <3>1. run'.op = "publish"
      BY <1>1, <1>13, <2>1, RunFields DEF VerifyLoaded, Continue
    <3>2. Verified'
      BY <1>13, <2>1 DEF VerifyLoaded, tables, storeVars, units, disk, Verified, HasBlockRows, BlocksIn,
                         PartFilesMatch, PartIsLoaded, HasPartRows, LogsIn, LoadedFrom, BlocksFilesMatch,
                         Interval, UnitInterval, PartsOf, Part
    <3> QED
      BY <3>1, <3>2 DEF StageInv
  <2> QED
    BY <1>6, <1>13, <2>1 DEF VerifyLoaded
<1>14. CASE Publish
  <2>1. run'.op = "unflag"
    BY <1>1, <1>14, RunFields DEF Publish, Continue
  <2>2. AllVerified'
    BY <1>1, <1>14, PublishRows DEF Publish, StageInv
  <2> QED
    BY <2>1, <2>2 DEF StageInv
<1>15. CASE Unflag \/ StagesEnd \/ ReadersDoNotDrain \/ BackfillDies
  BY <1>6, <1>7, <1>15 DEF Unflag, StagesEnd, ReadersDoNotDrain, BackfillDies
<1>16. CASE OperatorCopies \/ TailWrites \/ Rewinds
  <2>1. run = Idle /\ run' = run
    BY <1>1, <1>16 DEF OperatorCopies, TailWrites, Rewinds, RunInv
  <2> QED
    BY <1>3, <1>5, <2>1
<1>17. CASE ServeStarts \/ ServeEnds \/ ReaderStep \/ UNCHANGED vars
  BY <1>2, <1>17 DEF ServeStarts, ServeEnds, ReaderStep, BeginRead, NotAdmitted, Admitted, EndRead, vars
<1> QED
  BY <1>8, <1>9, <1>10, <1>11, <1>12, <1>13, <1>14, <1>15, <1>16, <1>17 DEF Next, BackfillStep

(* A snapshot is flagged, or was taken over rows that are all verified.    *)
LEMMA ReaderStays ==
    ASSUME ServedInv, [Next]_vars
    PROVE  ReaderInv'
<1>1. TypeInv /\ RowsInv /\ ReaderInv /\ ReaderType
  BY DEF ServedInv, TypeInv
<1>2. CASE UNCHANGED reader
  BY <1>1, <1>2 DEF ReaderInv
<1>3. CASE BeginRead
  <2>1. maintenance \/ Sound
    BY <1>1, FlagDownIsSound
  <2>2. reader'.op = "begun" /\ reader'.flagged = maintenance /\ reader'.sound = Sound
    BY <1>3 DEF BeginRead
  <2> QED
    BY <2>1, <2>2 DEF ReaderInv
<1>4. CASE NotAdmitted \/ EndRead
  BY <1>4 DEF NotAdmitted, EndRead, ReaderInv, NoReader
<1>5. CASE Admitted
  <2>1. reader \in [op : {"begun", "refused", "serving"}, flagged : BOOLEAN, sound : BOOLEAN]
    BY <1>1, <1>5 DEF Admitted, ReaderType, NoReader
  <2>2. /\ reader'.op = IF reader.flagged THEN "refused" ELSE "serving"
        /\ reader'.sound = reader.sound
    BY <1>5, <2>1 DEF Admitted
  <2> QED
    BY <1>1, <1>5, <2>2 DEF ReaderInv, Admitted
<1>6. ReaderStep \/ UNCHANGED reader
  BY DEF Next, vars, BackfillStarts, BackfillStep, MaintenanceLocked, ReadersDoNotDrain, StageStarts,
         StagesEnd, ExaminePart, ReloadPart, ExamineBlocks, ReloadBlocks, VerifyLoaded, Publish, Unflag,
         BackfillDies, OperatorCopies, ServeStarts, ServeEnds, TailWrites, Rewinds
<1> QED
  BY <1>2, <1>3, <1>4, <1>5, <1>6 DEF ReaderStep

(***************************************************************************)
(* A read that is served sees every covered height stored, and for each    *)
(* the logs of a load that finish has verified, or the tail's, wherever    *)
(* loads have died, been rerun or been corrected from another export of    *)
(* the same blocks (markMaintenance, Finish, Store.Read).  Neither         *)
(* hypothesis can go: over exports of two intervals the property fails     *)
(* (run MCOtherExport); and where the tail may have stored a log that the  *)
(* export lacks below one that the database lacks, the counts, all that    *)
(* verifyLoaded compares, agree over different rows.                       *)
(***************************************************************************)
THEOREM ServedVerified ==
    OneInterval /\ NoLogMissedBelow => (Spec => []ServedIsVerified)
<1> SUFFICES ASSUME OneInterval /\ NoLogMissedBelow PROVE Spec => []ServedIsVerified
  OBVIOUS
<1>1. ServedInv /\ [Next]_vars => ServedInv'
  <2> SUFFICES ASSUME ServedInv, [Next]_vars PROVE ServedInv'
    OBVIOUS
  <2>1. TypeInv' /\ RunInv'
    BY TypeKept DEF ServedInv, TypeInv
  <2> QED
    BY <2>1, RowsKept, StageKept, ReaderStays DEF ServedInv
<1>2. ServedInv => ServedIsVerified
  BY DEF ServedInv, ReaderInv, ServedIsVerified
<1> QED
  BY <1>1, <1>2, InitServed, PTL DEF Spec
=============================================================================
