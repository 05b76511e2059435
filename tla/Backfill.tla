------------------------------ MODULE Backfill ------------------------------
(***************************************************************************)
(* Who may change one warehouse, and who may read it: the backfill, stage  *)
(* by stage (internal/backfill), the tail and the rewinds, which exclude   *)
(* each other by the writer lock; and the read snapshots of the API, which *)
(* a running backfill excludes by the maintenance lock and a dead one by   *)
(* the durable maintenance flag.                                           *)
(*                                                                         *)
(* Both locks belong to a database session, so a process that dies lets go *)
(* of them.  Module Subscriber has the reorganizations; here the chain is  *)
(* settled and the question is which load each served row comes from.      *)
(***************************************************************************)
EXTENDS LogStore, FiniteSets

CONSTANTS
    Canonical,        \* the chain, named by its tip
    PartitionBlocks,  \* width of a partition
    MaxTailBatch,     \* most blocks in one write of the tail
    Exports           \* the exports an operator may copy to the loading host

\* An export is a record: the manifest's interval (first, last); per partition
\* the heights that have logs (rows) and the fingerprint of the files (print);
\* the heights in blocks/, which may run ahead of the interval (heights), and
\* the fingerprint of those files (blocksPrint).
Part(n) == n \div PartitionBlocks
PartsOf(m) == Part(m.first)..Part(m.last)

\* readManifest: the interval is not empty.
ManifestOK(m) == m.first <= m.last

ASSUME WarehouseAssumption ==
    /\ Canonical \in Block
    /\ PartitionBlocks \in Nat \ {0}
    /\ MaxTailBatch \in Nat \ {0}
ASSUME ExportsAssumption ==
    \A e \in Exports :
        /\ {e.first, e.last} \cup e.heights \subseteq 0..Height(Canonical)
        /\ ManifestOK(e)
        /\ DOMAIN e.print = DOMAIN e.rows
        \* A fingerprint is a checksum: it tells different files apart.
        /\ \A f \in Exports :
               /\ e.blocksPrint = f.blocksPrint => e.heights = f.heights
               /\ \A p \in DOMAIN e.print \cap DOMAIN f.print :
                      e.print[p] = f.print[p] => e.rows[p] = f.rows[p]

VARIABLES
    maintenance,   \* warehouse_state.maintenance, the durable flag
    loaded,        \* backfill_units: partition -> fingerprint it was loaded from
    loadedBlocks,  \* backfill_units: fingerprint of the blocks unit, or NoPrint
    manifest,      \* the export whose manifest.json is on the loading host
    files,         \* the export whose Parquet files are there
    writer,        \* which process holds the writer lock
    run,           \* where the backfill process is
    reader,        \* one read snapshot (Store.Read)
    source         \* history: where the rows of a height come from

units == <<loaded, loadedBlocks>>
disk == <<manifest, files>>
tables == <<storeVars, maintenance, units, source>>
vars == <<tables, disk, writer, run, reader>>

NoPrint == "never loaded"
Nothing == [print |-> NoPrint, rows |-> {}, verified |-> FALSE]
FromTail == [print |-> "tail", rows |-> {}, verified |-> TRUE]

\* unitFingerprint is a SHA-256 in hex: neither of the marks for its absence.
ASSUME PrintsAssumption ==
    \A e \in Exports : \A p \in DOMAIN e.print : e.print[p] \notin {NoPrint, FromTail.print}

Idle == [op |-> "idle"]
NoReader == [op |-> "none"]

\* The stages of one command: any one of them, or all.
AllStages == <<"prepare", "logs", "blocks", "finish">>
Commands == {AllStages} \cup {<<AllStages[i]>> : i \in 1..4}

-----------------------------------------------------------------------------
(* What the stages compute from the manifest and the tables.               *)

\* unitInterval: the partition clipped to the manifest's interval.
UnitInterval(m, p) == Greater(p * PartitionBlocks, m.first)..
                      Lesser(p * PartitionBlocks + PartitionBlocks - 1, m.last)
Interval(m) == m.first..m.last

\* The rows of the tables in S: all logs of a block count as one.
LogsIn(S) == {l \in logs : l.n \in S}
BlocksIn(S) == DOMAIN blocks \cap S

\* partRows and verifyFilesUnder: the manifest lists the partition, and its
\* files are those that it describes.
PartFilesMatch(p) ==
    /\ p \in DOMAIN manifest.print \cap DOMAIN files.print
    /\ files.print[p] = manifest.print[p]
BlocksFilesMatch == files.blocksPrint = manifest.blocksPrint

LoadedFrom(p) == IF p \in DOMAIN loaded THEN loaded[p] ELSE NoPrint
HasPartRows(p) == Cardinality(LogsIn(UnitInterval(manifest, p))) = Cardinality(manifest.rows[p])
HasBlockRows == Cardinality(BlocksIn(Interval(manifest))) = manifest.last - manifest.first + 1

\* The test by which a unit is skipped: the row count and the fingerprint.
PartIsLoaded(p) == HasPartRows(p) /\ LoadedFrom(p) = manifest.print[p]
BlocksAreLoaded == HasBlockRows /\ loadedBlocks = manifest.blocksPrint

\* preflightCoverage: the interval could be merged into the coverage.
Preflight == TouchesCoverage(manifest.first, manifest.last)

\* verifyLoaded.
Verified ==
    /\ HasBlockRows
    /\ loadedBlocks = manifest.blocksPrint
    /\ \A p \in PartsOf(manifest) : PartFilesMatch(p) /\ PartIsLoaded(p)
    /\ BlocksFilesMatch /\ files.print = manifest.print

\* The log row of a block of the chain.
LogAt(n) == [n |-> n, hash |-> BlockAt(Canonical, n)]
HasLogs(n) == HasKeptLog(BlockAt(Canonical, n))

-----------------------------------------------------------------------------
(* The transactions of the backfill.                                       *)

\* Mutant: the maintenance lock is thought to be enough.
MarkNothing == UNCHANGED tables

\* markMaintenance, committed before a unit is changed.  A warehouse without
\* coverage needs no flag: its reads are refused as empty.
MarkMaintenance ==
    /\ maintenance' = (maintenance \/ HasCursor)
    /\ UNCHANGED <<storeVars, units, source>>

\* loadPart: the rows of the unit's interval are replaced and the fingerprint
\* recorded.
LoadPart(p) ==
    LET here == UnitInterval(manifest, p) IN
    /\ logs' = (logs \ LogsIn(here)) \cup {LogAt(n) : n \in files.rows[p]}
    /\ loaded' = Put(loaded, p, manifest.print[p])
    /\ source' = [n \in DOMAIN source |->
                     IF n \in here THEN [print |-> files.print[p], rows |-> files.rows[p],
                                         verified |-> FALSE]
                                   ELSE source[n]]
    /\ UNCHANGED <<blocks, cursor, maintenance, loadedBlocks>>

\* Blocks: the rows of the manifest's interval are replaced; rows that run
\* ahead of it are left in the files.
LoadBlocks ==
    LET new == files.heights \cap Interval(manifest)
        kept == DOMAIN blocks \ Interval(manifest) IN
    /\ blocks' = [n \in kept \cup new |-> IF n \in new THEN BlockAt(Canonical, n) ELSE blocks[n]]
    /\ loadedBlocks' = manifest.blocksPrint
    /\ UNCHANGED <<logs, cursor, maintenance, loaded, source>>

\* History: the rows that are those of the manifest just verified, loaded from
\* it or, where they were cut off since, none as in the manifest.
NoteVerified ==
    source' = [n \in DOMAIN source |->
        IF /\ n \in Interval(manifest)
           /\ \/ source[n].print = manifest.print[Part(n)]
              \/ source[n] = Nothing /\ n \notin manifest.rows[Part(n)]
        THEN [print |-> manifest.print[Part(n)], rows |-> manifest.rows[Part(n)],
              verified |-> TRUE]
        ELSE source[n]]

\* Mutant: the coverage becomes the interval.
ReplaceCoverage ==
    /\ cursor' = [start |-> manifest.first, head |-> manifest.last]
    /\ NoteVerified
    /\ UNCHANGED <<blocks, logs, maintenance, units>>

\* SetCoverage: the interval is merged into the coverage that it touches.
SetCoverage ==
    /\ Preflight
    /\ cursor' = MergedCoverage(manifest.first, manifest.last)
    /\ NoteVerified
    /\ UNCHANGED <<blocks, logs, maintenance, units>>

ClearMaintenance ==
    /\ maintenance' = FALSE
    /\ UNCHANGED <<storeVars, units, source>>

-----------------------------------------------------------------------------
(* The backfill process.                                                   *)

\* The process ends, well or badly, and its session's locks with it.
RunEnds == run' = Idle /\ writer' = "none"
Continue(where) == run' = where /\ UNCHANGED writer

\* A read snapshot that was admitted shares the maintenance lock to its end;
\* the backfill has the lock to itself from its first stage on.
SharedHeld == reader.op \in {"refused", "serving"}
ExclusiveHeld == run.op \notin {"idle", "lock"}

\* AcquireBackfillLocks: the writer lock at once or not at all, ...
BackfillStarts ==
    /\ writer = "none"
    /\ writer' = "backfill"
    /\ \E stages \in Commands : run' = [op |-> "lock", stages |-> stages]
    /\ UNCHANGED <<tables, disk, reader>>

\* ... then the maintenance lock, tried until the snapshots have drained, or
\* for five seconds.
MaintenanceLocked ==
    /\ run.op = "lock" /\ ~SharedHeld
    /\ Continue([op |-> "stage", stages |-> run.stages])
    /\ UNCHANGED <<tables, disk, reader>>

ReadersDoNotDrain ==
    /\ run.op = "lock" /\ SharedHeld
    /\ RunEnds
    /\ UNCHANGED <<tables, disk, reader>>

NextStage == [op |-> "stage", stages |-> Tail(run.stages)]

\* A stage begins with preflightCoverage; prepare only drops indexes.
StageStarts ==
    /\ run.op = "stage" /\ run.stages # <<>> /\ Preflight
    /\ LET stage == Head(run.stages) IN
       CASE stage = "prepare" -> Continue(NextStage)
         [] stage = "logs" -> Continue([op |-> "part", stages |-> run.stages,
                                        part |-> Part(manifest.first)])
         [] stage = "blocks" -> Continue([op |-> "blocks", stages |-> run.stages])
         [] stage = "finish" -> Continue([op |-> "verify", stages |-> run.stages])
    /\ UNCHANGED <<tables, disk, reader>>

StagesEnd ==
    /\ run.op = "stage"
    /\ run.stages = <<>> \/ ~Preflight
    /\ RunEnds
    /\ UNCHANGED <<tables, disk, reader>>

\* Mutants: the stage comes back to the same partition; it goes one too far.
SamePart == Continue([run EXCEPT !.op = "part"])
PartAfterLast ==
    IF run.part <= Part(manifest.last)
    THEN Continue([run EXCEPT !.op = "part", !.part = run.part + 1])
    ELSE Continue(NextStage)

\* Logs: the partitions of the interval in order.
NextPart ==
    IF run.part < Part(manifest.last)
    THEN Continue([run EXCEPT !.op = "part", !.part = run.part + 1])
    ELSE Continue(NextStage)

\* A partition: its files are verified, then it is skipped or marked ...
ExaminePart ==
    /\ run.op = "part"
    /\ CASE ~PartFilesMatch(run.part) -> RunEnds /\ UNCHANGED tables
         [] PartFilesMatch(run.part) /\ PartIsLoaded(run.part) -> NextPart /\ UNCHANGED tables
         [] OTHER -> Continue([run EXCEPT !.op = "load"]) /\ MarkMaintenance
    /\ UNCHANGED <<disk, reader>>

\* ... and loaded, unless its files hold rows outside the interval.
ReloadPart ==
    /\ run.op = "load"
    /\ IF files.rows[run.part] \subseteq UnitInterval(manifest, run.part)
       THEN LoadPart(run.part) /\ NextPart
       ELSE RunEnds /\ UNCHANGED tables
    /\ UNCHANGED <<disk, reader>>

ExamineBlocks ==
    /\ run.op = "blocks"
    /\ CASE ~BlocksFilesMatch -> RunEnds /\ UNCHANGED tables
         [] BlocksFilesMatch /\ BlocksAreLoaded -> Continue(NextStage) /\ UNCHANGED tables
         [] OTHER -> Continue([run EXCEPT !.op = "load blocks"]) /\ MarkMaintenance
    /\ UNCHANGED <<disk, reader>>

ReloadBlocks ==
    /\ run.op = "load blocks"
    /\ LoadBlocks
    /\ Continue(NextStage)
    /\ UNCHANGED <<disk, reader>>

\* Finish: verify, publish the coverage, clear the flag.
VerifyLoaded ==
    /\ run.op = "verify"
    /\ IF Verified THEN Continue([run EXCEPT !.op = "publish"]) ELSE RunEnds
    /\ UNCHANGED <<tables, disk, reader>>

Publish ==
    /\ run.op = "publish"
    /\ SetCoverage
    /\ Continue([run EXCEPT !.op = "unflag"])
    /\ UNCHANGED <<disk, reader>>

Unflag ==
    /\ run.op = "unflag"
    /\ ClearMaintenance
    /\ Continue(NextStage)
    /\ UNCHANGED <<disk, reader>>

\* The process is killed or loses the database.
BackfillDies ==
    /\ run.op # "idle"
    /\ RunEnds
    /\ UNCHANGED <<tables, disk, reader>>

BackfillStep ==
    \/ MaintenanceLocked \/ ReadersDoNotDrain \/ StageStarts \/ StagesEnd
    \/ ExaminePart \/ ReloadPart \/ ExamineBlocks \/ ReloadBlocks
    \/ VerifyLoaded \/ Publish \/ Unflag

\* The operator replaces the manifest or the files, between runs.
OperatorCopies ==
    /\ run = Idle
    /\ \E e \in Exports : \/ manifest' = e /\ UNCHANGED files
                          \/ files' = e /\ UNCHANGED manifest
    /\ UNCHANGED <<tables, writer, run, reader>>

-----------------------------------------------------------------------------
(* The other writers (external to this module: see Subscriber).            *)

ServeStarts ==
    /\ writer = "none" /\ writer' = "serve"
    /\ UNCHANGED <<tables, disk, run, reader>>

ServeEnds ==
    /\ writer = "serve" /\ writer' = "none"
    /\ UNCHANGED <<tables, disk, run, reader>>

\* The tail goes on above the head; a first start is at any block.
TailWrites ==
    /\ writer = "serve"
    /\ \E from, to \in 0..Height(Canonical) :
        /\ from <= to /\ to < from + MaxTailBatch
        /\ HasCursor => from = cursor.head + 1
        /\ WriteRange(from, to, [n \in from..to |-> BlockAt(Canonical, n)],
                      {LogAt(n) : n \in {k \in from..to : HasLogs(k)}})
        /\ source' = [n \in DOMAIN source |->
                         IF n \in from..to THEN FromTail ELSE source[n]]
    /\ UNCHANGED <<maintenance, units, disk, writer, run, reader>>

\* A deep reorganization, or the rewind command, which takes the lock.
Rewinds ==
    /\ writer \in {"none", "serve"}
    /\ \E to \in 0..Height(Canonical) :
        /\ Rewind(to)
        /\ source' = [n \in DOMAIN source |-> IF n > to THEN Nothing ELSE source[n]]
    /\ UNCHANGED <<maintenance, units, disk, writer, run, reader>>

-----------------------------------------------------------------------------
(* Readers.                                                                *)

\* The covered blocks are all there, with the rows of what they were loaded
\* from, which finish found to be the export it published, or the tail.
Sound ==
    \A n \in Covered :
        /\ Stored(n) /\ source[n].verified
        /\ LET from == source[n]
               has == LogAt(n) \in logs IN
           IF from = FromTail THEN has <=> HasLogs(n) ELSE has <=> n \in from.rows

\* The snapshot is taken by the statement that then tries the lock.  Of what
\* it holds, only what the reader decides by and what the property says of it
\* are kept.
BeginRead ==
    /\ reader = NoReader
    /\ reader' = [op |-> "begun", flagged |-> maintenance, sound |-> Sound]
    /\ UNCHANGED <<tables, disk, writer, run>>

NotAdmitted ==
    /\ reader.op = "begun" /\ ExclusiveHeld
    /\ reader' = NoReader
    /\ UNCHANGED <<tables, disk, writer, run>>

Admitted ==
    /\ reader.op = "begun" /\ ~ExclusiveHeld
    /\ reader' = [reader EXCEPT !.op = IF reader.flagged THEN "refused" ELSE "serving"]
    /\ UNCHANGED <<tables, disk, writer, run>>

EndRead ==
    /\ SharedHeld
    /\ reader' = NoReader
    /\ UNCHANGED <<tables, disk, writer, run>>

ReaderStep == BeginRead \/ NotAdmitted \/ Admitted \/ EndRead

-----------------------------------------------------------------------------
Init ==
    /\ StoreInit
    /\ maintenance = FALSE
    /\ loaded = [p \in {} |-> NoPrint] /\ loadedBlocks = NoPrint
    /\ source = [n \in 0..Height(Canonical) |-> Nothing]
    /\ manifest \in Exports /\ files = manifest
    /\ writer = "none"
    /\ run = Idle
    /\ reader = NoReader

Next ==
    \/ BackfillStarts \/ BackfillStep \/ BackfillDies \/ OperatorCopies
    \/ ServeStarts \/ ServeEnds \/ TailWrites \/ Rewinds
    \/ ReaderStep

Spec == Init /\ [][Next]_vars
FairSpec == Spec /\ WF_vars(BackfillStep)

-----------------------------------------------------------------------------
\* Shapes.  The writer lock is the backfill's exactly while one runs.
TypeOK ==
    /\ StoreTypeOK
    /\ maintenance \in BOOLEAN
    /\ DOMAIN loaded \subseteq UNION {DOMAIN e.print : e \in Exports}
    /\ {manifest, files} \subseteq Exports
    /\ writer \in {"none", "serve", "backfill"}
    /\ (writer = "backfill") <=> (run # Idle)
    /\ run.op \in {"part", "load"} => run.part \in PartsOf(manifest)

\* A read that is served sees no reload in the middle: every covered height is
\* stored, and its logs are those of a load that finish has verified or of the
\* tail, even if a reload died and its process is gone (Store.Read,
\* markMaintenance, Finish).
ServedIsVerified == reader.op = "serving" => reader.sound

\* Only a rewind takes blocks out of the coverage: a finish that is rerun after
\* the tail has gone on does not lower the head (SetCoverage).
CoverageOnlyRewound == [][(Covered \subseteq cursor'.start..cursor'.head) \/ Rewinds]_vars

\* A backfill comes to an end and gives its locks back, whatever readers do and
\* whatever it finds (tryLock's deadline, Logs).
LocksReleased == []<>(run = Idle)
=============================================================================
