--------------------------- MODULE WritersProofs ---------------------------
(***************************************************************************)
(* Proofs about module Writers: types for any faults; and, as long as a    *)
(* lock session is lost only once there is a cursor row and a backfill is  *)
(* alone, that transactions of several statements are atomic and that what *)
(* LogStoreProofs proves of one-step writes holds of them.                 *)
(***************************************************************************)
EXTENDS Writers, LogStoreProofs

-----------------------------------------------------------------------------
(* The inductive invariant.                                                *)

\* What an open transaction may hold.
Ops == {"write", "rewind", "publish"}
Points == {"cursor", "clear logs", "clear blocks", "copy blocks", "copy logs", "upsert", "commit"}
Batches == UNION {[S -> Block] : S \in SUBSET Heights}
Calls == [op : Ops, from : Nat, to : Nat, bs : Batches, ls : SUBSET StoredLogRow, at : Points,
          cov : Coverage, sawRow : BOOLEAN, gone : SUBSET Heights,
          goneLogs : SUBSET StoredLogRow, copied : SUBSET Heights,
          copiedLogs : SUBSET StoredLogRow]
Processes == [kind : Kinds \cup {"dead"}, txn : {NoTxn} \cup Calls]

Alive(p) == proc[p].kind # "dead"

IsTable(f) == f = [n \in DOMAIN f |-> f[n]]

\* Types, whatever faults there are.
TypesInv ==
    /\ StoreTypeOK /\ DOMAIN blocks \subseteq Heights /\ IsTable(blocks)
    /\ lock \in Process \cup {NoProcess}
    /\ lock # NoProcess => Alive(lock)
    /\ proc \in [Process -> Processes]
    /\ \A p \in Process : /\ ~Alive(p) => Txn(p) = NoTxn
                          /\ Txn(p) # NoTxn => Txn(p).copied \subseteq DOMAIN Txn(p).bs

\* A transaction that has read the cursor.
UnderWay(p) == Txn(p).at \notin {"none", "cursor"}

\* While there is no cursor row to lock, no one is alive but the holder of the
\* writer lock; a backfill is alone; and one transaction at a time is under way.
ExclusionInv ==
    /\ ~HasCursor => \A p \in Process : Alive(p) => lock = p
    /\ \A p, q \in Process : p # q /\ proc[p].kind = "backfill" => ~Alive(q)
    /\ \A p, q \in Process : UnderWay(p) /\ UnderWay(q) => p = q

\* What the caller passed.
CallFine(p) ==
    /\ Txn(p).op = "write" =>
        /\ proc[p].kind = "serve" /\ Txn(p).from <= Txn(p).to
        /\ DOMAIN Txn(p).bs = Txn(p).from..Txn(p).to /\ LogsMatchBlocks(Txn(p).bs, Txn(p).ls)
    /\ Txn(p).op = "rewind" => proc[p].kind # "backfill" /\ Txn(p).bs = Empty
    /\ Txn(p).op = "publish" =>
        /\ proc[p].kind = "backfill" /\ Txn(p).from <= Txn(p).to
        /\ Txn(p).bs = Empty /\ Txn(p).from..Txn(p).to \subseteq DOMAIN blocks

\* What a transaction has read and done is still so.
TxnCurrent(p) ==
    /\ Allowed(Txn(p)) /\ Txn(p).cov = NewCoverage(Txn(p)) /\ Txn(p).sawRow = HasCursor
    /\ Txn(p).op = "publish" => Txn(p).at \in {"upsert", "commit"}
    /\ Txn(p).op = "rewind" => Txn(p).at \notin {"copy blocks", "copy logs"}
    /\ Txn(p).goneLogs = IF Txn(p).op = "publish" \/ Txn(p).at = "clear logs" THEN {}
                         ELSE {l \in logs : l.n \in Affected(Txn(p))}
    /\ Txn(p).gone = IF Txn(p).op = "publish" \/ Txn(p).at \in {"clear logs", "clear blocks"} THEN {}
                     ELSE DOMAIN blocks \cap Affected(Txn(p))
    /\ Txn(p).copied = IF Txn(p).op = "write" /\ Txn(p).at \in {"copy logs", "upsert", "commit"}
                       THEN DOMAIN Txn(p).bs ELSE {}
    /\ Txn(p).copiedLogs = IF Txn(p).op = "write" /\ Txn(p).at \in {"upsert", "commit"}
                           THEN Txn(p).ls ELSE {}

\* Nothing is done before the cursor is read.
TxnFresh(p) ==
    /\ Txn(p).goneLogs = {} /\ Txn(p).gone = {} /\ Txn(p).copied = {} /\ Txn(p).copiedLogs = {}

TxnFine(p) ==
    Txn(p) # NoTxn =>
        /\ CallFine(p)
        /\ IF Txn(p).at = "cursor" THEN TxnFresh(p) ELSE TxnCurrent(p)

WritersInv ==
    /\ TypesInv /\ StoreInv /\ ExclusionInv
    /\ \A p \in Process : TxnFine(p)

-----------------------------------------------------------------------------
(* Types.                                                                  *)

(* A transaction that is at a statement is open, of a live process.        *)
LEMMA OpenTxn ==
    ASSUME TypesInv, NEW p \in Process
    PROVE  /\ Txn(p) = NoTxn \/ Txn(p) \in Calls
           /\ Txn(p).at # "none" => Txn(p) \in Calls
           /\ Txn(p) # NoTxn => Txn(p) \in Calls /\ Alive(p) /\ Txn(p).at \in Points
           /\ Txn(p) = NoTxn => Txn(p).at = "none"
           /\ Txn(p) \in Calls => Txn(p) # NoTxn /\ Alive(p)
           /\ proc[p].kind \in Kinds \cup {"dead"}
<1>1. proc[p] \in Processes
  BY DEF TypesInv
<1>2. Txn(p) \in {NoTxn} \cup Calls /\ proc[p].kind \in Kinds \cup {"dead"}
  BY <1>1 DEF Processes, Txn
<1>3. Txn(p) \in Calls => Txn(p).at \in Points
  BY DEF Calls
<1>4. Txn(p) = NoTxn => Txn(p).at = "none"
  BY DEF NoTxn
<1> QED
  BY <1>2, <1>3, <1>4 DEF Points, TypesInv

(* A statement changes its own transaction and nothing else.               *)
LEMMA SetTypes ==
    ASSUME TypesInv, NEW p \in Process, NEW t \in {NoTxn} \cup Calls, Set(p, t),
           UNCHANGED <<storeVars, lock>>,
           t # NoTxn => Alive(p) /\ t.copied \subseteq DOMAIN t.bs
    PROVE  /\ TypesInv'
           /\ proc'[p].txn = t /\ proc'[p].kind = proc[p].kind
           /\ \A q \in Others(p) : proc'[q] = proc[q]
<1>1. /\ blocks' = blocks /\ logs' = logs /\ cursor' = cursor /\ lock' = lock
      /\ proc' = [proc EXCEPT ![p] = [proc[p] EXCEPT !.txn = t]]
  BY DEF Set, storeVars
<1>2. proc \in [Process -> Processes]
  BY DEF TypesInv
<1>3. proc'[p] = [proc[p] EXCEPT !.txn = t] /\ \A q \in Others(p) : proc'[q] = proc[q]
  BY <1>1, <1>2 DEF Others
<1>4. /\ proc'[p].txn = t /\ proc'[p].kind = proc[p].kind /\ proc'[p] \in Processes
  BY <1>2, <1>3 DEF Processes
<1>5. proc' \in [Process -> Processes]
  BY <1>1, <1>2, <1>4
<1>6. /\ StoreTypeOK' /\ (DOMAIN blocks \subseteq Heights)' /\ IsTable(blocks)'
      /\ (lock \in Process \cup {NoProcess})'
  BY <1>1 DEF TypesInv, StoreTypeOK, IsTable
<1>7. (lock # NoProcess => Alive(lock))'
  BY <1>1, <1>3, <1>4 DEF TypesInv, Alive, Others
<1>8. ASSUME NEW q \in Process
      PROVE  /\ ~Alive(q)' => Txn(q)' = NoTxn
             /\ Txn(q)' # NoTxn => Txn(q)'.copied \subseteq DOMAIN Txn(q)'.bs
  BY <1>3, <1>4 DEF TypesInv, Alive, Txn, Others
<1> QED
  BY <1>3, <1>4, <1>5, <1>6, <1>7, <1>8 DEF TypesInv, Others

\* Of a step: it changes the transaction of p, and of the rest of the state nothing.
OnlyTxn(p) ==
    /\ UNCHANGED <<storeVars, lock>>
    /\ proc'[p].kind = proc[p].kind
    /\ \A q \in Others(p) : proc'[q] = proc[q]

(* What each statement leaves in the transaction, in types.                *)
LEMMA RollbackDoes ==
    ASSUME TypesInv, NEW p \in Process, Rollback(p), UNCHANGED <<storeVars, lock>>
    PROVE  TypesInv' /\ OnlyTxn(p) /\ proc'[p].txn = NoTxn
<1>1. Set(p, NoTxn)
  BY DEF Rollback
<1> QED
  BY <1>1, SetTypes DEF OnlyTxn

LEMMA CallDoes ==
    ASSUME TypesInv, NEW p \in Process, NEW t \in Calls, Set(p, t), Alive(p), t.copied = {},
           UNCHANGED <<storeVars, lock>>
    PROVE  TypesInv' /\ OnlyTxn(p) /\ proc'[p].txn = t
BY SetTypes DEF OnlyTxn

LEMMA ReadsCursorDoes ==
    ASSUME TypesInv, NEW p \in Process, ReadsCursor(p)
    PROVE  /\ TypesInv' /\ OnlyTxn(p) /\ Txn(p) \in Calls /\ Txn(p).at = "cursor"
           /\ \/ proc'[p].txn = NoTxn
              \/ /\ Allowed(Txn(p)) /\ (HasCursor => CursorRowFree(p)) /\ proc'[p].txn \in Calls
                 /\ proc'[p].txn =
                        [Txn(p) EXCEPT !.cov = NewCoverage(Txn(p)), !.sawRow = HasCursor,
                                       !.at = IF Txn(p).op = "publish" THEN "upsert" ELSE "clear logs"]
<1>1. Txn(p) \in Calls /\ Alive(p) /\ Txn(p) # NoTxn /\ Txn(p).at = "cursor"
  BY OpenTxn DEF ReadsCursor
<1> DEFINE t == [Txn(p) EXCEPT !.cov = NewCoverage(Txn(p)), !.sawRow = HasCursor,
                     !.at = IF Txn(p).op = "publish" THEN "upsert" ELSE "clear logs"]
<1>2. CASE ~Allowed(Txn(p))
  BY <1>1, <1>2, RollbackDoes DEF ReadsCursor
<1>3. CASE Allowed(Txn(p))
  <2>1. NewCoverage(Txn(p)) \in Coverage
    <3>1. cursor \in Coverage /\ Txn(p).from \in Nat /\ Txn(p).to \in Nat
      BY <1>1 DEF TypesInv, StoreTypeOK, Calls
    <3> QED
      BY <3>1 DEF NewCoverage, MergedCoverage, Coverage, Lesser, Greater
  <2>2. t \in Calls /\ t.copied = Txn(p).copied /\ t.bs = Txn(p).bs
    BY <1>1, <2>1 DEF Calls, Points, HasCursor
  <2>3. t.copied \subseteq DOMAIN t.bs
    BY <1>1, <2>2 DEF TypesInv
  <2>4. Set(p, t) /\ UNCHANGED <<storeVars, lock>> /\ (HasCursor => CursorRowFree(p))
    BY <1>3 DEF ReadsCursor
  <2> HIDE DEF t
  <2>5. TypesInv' /\ OnlyTxn(p) /\ proc'[p].txn = t
    BY <1>1, <2>2, <2>3, <2>4, SetTypes DEF OnlyTxn
  <2> QED
    BY <1>1, <1>3, <2>2, <2>4, <2>5 DEF t
<1> QED
  BY <1>2, <1>3

LEMMA ClearsLogsDoes ==
    ASSUME TypesInv, NEW p \in Process, ClearsLogs(p)
    PROVE  /\ TypesInv' /\ OnlyTxn(p) /\ Txn(p) \in Calls /\ Txn(p).at = "clear logs"
           /\ proc'[p].txn \in Calls
           /\ proc'[p].txn = [Txn(p) EXCEPT !.goneLogs = {l \in logs : l.n \in Affected(Txn(p))},
                                            !.at = "clear blocks"]
<1>1. Txn(p) \in Calls /\ Alive(p) /\ Txn(p) # NoTxn /\ Txn(p).at = "clear logs"
  BY OpenTxn DEF ClearsLogs
<1> DEFINE hit == {l \in logs : l.n \in Affected(Txn(p))}
           t == [Txn(p) EXCEPT !.goneLogs = hit, !.at = "clear blocks"]
<1>2. hit \subseteq StoredLogRow
  BY DEF TypesInv, StoreTypeOK
<1>3. Set(p, t) /\ UNCHANGED <<storeVars, lock>>
  BY DEF ClearsLogs
<1> HIDE DEF hit
<1>4. t \in Calls /\ t.copied = Txn(p).copied /\ t.bs = Txn(p).bs
  BY <1>1, <1>2 DEF Calls, Points
<1>5. t.copied \subseteq DOMAIN t.bs
  BY <1>1, <1>4 DEF TypesInv
<1> HIDE DEF t
<1>6. TypesInv' /\ OnlyTxn(p) /\ proc'[p].txn = t
  BY <1>1, <1>3, <1>4, <1>5, SetTypes DEF OnlyTxn
<1> QED
  BY <1>1, <1>4, <1>6 DEF t, hit

LEMMA ClearsBlocksDoes ==
    ASSUME TypesInv, NEW p \in Process, ClearsBlocks(p)
    PROVE  /\ TypesInv' /\ OnlyTxn(p) /\ Txn(p) \in Calls /\ Txn(p).at = "clear blocks"
           /\ proc'[p].txn \in Calls
           /\ proc'[p].txn = [Txn(p) EXCEPT !.gone = DOMAIN blocks \cap Affected(Txn(p)),
                    !.at = IF Txn(p).op = "rewind" THEN "upsert" ELSE "copy blocks"]
<1>1. Txn(p) \in Calls /\ Alive(p) /\ Txn(p) # NoTxn /\ Txn(p).at = "clear blocks"
  BY OpenTxn DEF ClearsBlocks
<1> DEFINE hit == DOMAIN blocks \cap Affected(Txn(p))
           t == [Txn(p) EXCEPT !.gone = hit,
                     !.at = IF Txn(p).op = "rewind" THEN "upsert" ELSE "copy blocks"]
<1>2. hit \subseteq Heights
  BY DEF TypesInv
<1>3. Set(p, t) /\ UNCHANGED <<storeVars, lock>>
  BY DEF ClearsBlocks
<1> HIDE DEF hit
<1>4. t \in Calls /\ t.copied = Txn(p).copied /\ t.bs = Txn(p).bs
  BY <1>1, <1>2 DEF Calls, Points
<1>5. t.copied \subseteq DOMAIN t.bs
  BY <1>1, <1>4 DEF TypesInv
<1> HIDE DEF t
<1>6. TypesInv' /\ OnlyTxn(p) /\ proc'[p].txn = t
  BY <1>1, <1>3, <1>4, <1>5, SetTypes DEF OnlyTxn
<1> QED
  BY <1>1, <1>4, <1>6 DEF t, hit

LEMMA CopiesBlocksDoes ==
    ASSUME TypesInv, NEW p \in Process, CopiesBlocks(p)
    PROVE  /\ TypesInv' /\ OnlyTxn(p) /\ Txn(p) \in Calls /\ Txn(p).at = "copy blocks"
           /\ \/ proc'[p].txn = NoTxn
              \/ /\ proc'[p].txn \in Calls
                 /\ proc'[p].txn = [Txn(p) EXCEPT !.copied = DOMAIN Txn(p).bs, !.at = "copy logs"]
<1>1. Txn(p) \in Calls /\ Alive(p) /\ Txn(p) # NoTxn /\ Txn(p).at = "copy blocks"
  BY OpenTxn DEF CopiesBlocks
<1> DEFINE t == [Txn(p) EXCEPT !.copied = DOMAIN Txn(p).bs, !.at = "copy logs"]
<1>2. CASE Rollback(p) /\ UNCHANGED <<storeVars, lock>>
  BY <1>1, <1>2, RollbackDoes
<1>3. CASE Set(p, t) /\ UNCHANGED <<storeVars, lock>>
  <2>1. Txn(p).bs \in Batches
    BY <1>1 DEF Calls
  <2>2. DOMAIN Txn(p).bs \subseteq Heights
    BY <2>1 DEF Batches
  <2>3. t \in Calls /\ t.copied = DOMAIN Txn(p).bs /\ t.bs = Txn(p).bs
    BY <1>1, <2>2 DEF Calls, Points
  <2> HIDE DEF t
  <2>4. TypesInv' /\ OnlyTxn(p) /\ proc'[p].txn = t
    BY <1>1, <1>3, <2>3, SetTypes DEF OnlyTxn
  <2> QED
    BY <1>1, <2>3, <2>4 DEF t
<1> QED
  BY <1>2, <1>3 DEF CopiesBlocks

LEMMA CopiesLogsDoes ==
    ASSUME TypesInv, NEW p \in Process, CopiesLogs(p)
    PROVE  /\ TypesInv' /\ OnlyTxn(p) /\ Txn(p) \in Calls /\ Txn(p).at = "copy logs"
           /\ proc'[p].txn \in Calls
           /\ proc'[p].txn = [Txn(p) EXCEPT !.copiedLogs = Txn(p).ls, !.at = "upsert"]
<1>1. Txn(p) \in Calls /\ Alive(p) /\ Txn(p) # NoTxn /\ Txn(p).at = "copy logs"
  BY OpenTxn DEF CopiesLogs
<1> DEFINE t == [Txn(p) EXCEPT !.copiedLogs = Txn(p).ls, !.at = "upsert"]
<1>2. t \in Calls /\ t.copied = Txn(p).copied /\ t.bs = Txn(p).bs
  BY <1>1 DEF Calls, Points
<1>3. t.copied \subseteq DOMAIN t.bs
  BY <1>1, <1>2 DEF TypesInv
<1>4. Set(p, t) /\ UNCHANGED <<storeVars, lock>>
  BY DEF CopiesLogs
<1> HIDE DEF t
<1>5. TypesInv' /\ OnlyTxn(p) /\ proc'[p].txn = t
  BY <1>1, <1>2, <1>3, <1>4, SetTypes DEF OnlyTxn
<1> QED
  BY <1>1, <1>2, <1>5 DEF t

LEMMA SetsCoverageDoes ==
    ASSUME TypesInv, NEW p \in Process, SetsCoverage(p)
    PROVE  /\ TypesInv' /\ OnlyTxn(p) /\ Txn(p) \in Calls /\ Txn(p).at = "upsert"
           /\ proc'[p].txn \in Calls
           /\ proc'[p].txn = [Txn(p) EXCEPT !.at = "commit"]
<1>1. Txn(p) \in Calls /\ Alive(p) /\ Txn(p) # NoTxn /\ Txn(p).at = "upsert"
  BY OpenTxn DEF SetsCoverage
<1> DEFINE t == [Txn(p) EXCEPT !.at = "commit"]
<1>2. t \in Calls /\ t.copied = Txn(p).copied /\ t.bs = Txn(p).bs
  BY <1>1 DEF Calls, Points
<1>3. t.copied \subseteq DOMAIN t.bs
  BY <1>1, <1>2 DEF TypesInv
<1>4. Set(p, t) /\ UNCHANGED <<storeVars, lock>>
  BY DEF SetsCoverage, Goto
<1> HIDE DEF t
<1>5. TypesInv' /\ OnlyTxn(p) /\ proc'[p].txn = t
  BY <1>1, <1>2, <1>3, <1>4, SetTypes DEF OnlyTxn
<1> QED
  BY <1>1, <1>2, <1>5 DEF t

(* A call begins with nothing done, and with what its caller has checked.  *)
LEMMA CallsWriteRangeDoes ==
    ASSUME TypesInv, NEW p \in Process, CallsWriteRange(p)
    PROVE  /\ TypesInv' /\ OnlyTxn(p) /\ Alive(p)
           /\ proc'[p].txn \in Calls /\ proc'[p].txn.at = "cursor"
           /\ CallFine(p)' /\ TxnFresh(p)'
<1>1. /\ proc[p].kind = "serve" /\ Alive(p) /\ UNCHANGED <<storeVars, lock>>
  BY DEF CallsWriteRange, Idle, Alive
<1>2. PICK b \in Block, c \in Block, k \in 1..MaxTailBatch, own \in SUBSET Heights :
        LET to == Height(b)
            from == to - k + 1
            bs == [n \in from..to |-> BlockAt(b, n)]
            ls == {[n |-> n, hash |-> BlockAt(c, n)] : n \in own} IN
        /\ from >= 0 /\ Height(c) = to /\ own \subseteq from..to
        /\ LogsMatchBlocks(bs, ls)
        /\ Set(p, Call("write", from, to, bs, ls))
  BY DEF CallsWriteRange
<1> DEFINE to == Height(b)
           from == to - k + 1
           bs == [n \in from..to |-> BlockAt(b, n)]
           ls == {[n |-> n, hash |-> BlockAt(c, n)] : n \in own}
           t == Call("write", from, to, bs, ls)
<1>3. /\ from >= 0 /\ Height(c) = to /\ own \subseteq from..to
      /\ LogsMatchBlocks(bs, ls) /\ Set(p, t)
  BY <1>2
<1>4. to \in Nat /\ from \in Nat /\ from <= to
  BY <1>3, BlockIsPath, WritersAssumption
<1>5. ASSUME NEW n \in from..to
      PROVE  /\ n \in Nat /\ n \in Heights /\ BlockAt(b, n) \in Block /\ BlockAt(c, n) \in Block
  <2>1. n \in Nat /\ n <= Height(b) /\ n <= Height(c)
    BY <1>3, <1>4
  <2>2. BlockAt(b, n) \in Block /\ Height(BlockAt(b, n)) = n /\ BlockAt(c, n) \in Block
    BY <2>1, BlockAtIsBlock
  <2>3. n \in Heights
    BY <2>2 DEF Heights
  <2> QED
    BY <2>1, <2>2, <2>3
<1> HIDE DEF from, to
<1>6. bs \in [from..to -> Block] /\ from..to \subseteq Heights /\ DOMAIN bs = from..to
  BY <1>5
<1>7. bs \in Batches
  BY <1>6 DEF Batches
<1>8. ls \subseteq StoredLogRow
  BY <1>3, <1>5 DEF StoredLogRow
<1> HIDE DEF bs, ls
<1>9. /\ t \in Calls /\ t.copied = {} /\ t.at = "cursor" /\ t.op = "write" /\ t.from = from
      /\ t.to = to /\ t.bs = bs /\ t.ls = ls
      /\ t.gone = {} /\ t.goneLogs = {} /\ t.copiedLogs = {}
  BY <1>4, <1>7, <1>8 DEF Call, Calls, Ops, Points, NoCursor, Coverage
<1> HIDE DEF t
<1>10. TypesInv' /\ OnlyTxn(p) /\ proc'[p].txn = t
  BY <1>1, <1>3, <1>9, CallDoes
<1>11. CallFine(p)'
  BY <1>1, <1>3, <1>4, <1>6, <1>9, <1>10 DEF CallFine, Txn, OnlyTxn, LogsMatchBlocks
<1>12. TxnFresh(p)'
  BY <1>9, <1>10 DEF TxnFresh, Txn
<1> QED
  BY <1>1, <1>9, <1>10, <1>11, <1>12

LEMMA CallsRewindDoes ==
    ASSUME TypesInv, NEW p \in Process, CallsRewind(p)
    PROVE  /\ TypesInv' /\ OnlyTxn(p) /\ Alive(p)
           /\ proc'[p].txn \in Calls /\ proc'[p].txn.at = "cursor"
           /\ CallFine(p)' /\ TxnFresh(p)'
<1>1. /\ proc[p].kind \in {"serve", "rewind"} /\ Alive(p) /\ UNCHANGED <<storeVars, lock>>
  BY DEF CallsRewind, Idle, Alive
<1>2. PICK to \in Heights : Set(p, Call("rewind", to + 1, to, Empty, {}))
  BY DEF CallsRewind
<1> DEFINE t == Call("rewind", to + 1, to, Empty, {})
<1>3. to \in Nat /\ to + 1 \in Nat
  BY HeightsAreNat
<1>4. Empty \in Batches
  <2>1. Empty \in [{} -> Block] /\ {} \in SUBSET Heights
    BY DEF Empty
  <2> QED
    BY <2>1 DEF Batches
<1>5. /\ t \in Calls /\ t.copied = {} /\ t.at = "cursor" /\ t.op = "rewind" /\ t.bs = Empty
      /\ t.gone = {} /\ t.goneLogs = {} /\ t.copiedLogs = {}
  BY <1>3, <1>4 DEF Call, Calls, Ops, Points, NoCursor, Coverage
<1>6. Set(p, t)
  BY <1>2
<1> HIDE DEF t
<1>7. TypesInv' /\ OnlyTxn(p) /\ proc'[p].txn = t
  BY <1>1, <1>5, <1>6, CallDoes
<1>8. CallFine(p)' /\ TxnFresh(p)'
  BY <1>1, <1>5, <1>7 DEF CallFine, TxnFresh, Txn, OnlyTxn
<1> QED
  BY <1>1, <1>5, <1>7, <1>8

LEMMA CallsSetCoverageDoes ==
    ASSUME TypesInv, NEW p \in Process, CallsSetCoverage(p)
    PROVE  /\ TypesInv' /\ OnlyTxn(p) /\ Alive(p)
           /\ proc'[p].txn \in Calls /\ proc'[p].txn.at = "cursor"
           /\ CallFine(p)' /\ TxnFresh(p)'
<1>1. /\ proc[p].kind = "backfill" /\ Alive(p) /\ UNCHANGED <<storeVars, lock>>
  BY DEF CallsSetCoverage, Idle, Alive
<1>2. PICK from \in Heights, to \in Heights :
        /\ from <= to /\ from..to \subseteq DOMAIN blocks
        /\ Set(p, Call("publish", from, to, Empty, {}))
  BY DEF CallsSetCoverage
<1> DEFINE t == Call("publish", from, to, Empty, {})
<1>3. from \in Nat /\ to \in Nat
  BY HeightsAreNat
<1>4. Empty \in Batches
  <2>1. Empty \in [{} -> Block] /\ {} \in SUBSET Heights
    BY DEF Empty
  <2> QED
    BY <2>1 DEF Batches
<1>5. /\ t \in Calls /\ t.copied = {} /\ t.at = "cursor" /\ t.op = "publish" /\ t.bs = Empty
      /\ t.from = from /\ t.to = to
      /\ t.gone = {} /\ t.goneLogs = {} /\ t.copiedLogs = {}
  BY <1>3, <1>4 DEF Call, Calls, Ops, Points, NoCursor, Coverage
<1>6. Set(p, t)
  BY <1>2
<1> HIDE DEF t
<1>7. TypesInv' /\ OnlyTxn(p) /\ proc'[p].txn = t
  BY <1>1, <1>5, <1>6, CallDoes
<1>8. blocks' = blocks
  BY <1>1 DEF storeVars
<1>9. CallFine(p)' /\ TxnFresh(p)'
  BY <1>1, <1>2, <1>5, <1>7, <1>8 DEF CallFine, TxnFresh, Txn, OnlyTxn
<1> QED
  BY <1>1, <1>5, <1>7, <1>9

(* What a commit makes of the tables.                                      *)
LEMMA CommitsDoes ==
    ASSUME TypesInv, NEW p \in Process, Commits(p)
    PROVE  /\ TypesInv' /\ Txn(p) \in Calls /\ Txn(p).at = "commit" /\ Alive(p)
           /\ proc'[p].txn = NoTxn /\ proc'[p].kind = proc[p].kind
           /\ \A q \in Others(p) : proc'[q] = proc[q]
           /\ lock' = lock
<1>1. Txn(p) \in Calls /\ Alive(p) /\ Txn(p) # NoTxn /\ Txn(p).at = "commit"
  BY OpenTxn DEF Commits
<1>2. /\ blocks' = [n \in (DOMAIN blocks \ Txn(p).gone) \cup Txn(p).copied |->
                        IF n \in Txn(p).copied THEN Txn(p).bs[n] ELSE blocks[n]]
      /\ logs' = (logs \ Txn(p).goneLogs) \cup Txn(p).copiedLogs
      /\ cursor' = Txn(p).cov /\ lock' = lock
      /\ proc' = [proc EXCEPT ![p] = [proc[p] EXCEPT !.txn = NoTxn]]
  BY DEF Commits, Rollback, Set
<1>3. proc \in [Process -> Processes]
  BY DEF TypesInv
<1>4. /\ proc'[p].txn = NoTxn /\ proc'[p].kind = proc[p].kind /\ proc'[p] \in Processes
      /\ \A q \in Others(p) : proc'[q] = proc[q]
      /\ proc' \in [Process -> Processes]
  BY <1>2, <1>3 DEF Processes, Others
<1>5. StoreTypeOK' /\ (DOMAIN blocks \subseteq Heights)'
  <2>1. /\ Txn(p).bs \in Batches /\ Txn(p).copied \subseteq Heights /\ Txn(p).cov \in Coverage
        /\ Txn(p).copiedLogs \subseteq StoredLogRow
    BY <1>1 DEF Calls
  <2>2. \A n \in DOMAIN Txn(p).bs : Txn(p).bs[n] \in Block
    BY <2>1 DEF Batches
  <2>3. Txn(p).copied \subseteq DOMAIN Txn(p).bs
    BY <1>1 DEF TypesInv
  <2>4. DOMAIN blocks' \subseteq Heights
    BY <1>2, <2>1 DEF TypesInv
  <2>5. \A n \in DOMAIN blocks' : blocks'[n] \in Block
    BY <1>2, <2>2, <2>3 DEF TypesInv, StoreTypeOK
  <2>6. logs' \subseteq StoredLogRow /\ cursor' \in Coverage
    BY <1>2, <2>1 DEF TypesInv, StoreTypeOK
  <2> QED
    BY <2>4, <2>5, <2>6, HeightsAreNat DEF StoreTypeOK
<1>8. IsTable(blocks)'
  BY <1>2 DEF IsTable
<1>6. (lock \in Process \cup {NoProcess})' /\ (lock # NoProcess => Alive(lock))'
  BY <1>2, <1>4 DEF TypesInv, Alive, Others
<1>7. ASSUME NEW q \in Process
      PROVE  /\ ~Alive(q)' => Txn(q)' = NoTxn
             /\ Txn(q)' # NoTxn => Txn(q)'.copied \subseteq DOMAIN Txn(q)'.bs
  BY <1>4 DEF TypesInv, Alive, Txn, Others
<1> QED
  BY <1>1, <1>2, <1>4, <1>5, <1>6, <1>7, <1>8 DEF TypesInv

(* A process starts, ends, or loses its session; rows are loaded.          *)
LEMMA LifeDoes ==
    ASSUME TypesInv, NEW p \in Process, Starts(p) \/ Ends(p) \/ LosesSession(p)
    PROVE  /\ TypesInv' /\ UNCHANGED storeVars
           /\ \A q \in Others(p) : proc'[q] = proc[q]
           /\ Starts(p) => /\ proc[p] = Dead /\ lock = NoProcess /\ lock' = p
                           /\ proc'[p].kind \in Kinds /\ proc'[p].txn = NoTxn
                           /\ \/ "backfill not alone" \in Faults
                              \/ \A q \in Others(p) :
                                   "backfill" \in {proc'[p].kind, proc[q].kind} => proc[q] = Dead
           /\ Ends(p) => proc'[p] = Dead
           /\ LosesSession(p) => /\ proc' = proc
                                 /\ HasCursor \/ "lost before first write" \in Faults
<1>1. proc \in [Process -> Processes] /\ UNCHANGED storeVars
  BY DEF TypesInv, Starts, Ends, LosesSession
<1>2. StoreTypeOK' /\ (DOMAIN blocks \subseteq Heights)' /\ IsTable(blocks)'
  BY <1>1 DEF TypesInv, StoreTypeOK, IsTable, storeVars
<1>3. ASSUME NEW q \in Process, proc[q] = Dead
      PROVE  ~Alive(q) /\ Txn(q) = NoTxn
  BY <1>3 DEF Dead, Alive, Txn
<1>4. Dead \in Processes
  BY DEF Dead, Processes
<1>5. CASE Starts(p)
  <2>1. PICK kind \in Kinds :
            /\ proc' = [proc EXCEPT ![p] = [proc[p] EXCEPT !.kind = kind]]
            /\ AsInRunbook(p, kind) \/ "backfill not alone" \in Faults
    BY <1>5 DEF Starts
  <2>2. proc[p] = Dead /\ lock = NoProcess /\ lock' = p
    BY <1>5 DEF Starts, LockFree
  <2>3. /\ proc'[p].kind = kind /\ proc'[p].txn = NoTxn /\ proc'[p] \in Processes
        /\ \A q \in Others(p) : proc'[q] = proc[q]
        /\ proc' \in [Process -> Processes]
    <3>1. [proc[p] EXCEPT !.kind = kind] = [kind |-> kind, txn |-> NoTxn]
      BY <2>2 DEF Dead
    <3>2. [kind |-> kind, txn |-> NoTxn] \in Processes
      BY DEF Processes
    <3> QED
      BY <1>1, <2>1, <3>1, <3>2 DEF Others
  <2>4. kind # "dead"
    BY DEF Kinds
  <2>5. (lock \in Process \cup {NoProcess})' /\ (lock # NoProcess => Alive(lock))'
    BY <2>2, <2>3, <2>4 DEF Alive
  <2>6. ASSUME NEW q \in Process
        PROVE  /\ ~Alive(q)' => Txn(q)' = NoTxn
               /\ Txn(q)' # NoTxn => Txn(q)'.copied \subseteq DOMAIN Txn(q)'.bs
    BY <2>3 DEF TypesInv, Alive, Txn, Others
  <2>7. TypesInv'
    BY <1>2, <2>3, <2>5, <2>6 DEF TypesInv
  <2>8. /\ "backfill not alone" \in Faults
        \/ \A q \in Others(p) : "backfill" \in {kind, proc[q].kind} => proc[q] = Dead
    BY <2>1 DEF AsInRunbook
  <2>9. ~Ends(p) /\ ~LosesSession(p)
    BY <1>3, <2>2, NoProcessAssumption DEF Ends, LosesSession
  <2> QED
    BY <1>1, <2>1, <2>2, <2>3, <2>7, <2>8, <2>9
<1>6. CASE Ends(p)
  <2>1. /\ proc' = [proc EXCEPT ![p] = Dead] /\ proc[p] # Dead
        /\ lock' = IF lock = p THEN NoProcess ELSE lock
    BY <1>6 DEF Ends, LockWithout
  <2>2. /\ proc'[p] = Dead /\ proc' \in [Process -> Processes]
        /\ \A q \in Others(p) : proc'[q] = proc[q]
    BY <1>1, <1>4, <2>1 DEF Others
  <2>3. (lock \in Process \cup {NoProcess})' /\ (lock # NoProcess => Alive(lock))'
    BY <2>1, <2>2 DEF TypesInv, Alive, Others
  <2>4. ASSUME NEW q \in Process
        PROVE  /\ ~Alive(q)' => Txn(q)' = NoTxn
               /\ Txn(q)' # NoTxn => Txn(q)'.copied \subseteq DOMAIN Txn(q)'.bs
    BY <2>2 DEF TypesInv, Alive, Txn, Others, Dead
  <2>5. TypesInv'
    BY <1>2, <2>2, <2>3, <2>4 DEF TypesInv
  <2>6. ~Starts(p)
    BY <2>1 DEF Starts
  <2>7. ~LosesSession(p) \/ proc' = proc
    BY DEF LosesSession
  <2>8. LosesSession(p) => HasCursor \/ "lost before first write" \in Faults
    BY DEF LosesSession
  <2> QED
    BY <1>1, <2>2, <2>5, <2>6, <2>7, <2>8
<1>7. CASE LosesSession(p)
  <2>1. lock' = NoProcess /\ proc' = proc /\ lock = p
    BY <1>7 DEF LosesSession
  <2>2. TypesInv'
    BY <1>2, <2>1 DEF TypesInv, Alive, Txn
  <2>3. ~Starts(p)
    BY <2>1, NoProcessAssumption DEF Starts, LockFree
  <2>4. HasCursor \/ "lost before first write" \in Faults
    BY <1>7 DEF LosesSession
  <2>5. Ends(p) => proc'[p] = Dead
    <3> SUFFICES ASSUME Ends(p) PROVE proc'[p] = Dead
      OBVIOUS
    <3>1. proc' = [proc EXCEPT ![p] = Dead]
      BY DEF Ends
    <3> QED
      BY <3>1, <1>1
  <2> QED
    BY <1>1, <2>1, <2>2, <2>3, <2>4, <2>5
<1> QED
  BY <1>5, <1>6, <1>7

LEMMA LoadsRowsDoes ==
    ASSUME TypesInv, NEW p \in Process, LoadsRows(p)
    PROVE  /\ TypesInv' /\ UNCHANGED <<cursor, lock, proc>>
           /\ proc[p].kind = "backfill" /\ Txn(p) = NoTxn
           /\ DOMAIN blocks \subseteq DOMAIN blocks'
           /\ \A l \in logs' : l \in logs /\ (l.n \in DOMAIN blocks => blocks'[l.n] = blocks[l.n])
<1>1. PICK b \in Block, from \in Heights :
        /\ from <= Height(b)
        /\ blocks' = [n \in DOMAIN blocks \cup from..Height(b) |->
                         IF n \in from..Height(b) THEN BlockAt(b, n) ELSE blocks[n]]
        /\ logs' = {l \in logs : l.n \notin from..Height(b)}
  BY DEF LoadsRows
<1>2. UNCHANGED <<cursor, lock, proc>> /\ proc[p].kind = "backfill" /\ Txn(p) = NoTxn
  BY DEF LoadsRows, Idle
<1>3. from \in Nat /\ Height(b) \in Nat
  BY BlockIsPath, HeightsAreNat
<1>4. ASSUME NEW n \in from..Height(b)
      PROVE  n \in Heights /\ BlockAt(b, n) \in Block
  <2>1. n \in Nat /\ n <= Height(b)
    BY <1>3
  <2>2. BlockAt(b, n) \in Block /\ Height(BlockAt(b, n)) = n
    BY <2>1, BlockAtIsBlock
  <2> QED
    BY <2>2 DEF Heights
<1>5. StoreTypeOK' /\ (DOMAIN blocks \subseteq Heights)'
  BY <1>1, <1>2, <1>4, HeightsAreNat DEF TypesInv, StoreTypeOK
<1>6. IsTable(blocks)'
  BY <1>1 DEF IsTable
<1>7. TypesInv'
  BY <1>2, <1>5, <1>6 DEF TypesInv, Alive, Txn
<1> QED
  BY <1>1, <1>2, <1>7

LEMMA FailsDoes ==
    ASSUME TypesInv, NEW p \in Process, Fails(p)
    PROVE  TypesInv' /\ OnlyTxn(p) /\ proc'[p].txn = NoTxn
BY RollbackDoes DEF Fails

(* Shapes, and the holder of the writer lock is alive, whatever fails.     *)
LEMMA TypesHold == Spec => []TypesInv
<1>1. Init => TypesInv
  <2> SUFFICES ASSUME Init
               PROVE  TypesInv
    OBVIOUS
  <2>1. StoreTypeOK /\ DOMAIN blocks \subseteq Heights /\ IsTable(blocks)
    BY StoreInitInv DEF Init, StoreInv, StoreInit, IsTable
  <2>2. Dead \in Processes /\ Dead.txn = NoTxn
    BY DEF Dead, Processes
  <2>3. proc \in [Process -> Processes] /\ \A p \in Process : Txn(p) = NoTxn
    BY <2>2 DEF Init, Txn
  <2> QED
    BY <2>1, <2>3 DEF Init, TypesInv
<1>2. TypesInv /\ [Next]_vars => TypesInv'
  <2> SUFFICES ASSUME TypesInv, [Next]_vars
               PROVE  TypesInv'
    OBVIOUS
  <2>1. CASE UNCHANGED vars
    BY <2>1 DEF vars, storeVars, TypesInv, StoreTypeOK, IsTable, Alive, Txn
  <2>2. ASSUME NEW p \in Process,
               \/ Starts(p) \/ Ends(p) \/ LosesSession(p)
               \/ CallsWriteRange(p) \/ CallsRewind(p) \/ CallsSetCoverage(p) \/ LoadsRows(p)
               \/ Statement(p) \/ Fails(p)
        PROVE  TypesInv'
    BY <2>2, LifeDoes, CallsWriteRangeDoes, CallsRewindDoes, CallsSetCoverageDoes, LoadsRowsDoes,
       FailsDoes, ReadsCursorDoes, ClearsLogsDoes, ClearsBlocksDoes, CopiesBlocksDoes,
       CopiesLogsDoes, SetsCoverageDoes, CommitsDoes DEF Statement
  <2> QED
    BY <2>1, <2>2 DEF Next
<1> QED
  BY <1>1, <1>2, PTL DEF Spec

(* The tables, the lock and the locals of every transaction stay well-     *)
(* formed, whatever sessions end and whoever writes beside whom            *)
(* (WriteRange, Rewind, SetCoverage).                                      *)
THEOREM WritersTypeCorrect == Spec => []TypeOK
<1>1. TypesInv => TypeOK
  BY DEF TypesInv, TypeOK, Alive, Dead
<1> QED
  BY <1>1, TypesHold, PTL

-----------------------------------------------------------------------------
(* Exclusion and atomicity, with the faults that the design takes.         *)

(* A statement that is current keeps the invariant, if its transaction is  *)
(* the only one under way.                                                 *)
LEMMA OneTxnStep ==
    ASSUME WritersInv, TypesInv', NEW p \in Process, OnlyTxn(p), TxnFine(p)',
           UnderWay(p)' => UnderWay(p) \/ \A q \in Others(p) : ~UnderWay(q)
    PROVE  WritersInv'
<1>1. /\ blocks' = blocks /\ logs' = logs /\ cursor' = cursor /\ lock' = lock
      /\ proc'[p].kind = proc[p].kind
      /\ \A q \in Others(p) : proc'[q] = proc[q]
  BY DEF OnlyTxn, storeVars
<1>2. StoreInv'
  BY <1>1 DEF WritersInv, StoreInv, StoreTypeOK, HasCursor, CoverageComplete, Covered, LogsPaired
<1>3. \A q \in Process : Alive(q)' <=> Alive(q)
  BY <1>1 DEF Alive, Others
<1>4. \A q \in Others(p) : UnderWay(q)' <=> UnderWay(q)
  BY <1>1 DEF UnderWay, Txn
<1>5. ExclusionInv'
  <2>1. (~HasCursor => \A q \in Process : Alive(q) => lock = q)'
    BY <1>1, <1>3 DEF WritersInv, ExclusionInv, HasCursor
  <2>2. \A q, r \in Process : q # r /\ proc'[q].kind = "backfill" => ~Alive(r)'
    BY <1>1, <1>3 DEF WritersInv, ExclusionInv, Others
  <2>3. \A q, r \in Process : UnderWay(q)' /\ UnderWay(r)' => q = r
    BY <1>4 DEF WritersInv, ExclusionInv, Others
  <2> QED
    BY <2>1, <2>2, <2>3 DEF ExclusionInv
<1>6. ASSUME NEW q \in Others(p)
      PROVE  TxnFine(q)'
  <2>1. TxnFine(q) /\ Txn(q)' = Txn(q) /\ proc'[q].kind = proc[q].kind
    BY <1>1 DEF WritersInv, Others, Txn
  <2>2. CallFine(q) => CallFine(q)'
    BY <2>1, <1>1 DEF CallFine, LogsMatchBlocks
  <2>3. TxnFresh(q) => TxnFresh(q)'
    BY <2>1 DEF TxnFresh
  <2>4. TxnCurrent(q) => TxnCurrent(q)'
    BY <2>1, <1>1
    DEF TxnCurrent, Allowed, NewCoverage, RewindAllowed, TouchesCoverage, MergedCoverage,
        HasCursor, Affected
  <2> QED
    BY <2>1, <2>2, <2>3, <2>4 DEF TxnFine
<1> QED
  BY <1>2, <1>5, <1>6 DEF WritersInv, Others

(* Whoever reads the cursor finds no other transaction under way: it would *)
(* hold the row, or, without a row, belong to the holder of the lock.      *)
LEMMA CursorExcludes ==
    ASSUME WritersInv, NEW p \in Process, Alive(p), HasCursor => CursorRowFree(p)
    PROVE  \A q \in Others(p) : ~UnderWay(q)
<1> SUFFICES ASSUME NEW q \in Others(p), UnderWay(q)
             PROVE  FALSE
  OBVIOUS
<1>1. q \in Process /\ q # p /\ Txn(q).at \notin {"none", "cursor"}
  BY DEF Others, UnderWay
<1>2. Alive(q) /\ Txn(q) # NoTxn
  BY <1>1, OpenTxn DEF WritersInv
<1>3. Txn(q).sawRow = HasCursor
  BY <1>1, <1>2 DEF WritersInv, TxnFine, TxnCurrent
<1>4. CASE HasCursor
  BY <1>1, <1>3, <1>4 DEF CursorRowFree, HoldsCursor
<1>5. CASE ~HasCursor
  BY <1>1, <1>2, <1>5 DEF WritersInv, ExclusionInv
<1> QED
  BY <1>4, <1>5

(* The statements.                                                         *)
LEMMA ReadsCursorStep ==
    ASSUME WritersInv, NEW p \in Process, ReadsCursor(p)
    PROVE  WritersInv'
<1>0. TypesInv
  BY DEF WritersInv
<1>1. /\ TypesInv' /\ OnlyTxn(p) /\ Txn(p) \in Calls /\ Txn(p).at = "cursor"
      /\ \/ proc'[p].txn = NoTxn
         \/ /\ Allowed(Txn(p)) /\ (HasCursor => CursorRowFree(p)) /\ proc'[p].txn \in Calls
            /\ proc'[p].txn =
                   [Txn(p) EXCEPT !.cov = NewCoverage(Txn(p)), !.sawRow = HasCursor,
                                  !.at = IF Txn(p).op = "publish" THEN "upsert" ELSE "clear logs"]
  BY <1>0, ReadsCursorDoes
<1>2. CASE proc'[p].txn = NoTxn
  BY <1>1, <1>2, OneTxnStep DEF TxnFine, UnderWay, Txn, NoTxn
<1>3. CASE proc'[p].txn # NoTxn
  <2>1. /\ CallFine(p) /\ TxnFresh(p) /\ Alive(p)
    BY <1>0, <1>1, OpenTxn DEF WritersInv, TxnFine
  <2>2. /\ blocks' = blocks /\ logs' = logs /\ cursor' = cursor /\ proc'[p].kind = proc[p].kind
    BY <1>1 DEF OnlyTxn, storeVars
  <2> DEFINE t == proc'[p].txn
  <2>3. /\ t.op = Txn(p).op /\ t.from = Txn(p).from /\ t.to = Txn(p).to /\ t.bs = Txn(p).bs
        /\ t.ls = Txn(p).ls /\ t.cov = NewCoverage(Txn(p)) /\ t.sawRow = HasCursor
        /\ t.at = IF Txn(p).op = "publish" THEN "upsert" ELSE "clear logs"
        /\ t.gone = Txn(p).gone /\ t.goneLogs = Txn(p).goneLogs /\ t.copied = Txn(p).copied
        /\ t.copiedLogs = Txn(p).copiedLogs /\ Txn(p).op \in Ops
    <3> DEFINE old == Txn(p)
               cov == NewCoverage(Txn(p))
               saw == HasCursor
               at == IF Txn(p).op = "publish" THEN "upsert" ELSE "clear logs"
    <3>1. old \in Calls /\ t = [old EXCEPT !.cov = cov, !.sawRow = saw, !.at = at]
      BY <1>1, <1>3
    <3> HIDE DEF old, cov, saw, at
    <3>2. /\ t.op = old.op /\ t.from = old.from /\ t.to = old.to /\ t.bs = old.bs
          /\ t.ls = old.ls /\ t.cov = cov /\ t.sawRow = saw /\ t.at = at
          /\ t.gone = old.gone /\ t.goneLogs = old.goneLogs /\ t.copied = old.copied
          /\ t.copiedLogs = old.copiedLogs /\ old.op \in Ops
      BY <3>1, Zenon DEF Calls
    <3> QED
      BY <3>2 DEF old, cov, saw, at
  <2> HIDE DEF t
  <2>4. Txn(p)' = t
    BY DEF Txn, t
  <2>5. CallFine(p)'
    BY <2>1, <2>2, <2>3, <2>4 DEF CallFine, LogsMatchBlocks
  <2>6. TxnCurrent(p)'
    BY <1>1, <1>3, <2>1, <2>2, <2>3, <2>4
    DEF TxnCurrent, TxnFresh, Allowed, NewCoverage, RewindAllowed, TouchesCoverage,
        MergedCoverage, HasCursor, Ops
  <2>7. TxnFine(p)'
    BY <2>3, <2>4, <2>5, <2>6 DEF TxnFine
  <2>8. \A q \in Others(p) : ~UnderWay(q)
    BY <1>1, <1>3, <2>1, CursorExcludes
  <2> QED
    BY <1>1, <2>7, <2>8, OneTxnStep
<1> QED
  BY <1>2, <1>3

LEMMA ClearsLogsStep ==
    ASSUME WritersInv, NEW p \in Process, ClearsLogs(p)
    PROVE  WritersInv'
<1>0. TypesInv
  BY DEF WritersInv
<1>1. /\ TypesInv' /\ OnlyTxn(p) /\ Txn(p) \in Calls /\ Txn(p).at = "clear logs"
      /\ proc'[p].txn = [Txn(p) EXCEPT !.goneLogs = {l \in logs : l.n \in Affected(Txn(p))},
                                       !.at = "clear blocks"]
  BY <1>0, ClearsLogsDoes
<1>2. /\ CallFine(p) /\ TxnCurrent(p)
  BY <1>0, <1>1, OpenTxn DEF WritersInv, TxnFine
<1>3. /\ blocks' = blocks /\ logs' = logs /\ cursor' = cursor /\ proc'[p].kind = proc[p].kind
  BY <1>1 DEF OnlyTxn, storeVars
<1> DEFINE t == proc'[p].txn
<1>4. /\ t.op = Txn(p).op /\ t.from = Txn(p).from /\ t.to = Txn(p).to /\ t.bs = Txn(p).bs
      /\ t.ls = Txn(p).ls /\ t.cov = Txn(p).cov /\ t.sawRow = Txn(p).sawRow
      /\ t.at = "clear blocks" /\ t.goneLogs = {l \in logs : l.n \in Affected(Txn(p))}
      /\ t.gone = Txn(p).gone /\ t.copied = Txn(p).copied /\ t.copiedLogs = Txn(p).copiedLogs
  BY <1>1 DEF Calls
<1> HIDE DEF t
<1>5. Txn(p)' = t
  BY DEF Txn, t
<1>6. CallFine(p)'
  BY <1>2, <1>3, <1>4, <1>5 DEF CallFine, LogsMatchBlocks
<1>7. TxnCurrent(p)'
  BY <1>1, <1>2, <1>3, <1>4, <1>5
  DEF TxnCurrent, Allowed, NewCoverage, RewindAllowed, TouchesCoverage, MergedCoverage, HasCursor,
      Affected
<1>8. TxnFine(p)' /\ UnderWay(p)
  BY <1>1, <1>4, <1>5, <1>6, <1>7 DEF TxnFine, UnderWay
<1> QED
  BY <1>1, <1>8, OneTxnStep

LEMMA ClearsBlocksStep ==
    ASSUME WritersInv, NEW p \in Process, ClearsBlocks(p)
    PROVE  WritersInv'
<1>0. TypesInv
  BY DEF WritersInv
<1>1. /\ TypesInv' /\ OnlyTxn(p) /\ Txn(p) \in Calls /\ Txn(p).at = "clear blocks"
      /\ proc'[p].txn = [Txn(p) EXCEPT !.gone = DOMAIN blocks \cap Affected(Txn(p)),
                !.at = IF Txn(p).op = "rewind" THEN "upsert" ELSE "copy blocks"]
  BY <1>0, ClearsBlocksDoes
<1>2. /\ CallFine(p) /\ TxnCurrent(p)
  BY <1>0, <1>1, OpenTxn DEF WritersInv, TxnFine
<1>3. /\ blocks' = blocks /\ logs' = logs /\ cursor' = cursor /\ proc'[p].kind = proc[p].kind
  BY <1>1 DEF OnlyTxn, storeVars
<1> DEFINE t == proc'[p].txn
<1>4. /\ t.op = Txn(p).op /\ t.from = Txn(p).from /\ t.to = Txn(p).to /\ t.bs = Txn(p).bs
      /\ t.ls = Txn(p).ls /\ t.cov = Txn(p).cov /\ t.sawRow = Txn(p).sawRow
      /\ t.at = IF Txn(p).op = "rewind" THEN "upsert" ELSE "copy blocks"
      /\ t.gone = DOMAIN blocks \cap Affected(Txn(p))
      /\ t.goneLogs = Txn(p).goneLogs /\ t.copied = Txn(p).copied
      /\ t.copiedLogs = Txn(p).copiedLogs
  BY <1>1 DEF Calls
<1> HIDE DEF t
<1>5. Txn(p)' = t
  BY DEF Txn, t
<1>6. CallFine(p)'
  BY <1>2, <1>3, <1>4, <1>5 DEF CallFine, LogsMatchBlocks
<1>7. TxnCurrent(p)'
  BY <1>1, <1>2, <1>3, <1>4, <1>5
  DEF TxnCurrent, Allowed, NewCoverage, RewindAllowed, TouchesCoverage, MergedCoverage, HasCursor,
      Affected
<1>8. TxnFine(p)' /\ UnderWay(p)
  BY <1>1, <1>4, <1>5, <1>6, <1>7 DEF TxnFine, UnderWay
<1> QED
  BY <1>1, <1>8, OneTxnStep

LEMMA CopiesBlocksStep ==
    ASSUME WritersInv, NEW p \in Process, CopiesBlocks(p)
    PROVE  WritersInv'
<1>0. TypesInv
  BY DEF WritersInv
<1>1. /\ TypesInv' /\ OnlyTxn(p) /\ Txn(p) \in Calls /\ Txn(p).at = "copy blocks"
      /\ \/ proc'[p].txn = NoTxn
         \/ proc'[p].txn = [Txn(p) EXCEPT !.copied = DOMAIN Txn(p).bs, !.at = "copy logs"]
  BY <1>0, CopiesBlocksDoes
<1>2. CASE proc'[p].txn = NoTxn
  BY <1>1, <1>2, OneTxnStep DEF TxnFine, UnderWay, Txn, NoTxn
<1>3. CASE proc'[p].txn # NoTxn
  <2>1. /\ CallFine(p) /\ TxnCurrent(p)
    BY <1>0, <1>1, OpenTxn DEF WritersInv, TxnFine
  <2>2. /\ blocks' = blocks /\ logs' = logs /\ cursor' = cursor /\ proc'[p].kind = proc[p].kind
    BY <1>1 DEF OnlyTxn, storeVars
  <2> DEFINE t == proc'[p].txn
  <2>3. /\ t.op = Txn(p).op /\ t.from = Txn(p).from /\ t.to = Txn(p).to /\ t.bs = Txn(p).bs
        /\ t.ls = Txn(p).ls /\ t.cov = Txn(p).cov /\ t.sawRow = Txn(p).sawRow
        /\ t.at = "copy logs" /\ t.gone = Txn(p).gone /\ t.goneLogs = Txn(p).goneLogs
        /\ t.copied = DOMAIN Txn(p).bs /\ t.copiedLogs = Txn(p).copiedLogs /\ Txn(p).op \in Ops
    BY <1>1, <1>3 DEF Calls
  <2> HIDE DEF t
  <2>4. Txn(p)' = t
    BY DEF Txn, t
  <2>5. Txn(p).op = "write"
    BY <1>1, <2>1, <2>3 DEF TxnCurrent, Ops
  <2>6. CallFine(p)'
    BY <2>1, <2>2, <2>3, <2>4 DEF CallFine, LogsMatchBlocks
  <2>7. TxnCurrent(p)'
    BY <1>1, <2>1, <2>2, <2>3, <2>4, <2>5
    DEF TxnCurrent, Allowed, NewCoverage, RewindAllowed, TouchesCoverage, MergedCoverage,
        HasCursor, Affected
  <2>8. TxnFine(p)' /\ UnderWay(p)
    BY <1>1, <2>3, <2>4, <2>6, <2>7 DEF TxnFine, UnderWay
  <2> QED
    BY <1>1, <2>8, OneTxnStep
<1> QED
  BY <1>2, <1>3

LEMMA CopiesLogsStep ==
    ASSUME WritersInv, NEW p \in Process, CopiesLogs(p)
    PROVE  WritersInv'
<1>0. TypesInv
  BY DEF WritersInv
<1>1. /\ TypesInv' /\ OnlyTxn(p) /\ Txn(p) \in Calls /\ Txn(p).at = "copy logs"
      /\ proc'[p].txn = [Txn(p) EXCEPT !.copiedLogs = Txn(p).ls, !.at = "upsert"]
  BY <1>0, CopiesLogsDoes
<1>2. /\ CallFine(p) /\ TxnCurrent(p)
  BY <1>0, <1>1, OpenTxn DEF WritersInv, TxnFine
<1>3. /\ blocks' = blocks /\ logs' = logs /\ cursor' = cursor /\ proc'[p].kind = proc[p].kind
  BY <1>1 DEF OnlyTxn, storeVars
<1> DEFINE t == proc'[p].txn
<1>4. /\ t.op = Txn(p).op /\ t.from = Txn(p).from /\ t.to = Txn(p).to /\ t.bs = Txn(p).bs
      /\ t.ls = Txn(p).ls /\ t.cov = Txn(p).cov /\ t.sawRow = Txn(p).sawRow
      /\ t.at = "upsert" /\ t.gone = Txn(p).gone /\ t.goneLogs = Txn(p).goneLogs
      /\ t.copied = Txn(p).copied /\ t.copiedLogs = Txn(p).ls /\ Txn(p).op \in Ops
  BY <1>1 DEF Calls
<1> HIDE DEF t
<1>5. Txn(p)' = t
  BY DEF Txn, t
<1>6. CallFine(p)'
  BY <1>2, <1>3, <1>4, <1>5 DEF CallFine, LogsMatchBlocks
<1>7. Txn(p).op = "write"
  BY <1>1, <1>2, <1>4 DEF TxnCurrent, Ops
<1>8. TxnCurrent(p)'
  BY <1>1, <1>2, <1>3, <1>4, <1>5, <1>7
  DEF TxnCurrent, Allowed, NewCoverage, RewindAllowed, TouchesCoverage, MergedCoverage, HasCursor,
      Affected
<1>9. TxnFine(p)' /\ UnderWay(p)
  BY <1>1, <1>4, <1>5, <1>6, <1>8 DEF TxnFine, UnderWay
<1> QED
  BY <1>1, <1>9, OneTxnStep

LEMMA SetsCoverageStep ==
    ASSUME WritersInv, NEW p \in Process, SetsCoverage(p)
    PROVE  WritersInv'
<1>0. TypesInv
  BY DEF WritersInv
<1>1. /\ TypesInv' /\ OnlyTxn(p) /\ Txn(p) \in Calls /\ Txn(p).at = "upsert"
      /\ proc'[p].txn = [Txn(p) EXCEPT !.at = "commit"]
  BY <1>0, SetsCoverageDoes
<1>2. /\ CallFine(p) /\ TxnCurrent(p)
  BY <1>0, <1>1, OpenTxn DEF WritersInv, TxnFine
<1>3. /\ blocks' = blocks /\ logs' = logs /\ cursor' = cursor /\ proc'[p].kind = proc[p].kind
  BY <1>1 DEF OnlyTxn, storeVars
<1> DEFINE t == proc'[p].txn
<1>4. /\ t.op = Txn(p).op /\ t.from = Txn(p).from /\ t.to = Txn(p).to /\ t.bs = Txn(p).bs
      /\ t.ls = Txn(p).ls /\ t.cov = Txn(p).cov /\ t.sawRow = Txn(p).sawRow
      /\ t.at = "commit" /\ t.gone = Txn(p).gone /\ t.goneLogs = Txn(p).goneLogs
      /\ t.copied = Txn(p).copied /\ t.copiedLogs = Txn(p).copiedLogs
  BY <1>1 DEF Calls
<1> HIDE DEF t
<1>5. Txn(p)' = t
  BY DEF Txn, t
<1>6. CallFine(p)'
  BY <1>2, <1>3, <1>4, <1>5 DEF CallFine, LogsMatchBlocks
<1>7. TxnCurrent(p)'
  BY <1>1, <1>2, <1>3, <1>4, <1>5
  DEF TxnCurrent, Allowed, NewCoverage, RewindAllowed, TouchesCoverage, MergedCoverage, HasCursor,
      Affected
<1>8. TxnFine(p)' /\ UnderWay(p)
  BY <1>1, <1>4, <1>5, <1>6, <1>7 DEF TxnFine, UnderWay
<1> QED
  BY <1>1, <1>8, OneTxnStep

(* The coverage grows by an interval whose rows are there.                 *)
LEMMA PublishInv ==
    ASSUME StoreInv, NEW from \in Nat, NEW to \in Nat, from <= to, from..to \subseteq DOMAIN blocks,
           TouchesCoverage(from, to), cursor' = MergedCoverage(from, to),
           UNCHANGED <<blocks, logs>>
    PROVE  StoreInv' /\ cursor'.start <= cursor'.head
<1>1. cursor \in Coverage
  BY DEF StoreInv, StoreTypeOK
<1>2. cursor' \in Coverage /\ cursor'.start <= cursor'.head
  BY <1>1 DEF StoreInv, MergedCoverage, Coverage, Lesser, Greater
<1>3. CoverageComplete'
  <2>1. CASE HasCursor
    <3>1. \A n \in cursor'.start..cursor'.head : n \in Covered \/ n \in from..to
      BY <2>1, <1>1
      DEF TouchesCoverage, MergedCoverage, Covered, Coverage, Lesser, Greater
    <3> QED
      BY <3>1 DEF StoreInv, CoverageComplete, Covered
  <2>2. CASE ~HasCursor
    BY <2>2 DEF CoverageComplete, Covered, MergedCoverage
  <2> QED
    BY <2>1, <2>2
<1> QED
  BY <1>2, <1>3 DEF StoreInv, StoreTypeOK, LogsPaired

(* A commit does in one step what its call was to do, on the tables as     *)
(* they are when it commits.                                               *)
LEMMA CommitIsOneStep ==
    ASSUME WritersInv, NEW p \in Process, Commits(p)
    PROVE  InOneStep(Txn(p)) /\ StoreInv' /\ cursor'.start <= cursor'.head
<1>1. TypesInv /\ StoreInv
  BY DEF WritersInv
<1>2. Txn(p) \in Calls /\ Txn(p).at = "commit" /\ Txn(p).op \in Ops
  BY <1>1, CommitsDoes DEF Calls
<1>3. CallFine(p) /\ TxnCurrent(p)
  BY <1>1, <1>2, OpenTxn DEF WritersInv, TxnFine
<1>4. /\ blocks' = [n \in (DOMAIN blocks \ Txn(p).gone) \cup Txn(p).copied |->
                        IF n \in Txn(p).copied THEN Txn(p).bs[n] ELSE blocks[n]]
      /\ logs' = (logs \ Txn(p).goneLogs) \cup Txn(p).copiedLogs
      /\ cursor' = Txn(p).cov
  BY DEF Commits
<1> DEFINE from == Txn(p).from
           to == Txn(p).to
           bs == Txn(p).bs
           ls == Txn(p).ls
<1>5. from \in Nat /\ to \in Nat /\ bs \in Batches /\ ls \subseteq StoredLogRow
  BY <1>2 DEF Calls
<1>6. Allowed(Txn(p)) /\ Txn(p).cov = NewCoverage(Txn(p))
  BY <1>3 DEF TxnCurrent
<1>7. CASE Txn(p).op = "write"
  <2>1. /\ from <= to /\ DOMAIN bs = from..to /\ LogsMatchBlocks(bs, ls)
        /\ TouchesCoverage(from, to) /\ cursor' = MergedCoverage(from, to)
        /\ Affected(Txn(p)) = from..to
    BY <1>3, <1>4, <1>6, <1>7 DEF CallFine, Allowed, NewCoverage, Affected
  <2>2. /\ Txn(p).goneLogs = {l \in logs : l.n \in from..to}
        /\ Txn(p).gone = DOMAIN blocks \cap (from..to)
        /\ Txn(p).copied = from..to /\ Txn(p).copiedLogs = ls
    BY <1>2, <1>3, <1>7, <2>1 DEF TxnCurrent
  <2> HIDE DEF from, to, bs, ls
  <2>3. logs' = {l \in logs : l.n \notin from..to} \cup ls
    BY <1>4, <2>2
  <2>4. blocks' = [n \in DOMAIN blocks \cup from..to |->
                      IF n \in from..to THEN bs[n] ELSE blocks[n]]
    <3>1. (DOMAIN blocks \ (DOMAIN blocks \cap (from..to))) \cup (from..to)
            = DOMAIN blocks \cup from..to
      OBVIOUS
    <3> QED
      BY <1>4, <2>2, <3>1 DEF bs
  <2>5. WriteRange(from, to, bs, ls)
    BY <2>1, <2>3, <2>4 DEF WriteRange, WriteRangeAllowed
  <2>6. bs \in [from..to -> Block]
    BY <1>5, <2>1 DEF Batches
  <2>7. ls \in SUBSET LogRow
    BY <1>5 DEF StoredLogRow, LogRow
  <2>8. StoreInv'
    BY <1>1, <1>5, <2>1, <2>5, <2>6, <2>7, WriteRangeInv
  <2>9. cursor'.start <= cursor'.head
    <3>1. cursor \in Coverage /\ (HasCursor => cursor.start <= cursor.head)
      BY <1>1 DEF StoreInv, StoreTypeOK
    <3> QED
      BY <1>5, <2>1, <3>1 DEF MergedCoverage, Coverage, Lesser, Greater
  <2>10. InOneStep(Txn(p))
    BY <1>7, <2>5 DEF InOneStep, from, to, bs, ls
  <2> QED
    BY <2>8, <2>9, <2>10
<1>8. CASE Txn(p).op = "rewind"
  <2>1. /\ RewindAllowed(to) /\ cursor' = [start |-> cursor.start, head |-> to]
        /\ Affected(Txn(p)) = {n \in Heights : n > to}
    BY <1>3, <1>4, <1>6, <1>8 DEF Allowed, NewCoverage, Affected
  <2>2. /\ Txn(p).goneLogs = {l \in logs : l.n \in Heights /\ l.n > to}
        /\ Txn(p).gone = {n \in DOMAIN blocks : n > to}
        /\ Txn(p).copied = {} /\ Txn(p).copiedLogs = {}
    BY <1>1, <1>2, <1>3, <1>8, <2>1 DEF TxnCurrent, TypesInv
  <2> HIDE DEF from, to, bs, ls
  <2>3. \A l \in logs : l.n \in Heights /\ l.n \in Nat
    BY <1>1, HeightsAreNat DEF StoreInv, LogsPaired, TypesInv
  <2>4. \A n \in DOMAIN blocks : n \in Nat
    BY <1>1 DEF TypesInv, StoreTypeOK
  <2>5. logs' = {l \in logs : l.n <= to}
    BY <1>4, <1>5, <2>2, <2>3
  <2>6. blocks' = [n \in {m \in DOMAIN blocks : m <= to} |-> blocks[n]]
    <3>1. (DOMAIN blocks \ {n \in DOMAIN blocks : n > to}) \cup {} = {m \in DOMAIN blocks : m <= to}
      BY <1>5, <2>4
    <3> QED
      BY <1>4, <2>2, <3>1
  <2>7. Rewind(to)
    BY <2>1, <2>5, <2>6 DEF Rewind
  <2>8. StoreInv'
    BY <1>1, <1>5, <2>7, RewindInv
  <2>9. cursor'.start <= cursor'.head
    BY <2>1 DEF RewindAllowed
  <2>10. InOneStep(Txn(p))
    BY <1>8, <2>7 DEF InOneStep, to
  <2> QED
    BY <2>8, <2>9, <2>10
<1>9. CASE Txn(p).op = "publish"
  <2>1. /\ from <= to /\ from..to \subseteq DOMAIN blocks
        /\ TouchesCoverage(from, to) /\ cursor' = MergedCoverage(from, to)
    BY <1>3, <1>4, <1>6, <1>9 DEF CallFine, Allowed, NewCoverage
  <2>2. /\ Txn(p).goneLogs = {} /\ Txn(p).gone = {}
        /\ Txn(p).copied = {} /\ Txn(p).copiedLogs = {}
    BY <1>2, <1>3, <1>9 DEF TxnCurrent
  <2>3. UNCHANGED <<blocks, logs>>
    <3>1. blocks = [n \in DOMAIN blocks |-> blocks[n]]
      BY <1>1 DEF TypesInv, IsTable
    <3>2. (DOMAIN blocks \ {}) \cup {} = DOMAIN blocks
      OBVIOUS
    <3>3. blocks' = [n \in DOMAIN blocks |-> blocks[n]]
      BY <1>4, <2>2, <3>2
    <3> QED
      BY <1>4, <2>2, <3>1, <3>3
  <2>4. StoreInv' /\ cursor'.start <= cursor'.head
    BY <1>1, <1>5, <2>1, <2>3, PublishInv
  <2>5. InOneStep(Txn(p))
    BY <1>9, <2>1, <2>3 DEF InOneStep
  <2> QED
    BY <2>4, <2>5
<1> QED
  BY <1>2, <1>7, <1>8, <1>9 DEF Ops

LEMMA CommitsStep ==
    ASSUME WritersInv, NEW p \in Process, Commits(p)
    PROVE  WritersInv'
<1>1. TypesInv
  BY DEF WritersInv
<1>2. /\ TypesInv' /\ Txn(p) \in Calls /\ Txn(p).at = "commit" /\ Alive(p)
      /\ proc'[p].txn = NoTxn /\ proc'[p].kind = proc[p].kind
      /\ \A q \in Others(p) : proc'[q] = proc[q]
      /\ lock' = lock
  BY <1>1, CommitsDoes
<1>3. StoreInv' /\ HasCursor'
  BY CommitIsOneStep DEF HasCursor, NoCursor
<1>4. UnderWay(p) /\ ~UnderWay(p)'
  BY <1>2 DEF UnderWay, Txn, NoTxn
<1>5. ASSUME NEW q \in Others(p)
      PROVE  /\ q \in Process /\ q # p /\ Txn(q)' = Txn(q) /\ proc'[q].kind = proc[q].kind
             /\ ~UnderWay(q) /\ ~UnderWay(q)' /\ proc[q].kind # "backfill"
  <2>1. q \in Process /\ q # p /\ Txn(q)' = Txn(q) /\ proc'[q].kind = proc[q].kind
    BY <1>2 DEF Others, Txn
  <2>2. ~UnderWay(q)
    BY <1>4, <2>1 DEF WritersInv, ExclusionInv
  <2>3. proc[q].kind # "backfill"
    BY <1>2, <2>1 DEF WritersInv, ExclusionInv
  <2> QED
    BY <2>1, <2>2, <2>3 DEF UnderWay
<1>6. ExclusionInv'
  <2>1. \A q, r \in Process : q # r /\ proc'[q].kind = "backfill" => ~Alive(r)'
    <3>1. \A q \in Process : proc'[q].kind = proc[q].kind
      BY <1>2, <1>5 DEF Others
    <3> QED
      BY <3>1 DEF WritersInv, ExclusionInv, Alive
  <2>2. \A q, r \in Process : UnderWay(q)' /\ UnderWay(r)' => q = r
    BY <1>4, <1>5 DEF Others
  <2> QED
    BY <1>3, <2>1, <2>2 DEF ExclusionInv
<1>7. TxnFine(p)'
  BY <1>2 DEF TxnFine, Txn
<1>8. ASSUME NEW q \in Others(p)
      PROVE  TxnFine(q)'
  <2> SUFFICES ASSUME Txn(q) # NoTxn
               PROVE  TxnFine(q)'
    BY <1>5 DEF TxnFine
  <2>1. CallFine(q) /\ Txn(q).at = "cursor" /\ TxnFresh(q)
    BY <1>1, <1>5, OpenTxn DEF WritersInv, TxnFine, UnderWay, Points
  <2>2. Txn(q).op # "publish"
    BY <1>5, <2>1 DEF CallFine
  <2>3. CallFine(q)' /\ TxnFresh(q)'
    BY <1>5, <2>1, <2>2 DEF CallFine, TxnFresh, LogsMatchBlocks
  <2> QED
    BY <1>5, <2>1, <2>3 DEF TxnFine
<1> QED
  BY <1>2, <1>3, <1>6, <1>7, <1>8 DEF WritersInv, Others

(* A backfill is alone: its rows meet no transaction.                      *)
LEMMA LoadsRowsStep ==
    ASSUME WritersInv, NEW p \in Process, LoadsRows(p)
    PROVE  WritersInv'
<1>1. TypesInv
  BY DEF WritersInv
<1>2. /\ TypesInv' /\ UNCHANGED <<cursor, lock, proc>>
      /\ proc[p].kind = "backfill" /\ Txn(p) = NoTxn
      /\ DOMAIN blocks \subseteq DOMAIN blocks'
      /\ \A l \in logs' : l \in logs /\ (l.n \in DOMAIN blocks => blocks'[l.n] = blocks[l.n])
  BY <1>1, LoadsRowsDoes
<1>3. StoreInv'
  <2>1. StoreTypeOK' /\ (HasCursor => cursor.start <= cursor.head)'
    BY <1>2 DEF WritersInv, TypesInv, StoreInv, HasCursor
  <2>2. CoverageComplete'
    BY <1>2 DEF WritersInv, StoreInv, CoverageComplete, Covered
  <2>3. LogsPaired'
    BY <1>2 DEF WritersInv, StoreInv, LogsPaired
  <2> QED
    BY <2>1, <2>2, <2>3 DEF StoreInv
<1>4. ExclusionInv'
  BY <1>2 DEF WritersInv, ExclusionInv, HasCursor, Alive, UnderWay, Txn
<1>5. ASSUME NEW q \in Process
      PROVE  TxnFine(q)'
  <2>1. q # p => ~Alive(q)
    BY <1>2 DEF WritersInv, ExclusionInv
  <2>2. Txn(q) = NoTxn
    BY <1>1, <1>2, <2>1 DEF TypesInv
  <2> QED
    BY <1>2, <2>2 DEF TxnFine, Txn
<1> QED
  BY <1>2, <1>3, <1>4, <1>5 DEF WritersInv

(* Processes come and go; a lost session leaves a cursor row to lock.      *)
LEMMA LifeStep ==
    ASSUME WritersInv, Faults \subseteq {"session lost"},
           NEW p \in Process, Starts(p) \/ Ends(p) \/ LosesSession(p)
    PROVE  WritersInv'
<1>1. TypesInv
  BY DEF WritersInv
<1>2. /\ TypesInv' /\ UNCHANGED storeVars
      /\ \A q \in Others(p) : proc'[q] = proc[q]
      /\ Starts(p) => /\ proc[p] = Dead /\ lock = NoProcess /\ lock' = p
                      /\ proc'[p].kind \in Kinds /\ proc'[p].txn = NoTxn
                      /\ \/ "backfill not alone" \in Faults
                         \/ \A q \in Others(p) :
                              "backfill" \in {proc'[p].kind, proc[q].kind} => proc[q] = Dead
      /\ Ends(p) => proc'[p] = Dead
      /\ LosesSession(p) => /\ proc' = proc
                            /\ HasCursor \/ "lost before first write" \in Faults
  BY <1>1, LifeDoes
<1>3. /\ blocks' = blocks /\ logs' = logs /\ cursor' = cursor
  BY <1>2 DEF storeVars
<1>4. StoreInv' /\ (HasCursor' <=> HasCursor)
  BY <1>3 DEF WritersInv, StoreInv, StoreTypeOK, HasCursor, CoverageComplete, Covered, LogsPaired
<1>5. Dead.kind = "dead" /\ Dead.txn = NoTxn /\ NoTxn.at = "none"
  BY DEF Dead, NoTxn
<1>6. ASSUME NEW q \in Process
      PROVE  proc'[q] = proc[q] \/ Txn(q)' = NoTxn
  <2>1. CASE q # p
    BY <1>2, <2>1 DEF Others
  <2>2. CASE q = p /\ Starts(p)
    BY <1>2, <2>2 DEF Txn
  <2>3. CASE q = p /\ Ends(p)
    BY <1>2, <1>5, <2>3 DEF Txn
  <2>4. CASE q = p /\ LosesSession(p)
    BY <1>2, <2>4
  <2> QED
    BY <2>1, <2>2, <2>3, <2>4
<1>7. ASSUME NEW q \in Process
      PROVE  /\ UnderWay(q)' => UnderWay(q)
             /\ Txn(q)' # NoTxn => Txn(q)' = Txn(q)
  <2>1. Txn(q)' = Txn(q) \/ Txn(q)' = NoTxn
    BY <1>6 DEF Txn
  <2> QED
    BY <2>1, <1>5 DEF UnderWay
<1>8. ASSUME NEW q \in Process, Txn(q)' # NoTxn
      PROVE  proc'[q] = proc[q]
  BY <1>6, <1>8
<1>9. ASSUME NEW q \in Process
      PROVE  TxnFine(q)'
  <2> SUFFICES ASSUME Txn(q)' # NoTxn
               PROVE  TxnFine(q)'
    BY DEF TxnFine
  <2>1. proc'[q] = proc[q] /\ Txn(q)' = Txn(q) /\ TxnFine(q)
    BY <1>7, <1>8 DEF WritersInv
  <2>2. CallFine(q) => CallFine(q)'
    BY <2>1, <1>3 DEF CallFine, LogsMatchBlocks
  <2>3. TxnFresh(q) => TxnFresh(q)'
    BY <2>1 DEF TxnFresh
  <2>4. TxnCurrent(q) => TxnCurrent(q)'
    BY <2>1, <1>3
    DEF TxnCurrent, Allowed, NewCoverage, RewindAllowed, TouchesCoverage, MergedCoverage,
        HasCursor, Affected
  <2> QED
    BY <2>1, <2>2, <2>3, <2>4 DEF TxnFine
<1>10. \A q, r \in Process : UnderWay(q)' /\ UnderWay(r)' => q = r
  BY <1>7 DEF WritersInv, ExclusionInv
<1>11. CASE Starts(p)
  <2>1. /\ proc[p] = Dead /\ lock = NoProcess /\ lock' = p /\ proc'[p].kind \in Kinds
        /\ \A q \in Others(p) :
               "backfill" \in {proc'[p].kind, proc[q].kind} => proc[q] = Dead
    BY <1>2, <1>11
  <2>2. ~HasCursor => \A q \in Others(p) : ~Alive(q)
    BY <2>1, NoProcessAssumption DEF WritersInv, ExclusionInv, Others
  <2>3. (~HasCursor => \A q \in Process : Alive(q) => lock = q)'
    BY <1>2, <1>4, <2>1, <2>2 DEF Alive, Others
  <2>4. \A q, r \in Process : q # r /\ proc'[q].kind = "backfill" => ~Alive(r)'
    <3> SUFFICES ASSUME NEW q \in Process, NEW r \in Process, q # r, proc'[q].kind = "backfill"
                 PROVE  ~Alive(r)'
      OBVIOUS
    <3>1. CASE q = p
      <4>1. r \in Others(p) /\ proc[r] = Dead /\ proc'[r] = proc[r]
        BY <1>2, <2>1, <3>1 DEF Others
      <4> QED
        BY <4>1, <1>5 DEF Alive
    <3>2. CASE q # p
      <4>1. proc[q] = Dead /\ proc'[q] = proc[q]
        BY <1>2, <2>1, <3>2 DEF Others
      <4> QED
        BY <4>1, <1>5
    <3> QED
      BY <3>1, <3>2
  <2>5. ExclusionInv'
    BY <1>10, <2>3, <2>4 DEF ExclusionInv
  <2> QED
    BY <1>2, <1>4, <1>9, <2>5 DEF WritersInv
<1>12. CASE Ends(p)
  <2>1. proc'[p] = Dead /\ ~Alive(p)'
    BY <1>2, <1>5, <1>12 DEF Alive
  <2>2. \A q \in Process : Alive(q)' => Alive(q) /\ q # p /\ proc'[q] = proc[q]
    BY <1>2, <2>1 DEF Alive, Others
  <2>3. lock' = IF lock = p THEN NoProcess ELSE lock
    BY <1>12 DEF Ends, LockWithout
  <2>4. (~HasCursor => \A q \in Process : Alive(q) => lock = q)'
    BY <1>4, <2>2, <2>3 DEF WritersInv, ExclusionInv
  <2>5. \A q, r \in Process : q # r /\ proc'[q].kind = "backfill" => ~Alive(r)'
    <3> SUFFICES ASSUME NEW q \in Process, NEW r \in Process, q # r,
                        proc'[q].kind = "backfill", Alive(r)'
                 PROVE  FALSE
      OBVIOUS
    <3>1. Alive(q)'
      BY DEF Alive
    <3>2. proc'[q] = proc[q] /\ Alive(r)
      BY <2>2, <3>1
    <3> QED
      BY <3>2 DEF WritersInv, ExclusionInv
  <2>6. ExclusionInv'
    BY <1>10, <2>4, <2>5 DEF ExclusionInv
  <2> QED
    BY <1>2, <1>4, <1>9, <2>6 DEF WritersInv
<1>13. CASE LosesSession(p)
  <2>1. proc' = proc /\ HasCursor
    BY <1>2, <1>13
  <2>2. ExclusionInv'
    BY <1>4, <1>10, <2>1 DEF WritersInv, ExclusionInv, Alive
  <2> QED
    BY <1>2, <1>4, <1>9, <2>2 DEF WritersInv
<1> QED
  BY <1>11, <1>12, <1>13

(* A call, or a failed one, is not under way.                              *)
LEMMA CallStep ==
    ASSUME WritersInv, NEW p \in Process,
           CallsWriteRange(p) \/ CallsRewind(p) \/ CallsSetCoverage(p) \/ Fails(p)
    PROVE  WritersInv'
<1>1. TypesInv
  BY DEF WritersInv
<1>2. CASE Fails(p)
  BY <1>1, <1>2, FailsDoes, OneTxnStep DEF TxnFine, UnderWay, Txn, NoTxn
<1>3. CASE CallsWriteRange(p) \/ CallsRewind(p) \/ CallsSetCoverage(p)
  <2>1. /\ TypesInv' /\ OnlyTxn(p) /\ proc'[p].txn.at = "cursor" /\ CallFine(p)' /\ TxnFresh(p)'
    BY <1>1, <1>3, CallsWriteRangeDoes, CallsRewindDoes, CallsSetCoverageDoes
  <2>2. TxnFine(p)' /\ ~UnderWay(p)'
    BY <2>1 DEF TxnFine, UnderWay, Txn
  <2> QED
    BY <2>1, <2>2, OneTxnStep
<1> QED
  BY <1>2, <1>3

(* WritersInv is inductive.                                                *)
LEMMA WritersInvHolds == Faults \subseteq {"session lost"} /\ Spec => []WritersInv
<1> SUFFICES ASSUME Faults \subseteq {"session lost"}
             PROVE  Spec => []WritersInv
  OBVIOUS
<1>1. Init => WritersInv
  <2> SUFFICES ASSUME Init
               PROVE  WritersInv
    OBVIOUS
  <2>1. StoreInv /\ StoreInit
    BY StoreInitInv DEF Init
  <2>2. \A p \in Process : Txn(p) = NoTxn /\ proc[p].kind = "dead"
    BY DEF Init, Txn, Dead
  <2>3. TypesInv
    <3>1. Dead \in Processes
      BY DEF Dead, Processes
    <3> QED
      BY <2>1, <2>2, <3>1 DEF TypesInv, StoreInv, StoreInit, IsTable, Init, Alive
  <2>4. ExclusionInv
    <3>1. NoTxn.at = "none"
      BY DEF NoTxn
    <3>2. \A p \in Process : ~Alive(p) /\ ~UnderWay(p)
      BY <2>2, <3>1 DEF Alive, UnderWay
    <3>3. \A p \in Process : proc[p].kind # "backfill"
      BY <2>2
    <3> QED
      BY <3>2, <3>3 DEF ExclusionInv
  <2> QED
    BY <2>1, <2>2, <2>3, <2>4 DEF WritersInv, TxnFine
<1>2. WritersInv /\ [Next]_vars => WritersInv'
  <2> SUFFICES ASSUME WritersInv, [Next]_vars
               PROVE  WritersInv'
    OBVIOUS
  <2>1. CASE UNCHANGED vars
    <3>1. /\ blocks' = blocks /\ logs' = logs /\ cursor' = cursor /\ lock' = lock /\ proc' = proc
      BY <2>1 DEF vars, storeVars
    <3>2. TypesInv' /\ StoreInv' /\ ExclusionInv'
      BY <3>1 DEF WritersInv, TypesInv, StoreInv, ExclusionInv, StoreTypeOK, IsTable, HasCursor,
                  CoverageComplete, Covered, LogsPaired, Alive, Txn, UnderWay
    <3>3. ASSUME NEW q \in Process
          PROVE  TxnFine(q)'
      <4>1. TxnFine(q) /\ Txn(q)' = Txn(q) /\ proc'[q].kind = proc[q].kind
        BY <3>1 DEF WritersInv, Txn
      <4>2. CallFine(q) => CallFine(q)'
        BY <4>1, <3>1 DEF CallFine, LogsMatchBlocks
      <4>3. TxnFresh(q) => TxnFresh(q)'
        BY <4>1 DEF TxnFresh
      <4>4. TxnCurrent(q) => TxnCurrent(q)'
        BY <4>1, <3>1
        DEF TxnCurrent, Allowed, NewCoverage, RewindAllowed, TouchesCoverage, MergedCoverage,
            HasCursor, Affected
      <4> QED
        BY <4>1, <4>2, <4>3, <4>4 DEF TxnFine
    <3> QED
      BY <3>2, <3>3 DEF WritersInv
  <2>2. ASSUME NEW p \in Process,
               \/ Starts(p) \/ Ends(p) \/ LosesSession(p)
               \/ CallsWriteRange(p) \/ CallsRewind(p) \/ CallsSetCoverage(p) \/ LoadsRows(p)
               \/ Statement(p) \/ Fails(p)
        PROVE  WritersInv'
    BY <2>2, LifeStep, CallStep, LoadsRowsStep, ReadsCursorStep, ClearsLogsStep, ClearsBlocksStep,
       CopiesBlocksStep, CopiesLogsStep, SetsCoverageStep, CommitsStep DEF Statement
  <2> QED
    BY <2>1, <2>2 DEF Next
<1> QED
  BY <1>1, <1>2, PTL DEF Spec

(* The coverage is never ahead of the rows, and no log row is under        *)
(* another block, though the writers run statement by statement and one of *)
(* them may have lost the lock (WriteRange, Rewind, SetCoverage).          *)
THEOREM WritersSafe ==
    Faults \subseteq {"session lost"} /\ Spec => [](CoverageComplete /\ LogsPaired)
<1>1. WritersInv => CoverageComplete /\ LogsPaired
  BY DEF WritersInv, StoreInv
<1> QED
  BY <1>1, WritersInvHolds, PTL

(* A transaction of several statements changes the tables as if it were    *)
(* the one step of LogStore, on what is there when it commits: the cursor  *)
(* row, read FOR UPDATE first, keeps the writers apart (readCoverage).     *)
THEOREM WritersAtomic ==
    Faults \subseteq {"session lost"} /\ Spec => TransactionsAreAtomic
<1> DEFINE Atomic == \E p \in Process : \/ Txn(p).at = "commit" /\ InOneStep(Txn(p))
                                        \/ LoadsRows(p)
<1>1. WritersInv /\ [Next]_vars => [Atomic]_storeVars
  <2> SUFFICES ASSUME WritersInv, [Next]_vars, ~UNCHANGED storeVars
               PROVE  Atomic
    OBVIOUS
  <2>1. PICK p \in Process :
               \/ Starts(p) \/ Ends(p) \/ LosesSession(p)
               \/ CallsWriteRange(p) \/ CallsRewind(p) \/ CallsSetCoverage(p) \/ LoadsRows(p)
               \/ Statement(p) \/ Fails(p)
    BY DEF Next, vars
  <2>2. TypesInv
    BY DEF WritersInv
  <2>3. LoadsRows(p) \/ Commits(p)
    BY <2>1
    DEF Starts, Ends, LosesSession, CallsWriteRange, CallsRewind, CallsSetCoverage, Statement, Fails,
        ReadsCursor, ClearsLogs, ClearsBlocks, CopiesBlocks, CopiesLogs, SetsCoverage
  <2>4. Commits(p) => Txn(p).at = "commit" /\ InOneStep(Txn(p))
    BY CommitIsOneStep DEF Commits
  <2> QED
    BY <2>3, <2>4
<1>2. WritersInv /\ [Next]_vars => [\E p \in Process : \/ Txn(p).at = "commit" /\ InOneStep(Txn(p))
                                                       \/ LoadsRows(p)]_storeVars
  BY <1>1
<1> HIDE DEF Atomic
<1> QED
  BY <1>2, WritersInvHolds, PTL DEF Spec, TransactionsAreAtomic
=============================================================================
