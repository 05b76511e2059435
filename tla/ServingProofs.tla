--------------------------- MODULE ServingProofs ---------------------------
(***************************************************************************)
(* Proofs about module Serving: whatever is written, withdrawn or reloaded *)
(* while a request is read, its answer is the one that a node on some one  *)
(* chain gives, without the shapes that are never stored; and a range up   *)
(* to the head that a client was told is not refused as above the head.    *)
(*                                                                         *)
(* The two halves of the argument: what is stored and selected of a block  *)
(* is what a node selects of it (EventSet, LogFilter); and the covered     *)
(* blocks of a view are one chain with all their log rows (TablesFine).    *)
(***************************************************************************)
EXTENDS Serving, LogStoreProofs, FiniteSetTheorems, WellFoundedInduction

-----------------------------------------------------------------------------
(* The inductive invariant.                                                *)

\* The tables, now or in a view: the covered blocks are one chain and have their
\* log rows, except under maintenance; no log row is outside the coverage.
TablesFine(bs, ls, cov, busy) ==
    LET covered == cov.start..cov.head IN
    /\ DOMAIN bs \subseteq Nat
    /\ \A n \in DOMAIN bs : bs[n] \in Block /\ Height(bs[n]) = n
    /\ cov \in Coverage /\ covered \subseteq DOMAIN bs
    /\ cov # NoCursor => cov.start <= cov.head
    /\ \A n \in covered : bs[n] = BlockAt(bs[cov.head], n)
    /\ ls \subseteq {[n |-> n, hash |-> bs[n]] : n \in covered}
    /\ busy \in BOOLEAN
    /\ ~busy => \A n \in covered : StoredLogs(bs[n]) # {} => [n |-> n, hash |-> bs[n]] \in ls

ViewFine(view) == TablesFine(view.blocks, view.logs, view.cursor, view.maintenance)

TablesInv ==
    /\ TablesFine(blocks, logs, cursor, maintenance)
    /\ maintenance => HasCursor
    /\ client \in Nat \cup {NoHead} /\ client <= cursor.head

\* A filter that has passed the topic scope.
ScopedFilter(filter) == filter \in Filters /\ InTopicScope(DecodedTopics(filter))

\* A range that has been found in the coverage of the view.
RangeFine(r) ==
    /\ ~Unavailable(r.view)
    /\ r.from \in Nat /\ r.to \in Nat
    /\ r.view.cursor.start <= r.from /\ r.from <= r.to /\ r.to <= r.view.cursor.head
    /\ r.asked # NoHash => BlockAt(r.view.blocks[r.view.cursor.head], r.from) = r.asked

ReaderInv ==
    /\ reader.op \in {"none", "get logs", "get head", "select", "answered", "refused"}
    /\ reader.op \in {"get logs", "get head", "select"} => ViewFine(reader.view)
    /\ reader.op \in {"get logs", "select"} => ScopedFilter(reader.filter)
    /\ reader.op = "get logs" => client <= reader.view.cursor.head
    /\ reader.op = "select" => RangeFine(reader)
    /\ reader.op = "refused" => reader.to \in Nat
    /\ reader.op = "answered" /\ MaxResults > 0 => Cardinality(reader.rows) <= MaxResults

ServingInv == TablesInv /\ ReaderInv /\ AnswersOneChain /\ SplitPointHolds

-----------------------------------------------------------------------------
(* The filter.                                                             *)

(* topic0, and at most three topics more.                                  *)
LEMMA TopicsOfLog ==
    ASSUME NEW l \in Label, NEW x \in Emits[l]
    PROVE  /\ Len(TopicsOf(x)) = 1 + Len(x.args)
           /\ Len(x.args) \in Nat /\ Len(x.args) <= 3
           /\ TopicsOf(x)[1] = x.sig
<1> DEFINE args == x.args
           Topic == {x.sig} \cup STRING
<1>1. args \in Seq(STRING) /\ Len(args) \in Nat /\ Len(args) <= 3
  BY LogsAssumption
<1> HIDE DEF args
<1>2. <<x.sig>> \in Seq(Topic) /\ args \in Seq(Topic)
  BY <1>1
<1>3. Len(<<x.sig>> \o args) = 1 + Len(args) /\ (<<x.sig>> \o args)[1] = x.sig
  BY <1>2
<1> QED
  BY <1>1, <1>3 DEF TopicsOf, args

(* A log of the ingestion filter is stored unless its shape is documented  *)
(* as omitted (Keep against OmittedShapes).                                *)
LEMMA KeptOrOmitted ==
    ASSUME NEW l \in Label, NEW x \in Emits[l], IsWarehouseSignature(x.sig)
    PROVE  x.sig \in Topics /\ (Keep(x) <=> ~Omitted(x))
<1>1. Len(TopicsOf(x)) = 1 + Len(x.args) /\ Len(x.args) \in Nat /\ Len(x.args) <= 3
  BY TopicsOfLog
<1>2. x.sig \in Topics
  BY DEF IsWarehouseSignature, TopicCount, PunkSignatures, Topics
<1>3. x.sig \in DOMAIN TopicCount =>
          TopicCount[x.sig] = CASE x.sig = "URI" -> 2
                                [] x.sig \in {"MetadataUpdate", "BatchMetadataUpdate"} -> 1
                                [] OTHER -> 4
  BY DEF TopicCount
<1>4. DOMAIN TopicCount = {"Transfer", "TransferSingle", "TransferBatch", "MetadataUpdate",
                           "BatchMetadataUpdate", "URI"}
  BY DEF TopicCount
<1> DEFINE n == Len(TopicsOf(x))
<1>5. n \in Nat /\ 1 <= n /\ n <= 4
  BY <1>1
<1> HIDE DEF n
<1>6. Keep(x) <=> \/ x.sig = "Transfer" /\ x.address = CryptoPunks
                  \/ x.sig \in DOMAIN TopicCount /\ n = TopicCount[x.sig]
                  \/ x.sig \in PunkSignatures /\ x.address = CryptoPunks
  BY DEF Keep, n
<1>7. Omitted(x) <=> \/ x.sig = "Transfer" /\ n < 4 /\ x.address # CryptoPunks
                     \/ x.sig \in {"TransferSingle", "TransferBatch"} /\ n < 4
                     \/ x.sig \in {"MetadataUpdate", "BatchMetadataUpdate"} /\ n > 1
                     \/ x.sig = "URI" /\ n # 2
                     \/ x.sig \in PunkSignatures /\ x.address # CryptoPunks
  BY DEF Omitted, n
<1>8. Keep(x) <=> ~Omitted(x)
  BY <1>3, <1>4, <1>5, <1>6, <1>7 DEF IsWarehouseSignature, PunkSignatures
<1> QED
  BY <1>2, <1>8

(* The positions of a filter after decoding: none, or what is listed.      *)
LEMMA DecodedPositions ==
    ASSUME NEW filter \in Filters
    PROVE  /\ DOMAIN DecodedTopics(filter) = 1..Len(filter.topics)
           /\ Len(filter.topics) \in Nat
           /\ \A i \in 1..Len(filter.topics) :
                  /\ DecodedTopics(filter)[i] = {} <=>
                         filter.topics[i] = {} \/ NullTopic \in filter.topics[i]
                  /\ DecodedTopics(filter)[i] # {} => DecodedTopics(filter)[i] = filter.topics[i]
<1>1. DOMAIN filter.topics = 1..Len(filter.topics) /\ Len(filter.topics) \in Nat
  BY FiltersAssumption
<1> QED
  BY <1>1 DEF DecodedTopics, TopicPosition

(* Of the stored logs, the SQL selects those that a node selects for a     *)
(* filter in the topic scope, which selects no other signature.            *)
LEMMA SelectsAsNode ==
    ASSUME NEW filter, ScopedFilter(filter), NEW l \in Label, NEW x \in Emits[l]
    PROVE  x.sig \in Topics /\ Keep(x) /\ Selects(filter, x)
               <=> NodeSelects(filter, x) /\ ~Omitted(x)
<1> DEFINE topics == DecodedTopics(filter)
           tops == <<x.sig>> \o x.args
           At(i) == i <= Len(tops) /\ tops[i] \in topics[i]
<1>1. filter \in Filters
  BY DEF ScopedFilter
<1>2. /\ DOMAIN topics = 1..Len(filter.topics) /\ Len(filter.topics) \in Nat
      /\ \A i \in 1..Len(filter.topics) :
             /\ topics[i] = {} <=> filter.topics[i] = {} \/ NullTopic \in filter.topics[i]
             /\ topics[i] # {} => topics[i] = filter.topics[i]
  BY <1>1, DecodedPositions
<1>3. /\ topics # <<>> /\ topics[1] # {} /\ \A sig \in topics[1] : IsWarehouseSignature(sig)
  BY DEF ScopedFilter, InTopicScope
<1>4. 1 \in DOMAIN topics /\ topics[1] = filter.topics[1]
  <2>1. topics \in Seq(SUBSET STRING)
    <3>1. filter.topics \in Seq(SUBSET STRING)
      BY <1>1, FiltersAssumption
    <3> QED
      BY <3>1 DEF DecodedTopics, TopicPosition
  <2>2. DOMAIN topics # {}
    BY <1>3, <2>1
  <2> QED
    BY <1>2, <1>3, <2>2
<1>5. /\ Len(tops) = 1 + Len(x.args) /\ tops[1] = x.sig
      /\ Len(x.args) \in Nat /\ Len(x.args) <= 3
  BY TopicsOfLog DEF TopicsOf
<1>6. NodeSelects(filter, x) <=>
          /\ filter.addresses = {} \/ x.address \in filter.addresses
          /\ \A i \in 1..Len(filter.topics) : topics[i] = {} \/ At(i)
          /\ filter.id # NoId /\ x.sig = "TransferSingle" => x.word = filter.id
          /\ filter.id # NoId /\ x.sig = "URI" => x.args[1] = filter.id
  BY <1>2, <1>5 DEF NodeSelects
<1>7. Selects(filter, x) <=>
          /\ filter.addresses = {} \/ x.address \in filter.addresses
          /\ \A i \in 1..Len(filter.topics) :
                 \/ topics[i] = {}
                 \/ IF i = 1 /\ filter.id # NoId THEN IdArms(topics[1], filter.id, x) ELSE At(i)
  BY <1>2 DEF Selects, TopicsOf
<1>8. At(1) <=> x.sig \in topics[1]
  BY <1>5
<1> HIDE DEF topics, tops, At
<1>9. NodeSelects(filter, x) => IsWarehouseSignature(x.sig)
  BY <1>2, <1>3, <1>4, <1>6, <1>8
<1>10. Selects(filter, x) => IsWarehouseSignature(x.sig)
  BY <1>2, <1>3, <1>4, <1>7, <1>8 DEF IdArms
<1>11. CASE filter.id = NoId
  <2>1. Selects(filter, x) <=> NodeSelects(filter, x)
    BY <1>6, <1>7, <1>11
  <2> QED
    BY <2>1, <1>9, KeptOrOmitted
<1>12. CASE filter.id # NoId
  <2> SUFFICES ASSUME IsWarehouseSignature(x.sig), Keep(x)
               PROVE  Selects(filter, x) <=> NodeSelects(filter, x)
    BY <1>9, <1>10, KeptOrOmitted
  <2>1. x.sig = "URI" => x.args # <<>>
    <3>1. x.sig = "URI" => Len(TopicsOf(x)) = 2
      BY DEF Keep, TopicCount, PunkSignatures
    <3> QED
      BY <3>1, <1>5 DEF TopicsOf
  <2>2. IdArms(topics[1], filter.id, x) <=>
            /\ x.sig \in topics[1]
            /\ x.sig = "TransferSingle" => x.word = filter.id
            /\ x.sig = "URI" => x.args[1] = filter.id
    BY <2>1 DEF IdArms
  <2> QED
    BY <1>2, <1>3, <1>4, <1>6, <1>7, <1>8, <1>12, <2>2
<1> QED
  BY <1>11, <1>12

-----------------------------------------------------------------------------
(* Finite sets and least elements.                                         *)

(* Every non-empty set of numbers has a least element.                     *)
LEMMA LeastNumber ==
    ASSUME NEW S \in SUBSET Nat, S # {}
    PROVE  \E n \in S : \A m \in S : n <= m
<1>1. PICK n \in S : \A m \in S : ~(<<m, n>> \in OpToRel(<, Nat))
  BY NatLessThanWellFounded, WFMin
<1>2. ASSUME NEW m \in Nat, NEW k \in Nat
      PROVE  <<m, k>> \in OpToRel(<, Nat) <=> m < k
  BY Zenon DEF OpToRel
<1>3. ASSUME NEW m \in S
      PROVE  n <= m
  <2>1. ~(m < n) /\ m \in Nat /\ n \in Nat
    BY <1>1, <1>2
  <2> QED
    BY <2>1
<1> QED
  BY <1>3

(* The image of a finite set under a function is finite.                   *)
LEMMA FiniteImage ==
    ASSUME NEW S, IsFiniteSet(S), NEW f, DOMAIN f = S
    PROVE  IsFiniteSet({f[x] : x \in S})
<1> DEFINE T == {f[x] : x \in S}
           g == [x \in S |-> f[x]]
<1>1. g \in Surjection(S, T)
  BY DEF Surjection
<1> QED
  BY <1>1, FS_Surjection

(* So is the union of finite sets over a range of heights, by the least    *)
(* height up to which it would not be.                                     *)
LEMMA FiniteUnionOfRange ==
    ASSUME NEW to \in Nat, NEW f, DOMAIN f = 0..to, \A n \in 0..to : IsFiniteSet(f[n])
    PROVE  IsFiniteSet(UNION {f[n] : n \in 0..to})
<1> DEFINE UpTo(k) == UNION {f[n] : n \in 0..k}
           Bad == {k \in 0..to : ~IsFiniteSet(UpTo(k))}
<1> SUFFICES ASSUME Bad # {}
             PROVE  FALSE
  <2>1. to \in 0..to
    OBVIOUS
  <2>2. Bad = {} => IsFiniteSet(UpTo(to))
    BY <2>1
  <2> QED
    BY <2>2
<1>1. PICK k \in Bad : \A m \in Bad : k <= m
  <2>1. Bad \in SUBSET Nat
    OBVIOUS
  <2> HIDE DEF Bad
  <2> QED
    BY <2>1, LeastNumber
<1>2. k \in 0..to /\ ~IsFiniteSet(UpTo(k)) /\ IsFiniteSet(f[k])
  OBVIOUS
<1>3. CASE k = 0
  <2>1. UpTo(k) = f[k]
    BY <1>3
  <2> QED
    BY <1>2, <2>1
<1>4. CASE k > 0
  <2>1. k - 1 \in 0..to /\ k - 1 < k
    BY <1>2, <1>4
  <2>2. IsFiniteSet(UpTo(k - 1))
    <3>1. k - 1 \notin Bad
      <4>1. \A m \in Bad : k <= m
        BY <1>1
      <4> HIDE DEF Bad
      <4> QED
        BY <1>2, <2>1, <4>1
    <3> HIDE DEF UpTo
    <3> QED
      BY <2>1, <3>1
  <2>3. 0..k = 0..(k - 1) \cup {k}
    BY <1>2, <1>4
  <2>4. UpTo(k) = UpTo(k - 1) \cup f[k]
    BY <2>3
  <2> HIDE DEF UpTo
  <2> QED
    BY <1>2, <2>2, <2>4, FS_Union
<1> QED
  BY <1>2, <1>3, <1>4

(* What LIMIT leaves of the rows is either all of them or more than        *)
(* MaxResults: an answer is never cut off silently.                        *)
LEMMA LimitCutsNothing ==
    ASSUME NEW rows, IsFiniteSet(rows),
           \A r \in rows : r.n \in Nat /\ r.log.index \in Nat
    PROVE  /\ IsFiniteSet(RowsRead(rows))
           /\ ~TooManyResults(RowsRead(rows)) => RowsRead(rows) = rows
<1> DEFINE k == MaxResults + 1
           first == FirstRows(rows, k)
           Earlier(s) == {r \in rows : Before(r, s)}
<1>1. first \in SUBSET rows /\ IsFiniteSet(first)
  <2>1. first \in SUBSET rows
    BY DEF FirstRows
  <2> QED
    BY <2>1, FS_Subset
<1>2. CASE MaxResults = 0
  BY <1>2 DEF RowsRead, TooManyResults
<1>3. CASE MaxResults > 0
  <2>1. RowsRead(rows) = first
    BY <1>3 DEF RowsRead
  <2> SUFFICES ASSUME first # rows
               PROVE  Cardinality(first) > MaxResults
    BY <1>1, <1>3, <2>1 DEF TooManyResults
  <2> DEFINE rest == rows \ first
  <2>2. rest # {}
    BY <1>1
  <2>3. PICK s \in rest : Earlier(s) \subseteq first
    <3> DEFINE heights == {r.n : r \in rest}
    <3>1. heights \in SUBSET Nat /\ heights # {}
      BY <2>2
    <3> HIDE DEF heights
    <3>2. PICK n \in heights : \A m \in heights : n <= m
      BY <3>1, LeastNumber
    <3> DEFINE indexes == {r.log.index : r \in {x \in rest : x.n = n}}
    <3>3. indexes \in SUBSET Nat /\ indexes # {}
      BY <3>2 DEF heights
    <3> HIDE DEF indexes
    <3>4. PICK i \in indexes : \A j \in indexes : i <= j
      BY <3>3, LeastNumber
    <3>5. PICK s \in rest : s.n = n /\ s.log.index = i
      BY <3>4 DEF indexes
    <3>6. ASSUME NEW r \in rest, Before(r, s)
          PROVE  FALSE
      <4>1. r.n \in heights /\ (r.n = n => r.log.index \in indexes)
        BY DEF heights, indexes
      <4>2. r.n \in Nat /\ r.log.index \in Nat /\ n \in Nat /\ i \in Nat
        BY <3>1, <3>3
      <4>3. n <= r.n /\ (r.n = n => i <= r.log.index)
        BY <3>2, <3>4, <4>1
      <4> QED
        BY <3>5, <3>6, <4>2, <4>3 DEF Before
    <3> QED
      BY <3>6
  <2>4. IsFiniteSet(Earlier(s)) /\ Cardinality(Earlier(s)) \in Nat
    <3>1. Earlier(s) \in SUBSET rows
      OBVIOUS
    <3> QED
      BY <3>1, FS_Subset, FS_CardinalityType
  <2>5. ~(Cardinality(Earlier(s)) < k)
    BY <2>3 DEF FirstRows
  <2>6. Cardinality(Earlier(s)) <= Cardinality(first) /\ Cardinality(first) \in Nat
    BY <1>1, <2>3, FS_Subset, FS_CardinalityType
  <2>7. MaxResults \in Nat
    BY ServingAssumption
  <2> HIDE DEF first, Earlier
  <2> QED
    BY <2>4, <2>5, <2>6, <2>7
<1>4. MaxResults \in Nat
  BY ServingAssumption
<1> QED
  BY <1>2, <1>3, <1>4

-----------------------------------------------------------------------------
(* The rows that the SQL selects.                                          *)

(* The label of a block is a label, whose logs are well-formed.            *)
LEMMA EmittedByLabel ==
    ASSUME NEW b \in Block
    PROVE  \E l \in Label : Emitted(b) = Emits[l]
<1>1. b \in Seq(Label) /\ Len(b) \in Nat \ {0}
  BY BlockIsPath
<1>2. b[Len(b)] \in Label
  BY <1>1
<1> QED
  BY <1>2 DEF Emitted

(* Of one block: the stored and selected logs are those of a node.         *)
LEMMA SelectedOfBlock ==
    ASSUME NEW b \in Block, NEW filter, ScopedFilter(filter)
    PROVE  {x \in StoredLogs(b) : Selects(filter, x)}
               = {x \in Emitted(b) : NodeSelects(filter, x) /\ ~Omitted(x)}
<1>1. PICK l \in Label : Emitted(b) = Emits[l]
  BY EmittedByLabel
<1>2. \A x \in Emitted(b) : x.sig \in Topics /\ Keep(x) /\ Selects(filter, x)
                                 <=> NodeSelects(filter, x) /\ ~Omitted(x)
  BY <1>1, SelectsAsNode
<1> QED
  BY <1>2 DEF StoredLogs

\* The rows that a node on the chain that ends in c has at height n.
RowsAt(c, filter, n) ==
    {[n |-> n, hash |-> BlockAt(c, n), log |-> l] :
         l \in {x \in Emitted(BlockAt(c, n)) : NodeSelects(filter, x) /\ ~Omitted(x)}}

(* In the coverage of a view that is not under maintenance, the selected   *)
(* rows are those of a node on the chain that the coverage ends in.        *)
LEMMA SelectedIsNodes ==
    ASSUME NEW view, ViewFine(view), ~view.maintenance, NEW filter, ScopedFilter(filter),
           NEW from \in Nat, NEW to \in Nat, from <= to,
           view.cursor.start <= from, to <= view.cursor.head
    PROVE  SelectedRows(view, filter, from, to)
               = NodeAnswer(view.blocks[view.cursor.head], filter, from, to)
<1> DEFINE bs == view.blocks
           ls == view.logs
           cov == view.cursor
           c == bs[cov.head]
           OfBlock(b) == {x \in StoredLogs(b) : Selects(filter, x)}
           Row(n, l) == [n |-> n, hash |-> BlockAt(c, n), log |-> l]
           read == {r \in ls : r.n \in from..to \cap DOMAIN bs}
<1>1. cov.start \in Nat /\ cov.head \in Nat /\ from..to \subseteq cov.start..cov.head
  BY DEF ViewFine, TablesFine, Coverage
<1>2. \A n \in from..to :
          /\ n \in DOMAIN bs /\ bs[n] \in Block /\ bs[n] = BlockAt(c, n)
          /\ StoredLogs(bs[n]) # {} => [n |-> n, hash |-> bs[n]] \in ls
  BY <1>1 DEF ViewFine, TablesFine
<1>3. ASSUME NEW r \in read
      PROVE  r.n \in from..to /\ r.n \in DOMAIN bs /\ r.hash = bs[r.n] /\ bs[r.n] = BlockAt(c, r.n)
  <2>1. r.n \in from..to /\ r \in ls
    OBVIOUS
  <2>2. r.hash = bs[r.n]
    BY <2>1 DEF ViewFine, TablesFine
  <2> QED
    BY <1>2, <2>1, <2>2
<1>4. \A n \in from..to :
          OfBlock(bs[n]) = {x \in Emitted(BlockAt(c, n)) : NodeSelects(filter, x) /\ ~Omitted(x)}
  BY <1>2, SelectedOfBlock
<1>5. NodeAnswer(c, filter, from, to) = UNION {{Row(n, l) : l \in OfBlock(bs[n])} : n \in from..to}
  BY <1>4 DEF NodeAnswer
<1>6. SelectedRows(view, filter, from, to)
          = UNION {{[n |-> r.n, hash |-> bs[r.n], log |-> l] : l \in OfBlock(r.hash)} : r \in read}
  BY DEF SelectedRows
<1>7. ASSUME NEW r \in read, NEW l \in OfBlock(r.hash)
      PROVE  /\ [n |-> r.n, hash |-> bs[r.n], log |-> l] = Row(r.n, l)
             /\ r.n \in from..to /\ l \in OfBlock(bs[r.n])
  BY <1>3
<1>8. ASSUME NEW n \in from..to, NEW l \in OfBlock(bs[n])
      PROVE  \E r \in read : /\ l \in OfBlock(r.hash)
                             /\ [n |-> r.n, hash |-> bs[r.n], log |-> l] = Row(n, l)
  <2>1. [n |-> n, hash |-> bs[n]] \in ls /\ n \in DOMAIN bs /\ bs[n] = BlockAt(c, n)
    BY <1>2
  <2> DEFINE r == [n |-> n, hash |-> bs[n]]
  <2>2. r \in read /\ r.n = n /\ r.hash = bs[n]
    BY <2>1
  <2> QED
    BY <2>1, <2>2
<1> HIDE DEF OfBlock, Row, read, bs, ls, c
<1> QED
  BY <1>5, <1>6, <1>7, <1>8 DEF bs, c

(* A node's answer is a finite set of rows, in a place each.               *)
LEMMA NodeAnswerFinite ==
    ASSUME NEW c \in Block, NEW filter, NEW from \in Nat, NEW to \in Nat, to <= Height(c)
    PROVE  /\ IsFiniteSet(NodeAnswer(c, filter, from, to))
           /\ \A r \in NodeAnswer(c, filter, from, to) : r.n \in Nat /\ r.log.index \in Nat
<1> DEFINE f == [n \in 0..to |-> RowsAt(c, filter, n)]
<1>1. ASSUME NEW n \in 0..to
      PROVE  \E l \in Label : Emitted(BlockAt(c, n)) = Emits[l]
  <2>1. n \in Nat /\ n <= Height(c)
    BY BlockIsPath
  <2> QED
    BY <2>1, BlockAtIsBlock, EmittedByLabel
<1>2. ASSUME NEW n \in 0..to
      PROVE  IsFiniteSet(RowsAt(c, filter, n))
  <2> DEFINE S == {x \in Emitted(BlockAt(c, n)) : NodeSelects(filter, x) /\ ~Omitted(x)}
             g == [x \in S |-> [n |-> n, hash |-> BlockAt(c, n), log |-> x]]
  <2>1. IsFiniteSet(S)
    <3>1. IsFiniteSet(Emitted(BlockAt(c, n)))
      BY <1>1, LogsAssumption
    <3>2. S \in SUBSET Emitted(BlockAt(c, n))
      OBVIOUS
    <3> QED
      BY <3>1, <3>2, FS_Subset
  <2>2. IsFiniteSet({g[x] : x \in S})
    BY <2>1, FiniteImage
  <2>3. RowsAt(c, filter, n) = {g[x] : x \in S}
    BY DEF RowsAt
  <2> QED
    BY <2>2, <2>3
<1>3. IsFiniteSet(UNION {f[n] : n \in 0..to})
  <2>1. DOMAIN f = 0..to /\ \A n \in 0..to : IsFiniteSet(f[n])
    BY <1>2
  <2> HIDE DEF f
  <2> QED
    BY <2>1, FiniteUnionOfRange
<1>4. NodeAnswer(c, filter, from, to) = UNION {RowsAt(c, filter, n) : n \in from..to}
  BY DEF NodeAnswer, RowsAt
<1>5. NodeAnswer(c, filter, from, to) \in SUBSET UNION {f[n] : n \in 0..to}
  <2>1. \A n \in from..to : n \in 0..to /\ f[n] = RowsAt(c, filter, n)
    OBVIOUS
  <2> HIDE DEF f
  <2> QED
    BY <1>4, <2>1
<1>6. IsFiniteSet(NodeAnswer(c, filter, from, to))
  BY <1>3, <1>5, FS_Subset
<1>7. ASSUME NEW r \in NodeAnswer(c, filter, from, to)
      PROVE  r.n \in Nat /\ r.log.index \in Nat
  <2>1. PICK n \in from..to : r \in RowsAt(c, filter, n)
    BY <1>4
  <2>2. PICK x \in Emitted(BlockAt(c, n)) : r = [n |-> n, hash |-> BlockAt(c, n), log |-> x]
    BY <2>1 DEF RowsAt
  <2>3. n \in 0..to
    OBVIOUS
  <2>4. x.index \in Nat
    BY <1>1, <2>3, LogsAssumption
  <2> QED
    BY <2>2, <2>3, <2>4
<1> QED
  BY <1>6, <1>7

-----------------------------------------------------------------------------
(* The tables under their writers.                                         *)

(* The chain of a block on a chain is part of that chain.                  *)
LEMMA ChainOfBlockAt ==
    ASSUME NEW c \in Block, NEW h \in Nat, h <= Height(c), NEW n \in Nat, n <= h
    PROVE  BlockAt(BlockAt(c, h), n) = BlockAt(c, n)
<1>1. c \in Seq(Label) /\ Len(c) \in Nat /\ h + 1 <= Len(c)
  BY BlockIsPath DEF Height
<1> QED
  BY <1>1 DEF BlockAt

(* A block is the head of its own chain.                                   *)
LEMMA HeadOfChain ==
    ASSUME NEW c \in Block
    PROVE  Height(c) \in Nat /\ BlockAt(c, Height(c)) = c
<1>1. c \in Seq(Label) /\ Len(c) \in Nat \ {0}
  BY BlockIsPath
<1> QED
  BY <1>1 DEF BlockAt, Height

(* What the invariant says of the tables, in the names of LogStore.        *)
LEMMA TablesFacts ==
    ASSUME TablesInv
    PROVE  /\ DOMAIN blocks \subseteq Nat
           /\ \A n \in DOMAIN blocks : blocks[n] \in Block /\ Height(blocks[n]) = n
           /\ cursor.start \in Nat /\ cursor.head \in Nat
           /\ cursor = [start |-> cursor.start, head |-> cursor.head]
           /\ Covered \subseteq DOMAIN blocks
           /\ HasCursor => cursor.start <= cursor.head
           /\ ~HasCursor => cursor.start = 1 /\ cursor.head = 0 /\ Covered = {} /\ logs = {}
           /\ \A n \in Covered : blocks[n] = BlockAt(blocks[cursor.head], n)
           /\ logs \subseteq {[n |-> n, hash |-> blocks[n]] : n \in Covered}
           /\ ~maintenance => \A n \in Covered :
                                 StoredLogs(blocks[n]) # {} => [n |-> n, hash |-> blocks[n]] \in logs
           /\ client \in Nat \cup {NoHead} /\ client <= cursor.head
           /\ maintenance => HasCursor
<1>1. TablesFine(blocks, logs, cursor, maintenance)
  BY DEF TablesInv
<1>2. /\ cursor.start \in Nat /\ cursor.head \in Nat
      /\ cursor = [start |-> cursor.start, head |-> cursor.head]
  BY <1>1 DEF TablesFine, Coverage
<1>3. ~HasCursor => cursor.start = 1 /\ cursor.head = 0
  BY DEF HasCursor, NoCursor
<1>4. ~HasCursor => Covered = {}
  BY <1>3 DEF Covered
<1>5. logs \subseteq {[n |-> n, hash |-> blocks[n]] : n \in Covered}
  BY <1>1 DEF TablesFine, Covered
<1>6. ~HasCursor => logs = {}
  BY <1>4, <1>5
<1> QED
  BY <1>1, <1>2, <1>3, <1>4, <1>5, <1>6 DEF TablesFine, TablesInv, HasCursor, Covered

\* From start to head the tables have the chain of block c, with all its log rows.
ChainRows(bs, ls, start, head, c) ==
    /\ start \in Nat /\ head \in Nat /\ start <= head /\ c \in Block /\ Height(c) = head
    /\ DOMAIN bs \subseteq Nat /\ start..head \subseteq DOMAIN bs
    /\ \A n \in DOMAIN bs : bs[n] \in Block /\ Height(bs[n]) = n
    /\ \A n \in start..head : bs[n] = BlockAt(c, n)
    /\ ls \subseteq {[n |-> n, hash |-> bs[n]] : n \in start..head}
    /\ \A n \in start..head : StoredLogs(bs[n]) # {} => [n |-> n, hash |-> bs[n]] \in ls

(* TailWrites and Withdraws reach a coverage of such rows.                 *)
LEMMA TablesFromChain ==
    ASSUME NEW bs, NEW ls, NEW start, NEW head, NEW c, ChainRows(bs, ls, start, head, c)
    PROVE  /\ TablesFine(bs, ls, [start |-> start, head |-> head], FALSE)
           /\ [start |-> start, head |-> head] # NoCursor
<1> USE DEF ChainRows
<1> DEFINE cov == [start |-> start, head |-> head]
<1>1. cov.start = start /\ cov.head = head /\ cov \in Coverage
  BY DEF Coverage
<1>2. bs[head] = c
  BY HeadOfChain
<1>3. cov # NoCursor
  BY DEF NoCursor
<1> HIDE DEF cov
<1>4. TablesFine(bs, ls, cov, FALSE)
  BY <1>1, <1>2 DEF TablesFine
<1> QED
  BY <1>3, <1>4 DEF cov

(* The tail's batch continues the chain that the coverage ends in.         *)
LEMMA TailWritesStep ==
    ASSUME TablesInv, TailWrites
    PROVE  TablesInv' /\ reader' = reader /\ client' = client
<1>1. PICK b \in Block, k \in 1..MaxTailBatch :
          LET to == Height(b)
              from == to - k + 1 IN
          /\ from >= 0
          /\ HasCursor => from = cursor.head + 1 /\ BlockAt(b, cursor.head) = blocks[cursor.head]
          /\ WriteRange(from, to, [n \in from..to |-> BlockAt(b, n)],
                        {[n |-> n, hash |-> BlockAt(b, n)] :
                             n \in {h \in from..to : StoredLogs(BlockAt(b, h)) # {}}})
  BY DEF TailWrites
<1> DEFINE to == Height(b)
           from == to - k + 1
           new == {[n |-> n, hash |-> BlockAt(b, n)] :
                       n \in {h \in from..to : StoredLogs(BlockAt(b, h)) # {}}}
           start == IF HasCursor THEN cursor.start ELSE from
<1>2. /\ to \in Nat /\ from \in Nat /\ from <= to
      /\ HasCursor => from = cursor.head + 1 /\ BlockAt(b, cursor.head) = blocks[cursor.head]
  <2>1. to \in Nat /\ k \in Nat /\ k >= 1
    BY BlockIsPath, ServingAssumption
  <2> QED
    BY <1>1, <2>1
<1>3. /\ blocks' = [n \in DOMAIN blocks \cup from..to |->
                        IF n \in from..to THEN [m \in from..to |-> BlockAt(b, m)][n] ELSE blocks[n]]
      /\ logs' = {l \in logs : l.n \notin from..to} \cup new
      /\ cursor' = MergedCoverage(from, to)
      /\ maintenance = FALSE /\ maintenance' = FALSE /\ reader' = reader /\ client' = client
  <2>1. ~maintenance /\ maintenance' = maintenance /\ reader' = reader /\ client' = client
    BY DEF TailWrites
  <2>2. maintenance \in BOOLEAN
    BY DEF TablesInv, TablesFine
  <2> QED
    BY <1>1, <2>1, <2>2 DEF WriteRange
<1> HIDE DEF to, from, new
<1>4. /\ DOMAIN blocks' = DOMAIN blocks \cup from..to
      /\ \A n \in from..to : blocks'[n] = BlockAt(b, n)
      /\ \A n \in DOMAIN blocks \ (from..to) : blocks'[n] = blocks[n]
  BY <1>3
<1>5. /\ start \in Nat /\ start <= to /\ cursor' = [start |-> start, head |-> to]
      /\ cursor.head <= to /\ start..to = Covered \cup from..to
      /\ \A n \in Covered : n < from
  <2>1. CASE HasCursor
    BY <1>2, <1>3, <2>1, TablesFacts DEF MergedCoverage, Lesser, Greater, Covered
  <2>2. CASE ~HasCursor
    BY <1>2, <1>3, <2>2, TablesFacts DEF MergedCoverage
  <2> QED
    BY <2>1, <2>2
<1> HIDE DEF start
<1>6. \A n \in from..to : BlockAt(b, n) \in Block /\ Height(BlockAt(b, n)) = n
  BY <1>2, BlockAtIsBlock DEF to
<1>7. ASSUME NEW n \in Covered
      PROVE  n \in DOMAIN blocks' /\ blocks'[n] = blocks[n] /\ blocks[n] = BlockAt(b, n)
  <2>1. n \in DOMAIN blocks /\ n \notin from..to /\ n \in Nat /\ HasCursor
    BY <1>2, <1>5, TablesFacts
  <2>2. n <= cursor.head /\ cursor.head <= Height(b) /\ cursor.head \in Nat
    BY <1>2, <1>5, <2>1, TablesFacts DEF Covered, to
  <2>3. BlockAt(BlockAt(b, cursor.head), n) = BlockAt(b, n)
    BY <2>1, <2>2, ChainOfBlockAt
  <2>4. blocks[n] = BlockAt(blocks[cursor.head], n)
    BY TablesFacts
  <2> QED
    BY <1>2, <1>4, <2>1, <2>3, <2>4
<1>8. \A n \in start..to : blocks'[n] = BlockAt(b, n) /\ n \in DOMAIN blocks'
  BY <1>4, <1>5, <1>7
<1>9. /\ DOMAIN blocks' \subseteq Nat
      /\ \A n \in DOMAIN blocks' : blocks'[n] \in Block /\ Height(blocks'[n]) = n
  BY <1>2, <1>4, <1>6, TablesFacts
<1>10. ASSUME NEW l \in logs'
       PROVE  l \in {[n |-> n, hash |-> blocks'[n]] : n \in start..to}
  <2>1. CASE l \in new
    BY <1>4, <1>5, <2>1 DEF new
  <2>2. CASE l \in logs
    <3>1. PICK n \in Covered : l = [n |-> n, hash |-> blocks[n]]
      BY <2>2, TablesFacts
    <3> QED
      BY <1>5, <1>7, <3>1
  <2> QED
    BY <1>3, <2>1, <2>2
<1>11. ASSUME NEW n \in start..to, StoredLogs(blocks'[n]) # {}
       PROVE  [n |-> n, hash |-> blocks'[n]] \in logs'
  <2>1. CASE n \in from..to
    BY <1>3, <1>4, <1>11, <2>1 DEF new
  <2>2. CASE n \in Covered
    <3>1. blocks'[n] = blocks[n] /\ n \notin from..to
      BY <1>2, <1>5, <1>7, <2>2
    <3>2. ~maintenance /\ StoredLogs(blocks[n]) # {}
      BY <1>3, <1>11, <3>1
    <3>3. [n |-> n, hash |-> blocks[n]] \in logs
      BY <2>2, <3>2, TablesFacts
    <3> QED
      BY <1>3, <3>1, <3>3
  <2> QED
    BY <1>5, <2>1, <2>2
<1>12. TablesFine(blocks', logs', cursor', FALSE) /\ HasCursor'
  <2> DEFINE bs == blocks'
             ls == logs'
  <2>1. Height(b) = to /\ start \in Nat /\ to \in Nat /\ start <= to
    BY <1>2, <1>5 DEF to
  <2>2. /\ DOMAIN bs \subseteq Nat /\ start..to \subseteq DOMAIN bs
        /\ \A n \in DOMAIN bs : bs[n] \in Block /\ Height(bs[n]) = n
        /\ \A n \in start..to : bs[n] = BlockAt(b, n)
    BY <1>8, <1>9
  <2>3. ls \subseteq {[n |-> n, hash |-> bs[n]] : n \in start..to}
    BY <1>10
  <2>4. \A n \in start..to : StoredLogs(bs[n]) # {} => [n |-> n, hash |-> bs[n]] \in ls
    BY <1>11
  <2> HIDE DEF bs, ls
  <2>5. /\ TablesFine(bs, ls, [start |-> start, head |-> to], FALSE)
        /\ [start |-> start, head |-> to] # NoCursor
    <3>1. ChainRows(bs, ls, start, to, b)
      BY <2>1, <2>2, <2>3, <2>4 DEF ChainRows
    <3> QED
      BY <3>1, TablesFromChain
  <2> QED
    BY <1>5, <2>5 DEF bs, ls, HasCursor
<1>13. client' \in Nat \cup {NoHead} /\ client' <= cursor'.head
  BY <1>2, <1>3, <1>5, TablesFacts DEF NoHead
<1> QED
  BY <1>3, <1>12, <1>13 DEF TablesInv

(* What is left of a chain is a chain.                                     *)
LEMMA WithdrawsStep ==
    ASSUME TablesInv, Withdraws
    PROVE  TablesInv' /\ reader' = reader /\ client' <= client
<1>1. PICK to \in Heights : /\ Rewind(to)
                           /\ client' = IF client > to THEN NoHead ELSE client
  BY DEF Withdraws
<1>2. to \in Nat
  BY HeightsAreNat
<1>3. /\ HasCursor /\ cursor.head > to /\ to >= cursor.start
      /\ logs' = {l \in logs : l.n <= to}
      /\ blocks' = [n \in {m \in DOMAIN blocks : m <= to} |-> blocks[n]]
      /\ cursor' = [start |-> cursor.start, head |-> to]
  BY <1>1 DEF Rewind, RewindAllowed
<1>4. maintenance = FALSE /\ maintenance' = FALSE /\ reader' = reader
  <2>1. maintenance \in BOOLEAN
    BY DEF TablesInv, TablesFine
  <2> QED
    BY <2>1 DEF Withdraws
<1>5. /\ DOMAIN blocks' = {m \in DOMAIN blocks : m <= to}
      /\ \A n \in DOMAIN blocks' : blocks'[n] = blocks[n]
  BY <1>3
<1>6. cursor.start..to \subseteq Covered /\ to \in Covered /\ cursor.head \in Covered
  BY <1>2, <1>3, TablesFacts DEF Covered
<1>7. cursor.start..to \subseteq DOMAIN blocks'
  BY <1>2, <1>5, <1>6, TablesFacts
<1> DEFINE top == blocks[cursor.head]
<1>8. /\ top \in Block /\ Height(top) = cursor.head /\ cursor.head \in Nat
      /\ blocks[to] = BlockAt(top, to) /\ blocks[to] \in Block /\ Height(blocks[to]) = to
  BY <1>6, TablesFacts
<1> HIDE DEF top
<1>9. ASSUME NEW n \in cursor.start..to
      PROVE  blocks'[n] = BlockAt(blocks[to], n)
  <2>1. n \in Nat /\ n <= to /\ to <= Height(top)
    BY <1>2, <1>3, <1>8, TablesFacts
  <2>2. blocks'[n] = BlockAt(top, n)
    BY <1>5, <1>6, <1>7, TablesFacts DEF top
  <2> QED
    BY <1>2, <1>8, <2>1, <2>2, ChainOfBlockAt
<1>10. ASSUME NEW l \in logs'
       PROVE  l \in {[n |-> n, hash |-> blocks'[n]] : n \in cursor.start..to}
  <2>1. l \in logs /\ l.n <= to
    BY <1>3
  <2>2. PICK n \in Covered : l = [n |-> n, hash |-> blocks[n]]
    BY <2>1, TablesFacts
  <2>3. n \in cursor.start..to
    BY <1>2, <2>1, <2>2, TablesFacts DEF Covered
  <2> QED
    BY <1>5, <1>7, <2>2, <2>3
<1>11. ASSUME NEW n \in cursor.start..to, StoredLogs(blocks'[n]) # {}
       PROVE  [n |-> n, hash |-> blocks'[n]] \in logs'
  <2>1. n <= to /\ n \in Covered /\ blocks'[n] = blocks[n]
    BY <1>2, <1>5, <1>6, <1>7, TablesFacts
  <2>2. [n |-> n, hash |-> blocks[n]] \in logs
    BY <1>4, <1>11, <2>1, TablesFacts
  <2> QED
    BY <1>3, <2>1, <2>2
<1>12. /\ DOMAIN blocks' \subseteq Nat
       /\ \A n \in DOMAIN blocks' : blocks'[n] \in Block /\ Height(blocks'[n]) = n
  BY <1>5, TablesFacts
<1>13. TablesFine(blocks', logs', cursor', FALSE) /\ HasCursor'
  <2> DEFINE bs == blocks'
             ls == logs'
             start == cursor.start
             c == blocks[to]
  <2>1. start \in Nat /\ to \in Nat /\ start <= to /\ c \in Block /\ Height(c) = to
    BY <1>2, <1>3, <1>8, TablesFacts
  <2>2. /\ DOMAIN bs \subseteq Nat /\ start..to \subseteq DOMAIN bs
        /\ \A n \in DOMAIN bs : bs[n] \in Block /\ Height(bs[n]) = n
        /\ \A n \in start..to : bs[n] = BlockAt(c, n)
    BY <1>7, <1>9, <1>12
  <2>3. ls \subseteq {[n |-> n, hash |-> bs[n]] : n \in start..to}
    BY <1>10
  <2>4. \A n \in start..to : StoredLogs(bs[n]) # {} => [n |-> n, hash |-> bs[n]] \in ls
    BY <1>11
  <2>5. cursor' = [start |-> start, head |-> to]
    BY <1>3
  <2> HIDE DEF bs, ls, start, c
  <2>6. /\ TablesFine(bs, ls, [start |-> start, head |-> to], FALSE)
        /\ [start |-> start, head |-> to] # NoCursor
    <3>1. ChainRows(bs, ls, start, to, c)
      BY <2>1, <2>2, <2>3, <2>4 DEF ChainRows
    <3> QED
      BY <3>1, TablesFromChain
  <2> QED
    BY <2>5, <2>6 DEF bs, ls, HasCursor
<1>14. client' \in Nat \cup {NoHead} /\ client' <= cursor'.head /\ client' <= client
  BY <1>1, <1>2, <1>3, TablesFacts DEF NoHead
<1> QED
  BY <1>4, <1>13, <1>14 DEF TablesInv

(* Rows are left over only while there is no coverage.                     *)
LEMMA LeavesRowsStep ==
    ASSUME TablesInv, LeavesRows
    PROVE  TablesInv' /\ reader' = reader /\ client' = client
<1>1. PICK b \in Block : blocks' = [n \in 0..Height(b) |-> BlockAt(b, n)]
  BY DEF LeavesRows
<1>2. ~HasCursor /\ UNCHANGED <<logs, cursor, maintenance, reader, client>>
  BY DEF LeavesRows
<1>3. /\ DOMAIN blocks' \subseteq Nat
      /\ \A n \in DOMAIN blocks' : blocks'[n] \in Block /\ Height(blocks'[n]) = n
  BY <1>1, BlockIsPath, BlockAtIsBlock
<1>4. TablesFine(blocks', logs, cursor, maintenance)
  <2>1. cursor.start..cursor.head = {} /\ logs = {} /\ cursor \in Coverage /\ cursor = NoCursor
        /\ maintenance \in BOOLEAN
    BY <1>2, TablesFacts DEF Covered, TablesInv, TablesFine, HasCursor
  <2> QED
    BY <1>3, <2>1 DEF TablesFine
<1> QED
  BY <1>2, <1>4 DEF TablesInv, HasCursor

(* A reload takes the log rows of the coverage away, and brings them back. *)
LEMMA ReloadStep ==
    ASSUME TablesInv, ReloadBegins \/ ReloadEnds
    PROVE  TablesInv' /\ reader' = reader /\ client' = client
<1>1. /\ blocks' = blocks /\ cursor' = cursor /\ reader' = reader /\ client' = client
      /\ HasCursor /\ HasCursor'
  BY TablesFacts DEF ReloadBegins, ReloadEnds, HasCursor
<1>2. CASE ReloadBegins
  <2>1. maintenance' = TRUE /\ logs' \subseteq logs
    BY <1>2 DEF ReloadBegins
  <2>2. TablesFine(blocks, logs', cursor, TRUE)
    BY <2>1 DEF TablesInv, TablesFine
  <2> QED
    BY <1>1, <2>1, <2>2 DEF TablesInv
<1>3. CASE ReloadEnds
  <2> DEFINE back == {[n |-> n, hash |-> blocks[n]] : n \in {k \in Covered : StoredLogs(blocks[k]) # {}}}
  <2>1. maintenance' = FALSE /\ logs' = logs \cup back
    BY <1>3 DEF ReloadEnds
  <2>2. logs' \subseteq {[n |-> n, hash |-> blocks[n]] : n \in cursor.start..cursor.head}
    BY <2>1, TablesFacts DEF Covered
  <2>3. \A n \in cursor.start..cursor.head :
            StoredLogs(blocks[n]) # {} => [n |-> n, hash |-> blocks[n]] \in logs'
    BY <2>1 DEF Covered
  <2>4. TablesFine(blocks, logs', cursor, FALSE)
    BY <2>2, <2>3 DEF TablesInv, TablesFine
  <2> QED
    BY <1>1, <2>1, <2>4 DEF TablesInv
<1> QED
  BY <1>2, <1>3

(* No writer changes a view that is being read, and none raises the head   *)
(* that the client was told.                                               *)
LEMMA WritersStep ==
    ASSUME ServingInv, Writers
    PROVE  ServingInv'
<1>1. TablesInv
  BY DEF ServingInv
<1>2. TablesInv' /\ reader' = reader /\ client' <= client
  <2>1. client \in Int
    BY <1>1, TablesFacts DEF NoHead
  <2> QED
    BY <1>1, <2>1, TailWritesStep, WithdrawsStep, LeavesRowsStep, ReloadStep DEF Writers
<1>3. client \in Int /\ client' \in Int
  BY <1>1, <1>2, TablesFacts DEF TablesInv, NoHead
<1>4. ASSUME reader.op = "get logs"
      PROVE  client' <= reader.view.cursor.head
  <2>1. reader.view.cursor \in Coverage /\ client <= reader.view.cursor.head
    BY <1>4 DEF ServingInv, ReaderInv, ViewFine, TablesFine
  <2>2. reader.view.cursor.head \in Nat
    BY <2>1 DEF Coverage
  <2> QED
    BY <1>2, <1>3, <2>1, <2>2
<1>5. ASSUME reader.op = "refused", reader.why = "above head"
      PROVE  reader.to > client'
  <2>1. reader.to > client
    BY <1>5 DEF ServingInv, SplitPointHolds
  <2>2. reader.to \in Nat
    BY <1>5 DEF ServingInv, ReaderInv
  <2> QED
    BY <1>2, <1>3, <2>1, <2>2
<1>6. ReaderInv'
  BY <1>2, <1>4 DEF ServingInv, ReaderInv, ViewFine, RangeFine, Unavailable
<1>7. AnswersOneChain'
  BY <1>2 DEF ServingInv, AnswersOneChain
<1>8. SplitPointHolds'
  BY <1>2, <1>5 DEF SplitPointHolds
<1> QED
  BY <1>2, <1>6, <1>7, <1>8 DEF ServingInv

-----------------------------------------------------------------------------
(* A request.                                                              *)

(* No request changes the tables, and only BlockNumber the client's head.  *)
LEMMA TablesKept ==
    ASSUME TablesInv, UNCHANGED tables, client' = client
    PROVE  TablesInv'
  BY DEF TablesInv, tables, storeVars, HasCursor

(* A request that is over, or refused for anything but the head.           *)
LEMMA ReaderDone ==
    ASSUME \/ reader' = NoReader
           \/ \E why \in {"filter", "unavailable", "unknown block", "outside coverage",
                         "bad request", "below start", "too many results"}, to \in Nat :
                  reader' = Refusal(why, to)
    PROVE  ReaderInv' /\ AnswersOneChain' /\ SplitPointHolds'
<1>1. \/ reader'.op = "none"
      \/ reader'.op = "refused" /\ reader'.why # "above head" /\ reader'.to \in Nat
  <2>1. CASE reader' = NoReader
    BY <2>1 DEF NoReader
  <2>2. ASSUME NEW why \in {"filter", "unavailable", "unknown block", "outside coverage",
                           "bad request", "below start", "too many results"},
               NEW to \in Nat, reader' = Refusal(why, to)
        PROVE  reader'.op = "refused" /\ reader'.why # "above head" /\ reader'.to \in Nat
    BY <2>2 DEF Refusal
  <2> QED
    BY <2>1, <2>2
<1> QED
  BY <1>1 DEF ReaderInv, AnswersOneChain, SplitPointHolds

(* The filter is in scope before the tables are looked at, and the view is *)
(* the tables as they are when the request's transaction begins.           *)
LEMMA GetLogsStep ==
    ASSUME ServingInv, GetLogs
    PROVE  ServingInv'
<1>1. PICK filter \in Filters :
          /\ InTopicScope(DecodedTopics(filter))
          /\ reader' = [op |-> "get logs", filter |-> filter, view |-> Snapshot]
  BY DEF GetLogs
<1>2. UNCHANGED <<tables, client>>
  BY DEF GetLogs
<1>3. TablesInv /\ TablesInv'
  BY <1>2, TablesKept DEF ServingInv
<1>4. ViewFine(Snapshot) /\ client <= Snapshot.cursor.head
  BY <1>3 DEF ViewFine, Snapshot, TablesInv
<1> DEFINE view == Snapshot
<1> HIDE DEF view
<1>5. /\ reader'.op = "get logs" /\ reader'.filter = filter /\ reader'.view = view
      /\ ViewFine(view) /\ client' <= view.cursor.head
  BY <1>1, <1>2, <1>4 DEF view
<1>6. ScopedFilter(filter)
  BY <1>1 DEF ScopedFilter
<1>7. ReaderInv' /\ AnswersOneChain' /\ SplitPointHolds'
  BY <1>5, <1>6 DEF ReaderInv, AnswersOneChain, SplitPointHolds
<1> QED
  BY <1>3, <1>7 DEF ServingInv

LEMMA ReadHeadStep ==
    ASSUME ServingInv, ReadHead
    PROVE  ServingInv'
<1>1. reader' = [op |-> "get head", view |-> Snapshot] /\ UNCHANGED <<tables, client>>
  BY DEF ReadHead
<1>2. TablesInv /\ TablesInv'
  BY <1>1, TablesKept DEF ServingInv
<1>3. ViewFine(Snapshot)
  BY <1>2 DEF ViewFine, Snapshot, TablesInv
<1> DEFINE view == Snapshot
<1> HIDE DEF view
<1>4. reader'.op = "get head" /\ reader'.view = view /\ ViewFine(view)
  BY <1>1, <1>3 DEF view
<1>5. ReaderInv' /\ AnswersOneChain' /\ SplitPointHolds'
  BY <1>4 DEF ReaderInv, AnswersOneChain, SplitPointHolds
<1> QED
  BY <1>2, <1>5 DEF ServingInv

(* The steps that end a request without an answer.                         *)
LEMMA QuietStep ==
    ASSUME ServingInv, GetLogsOutOfScope \/ RefuseAll \/ ReadFails \/ Replied
    PROVE  ServingInv'
<1>1. UNCHANGED <<tables, client>>
  BY DEF GetLogsOutOfScope, RefuseAll, ReadFails, Replied
<1>2. \/ reader' = NoReader
      \/ \E why \in {"filter", "unavailable", "unknown block", "outside coverage",
                    "bad request", "below start", "too many results"}, to \in Nat :
             reader' = Refusal(why, to)
  BY DEF GetLogsOutOfScope, RefuseAll, ReadFails, Replied
<1> QED
  BY <1>1, <1>2, TablesKept, ReaderDone DEF ServingInv

(* eth_blockNumber tells the client a head that is covered still.          *)
LEMMA BlockNumberStep ==
    ASSUME ServingInv, BlockNumber
    PROVE  ServingInv'
<1>1. /\ reader.op = "get head" /\ reader' = NoReader /\ UNCHANGED tables
      /\ \/ client' = NoHead
         \/ client' = reader.view.cursor.head /\ reader.view.cursor.head <= cursor.head
  BY DEF BlockNumber, HeadOf
<1>2. reader.view.cursor \in Coverage /\ TablesInv
  BY <1>1 DEF ServingInv, ReaderInv, ViewFine, TablesFine
<1>3. client' \in Nat \cup {NoHead} /\ client' <= cursor.head
  <2>1. cursor.head \in Nat
    BY <1>2, TablesFacts
  <2>2. CASE client' = NoHead
    BY <2>1, <2>2 DEF NoHead
  <2>3. CASE client' # NoHead
    <3>1. client' = reader.view.cursor.head /\ client' <= cursor.head
      BY <1>1, <2>3
    <3> QED
      BY <1>2, <3>1 DEF Coverage
  <2> QED
    BY <2>2, <2>3
<1>4. TablesInv'
  BY <1>1, <1>2, <1>3 DEF TablesInv, tables, storeVars, HasCursor
<1> QED
  BY <1>1, <1>4, ReaderDone DEF ServingInv

(* A request for logs whose range has been found in the coverage.          *)
LEMMA SelectFine ==
    ASSUME ServingInv, reader.op = "get logs", ~Unavailable(reader.view), UNCHANGED <<tables, client>>,
           NEW from \in Nat, NEW to \in Nat, NEW asked, reader' = Select(from, to, asked),
           reader.view.cursor.start <= from, from <= to, to <= reader.view.cursor.head,
           asked # NoHash => BlockAt(reader.view.blocks[reader.view.cursor.head], from) = asked
    PROVE  ServingInv'
<1>1. TablesInv'
  BY TablesKept DEF ServingInv
<1>2. ViewFine(reader.view) /\ ScopedFilter(reader.filter)
  BY DEF ServingInv, ReaderInv
<1>3. /\ reader'.op = "select" /\ reader'.filter = reader.filter /\ reader'.view = reader.view
      /\ reader'.from = from /\ reader'.to = to /\ reader'.asked = asked
  BY DEF Select
<1>4. RangeFine(reader')
  BY <1>3 DEF RangeFine
<1>5. ReaderInv' /\ AnswersOneChain' /\ SplitPointHolds'
  BY <1>2, <1>3, <1>4 DEF ReaderInv, AnswersOneChain, SplitPointHolds
<1> QED
  BY <1>1, <1>5 DEF ServingInv

(* An answer that some one chain gives.                                    *)
LEMMA AnswerFine ==
    ASSUME ServingInv, UNCHANGED <<tables, client>>,
           NEW from, NEW to, NEW asked, NEW rows, reader' = Answer(from, to, asked, rows),
           MaxResults > 0 => Cardinality(rows) <= MaxResults,
           NEW c \in Block, Height(c) >= to, asked # NoHash => BlockAt(c, from) = asked,
           rows = NodeAnswer(c, reader.filter, from, to)
    PROVE  ServingInv'
<1>1. TablesInv'
  BY TablesKept DEF ServingInv
<1>2. /\ reader'.op = "answered" /\ reader'.filter = reader.filter
      /\ reader'.from = from /\ reader'.to = to /\ reader'.asked = asked /\ reader'.rows = rows
  BY DEF Answer
<1>3. ReaderInv'
  BY <1>2 DEF ReaderInv
<1>4. AnswersOneChain' /\ SplitPointHolds'
  BY <1>2 DEF AnswersOneChain, SplitPointHolds
<1> QED
  BY <1>1, <1>3, <1>4 DEF ServingInv

(* What a view that is not refused holds.                                  *)
LEMMA AvailableView ==
    ASSUME NEW view, ViewFine(view), ~Unavailable(view)
    PROVE  /\ ~view.maintenance
           /\ view.cursor.start \in Nat /\ view.cursor.head \in Nat
           /\ view.cursor.start <= view.cursor.head
           /\ view.blocks[view.cursor.head] \in Block
           /\ Height(view.blocks[view.cursor.head]) = view.cursor.head
           /\ \A n \in view.cursor.start..view.cursor.head :
                  view.blocks[n] = BlockAt(view.blocks[view.cursor.head], n)
<1>1. view.cursor \in Coverage /\ view.cursor # NoCursor
  BY DEF ViewFine, TablesFine, Unavailable
<1>2. view.cursor.start \in Nat /\ view.cursor.head \in Nat
  BY <1>1 DEF Coverage
<1>3. view.cursor.start <= view.cursor.head
  BY <1>1 DEF ViewFine, TablesFine
<1>4. view.cursor.head \in view.cursor.start..view.cursor.head
  BY <1>2, <1>3
<1>5. view.cursor.head \in DOMAIN view.blocks
  BY <1>4 DEF ViewFine, TablesFine
<1> QED
  BY <1>2, <1>3, <1>5 DEF ViewFine, TablesFine, Unavailable

(* A block that is asked for by its hash is found at its own height.       *)
LEMMA ResolveHashStep ==
    ASSUME ServingInv, ResolveHash
    PROVE  ServingInv'
<1>1. reader.op = "get logs" /\ ~Unavailable(reader.view) /\ UNCHANGED <<tables, client>>
  BY DEF ResolveHash
<1> DEFINE view == reader.view
<1>2. PICK b \in Block :
          \/ reader' = Refusal("unknown block", 0)
          \/ \E n \in {m \in DOMAIN view.blocks : view.blocks[m] = b} :
                 reader' = IF InCoverage(view, n) THEN Select(n, n, b)
                                                  ELSE Refusal("outside coverage", 0)
  BY DEF ResolveHash
<1>3. CASE reader' = Refusal("unknown block", 0) \/ reader' = Refusal("outside coverage", 0)
  BY <1>1, <1>3, TablesKept, ReaderDone DEF ServingInv
<1>4. ASSUME NEW n \in DOMAIN view.blocks, view.blocks[n] = b, InCoverage(view, n),
             reader' = Select(n, n, b)
      PROVE  ServingInv'
  <2>1. ViewFine(view)
    BY <1>1 DEF ServingInv, ReaderInv
  <2>2. n \in Nat /\ view.cursor.start <= n /\ n <= view.cursor.head
    BY <1>4, <2>1 DEF ViewFine, TablesFine, InCoverage
  <2>3. n \in view.cursor.start..view.cursor.head
    <3>1. view.cursor.start \in Nat /\ view.cursor.head \in Nat
      BY <1>1, <2>1, AvailableView
    <3> QED
      BY <2>2, <3>1
  <2>4. BlockAt(view.blocks[view.cursor.head], n) = b
    BY <1>1, <1>4, <2>1, <2>3, AvailableView
  <2>5. n <= n
    BY <2>2
  <2> QED
    BY <1>1, <1>4, <2>2, <2>4, <2>5, SelectFine
<1> QED
  BY <1>2, <1>3, <1>4

(* A range is selected only inside the coverage of the view, refused as    *)
(* above the head only if it ends there, and answered as empty only if it  *)
(* is, whatever tags its bounds have.                                      *)
LEMMA ResolveRangeStep ==
    ASSUME ServingInv, ResolveRange
    PROVE  ServingInv'
<1>1. reader.op = "get logs" /\ ~Unavailable(reader.view) /\ UNCHANGED <<tables, client>>
  BY DEF ResolveRange
<1> DEFINE view == reader.view
           cov == reader.view.cursor
           c == view.blocks[cov.head]
<1>2. PICK begin \in Bounds, end \in Bounds :
          LET from == ResolveSpecial(begin, cov.head)
              to == ResolveSpecial(end, cov.head) IN
          reader' =
            CASE BadRequest(begin, end) -> Refusal("bad request", 0)
              [] ~BadRequest(begin, end) /\ from > to -> Answer(from, to, NoHash, {})
              [] ~BadRequest(begin, end) /\ from <= to /\ to > cov.head -> Refusal("above head", to)
              [] ~BadRequest(begin, end) /\ from <= to /\ to <= cov.head /\ from < cov.start ->
                     Refusal("below start", to)
              [] OTHER -> Select(from, to, NoHash)
  BY DEF ResolveRange
<1> DEFINE from == ResolveSpecial(begin, cov.head)
           to == ResolveSpecial(end, cov.head)
<1>3. /\ ViewFine(view) /\ cov.start \in Nat /\ cov.head \in Nat /\ c \in Block /\ Height(c) = cov.head
      /\ client <= cov.head
  <2>1. ViewFine(view) /\ client <= cov.head
    BY <1>1 DEF ServingInv, ReaderInv
  <2> QED
    BY <1>1, <2>1, AvailableView
<1>4. begin \in Int /\ end \in Int
  BY HeightsAreNat DEF Bounds, OtherNegative
<1> DEFINE bad == BadRequest(begin, end)
           head == cov.head
           first == cov.start
<1>5. reader' = CASE bad -> Refusal("bad request", 0)
                  [] ~bad /\ from > to -> Answer(from, to, NoHash, {})
                  [] ~bad /\ from <= to /\ to > head -> Refusal("above head", to)
                  [] ~bad /\ from <= to /\ to <= head /\ from < first -> Refusal("below start", to)
                  [] OTHER -> Select(from, to, NoHash)
  BY <1>2
<1> HIDE DEF from, to, bad, head, first
<1>6. CASE bad
  <2>1. reader' = Refusal("bad request", 0)
    BY <1>5, <1>6
  <2> QED
    BY <1>1, <2>1, TablesKept, ReaderDone DEF ServingInv
<1>7. CASE ~bad
  <2>1. /\ from \in Nat /\ to \in Nat
        /\ from > to => to <= cov.head
    BY <1>3, <1>4, <1>7 DEF BadRequest, Unserved, ResolveSpecial, Latest, Earliest, from, to, bad
  <2>2. head = cov.head /\ first = cov.start /\ head \in Nat /\ first \in Nat
    BY <1>3 DEF head, first
  <2>3. CASE from > to
    <3>1. reader' = Answer(from, to, NoHash, {})
      <4>1. ~(from <= to)
        BY <2>1, <2>3
      <4> QED
        BY <1>5, <1>7, <2>3, <4>1
    <3>2. from..to = {} /\ Height(c) >= to
      BY <1>3, <2>1, <2>3
    <3>3. {} = NodeAnswer(c, reader.filter, from, to)
      BY <3>2 DEF NodeAnswer
    <3>4. MaxResults > 0 => Cardinality({}) <= MaxResults
      BY FS_EmptySet, ServingAssumption
    <3> HIDE DEF c
    <3> QED
      BY <1>1, <1>3, <3>1, <3>2, <3>3, <3>4, AnswerFine
  <2>4. CASE from <= to /\ to > cov.head
    <3>1. reader' = Refusal("above head", to)
      <4>1. ~(from > to) /\ ~(to <= head) /\ to > head
        BY <2>1, <2>4, <2>2
      <4> QED
        BY <1>5, <1>7, <2>4, <4>1
    <3>2. reader'.op = "refused" /\ reader'.why = "above head" /\ reader'.to = to
      BY <3>1 DEF Refusal
    <3>3. to > client /\ client' = client
      <4>1. client \in Int /\ client' = client
        <5>1. client \in Nat \cup {NoHead}
          BY DEF ServingInv, TablesInv
        <5>2. client \in Int
          BY <5>1 DEF NoHead
        <5>3. client' = client
          BY <1>1
        <5> QED
          BY <5>2, <5>3
      <4>2. client <= head /\ to > head
        BY <1>3, <2>4 DEF head
      <4> QED
        BY <2>1, <2>2, <4>1, <4>2
    <3>4. ReaderInv' /\ AnswersOneChain' /\ SplitPointHolds'
      BY <2>1, <3>2, <3>3 DEF ReaderInv, AnswersOneChain, SplitPointHolds
    <3> QED
      BY <1>1, <3>4, TablesKept DEF ServingInv
  <2>5. CASE from <= to /\ to <= cov.head /\ from < cov.start
    <3>1. reader' = Refusal("below start", to)
      <4>1. ~(from > to) /\ ~(to > head) /\ to <= head /\ from < first
        BY <2>1, <2>5, <2>2
      <4> QED
        BY <1>5, <1>7, <2>5, <4>1
    <3> QED
      BY <1>1, <2>1, <3>1, TablesKept, ReaderDone DEF ServingInv
  <2>6. CASE from <= to /\ to <= cov.head /\ cov.start <= from
    <3>1. reader' = Select(from, to, NoHash)
      <4>1. ~(from > to) /\ ~(to > head) /\ ~(from < first)
        BY <2>1, <2>6, <2>2
      <4> QED
        BY <1>5, <1>7, <2>6, <4>1
    <3> QED
      BY <1>1, <2>1, <2>6, <3>1, SelectFine
  <2> QED
    BY <1>3, <2>1, <2>3, <2>4, <2>5, <2>6
<1> QED
  BY <1>6, <1>7

(* The rows are those of a node, all of them or too many to be answered.   *)
LEMMA FilterLogsStep ==
    ASSUME ServingInv, FilterLogs
    PROVE  ServingInv'
<1>1. reader.op = "select" /\ UNCHANGED <<tables, client>>
  BY DEF FilterLogs
<1> DEFINE view == reader.view
           c == view.blocks[view.cursor.head]
           from == reader.from
           to == reader.to
           selected == SelectedRows(view, reader.filter, from, to)
           rows == RowsRead(selected)
<1>2. reader' = IF TooManyResults(rows) THEN Refusal("too many results", 0)
                ELSE Answer(from, to, reader.asked, rows)
  BY DEF FilterLogs, LogsOf
<1>3. /\ ViewFine(view) /\ ~Unavailable(view) /\ ScopedFilter(reader.filter)
      /\ from \in Nat /\ to \in Nat /\ from <= to
      /\ view.cursor.start <= from /\ to <= view.cursor.head
      /\ reader.asked # NoHash => BlockAt(c, from) = reader.asked
  BY <1>1 DEF ServingInv, ReaderInv, RangeFine
<1>4. ~view.maintenance /\ c \in Block /\ Height(c) = view.cursor.head /\ view.cursor.head \in Nat
  BY <1>3, AvailableView
<1>5. selected = NodeAnswer(c, reader.filter, from, to)
  BY <1>3, <1>4, SelectedIsNodes
<1>6. Height(c) >= to
  BY <1>3, <1>4
<1> HIDE DEF view, c, from, to, selected
<1>7. IsFiniteSet(selected) /\ \A r \in selected : r.n \in Nat /\ r.log.index \in Nat
  BY <1>3, <1>4, <1>5, <1>6, NodeAnswerFinite
<1>8. /\ IsFiniteSet(rows)
      /\ ~TooManyResults(rows) => rows = selected
  BY <1>7, LimitCutsNothing
<1> HIDE DEF rows
<1>9. CASE TooManyResults(rows)
  <2>1. reader' = Refusal("too many results", 0)
    BY <1>2, <1>9
  <2> QED
    BY <1>1, <2>1, TablesKept, ReaderDone DEF ServingInv
<1>10. CASE ~TooManyResults(rows)
  <2>1. reader' = Answer(from, to, reader.asked, rows)
    BY <1>2, <1>10
  <2>2. MaxResults > 0 => Cardinality(rows) <= MaxResults
    <3>1. Cardinality(rows) \in Nat /\ MaxResults \in Nat
      BY <1>8, FS_CardinalityType, ServingAssumption
    <3> QED
      BY <1>10, <3>1 DEF TooManyResults
  <2>3. rows = NodeAnswer(c, reader.filter, from, to)
    BY <1>5, <1>8, <1>10
  <2> QED
    BY <1>1, <1>3, <1>4, <1>6, <2>1, <2>2, <2>3, AnswerFine
<1> QED
  BY <1>9, <1>10

-----------------------------------------------------------------------------
(* The invariant holds.                                                    *)

LEMMA ServingInvInit == Init => ServingInv
<1> SUFFICES ASSUME Init
             PROVE  ServingInv
  OBVIOUS
<1>1. /\ blocks = [n \in {} |-> NoHash] /\ logs = {} /\ cursor = NoCursor
      /\ maintenance = FALSE /\ reader = NoReader /\ client = NoHead
  BY DEF Init, StoreInit
<1>2. /\ DOMAIN blocks = {} /\ cursor.start = 1 /\ cursor.head = 0 /\ cursor \in Coverage
      /\ cursor.start..cursor.head = {}
  BY <1>1 DEF NoCursor, Coverage
<1>3. TablesFine(blocks, logs, cursor, maintenance)
  BY <1>1, <1>2 DEF TablesFine
<1>4. TablesInv
  BY <1>1, <1>2, <1>3 DEF TablesInv, NoHead
<1>5. reader.op = "none"
  BY <1>1 DEF NoReader
<1> QED
  BY <1>4, <1>5 DEF ServingInv, ReaderInv, AnswersOneChain, SplitPointHolds

LEMMA ServingInvNext == ServingInv /\ [Next]_vars => ServingInv'
<1> SUFFICES ASSUME ServingInv, [Next]_vars
             PROVE  ServingInv'
  OBVIOUS
<1>1. CASE UNCHANGED vars
  <2>1. UNCHANGED <<tables, reader, client>>
    BY <1>1 DEF vars
  <2>2. TablesInv'
    BY <2>1, TablesKept DEF ServingInv
  <2>3. ReaderInv' /\ AnswersOneChain' /\ SplitPointHolds'
    BY <2>1 DEF ServingInv, ReaderInv, AnswersOneChain, SplitPointHolds, ViewFine, RangeFine, Unavailable
  <2> QED
    BY <2>2, <2>3 DEF ServingInv
<1>2. CASE Request
  BY <1>2, GetLogsStep, ReadHeadStep, QuietStep, BlockNumberStep, ResolveHashStep,
     ResolveRangeStep, FilterLogsStep DEF Request
<1> QED
  BY <1>1, <1>2, WritersStep DEF Next

(* Rows, view and answer stay well-formed, and no answer is longer than    *)
(* rpc.max_results (rpcapi).                                               *)
THEOREM ServingTypeCorrect == Spec => []TypeOK
<1>1. ServingInv => TypeOK
  <2> SUFFICES ASSUME ServingInv
               PROVE  TypeOK
    OBVIOUS
  <2>1. StoreTypeOK
    <3>1. /\ DOMAIN blocks \subseteq Nat /\ cursor \in Coverage
          /\ \A n \in DOMAIN blocks : blocks[n] \in Block
      BY DEF ServingInv, TablesInv, TablesFine
    <3>2. Covered \subseteq Nat /\ \A n \in Covered : blocks[n] \in Block
      BY <3>1, TablesFacts DEF ServingInv
    <3>3. logs \subseteq StoredLogRow
      BY <3>2, TablesFacts DEF ServingInv, StoredLogRow
    <3> QED
      BY <3>1, <3>3 DEF StoreTypeOK
  <2> QED
    BY <2>1 DEF TypeOK, ServingInv, TablesInv, TablesFine, ReaderInv
<1> QED
  BY <1>1, ServingInvInit, ServingInvNext, PTL DEF Spec

(* Every answer of eth_getLogs is that of a node on some one chain minus   *)
(* the documented shapes, none of it missing or cut off, whatever the tail *)
(* or a backfill does while it is read (View, GetLogs, filterLogs).        *)
THEOREM AnswersFromOneChain == Spec => []AnswersOneChain
<1>1. ServingInv => AnswersOneChain
  BY DEF ServingInv
<1> QED
  BY <1>1, ServingInvInit, ServingInvNext, PTL DEF Spec

(* Until blocks are withdrawn, no range up to the head that                *)
(* eth_blockNumber answered is refused as above the head.                  *)
THEOREM SplitPointKept == Spec => []SplitPointHolds
<1>1. ServingInv => SplitPointHolds
  BY DEF ServingInv
<1> QED
  BY <1>1, ServingInvInit, ServingInvNext, PTL DEF Spec
=============================================================================
