------------------------------- MODULE Chain -------------------------------
(***************************************************************************)
(* The chain an Ethereum node can serve, as src/ uses it (external).       *)
(*                                                                         *)
(* A block hash commits to the whole ancestry of the block, so a block is  *)
(* modelled by the path that leads to it: a non-empty sequence of labels,  *)
(* genesis first.  Two blocks are equal exactly when their hashes are, the *)
(* parent is the path without its last label, and the label of a block     *)
(* says which kind of logs it carries.                                     *)
(***************************************************************************)
EXTENDS Integers, Sequences, Functions

CONSTANTS
    Label,       \* what tells two children of one parent apart
    RawLabels,   \* labels of blocks with a log that has a warehouse topic0
    KeptLabels,  \* labels of blocks with a log that eventset.Keep also keeps
    Branches     \* the longest chains the node can ever have

ASSUME LabelsAssumption == KeptLabels \subseteq RawLabels /\ RawLabels \subseteq Label
ASSUME BranchesAssumption == Branches \subseteq Seq(Label) \ {<<>>}

\* Every block of some branch: the blocks the node may ever serve.
Block == UNION {{SubSeq(c, 1, i) : i \in 1..Len(c)} : c \in Branches}

\* The zero hash: of a log whose blockHash the provider left out, and the
\* parent of genesis.
NoHash == <<>>

Height(b) == Len(b) - 1
Parent(b) == SubSeq(b, 1, Len(b) - 1)

Heights == {Height(b) : b \in Block}

\* The block at height n of the chain that ends in c (n <= Height(c)).
BlockAt(c, n) == SubSeq(c, 1, n + 1)

\* Does b carry a log of the ingestion filter; one that is stored?
HasRawLog(b) == b[Len(b)] \in RawLabels
HasKeptLog(b) == b[Len(b)] \in KeptLabels

Lesser(a, b) == IF a <= b THEN a ELSE b
Greater(a, b) == IF a >= b THEN a ELSE b

\* A map with key k set to v; a map without the keys in S.
Put(f, k, v) == [n \in DOMAIN f \cup {k} |-> IF n = k THEN v ELSE f[n]]
Drop(f, S) == Restrict(f, DOMAIN f \ S)
=============================================================================
