------------------------------ MODULE EventSet ------------------------------
(***************************************************************************)
(* The logs that the warehouse stores (internal/eventset): by signature,   *)
(* number of topics and emitting contract.                                 *)
(*                                                                         *)
(* A log is a record [index, address, sig, args, word]: its place in the   *)
(* block, who emitted it, topic0 by its name, the topics after it, and the *)
(* first word of its data.                                                 *)
(***************************************************************************)
EXTENDS Integers, Sequences

CryptoPunks == "CryptoPunks"

\* topicCount: the topics that a log of a standard signature must have.
TopicCount ==
    [s \in {"Transfer", "TransferSingle", "TransferBatch", "MetadataUpdate",
            "BatchMetadataUpdate", "URI"} |->
        CASE s = "URI" -> 2
          [] s \in {"MetadataUpdate", "BatchMetadataUpdate"} -> 1
          [] OTHER -> 4]

PunkSignatures == {"PunkTransfer", "PunkAssign", "PunkBought"}

\* Topics: the filter that ingestion asks the node with.
Topics ==
    {"Transfer", "TransferSingle", "TransferBatch", "MetadataUpdate", "BatchMetadataUpdate",
     "URI", "PunkTransfer", "PunkAssign", "PunkBought"}

IsWarehouseSignature(sig) == sig \in DOMAIN TopicCount \/ sig \in PunkSignatures

TopicsOf(log) == <<log.sig>> \o log.args

Keep(log) ==
    \/ log.sig = "Transfer" /\ log.address = CryptoPunks
    \/ log.sig \in DOMAIN TopicCount /\ Len(TopicsOf(log)) = TopicCount[log.sig]
    \/ log.sig \in PunkSignatures /\ log.address = CryptoPunks

\* OmittedShapes: of a signature of the warehouse, the logs that a node returns
\* and the warehouse never stores.
Omitted(log) ==
    LET n == Len(TopicsOf(log)) IN
    \/ log.sig = "Transfer" /\ n < 4 /\ log.address # CryptoPunks
    \/ log.sig \in {"TransferSingle", "TransferBatch"} /\ n < 4
    \/ log.sig \in {"MetadataUpdate", "BatchMetadataUpdate"} /\ n > 1
    \/ log.sig = "URI" /\ n # 2
    \/ log.sig \in PunkSignatures /\ log.address # CryptoPunks
=============================================================================
