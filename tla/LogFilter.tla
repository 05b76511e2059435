------------------------------ MODULE LogFilter ------------------------------
(***************************************************************************)
(* The filter of an eth_getLogs request: how its topics are decoded        *)
(* (rpcapi/criteria.go), which filters the warehouse takes on              *)
(* (checkTopicScope), and which stored logs its SQL selects (buildFilter). *)
(*                                                                         *)
(* A filter is a record [addresses, topics, id].  The topics are given per *)
(* position as the set of what the request lists there, null included; a   *)
(* position that is null or absent lists nothing.  An empty set of         *)
(* addresses stands for any, and id, the warehouse's own erc1155Id, is     *)
(* NoId if the request has none.                                           *)
(***************************************************************************)
EXTENDS EventSet, FiniteSets

CONSTANTS
    MaxTopics,     \* positions of a filter (maxTopics)
    MaxSubTopics   \* entries of one position (maxSubTopics)

NullTopic == "null"
NoId == "no id"

\* decodeTopicPosition: one null among the entries makes the position a wildcard.
TopicPosition(listed) == IF NullTopic \in listed THEN {} ELSE listed

DecodedTopics(filter) == [i \in DOMAIN filter.topics |-> TopicPosition(filter.topics[i])]

\* UnmarshalJSON: errExceedMaxTopics.
ExceedsTopics(filter) ==
    \/ Len(filter.topics) > MaxTopics
    \/ \E i \in DOMAIN filter.topics : Cardinality(filter.topics[i]) > MaxSubTopics

\* checkTopicScope: topic0 is pinned to signatures of the warehouse.
InTopicScope(topics) ==
    /\ topics # <<>> /\ topics[1] # {}
    /\ \A sig \in topics[1] : IsWarehouseSignature(sig)

\* The arms that replace topic0 = ANY(...) when an erc1155Id is given.
IdArms(sigs, id, log) ==
    \/ log.sig = "TransferSingle" /\ log.sig \in sigs /\ log.word = id
    \/ log.sig = "URI" /\ log.sig \in sigs /\ log.args # <<>> /\ log.args[1] = id
    \/ log.sig \in sigs \ {"TransferSingle", "URI"}

\* buildFilter: the WHERE clause but for the block range.
Selects(filter, log) ==
    LET topics == DecodedTopics(filter) IN
    /\ filter.addresses # {} => log.address \in filter.addresses
    /\ \A i \in {j \in DOMAIN topics : topics[j] # {}} :
           IF i = 1 /\ filter.id # NoId
           THEN IdArms(topics[1], filter.id, log)
           ELSE i <= Len(TopicsOf(log)) /\ TopicsOf(log)[i] \in topics[i]

-----------------------------------------------------------------------------
\* What a node returns for the filter (external), narrowed to the token id where
\* a log carries one.
NodeSelects(filter, log) ==
    /\ filter.addresses = {} \/ log.address \in filter.addresses
    /\ \A i \in 1..Len(filter.topics) :
           \/ filter.topics[i] = {} \/ NullTopic \in filter.topics[i]
           \/ i <= 1 + Len(log.args) /\ (<<log.sig>> \o log.args)[i] \in filter.topics[i]
    /\ filter.id # NoId /\ log.sig = "TransferSingle" => log.word = filter.id
    /\ filter.id # NoId /\ log.sig = "URI" => log.args[1] = filter.id
=============================================================================
