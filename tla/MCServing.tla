----------------------------- MODULE MCServing -----------------------------
(***************************************************************************)
(* Serving for TLC: four heights, two branches that part at height 2, and  *)
(* a log of every kind that the event set or a filter tells apart.         *)
(***************************************************************************)
EXTENDS Serving, TLC

MCBranches == {<<"g", "p", "t", "m">>, <<"g", "p", "m", "t">>}

Log(index, address, sig, args, word) ==
    [index |-> index, address |-> address, sig |-> sig, args |-> args, word |-> word]

\* Block "p" has the logs of CryptoPunks and one of its signatures from elsewhere.
\* "t" has an ERC-721, an ERC-20 and two ERC-1155 transfers, and a log outside the set;
\* "m" has metadata updates, URIs and ERC-1155 transfers, well-formed or not.
MCEmits ==
    [l \in {"g"} |-> {}]
    @@ [l \in {"p"} |-> {Log(0, CryptoPunks, "Transfer", <<"a", "b">>, "1"),
                         Log(1, CryptoPunks, "PunkBought", <<"1", "a", "z">>, ""),
                         Log(2, "other", "PunkBought", <<"1", "a", "b">>, "")}]
    @@ [l \in {"t"} |-> {Log(0, "other", "Transfer", <<"a", "b", "1">>, ""),
                         Log(1, "other", "Transfer", <<"a", "b">>, "1"),
                         Log(2, "other", "TransferSingle", <<"a", "a", "b">>, "1"),
                         Log(3, "other", "TransferSingle", <<"a", "a", "b">>, "2"),
                         Log(4, "other", "Approval", <<"a", "b">>, "1")}]
    @@ [l \in {"m"} |-> {Log(0, "other", "MetadataUpdate", <<>>, "1"),
                         Log(1, "other", "MetadataUpdate", <<"1">>, ""),
                         Log(2, "other", "URI", <<"1">>, ""),
                         Log(3, "other", "TransferBatch", <<"a", "a", "b">>, "1"),
                         Log(4, "other", "TransferSingle", <<"a">>, "1"),
                         Log(5, "other", "URI", <<"1", "z">>, "")}]

\* Blocks that have a log of the ingestion filter; that have one to be stored.
MCRaw == {l \in DOMAIN MCEmits : \E x \in MCEmits[l] : x.sig \in Topics}
MCKept == {l \in DOMAIN MCEmits : \E x \in MCEmits[l] : Keep(x)}

Filter(addresses, topics, id) == [addresses |-> addresses, topics |-> topics, id |-> id]

MCFilters == {
    Filter({}, <<Topics>>, NoId),
    Filter({}, <<{"Transfer"}, {}, {NullTopic}>>, NoId),
    Filter({}, <<{"Transfer", "PunkBought"}, {"a"}, {}, {"z", "1"}>>, NoId),
    Filter({"other"}, <<{"TransferSingle", "URI", "TransferBatch"}>>, "1"),
    Filter({}, <<{"Transfer", NullTopic}>>, NoId),
    Filter({}, <<{"Transfer", "Approval"}>>, NoId),
    Filter({}, <<>>, NoId),
    Filter({}, <<{"Transfer"}, {}, {}, {}, {}>>, NoId)}
=============================================================================
