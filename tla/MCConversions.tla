--------------------------- MODULE MCConversions ---------------------------
(***************************************************************************)
(* Conversions with a few names in both cases, for TLC.                    *)
(***************************************************************************)
EXTENDS Conversions

SomeParts == {"", "eth", "ETH", "mainnet", "MAINNET", "sepolia", "SEPOLIA"}
UpperCase == [p \in SomeParts |-> CASE p = "eth" -> "ETH"
                                    [] p = "mainnet" -> "MAINNET"
                                    [] p = "sepolia" -> "SEPOLIA"
                                    [] OTHER -> p]

\* Two transactions with or without a value, and up to three logs in the order of
\* the chain: transfers of two tokens, one without data, another event, and a
\* transfer of a token that indexes nothing.
Tx(i, v)  == [hash |-> IF i = 0 THEN "hash0" ELSE "hash1", index |-> i, value |-> v,
              from |-> "a", to |-> "b"]
Log(i, c, ts, d) == [txIndex |-> i, address |-> c, topics |-> ts, data |-> d]
SomeLogs == UNION {{Log(i, "ETH", <<Transfer, "a", "b">>, 1), Log(i, "eth", <<Transfer, "b", "a">>, 2),
                    Log(i, "eth", <<Transfer, "a", "b", "id">>, 0), Log(i, "eth", <<"Other", "a", "b">>, 3),
                    Log(i, "eth", <<Transfer>>, 4), Log(i, "eth", <<>>, 5)} : i \in 0..1}
LogsInOrder == {s \in UNION {[1..n -> SomeLogs] : n \in 0..3} :
                  \A i, j \in DOMAIN s : i < j => s[i].txIndex <= s[j].txIndex}
SomeBlocks == {[txs |-> <<Tx(0, v), Tx(1, w)>>, logs |-> l] : v \in 0..1, w \in 0..1, l \in LogsInOrder}
=============================================================================
