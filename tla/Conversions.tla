---------------------------- MODULE Conversions ----------------------------
(***************************************************************************)
(* Journeys of identifiers, numbers and blocks through the conversions of  *)
(* Identifiers, HexConv and BlockConversion: a client, agents, account     *)
(* managers and upstreams hand them on in one form or another.  A journey  *)
(* starts with any text or value and applies any conversion that takes its *)
(* form; what it stands for is kept in meaning and must not change on the  *)
(* way.                                                                    *)
(***************************************************************************)
EXTENDS BlockConversion

CONSTANTS MaxParts,   \* bound: parts of the texts a journey starts with
          MaxDigits,  \* bound: digits of the texts a journey starts with
          MaxField,   \* bound: digits of the fields of JSON objects
          RpcBlocks   \* blocks, with their logs, a journey starts with

ASSUME BoundsAssumption == MaxParts \in Nat /\ MaxDigits \in Nat /\ MaxField \in Nat

\* A hash is of one transaction, and a log is of a contract, which has an address.
ASSUME RpcBlocksAssumption == \A b \in RpcBlocks :
    /\ b.txs \in Seq(Range(b.txs)) /\ b.logs \in Seq(Range(b.logs))
    /\ \A i, j \in DOMAIN b.txs : b.txs[i].hash = b.txs[j].hash => i = j
    /\ \A i \in DOMAIN b.txs : b.txs[i].value \in Nat
    /\ \A n \in DOMAIN b.logs : b.logs[n].txIndex \in Nat /\ b.logs[n].address # Empty

VARIABLES form,     \* what the value is
          value,
          meaning   \* what it stood for at the start

vars == <<form, value, meaning>>

TextsUpTo(n, S) == UNION {[1..l -> S] : l \in 0..n}

\* The number of a field, or none if no reader could take it.
FieldNumber(p, t) ==
    IF \/ t \in {NoField, NotText}
       \/ p = "value" /\ ~ IsQuantity(t)
       \/ p = "stateRoot" /\ Len(t) \notin {0, HashLen}
    THEN NoNumber ELSE NumberOf(t, Base)

\* What moves in a block: for each transaction its own value, if any, and then
\* the logs of transfers that name it, in their order.
MovesOf(b) ==
    LET native(i)  == IF b.txs[i].value > 0 THEN 1 ELSE 0
        tokens(i)  == {j \in DOMAIN b.logs : b.logs[j].txIndex = b.txs[i].index
                                             /\ IsTransferLog(b.logs[j])}
        place(i,j) == native(i) + Cardinality({k \in tokens(i) : k <= j})
        none       == [address |-> Empty, token |-> Empty]
    IN  {[tx |-> b.txs[i].hash, place |-> 1, of |-> none, from |-> b.txs[i].from,
          to |-> b.txs[i].to, value |-> b.txs[i].value]
            : i \in {n \in DOMAIN b.txs : native(n) = 1}}
        \cup UNION {{[tx |-> b.txs[i].hash, place |-> place(i, j),
                      of |-> [address |-> b.logs[j].address, token |-> Empty],
                      from |-> b.logs[j].topics[2], to |-> b.logs[j].topics[3],
                      value |-> b.logs[j].data] : j \in tokens(i)} : i \in DOMAIN b.txs}

\* What a client reads in a converted block.
MovesTold(b) ==
    UNION {{LET t == b[i].transfers[k]
            IN  [tx |-> b[i].id, place |-> k, of |-> ChainCurrencyFromString(t.currency),
                 from |-> t.from, to |-> t.to, value |-> t.value]
              : k \in DOMAIN b[i].transfers} : i \in DOMAIN b}

\* What a value stands for: no network and MAINNET are the same, and upper case.
Meaning(f, v) ==
    CASE f = "currencyText"  -> NormalizeCurrency(CurrencyFromString(v))
      [] f = "currency"      -> NormalizeCurrency(v)
      [] f = "tokenText"     -> ChainCurrencyFromString(v)
      [] f = "token"         -> v
      [] f = "chainText"     -> Normalize(StringToChainId(v))
      [] f = "chain"         -> Normalize(v)
      [] f \in {"hex", "quantity"} -> NumberOf(v, Base)
      [] f = "bytes"         -> NumberOf(v, Base * Base)
      [] f \in {"number", "panic", "object", "error"} -> v
      [] f = "json"       -> [p \in DOMAIN v |-> FieldNumber(p, v[p])]
      [] f = "rpcBlock"   -> MovesOf(v)
      [] f = "protoBlock" -> MovesTold(v)

FieldTexts == TextsUpTo(MaxField, Digits) \cup {NoField, NotText}

Starts(f) ==
    CASE f = "currencyText" -> {t \in TextsUpTo(MaxParts, Parts) : IsCurrency(t)}
      [] f = "tokenText"    -> {t \in TextsUpTo(MaxParts, Parts) : IsChainCurrency(t)}
      [] f = "token"        -> UChainCurrencyId
      [] f = "chain"        -> UChainId
      [] f = "hex"          -> TextsUpTo(MaxDigits, Digits)
      [] f = "json"         -> [{"stateRoot"} -> FieldTexts]
                               \cup [Fields \ {"stateRoot"} -> FieldTexts]
      [] f = "rpcBlock"     -> RpcBlocks

Init ==
    /\ form \in {"currencyText", "tokenText", "token", "chain", "hex", "json", "rpcBlock"}
    /\ value \in Starts(form)
    /\ meaning = Meaning(form, value)

Step(from, to, v) == form = from /\ form' = to /\ value' = v /\ UNCHANGED meaning

ParseCurrency == form = "currencyText" /\ IsCurrency(value)
                 /\ Step("currencyText", "currency", CurrencyFromString(value))
PrintCurrency == Step("currency", "currencyText", CurrencyString(value))
NormCurrency  == Step("currency", "currency", NormalizeCurrency(value))

ParseToken == form = "tokenText" /\ IsChainCurrency(value)
              /\ Step("tokenText", "token", ChainCurrencyFromString(value))
PrintToken == Step("token", "tokenText", ChainCurrencyString(value))

ParseChain == Step("chainText", "chain", StringToChainId(value))
PrintChain == Step("chain", "chainText", UChainIdString(value))
PrintProto == Step("chain", "chainText", ChainIdToString(value))
NormChain  == Step("chain", "chain", Normalize(value))

ReadHex == \/ Step("hex", "bytes", FromHex(value))
           \/ Step("quantity", "bytes", FromHex(value))
PrintHex == Step("bytes", "hex", Bytes2Hex(value))
Fix      == Step("hex", "quantity", FixerHexStripLeadingZeros(value))
ReadQuantity == form = "quantity" /\ Hex2Int(value) # NoNumber
                /\ Step("quantity", "number", Hex2Int(value))
PrintQuantity == form = "number" /\ Step("number", "quantity", MarshalQuantity(value))
Pad  == \E l \in 0..MaxDigits : Step("bytes", "bytes", LeftPadBytes(value, l))
Trim == Step("bytes", "bytes", TrimLeftZeroes(value))
ReadUint256 == Step("bytes", "number", ToBigInt(value))
MakeUint256 == form = "number" /\ IF Fits(value) THEN Step("number", "bytes", FromBigInt(value))
                                                 ELSE Step("number", "panic", value)

ReadJson == form = "json" /\ IF CanFix(value) /\ CanRead(FixJsonFields(value))
                              THEN Step("json", "object", UnmarshalJSON(value))
                              ELSE Step("json", "error", value)
ConvertBlock == Step("rpcBlock", "protoBlock", EthBlockToProto(value))

Next == \/ ParseCurrency \/ PrintCurrency \/ NormCurrency \/ ParseToken \/ PrintToken
        \/ ParseChain \/ PrintChain \/ PrintProto \/ NormChain
        \/ ReadHex \/ PrintHex \/ Fix \/ ReadQuantity \/ PrintQuantity
        \/ Pad \/ Trim \/ ReadUint256 \/ MakeUint256 \/ ReadJson \/ ConvertBlock

Spec == Init /\ [][Next]_vars

-----------------------------------------------------------------------------
(* Properties.                                                              *)

\* Forms; a parsed currency is in upper case and never of network "MAINNET".
TypeOK ==
    CASE form \in {"currencyText", "tokenText", "chainText"} -> \A i \in DOMAIN value : value[i] \in Parts
      [] form = "currency" -> value \in UCurrencyId /\ value.chain = Normalize(value.chain)
      [] form = "token"    -> value \in UChainCurrencyId
      [] form = "chain"    -> value \in UChainId
      [] form \in {"hex", "quantity"} -> \A i \in DOMAIN value : value[i] \in Digits
      [] form = "bytes"    -> \A i \in DOMAIN value : value[i] \in Bytes
      [] form \in {"number", "panic"} -> value \in Nat
      [] form \in {"json", "error"} -> \A p \in DOMAIN value : value[p] \in FieldTexts
      [] form = "object" -> \A p \in DOMAIN value : value[p] \in Nat
      [] form = "rpcBlock" -> value \in RpcBlocks
      [] form = "protoBlock" -> \A i \in DOMAIN value : value[i].amount \in Nat

\* Numbers keep their value through any conversions, also with an odd number of
\* digits, leading zeroes or none at all.
NumberKept == form \in {"hex", "quantity", "bytes", "number", "panic"}
              => Meaning(form, value) = meaning

\* Chains keep their identity between the forms of UChainId, proto.ChainId and
\* text, with a network, without or with MAINNET in any case.
ChainKept == form \in {"chain", "chainText"} => Meaning(form, value) = meaning

\* Currencies within a chain are read as what was printed.
TokenKept == form \in {"token", "tokenText"} => Meaning(form, value) = meaning

MainnetToken(c) == c.chain.network = Empty /\ c.id # [address |-> Empty, token |-> Empty]

\* Currencies keep their identity within a chain and, except for the tokens of a
\* MAINNET, among all chains, whatever is printed, read and normalised in between
\* (currency.go:45-130).
CurrencyKept ==
    /\ TokenKept
    /\ form \in {"currency", "currencyText"} /\ ~ MainnetToken(meaning)
         => Meaning(form, value) = meaning

\* A JSON object is read with the numbers its fields stand for, and it is only
\* refused if one of them stands for none: fields that some upstreams pad or
\* leave empty do not cost a block (ethtypes/block.go:18-80, fixer.go).
FieldsKept ==
    /\ form = "object" => value = meaning
    /\ form = "error" => \E p \in DOMAIN meaning : meaning[p] = NoNumber

\* A converted block tells every move of its transactions and logs, once, in
\* order and under its own transaction, and its currency is read by GetCurrency
\* as the contract it was of (block.go:41-90, transaction.go:22-104).
TransfersKept == form \in {"rpcBlock", "protoBlock"} => Meaning(form, value) = meaning

\* The identity of a transfer tells its transaction, and whether it is a token's:
\* only tokens of one transaction share one (transaction.go:63, 94).
IdsTellTransactions == form = "protoBlock" =>
    \A i, j \in DOMAIN value :
        \A k \in DOMAIN value[i].transfers, l \in DOMAIN value[j].transfers :
            LET t == value[i].transfers[k]
                u == value[j].transfers[l]
            IN  t.id = u.id => i = j /\ (t.currency = <<Empty>> <=> u.currency = <<Empty>>)

\* "USDT on ETH mainnet is ETH::0xdac..." (blockchain/currency.go:39): tokens of
\* a MAINNET keep their identity too.
MainnetTokenKept == form \in {"currency", "currencyText"} => Meaning(form, value) = meaning
=============================================================================
