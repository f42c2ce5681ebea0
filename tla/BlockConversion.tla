-------------------------- MODULE BlockConversion --------------------------
(***************************************************************************)
(* What becomes of a block of an upstream: fields of its JSON objects are  *)
(* fixed before go-ethereum reads them (commons/fixer.go,                  *)
(* agents/eth/types/block.go), its logs are grouped by transaction, and    *)
(* each transaction gets its transfers (agents/eth/server/block.go and     *)
(* transaction.go).                                                        *)
(*                                                                         *)
(* A JSON object is a function of the names of its fields, and a field is  *)
(* the digits of its text after "0x"; all paths that are fixed have one    *)
(* name.  A hash and an address are model values.                          *)
(***************************************************************************)
EXTENDS Identifiers, HexConv

CONSTANTS
    NoField,    \* the object lacks the field
    NotText,    \* the field holds something else than a text
    HashLen,    \* digits of a hash
    Transfer    \* the topic of Transfer(address,address,uint256)

ASSUME HashLenAssumption == HashLen \in Nat \ {0}
ASSUME FieldsAssumption == NoField \notin Seq(Digits) /\ NotText \notin Seq(Digits)

Fields == {"nonce", "v", "value", "stateRoot"}

-----------------------------------------------------------------------------
(* JSON objects of a transaction and of a header.                           *)

FixerZeroHash(t) == IF t = <<>> THEN Zeroes(HashLen) ELSE t

\* The fields that RpcTx and HeaderWithBody have fixed; r and s are as v.
FixesWithoutV == {"nonce", "stateRoot"}
Fixes == {"nonce", "v", "stateRoot"}
Fixer(p, t) == IF p = "stateRoot" THEN FixerZeroHash(t) ELSE FixerHexStripLeadingZeros(t)

\* A field that is missing is let through: ignoreMissing.
FixField(raw, p) ==
    IF p \in Fixes /\ raw[p] # NoField THEN Fixer(p, raw[p]) ELSE raw[p]

\* FixField gives an error for what is not a text.
CanFix(raw) == \A p \in Fixes : p \in DOMAIN raw => raw[p] # NotText
FixJsonFields(raw) == [p \in DOMAIN raw |-> FixField(raw, p)]

\* What go-ethereum takes: all fields, a hash of its length, numbers without
\* leading zeroes.
IsQuantity(t) == Len(t) > 0 /\ (t[1] = 0 => Len(t) = 1)
CanRead(raw) == \A p \in DOMAIN raw :
    /\ raw[p] \notin {NoField, NotText}
    /\ IF p = "stateRoot" THEN Len(raw[p]) = HashLen ELSE IsQuantity(raw[p])

UnmarshalJSON(raw) == [p \in DOMAIN raw |-> NumberOf(FixJsonFields(raw)[p], Base)]

-----------------------------------------------------------------------------
(* Transfers.  A transaction has hash, index, value, from and to; a log has  *)
(* txIndex, address, topics and data; a block its txs and logs.             *)

\* What a loop over s appends of it: the elements at the indexes D, in their order.
Collected(s, D) ==
    LET upTo[n \in 0..Len(s)] ==
            IF n = 0 THEN <<>> ELSE IF n \in D THEN Append(upTo[n - 1], s[n]) ELSE upTo[n - 1]
    IN  upTo[Len(s)]

\* loadAndGroupLogs.
LogsOf(i, logs) == {n \in DOMAIN logs : logs[n].txIndex = i}
GroupedFirst(txs, logs) ==
    [i \in {tx.index : tx \in Range(txs)} |->
        Collected(logs, {n \in LogsOf(i, logs) : \A m \in LogsOf(i, logs) : n <= m})]
Grouped(txs, logs) ==
    [i \in {tx.index : tx \in Range(txs)} |-> Collected(logs, LogsOf(i, logs))]

\* Uint256 of a log is its data, of a transaction its value.
ConvertNativeTransfer(tx) ==
    [id |-> <<tx.hash>> \o <<0>>, txId |-> tx.hash, currency |-> <<Empty>>,
     from |-> tx.from, to |-> tx.to, value |-> tx.value]

\* big.Int.Bytes: none for zero.
TxIndexByte(i) == <<i>>
TxIndexBytes(i) == DigitsOf(i, Base * Base)

DecodeLogAsTransfer(tx, log) ==
    [id |-> <<tx.hash>> \o TxIndexBytes(log.txIndex), txId |-> tx.hash,
     currency |-> <<log.address>>,
     from |-> log.topics[2], to |-> log.topics[3], value |-> log.data]

\* Also of a token without a value, whose Transfer has three indexed arguments.
IsTransferLog(log) == Len(log.topics) > 2 /\ log.topics[1] = Transfer

ConvertERC20Transfer(tx, logs) ==
    LET transfers == Collected(logs, {n \in DOMAIN logs : IsTransferLog(logs[n])})
    IN  [i \in DOMAIN transfers |-> DecodeLogAsTransfer(tx, transfers[i])]

ConvertTx(tx, logs) ==
    [id |-> tx.hash, idx |-> tx.index, amount |-> tx.value,
     transfers |-> (IF tx.value > 0 THEN <<ConvertNativeTransfer(tx)>> ELSE <<>>)
                   \o ConvertERC20Transfer(tx, logs)]

EthBlockToProto(block) ==
    LET logs == Grouped(block.txs, block.logs)
    IN  [i \in DOMAIN block.txs |-> ConvertTx(block.txs[i], logs[block.txs[i].index])]
=============================================================================
