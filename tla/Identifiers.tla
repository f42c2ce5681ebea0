---------------------------- MODULE Identifiers ----------------------------
(***************************************************************************)
(* Chain and currency identifiers (blockchain/currency.go and              *)
(* commons/commons.go).  A text is the sequence of its parts, as           *)
(* strings.Split gives them for ":": none of them holds a colon, and the   *)
(* empty text has one empty part.                                          *)
(***************************************************************************)
EXTENDS Integers, Sequences

CONSTANTS
    Parts,     \* strings without a colon
    Empty,     \* ""
    MAINNET,   \* "MAINNET"
    Upper      \* strings.ToUpper

ASSUME PartsAssumption == Empty \in Parts /\ MAINNET \in Parts /\ Empty # MAINNET
ASSUME UpperAssumption ==
    /\ Upper \in [Parts -> Parts]
    /\ \A p \in Parts : Upper[Upper[p]] = Upper[p]
    /\ \A p \in Parts : Upper[p] = Empty <=> p = Empty
    /\ Upper[MAINNET] = MAINNET

UChainId         == [type : Parts, network : Parts]
UChainCurrencyId == [address : Parts, token : Parts]
UCurrencyId      == [chain : UChainId, id : UChainCurrencyId]
Texts            == Seq(Parts)

-----------------------------------------------------------------------------
(* Currencies within a chain.                                               *)

IsChainCurrency(t) == Len(t) \in 1..2
ChainCurrencyFromString(t) ==
    [address |-> t[1], token |-> IF Len(t) = 2 THEN t[2] ELSE Empty]

ChainCurrencyString(c) == <<c.address>> \o (IF c.token = Empty THEN <<>> ELSE <<c.token>>)

-----------------------------------------------------------------------------
(* Chains.                                                                  *)

NetworkOf(n) == IF Upper[n] = MAINNET THEN Empty ELSE Upper[n]

Normalize(c) == [type |-> Upper[c.type], network |-> NetworkOf(c.network)]

UChainIdStringOfType(c) == <<c.type>>
UChainIdString(c) == IF c.network = Empty THEN <<c.type>> ELSE <<c.type, c.network>>

\* proto.ChainId, the keys of the proxy's table.
ChainIdToString(c) == <<c.type, c.network>>

StringToChainId(t) == [type |-> t[1], network |-> IF Len(t) > 1 THEN t[2] ELSE MAINNET]

-----------------------------------------------------------------------------
(* Currencies of all chains.                                                *)

IsCurrency(t) == Len(t) \in 1..4
CurrencyFromStringAsIs(t) ==
    [chain |-> [type |-> t[1], network |-> IF Len(t) >= 2 THEN t[2] ELSE Empty],
     id    |-> [address |-> IF Len(t) >= 3 THEN t[3] ELSE Empty,
                token   |-> IF Len(t) = 4 THEN t[4] ELSE Empty]]
CurrencyFromString(t) ==
    [chain |-> [type    |-> Upper[t[1]],
                network |-> IF Len(t) >= 2 THEN NetworkOf(t[2]) ELSE Empty],
     id    |-> [address |-> IF Len(t) >= 3 THEN t[3] ELSE Empty,
                token   |-> IF Len(t) = 4 THEN t[4] ELSE Empty]]

NormalizeCurrency(c) == [chain |-> Normalize(c.chain), id |-> c.id]

CurrencyStringOfErc20(c) ==
    UChainIdString(c.chain) \o (IF c.id.address = Empty THEN <<>> ELSE <<c.id.address>>)
CurrencyString(c) ==
    UChainIdString(c.chain)
    \o (IF ChainCurrencyString(c.id) = <<Empty>> THEN <<>> ELSE ChainCurrencyString(c.id))
=============================================================================
