-------------------------- MODULE ConstructService --------------------------
(***************************************************************************)
(* Transfers of one account: prepared by the Ethereum agents of several    *)
(* networks (agents/eth/server/construct.go), signed by the client or by   *)
(* an account manager, sent through any agent (the proxy routes by the     *)
(* ChainId of each request) and executed by the nodes behind them.         *)
(*                                                                         *)
(* Every call of an agent goes to whatever node the balancer selects.  The *)
(* agents keep no state; the pending nonce is all that orders transfers,   *)
(* and transfers that are prepared at the same time get the same one.      *)
(***************************************************************************)
EXTENDS Integers, Sequences, FiniteSets

CONSTANTS
    Transfers,   \* calls of CreateTransfer that succeed at most once
    Networks,    \* the ChainId of each is one of its own
    Nodes,       \* upstreams of each network
    Prices,      \* gas prices
    TokenGas,    \* gas that a token transfer may need
    NativeGas,   \* 21000
    NoOffer

ASSUME GasAssumption ==
    Prices \subseteq Nat /\ TokenGas \subseteq Nat \ {0} /\ NativeGas \in Nat \ {0}
ASSUME NetworkAssumption == Networks # {}
ASSUME OfferAssumption == NoOffer \notin [on : Networks, fee : Nat]

VARIABLES
    pc,        \* where a transfer is
    net,       \* network of the agent that prepares it
    asset,     \* kind of its currency
    raw,       \* its unsigned transaction, RawData
    fee,       \* EstimatedFee
    signer,    \* whose key has signed the payload
    answer,    \* of the last Send
    pool,      \* transfers of the account that wait in each node
    executed   \* those on the chain of each network, by nonce

vars == <<pc, net, asset, raw, fee, signer, answer, pool, executed>>
intents == <<net, asset, raw, fee>>
chain == <<pool, executed>>

Assets == {"native", "erc20", "erc1155"}
Raw    == [nonce : Nat, gas : Nat, price : Nat]
NewTransaction(i, g, p) == [nonce |-> i, gas |-> g, price |-> p]
NoRaw  == NewTransaction(0, 0, 0)
All(x) == [t \in Transfers |-> x]

Init ==
    /\ pc = All("idle") /\ net = All(CHOOSE n \in Networks : TRUE) /\ asset = All("native")
    /\ raw = All(NoRaw) /\ fee = All(0) /\ signer = All("none") /\ answer = All("none")
    /\ pool = [n \in Networks |-> [k \in Nodes |-> {}]]
    /\ executed = [n \in Networks |-> <<>>]

Goto(t, p) == pc' = [pc EXCEPT ![t] = p]

-----------------------------------------------------------------------------
(* CreateTransfer.                                                          *)

Height(n) == Len(executed[n])

\* eth_getTransactionCount of "pending": what follows the transactions that are
\* executed and those that wait without a gap.
NoneWaits(n, k, i) == i >= Height(n) /\ \A t \in pool[n][k] : raw[t].nonce # i
PendingNonceAfter(n, k) == Height(n) + Cardinality(pool[n][k]) + 1
PendingNonce(n, k) ==
    CHOOSE i \in 0..(Height(n) + Cardinality(Transfers)) :
        NoneWaits(n, k, i) /\ \A j \in 0..(i - 1) : ~ NoneWaits(n, k, j)

\* The first call; a node may lag behind what it will say when it is up to date.
AskNonce(t, n, a) ==
    /\ pc[t] = "idle"
    /\ \E k \in Nodes : \E i \in 0..PendingNonce(n, k) :
           raw' = [raw EXCEPT ![t] = NewTransaction(i, 0, 0)]
    /\ net' = [net EXCEPT ![t] = n] /\ asset' = [asset EXCEPT ![t] = a]
    /\ Goto(t, "price")
    /\ UNCHANGED <<fee, signer, answer, chain>>

\* A native transfer is complete with its price; an erc-1155 one is refused.
AfterPriceUnchecked(a) == IF a = "native" THEN "intent" ELSE "gas"
AfterPrice(a) == CASE a = "native"  -> "intent"
                   [] a = "erc20"   -> "gas"
                   [] a = "erc1155" -> "failed"

AskPrice(t) ==
    /\ pc[t] = "price"
    /\ \E p \in Prices :
         /\ raw' = [raw EXCEPT ![t] = NewTransaction(@.nonce, NativeGas, p)]
         /\ fee' = [fee EXCEPT ![t] = NativeGas * p]
    /\ Goto(t, AfterPrice(asset[t]))
    /\ UNCHANGED <<net, asset, signer, answer, chain>>

GasEstimateOfNative(gas) == NativeGas
GasEstimate(gas) == gas

\* EstimateGas for a token; what it gives is the limit and the base of the fee.
AskGas(t) ==
    /\ pc[t] = "gas"
    /\ \E g \in TokenGas :
         /\ raw' = [raw EXCEPT ![t] = NewTransaction(@.nonce, g, @.price)]
         /\ fee' = [fee EXCEPT ![t] = GasEstimate(g) * raw[t].price]
    /\ Goto(t, "intent")
    /\ UNCHANGED <<net, asset, signer, answer, chain>>

\* A node gives an error, or an address of the request is none.
Fails(t) ==
    /\ pc[t] \in {"price", "gas"}
    /\ Goto(t, "failed")
    /\ UNCHANGED <<intents, signer, answer, chain>>

\* The client asks again.
Again(t) ==
    /\ pc[t] = "failed"
    /\ Goto(t, "idle")
    /\ raw' = [raw EXCEPT ![t] = NoRaw] /\ fee' = [fee EXCEPT ![t] = 0]
    /\ UNCHANGED <<net, asset, signer, answer, chain>>

-----------------------------------------------------------------------------
(* Signing and sending.                                                     *)

\* EIP155Signer.Hash: what is signed holds the chain id of the agent.
SigHashHomestead(n, tx) == tx
SigHash(n, tx) == [on |-> n, tx |-> tx]

\* SignTransaction, or SignPayload of an account manager and CombineTransaction.
Sign(t, s) ==
    /\ pc[t] = "intent" /\ signer[t] = "none"
    /\ signer' = [signer EXCEPT ![t] = s]
    /\ UNCHANGED <<pc, intents, answer, chain>>

\* WithSignature of Send takes the chain id of the agent that sends; the nodes
\* recover the sender from it, who is a stranger if another hash was signed.
IsFromAccount(t, n) == signer[t] = "own" /\ SigHash(n, raw[t]) = SigHash(net[t], raw[t])

Rivals(t, n, k) == {r \in pool[n][k] : raw[r].nonce = raw[t].nonce}

\* A node takes a transaction into its pool if its nonce is not used up and if
\* it pays more than the one it replaces.
Admits(t, n, k) ==
    /\ raw[t].nonce >= Height(n)
    /\ \A r \in Rivals(t, n, k) : raw[r].price < raw[t].price
Join(t, n, k) == pool' = [pool EXCEPT ![n][k] = (@ \ Rivals(t, n, k)) \cup {t}]

\* Send, again and again if the client likes; the answer "ok" may be lost.  What
\* another key has signed is the affair of another account.
Send(t, n) ==
    /\ pc[t] = "intent" /\ signer[t] # "none"
    /\ \E k \in Nodes :
         \/ /\ IsFromAccount(t, n) /\ Admits(t, n, k)
            /\ Join(t, n, k)
            /\ \E a \in {"ok", "error"} : answer' = [answer EXCEPT ![t] = a]
         \/ /\ UNCHANGED pool
            /\ \E a \in {"error"} \cup (IF signer[t] = "other" THEN {"ok"} ELSE {}) :
                 answer' = [answer EXCEPT ![t] = a]
    /\ UNCHANGED <<pc, intents, signer, executed>>

\* Send reads Signatures[0] before it checks that there is one: the panic ends
\* the agents of all networks, and every call at work fails.
SendUnsigned(t) ==
    /\ pc[t] = "intent" /\ signer[t] = "none"
    /\ pc' = [r \in Transfers |-> IF pc[r] \in {"price", "gas"} THEN "failed" ELSE pc[r]]
    /\ UNCHANGED <<intents, signer, answer, chain>>

-----------------------------------------------------------------------------
(* The nodes.                                                               *)

Gossip(n) ==
    /\ \E k, l \in Nodes : \E t \in pool[n][k] : Admits(t, n, l) /\ Join(t, n, l)
    /\ UNCHANGED <<pc, intents, signer, answer, executed>>

Mine(n) ==
    /\ \E k \in Nodes : \E t \in pool[n][k] :
         /\ raw[t].nonce = Height(n)
         /\ \E used \in 1..raw[t].gas :
              executed' = [executed EXCEPT ![n] = Append(@, [of |-> t, cost |-> used * raw[t].price])]
    /\ pool' = [pool EXCEPT ![n] = [k \in Nodes |-> {t \in @[k] : raw[t].nonce > Height(n)}]]
    /\ UNCHANGED <<pc, intents, signer, answer>>

Transfer(t) ==
    \/ \E n \in Networks, a \in Assets : AskNonce(t, n, a)
    \/ AskPrice(t) \/ AskGas(t) \/ Fails(t) \/ Again(t)
    \/ \E s \in {"own", "other"} : Sign(t, s)
    \/ \E n \in Networks : Send(t, n)
    \/ SendUnsigned(t)

Next == \/ \E t \in Transfers : Transfer(t)
        \/ \E n \in Networks : Gossip(n) \/ Mine(n)

Spec == Init /\ [][Next]_vars
FairSpec == Spec /\ \A n \in Networks : WF_vars(Mine(n))

-----------------------------------------------------------------------------
(* Properties.                                                              *)

TypeOK ==
    /\ pc \in [Transfers -> {"idle", "price", "gas", "intent", "failed"}]
    /\ net \in [Transfers -> Networks] /\ asset \in [Transfers -> Assets]
    /\ \A t \in Transfers : pc[t] = "gas" => asset[t] = "erc20"
    /\ raw \in [Transfers -> Raw] /\ fee \in [Transfers -> Nat]
    /\ signer \in [Transfers -> {"none", "own", "other"}]
    /\ answer \in [Transfers -> {"none", "ok", "error"}]
    /\ pool \in [Networks -> [Nodes -> SUBSET Transfers]]
    /\ executed \in [Networks -> Seq([of : Transfers, cost : Nat])]

\* A prepared transfer is paid at most once however often and wherever it is
\* sent, only when the owner of the account has signed it, only on the network
\* it was prepared for, and costs no more than EstimatedFee (20-158).
Told == [t \in Transfers |-> IF pc[t] = "intent" THEN [on |-> net[t], fee |-> fee[t]]
                                                  ELSE NoOffer]
Paid == UNION {{[of |-> executed[n][i].of, on |-> n, cost |-> executed[n][i].cost] :
                    i \in 1..Height(n)} : n \in Networks}
Promise == INSTANCE PayOnce WITH told <- Told, approved <- {t \in Transfers : signer[t] = "own"},
                                 paid <- Paid
ImplementsPayOnce == Promise!Spec

\* Once Send has answered, the nonce is used, by the transfer or by one that
\* was prepared at the same time: nothing waits behind a gap (22, 149).
NonceIsUsed ==
    \A t \in Transfers :
        (signer[t] = "own" /\ answer[t] = "ok") ~> Height(net[t]) > raw[t].nonce
=============================================================================
