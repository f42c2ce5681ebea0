----------------------------- MODULE TronAgent -----------------------------
(***************************************************************************)
(* CreateTransfer of the Tron agent (agents/trx/server.go, api.go) and the *)
(* fee prices that all requests share through a SimpleExpirationCache      *)
(* (commons/cache/cache.go).                                               *)
(*                                                                         *)
(* Each HTTP call is a step that gives an answer formed at that moment.    *)
(* Both prices come with one answer and are identified by its time; either *)
(* may be missing, since GetChainParameters takes the keys that are there. *)
(* A panic in a request ends the agent, which is started again with an     *)
(* empty cache.                                                            *)
(***************************************************************************)
EXTENDS Integers

CONSTANTS
    Requests,    \* gRPC requests that may be at work together
    Expiration,  \* of the cached prices (10 s), in ticks
    MaxCall,     \* ticks from an answer of the node to the Set that follows
    Complete,    \* subset of BOOLEAN: whether answers hold both prices
    MaxNow       \* bound: end of time

ASSUME TimeAssumption == /\ Expiration \in Nat \ {0} /\ MaxCall \in Nat
                         /\ MaxNow \in Nat
ASSUME CompleteAssumption == Complete \subseteq BOOLEAN

VARIABLES
    now,          \* time.Now
    val,          \* feePricesCache.val
    lastUpdated,  \* feePricesCache.lastUpdated
    pc, asset,    \* where a request is, and the kind of its currency
    prices,       \* the feePrices it has got
    quote,        \* the prices and the time of its fee estimate
    tx            \* how far its transaction is

vars == <<now, val, lastUpdated, pc, asset, prices, quote, tx>>

Prices   == [at : Nat, complete : BOOLEAN]
NoPrices == [at |-> 0, complete |-> FALSE]     \* the zero feePrices
NoQuote  == [of |-> NoPrices, when |-> 0]
Assets   == {"native", "erc20", "erc1155"}

\* The zero time is long ago.
Never == -(Expiration + 1)

All(x) == [r \in Requests |-> x]

Init ==
    /\ now = 0 /\ val = NoPrices /\ lastUpdated = Never
    /\ pc = All("idle") /\ asset = All("native") /\ prices = All(NoPrices)
    /\ quote = All(NoQuote) /\ tx = All("none")

Goto(r, p) == pc' = [pc EXCEPT ![r] = p]
Unshared == <<now, val, lastUpdated>>

-----------------------------------------------------------------------------
(* CreateTransfer.                                                          *)

\* An erc-1155 currency is refused; else the node makes a transaction, or for a
\* token estimates what it takes.
Begin(r, a) ==
    /\ pc[r] = "idle"
    /\ asset' = [asset EXCEPT ![r] = a]
    /\ Goto(r, IF a = "erc1155" THEN "failed" ELSE "build")
    /\ UNCHANGED <<Unshared, prices, quote, tx>>

\* The node makes the native transaction, or estimates the energy of a token.
Built(r) ==
    /\ pc[r] = "build"
    /\ tx' = [tx EXCEPT ![r] = IF asset[r] = "native" THEN "made" ELSE "estimated"]
    /\ Goto(r, "look")
    /\ UNCHANGED <<Unshared, asset, prices, quote>>

\* A call fails, or its answer says error.
NodeFails(r) ==
    /\ pc[r] \in {"build", "ask", "trigger"}
    /\ Goto(r, "failed")
    /\ UNCHANGED <<Unshared, asset, prices, quote, tx>>

\* SimpleExpirationCache.Get
IsValidInclusive == now - lastUpdated <= Expiration
IsValid == now - lastUpdated < Expiration

\* GetFeePrices: a hit, or a miss that is followed by a call.
Look(r) ==
    /\ pc[r] = "look"
    /\ IF IsValid
       THEN prices' = [prices EXCEPT ![r] = val] /\ Goto(r, "estimate")
       ELSE UNCHANGED prices /\ Goto(r, "ask")
    /\ UNCHANGED <<Unshared, asset, quote, tx>>

\* GetChainParameters: the node answers, with both prices or not.
Asked(r, c) ==
    /\ pc[r] = "ask"
    /\ prices' = [prices EXCEPT ![r] = [at |-> now, complete |-> c]]
    /\ Goto(r, "set")
    /\ UNCHANGED <<Unshared, asset, quote, tx>>

\* SimpleExpirationCache.Set, of whatever came, whatever others have set.
SetTimeOfEnd == now + Expiration
SetTime == now

Set(r) ==
    /\ pc[r] = "set"
    /\ val' = prices[r]
    /\ lastUpdated' = SetTime
    /\ Goto(r, "estimate")
    /\ UNCHANGED <<now, asset, prices, quote, tx>>

\* estimateFee: native transfers are done, those of tokens are made now.
AfterEstimateOfNative(r) == "done"
AfterEstimate(r) == IF tx[r] = "made" THEN "done" ELSE "trigger"

Estimate(r) ==
    /\ pc[r] = "estimate" /\ prices[r].complete
    /\ quote' = [quote EXCEPT ![r] = [of |-> prices[r], when |-> now]]
    /\ Goto(r, AfterEstimate(r))
    /\ UNCHANGED <<Unshared, asset, prices, tx>>

\* Mul with a price that is nil panics, the recovery handler panics again.
Panic(r) ==
    /\ pc[r] = "estimate" /\ ~ prices[r].complete
    /\ val' = NoPrices /\ lastUpdated' = Never
    /\ pc' = All("idle") /\ asset' = All("native") /\ prices' = All(NoPrices)
    /\ quote' = All(NoQuote) /\ tx' = All("none")
    /\ UNCHANGED now

\* TriggerSmartContract: the node makes the transaction of the token.
Triggered(r) ==
    /\ pc[r] = "trigger"
    /\ tx' = [tx EXCEPT ![r] = "made"]
    /\ Goto(r, "done")
    /\ UNCHANGED <<Unshared, asset, prices, quote>>

\* The request is over, or its caller is gone.
Leave(r) ==
    /\ pc[r] \in {"done", "failed"}
    /\ pc'     = [pc EXCEPT ![r] = "idle"]
    /\ asset'  = [asset EXCEPT ![r] = "native"]
    /\ prices' = [prices EXCEPT ![r] = NoPrices]
    /\ quote'  = [quote EXCEPT ![r] = NoQuote]
    /\ tx'     = [tx EXCEPT ![r] = "none"]
    /\ UNCHANGED Unshared

\* Computing takes no time; MaxCall is what the answer takes to be set.
Tick ==
    /\ now < MaxNow
    /\ \A r \in Requests : pc[r] # "estimate"
    /\ \A r \in Requests : pc[r] = "set" => now - prices[r].at < MaxCall
    /\ now' = now + 1
    /\ UNCHANGED <<val, lastUpdated, pc, asset, prices, quote, tx>>

Request(r) ==
    \/ \E a \in Assets : Begin(r, a)
    \/ Built(r) \/ NodeFails(r) \/ Look(r)
    \/ \E c \in Complete : Asked(r, c)
    \/ Set(r) \/ Estimate(r) \/ Panic(r) \/ Triggered(r) \/ Leave(r)

Next == (\E r \in Requests : Request(r)) \/ Tick

Spec == Init /\ [][Next]_vars

-----------------------------------------------------------------------------
(* Properties.                                                              *)

TypeOK ==
    /\ now \in 0..MaxNow
    /\ val \in Prices /\ lastUpdated \in {Never} \cup 0..now
    /\ pc \in [Requests -> {"idle", "build", "look", "ask", "set", "estimate",
                           "trigger", "done", "failed"}]
    /\ asset \in [Requests -> Assets]
    /\ prices \in [Requests -> Prices]
    /\ quote \in [Requests -> [of : Prices, when : Nat]]
    /\ tx \in [Requests -> {"none", "estimated", "made"}]

\* An intent comes with a transaction that the node has made, and with a fee in
\* which both prices are counted, of one answer of the node (126-235).
IntentIsWhole ==
    \A r \in Requests : pc[r] = "done" =>
        /\ tx[r] = "made" /\ asset[r] # "erc1155"
        /\ quote[r].of.complete

\* A fee is estimated from prices that the node gave less than Expiration +
\* MaxCall ago, although slow requests put older answers over newer ones and
\* stamp them with the time of the Set (90-106, cache.go 38-49).
FeesAreFresh ==
    \A r \in Requests : pc[r] \in {"trigger", "done"} =>
        quote[r].when - quote[r].of.at < Expiration + MaxCall
=============================================================================
