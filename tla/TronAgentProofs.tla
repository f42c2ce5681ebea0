-------------------------- MODULE TronAgentProofs --------------------------
(***************************************************************************)
(* The shared fee prices of the Tron agent: for any number of requests,    *)
(* expiration and duration of calls, fees are estimated from prices that   *)
(* are less than Expiration + MaxCall old, and intents are whole.          *)
(***************************************************************************)
EXTENDS TronAgent, TLAPS

\* How old the cached prices can be when they are set, and the prices that a
\* request has in hand.
CacheAge == lastUpdated # Never => lastUpdated - val.at <= MaxCall
HeldAge(r) ==
    /\ pc[r] = "set" => now - prices[r].at <= MaxCall
    /\ pc[r] = "estimate" => now - prices[r].at < Expiration + MaxCall

\* What has been made of a transaction before its fee is known, and after.
Progress(r) ==
    /\ pc[r] \in {"look", "ask", "set", "estimate"} =>
         /\ asset[r] \in {"native", "erc20"}
         /\ tx[r] \in {"estimated", "made"}
    /\ pc[r] \in {"build", "trigger", "done"} => asset[r] \in {"native", "erc20"}
    /\ pc[r] \in {"trigger", "done"} => quote[r].of.complete
    /\ pc[r] = "done" => tx[r] = "made"

FreshQuote(r) == pc[r] \in {"trigger", "done"} =>
                     quote[r].when - quote[r].of.at < Expiration + MaxCall

PerRequest(r) == HeldAge(r) /\ Progress(r) /\ FreshQuote(r)

IInv == TypeOK /\ CacheAge /\ \A r \in Requests : PerRequest(r)

THEOREM InitHolds == Init => IInv
<1> SUFFICES ASSUME Init PROVE IInv OBVIOUS
<1>1. NoPrices \in Prices /\ NoQuote \in [of : Prices, when : Nat]
  BY DEF NoPrices, NoQuote, Prices
<1>2. TypeOK BY <1>1, TimeAssumption DEF Init, TypeOK, All, Assets, Never
<1>3. CacheAge BY DEF Init, CacheAge
<1>4. ASSUME NEW r \in Requests PROVE PerRequest(r)
  <2>1. pc[r] = "idle" BY DEF Init, All
  <2> QED BY <2>1 DEF PerRequest, HeldAge, Progress, FreshQuote
<1> QED BY <1>2, <1>3, <1>4 DEF IInv

\* A step of one request that leaves the cache and the clock alone says nothing
\* new of the others.
LEMMA OthersKeep ==
    ASSUME IInv, NEW r \in Requests, UNCHANGED <<now, val, lastUpdated>>, TypeOK',
           \A q \in Requests \ {r} : /\ pc'[q] = pc[q] /\ asset'[q] = asset[q]
                                     /\ prices'[q] = prices[q] /\ quote'[q] = quote[q]
                                     /\ tx'[q] = tx[q],
           PerRequest(r)'
    PROVE  IInv'
<1>1. CacheAge' BY DEF IInv, CacheAge, Never
<1>2. ASSUME NEW q \in Requests \ {r} PROVE PerRequest(q)'
  <2>1. PerRequest(q) BY DEF IInv
  <2> QED BY <2>1 DEF PerRequest, HeldAge, Progress, FreshQuote
<1> QED BY <1>1, <1>2 DEF IInv

\* Steps that neither read the cache nor take or use prices.
LEMMA PlainHolds ==
    ASSUME IInv, NEW r \in Requests,
           (\E a \in Assets : Begin(r, a)) \/ Built(r) \/ NodeFails(r)
           \/ Triggered(r) \/ Leave(r)
    PROVE  IInv'
<1>1. TypeOK /\ PerRequest(r) BY DEF IInv
<1>2. CASE \E a \in Assets : Begin(r, a)
  <2>1. PICK a \in Assets : Begin(r, a) BY <1>2
  <2>2. TypeOK' BY <1>1, <2>1 DEF TypeOK, Begin, Goto, Unshared
  <2>3. PerRequest(r)'
    BY <1>1, <2>1 DEF TypeOK, Begin, Goto, Assets, PerRequest, HeldAge, Progress, FreshQuote
  <2> QED BY <1>1, <2>1, <2>2, <2>3, OthersKeep DEF TypeOK, Begin, Goto, Unshared
<1>3. CASE Built(r)
  <2>1. TypeOK' BY <1>1, <1>3 DEF TypeOK, Built, Goto, Unshared
  <2>2. PerRequest(r)'
    BY <1>1, <1>3 DEF TypeOK, Built, Goto, PerRequest, HeldAge, Progress, FreshQuote
  <2> QED BY <1>1, <1>3, <2>1, <2>2, OthersKeep DEF TypeOK, Built, Goto, Unshared
<1>4. CASE NodeFails(r)
  <2>1. TypeOK' BY <1>1, <1>4 DEF TypeOK, NodeFails, Goto, Unshared
  <2>2. PerRequest(r)'
    BY <1>1, <1>4 DEF TypeOK, NodeFails, Goto, PerRequest, HeldAge, Progress, FreshQuote
  <2> QED BY <1>1, <1>4, <2>1, <2>2, OthersKeep DEF TypeOK, NodeFails, Goto, Unshared
<1>5. CASE Triggered(r)
  <2>1. TypeOK' BY <1>1, <1>5 DEF TypeOK, Triggered, Goto, Unshared
  <2>2. PerRequest(r)'
    BY <1>1, <1>5 DEF TypeOK, Triggered, Goto, PerRequest, HeldAge, Progress, FreshQuote
  <2> QED BY <1>1, <1>5, <2>1, <2>2, OthersKeep DEF TypeOK, Triggered, Goto, Unshared
<1>6. CASE Leave(r)
  <2>1. NoPrices \in Prices /\ NoQuote \in [of : Prices, when : Nat]
    BY DEF NoPrices, NoQuote, Prices
  <2>2. TypeOK' BY <1>1, <1>6, <2>1 DEF TypeOK, Leave, Unshared, Assets
  <2>3. PerRequest(r)'
    BY <1>1, <1>6 DEF TypeOK, Leave, PerRequest, HeldAge, Progress, FreshQuote
  <2> QED BY <1>1, <1>6, <2>2, <2>3, OthersKeep DEF TypeOK, Leave, Unshared
<1> QED BY <1>2, <1>3, <1>4, <1>5, <1>6

\* A hit: the prices were MaxCall old at most when they were set, and that was
\* less than Expiration ago.
LEMMA LookHolds ==
    ASSUME IInv, NEW r \in Requests, Look(r)
    PROVE  IInv'
<1>1. TypeOK /\ PerRequest(r) /\ CacheAge BY DEF IInv
<1>2. CASE IsValid
  <2>1. TypeOK' BY <1>1, <1>2 DEF TypeOK, Look, Goto, Unshared
  <2>2. lastUpdated # Never /\ lastUpdated \in Nat
    BY <1>1, <1>2, TimeAssumption DEF IsValid, Never, TypeOK
  <2>3. now \in Nat /\ val.at \in Nat BY <1>1, TimeAssumption DEF TypeOK, Prices
  <2>4. now - val.at < Expiration + MaxCall
    BY <1>1, <1>2, <2>2, <2>3, TimeAssumption DEF IsValid, CacheAge
  <2>5. PerRequest(r)'
    BY <1>1, <1>2, <2>4
    DEF TypeOK, Look, Goto, Unshared, PerRequest, HeldAge, Progress, FreshQuote
  <2> QED BY <1>1, <1>2, <2>1, <2>5, OthersKeep DEF TypeOK, Look, Goto, Unshared
<1>3. CASE ~ IsValid
  <2>1. TypeOK' BY <1>1, <1>3 DEF TypeOK, Look, Goto, Unshared
  <2>2. PerRequest(r)'
    BY <1>1, <1>3 DEF TypeOK, Look, Goto, PerRequest, HeldAge, Progress, FreshQuote
  <2> QED BY <1>1, <1>3, <2>1, <2>2, OthersKeep DEF TypeOK, Look, Goto, Unshared
<1> QED BY <1>2, <1>3

LEMMA AskedHolds ==
    ASSUME IInv, NEW r \in Requests, NEW c \in Complete, Asked(r, c)
    PROVE  IInv'
<1>1. TypeOK /\ PerRequest(r) BY DEF IInv
<1>2. now \in Nat /\ [at |-> now, complete |-> c] \in Prices
  BY <1>1, TimeAssumption, CompleteAssumption DEF TypeOK, Prices
<1>3. TypeOK' BY <1>1, <1>2 DEF TypeOK, Asked, Goto, Unshared
<1>4. now - now <= MaxCall BY <1>2, TimeAssumption
<1>5. PerRequest(r)'
  BY <1>1, <1>2, <1>4
  DEF TypeOK, Asked, Goto, Unshared, PerRequest, HeldAge, Progress, FreshQuote
<1> QED BY <1>1, <1>3, <1>5, OthersKeep DEF TypeOK, Asked, Goto, Unshared

\* The Set: what the cache holds now was answered at most MaxCall ago.
LEMMA SetHolds ==
    ASSUME IInv, NEW r \in Requests, Set(r)
    PROVE  IInv'
<1>1. TypeOK /\ PerRequest(r) BY DEF IInv
<1>2. /\ pc[r] = "set" /\ pc' = [pc EXCEPT ![r] = "estimate"]
      /\ val' = prices[r] /\ lastUpdated' = now
      /\ UNCHANGED <<now, asset, prices, quote, tx>>
  BY DEF Set, Goto, SetTime
<1>3. now \in Nat /\ prices[r].at \in Nat
  BY <1>1, TimeAssumption DEF TypeOK, Prices
<1>4. now - prices[r].at <= MaxCall BY <1>1, <1>2 DEF PerRequest, HeldAge
<1>5. TypeOK' BY <1>1, <1>2, <1>3, TimeAssumption DEF TypeOK
<1>6. CacheAge' BY <1>2, <1>4 DEF CacheAge
<1>7. now - prices[r].at < Expiration + MaxCall
  BY <1>3, <1>4, TimeAssumption
<1>8. PerRequest(r)'
  BY <1>1, <1>2, <1>7 DEF TypeOK, PerRequest, HeldAge, Progress, FreshQuote
<1>9. ASSUME NEW q \in Requests \ {r} PROVE PerRequest(q)'
  <2>1. PerRequest(q) BY DEF IInv
  <2> QED BY <1>1, <1>2, <2>1 DEF TypeOK, PerRequest, HeldAge, Progress, FreshQuote
<1> QED BY <1>5, <1>6, <1>8, <1>9 DEF IInv

LEMMA EstimateHolds ==
    ASSUME IInv, NEW r \in Requests, Estimate(r)
    PROVE  IInv'
<1>1. TypeOK /\ PerRequest(r) BY DEF IInv
<1> DEFINE t == [of |-> prices[r], when |-> now]
<1>2. /\ pc[r] = "estimate" /\ prices[r].complete
      /\ pc' = [pc EXCEPT ![r] = IF tx[r] = "made" THEN "done" ELSE "trigger"]
      /\ quote' = [quote EXCEPT ![r] = t]
      /\ UNCHANGED <<now, val, lastUpdated, asset, prices, tx>>
  BY DEF Estimate, Goto, AfterEstimate, Unshared
<1>3. t \in [of : Prices, when : Nat] /\ t.of = prices[r] /\ t.when = now
  BY <1>1, TimeAssumption DEF TypeOK
<1> HIDE DEF t
<1>4. TypeOK' BY <1>1, <1>2, <1>3 DEF TypeOK
<1>5. now - prices[r].at < Expiration + MaxCall
  BY <1>1, <1>2 DEF PerRequest, HeldAge
<1>6. quote'[r] = t /\ pc'[r] = (IF tx[r] = "made" THEN "done" ELSE "trigger")
  BY <1>1, <1>2 DEF TypeOK
<1>7. PerRequest(r)'
  BY <1>1, <1>2, <1>3, <1>5, <1>6 DEF PerRequest, HeldAge, Progress, FreshQuote
<1> QED BY <1>1, <1>2, <1>4, <1>7, OthersKeep DEF TypeOK

\* The agent starts again: nothing is left.
LEMMA PanicHolds ==
    ASSUME IInv, NEW r \in Requests, Panic(r)
    PROVE  IInv'
<1>1. TypeOK BY DEF IInv
<1>2. NoPrices \in Prices /\ NoQuote \in [of : Prices, when : Nat]
  BY DEF NoPrices, NoQuote, Prices
<1>3. TypeOK' BY <1>1, <1>2 DEF TypeOK, Panic, All, Assets
<1>4. CacheAge' BY DEF Panic, CacheAge, Never
<1>5. ASSUME NEW q \in Requests PROVE PerRequest(q)'
  <2>1. pc'[q] = "idle" BY DEF Panic, All
  <2> QED BY <2>1 DEF PerRequest, HeldAge, Progress, FreshQuote
<1> QED BY <1>3, <1>4, <1>5 DEF IInv

LEMMA TickHolds ==
    ASSUME IInv, Tick
    PROVE  IInv'
<1>1. TypeOK BY DEF IInv
<1>2. now \in Nat /\ now' = now + 1 /\ UNCHANGED <<val, lastUpdated, pc, asset, prices, quote, tx>>
  BY <1>1, TimeAssumption DEF TypeOK, Tick
<1>3. TypeOK' BY <1>1, <1>2, TimeAssumption DEF TypeOK, Tick
<1>4. CacheAge' BY <1>2 DEF IInv, CacheAge, Never
<1>5. ASSUME NEW r \in Requests PROVE PerRequest(r)'
  <2>1. PerRequest(r) BY DEF IInv
  <2>2. prices[r].at \in Nat BY <1>1 DEF TypeOK, Prices
  <2>3. pc[r] # "estimate" /\ (pc[r] = "set" => now - prices[r].at < MaxCall)
    BY DEF Tick
  <2>4. HeldAge(r)' BY <1>2, <2>2, <2>3, TimeAssumption DEF HeldAge
  <2> QED BY <1>2, <2>1, <2>4 DEF PerRequest, Progress, FreshQuote
<1> QED BY <1>3, <1>4, <1>5 DEF IInv

LEMMA StutterHolds == ASSUME IInv, UNCHANGED vars PROVE IInv'
BY DEF IInv, vars, TypeOK, CacheAge, Never, PerRequest, HeldAge, Progress, FreshQuote

THEOREM InvariantHolds == Spec => []IInv
<1>1. IInv /\ [Next]_vars => IInv'
  <2> SUFFICES ASSUME IInv, [Next]_vars PROVE IInv' OBVIOUS
  <2>1. ASSUME NEW r \in Requests, Request(r) PROVE IInv'
    BY <2>1, PlainHolds, LookHolds, AskedHolds, SetHolds, EstimateHolds, PanicHolds
    DEF Request
  <2> QED BY <2>1, TickHolds, StutterHolds DEF Next
<1> QED BY InitHolds, <1>1, PTL DEF Spec

\* All variables keep their types; the cache is never stamped with a time to come.
THEOREM TronTypes == Spec => []TypeOK
<1>1. IInv => TypeOK BY DEF IInv
<1> QED BY <1>1, InvariantHolds, PTL

\* What CreateTransfer returns has a transaction and a fee of both prices.
THEOREM IntentsAreWhole == Spec => []IntentIsWhole
<1>1. IInv => IntentIsWhole BY DEF IInv, PerRequest, Progress, IntentIsWhole
<1> QED BY <1>1, InvariantHolds, PTL

\* Fees are estimated from prices less than Expiration + MaxCall old.
THEOREM FeesStayFresh == Spec => []FeesAreFresh
<1>1. IInv => FeesAreFresh BY DEF IInv, PerRequest, FreshQuote, FeesAreFresh
<1> QED BY <1>1, InvariantHolds, PTL
=============================================================================
