-------------------------- MODULE ConstructProofs --------------------------
(***************************************************************************)
(* Types of ConstructService, and that it implements PayOnce, for any      *)
(* number of transfers, networks and nodes, all prices and all gas.        *)
(***************************************************************************)
EXTENDS ConstructService, SequenceTheorems, TLAPS

Executed == [of : Transfers, cost : Nat]

\* A transfer that a node executes, and what it costs.
Bill(t, used) == [of |-> t, cost |-> used * raw[t].price]
Includes(n, k, t, used) ==
    /\ t \in pool[n][k] /\ raw[t].nonce = Height(n) /\ used \in 1..raw[t].gas
    /\ executed' = [executed EXCEPT ![n] = Append(@, Bill(t, used))]

LEMMA Product ==
    ASSUME NEW a \in Nat, NEW b \in Nat
    PROVE  a * b \in Nat
OBVIOUS

LEMMA RangeIsNat ==
    ASSUME NEW e, NEW i \in 0..e
    PROVE  i \in Nat
OBVIOUS

LEMMA UsedIsNat ==
    ASSUME NEW e, NEW i \in 1..e
    PROVE  i \in Nat
OBVIOUS

LEMMA AppendType ==
    ASSUME NEW S, NEW s \in Seq(S), NEW e \in S
    PROVE  Append(s, e) \in Seq(S)
OBVIOUS

LEMMA ProductMonotonic ==
    ASSUME NEW a \in Nat, NEW b \in Nat, NEW p \in Nat, a <= b
    PROVE  a * p <= b * p
<1>1. PICK d \in Nat : b = a + d OBVIOUS
<1>2. b * p = a * p + d * p BY <1>1
<1>3. d * p \in Nat /\ a * p \in Nat BY Product
<1> QED BY <1>2, <1>3

-----------------------------------------------------------------------------

LEMMA MineIncludes ==
    ASSUME NEW n \in Networks, Mine(n)
    PROVE  \E k \in Nodes : \E t \in pool[n][k], used \in Nat : Includes(n, k, t, used)
<1>1. PICK k \in Nodes : \E t \in pool[n][k] :
          /\ raw[t].nonce = Height(n)
          /\ \E used \in 1..raw[t].gas :
               executed' = [executed EXCEPT ![n] = Append(@, Bill(t, used))]
  BY DEF Mine, Bill
<1>2. PICK t \in pool[n][k] :
          /\ raw[t].nonce = Height(n)
          /\ \E used \in 1..raw[t].gas :
               executed' = [executed EXCEPT ![n] = Append(@, Bill(t, used))]
  BY <1>1
<1>3. PICK used \in 1..raw[t].gas :
          executed' = [executed EXCEPT ![n] = Append(@, Bill(t, used))]
  BY <1>2
<1>4. used \in Nat BY UsedIsNat
<1> QED BY <1>2, <1>3, <1>4 DEF Includes

LEMMA InitTypes == Init => TypeOK
<1> SUFFICES ASSUME Init PROVE TypeOK OBVIOUS
<1>1. (CHOOSE n \in Networks : TRUE) \in Networks BY NetworkAssumption
<1>2. net \in [Transfers -> Networks] BY <1>1 DEF Init, All
<1>3. executed \in [Networks -> Seq([of : Transfers, cost : Nat])] BY DEF Init
<1>4. raw \in [Transfers -> Raw] BY DEF Init, All, Raw, NoRaw, NewTransaction
<1>5. pc = [t \in Transfers |-> "idle"] /\ asset = [t \in Transfers |-> "native"]
  BY DEF Init, All
<1>6. /\ fee \in [Transfers -> Nat]
      /\ signer \in [Transfers -> {"none", "own", "other"}]
      /\ answer \in [Transfers -> {"none", "ok", "error"}]
  BY DEF Init, All
<1>7. pool \in [Networks -> [Nodes -> SUBSET Transfers]] BY DEF Init
<1>8. /\ pc \in [Transfers -> {"idle", "price", "gas", "intent", "failed"}]
      /\ asset \in [Transfers -> Assets]
      /\ \A t \in Transfers : pc[t] = "gas" => asset[t] = "erc20"
  BY <1>5 DEF Assets
<1> QED BY <1>2, <1>3, <1>4, <1>6, <1>7, <1>8 DEF TypeOK

\* The types of what CreateTransfer changes.
LEMMA CreateTypes ==
    ASSUME TypeOK, NEW t \in Transfers,
           \/ \E n \in Networks, a \in Assets : AskNonce(t, n, a)
           \/ AskPrice(t) \/ AskGas(t) \/ Fails(t) \/ Again(t)
    PROVE  TypeOK'
<1> USE DEF TypeOK
<1>1. ASSUME NEW n \in Networks, NEW a \in Assets, AskNonce(t, n, a) PROVE TypeOK'
  <2>1. PICK i \in Nat : raw' = [raw EXCEPT ![t] = NewTransaction(i, 0, 0)]
    <3>1. PICK k \in Nodes : \E j \in 0..PendingNonce(n, k) :
                raw' = [raw EXCEPT ![t] = NewTransaction(j, 0, 0)]
      BY <1>1 DEF AskNonce
    <3>2. PICK j \in 0..PendingNonce(n, k) : raw' = [raw EXCEPT ![t] = NewTransaction(j, 0, 0)]
      BY <3>1
    <3>3. j \in Nat BY RangeIsNat
    <3> QED BY <3>2, <3>3
  <2>2. raw' \in [Transfers -> Raw] BY <2>1 DEF Raw, NewTransaction
  <2>3. /\ net' \in [Transfers -> Networks] /\ asset' \in [Transfers -> Assets]
        /\ pc' = [pc EXCEPT ![t] = "price"] /\ asset' = [asset EXCEPT ![t] = a]
    BY <1>1 DEF AskNonce, Goto
  <2>4. /\ pc' \in [Transfers -> {"idle", "price", "gas", "intent", "failed"}]
        /\ \A r \in Transfers : pc'[r] = "gas" => asset'[r] = "erc20"
    BY <2>3
  <2>5. UNCHANGED <<fee, signer, answer, pool, executed>> BY <1>1 DEF AskNonce, chain
  <2> QED BY <2>2, <2>3, <2>4, <2>5
<1>2. CASE AskPrice(t)
  <2>1. PICK p \in Prices : /\ raw' = [raw EXCEPT ![t] = NewTransaction(@.nonce, NativeGas, p)]
                            /\ fee' = [fee EXCEPT ![t] = NativeGas * p]
    BY <1>2 DEF AskPrice
  <2>2. p \in Nat /\ NativeGas \in Nat BY GasAssumption
  <2>3. raw' \in [Transfers -> Raw] BY <2>1, <2>2 DEF Raw, NewTransaction
  <2>4. fee' \in [Transfers -> Nat] BY <2>1, <2>2, Product
  <2>5. asset[t] \in Assets /\ asset' = asset BY <1>2 DEF AskPrice
  <2>6. /\ AfterPrice(asset[t]) \in {"intent", "gas", "failed"}
        /\ AfterPrice(asset[t]) = "gas" => asset[t] = "erc20"
    BY <2>5 DEF AfterPrice, Assets
  <2>7. pc' = [pc EXCEPT ![t] = AfterPrice(asset[t])] BY <1>2 DEF AskPrice, Goto
  <2>8. /\ pc' \in [Transfers -> {"idle", "price", "gas", "intent", "failed"}]
        /\ \A r \in Transfers : pc'[r] = "gas" => asset'[r] = "erc20"
    BY <2>5, <2>6, <2>7
  <2> QED BY <1>2, <2>3, <2>4, <2>8 DEF AskPrice, chain
<1>3. CASE AskGas(t)
  <2>1. PICK g \in TokenGas : /\ raw' = [raw EXCEPT ![t] = NewTransaction(@.nonce, g, @.price)]
                              /\ fee' = [fee EXCEPT ![t] = g * raw[t].price]
    BY <1>3 DEF AskGas, GasEstimate
  <2>2. g \in Nat /\ raw[t].price \in Nat BY GasAssumption DEF Raw
  <2>3. raw' \in [Transfers -> Raw] BY <2>1, <2>2 DEF Raw, NewTransaction
  <2>4. fee' \in [Transfers -> Nat] BY <2>1, <2>2, Product
  <2>5. pc' = [pc EXCEPT ![t] = "intent"] /\ UNCHANGED <<net, asset, signer, answer, pool, executed>>
    BY <1>3 DEF AskGas, Goto, chain
  <2>6. /\ pc' \in [Transfers -> {"idle", "price", "gas", "intent", "failed"}]
        /\ \A r \in Transfers : pc'[r] = "gas" => asset'[r] = "erc20"
    BY <2>5
  <2> QED BY <2>3, <2>4, <2>5, <2>6
<1>4. CASE Fails(t) BY <1>4 DEF Fails, Goto, intents, chain
<1>5. CASE Again(t)
  <2>1. raw' \in [Transfers -> Raw] BY <1>5 DEF Again, Raw, NoRaw, NewTransaction
  <2> QED BY <1>5, <2>1 DEF Again, Goto, chain
<1> QED BY <1>1, <1>2, <1>3, <1>4, <1>5

LEMMA JoinTypes ==
    ASSUME TypeOK, NEW t \in Transfers, NEW n \in Networks, NEW k \in Nodes, Join(t, n, k)
    PROVE  pool' \in [Networks -> [Nodes -> SUBSET Transfers]]
BY DEF TypeOK, Join, Rivals

LEMMA NextTypes == TypeOK /\ [Next]_vars => TypeOK'
<1> SUFFICES ASSUME TypeOK, [Next]_vars PROVE TypeOK' OBVIOUS
<1> USE DEF TypeOK
<1>1. ASSUME NEW t \in Transfers,
             \/ \E n \in Networks, a \in Assets : AskNonce(t, n, a)
             \/ AskPrice(t) \/ AskGas(t) \/ Fails(t) \/ Again(t)
      PROVE  TypeOK'
  BY <1>1, CreateTypes
<1>2. ASSUME NEW t \in Transfers, NEW s \in {"own", "other"}, Sign(t, s) PROVE TypeOK'
  BY <1>2 DEF Sign, intents, chain
<1>3. ASSUME NEW t \in Transfers, NEW n \in Networks, Send(t, n) PROVE TypeOK'
  <2>1. pool' \in [Networks -> [Nodes -> SUBSET Transfers]]
    BY <1>3, JoinTypes DEF Send
  <2>2. answer' \in [Transfers -> {"none", "ok", "error"}]
    BY <1>3 DEF Send
  <2>3. UNCHANGED <<pc, net, asset, raw, fee, signer, executed>> BY <1>3 DEF Send, intents
  <2> QED BY <2>1, <2>2, <2>3
<1>4. ASSUME NEW t \in Transfers, SendUnsigned(t) PROVE TypeOK'
  <2>1. /\ pc' = [r \in Transfers |-> IF pc[r] \in {"price", "gas"} THEN "failed" ELSE pc[r]]
        /\ UNCHANGED <<net, asset, raw, fee, signer, answer, pool, executed>>
    BY <1>4 DEF SendUnsigned, intents, chain
  <2>2. /\ pc' \in [Transfers -> {"idle", "price", "gas", "intent", "failed"}]
        /\ \A r \in Transfers : pc'[r] # "gas"
    BY <2>1
  <2> QED BY <2>1, <2>2
<1>5. ASSUME NEW n \in Networks, Gossip(n) PROVE TypeOK'
  <2>1. pool' \in [Networks -> [Nodes -> SUBSET Transfers]]
    <3>1. PICK k \in Nodes, l \in Nodes : \E t \in pool[n][k] : Join(t, n, l)
      BY <1>5 DEF Gossip
    <3>2. PICK t \in pool[n][k] : Join(t, n, l) BY <3>1
    <3>3. t \in Transfers OBVIOUS
    <3> QED BY <3>2, <3>3, JoinTypes
  <2>2. UNCHANGED <<pc, net, asset, raw, fee, signer, answer, executed>>
    BY <1>5 DEF Gossip, intents
  <2> QED BY <2>1, <2>2
<1>6. ASSUME NEW n \in Networks, Mine(n) PROVE TypeOK'
  <2>0. PICK k \in Nodes : \E t \in pool[n][k], used \in Nat : Includes(n, k, t, used)
    BY <1>6, MineIncludes
  <2>1. PICK t \in pool[n][k], used \in Nat : Includes(n, k, t, used)
    BY <2>0
  <2>2. /\ used * raw[t].price \in Nat /\ t \in Transfers
        /\ Bill(t, used) \in Executed
    BY Product DEF Raw, Bill, Executed
  <2>3. Append(executed[n], Bill(t, used)) \in Seq(Executed)
    BY <2>2, AppendType DEF Executed
  <2>5. executed' \in [Networks -> Seq(Executed)]
    BY <2>1, <2>3 DEF Includes, Executed
  <2>4. pool' \in [Networks -> [Nodes -> SUBSET Transfers]]
    BY <1>6 DEF Mine
  <2>6. UNCHANGED <<pc, net, asset, raw, fee, signer, answer>> BY <1>6 DEF Mine, intents
  <2> QED BY <2>4, <2>5, <2>6 DEF Executed
<1>7. CASE UNCHANGED vars BY <1>7 DEF vars
<1> QED BY <1>1, <1>2, <1>3, <1>4, <1>5, <1>6, <1>7 DEF Next, Transfer

\* The state of transfers, nodes and chains keeps its types, and only a token
\* transfer asks for gas (CreateTransfer, Send).
THEOREM ConstructTypes == Spec => []TypeOK
BY InitTypes, NextTypes, PTL DEF Spec

-----------------------------------------------------------------------------
(* Who signs, what waits and what is executed.                              *)

SignedAreIntents == \A t \in Transfers : signer[t] # "none" => pc[t] = "intent"
FeeIsLimit == \A t \in Transfers : pc[t] = "intent" => fee[t] = raw[t].gas * raw[t].price
IsOwn(t, n) == signer[t] = "own" /\ net[t] = n
PoolIsOwn == \A n \in Networks, k \in Nodes : \A t \in pool[n][k] : IsOwn(t, n)
\* Each nonce of the chain is of the transfer executed there, so that no
\* transfer is executed twice.
IsPaid(n, i) == LET e == executed[n][i]
                IN  /\ IsOwn(e.of, n) /\ raw[e.of].nonce = i - 1
                    /\ e.cost <= fee[e.of]
ChainIsOwn == \A n \in Networks : \A i \in 1..Height(n) : IsPaid(n, i)

Inv == TypeOK /\ SignedAreIntents /\ FeeIsLimit /\ PoolIsOwn /\ ChainIsOwn

LEMMA ExecutedTypes ==
    ASSUME TypeOK, NEW n \in Networks, NEW i \in 1..Height(n)
    PROVE  executed[n][i] \in Executed
<1>1. executed[n] \in Seq(Executed) BY DEF TypeOK, Executed
<1>2. i \in 1..Len(executed[n]) BY DEF Height
<1> QED BY <1>1, <1>2, ElementOfSeq

\* A transfer that is being prepared, and nothing else, changes.
Prepares(t) ==
    /\ signer[t] = "none" /\ UNCHANGED <<signer, chain>>
    /\ \A r \in Transfers \ {t} : /\ pc'[r] = pc[r] /\ net'[r] = net[r]
                                  /\ raw'[r] = raw[r] /\ fee'[r] = fee[r]
    /\ pc[t] # "intent"
    /\ pc'[t] = "intent" => fee'[t] = raw'[t].gas * raw'[t].price

LEMMA CreatePrepares ==
    ASSUME Inv, NEW t \in Transfers,
           \/ \E n \in Networks, a \in Assets : AskNonce(t, n, a)
           \/ AskPrice(t) \/ AskGas(t) \/ Fails(t) \/ Again(t)
    PROVE  Prepares(t)
<1> USE DEF Inv, SignedAreIntents, TypeOK
<1>1. ASSUME NEW n \in Networks, NEW a \in Assets, AskNonce(t, n, a) PROVE Prepares(t)
  <2>1. PICK k \in Nodes : \E j \in 0..PendingNonce(n, k) :
            raw' = [raw EXCEPT ![t] = NewTransaction(j, 0, 0)]
    BY <1>1 DEF AskNonce
  <2>2. \A r \in Transfers \ {t} : raw'[r] = raw[r] BY <2>1
  <2>3. /\ pc[t] = "idle" /\ pc' = [pc EXCEPT ![t] = "price"]
        /\ net' = [net EXCEPT ![t] = n] /\ UNCHANGED <<fee, signer, chain>>
    BY <1>1 DEF AskNonce, Goto, chain
  <2> QED BY <2>2, <2>3 DEF Prepares
<1>2. CASE AskPrice(t)
  <2>1. PICK p \in Prices : /\ raw' = [raw EXCEPT ![t] = NewTransaction(@.nonce, NativeGas, p)]
                            /\ fee' = [fee EXCEPT ![t] = NativeGas * p]
    BY <1>2 DEF AskPrice
  <2>2. fee'[t] = raw'[t].gas * raw'[t].price BY <2>1 DEF NewTransaction
  <2>3. \A r \in Transfers \ {t} : raw'[r] = raw[r] /\ fee'[r] = fee[r] BY <2>1
  <2>4. /\ pc[t] = "price" /\ pc' = [pc EXCEPT ![t] = AfterPrice(asset[t])]
        /\ UNCHANGED <<net, signer, chain>>
    BY <1>2 DEF AskPrice, Goto
  <2> QED BY <2>2, <2>3, <2>4 DEF Prepares
<1>3. CASE AskGas(t)
  <2>1. PICK g \in TokenGas : /\ raw' = [raw EXCEPT ![t] = NewTransaction(@.nonce, g, @.price)]
                              /\ fee' = [fee EXCEPT ![t] = g * raw[t].price]
    BY <1>3 DEF AskGas, GasEstimate
  <2>2. fee'[t] = raw'[t].gas * raw'[t].price BY <2>1 DEF NewTransaction
  <2>3. \A r \in Transfers \ {t} : raw'[r] = raw[r] /\ fee'[r] = fee[r] BY <2>1
  <2>4. /\ pc[t] = "gas" /\ pc' = [pc EXCEPT ![t] = "intent"]
        /\ UNCHANGED <<net, signer, chain>>
    BY <1>3 DEF AskGas, Goto
  <2> QED BY <2>2, <2>3, <2>4 DEF Prepares
<1>4. CASE Fails(t)
  <2>1. /\ pc[t] \in {"price", "gas"} /\ pc' = [pc EXCEPT ![t] = "failed"]
        /\ UNCHANGED <<net, raw, fee, signer, chain>>
    BY <1>4 DEF Fails, Goto, intents
  <2> QED BY <2>1 DEF Prepares
<1>5. CASE Again(t)
  <2>1. /\ pc[t] = "failed" /\ pc' = [pc EXCEPT ![t] = "idle"]
        /\ raw' = [raw EXCEPT ![t] = NoRaw] /\ fee' = [fee EXCEPT ![t] = 0]
        /\ UNCHANGED <<net, signer, chain>>
    BY <1>5 DEF Again, Goto
  <2> QED BY <2>1 DEF Prepares
<1> QED BY <1>1, <1>2, <1>3, <1>4, <1>5

\* What is signed does not change when another transfer is prepared.
LEMMA PreparedInv ==
    ASSUME Inv, TypeOK', NEW t \in Transfers, Prepares(t)
    PROVE  Inv'
<1> USE DEF Inv, Prepares
<1>1. \A r \in Transfers : signer[r] # "none" =>
          r # t /\ net'[r] = net[r] /\ raw'[r] = raw[r] /\ fee'[r] = fee[r] /\ pc'[r] = pc[r]
  OBVIOUS
<1>2. SignedAreIntents' BY <1>1 DEF SignedAreIntents
<1>3. FeeIsLimit' BY DEF FeeIsLimit
<1>4. PoolIsOwn'
  <2>1. \A n \in Networks, k \in Nodes : \A r \in pool[n][k] : r \in Transfers BY DEF TypeOK
  <2> QED BY <1>1, <2>1 DEF PoolIsOwn, IsOwn, chain
<1>5. ChainIsOwn'
  <2> SUFFICES ASSUME NEW n \in Networks, NEW i \in 1..Height(n) PROVE IsPaid(n, i)'
    BY DEF ChainIsOwn, Height, chain
  <2>1. IsPaid(n, i) BY DEF ChainIsOwn
  <2>2. executed[n][i].of \in Transfers BY ExecutedTypes DEF Executed
  <2> QED BY <1>1, <2>1, <2>2 DEF IsPaid, IsOwn, chain
<1> QED BY <1>2, <1>3, <1>4, <1>5
LEMMA SentInv ==
    ASSUME Inv, TypeOK', NEW t \in Transfers, NEW n \in Networks, NEW k \in Nodes,
           IsOwn(t, n), Join(t, n, k), UNCHANGED <<pc, intents, signer, executed>>
    PROVE  Inv'
<1>1. UNCHANGED <<pc, net, raw, fee, signer, executed>> BY DEF intents
<1>2. \A m \in Networks, l \in Nodes : pool'[m][l] \subseteq pool[m][l] \cup
                                           (IF m = n THEN {t} ELSE {})
  BY DEF Join, Inv, TypeOK
<1>3. PoolIsOwn' BY <1>1, <1>2 DEF Inv, PoolIsOwn, IsOwn
<1>4. ChainIsOwn' BY <1>1 DEF Inv, ChainIsOwn, IsPaid, IsOwn, Height
<1>5. SignedAreIntents' /\ FeeIsLimit' BY <1>1 DEF Inv, SignedAreIntents, FeeIsLimit
<1> QED BY <1>3, <1>4, <1>5 DEF Inv

\* What a network executes is its own and costs no more than was told.
LEMMA BillIsFair ==
    ASSUME Inv, NEW n \in Networks, NEW k \in Nodes, NEW t \in pool[n][k], NEW used \in Nat,
           Includes(n, k, t, used)
    PROVE  /\ t \in Transfers /\ IsOwn(t, n) /\ pc[t] = "intent"
           /\ used * raw[t].price \in Nat /\ used * raw[t].price <= fee[t]
           /\ Bill(t, used) \in Executed
<1>1. t \in Transfers BY DEF Inv, TypeOK
<1>2. IsOwn(t, n) BY DEF Inv, PoolIsOwn
<1>3. pc[t] = "intent" BY <1>1, <1>2 DEF Inv, SignedAreIntents, IsOwn
<1>4. fee[t] = raw[t].gas * raw[t].price BY <1>1, <1>3 DEF Inv, FeeIsLimit
<1>5. raw[t].gas \in Nat /\ raw[t].price \in Nat BY <1>1 DEF Inv, TypeOK, Raw
<1>6. used <= raw[t].gas BY <1>5 DEF Includes
<1>7. used * raw[t].price <= raw[t].gas * raw[t].price BY <1>5, <1>6, ProductMonotonic
<1>8. used * raw[t].price \in Nat BY <1>5, Product
<1> QED BY <1>1, <1>2, <1>3, <1>4, <1>7, <1>8 DEF Bill, Executed

\* The chain of n is what it was and one more.
LEMMA ChainGrows ==
    ASSUME TypeOK, NEW n \in Networks, NEW k \in Nodes, NEW t \in pool[n][k], NEW used \in Nat,
           Includes(n, k, t, used), Bill(t, used) \in Executed
    PROVE  /\ Height(n) \in Nat /\ Height(n)' = Height(n) + 1
           /\ executed'[n][Height(n) + 1] = Bill(t, used)
           /\ \A i \in 1..Height(n) : executed'[n][i] = executed[n][i]
           /\ \A m \in Networks \ {n} : executed'[m] = executed[m]
<1>1. executed[n] \in Seq(Executed) BY DEF TypeOK, Executed
<1>2. executed' = [executed EXCEPT ![n] = Append(executed[n], Bill(t, used))] BY DEF Includes
<1>3. executed'[n] = Append(executed[n], Bill(t, used)) BY <1>2 DEF TypeOK
<1>4. \A m \in Networks \ {n} : executed'[m] = executed[m] BY <1>2 DEF TypeOK
<1>5. Len(executed[n]) \in Nat BY <1>1, LenProperties
<1>6. /\ Len(executed'[n]) = Len(executed[n]) + 1
      /\ executed'[n][Len(executed[n]) + 1] = Bill(t, used)
      /\ \A i \in 1..Len(executed[n]) : executed'[n][i] = executed[n][i]
  BY <1>1, <1>3, AppendProperties
<1> QED BY <1>4, <1>5, <1>6 DEF Height

LEMMA MinedInv ==
    ASSUME Inv, TypeOK', NEW n \in Networks, Mine(n)
    PROVE  Inv'
<1>0. PICK k \in Nodes : \E t \in pool[n][k], used \in Nat : Includes(n, k, t, used)
  BY MineIncludes
<1>1. PICK t \in pool[n][k], used \in Nat : Includes(n, k, t, used) BY <1>0
<1>2. UNCHANGED <<pc, net, raw, fee, signer>> BY DEF Mine, intents
<1>3. \A m \in Networks, l \in Nodes : pool'[m][l] \subseteq pool[m][l]
  BY DEF Mine, Inv, TypeOK
<1>4. PoolIsOwn' BY <1>2, <1>3 DEF Inv, PoolIsOwn, IsOwn
<1>5. SignedAreIntents' /\ FeeIsLimit' BY <1>2 DEF Inv, SignedAreIntents, FeeIsLimit
<1>6. /\ IsOwn(t, n) /\ used * raw[t].price <= fee[t] /\ Bill(t, used) \in Executed
  BY <1>1, BillIsFair
<1>7. /\ Height(n) \in Nat /\ Height(n)' = Height(n) + 1
      /\ executed'[n][Height(n) + 1] = Bill(t, used)
      /\ \A i \in 1..Height(n) : executed'[n][i] = executed[n][i]
      /\ \A m \in Networks \ {n} : executed'[m] = executed[m]
  BY <1>1, <1>6, ChainGrows DEF Inv
<1>8. ChainIsOwn'
  <2> SUFFICES ASSUME NEW m \in Networks, NEW i \in 1..Height(m)' PROVE IsPaid(m, i)'
    BY DEF ChainIsOwn
  <2>1. CASE m # n \/ i # Height(n) + 1
    <3>1. i \in 1..Height(m) /\ executed'[m][i] = executed[m][i]
      BY <1>7, <2>1 DEF Height
    <3>2. IsPaid(m, i) BY <3>1 DEF Inv, ChainIsOwn
    <3> QED BY <1>2, <3>1, <3>2 DEF IsPaid, IsOwn
  <2>2. CASE m = n /\ i = Height(n) + 1
    <3>1. executed'[m][i] = Bill(t, used) BY <1>7, <2>2
    <3>2. raw[t].nonce = i - 1 BY <1>1, <1>7, <2>2 DEF Includes
    <3> QED BY <1>2, <1>6, <2>2, <3>1, <3>2 DEF IsPaid, IsOwn, Bill
  <2> QED BY <2>1, <2>2
<1> QED BY <1>4, <1>5, <1>8 DEF Inv
LEMMA InitInv == Init => Inv
<1> SUFFICES ASSUME Init PROVE Inv OBVIOUS
<1>1. TypeOK BY InitTypes
<1>2. /\ \A t \in Transfers : signer[t] = "none" /\ pc[t] = "idle"
      /\ \A n \in Networks : executed[n] = << >> /\ \A k \in Nodes : pool[n][k] = {}
  BY DEF Init, All
<1>3. \A n \in Networks : Height(n) = 0 BY <1>2 DEF Height
<1>4. ChainIsOwn BY <1>3 DEF ChainIsOwn
<1> QED BY <1>1, <1>2, <1>4 DEF Inv, SignedAreIntents, FeeIsLimit, PoolIsOwn

LEMMA NextInv == Inv /\ [Next]_vars => Inv'
<1> SUFFICES ASSUME Inv, [Next]_vars PROVE Inv' OBVIOUS
<1>0. TypeOK /\ TypeOK' BY NextTypes DEF Inv
<1>1. ASSUME NEW t \in Transfers,
             \/ \E n \in Networks, a \in Assets : AskNonce(t, n, a)
             \/ AskPrice(t) \/ AskGas(t) \/ Fails(t) \/ Again(t)
      PROVE  Inv'
  BY <1>0, <1>1, CreatePrepares, PreparedInv
<1>2. ASSUME NEW t \in Transfers, NEW s \in {"own", "other"}, Sign(t, s) PROVE Inv'
  <2>1. /\ pc[t] = "intent" /\ signer[t] = "none" /\ signer' = [signer EXCEPT ![t] = s]
        /\ UNCHANGED <<pc, net, raw, fee, pool, executed>>
    BY <1>2 DEF Sign, intents, chain
  <2>2. \A r \in Transfers : signer[r] = "own" => signer'[r] = "own" BY <2>1 DEF Inv, TypeOK
  <2>3. SignedAreIntents' BY <2>1 DEF Inv, SignedAreIntents, TypeOK
  <2>4. FeeIsLimit' BY <2>1 DEF Inv, FeeIsLimit
  <2>5. PoolIsOwn'
    <3>1. \A n \in Networks, k \in Nodes : \A r \in pool[n][k] : r \in Transfers
      BY DEF Inv, TypeOK
    <3> QED BY <2>1, <2>2, <3>1 DEF Inv, PoolIsOwn, IsOwn
  <2>6. ChainIsOwn'
    <3> SUFFICES ASSUME NEW n \in Networks, NEW i \in 1..Height(n) PROVE IsPaid(n, i)'
      BY <2>1 DEF ChainIsOwn, Height
    <3>1. IsPaid(n, i) BY DEF Inv, ChainIsOwn
    <3>2. executed[n][i].of \in Transfers BY <1>0, ExecutedTypes DEF Executed
    <3> QED BY <2>1, <2>2, <3>1, <3>2 DEF IsPaid, IsOwn
  <2> QED BY <1>0, <2>3, <2>4, <2>5, <2>6 DEF Inv
<1>3. ASSUME NEW t \in Transfers, NEW n \in Networks, Send(t, n) PROVE Inv'
  <2>1. UNCHANGED <<pc, intents, signer, executed>> BY <1>3 DEF Send
  <2>2. CASE UNCHANGED pool
    BY <1>0, <2>1, <2>2
       DEF intents, Inv, SignedAreIntents, FeeIsLimit, PoolIsOwn, ChainIsOwn, IsPaid, IsOwn, Height
  <2>3. ASSUME NEW k \in Nodes, IsFromAccount(t, n), Join(t, n, k) PROVE Inv'
    <3>1. IsOwn(t, n) BY <2>3 DEF IsFromAccount, SigHash, IsOwn
    <3> QED BY <1>0, <2>1, <2>3, <3>1, SentInv
  <2> QED BY <1>3, <2>2, <2>3 DEF Send
<1>4. ASSUME NEW t \in Transfers, SendUnsigned(t) PROVE Inv'
  <2>1. /\ \A r \in Transfers : (pc[r] = "intent") <=> (pc'[r] = "intent")
        /\ UNCHANGED <<net, raw, fee, signer, pool, executed>>
    BY <1>4 DEF SendUnsigned, intents, chain
  <2>2. SignedAreIntents' /\ FeeIsLimit' BY <2>1 DEF Inv, SignedAreIntents, FeeIsLimit
  <2>3. PoolIsOwn' /\ ChainIsOwn'
    BY <2>1 DEF Inv, PoolIsOwn, ChainIsOwn, IsPaid, IsOwn, Height
  <2> QED BY <1>0, <2>2, <2>3 DEF Inv
<1>5. ASSUME NEW n \in Networks, Gossip(n) PROVE Inv'
  <2>1. PICK k \in Nodes, l \in Nodes : \E t \in pool[n][k] : Join(t, n, l)
    BY <1>5 DEF Gossip
  <2>2. PICK t \in pool[n][k] : Join(t, n, l) BY <2>1
  <2>3. t \in Transfers /\ IsOwn(t, n) BY DEF Inv, TypeOK, PoolIsOwn
  <2>4. UNCHANGED <<pc, intents, signer, executed>> BY <1>5 DEF Gossip
  <2> QED BY <1>0, <2>2, <2>3, <2>4, SentInv
<1>6. ASSUME NEW n \in Networks, Mine(n) PROVE Inv' BY <1>0, <1>6, MinedInv
<1>7. CASE UNCHANGED vars
  BY <1>0, <1>7
     DEF vars, Inv, SignedAreIntents, FeeIsLimit, PoolIsOwn, ChainIsOwn, IsPaid, IsOwn, Height
<1> QED BY <1>1, <1>2, <1>3, <1>4, <1>5, <1>6, <1>7 DEF Next, Transfer

LEMMA ConstructInv == Spec => []Inv
BY InitInv, NextInv, PTL DEF Spec
-----------------------------------------------------------------------------
(* ConstructService implements PayOnce.                                     *)

Approved == {t \in Transfers : signer[t] = "own"}

LEMMA InitPromise == Init => Promise!Init
<1> SUFFICES ASSUME Init PROVE Promise!Init OBVIOUS
<1>1. /\ \A t \in Transfers : signer[t] = "none" /\ pc[t] = "idle"
      /\ \A n \in Networks : Height(n) = 0
  BY DEF Init, All, Height
<1>2. Told = [t \in Transfers |-> NoOffer] BY <1>1 DEF Told
<1>3. Approved = {} BY <1>1 DEF Approved
<1>4. Paid = {} BY <1>1 DEF Paid
<1> QED BY <1>2, <1>3, <1>4 DEF Promise!Init, Approved

\* A prepared transfer is told, and nobody is told of another.
LEMMA PreparedTells ==
    ASSUME Inv, TypeOK', NEW t \in Transfers, Prepares(t)
    PROVE  Promise!Tell(t) \/ UNCHANGED <<Told, Approved, Paid>>
<1>1. Approved' = Approved /\ Paid' = Paid BY DEF Prepares, chain, Approved, Paid, Height
<1>2. \A r \in Transfers \ {t} : Told'[r] = Told[r] BY DEF Prepares, Told
<1>3. Told[t] = NoOffer BY DEF Prepares, Told
<1>4. CASE pc'[t] = "intent"
  <2>1. Told'[t] = [on |-> net'[t], fee |-> fee'[t]] BY <1>4 DEF Told
  <2>2. Told'[t] \in Promise!Offers BY <2>1 DEF Promise!Offers, TypeOK
  <2>3. Told' = [Told EXCEPT ![t] = Told'[t]] BY <1>2 DEF Told
  <2> QED BY <1>1, <1>3, <2>2, <2>3 DEF Promise!Tell, Approved
<1>5. CASE pc'[t] # "intent"
  <2>1. Told'[t] = NoOffer BY <1>5 DEF Told
  <2>2. Told' = Told BY <1>2, <1>3, <2>1 DEF Told
  <2> QED BY <1>1, <2>2
<1> QED BY <1>4, <1>5

LEMMA SignedIsApproved ==
    ASSUME Inv, NEW t \in Transfers, NEW s \in {"own", "other"}, Sign(t, s)
    PROVE  Promise!Approve(t) \/ UNCHANGED <<Told, Approved, Paid>>
<1>1. /\ pc[t] = "intent" /\ signer[t] = "none" /\ signer' = [signer EXCEPT ![t] = s]
      /\ UNCHANGED <<pc, net, fee, executed>>
  BY DEF Sign, intents, chain
<1>2. Told' = Told /\ Paid' = Paid BY <1>1 DEF Told, Paid, Height
<1>3. Told[t] # NoOffer
  <2>1. Told[t] \in [on : Networks, fee : Nat] BY <1>1 DEF Told, Inv, TypeOK
  <2> QED BY <2>1, OfferAssumption
<1>4. CASE s = "own"
  <2>1. Approved' = Approved \cup {t} BY <1>1, <1>4 DEF Approved, Inv, TypeOK
  <2> QED BY <1>2, <1>3, <2>1 DEF Promise!Approve, Approved
<1>5. CASE s = "other"
  <2>1. Approved' = Approved BY <1>1, <1>5 DEF Approved, Inv, TypeOK
  <2> QED BY <1>2, <2>1
<1> QED BY <1>4, <1>5

LEMMA PaidIs ==
    ASSUME NEW p
    PROVE  p \in Paid <=> \E n \in Networks : \E i \in 1..Height(n) :
                             p = [of |-> executed[n][i].of, on |-> n, cost |-> executed[n][i].cost]
BY DEF Paid

\* A nonce of a chain is used once, so that what is executed was not paid before.
LEMMA MinedPays ==
    ASSUME Inv, NEW n \in Networks, Mine(n)
    PROVE  \E t \in Transfers : Promise!Pay(t)
<1>0. PICK k \in Nodes : \E t \in pool[n][k], used \in Nat : Includes(n, k, t, used)
  BY MineIncludes
<1>1. PICK t \in pool[n][k], used \in Nat : Includes(n, k, t, used) BY <1>0
<1> DEFINE p == [of |-> t, on |-> n, cost |-> used * raw[t].price]
<1>2. UNCHANGED <<pc, net, fee, signer>> BY DEF Mine, intents
<1>3. Told' = Told /\ Approved' = Approved BY <1>2 DEF Told, Approved
<1>4. /\ t \in Transfers /\ IsOwn(t, n) /\ pc[t] = "intent"
      /\ used * raw[t].price <= fee[t] /\ Bill(t, used) \in Executed
  BY <1>1, BillIsFair
<1>5. /\ Height(n) \in Nat /\ Height(n)' = Height(n) + 1
      /\ executed'[n][Height(n) + 1] = Bill(t, used)
      /\ \A i \in 1..Height(n) : executed'[n][i] = executed[n][i]
      /\ \A m \in Networks \ {n} : executed'[m] = executed[m]
  BY <1>1, <1>4, ChainGrows DEF Inv
<1>6. t \in Approved BY <1>4 DEF Approved, IsOwn
<1>7. \A q \in Paid : q.of # t
  <2> SUFFICES ASSUME NEW q \in Paid, q.of = t PROVE FALSE OBVIOUS
  <2>1. PICK m \in Networks : \E i \in 1..Height(m) :
            q = [of |-> executed[m][i].of, on |-> m, cost |-> executed[m][i].cost]
    BY PaidIs
  <2>2. PICK i \in 1..Height(m) : executed[m][i].of = t BY <2>1
  <2>3. IsOwn(t, m) /\ raw[t].nonce = i - 1 BY <2>2 DEF Inv, ChainIsOwn, IsPaid
  <2>4. m = n BY <1>4, <2>3 DEF IsOwn
  <2>5. raw[t].nonce = Height(n) BY <1>1 DEF Includes
  <2> QED BY <1>5, <2>2, <2>3, <2>4, <2>5
<1>8. p.of = t /\ p.on = Told[t].on /\ p.cost <= Told[t].fee
  BY <1>4 DEF Told, IsOwn
<1>9. Paid' = Paid \cup {p}
  <2>1. ASSUME NEW q \in Paid' PROVE q \in Paid \cup {p}
    <3>1. PICK m \in Networks : \E i \in 1..Height(m)' :
              q = [of |-> executed'[m][i].of, on |-> m, cost |-> executed'[m][i].cost]
      BY <2>1 DEF Paid, Height
    <3>2. PICK i \in 1..Height(m)' :
              q = [of |-> executed'[m][i].of, on |-> m, cost |-> executed'[m][i].cost]
      BY <3>1
    <3>3. CASE m # n \/ i # Height(n) + 1
      <4>1. i \in 1..Height(m) /\ executed'[m][i] = executed[m][i] BY <1>5, <3>3 DEF Height
      <4> QED BY <3>2, <4>1, PaidIs
    <3>4. CASE m = n /\ i = Height(n) + 1 BY <1>5, <3>2, <3>4 DEF Bill
    <3> QED BY <3>3, <3>4
  <2>2. ASSUME NEW q \in Paid PROVE q \in Paid'
    <3>1. PICK m \in Networks : \E i \in 1..Height(m) :
              q = [of |-> executed[m][i].of, on |-> m, cost |-> executed[m][i].cost]
      BY <2>2, PaidIs
    <3>2. PICK i \in 1..Height(m) :
              q = [of |-> executed[m][i].of, on |-> m, cost |-> executed[m][i].cost]
      BY <3>1
    <3>3. i \in 1..Height(m)' /\ executed'[m][i] = executed[m][i] BY <1>5 DEF Height
    <3> QED BY <3>2, <3>3 DEF Paid, Height
  <2>3. p \in Paid'
    <3>1. /\ Height(n) + 1 \in 1..Height(n)'
          /\ p = [of |-> executed'[n][Height(n) + 1].of, on |-> n,
                   cost |-> executed'[n][Height(n) + 1].cost]
      BY <1>5 DEF Bill
    <3> HIDE DEF p
    <3> QED BY <3>1 DEF Paid, Height
  <2> QED BY <2>1, <2>2, <2>3
<1>10. Promise!Pay(t)
  <2> HIDE DEF p
  <2>1. p \in Paid' BY <1>9
  <2> QED BY <1>3, <1>6, <1>7, <1>8, <1>9, <2>1 DEF Promise!Pay, Approved
<1> QED BY <1>4, <1>10

LEMMA StepPromise == Inv /\ [Next]_vars => [Promise!Next]_<<Told, Approved, Paid>>
<1> SUFFICES ASSUME Inv, [Next]_vars
             PROVE  Promise!Next \/ UNCHANGED <<Told, Approved, Paid>>
  OBVIOUS
<1>0. TypeOK' BY NextTypes DEF Inv
<1>1. ASSUME NEW t \in Transfers,
             \/ \E n \in Networks, a \in Assets : AskNonce(t, n, a)
             \/ AskPrice(t) \/ AskGas(t) \/ Fails(t) \/ Again(t)
      PROVE  Promise!Tell(t) \/ UNCHANGED <<Told, Approved, Paid>>
  BY <1>0, <1>1, CreatePrepares, PreparedTells
<1>2. ASSUME NEW t \in Transfers, NEW n \in Networks, Send(t, n)
      PROVE  UNCHANGED <<Told, Approved, Paid>>
  BY <1>2 DEF Send, intents, Told, Approved, Paid, Height
<1>3. ASSUME NEW t \in Transfers, SendUnsigned(t) PROVE UNCHANGED <<Told, Approved, Paid>>
  <2>1. /\ \A r \in Transfers : (pc[r] = "intent") <=> (pc'[r] = "intent")
        /\ UNCHANGED <<net, fee, signer, executed>>
    BY <1>3 DEF SendUnsigned, intents, chain
  <2> QED BY <2>1 DEF Told, Approved, Paid, Height
<1>4. ASSUME NEW n \in Networks, Gossip(n) PROVE UNCHANGED <<Told, Approved, Paid>>
  BY <1>4 DEF Gossip, intents, Told, Approved, Paid, Height
<1>5. CASE UNCHANGED vars BY <1>5 DEF vars, Told, Approved, Paid, Height
<1> QED BY <1>1, <1>2, <1>3, <1>4, <1>5, SignedIsApproved, MinedPays
        DEF Next, Transfer, Promise!Next

\* A prepared transfer is paid at most once, signed by its owner, on its own
\* network and at most at the fee that was told (construct.go 20-158).
THEOREM ConstructPaysOnce == Spec => ImplementsPayOnce
<1>1. Init => Promise!Init BY InitPromise
<1>2. Inv /\ [Next]_vars => [Promise!Next]_Promise!vars
  BY StepPromise DEF Promise!vars, Approved
<1> QED BY <1>1, <1>2, ConstructInv, PTL DEF Spec, ImplementsPayOnce, Promise!Spec
=============================================================================
