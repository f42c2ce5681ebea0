--------------------------- MODULE BalancerProofs ---------------------------
(***************************************************************************)
(* Theorems about Balancer, for every number of upstreams and callers, all *)
(* quotas and every clock resolution.  The safety invariants that MCBalancer *)
(* checks on small instances are proved here from the same definitions.    *)
(***************************************************************************)
EXTENDS Balancer, SequenceTheorems, TLAPS

-----------------------------------------------------------------------------
(* Removing one element of a sequence.                                      *)

\* What RemoveAt returns: the elements before position i keep their place, the
\* elements after it move up by one.
LEMMA RemoveAtElements ==
    ASSUME NEW S, NEW s \in Seq(S), NEW i \in DOMAIN s
    PROVE  /\ RemoveAt(s, i) \in Seq(S)
           /\ Len(RemoveAt(s, i)) = Len(s) - 1
           /\ \A k \in 1..(Len(s) - 1) :
                RemoveAt(s, i)[k] = IF k < i THEN s[k] ELSE s[k + 1]
<1> DEFINE a == SubSeq(s, 1, i - 1)
           b == SubSeq(s, i + 1, Len(s))
<1>1. i \in 1..Len(s) /\ Len(s) \in Nat
  OBVIOUS
<1>2. a \in Seq(S) /\ Len(a) = i - 1 /\ \A k \in 1..(i - 1) : a[k] = s[k]
  BY <1>1, SubSeqProperties
<1>3. /\ b \in Seq(S)
      /\ Len(b) = Len(s) - i
      /\ \A k \in 1..(Len(s) - i) : b[k] = s[i + k]
  BY <1>1, SubSeqProperties
<1> HIDE DEF a, b
<1>4. RemoveAt(s, i) = a \o b
  BY DEF RemoveAt, a, b
<1>5. /\ a \o b \in Seq(S)
      /\ Len(a \o b) = Len(a) + Len(b)
      /\ \A k \in 1..(Len(a) + Len(b)) :
           (a \o b)[k] = IF k <= Len(a) THEN a[k] ELSE b[k - Len(a)]
  BY <1>2, <1>3, ConcatProperties
<1>6. \A k \in 1..(Len(s) - 1) : (a \o b)[k] = IF k < i THEN s[k] ELSE s[k + 1]
  <2> SUFFICES ASSUME NEW k \in 1..(Len(s) - 1)
               PROVE  (a \o b)[k] = IF k < i THEN s[k] ELSE s[k + 1]
    OBVIOUS
  <2>1. CASE k < i
    <3>1. k \in 1..(i - 1) /\ k <= Len(a) /\ k \in 1..(Len(a) + Len(b))
      BY <2>1, <1>1, <1>2, <1>3
    <3>2. (a \o b)[k] = a[k]
      BY <3>1, <1>5
    <3>3. a[k] = s[k]
      BY <3>1, <1>2
    <3> QED BY <2>1, <3>2, <3>3
  <2>2. CASE ~ (k < i)
    <3>1. k - Len(a) \in 1..(Len(s) - i) /\ i + (k - Len(a)) = k + 1
      BY <2>2, <1>1, <1>2
    <3>2. k \in 1..(Len(a) + Len(b)) /\ ~ (k <= Len(a))
      BY <2>2, <1>1, <1>2, <1>3
    <3>3. (a \o b)[k] = b[k - Len(a)]
      BY <3>2, <1>5
    <3> QED BY <2>2, <3>1, <3>3, <1>3
  <2> QED BY <2>1, <2>2
<1>7. Len(a \o b) = Len(s) - 1
  BY <1>1, <1>2, <1>3, <1>5
<1> QED BY <1>4, <1>5, <1>6, <1>7

\* Removing position i takes nothing but the value at i out of the sequence.
LEMMA RemoveAtRange ==
    ASSUME NEW S, NEW s \in Seq(S), NEW i \in DOMAIN s
    PROVE  /\ \A d \in ToSet(s) : d # s[i] => d \in ToSet(RemoveAt(s, i))
           /\ ToSet(RemoveAt(s, i)) \subseteq ToSet(s)
<1> DEFINE r == RemoveAt(s, i)
<1>1. /\ r \in Seq(S)
      /\ Len(r) = Len(s) - 1
      /\ \A k \in 1..(Len(s) - 1) : r[k] = IF k < i THEN s[k] ELSE s[k + 1]
  BY RemoveAtElements
<1>2. i \in 1..Len(s) /\ Len(s) \in Nat /\ DOMAIN s = 1..Len(s) /\ DOMAIN r = 1..(Len(s) - 1)
  BY <1>1
<1> HIDE DEF r
<1>3. ASSUME NEW j \in DOMAIN s, s[j] # s[i]
      PROVE  \E k \in DOMAIN r : r[k] = s[j]
  <2>1. CASE j < i
    <3>1. j \in 1..(Len(s) - 1) /\ r[j] = s[j]
      BY <2>1, <1>1, <1>2
    <3> QED BY <3>1, <1>2
  <2>2. CASE ~ (j < i)
    <3>1. j # i
      BY <1>3
    <3>2. j - 1 \in 1..(Len(s) - 1) /\ ~ (j - 1 < i) /\ (j - 1) + 1 = j
      BY <2>2, <3>1, <1>2
    <3>3. r[j - 1] = s[j]
      BY <3>2, <1>1
    <3> QED BY <3>2, <3>3, <1>2
  <2> QED BY <2>1, <2>2
<1>4. ASSUME NEW k \in DOMAIN r
      PROVE  \E j \in DOMAIN s : s[j] = r[k]
  <2>1. k \in DOMAIN s /\ k + 1 \in DOMAIN s
    BY <1>2
  <2>2. r[k] = s[k] \/ r[k] = s[k + 1]
    BY <1>1, <1>2
  <2> QED BY <2>1, <2>2
<1> QED BY <1>3, <1>4 DEF ToSet, r

\* Append adds exactly the appended value.
LEMMA AppendRange ==
    ASSUME NEW S, NEW s \in Seq(S), NEW e \in S
    PROVE  ToSet(Append(s, e)) = ToSet(s) \cup {e}
<1> DEFINE t == Append(s, e)
<1>1. /\ t \in Seq(S) /\ Len(t) = Len(s) + 1
      /\ \A i \in 1..Len(s) : t[i] = s[i]
      /\ t[Len(s) + 1] = e
  BY AppendProperties
<1>2. DOMAIN s = 1..Len(s) /\ DOMAIN t = 1..(Len(s) + 1) /\ Len(s) \in Nat
  BY <1>1
<1> HIDE DEF t
<1>3. \A i \in DOMAIN s : i \in DOMAIN t /\ t[i] = s[i]
  BY <1>1, <1>2
<1>4. \A i \in DOMAIN t : (i \in DOMAIN s /\ t[i] = s[i]) \/ t[i] = e
  BY <1>1, <1>2
<1>5. Len(s) + 1 \in DOMAIN t /\ t[Len(s) + 1] = e
  BY <1>1, <1>2
<1>6. ToSet(t) = ToSet(s) \cup {e}
  BY <1>3, <1>4, <1>5 DEF ToSet
<1> QED BY <1>6 DEF t

Increasing(s) == \A i, j \in DOMAIN s : i < j => s[i] < s[j]

\* The place at which the k-th element that is left was before i was removed.
LEMMA OldPlaces ==
    ASSUME NEW i \in Nat, NEW k \in Nat, NEW m \in Nat, NEW n \in Nat,
           1 <= k, k < m, m <= n - 1
    PROVE  LET Old(j) == IF j < i THEN j ELSE j + 1
           IN  Old(k) \in 1..n /\ Old(m) \in 1..n /\ Old(k) < Old(m)
OBVIOUS

\* An increasing sequence stays increasing when an element is removed, and
\* when a value above all of its elements is appended.
LEMMA RemoveAtIncreasing ==
    ASSUME NEW s \in Seq(Int), NEW i \in DOMAIN s, Increasing(s)
    PROVE  Increasing(RemoveAt(s, i))
<1> DEFINE r == RemoveAt(s, i)
           Old(k) == IF k < i THEN k ELSE k + 1
<1>1. /\ r \in Seq(Int)
      /\ Len(r) = Len(s) - 1
      /\ \A k \in 1..(Len(s) - 1) : r[k] = IF k < i THEN s[k] ELSE s[k + 1]
  BY RemoveAtElements
<1>2. i \in 1..Len(s) /\ Len(s) \in Nat /\ DOMAIN s = 1..Len(s) /\ DOMAIN r = 1..(Len(s) - 1)
  BY <1>1
<1> HIDE DEF r
<1>3. SUFFICES ASSUME NEW k \in DOMAIN r, NEW m \in DOMAIN r, k < m
               PROVE  r[k] < r[m]
  BY DEF Increasing, r
<1>6. /\ i \in Nat /\ k \in Nat /\ m \in Nat /\ Len(s) \in Nat
      /\ 1 <= k /\ k <= Len(s) - 1 /\ 1 <= m /\ m <= Len(s) - 1
  BY <1>2
<1>4. Old(k) \in DOMAIN s /\ Old(m) \in DOMAIN s /\ Old(k) < Old(m)
  <2>1. Old(k) \in 1..Len(s) /\ Old(m) \in 1..Len(s) /\ Old(k) < Old(m)
    BY <1>6, <1>3, OldPlaces, Zenon
  <2> QED BY <1>2, <2>1
<1>5. r[k] = s[Old(k)] /\ r[m] = s[Old(m)]
  BY <1>1, <1>2
<1> QED BY <1>4, <1>5 DEF Increasing

LEMMA AppendIncreasing ==
    ASSUME NEW s \in Seq(Int), NEW e \in Int, Increasing(s),
           \A d \in ToSet(s) : d < e
    PROVE  Increasing(Append(s, e))
<1> DEFINE t == Append(s, e)
<1>1. /\ t \in Seq(Int) /\ Len(t) = Len(s) + 1
      /\ \A i \in 1..Len(s) : t[i] = s[i]
      /\ t[Len(s) + 1] = e
  BY AppendProperties
<1>2. DOMAIN s = 1..Len(s) /\ DOMAIN t = 1..(Len(s) + 1) /\ Len(s) \in Nat
  BY <1>1
<1> HIDE DEF t
<1>3. \A i \in DOMAIN s : s[i] < e
  BY DEF ToSet
<1>4. SUFFICES ASSUME NEW i \in DOMAIN t, NEW j \in DOMAIN t, i < j
               PROVE  t[i] < t[j]
  BY DEF Increasing, t
<1>5. i \in DOMAIN s /\ t[i] = s[i]
  <2>1. i \in 1..Len(s)
    BY <1>2, <1>4
  <2> QED BY <1>1, <1>2, <2>1
<1>6. CASE j \in DOMAIN s
  BY <1>1, <1>2, <1>4, <1>5, <1>6 DEF Increasing
<1>7. CASE j = Len(s) + 1
  BY <1>1, <1>3, <1>5, <1>7
<1> QED BY <1>2, <1>6, <1>7

-----------------------------------------------------------------------------
(* Type correctness                                                         *)

\* The buckets selectClient works with are natural numbers, and a position of
\* the rotation holds a configured upstream.
LEMMA SelectTypes ==
    ASSUME TypeOK
    PROVE  /\ Refilled \in [Clients -> Nat]
           /\ SinceRefill \in 0..TicksPerSec
           /\ First \in Nat
           /\ \A i \in DOMAIN connected : connected[i] \in Clients
           /\ connected # <<>> => First + 1 \in DOMAIN connected /\ After(First) \in Nat
<1> USE LimitAssumption, MaxInt64Assumption, TicksPerSecAssumption
<1>1. Refilled \in [Clients -> Nat]
  BY DEF TypeOK, Refilled, EffLimit
<1>2. SinceRefill \in 0..TicksPerSec
  BY DEF TypeOK, SinceRefill, Due
<1>3. connected \in Seq(Clients) /\ index \in Nat
  BY DEF TypeOK
<1>4. Len(connected) \in Nat /\ DOMAIN connected = 1..Len(connected)
  BY <1>3
<1>5. First \in Nat
  BY <1>3 DEF First
<1>6. ASSUME connected # <<>>
      PROVE  First + 1 \in DOMAIN connected /\ After(First) \in Nat
  <2>1. Len(connected) > 0
    BY <1>3, <1>6, EmptySeq
  <2>2. First + 1 \in 1..Len(connected)
    BY <2>1, <1>3, <1>4 DEF First
  <2>3. After(First) \in Nat
    BY <2>1, <1>4, <1>5 DEF After
  <2> QED BY <2>2, <2>3, <1>4
<1>7. \A i \in DOMAIN connected : connected[i] \in Clients
  BY <1>3
<1> QED BY <1>1, <1>2, <1>5, <1>6, <1>7

\* Taking a client with quota left keeps the types.
LEMMA TakeTypes ==
    ASSUME TypeOK, NEW p \in Callers, NEW c \in Clients,
           HasQuota(c), Take(p, c), index' \in Nat
    PROVE  TypeOK'
<1>1. Refilled \in [Clients -> Nat] /\ SinceRefill \in 0..TicksPerSec
  BY SelectTypes
<1>2. Refilled[c] - 1 \in Nat
  BY <1>1 DEF HasQuota
<1>3. bucket' \in [Clients -> Nat]
  BY <1>1, <1>2 DEF Take
<1>4. elapsed' \in 0..TicksPerSec
  BY <1>1 DEF Take
<1>5. /\ pc' \in [Callers -> PcValues]
      /\ cur' \in [Callers -> 1..(NumClients + 1)]
      /\ \A q \in Callers : pc'[q] \notin {"every", "close", "panicked"} => cur'[q] \in Clients
  <2>1. c \in 1..(NumClients + 1)
    BY NumClientsAssumption DEF Clients
  <2>2. pc' \in [Callers -> PcValues]
    BY DEF Take, TypeOK, PcValues
  <2>3. cur' \in [Callers -> 1..(NumClients + 1)]
    BY <2>1 DEF Take, TypeOK
  <2>4. \A q \in Callers : pc'[q] \notin {"every", "close", "panicked"} => cur'[q] \in Clients
    BY DEF Take, TypeOK
  <2> QED BY <2>2, <2>3, <2>4
<1>6. sent' \in [Clients -> Nat]
  BY DEF Take, TypeOK
<1> QED BY <1>3, <1>4, <1>5, <1>6 DEF Take, TypeOK, rotationVars, passVars

LEMMA SelectClientTypes ==
    ASSUME TypeOK, NEW p \in Callers, NEW none \in {"idle", "sleep"},
           pc[p] \in {"idle", "sleep"}, SelectClient(p, none)
    PROVE  TypeOK'
<1>1. CASE TakeNext(p)
  <2>1. connected[First + 1] \in Clients /\ After(First) \in Nat
    BY <1>1, SelectTypes DEF TakeNext
  <2> QED BY <1>1, <2>1, TakeTypes DEF TakeNext
<1>2. CASE TakeRichest(p)
  <2>1. PICK i \in DOMAIN connected : Richest(i) /\ Take(p, connected[i])
    BY <1>2 DEF TakeRichest
  <2>2. connected[i] \in Clients /\ HasQuota(connected[i]) /\ index' \in Nat
    BY <1>2, <2>1, SelectTypes DEF TakeRichest, Richest
  <2> QED BY <2>1, <2>2, TakeTypes
<1>3. CASE TakeNone(p, none)
  <2>1. bucket' \in [Clients -> Nat] /\ elapsed' \in 0..TicksPerSec /\ index' \in Nat
    BY <1>3, SelectTypes DEF TakeNone
  <2>2. pc' \in [Callers -> PcValues]
    BY <1>3 DEF TakeNone, TypeOK, PcValues
  <2>3. \A q \in Callers : pc'[q] \notin {"every", "close", "panicked"} => cur'[q] \in Clients
    BY <1>3 DEF TakeNone, TypeOK
  <2> QED BY <1>3, <2>1, <2>2, <2>3 DEF TakeNone, TypeOK, rotationVars, passVars
<1> QED BY <1>1, <1>2, <1>3 DEF SelectClient

LEMMA TypeStep == TypeOK /\ [Next]_vars => TypeOK'
<1> SUFFICES ASSUME TypeOK, [Next]_vars PROVE TypeOK'
  OBVIOUS
<1> USE NumClientsAssumption, HandlesAssumption, TicksPerSecAssumption
<1>1. CASE ConnectStart
  BY <1>1 DEF ConnectStart, TypeOK, rotationVars, quotaVars, callerVars, Clients
<1>2. CASE VisitConnected
  <2>1. newConnected' \in Seq(Clients) /\ rpos' \in 1..(NumClients + 1) /\ rpc' = "visit"
    BY <1>2 DEF VisitConnected, TypeOK, Clients
  <2> QED BY <1>2, <2>1 DEF VisitConnected, TypeOK, rotationVars, quotaVars, callerVars
<1>3. ASSUME NEW c \in Clients, DialOk(c)
      PROVE  TypeOK'
  <2>1. client' \in [Clients -> Handles \cup {NoHandle}] /\ quit' \subseteq Handles
    BY <1>3 DEF DialOk, Fresh, TypeOK
  <2>2. newConnected' \in Seq(Clients) /\ isConnected' \in [Clients -> BOOLEAN]
    BY <1>3 DEF DialOk, TypeOK
  <2> QED BY <1>3, <2>1, <2>2 DEF DialOk, TypeOK, quotaVars, callerVars
<1>4. CASE DialFail
  <2>1. client' \in [Clients -> Handles \cup {NoHandle}] /\ rpos' \in 1..(NumClients + 1)
    BY <1>4 DEF DialFail, TypeOK, Clients
  <2> QED BY <1>4, <2>1 DEF DialFail, TypeOK, quotaVars, callerVars
<1>5. CASE Observe
  <2>1. observed' \in [Clients -> BOOLEAN] /\ rpos' \in 1..(NumClients + 1)
    BY <1>5 DEF Observe, TypeOK, Clients
  <2> QED BY <1>5, <2>1 DEF Observe, TypeOK, rotationVars, quotaVars, callerVars
<1>6. CASE Publish
  BY <1>6 DEF Publish, NextRotation, TypeOK, quotaVars, callerVars, Clients
<1>7. ASSUME NEW p \in Callers, Caller(p)
      PROVE  TypeOK'
  <2>1. CASE Call(p)
    BY <2>1, SelectClientTypes DEF Call
  <2>2. CASE CallW(p)
    BY <2>2, SelectClientTypes DEF CallW
  <2>3. CASE Retry(p)
    BY <2>3, SelectClientTypes DEF Retry
  <2>4. CASE CtxDone(p)
    BY <2>4 DEF CtxDone, TypeOK, rotationVars, quotaVars, passVars, PcValues
  <2>5. CASE CtxReturn(p)
    BY <2>5 DEF CtxReturn, TypeOK, rotationVars, quotaVars, passVars, PcValues
  <2>6. CASE ReadClient(p)
    <3>1. cur[p] \in Clients /\ client[cur[p]] \in Handles \cup {NoHandle}
      BY <2>6 DEF ReadClient, TypeOK
    <3>2. use' \in [Callers -> Handles \cup {NoHandle}]
      BY <2>6, <3>1 DEF ReadClient, TypeOK
    <3>3. pc' \in [Callers -> PcValues]
      <4>1. /\ pc' = [pc EXCEPT ![p] = pc'[p]]
            /\ pc'[p] \in PcValues /\ pc \in [Callers -> PcValues]
        BY <2>6 DEF ReadClient, TypeOK, PcValues
      <4> QED BY <4>1
    <3>4. \A q \in Callers : pc'[q] \notin {"every", "close", "panicked"} => cur'[q] \in Clients
      BY <2>6, <3>1 DEF ReadClient, TypeOK
    <3> QED BY <2>6, <3>2, <3>3, <3>4 DEF ReadClient, TypeOK, rotationVars, quotaVars, passVars
  <2>7. CASE OpReturns(p)
    <3>1. OpOutcome(use[p]) \in {"panicked", "mark", "idle"}
      BY DEF OpOutcome
    <3>2. pc' \in [Callers -> PcValues]
      BY <2>7, <3>1 DEF OpReturns, TypeOK, PcValues
    <3>3. cur' \in [Callers -> 1..(NumClients + 1)] /\ use' \in [Callers -> Handles \cup {NoHandle}]
      BY <2>7 DEF OpReturns, TypeOK
    <3>4. \A q \in Callers : pc'[q] \notin {"every", "close", "panicked"} => cur'[q] \in Clients
      BY <2>7 DEF OpReturns, TypeOK, Clients
    <3> QED BY <2>7, <3>2, <3>3, <3>4 DEF OpReturns, TypeOK, rotationVars, quotaVars, passVars
  <2>8. CASE MarkDisconnected(p)
    <3>1. connected' \in Seq(Clients)
      BY <2>8, RemoveAtElements DEF MarkDisconnected, TypeOK
    <3>2. isConnected' \in [Clients -> BOOLEAN] /\ observed' \in [Clients -> BOOLEAN]
      BY <2>8 DEF MarkDisconnected, FlagsWithout, TypeOK
    <3>3. pc' \in [Callers -> PcValues] /\ cur' \in [Callers -> 1..(NumClients + 1)]
      BY <2>8 DEF MarkDisconnected, TypeOK, PcValues
    <3>4. \A q \in Callers : pc'[q] \notin {"every", "close", "panicked"} => cur'[q] \in Clients
      BY <2>8 DEF MarkDisconnected, TypeOK, Clients
    <3> QED BY <2>8, <3>1, <3>2, <3>3, <3>4 DEF MarkDisconnected, TypeOK, quotaVars, passVars
  <2>9. CASE WalkStart(p)
    <3>1. pc' \in [Callers -> PcValues] /\ cur' \in [Callers -> 1..(NumClients + 1)]
      <4>1. pc' = [pc EXCEPT ![p] = "every"] \/ pc' = [pc EXCEPT ![p] = "close"]
        BY <2>9 DEF WalkStart
      <4>2. pc' \in [Callers -> PcValues]
        BY <4>1 DEF TypeOK, PcValues
      <4>3. cur' = [cur EXCEPT ![p] = 1] /\ 1 \in 1..(NumClients + 1)
        BY <2>9 DEF WalkStart
      <4> QED BY <4>2, <4>3 DEF TypeOK
    <3>2. \A q \in Callers : pc'[q] \notin {"every", "close", "panicked"} => cur'[q] \in Clients
      BY <2>9 DEF WalkStart, TypeOK, Clients
    <3> QED BY <2>9, <3>1, <3>2 DEF WalkStart, TypeOK, rotationVars, quotaVars, passVars
  <2>10. CASE WalkNext(p)
    <3>1. pc' \in [Callers -> PcValues] /\ cur' \in [Callers -> 1..(NumClients + 1)]
      <4>1. CASE isConnected[cur[p]]
        <5>1. cur' = cur /\ pc' \in {[pc EXCEPT ![p] = "everychosen"], [pc EXCEPT ![p] = "closechosen"]}
          BY <2>10, <4>1 DEF WalkNext
        <5> QED BY <5>1 DEF TypeOK, PcValues
      <4>2. CASE ~ isConnected[cur[p]]
        <5>1. pc' = pc /\ cur' = [cur EXCEPT ![p] = @ + 1] /\ cur[p] \in 1..NumClients
          BY <2>10, <4>2 DEF WalkNext, Clients
        <5>2. cur[p] + 1 \in 1..(NumClients + 1)
          BY <5>1, NumClientsAssumption
        <5>3. cur' \in [Callers -> 1..(NumClients + 1)]
          BY <5>1, <5>2 DEF TypeOK
        <5> QED BY <5>1, <5>3 DEF TypeOK
      <4> QED BY <4>1, <4>2
    <3>2. \A q \in Callers : pc'[q] \notin {"every", "close", "panicked"} => cur'[q] \in Clients
      BY <2>10 DEF WalkNext, TypeOK
    <3> QED BY <2>10, <3>1, <3>2 DEF WalkNext, TypeOK, rotationVars, quotaVars, passVars
  <2>11. CASE EveryOpReturns(p)
    <3>1. cur[p] \in Clients
      BY <2>11 DEF EveryOpReturns, TypeOK
    <3>2. /\ pc' \in [Callers -> PcValues] /\ cur' \in [Callers -> 1..(NumClients + 1)]
          /\ use' \in [Callers -> Handles \cup {NoHandle}]
      <4>1. pc' \in [Callers -> PcValues]
        BY <2>11 DEF EveryOpReturns, TypeOK, PcValues
      <4>2. cur[p] + 1 \in 1..(NumClients + 1)
        BY <3>1, NumClientsAssumption DEF Clients
      <4>3. cur' \in [Callers -> 1..(NumClients + 1)]
        BY <2>11, <4>2 DEF EveryOpReturns, TypeOK
      <4>4. use' \in [Callers -> Handles \cup {NoHandle}]
        BY <2>11 DEF EveryOpReturns, TypeOK
      <4> QED BY <4>1, <4>3, <4>4
    <3>3. \A q \in Callers : pc'[q] \notin {"every", "close", "panicked"} => cur'[q] \in Clients
      BY <2>11 DEF EveryOpReturns, TypeOK
    <3> QED BY <2>11, <3>2, <3>3 DEF EveryOpReturns, TypeOK, rotationVars, quotaVars, passVars
  <2>12. CASE CloseHandle(p)
    <3>1. cur[p] \in Clients
      BY <2>12 DEF CloseHandle, TypeOK
    <3>2. /\ pc' \in [Callers -> PcValues] /\ cur' \in [Callers -> 1..(NumClients + 1)]
          /\ use' \in [Callers -> Handles \cup {NoHandle}]
      <4>1. pc' \in [Callers -> PcValues]
        BY <2>12 DEF CloseHandle, TypeOK, PcValues
      <4>2. cur[p] + 1 \in 1..(NumClients + 1)
        BY <3>1, NumClientsAssumption DEF Clients
      <4>3. cur' \in [Callers -> 1..(NumClients + 1)]
        BY <2>12, <4>2 DEF CloseHandle, TypeOK
      <4>4. use' \in [Callers -> Handles \cup {NoHandle}]
        BY <2>12 DEF CloseHandle, TypeOK
      <4> QED BY <4>1, <4>3, <4>4
    <3>3. \A q \in Callers : pc'[q] \notin {"every", "close", "panicked"} => cur'[q] \in Clients
      BY <2>12 DEF CloseHandle, TypeOK
    <3>4. quit' \subseteq Handles
      BY <2>12 DEF CloseHandle, TypeOK
    <3> QED BY <2>12, <3>2, <3>3, <3>4 DEF CloseHandle, TypeOK, rotationVars, quotaVars, passVars
  <2>13. CASE WalkDone(p)
    <3>1. pc' \in [Callers -> PcValues] /\ cur' \in [Callers -> 1..(NumClients + 1)]
      BY <2>13 DEF WalkDone, TypeOK, PcValues
    <3>2. \A q \in Callers : pc'[q] \notin {"every", "close", "panicked"} => cur'[q] \in Clients
      BY <2>13 DEF WalkDone, TypeOK, Clients
    <3> QED BY <2>13, <3>1, <3>2 DEF WalkDone, TypeOK, rotationVars, quotaVars, passVars
  <2> QED BY <1>7, <2>1, <2>2, <2>3, <2>4, <2>5, <2>6, <2>7, <2>8, <2>9, <2>10, <2>11,
             <2>12, <2>13 DEF Caller
<1>8. ASSUME NEW c \in Clients, ConnBreaks(c)
      PROVE  TypeOK'
  BY <1>8 DEF ConnBreaks, TypeOK, rotationVars, quotaVars, passVars, callerVars
<1>9. CASE Tick
  <2>1. phase' \in 0..(TicksPerSec - 1) /\ elapsed' \in 0..TicksPerSec
    BY <1>9 DEF Tick, Due, TypeOK
  <2>2. sent' \in [Clients -> Nat]
    BY <1>9 DEF Tick, TypeOK
  <2> QED BY <1>9, <2>1, <2>2 DEF Tick, TypeOK, rotationVars, passVars, callerVars
<1>10. CASE UNCHANGED vars
  BY <1>10 DEF vars, rotationVars, quotaVars, passVars, callerVars, TypeOK
<1> QED BY <1>1, <1>2, <1>3, <1>4, <1>5, <1>6, <1>7, <1>8, <1>9, <1>10
        DEF Next, Reconnector

\* The state of the balancer keeps its types, whatever the callers, the
\* reconnecting goroutine and the upstreams do.
THEOREM TypeCorrect == Spec => []TypeOK
<1>1. Init => TypeOK
  <2> SUFFICES ASSUME Init PROVE TypeOK
    OBVIOUS
  <2>1. 1 \in Clients /\ 1 \in 1..(NumClients + 1)
    BY NumClientsAssumption DEF Clients
  <2>2. bucket \in [Clients -> Nat] /\ sent \in [Clients -> Nat]
    BY LimitAssumption DEF Init
  <2>3. phase \in 0..(TicksPerSec - 1) /\ elapsed \in 0..TicksPerSec
    BY TicksPerSecAssumption DEF Init
  <2>4. /\ isConnected \in [Clients -> BOOLEAN] /\ observed \in [Clients -> BOOLEAN]
        /\ client \in [Clients -> Handles \cup {NoHandle}]
        /\ use \in [Callers -> Handles \cup {NoHandle}]
        /\ connected \in Seq(Clients) /\ newConnected \in Seq(Clients)
    BY DEF Init
  <2>5. /\ pc \in [Callers -> PcValues] /\ cur \in [Callers -> 1..(NumClients + 1)]
        /\ \A p \in Callers : cur[p] \in Clients
    BY <2>1 DEF Init, PcValues
  <2> QED BY <2>1, <2>2, <2>3, <2>4, <2>5 DEF Init, TypeOK
<1> QED BY <1>1, TypeStep, PTL DEF Spec

-----------------------------------------------------------------------------
(* The rotation is ordered and without duplicates, no connected upstream is *)
(* lost from it although it is rebuilt without the lock, a marked record    *)
(* has a connection, and every connection is reported.                      *)

\* Most steps of callers and of the environment leave the rotation alone.
Quiet == UNCHANGED <<rotationVars, passVars, observed>>

LEMMA StepKinds ==
    ASSUME [Next]_vars
    PROVE  \/ Quiet
           \/ ConnectStart \/ VisitConnected \/ DialFail \/ Observe \/ Publish
           \/ \E c \in Clients : DialOk(c)
           \/ \E p \in Callers : MarkDisconnected(p)
<1>1. ASSUME NEW p \in Callers, Caller(p)
      PROVE  Quiet \/ MarkDisconnected(p)
  <2>1. ASSUME NEW none, SelectClient(p, none) PROVE Quiet
    <3>1. ASSUME NEW c, Take(p, c) PROVE Quiet
      BY <3>1 DEF Take, Quiet
    <3>2. CASE TakeNext(p)
      BY <3>2, <3>1 DEF TakeNext
    <3>3. CASE TakeRichest(p)
      BY <3>3, <3>1 DEF TakeRichest
    <3>4. CASE TakeNone(p, none)
      BY <3>4 DEF TakeNone, Quiet
    <3> QED BY <2>1, <3>2, <3>3, <3>4 DEF SelectClient
  <2>2. CASE Call(p) \/ CallW(p) \/ Retry(p)
    BY <2>2, <2>1 DEF Call, CallW, Retry
  <2>3. CASE CtxDone(p) \/ CtxReturn(p) \/ ReadClient(p) \/ OpReturns(p)
    BY <2>3 DEF CtxDone, CtxReturn, ReadClient, OpReturns, Quiet
  <2>4. CASE WalkStart(p) \/ WalkNext(p) \/ EveryOpReturns(p) \/ CloseHandle(p) \/ WalkDone(p)
    BY <2>4 DEF WalkStart, WalkNext, EveryOpReturns, CloseHandle, WalkDone, Quiet
  <2> QED BY <1>1, <2>2, <2>3, <2>4 DEF Caller
<1>2. ASSUME NEW c \in Clients, ConnBreaks(c) PROVE Quiet
  BY <1>2 DEF ConnBreaks, Quiet
<1>3. CASE Tick
  BY <1>3 DEF Tick, Quiet
<1>4. CASE UNCHANGED vars
  BY <1>4 DEF vars, Quiet
<1> QED BY <1>1, <1>2, <1>3, <1>4 DEF Next, Reconnector

-----------------------------------------------------------------------------
(* Order.  The next rotation is built in the order of c.clients, so it is   *)
(* increasing and below the loop variable.                                  *)

OrderInv ==
    /\ Increasing(connected)
    /\ Increasing(newConnected)
    /\ \A d \in ToSet(newConnected) : d < rpos \/ (rpc = "observe" /\ d = rpos)

LEMMA OrderInit == Init => OrderInv
<1> SUFFICES ASSUME Init PROVE OrderInv
  OBVIOUS
<1>1. connected = <<>> /\ newConnected = <<>>
  BY DEF Init
<1> QED BY <1>1 DEF OrderInv, Increasing, ToSet

LEMMA OrderStep == TypeOK /\ OrderInv /\ [Next]_vars => OrderInv'
<1> SUFFICES ASSUME TypeOK, OrderInv, [Next]_vars PROVE OrderInv'
  OBVIOUS
<1>0. /\ connected \in Seq(Int) /\ newConnected \in Seq(Int)
      /\ newConnected \in Seq(Clients) /\ rpos \in Int
      /\ \A d \in ToSet(newConnected) : d \in Int
  <2>1. connected \in Seq(Clients) /\ newConnected \in Seq(Clients) /\ rpos \in Int
    BY DEF TypeOK
  <2>2. Clients \subseteq Int
    BY DEF Clients
  <2>3. connected \in Seq(Int) /\ newConnected \in Seq(Int)
    BY <2>1, <2>2, SeqMonotonic
  <2>4. \A i \in DOMAIN newConnected : newConnected[i] \in Int
    BY <2>3
  <2> QED BY <2>1, <2>3, <2>4 DEF ToSet
<1>1. CASE Quiet
  BY <1>1 DEF Quiet, OrderInv, rotationVars, passVars
<1>2. CASE ConnectStart
  BY <1>2 DEF ConnectStart, OrderInv, rotationVars, Increasing, ToSet
<1>3. CASE VisitConnected
  <2>1. rpc = "visit" /\ rpos \in Clients /\ newConnected' = Append(newConnected, rpos)
    BY <1>3 DEF VisitConnected
  <2>2. Increasing(newConnected')
    BY <1>0, <2>1, AppendIncreasing DEF OrderInv
  <2>3. ToSet(newConnected') = ToSet(newConnected) \cup {rpos}
    BY <1>0, <2>1, AppendRange
  <2>4. \A d \in ToSet(newConnected') : d < rpos'
    BY <1>0, <1>3, <2>1, <2>3 DEF VisitConnected, OrderInv
  <2> QED BY <1>3, <2>2, <2>4 DEF VisitConnected, OrderInv, rotationVars
<1>4. ASSUME NEW c \in Clients, DialOk(c)
      PROVE  OrderInv'
  <2>1. rpc = "visit" /\ rpos = c /\ newConnected' = Append(newConnected, c)
    BY <1>4 DEF DialOk
  <2>2. Increasing(newConnected')
    BY <1>0, <2>1, AppendIncreasing DEF OrderInv
  <2>3. ToSet(newConnected') = ToSet(newConnected) \cup {c}
    BY <1>0, <2>1, AppendRange
  <2> QED BY <1>4, <2>1, <2>2, <2>3 DEF DialOk, OrderInv
<1>5. CASE DialFail
  BY <1>0, <1>5 DEF DialFail, OrderInv
<1>6. CASE Observe
  <2>1. rpos' = rpos + 1 /\ connected' = connected /\ newConnected' = newConnected
    BY <1>6 DEF Observe, rotationVars
  <2>2. ASSUME NEW d \in ToSet(newConnected) PROVE d < rpos + 1
    <3>1. d \in Int /\ (d < rpos \/ d = rpos)
      BY <1>0 DEF OrderInv
    <3> QED BY <1>0, <3>1
  <2> QED BY <2>1, <2>2 DEF OrderInv
<1>7. CASE Publish
  BY <1>7 DEF Publish, NextRotation, OrderInv, Increasing, ToSet
<1>8. ASSUME NEW p \in Callers, MarkDisconnected(p)
      PROVE  OrderInv'
  <2>1. Increasing(connected')
    BY <1>0, <1>8, RemoveAtIncreasing DEF MarkDisconnected, OrderInv
  <2> QED BY <1>8, <2>1 DEF MarkDisconnected, OrderInv, passVars
<1> QED BY <1>1, <1>2, <1>3, <1>4, <1>5, <1>6, <1>7, <1>8, StepKinds

\* The rotation keeps the order of the configuration and holds no upstream
\* twice, through any interleaving of reconnections and removals.
THEOREM RotationIsOrdered == Spec => []RotationOrdered
<1>1. OrderInv => RotationOrdered
  BY DEF OrderInv, Increasing, RotationOrdered
<1> QED BY <1>1, OrderInit, OrderStep, TypeCorrect, PTL DEF Spec

-----------------------------------------------------------------------------
(* Nothing is lost.                                                         *)

LEMMA LostStep == TypeOK /\ NoLostUpstream /\ [Next]_vars => NoLostUpstream'
<1> SUFFICES ASSUME TypeOK, NoLostUpstream, [Next]_vars,
                    NEW c \in Clients, isConnected'[c]
             PROVE  CASE rpc' = "idle" -> c \in Rotation'
                      [] rpc' # "idle" /\ c < rpos' -> c \in ToSet(newConnected')
                      [] rpc' = "observe" /\ c = rpos' -> c \in ToSet(newConnected')
                      [] OTHER -> c \in Rotation'
  BY DEF NoLostUpstream
<1>0. /\ newConnected \in Seq(Clients) /\ connected \in Seq(Clients)
      /\ rpos \in 1..(NumClients + 1) /\ rpc \in {"idle", "visit", "observe"}
      /\ rpc = "observe" => rpos \in Clients
      /\ c \in 1..NumClients /\ NumClients \in Nat
      /\ isConnected \in [Clients -> BOOLEAN]
  BY NumClientsAssumption DEF TypeOK, Clients
<1>a. isConnected[c] =>
        /\ rpc = "idle" => c \in Rotation
        /\ rpc # "idle" /\ c < rpos => c \in ToSet(newConnected)
        /\ rpc = "observe" /\ c = rpos => c \in ToSet(newConnected)
        /\ rpc = "visit" /\ c >= rpos => c \in Rotation
        /\ rpc = "observe" /\ c > rpos => c \in Rotation
  BY <1>0 DEF NoLostUpstream
<1>b. SUFFICES /\ rpc' = "idle" => c \in Rotation'
               /\ rpc' # "idle" /\ c < rpos' => c \in ToSet(newConnected')
               /\ rpc' = "observe" /\ c = rpos' => c \in ToSet(newConnected')
               /\ rpc' = "visit" /\ c >= rpos' => c \in Rotation'
               /\ rpc' = "observe" /\ c > rpos' => c \in Rotation'
  <2>1. TypeOK'
    BY TypeStep
  <2>2. rpos' \in Int /\ rpc' \in {"idle", "visit", "observe"}
    BY <2>1 DEF TypeOK
  <2> QED BY <2>2, <1>0
<1>1. CASE Quiet
  BY <1>1, <1>a DEF Quiet, rotationVars, passVars, Rotation
<1>2. CASE ConnectStart
  BY <1>2, <1>a, <1>0 DEF ConnectStart, rotationVars, Rotation
<1>3. CASE VisitConnected
  <2>1. ToSet(newConnected') = ToSet(newConnected) \cup {rpos}
    BY <1>0, <1>3, AppendRange DEF VisitConnected
  <2> QED BY <1>3, <1>a, <1>0, <2>1 DEF VisitConnected, rotationVars, Rotation
<1>4. ASSUME NEW d \in Clients, DialOk(d)
      PROVE  /\ rpc' = "observe" /\ c < rpos' => c \in ToSet(newConnected')
             /\ rpc' = "observe" /\ c = rpos' => c \in ToSet(newConnected')
             /\ rpc' = "observe" /\ c > rpos' => c \in Rotation'
             /\ rpc' = "observe"
  <2>1. ToSet(newConnected') = ToSet(newConnected) \cup {rpos}
    BY <1>0, <1>4, AppendRange DEF DialOk
  <2>2. c # d => isConnected[c]
    BY <1>4 DEF DialOk, TypeOK
  <2> QED BY <1>4, <1>a, <1>0, <2>1, <2>2 DEF DialOk, Rotation
<1>5. CASE DialFail
  <2>1. c # rpos
    BY <1>5 DEF DialFail, NeedsDial
  <2> QED BY <1>5, <1>a, <1>0, <2>1 DEF DialFail, Rotation
<1>6. CASE Observe
  BY <1>6, <1>a, <1>0 DEF Observe, rotationVars, Rotation
<1>7. CASE Publish
  <2>1. rpc = "visit" /\ rpos = NumClients + 1 /\ isConnected[c]
    BY <1>7, <1>0 DEF Publish, Clients
  <2>2. c \in ToSet(newConnected)
    BY <2>1, <1>a, <1>0
  <2> QED BY <1>7, <2>2 DEF Publish, NextRotation, Rotation
<1>8. ASSUME NEW p \in Callers, MarkDisconnected(p)
      PROVE  isConnected[c] /\ (c \in Rotation => c \in Rotation') /\ UNCHANGED passVars
  <2>1. CASE UNCHANGED <<connected, isConnected, observed>>
    BY <1>8, <2>1 DEF MarkDisconnected, Rotation
  <2>2. ASSUME NEW i \in DOMAIN connected,
               connected[i] = cur[p],
               connected' = RemoveAt(connected, i),
               isConnected' = FlagsWithout(cur[p])
        PROVE  isConnected[c] /\ (c \in Rotation => c \in Rotation')
    <3>1. c # cur[p] /\ isConnected[c]
      BY <2>2, <1>0 DEF FlagsWithout, Clients
    <3>2. c \in ToSet(connected) => c \in ToSet(connected')
      BY <2>2, <3>1, <1>0, RemoveAtRange
    <3> QED BY <3>1, <3>2 DEF Rotation
  <2> QED BY <1>8, <2>1, <2>2 DEF MarkDisconnected
<1>9. CASE \E p \in Callers : MarkDisconnected(p)
  BY <1>8, <1>9, <1>a DEF passVars
<1> QED BY <1>1, <1>2, <1>3, <1>4, <1>5, <1>6, <1>7, <1>9, StepKinds

\* A connected upstream stays selectable: connectClients and markDisconnected
\* together never drop a record that is marked connected.
THEOREM NothingIsLost == Spec => []NoLostUpstream
<1>1. Init => NoLostUpstream
  BY DEF Init, NoLostUpstream
<1> QED BY <1>1, LostStep, TypeCorrect, PTL DEF Spec

-----------------------------------------------------------------------------
(* Marked records.                                                          *)

LEMMA FlagStep ==
    TypeOK /\ FlaggedHasHandle /\ UpIsReported /\ [Next]_vars
      => FlaggedHasHandle' /\ UpIsReported'
<1> SUFFICES ASSUME TypeOK, FlaggedHasHandle, UpIsReported, [Next]_vars,
                    NEW c \in Clients, isConnected'[c]
             PROVE  /\ client'[c] # NoHandle
                    /\ observed'[c] \/ (rpc' = "observe" /\ rpos' = c)
  BY DEF FlaggedHasHandle, UpIsReported
<1>0. /\ isConnected \in [Clients -> BOOLEAN] /\ observed \in [Clients -> BOOLEAN]
      /\ client \in [Clients -> Handles \cup {NoHandle}]
      /\ rpc = "observe" => rpos \in Clients
  BY DEF TypeOK
<1>a. isConnected[c] => /\ client[c] # NoHandle
                        /\ observed[c] \/ (rpc = "observe" /\ rpos = c)
  BY DEF FlaggedHasHandle, UpIsReported
<1>1. CASE Quiet
  BY <1>1, <1>a DEF Quiet, rotationVars, passVars
<1>2. CASE ConnectStart
  BY <1>2, <1>a DEF ConnectStart, rotationVars
<1>3. CASE VisitConnected
  BY <1>3, <1>a DEF VisitConnected, rotationVars
<1>4. ASSUME NEW d \in Clients, DialOk(d)
      PROVE  /\ client'[c] # NoHandle
             /\ observed'[c] \/ (rpc' = "observe" /\ rpos' = c)
  <2>1. CASE c = d
    BY <1>4, <1>0, <2>1, HandlesAssumption DEF DialOk, Fresh
  <2>2. CASE c # d
    BY <1>4, <1>0, <1>a, <2>2 DEF DialOk
  <2> QED BY <2>1, <2>2
<1>5. CASE DialFail
  <2>1. isConnected[c] /\ c # rpos
    BY <1>5 DEF DialFail, NeedsDial
  <2> QED BY <1>5, <1>0, <1>a, <2>1 DEF DialFail
<1>6. CASE Observe
  BY <1>6, <1>0, <1>a DEF Observe, rotationVars
<1>7. CASE Publish
  BY <1>7, <1>a DEF Publish
<1>8. ASSUME NEW p \in Callers, MarkDisconnected(p)
      PROVE  /\ client'[c] # NoHandle
             /\ observed'[c] \/ (rpc' = "observe" /\ rpos' = c)
  <2>1. UNCHANGED client /\ UNCHANGED <<rpc, rpos>>
    BY <1>8 DEF MarkDisconnected, passVars
  <2>2. CASE UNCHANGED <<isConnected, observed>>
    BY <2>1, <2>2, <1>a
  <2>3. CASE /\ isConnected' = FlagsWithout(cur[p])
             /\ observed' = [observed EXCEPT ![cur[p]] = FALSE]
    <3>1. c # cur[p] /\ isConnected[c]
      BY <2>3, <1>0 DEF FlagsWithout
    <3> QED BY <2>1, <2>3, <3>1, <1>0, <1>a
  <2> QED BY <1>8, <2>2, <2>3 DEF MarkDisconnected
<1> QED BY <1>1, <1>2, <1>3, <1>4, <1>5, <1>6, <1>7, <1>8, StepKinds

LEMMA FlagInvariant == Spec => [](FlaggedHasHandle /\ UpIsReported)
<1>1. Init => FlaggedHasHandle /\ UpIsReported
  BY DEF Init, FlaggedHasHandle, UpIsReported
<1> QED BY <1>1, FlagStep, TypeCorrect, PTL DEF Spec

\* A record marked connected has a connection, although a failed Dial stores
\* the zero value in the record; and its last report is "up", or the next one
\* will be, although removals report without waiting for the pass.
THEOREM MarkedIsConnected == Spec => []MarkedIsUp
<1>1. FlaggedHasHandle /\ UpIsReported <=> MarkedIsUp
  BY DEF MarkedIsUp
<1> QED BY <1>1, FlagInvariant, PTL

-----------------------------------------------------------------------------
(* The handles given to op.  A failed Dial stores the zero value in a record *)
(* that a caller may have selected, or that is in the rotation although     *)
(* it was marked disconnected.  The invariant: without these two, whoever   *)
(* is about to read a record finds a connection in it.                      *)

Records == <<rotationVars, rpc, rpos, newConnected>>

\* selectClient gives a member of the rotation, or none.
LEMMA Selects ==
    ASSUME TypeOK, NEW p \in Callers, NEW none, SelectClient(p, none)
    PROVE  /\ UNCHANGED <<Records, use, quit>>
           /\ \/ \E c \in Rotation : /\ pc' = [pc EXCEPT ![p] = "chosen"]
                                     /\ cur' = [cur EXCEPT ![p] = c]
              \/ pc' = [pc EXCEPT ![p] = none] /\ UNCHANGED cur
<1>1. CASE TakeNext(p)
  <2>1. connected[First + 1] \in Rotation
    BY <1>1, SelectTypes DEF TakeNext, Rotation, ToSet
  <2> QED BY <1>1, <2>1 DEF TakeNext, Take, Records, rotationVars, passVars
<1>2. CASE TakeRichest(p)
  <2>1. PICK i \in DOMAIN connected : Take(p, connected[i])
    BY <1>2 DEF TakeRichest
  <2>2. connected[i] \in Rotation
    BY DEF Rotation, ToSet
  <2> QED BY <2>1, <2>2 DEF Take, Records, rotationVars, passVars
<1>3. CASE TakeNone(p, none)
  BY <1>3 DEF TakeNone, Records, rotationVars, passVars
<1> QED BY <1>1, <1>2, <1>3 DEF SelectClient

\* The caller has its record and reads the handle next, or has the handle.
Reading == {"chosen", "everychosen", "closechosen"}
Operating == {"op", "everyop", "closeop"}

\* A Dial that fails for a record that nobody reads next, of an upstream that
\* is out of the rotation.
HarmlessDialFail ==
    DialFail => /\ rpos \notin Rotation
                /\ \A p \in Callers : pc[p] \in Reading => cur[p] # rpos

NobodyPanics == \A p \in Callers : pc[p] # "panicked"

UsableRecord(c) == c \in Rotation \cup ToSet(newConnected) => client[c] # NoHandle

UsableCaller(p) ==
    /\ pc[p] # "panicked"
    /\ pc[p] \in Reading => client[cur[p]] # NoHandle
    /\ pc[p] \in Operating => use[p] # NoHandle

UsableInv == /\ \A c \in Clients : UsableRecord(c)
             /\ \A p \in Callers : UsableCaller(p)

LEMMA UsableCalls ==
    ASSUME TypeOK, FlaggedHasHandle, UsableInv, NEW p \in Callers, Caller(p)
    PROVE  UsableInv'
<1>1. /\ \A c \in Clients : UsableRecord(c)
      /\ \A q \in Callers : UsableCaller(q)
  BY DEF UsableInv
<1>2. ASSUME UNCHANGED client, Rotation' \subseteq Rotation, UNCHANGED newConnected,
             \A q \in Callers \ {p} : pc'[q] = pc[q] /\ cur'[q] = cur[q] /\ use'[q] = use[q],
             UsableCaller(p)'
      PROVE  UsableInv'
  <2>1. \A c \in Clients : UsableRecord(c)'
    BY <1>1, <1>2 DEF UsableRecord
  <2>2. \A q \in Callers : UsableCaller(q)'
    BY <1>1, <1>2 DEF UsableCaller
  <2> QED BY <2>1, <2>2 DEF UsableInv
<1>3. CASE Call(p) \/ CallW(p) \/ Retry(p)
  <2>1. PICK none \in {"idle", "sleep"} : SelectClient(p, none)
    BY <1>3 DEF Call, CallW, Retry
  <2>2. UNCHANGED <<client, Rotation, newConnected, use>>
    BY <2>1, Selects DEF Records, rotationVars, Rotation
  <2>3. ASSUME NEW c \in Rotation, pc' = [pc EXCEPT ![p] = "chosen"], cur' = [cur EXCEPT ![p] = c]
        PROVE  UsableInv'
    <3>1. client[c] # NoHandle
      BY <1>1 DEF UsableRecord, Rotation, ToSet, TypeOK
    <3>2. pc'[p] = "chosen" /\ cur'[p] = c
      BY <2>3 DEF TypeOK
    <3>3. UsableCaller(p)'
      BY <3>1, <3>2, <2>2 DEF UsableCaller, Operating
    <3> QED BY <1>2, <2>2, <2>3, <3>3 DEF TypeOK
  <2>4. ASSUME pc' = [pc EXCEPT ![p] = none], UNCHANGED cur
        PROVE  UsableInv'
    <3>1. pc'[p] = none
      BY <2>4 DEF TypeOK
    <3>2. UsableCaller(p)'
      BY <3>1 DEF UsableCaller, Reading, Operating
    <3> QED BY <1>2, <2>2, <2>4, <3>2 DEF TypeOK
  <2> QED BY <2>1, <2>3, <2>4, Selects
<1>4. CASE MarkDisconnected(p)
  <2>1. UNCHANGED <<client, newConnected, use>>
    BY <1>4 DEF MarkDisconnected, passVars
  <2>2. Rotation' \subseteq Rotation
    <3>1. \/ UNCHANGED connected
          \/ \E i \in DOMAIN connected : connected' = RemoveAt(connected, i)
      BY <1>4 DEF MarkDisconnected
    <3>2. connected \in Seq(Clients)
      BY DEF TypeOK
    <3> QED BY <3>1, <3>2, RemoveAtRange DEF Rotation
  <2>3. pc' = [pc EXCEPT ![p] = "idle"] /\ cur' = [cur EXCEPT ![p] = 1]
    BY <1>4 DEF MarkDisconnected
  <2>4. UsableCaller(p)'
    BY <2>3 DEF UsableCaller, Reading, Operating, TypeOK
  <2> QED BY <1>2, <2>1, <2>2, <2>3, <2>4 DEF TypeOK
<1>5. CASE ReadClient(p)
  <2>1. UNCHANGED <<client, Rotation, newConnected, cur>> /\ pc[p] \in Reading
    BY <1>5 DEF ReadClient, rotationVars, passVars, Rotation, Reading
  <2>2. pc'[p] \in Operating /\ use'[p] = client[cur[p]]
    BY <1>5 DEF ReadClient, Operating, TypeOK
  <2>3. client[cur[p]] # NoHandle
    BY <1>1, <2>1 DEF UsableCaller
  <2>4. UsableCaller(p)'
    BY <2>2, <2>3 DEF UsableCaller, Reading, Operating
  <2>5. \A q \in Callers \ {p} : pc'[q] = pc[q] /\ use'[q] = use[q]
    BY <1>5 DEF ReadClient, TypeOK
  <2> QED BY <1>2, <2>1, <2>4, <2>5
<1>6. CASE OpReturns(p) \/ EveryOpReturns(p) \/ CloseHandle(p)
  <2>1. UNCHANGED <<client, Rotation, newConnected>>
    BY <1>6 DEF OpReturns, EveryOpReturns, CloseHandle, rotationVars, passVars, Rotation
  <2>2. use[p] # NoHandle
    BY <1>1, <1>6 DEF UsableCaller, Operating, OpReturns, EveryOpReturns, CloseHandle
  <2>3. OpOutcome(use[p]) \in {"mark", "idle"}
    BY <2>2 DEF OpOutcome
  <2>4. pc'[p] \in {"mark", "idle", "every", "close"}
    BY <1>6, <2>2, <2>3 DEF OpReturns, EveryOpReturns, CloseHandle, TypeOK
  <2>5. UsableCaller(p)'
    BY <2>4 DEF UsableCaller, Reading, Operating
  <2>6. \A q \in Callers \ {p} : pc'[q] = pc[q] /\ cur'[q] = cur[q] /\ use'[q] = use[q]
    BY <1>6 DEF OpReturns, EveryOpReturns, CloseHandle, TypeOK
  <2> QED BY <1>2, <2>1, <2>5, <2>6
<1>7. CASE WalkNext(p)
  <2>1. UNCHANGED <<client, Rotation, newConnected, use>> /\ cur[p] \in Clients
    BY <1>7 DEF WalkNext, rotationVars, passVars, Rotation
  <2>2. \/ isConnected[cur[p]] /\ pc'[p] \in {"everychosen", "closechosen"} /\ cur' = cur
        \/ pc'[p] \in {"every", "close"}
    BY <1>7 DEF WalkNext, TypeOK
  <2>3. isConnected[cur[p]] => client[cur[p]] # NoHandle
    BY <2>1 DEF FlaggedHasHandle
  <2>4. UsableCaller(p)'
    BY <2>1, <2>2, <2>3 DEF UsableCaller, Reading, Operating
  <2>5. \A q \in Callers \ {p} : pc'[q] = pc[q] /\ cur'[q] = cur[q]
    BY <1>7 DEF WalkNext, TypeOK
  <2> QED BY <1>2, <2>1, <2>4, <2>5
<1>8. CASE CtxDone(p) \/ CtxReturn(p) \/ WalkStart(p) \/ WalkDone(p)
  <2>1. UNCHANGED <<client, Rotation, newConnected, use>>
    BY <1>8 DEF CtxDone, CtxReturn, WalkStart, WalkDone, rotationVars, passVars, Rotation
  <2>2. pc'[p] \in {"expired", "idle", "every", "close"}
    BY <1>8 DEF CtxDone, CtxReturn, WalkStart, WalkDone, TypeOK
  <2>3. UsableCaller(p)'
    BY <2>2 DEF UsableCaller, Reading, Operating
  <2>4. \A q \in Callers \ {p} : pc'[q] = pc[q] /\ cur'[q] = cur[q]
    BY <1>8 DEF CtxDone, CtxReturn, WalkStart, WalkDone, TypeOK
  <2> QED BY <1>2, <2>1, <2>3, <2>4
<1> QED BY <1>3, <1>4, <1>5, <1>6, <1>7, <1>8 DEF Caller

LEMMA UsablePasses ==
    ASSUME TypeOK, OrderInv, FlaggedHasHandle, UsableInv, [HarmlessDialFail]_vars, Reconnector
    PROVE  UsableInv'
<1>1. /\ \A c \in Clients : UsableRecord(c)
      /\ \A p \in Callers : UsableCaller(p)
      /\ UNCHANGED callerVars
  BY DEF UsableInv, Reconnector, ConnectStart, VisitConnected, DialOk, DialFail, Observe, Publish
<1>2. ASSUME \A c \in Clients : UsableRecord(c)',
             \A p \in Callers : pc[p] \in Reading => client'[cur[p]] # NoHandle
      PROVE  UsableInv'
  BY <1>1, <1>2 DEF UsableInv, UsableCaller, callerVars
<1>3. CASE VisitConnected
  <2>1. ToSet(newConnected') = ToSet(newConnected) \cup {rpos}
    BY <1>3, AppendRange DEF VisitConnected, TypeOK
  <2>2. client[rpos] # NoHandle /\ UNCHANGED <<client, Rotation>>
    BY <1>3 DEF VisitConnected, NeedsDial, FlaggedHasHandle, rotationVars, Rotation
  <2> QED BY <1>1, <1>2, <2>1, <2>2 DEF UsableRecord, UsableCaller
<1>4. ASSUME NEW c \in Clients, DialOk(c) PROVE UsableInv'
  <2>1. ToSet(newConnected') = ToSet(newConnected) \cup {c} /\ UNCHANGED Rotation
    BY <1>4, AppendRange DEF DialOk, Rotation, TypeOK
  <2>2. \A d \in Clients : client[d] # NoHandle \/ d = c => client'[d] # NoHandle
    BY <1>4, HandlesAssumption DEF DialOk, Fresh, TypeOK
  <2>3. \A d \in Clients : UsableRecord(d)'
    BY <1>1, <2>1, <2>2 DEF UsableRecord
  <2>4. \A p \in Callers : pc[p] \in Reading => cur[p] \in Clients
    BY DEF TypeOK, Reading
  <2> QED BY <1>1, <1>2, <2>2, <2>3, <2>4 DEF UsableCaller
<1>5. CASE DialFail
  <2>1. rpos \notin Rotation /\ \A p \in Callers : pc[p] \in Reading => cur[p] # rpos
    <3>1. rpos' # rpos
      BY <1>5 DEF DialFail, TypeOK
    <3> QED BY <1>5, <3>1 DEF HarmlessDialFail, vars, passVars
  <2>2. rpos \notin ToSet(newConnected) /\ UNCHANGED <<Rotation, newConnected>>
    BY <1>5 DEF DialFail, OrderInv, Rotation, Clients
  <2>3. \A d \in Clients : d # rpos => client'[d] = client[d]
    BY <1>5 DEF DialFail, TypeOK
  <2>4. \A d \in Clients : UsableRecord(d)'
    BY <1>1, <2>1, <2>2, <2>3 DEF UsableRecord
  <2>5. \A p \in Callers : pc[p] \in Reading => cur[p] \in Clients
    BY DEF TypeOK, Reading
  <2> QED BY <1>1, <1>2, <2>1, <2>3, <2>4, <2>5 DEF UsableCaller
<1>6. CASE ConnectStart \/ Observe \/ Publish
  <2>1. UNCHANGED client
    BY <1>6 DEF ConnectStart, Observe, Publish, rotationVars
  <2>2. Rotation' \cup ToSet(newConnected') \subseteq Rotation \cup ToSet(newConnected)
    <3>1. CASE Observe
      BY <3>1 DEF Observe, rotationVars, Rotation
    <3>2. CASE ConnectStart \/ Publish
      BY <3>2 DEF ConnectStart, Publish, NextRotation, rotationVars, Rotation, ToSet
    <3> QED BY <1>6, <3>1, <3>2
  <2> QED BY <1>1, <1>2, <2>1, <2>2 DEF UsableRecord, UsableCaller
<1> QED BY <1>3, <1>4, <1>5, <1>6 DEF Reconnector

LEMMA UsableStep ==
    TypeOK /\ OrderInv /\ FlaggedHasHandle /\ UsableInv /\ [Next]_vars /\ [HarmlessDialFail]_vars
      => UsableInv'
<1> SUFFICES ASSUME TypeOK, OrderInv, FlaggedHasHandle, UsableInv,
                    [Next]_vars, [HarmlessDialFail]_vars
             PROVE  UsableInv'
  OBVIOUS
<1>1. ASSUME UNCHANGED <<client, connected, newConnected, callerVars>> PROVE UsableInv'
  BY <1>1 DEF UsableInv, UsableRecord, UsableCaller, Rotation, callerVars
<1>2. ASSUME NEW c \in Clients, ConnBreaks(c) PROVE UsableInv'
  BY <1>1, <1>2 DEF ConnBreaks, rotationVars, passVars
<1>3. CASE Tick
  BY <1>1, <1>3 DEF Tick, rotationVars, passVars
<1>4. CASE UNCHANGED vars
  BY <1>1, <1>4 DEF vars, rotationVars, passVars
<1> QED BY <1>2, <1>3, <1>4, UsableCalls, UsablePasses DEF Next

\* An operation only ever lacks a connection, and the process only panics, when
\* a Dial fails for a record that a caller has selected and not yet read, or
\* that selectClient can still find in the rotation: the assignment at 87, with
\* the reads of client.client at 194, 218, 231 and 239.  Whatever connections
\* break, are closed and are dialed again, nothing else leads to it.
THEOREM ZeroHandleNeedsFailedDial ==
    Spec /\ [][HarmlessDialFail]_vars => []OpGetsAvailableClient /\ []NobodyPanics
<1>1. Init => UsableInv
  <2> SUFFICES ASSUME Init PROVE UsableInv
    OBVIOUS
  <2>1. Rotation = {} /\ ToSet(newConnected) = {}
    BY DEF Init, Rotation, ToSet
  <2> QED BY <2>1 DEF Init, UsableInv, UsableRecord, UsableCaller, Reading, Operating
<1>2. UsableInv => OpGetsAvailableClient /\ NobodyPanics
  BY DEF UsableInv, UsableCaller, OpGetsAvailableClient, NobodyPanics, Operating
<1>3. Spec => [](TypeOK /\ OrderInv /\ FlaggedHasHandle)
  BY OrderInit, OrderStep, TypeCorrect, FlagInvariant, PTL DEF Spec
<1> QED BY <1>1, <1>2, <1>3, UsableStep, PTL DEF Spec

-----------------------------------------------------------------------------
(* The quota.  The invariant: what was used in this second and what is left *)
(* in the bucket never exceed the limit, and a refill is due only in a      *)
(* second in which nothing was selected yet.  The second half needs         *)
(* lastUpdated to be truncated: while no refill is due, the time since the  *)
(* last one is the time since the second began.                             *)

QuotaInv ==
    /\ \A c \in Clients : Limit[c] > 0 => sent[c] + bucket[c] <= Limit[c]
    /\ Due => sent = [c \in Clients |-> 0]
    /\ ~ Due => elapsed = phase

LEMMA QuotaInit == Init => QuotaInv
<1> SUFFICES ASSUME Init PROVE QuotaInv
  OBVIOUS
<1>1. sent = [c \in Clients |-> 0] /\ bucket = Limit /\ elapsed = phase
  BY DEF Init
<1> QED BY <1>1, LimitAssumption DEF QuotaInv

\* After the refill of selectClient, if it was due, the buckets still fit.
LEMMA RefillKeepsQuota ==
    ASSUME TypeOK, QuotaInv
    PROVE  /\ \A c \in Clients : Limit[c] > 0 => sent[c] + Refilled[c] <= Limit[c]
           /\ SinceRefill = phase
           /\ SinceRefill < TicksPerSec
<1>1. ASSUME NEW c \in Clients, Limit[c] > 0
      PROVE  sent[c] + Refilled[c] <= Limit[c]
  <2>1. Limit[c] \in Nat /\ sent[c] \in Nat /\ bucket[c] \in Nat
    BY LimitAssumption DEF TypeOK
  <2>2. CASE Due /\ c \in Rotation
    <3>1. Refilled[c] = Limit[c] /\ sent[c] = 0
      BY <1>1, <2>2 DEF Refilled, EffLimit, QuotaInv
    <3> QED BY <2>1, <3>1
  <2>3. CASE ~ (Due /\ c \in Rotation)
    BY <1>1, <2>3 DEF Refilled, QuotaInv
  <2> QED BY <2>2, <2>3
<1>2. SinceRefill = phase
  BY DEF SinceRefill, QuotaInv
<1>3. phase < TicksPerSec
  BY TicksPerSecAssumption DEF TypeOK
<1> QED BY <1>1, <1>2, <1>3

LEMMA TakeKeepsQuota ==
    ASSUME TypeOK, QuotaInv, NEW p \in Callers, NEW c \in Clients, HasQuota(c), Take(p, c)
    PROVE  QuotaInv' /\ (Limit[c] > 0 => sent[c] < Limit[c])
<1>1. Refilled \in [Clients -> Nat] /\ sent \in [Clients -> Nat] /\ Limit \in [Clients -> Nat]
  BY SelectTypes, LimitAssumption DEF TypeOK
<1>2. Refilled[c] > 0
  BY DEF HasQuota
<1>3. bucket' = [Refilled EXCEPT ![c] = @ - 1] /\ sent' = [sent EXCEPT ![c] = @ + 1]
  BY DEF Take
<1>4. \A d \in Clients : Limit[d] > 0 => sent[d] + Refilled[d] <= Limit[d]
  BY RefillKeepsQuota
<1>5. \A d \in Clients : sent'[d] + bucket'[d] = sent[d] + Refilled[d]
  BY <1>1, <1>3
<1>6. elapsed' = phase' /\ ~ Due'
  <2>1. elapsed' = phase /\ phase' = phase /\ phase \in 0..(TicksPerSec - 1)
    BY RefillKeepsQuota DEF Take, TypeOK
  <2> QED BY <2>1, TicksPerSecAssumption DEF Due
<1>7. QuotaInv'
  BY <1>4, <1>5, <1>6 DEF QuotaInv
<1>8. Limit[c] > 0 => sent[c] < Limit[c]
  BY <1>1, <1>2, <1>4
<1> QED BY <1>7, <1>8

\* What selectClient does to the quota: it serves one upstream of the rotation
\* that is below its limit, or it only refills.
LEMMA SelectKeepsQuota ==
    ASSUME TypeOK, QuotaInv, NEW p \in Callers, NEW none, SelectClient(p, none)
    PROVE  /\ QuotaInv'
           /\ UNCHANGED connected
           /\ \/ UNCHANGED sent
              \/ \E c \in Rotation : /\ Limit[c] > 0 => sent[c] < Limit[c]
                                     /\ sent' = [sent EXCEPT ![c] = @ + 1]
<1>1. ASSUME NEW i \in DOMAIN connected, HasQuota(connected[i]), Take(p, connected[i])
      PROVE  /\ QuotaInv'
             /\ UNCHANGED connected
             /\ \E c \in Rotation : /\ Limit[c] > 0 => sent[c] < Limit[c]
                                    /\ sent' = [sent EXCEPT ![c] = @ + 1]
  <2>1. connected[i] \in Clients /\ connected[i] \in Rotation
    BY SelectTypes DEF Rotation, ToSet
  <2>2. QuotaInv' /\ (Limit[connected[i]] > 0 => sent[connected[i]] < Limit[connected[i]])
    BY <1>1, <2>1, TakeKeepsQuota
  <2>3. UNCHANGED connected /\ sent' = [sent EXCEPT ![connected[i]] = @ + 1]
    BY <1>1 DEF Take, rotationVars
  <2> QED BY <2>1, <2>2, <2>3
<1>2. CASE TakeNext(p)
  <2>1. First + 1 \in DOMAIN connected
    BY <1>2, SelectTypes DEF TakeNext
  <2>2. HasQuota(connected[First + 1]) /\ Take(p, connected[First + 1])
    BY <1>2 DEF TakeNext
  <2> QED BY <1>1, <2>1, <2>2
<1>3. CASE TakeRichest(p)
  BY <1>1, <1>3 DEF TakeRichest, Richest
<1>4. CASE TakeNone(p, none)
  <2>1. /\ bucket' = Refilled /\ elapsed' = SinceRefill
        /\ UNCHANGED <<connected, sent, phase>>
    BY <1>4 DEF TakeNone, rotationVars
  <2>2. \A c \in Clients : Limit[c] > 0 => sent'[c] + bucket'[c] <= Limit[c]
    BY <2>1, RefillKeepsQuota
  <2>3. elapsed' = phase' /\ ~ Due'
    <3>1. phase \in 0..(TicksPerSec - 1)
      BY DEF TypeOK
    <3> QED BY <2>1, <3>1, RefillKeepsQuota, TicksPerSecAssumption DEF Due
  <2> QED BY <2>1, <2>2, <2>3 DEF QuotaInv
<1> QED BY <1>2, <1>3, <1>4 DEF SelectClient

LEMMA TickKeepsQuota ==
    ASSUME TypeOK, QuotaInv, Tick
    PROVE  /\ QuotaInv'
           /\ UNCHANGED connected
           /\ UNCHANGED sent \/ sent' = [c \in Clients |-> 0]
<1>0. /\ phase \in 0..(TicksPerSec - 1) /\ elapsed \in 0..TicksPerSec
      /\ sent \in [Clients -> Nat] /\ bucket \in [Clients -> Nat]
      /\ Limit \in [Clients -> Nat]
  BY LimitAssumption DEF TypeOK
<1>1. UNCHANGED <<connected, bucket>>
  BY DEF Tick, rotationVars
<1>2. CASE phase + 1 < TicksPerSec
  <2>1. phase' = phase + 1 /\ phase' # 0 /\ sent' = sent
    BY <1>0, <1>2, TicksPerSecAssumption DEF Tick
  <2>2. Due => Due' /\ sent' = [c \in Clients |-> 0]
    BY <2>1 DEF Tick, Due, QuotaInv
  <2>3. ~ Due => ~ Due' /\ elapsed' = phase'
    BY <1>0, <1>2, <2>1, TicksPerSecAssumption DEF Tick, Due, QuotaInv
  <2> QED BY <1>1, <2>1, <2>2, <2>3 DEF QuotaInv
<1>3. CASE ~ (phase + 1 < TicksPerSec)
  <2>1. phase + 1 = TicksPerSec
    BY <1>0, <1>3, TicksPerSecAssumption
  <2>2. phase' = 0 /\ sent' = [c \in Clients |-> 0]
    BY <2>1, TicksPerSecAssumption DEF Tick
  <2>3. Due'
    BY <1>0, <2>1, TicksPerSecAssumption DEF Tick, Due, QuotaInv
  <2>4. \A c \in Clients : Limit[c] > 0 => sent'[c] + bucket'[c] <= Limit[c]
    BY <1>0, <1>1, <2>2 DEF QuotaInv
  <2> QED BY <1>1, <2>2, <2>3, <2>4 DEF QuotaInv
<1> QED BY <1>2, <1>3

\* Every other step may change the rotation but not the quota.
Unmetered == UNCHANGED <<quotaVars, phase>>

LEMMA UnmeteredKeepsQuota ==
    ASSUME QuotaInv, Unmetered
    PROVE  QuotaInv' /\ UNCHANGED sent
BY DEF Unmetered, quotaVars, QuotaInv, Due

LEMMA MeteredSteps ==
    ASSUME [Next]_vars
    PROVE  \/ Unmetered
           \/ Tick
           \/ \E p \in Callers, none \in {"idle", "sleep"} : SelectClient(p, none)
<1>1. ASSUME Reconnector PROVE Unmetered
  BY <1>1 DEF Reconnector, ConnectStart, VisitConnected, DialOk, DialFail, Observe, Publish,
              Unmetered
<1>2. ASSUME NEW p \in Callers, Caller(p)
      PROVE  Unmetered \/ \E none \in {"idle", "sleep"} : SelectClient(p, none)
  <2>1. CASE Call(p) \/ CallW(p) \/ Retry(p)
    BY <2>1 DEF Call, CallW, Retry
  <2>2. CASE CtxDone(p) \/ CtxReturn(p) \/ ReadClient(p) \/ OpReturns(p) \/ MarkDisconnected(p)
    BY <2>2 DEF CtxDone, CtxReturn, ReadClient, OpReturns, MarkDisconnected, Unmetered
  <2>3. CASE WalkStart(p) \/ WalkNext(p) \/ EveryOpReturns(p) \/ CloseHandle(p) \/ WalkDone(p)
    BY <2>3 DEF WalkStart, WalkNext, EveryOpReturns, CloseHandle, WalkDone, Unmetered
  <2> QED BY <1>2, <2>1, <2>2, <2>3 DEF Caller
<1>3. ASSUME NEW c \in Clients, ConnBreaks(c) PROVE Unmetered
  BY <1>3 DEF ConnBreaks, Unmetered
<1>4. CASE UNCHANGED vars
  BY <1>4 DEF vars, Unmetered
<1> QED BY <1>1, <1>2, <1>3, <1>4 DEF Next

\* Each step keeps the invariant and is a step of UpstreamQuota or a stutter.
LEMMA QuotaStep ==
    ASSUME TypeOK, QuotaInv, [Next]_vars
    PROVE  QuotaInv' /\ [Quota!Next]_<<Rotation, sent>>
<1>1. CASE Unmetered
  <2>1. QuotaInv' /\ UNCHANGED sent
    BY <1>1, UnmeteredKeepsQuota
  <2>2. connected' \in Seq(Clients)
    BY TypeStep DEF TypeOK
  <2>3. Rotation' \in SUBSET Clients
    BY <2>2 DEF Rotation, ToSet
  <2>4. Quota!Regroup
    BY <2>1, <2>3 DEF Quota!Regroup
  <2> QED BY <2>1, <2>4 DEF Quota!Next
<1>2. CASE Tick
  <2>1. /\ QuotaInv' /\ UNCHANGED connected
        /\ UNCHANGED sent \/ sent' = [c \in Clients |-> 0]
    BY <1>2, TickKeepsQuota
  <2>2. UNCHANGED Rotation
    BY <2>1 DEF Rotation
  <2> QED BY <2>1, <2>2 DEF Quota!Next, Quota!NewSecond
<1>3. ASSUME NEW p \in Callers, NEW none \in {"idle", "sleep"}, SelectClient(p, none)
      PROVE  QuotaInv' /\ [Quota!Next]_<<Rotation, sent>>
  <2>1. /\ QuotaInv' /\ UNCHANGED connected
        /\ \/ UNCHANGED sent
           \/ \E c \in Rotation : /\ Limit[c] > 0 => sent[c] < Limit[c]
                                  /\ sent' = [sent EXCEPT ![c] = @ + 1]
    BY <1>3, SelectKeepsQuota
  <2>2. UNCHANGED Rotation
    BY <2>1 DEF Rotation
  <2>3. Rotation \subseteq Clients
    BY SelectTypes DEF Rotation, ToSet
  <2>4. CASE UNCHANGED sent
    BY <2>1, <2>2, <2>4
  <2>5. ASSUME NEW c \in Rotation, Limit[c] > 0 => sent[c] < Limit[c],
               sent' = [sent EXCEPT ![c] = @ + 1]
        PROVE  Quota!Next
    BY <2>2, <2>3, <2>5 DEF Quota!Next, Quota!Serve
  <2> QED BY <2>1, <2>4, <2>5
<1> QED BY <1>1, <1>2, <1>3, MeteredSteps

LEMMA QuotaInvariant == Spec => []QuotaInv
<1>1. TypeOK /\ QuotaInv /\ [Next]_vars => QuotaInv'
  BY QuotaStep
<1> QED BY <1>1, QuotaInit, TypeCorrect, PTL DEF Spec

\* In no calendar second does an upstream get more operations than GetLimitRps,
\* for any limits, any number of callers and any reconnections.
THEOREM RateIsBounded == Spec => []CalendarRate
<1>1. TypeOK /\ QuotaInv => CalendarRate
  <2> SUFFICES ASSUME TypeOK, QuotaInv, NEW c \in Clients, Limit[c] > 0
               PROVE  sent[c] <= Limit[c]
    BY DEF CalendarRate
  <2>1. sent[c] \in Nat /\ bucket[c] \in Nat /\ Limit[c] \in Nat
    BY LimitAssumption DEF TypeOK
  <2> QED BY <2>1 DEF QuotaInv
<1> QED BY <1>1, QuotaInvariant, TypeCorrect, PTL

\* The balancer implements the abstract quota: every selection serves one member
\* of the rotation below its limit, and nothing but a new second resets a quota.
THEOREM BalancerImplementsQuota == Spec => ImplementsQuota
<1>1. Init => Quota!Init
  BY DEF Init, Quota!Init, Rotation, ToSet
<1>2. TypeOK /\ QuotaInv /\ [Next]_vars => [Quota!Next]_<<Rotation, sent>>
  BY QuotaStep
<1> QED BY <1>1, <1>2, QuotaInvariant, TypeCorrect, PTL DEF Spec, ImplementsQuota, Quota!Spec

-----------------------------------------------------------------------------
(* Refusals.  While no upstream is taken out, every limited member of the   *)
(* rotation has exactly its limit, used or left, and an upstream that was   *)
(* never in the rotation still has all of it: whoever joins brings a full   *)
(* quota.  An upstream that is taken out and comes back does not, for the   *)
(* refill of a second passes over the upstreams that are out.               *)

RotationMarked == \A c \in Rotation \cup ToSet(newConnected) : isConnected[c]

ExactInv ==
    \A c \in Clients : Limit[c] > 0 =>
        IF c \in Rotation THEN ~ Due => sent[c] + bucket[c] = Limit[c]
                          ELSE bucket[c] = Limit[c] /\ sent[c] = 0

KeptInv == RotationMarked /\ ExactInv

NobodyMarks == \A p \in Callers : pc[p] # "mark"

LEMMA KeptInit == Init => KeptInv
<1> SUFFICES ASSUME Init PROVE KeptInv
  OBVIOUS
<1>1. Rotation = {} /\ ToSet(newConnected) = {}
  BY DEF Init, Rotation, ToSet
<1> QED BY <1>1 DEF Init, KeptInv, RotationMarked, ExactInv

\* Without removals the rotation only grows, and only by marked upstreams.
LEMMA RotationGrows ==
    ASSUME TypeOK, NoLostUpstream, RotationMarked, NobodyMarks, [Next]_vars
    PROVE  Rotation \subseteq Rotation' /\ RotationMarked'
<1>0. /\ newConnected \in Seq(Clients) /\ connected \in Seq(Clients)
      /\ isConnected \in [Clients -> BOOLEAN]
  BY DEF TypeOK
<1>1. CASE Quiet
  BY <1>1 DEF Quiet, rotationVars, passVars, Rotation, RotationMarked
<1>2. CASE ConnectStart
  <2>1. ToSet(newConnected') = {} /\ UNCHANGED <<connected, isConnected>>
    BY <1>2 DEF ConnectStart, rotationVars, ToSet
  <2> QED BY <2>1 DEF Rotation, RotationMarked
<1>3. CASE VisitConnected
  <2>1. ToSet(newConnected') = ToSet(newConnected) \cup {rpos} /\ isConnected[rpos]
    BY <1>0, <1>3, AppendRange DEF VisitConnected, NeedsDial
  <2> QED BY <1>3, <2>1 DEF VisitConnected, rotationVars, Rotation, RotationMarked
<1>4. ASSUME NEW c \in Clients, DialOk(c)
      PROVE  Rotation \subseteq Rotation' /\ RotationMarked'
  <2>1. ToSet(newConnected') = ToSet(newConnected) \cup {c} /\ UNCHANGED connected
    BY <1>0, <1>4, AppendRange DEF DialOk
  <2>2. isConnected'[c] /\ \A d \in Clients : isConnected[d] => isConnected'[d]
    BY <1>0, <1>4 DEF DialOk
  <2>3. Rotation \cup ToSet(newConnected) \subseteq Clients
    BY <1>0 DEF Rotation, ToSet
  <2> QED BY <2>1, <2>2, <2>3 DEF Rotation, RotationMarked
<1>5. CASE DialFail
  BY <1>5 DEF DialFail, Rotation, RotationMarked
<1>6. CASE Observe
  BY <1>6 DEF Observe, rotationVars, Rotation, RotationMarked
<1>7. CASE Publish
  <2>1. rpc = "visit" /\ rpos = NumClients + 1
    BY <1>7, NumClientsAssumption DEF Publish, TypeOK, Clients
  <2>2. /\ Rotation' = ToSet(newConnected) /\ ToSet(newConnected') = {}
        /\ UNCHANGED isConnected
    BY <1>7 DEF Publish, NextRotation, Rotation, ToSet
  <2>3. ASSUME NEW c \in Rotation PROVE c \in ToSet(newConnected)
    <3>1. c \in Clients /\ isConnected[c]
      <4>1. Rotation \subseteq Clients
        BY <1>0 DEF Rotation, ToSet
      <4> QED BY <4>1 DEF RotationMarked
    <3>2. c \in Nat /\ c <= NumClients /\ NumClients \in Nat
      BY <3>1, NumClientsAssumption DEF Clients
    <3>3. rpc # "idle" /\ c < rpos
      BY <2>1, <3>2
    <3> QED BY <2>1, <3>1, <3>3 DEF NoLostUpstream
  <2> QED BY <2>2, <2>3 DEF RotationMarked
<1>8. ~ \E p \in Callers : MarkDisconnected(p)
  BY DEF MarkDisconnected, NobodyMarks
<1> QED BY <1>1, <1>2, <1>3, <1>4, <1>5, <1>6, <1>7, <1>8, StepKinds

\* After the refill of selectClient the quotas of the rotation are exact.
LEMMA RefillIsExact ==
    ASSUME TypeOK, QuotaInv, ExactInv, NEW c \in Clients, Limit[c] > 0
    PROVE  /\ sent[c] + Refilled[c] = Limit[c]
           /\ c \notin Rotation => Refilled[c] = Limit[c] /\ sent[c] = 0
<1>1. Limit[c] \in Nat /\ sent[c] \in Nat /\ bucket[c] \in Nat
  BY LimitAssumption DEF TypeOK
<1>2. CASE Due /\ c \in Rotation
  BY <1>1, <1>2 DEF Refilled, EffLimit, QuotaInv
<1>3. CASE ~ (Due /\ c \in Rotation)
  BY <1>1, <1>3 DEF Refilled, ExactInv
<1> QED BY <1>2, <1>3

LEMMA TakeKeepsExact ==
    ASSUME TypeOK, QuotaInv, ExactInv, NEW p \in Callers, NEW i \in DOMAIN connected,
           HasQuota(connected[i]), Take(p, connected[i])
    PROVE  ExactInv'
<1> DEFINE c == connected[i]
<1>1. c \in Rotation /\ c \in Clients /\ Rotation' = Rotation
  BY SelectTypes DEF Rotation, ToSet, Take, rotationVars
<1>2. Refilled \in [Clients -> Nat] /\ sent \in [Clients -> Nat]
  BY SelectTypes DEF TypeOK
<1>3. bucket' = [Refilled EXCEPT ![c] = @ - 1] /\ sent' = [sent EXCEPT ![c] = @ + 1]
  BY DEF Take
<1>4. Refilled[c] > 0
  BY DEF HasQuota
<1> HIDE DEF c
<1>5. ASSUME NEW d \in Clients, Limit[d] > 0
      PROVE  /\ sent'[d] + bucket'[d] = Limit[d]
             /\ d \notin Rotation => bucket'[d] = Limit[d] /\ sent'[d] = 0
  <2>1. /\ sent[d] + Refilled[d] = Limit[d]
        /\ d \notin Rotation => Refilled[d] = Limit[d] /\ sent[d] = 0
    BY <1>5, RefillIsExact
  <2>2. CASE d = c
    BY <1>1, <1>2, <1>3, <1>4, <2>1, <2>2
  <2>3. CASE d # c
    BY <1>1, <1>2, <1>3, <2>1, <2>3
  <2> QED BY <2>2, <2>3
<1> QED BY <1>1, <1>5 DEF ExactInv

LEMMA SelectKeepsExact ==
    ASSUME TypeOK, QuotaInv, ExactInv, NEW p \in Callers, NEW none, SelectClient(p, none)
    PROVE  ExactInv'
<1>1. CASE TakeNext(p)
  <2>1. First + 1 \in DOMAIN connected
    BY <1>1, SelectTypes DEF TakeNext
  <2> QED BY <1>1, <2>1, TakeKeepsExact DEF TakeNext
<1>2. CASE TakeRichest(p)
  BY <1>2, TakeKeepsExact DEF TakeRichest, Richest
<1>3. CASE TakeNone(p, none)
  <2>1. bucket' = Refilled /\ sent' = sent /\ Rotation' = Rotation
    BY <1>3 DEF TakeNone, rotationVars, Rotation
  <2> QED BY <2>1, RefillIsExact DEF ExactInv
<1> QED BY <1>1, <1>2, <1>3 DEF SelectClient

LEMMA TickKeepsExact ==
    ASSUME TypeOK, QuotaInv, ExactInv, Tick
    PROVE  ExactInv'
<1>0. /\ phase \in 0..(TicksPerSec - 1) /\ elapsed \in 0..TicksPerSec
      /\ sent \in [Clients -> Nat] /\ TicksPerSec \in Nat \ {0}
  BY TicksPerSecAssumption DEF TypeOK
<1>1. UNCHANGED bucket /\ Rotation' = Rotation
  BY DEF Tick, rotationVars, Rotation
<1>2. UNCHANGED sent \/ sent' = [c \in Clients |-> 0]
  BY DEF Tick
<1>3. ~ Due' => ~ Due /\ UNCHANGED sent
  <2> SUFFICES ASSUME ~ Due' PROVE ~ Due /\ UNCHANGED sent
    OBVIOUS
  <2>1. ~ Due /\ elapsed' = elapsed + 1 /\ elapsed = phase
    BY DEF Tick, Due, QuotaInv
  <2>2. phase + 1 < TicksPerSec
    BY <1>0, <2>1 DEF Due
  <2>3. phase' = phase + 1 /\ phase' # 0
    BY <1>0, <2>2 DEF Tick
  <2> QED BY <2>1, <2>3 DEF Tick
<1> QED BY <1>0, <1>1, <1>2, <1>3 DEF ExactInv

\* A step that takes nothing out of the rotation keeps the invariant.
LEMMA KeptStep ==
    TypeOK /\ QuotaInv /\ NoLostUpstream /\ KeptInv /\ NobodyMarks /\ [Next]_vars => KeptInv'
<1> SUFFICES ASSUME TypeOK, QuotaInv, NoLostUpstream, KeptInv, NobodyMarks, [Next]_vars
             PROVE  ExactInv'
  BY RotationGrows DEF KeptInv
<1>1. Rotation \subseteq Rotation'
  BY RotationGrows DEF KeptInv
<1>2. CASE Unmetered
  <2>1. UNCHANGED <<bucket, sent>> /\ (Due' <=> Due)
    BY <1>2 DEF Unmetered, quotaVars, Due
  <2>2. Limit \in [Clients -> Nat]
    BY LimitAssumption
  <2> QED BY <1>1, <2>1, <2>2 DEF KeptInv, ExactInv
<1>3. CASE Tick
  BY <1>3, TickKeepsExact DEF KeptInv
<1>4. ASSUME NEW p \in Callers, NEW none \in {"idle", "sleep"}, SelectClient(p, none)
      PROVE  ExactInv'
  BY <1>4, SelectKeepsExact DEF KeptInv
<1> QED BY <1>2, <1>3, <1>4, MeteredSteps

LEMMA KeptIsHonest == TypeOK /\ KeptInv => RefusedOnlyWhenUsed
<1> SUFFICES ASSUME TypeOK, KeptInv, Exhausted, NEW c \in Rotation, Limit[c] > 0
             PROVE  sent[c] = Limit[c]
  BY DEF RefusedOnlyWhenUsed
<1>1. c \in Clients /\ Refilled[c] \in Nat /\ ~ HasQuota(c)
  BY SelectTypes DEF Rotation, ToSet, Exhausted
<1>2. Limit[c] \in Nat /\ sent[c] \in Nat /\ bucket[c] \in Nat /\ Refilled[c] = 0
  BY <1>1, LimitAssumption DEF TypeOK, HasQuota
<1>3. ~ Due /\ bucket[c] = 0
  BY <1>1, <1>2 DEF Refilled, EffLimit
<1> QED BY <1>1, <1>2, <1>3 DEF KeptInv, ExactInv

\* Nothing ends a connection but Close and the network.
StableInv == /\ quit = {}
             /\ \A p \in Callers : pc[p] \notin {"mark", "close", "closechosen", "closeop"}

LEMMA StableStep ==
    ASSUME "break" \notin Faults, "Close" \notin Ops
    PROVE  TypeOK /\ StableInv /\ [Next]_vars => StableInv'
<1> SUFFICES ASSUME TypeOK, StableInv, [Next]_vars PROVE StableInv'
  OBVIOUS
<1>1. ASSUME UNCHANGED pc, quit' \subseteq quit PROVE StableInv'
  BY <1>1 DEF StableInv
<1>2. CASE Reconnector \/ Tick \/ UNCHANGED vars
  BY <1>1, <1>2 DEF Reconnector, ConnectStart, VisitConnected, DialOk, DialFail, Observe, Publish,
                    Tick, vars, callerVars
<1>3. ASSUME NEW p \in Callers, Caller(p) PROVE StableInv'
  <2>1. /\ ~ MarkDisconnected(p) /\ ~ CloseHandle(p)
        /\ pc[p] \notin {"close", "closechosen"}
    BY DEF MarkDisconnected, CloseHandle, StableInv
  <2>2. CASE Call(p) \/ CallW(p) \/ Retry(p)
    <3>1. PICK none \in {"idle", "sleep"} : SelectClient(p, none)
      BY <2>2 DEF Call, CallW, Retry
    <3>2. UNCHANGED quit /\ pc' \in {[pc EXCEPT ![p] = "chosen"], [pc EXCEPT ![p] = none]}
      BY <3>1 DEF SelectClient, TakeNext, TakeRichest, TakeNone, Take
    <3> QED BY <3>2 DEF StableInv, TypeOK
  <2>3. CASE CtxDone(p) \/ CtxReturn(p) \/ EveryOpReturns(p) \/ WalkDone(p)
    BY <2>3 DEF CtxDone, CtxReturn, EveryOpReturns, WalkDone, StableInv, TypeOK
  <2>4. CASE ReadClient(p)
    BY <2>1, <2>4 DEF ReadClient, StableInv, TypeOK
  <2>5. CASE OpReturns(p)
    <3>1. OpOutcome(use[p]) \in {"panicked", "idle"}
      BY DEF OpOutcome, StableInv
    <3> QED BY <2>5, <3>1 DEF OpReturns, StableInv, TypeOK
  <2>6. CASE WalkStart(p)
    BY <2>6 DEF WalkStart, StableInv, TypeOK
  <2>7. CASE WalkNext(p)
    BY <2>1, <2>7 DEF WalkNext, StableInv, TypeOK
  <2> QED BY <1>3, <2>1, <2>2, <2>3, <2>4, <2>5, <2>6, <2>7 DEF Caller
<1>4. ~ \E c \in Clients : ConnBreaks(c)
  BY DEF ConnBreaks
<1> QED BY <1>2, <1>3, <1>4 DEF Next

LEMMA StableInvariant ==
    ASSUME "break" \notin Faults, "Close" \notin Ops
    PROVE  Spec => []StableInv
<1>1. Init => StableInv
  BY DEF Init, StableInv
<1>2. TypeOK /\ StableInv /\ [Next]_vars => StableInv'
  BY StableStep
<1> QED BY <1>1, <1>2, TypeCorrect, PTL DEF Spec

\* While connections are stable, although dials may fail, selectClient refuses
\* nobody as long as a limited upstream of the rotation was not used to its
\* limit in the present calendar second, for all limits and any callers.
THEOREM RefusalsAreHonest ==
    ASSUME "break" \notin Faults, "Close" \notin Ops
    PROVE  Spec => []RefusedOnlyWhenUsed
<1>1. StableInv => NobodyMarks
  BY DEF StableInv, NobodyMarks
<1>2. Spec => []KeptInv
  BY <1>1, KeptInit, KeptStep, StableInvariant, TypeCorrect, QuotaInvariant, NothingIsLost, PTL
  DEF Spec
<1> QED BY <1>2, KeptIsHonest, TypeCorrect, PTL

-----------------------------------------------------------------------------
(* Even load.  With stable connections and no failing dial the rotation is  *)
(* all upstreams, in order, from the end of Start on.  The upstreams that   *)
(* are served sooner, in the order of the round that starts at the index,   *)
(* have as much quota left as those after them, or one operation more: so   *)
(* the next one always has the most, and the search for the largest bucket  *)
(* never upsets the round.                                                  *)

FirstClients(n) == [i \in 1..n |-> i]

StartInv ==
    IF started THEN rpc = "idle" /\ connected = FirstClients(NumClients)
    ELSE /\ connected = <<>> /\ bucket = Limit /\ index = 0
         /\ \A p \in Callers : pc[p] = "idle"
         /\ \/ rpc = "visit" /\ newConnected = FirstClients(rpos - 1)
            \/ rpc = "observe" /\ newConnected = FirstClients(rpos)

\* The round goes through index + 1, ..., NumClients, 1, ..., index.
Ahead(c, d) == \/ index < c /\ (c < d \/ d <= index)
               \/ c < d /\ d <= index

RoundInv ==
    /\ index < NumClients
    /\ \A c, d \in Clients : Ahead(c, d) => bucket[c] - bucket[d] \in {0, 1}

\* The end of a round, and a position within it.
LEMMA WholeRound == ASSUME NEW n \in Nat \ {0} PROVE n % n = 0
OBVIOUS

LEMMA PartOfRound == ASSUME NEW n \in Nat \ {0}, NEW i \in Nat, i < n PROVE i % n = i
OBVIOUS

LEMMA FirstClientsGrow ==
    ASSUME NEW n \in Nat
    PROVE  Append(FirstClients(n), n + 1) = FirstClients(n + 1)
<1> DEFINE s == FirstClients(n)
           t == Append(s, n + 1)
<1>1. s \in Seq(Int) /\ Len(s) = n /\ \A i \in 1..n : s[i] = i
  BY DEF FirstClients
<1> HIDE DEF s
<1>2. /\ t \in Seq(Int) /\ Len(t) = n + 1 /\ t[n + 1] = n + 1
      /\ \A i \in 1..n : t[i] = i
  BY <1>1, AppendProperties
<1> HIDE DEF t
<1>3. FirstClients(n + 1) \in Seq(Int) /\ Len(FirstClients(n + 1)) = n + 1
  BY DEF FirstClients
<1>4. \A i \in 1..(n + 1) : t[i] = FirstClients(n + 1)[i]
  BY <1>2 DEF FirstClients
<1>5. t = FirstClients(n + 1)
  BY <1>2, <1>3, <1>4, SeqEqual
<1> QED BY <1>5 DEF t, s

\* The rotation without failures: empty until Start has dialed everybody.
LEMMA StartStep ==
    ASSUME Faults = {}
    PROVE  TypeOK /\ StableInv /\ StartInv /\ [Next]_vars => StartInv'
<1> SUFFICES ASSUME TypeOK, StableInv, StartInv, [Next]_vars PROVE StartInv'
  OBVIOUS
<1>0. /\ NumClients \in Nat \ {0} /\ rpos \in 1..(NumClients + 1)
      /\ started \in BOOLEAN /\ isConnected \in [Clients -> BOOLEAN]
  BY NumClientsAssumption DEF TypeOK
<1>1. CASE Reconnector
  <2>1. ~ ConnectStart
    <3>1. Len(FirstClients(NumClients)) = NumClients
      BY <1>0 DEF FirstClients
    <3> QED BY <3>1 DEF ConnectStart, PassNeeded, StartInv
  <2>2. ~ DialFail
    BY DEF DialFail
  <2>3. CASE VisitConnected
    <3>1. ~ started /\ newConnected = FirstClients(rpos - 1) /\ rpos \in Clients
      BY <2>3 DEF VisitConnected, StartInv
    <3>2. newConnected' = FirstClients(rpos)
      <4>1. rpos - 1 \in Nat /\ (rpos - 1) + 1 = rpos
        BY <1>0
      <4>2. newConnected' = Append(newConnected, rpos)
        BY <2>3, <3>1 DEF VisitConnected
      <4> QED BY <3>1, <4>1, <4>2, FirstClientsGrow
    <3>3. rpos' - 1 = rpos
      BY <1>0, <2>3 DEF VisitConnected
    <3> QED BY <2>3, <3>1, <3>2, <3>3
            DEF VisitConnected, StartInv, rotationVars, quotaVars, callerVars
  <2>4. ASSUME NEW c \in Clients, DialOk(c) PROVE StartInv'
    <3>1. ~ started /\ newConnected = FirstClients(rpos - 1) /\ rpos = c
      BY <2>4 DEF DialOk, StartInv
    <3>2. newConnected' = FirstClients(rpos)
      <4>1. rpos - 1 \in Nat /\ (rpos - 1) + 1 = rpos
        BY <1>0
      <4>2. newConnected' = Append(newConnected, rpos)
        BY <2>4, <3>1 DEF DialOk
      <4> QED BY <3>1, <4>1, <4>2, FirstClientsGrow
    <3> QED BY <2>4, <3>1, <3>2 DEF DialOk, StartInv, quotaVars, callerVars
  <2>5. CASE Observe
    <3>1. ~ started /\ newConnected = FirstClients(rpos) /\ rpos' - 1 = rpos
      BY <1>0, <2>5 DEF Observe, StartInv
    <3> QED BY <2>5, <3>1 DEF Observe, StartInv, rotationVars, quotaVars, callerVars
  <2>6. CASE Publish
    <3>1. newConnected = FirstClients(rpos - 1) /\ rpos - 1 = NumClients
      BY <1>0, <2>6 DEF Publish, StartInv, Clients
    <3> QED BY <2>6, <3>1 DEF Publish, NextRotation, StartInv
  <2> QED BY <1>1, <2>1, <2>2, <2>3, <2>4, <2>5, <2>6 DEF Reconnector
<1>2. ASSUME NEW p \in Callers, Caller(p) PROVE StartInv'
  <2>1. started
    BY <1>2 DEF Caller, Call, CallW, Retry, CtxDone, CtxReturn, ReadClient, OpReturns,
                MarkDisconnected, WalkStart, WalkNext, EveryOpReturns, CloseHandle, WalkDone,
                StartInv
  <2>2. ~ MarkDisconnected(p)
    BY DEF MarkDisconnected, StableInv
  <2>3. UNCHANGED <<connected, started, rpc>>
    <3>1. ASSUME NEW none, SelectClient(p, none) PROVE UNCHANGED <<connected, started, rpc>>
      BY <3>1 DEF SelectClient, TakeNext, TakeRichest, TakeNone, Take, rotationVars, passVars
    <3>2. CASE Call(p) \/ CallW(p) \/ Retry(p)
      BY <3>1, <3>2 DEF Call, CallW, Retry
    <3>3. CASE CtxDone(p) \/ CtxReturn(p) \/ ReadClient(p) \/ OpReturns(p)
      BY <3>3 DEF CtxDone, CtxReturn, ReadClient, OpReturns, rotationVars, passVars
    <3>4. CASE WalkStart(p) \/ WalkNext(p) \/ EveryOpReturns(p) \/ CloseHandle(p) \/ WalkDone(p)
      BY <3>4 DEF WalkStart, WalkNext, EveryOpReturns, CloseHandle, WalkDone, rotationVars, passVars
    <3> QED BY <1>2, <2>2, <3>2, <3>3, <3>4 DEF Caller
  <2> QED BY <2>1, <2>3 DEF StartInv
<1>3. CASE Tick
  BY <1>3 DEF Tick, StartInv, rotationVars, passVars, callerVars
<1>4. CASE UNCHANGED vars
  BY <1>4 DEF vars, StartInv, rotationVars, quotaVars, passVars, callerVars
<1>5. ~ \E c \in Clients : ConnBreaks(c)
  BY DEF ConnBreaks
<1> QED BY <1>1, <1>2, <1>3, <1>4, <1>5 DEF Next

EqualLimits == \A c, d \in Clients : Limit[c] = Limit[d]

\* A selection: the refill keeps the round or evens it out, and the next
\* upstream is served, if it has any quota, and moves to the end of the round.
LEMMA RoundSelect ==
    ASSUME EqualLimits, TypeOK, StartInv, RoundInv, started,
           NEW p \in Callers, NEW none, SelectClient(p, none)
    PROVE  RoundInv'
<1>0. /\ NumClients \in Nat \ {0} /\ index \in Nat /\ index < NumClients
      /\ Clients = 1..NumClients
      /\ Refilled \in [Clients -> Nat] /\ bucket \in [Clients -> Nat]
  BY NumClientsAssumption, SelectTypes DEF TypeOK, RoundInv, Clients
<1>1. /\ connected = FirstClients(NumClients) /\ Len(connected) = NumClients
      /\ DOMAIN connected = Clients /\ \A i \in Clients : connected[i] = i
  BY <1>0 DEF StartInv, FirstClients
<1>2. First = index /\ index + 1 \in Clients /\ connected[First + 1] = index + 1
  BY <1>0, <1>1 DEF First
<1>3. \A c, d \in Clients : Ahead(c, d) => Refilled[c] - Refilled[d] \in {0, 1}
  <2>1. Rotation = Clients
    BY <1>1 DEF Rotation, ToSet
  <2>2. CASE Due
    <3>1. \A c, d \in Clients : Refilled[c] = Refilled[d]
      BY <2>1, <2>2 DEF Refilled, EffLimit, EqualLimits
    <3> QED BY <1>0, <3>1
  <2>3. CASE ~ Due
    BY <1>0, <2>3 DEF Refilled, RoundInv
  <2> QED BY <2>2, <2>3
<1>4. \A c \in Clients : Refilled[c] <= Refilled[index + 1]
  <2> SUFFICES ASSUME NEW c \in Clients PROVE Refilled[c] <= Refilled[index + 1]
    OBVIOUS
  <2>1. Refilled[c] \in Nat /\ Refilled[index + 1] \in Nat
    BY <1>0, <1>2
  <2>2. CASE c # index + 1
    <3>1. Ahead(index + 1, c)
      BY <1>0, <2>2 DEF Ahead
    <3>2. Refilled[index + 1] - Refilled[c] \in {0, 1}
      BY <1>2, <1>3, <3>1
    <3> QED BY <2>1, <3>2
  <2> QED BY <2>1, <2>2
<1>5. CASE TakeNext(p)
  <2>1. /\ index' = After(index)
        /\ bucket' = [Refilled EXCEPT ![index + 1] = @ - 1]
    BY <1>2, <1>5 DEF TakeNext, Take
  <2>2. index' = IF index + 1 = NumClients THEN 0 ELSE index + 1
    <3>1. NumClients % NumClients = 0
      BY NumClientsAssumption, WholeRound
    <3>2. index + 1 < NumClients => (index + 1) % NumClients = index + 1
      <4>1. index + 1 \in Nat /\ NumClients \in Nat \ {0}
        BY <1>0
      <4> QED BY <4>1, PartOfRound
    <3>3. index' = (index + 1) % NumClients
      BY <1>1, <2>1 DEF After
    <3>4. index + 1 = NumClients \/ index + 1 < NumClients
      BY <1>0
    <3>5. CASE index + 1 = NumClients
      BY <3>1, <3>3, <3>5
    <3>6. CASE index + 1 < NumClients
      BY <1>0, <3>2, <3>3, <3>6
    <3> QED BY <3>4, <3>5, <3>6
  <2>3. ASSUME NEW c \in Clients, NEW d \in Clients, Ahead(c, d)'
        PROVE  bucket'[c] - bucket'[d] \in {0, 1}
    <3>1. c # index + 1 /\ c # d
      BY <1>0, <2>2, <2>3 DEF Ahead
    <3>2. CASE d = index + 1
      <4>1. Ahead(d, c)
        BY <1>0, <3>1, <3>2 DEF Ahead
      <4>2. Refilled[d] - Refilled[c] \in {0, 1}
        BY <1>3, <4>1
      <4>3. bucket'[c] = Refilled[c] /\ bucket'[d] = Refilled[d] - 1
        BY <1>0, <2>1, <3>1, <3>2
      <4>4. Refilled[c] \in Nat /\ Refilled[d] \in Nat
        BY <1>0
      <4>5. Refilled[c] - (Refilled[d] - 1) \in {0, 1}
        BY <4>2, <4>4
      <4> QED BY <4>3, <4>5
    <3>3. CASE d # index + 1
      <4>1. Ahead(c, d)
        BY <1>0, <2>2, <2>3, <3>1, <3>3 DEF Ahead
      <4> QED BY <1>0, <1>3, <2>1, <3>1, <3>3, <4>1
    <3> QED BY <3>2, <3>3
  <2>4. index' < NumClients
    BY <1>0, <2>2
  <2> QED BY <2>3, <2>4 DEF RoundInv
<1>6. ~ TakeRichest(p)
  <2> SUFFICES ASSUME NEW i \in DOMAIN connected, Richest(i), ~ HasQuota(connected[First + 1])
               PROVE  FALSE
    BY DEF TakeRichest
  <2>1. i \in Clients /\ Refilled[i] > 0 /\ ~ (Refilled[index + 1] > 0)
    BY <1>1, <1>2 DEF Richest, HasQuota
  <2> QED BY <1>0, <1>2, <1>4, <2>1
<1>7. CASE TakeNone(p, none)
  <2>1. index' = index /\ bucket' = Refilled
    BY <1>2, <1>7 DEF TakeNone
  <2> QED BY <1>0, <1>3, <2>1 DEF RoundInv, Ahead
<1> QED BY <1>5, <1>6, <1>7 DEF SelectClient

LEMMA RoundStep ==
    ASSUME EqualLimits
    PROVE  TypeOK /\ StartInv /\ RoundInv /\ [Next]_vars => RoundInv'
<1> SUFFICES ASSUME TypeOK, StartInv, RoundInv, [Next]_vars PROVE RoundInv'
  OBVIOUS
<1>1. CASE UNCHANGED <<bucket, index>>
  BY <1>1 DEF RoundInv, Ahead
<1>2. ASSUME NEW p \in Callers, Caller(p) PROVE UNCHANGED <<bucket, index>> \/ RoundInv'
  <2>1. ASSUME NEW none, SelectClient(p, none), started PROVE RoundInv'
    BY <2>1, RoundSelect
  <2>2. CASE Call(p) \/ CallW(p) \/ Retry(p)
    BY <2>1, <2>2 DEF Call, CallW, Retry, StartInv
  <2>3. CASE CtxDone(p) \/ CtxReturn(p) \/ ReadClient(p) \/ OpReturns(p) \/ MarkDisconnected(p)
    BY <2>3 DEF CtxDone, CtxReturn, ReadClient, OpReturns, MarkDisconnected, quotaVars
  <2>4. CASE WalkStart(p) \/ WalkNext(p) \/ EveryOpReturns(p) \/ CloseHandle(p) \/ WalkDone(p)
    BY <2>4 DEF WalkStart, WalkNext, EveryOpReturns, CloseHandle, WalkDone, quotaVars
  <2> QED BY <1>2, <2>2, <2>3, <2>4 DEF Caller
<1>3. CASE Reconnector \/ Tick \/ (\E c \in Clients : ConnBreaks(c)) \/ UNCHANGED vars
  <2>1. UNCHANGED <<bucket, index>>
    BY <1>3 DEF Reconnector, ConnectStart, VisitConnected, DialOk, DialFail, Observe, Publish,
                Tick, ConnBreaks, vars, quotaVars
  <2> QED BY <1>1, <2>1
<1> QED BY <1>1, <1>2, <1>3 DEF Next

LEMMA RoundInit == ASSUME EqualLimits PROVE Init => StartInv /\ RoundInv
<1> SUFFICES ASSUME Init PROVE StartInv /\ RoundInv
  OBVIOUS
<1>1. FirstClients(rpos - 1) = <<>>
  BY DEF Init, FirstClients
<1>2. \A c, d \in Clients : bucket[c] - bucket[d] = 0
  BY LimitAssumption DEF Init, EqualLimits
<1> QED BY <1>1, <1>2, NumClientsAssumption DEF Init, StartInv, RoundInv

LEMMA RoundIsEven == RoundInv /\ TypeOK => EvenLoad
<1> SUFFICES ASSUME RoundInv, TypeOK, NEW c \in Rotation, NEW d \in Rotation
             PROVE  bucket[c] - bucket[d] \in {-1, 0, 1}
  BY DEF EvenLoad
<1>1. /\ c \in Clients /\ d \in Clients /\ bucket[c] \in Nat /\ bucket[d] \in Nat
      /\ index \in Nat
  BY DEF TypeOK, Rotation, ToSet
<1>2. c = d \/ Ahead(c, d) \/ Ahead(d, c)
  BY <1>1 DEF Ahead, Clients
<1> QED BY <1>1, <1>2 DEF RoundInv

\* With equal limits and stable connections the load is shared evenly: after any
\* number of selections by any callers, in any second, the remaining quotas of
\* two upstreams differ by at most one.
THEOREM LoadIsEven ==
    ASSUME Faults = {}, "Close" \notin Ops, EqualLimits
    PROVE  Spec => []EvenLoad
<1>1. Spec => []StableInv
  BY StableInvariant
<1> QED BY <1>1, RoundInit, RoundIsEven, StartStep, RoundStep, TypeCorrect, PTL DEF Spec
=============================================================================
