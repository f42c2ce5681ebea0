------------------------- MODULE AgentProcessProofs -------------------------
(***************************************************************************)
(* The process of the agent, for any configuration, any names and any      *)
(* number of requests: it serves all of its configuration or nothing, and  *)
(* what it answers is of the chain that was asked, from caches or not.     *)
(***************************************************************************)
EXTENDS AgentProcess, SequenceTheorems, TLAPS

-----------------------------------------------------------------------------
(* Start-up.  While it is at work the table has the agents that are made    *)
(* and no others; the rest of the configuration is still to come.           *)

Served(c) == c \in Configured(file) /\ c.type \notin types /\ c \notin found /\ c # asking

TableInv ==
    /\ servers \in Tables
    /\ mode = "down" => servers = NoServers
    /\ mode # "down" => \A c \in Chains : servers[ChainIdToString(c)] = IF Served(c) THEN c ELSE NoAgent

StartInv ==
    /\ mode \in {"down", "init", "serving"}
    /\ file \in Files \cup {NoFile} /\ (mode = "down" <=> file = NoFile)
    /\ types \subseteq Types /\ found \subseteq Chains /\ asking \in Chains \cup {NoChain}
    /\ mode # "init" => types = {} /\ found = {} /\ asking = NoChain
    /\ mode # "down" =>
         /\ types \subseteq DOMAIN file /\ DOMAIN file \ types \subseteq Factories
         /\ \A c \in found : c \in Configured(file) /\ c.type \notin types /\ c # asking
         /\ asking # NoChain => asking \in Configured(file) /\ asking.type \notin types

\* A chain is found again under its text.
LEMMA KeysDiffer ==
    /\ \A c, d \in Chains : ChainIdToString(c) = ChainIdToString(d) => c = d
    /\ DOMAIN NoServers = {ChainIdToString(c) : c \in Chains}
    /\ \A c \in Chains : ChainIdToString(c) \in DOMAIN NoServers
BY DEF ChainIdToString, Chains, NoServers

LEMMA NoServersType == NoServers \in Tables
BY DEF NoServers, Tables

LEMMA StartExits == ASSUME Exit PROVE StartInv' /\ TableInv'
BY NothingAssumption, NoServersType DEF Exit, StartInv, TableInv

LEMMA StartLoads ==
    ASSUME StartInv, TableInv, LoadConfig
    PROVE  StartInv' /\ TableInv'
<1>1. PICK f \in Files : file' = f /\ types' = DOMAIN f
  BY DEF LoadConfig
<1>2. /\ mode' = "init" /\ mode = "down" /\ found' = {} /\ asking' = NoChain
      /\ servers' = NoServers
  BY DEF LoadConfig, StartInv, TableInv
<1>3. StartInv'
  BY <1>1, <1>2, FilesAssumption, NothingAssumption DEF StartInv
<1>4. ASSUME NEW c \in Chains PROVE ~ Served(c)'
  BY <1>1, <1>2 DEF Served, Configured
<1>5. \A c \in Chains : NoServers[ChainIdToString(c)] = NoAgent
  BY KeysDiffer DEF NoServers
<1> QED BY <1>2, <1>3, <1>4, <1>5, NoServersType DEF TableInv

LEMMA StartVisits ==
    ASSUME StartInv, TableInv, VisitType
    PROVE  StartInv' /\ TableInv'
<1>1. PICK k \in types : FoundAgents(k) # {} /\ found' = FoundAgents(k) /\ types' = types \ {k}
  BY DEF VisitType
<1>2. mode = "init" /\ found = {} /\ asking = NoChain /\ UNCHANGED <<mode, file, asking, servers>>
  BY DEF VisitType
<1>3. k \in Factories /\ k \in DOMAIN file
  BY <1>1, <1>2 DEF FoundAgents, StartInv
<1>4. FoundAgents(k) = {c \in Configured(file) : c.type = k}
  BY <1>3 DEF FoundAgents, Configured
<1>5. StartInv'
  BY <1>1, <1>2, <1>3, <1>4, NothingAssumption DEF StartInv, Configured
<1>6. \A c \in Chains : Served(c)' <=> Served(c)
  BY <1>1, <1>2, <1>4 DEF Served
<1> QED BY <1>2, <1>5, <1>6 DEF TableInv

LEMMA StartConnects ==
    ASSUME StartInv, TableInv, Connect
    PROVE  StartInv' /\ TableInv'
<1>1. PICK c \in found : found' = found \ {c} /\ asking' = c
  BY DEF Connect
<1>2. mode = "init" /\ asking = NoChain /\ UNCHANGED <<mode, file, types, servers>>
  BY DEF Connect
<1>3. StartInv'
  BY <1>1, <1>2 DEF StartInv
<1>4. \A d \in Chains : Served(d)' <=> Served(d)
  BY <1>1, <1>2, NothingAssumption DEF Served, StartInv
<1> QED BY <1>2, <1>3, <1>4 DEF TableInv

LEMMA StartAnswered ==
    ASSUME StartInv, TableInv, ChainIdAnswered
    PROVE  StartInv' /\ TableInv'
<1>1. /\ mode = "init" /\ asking \in Chains /\ asking' = NoChain
      /\ servers' = [servers EXCEPT ![ChainIdToString(asking)] = asking]
      /\ UNCHANGED <<mode, file, types, found>>
  BY DEF ChainIdAnswered, TableKey, StartInv
<1>2. StartInv'
  BY <1>1, NothingAssumption DEF StartInv
<1>3. asking \in Configured(file) /\ asking.type \notin types /\ asking \notin found
  BY <1>1, NothingAssumption DEF StartInv
<1>4. ASSUME NEW c \in Chains
      PROVE  servers'[ChainIdToString(c)] = IF Served(c)' THEN c ELSE NoAgent
  <2>1. ChainIdToString(c) \in DOMAIN servers
    BY KeysDiffer DEF TableInv, Tables
  <2>2. CASE c = asking
    <3>1. Served(c)'
      BY <1>1, <1>3, <2>2, NothingAssumption DEF Served
    <3> QED BY <1>1, <2>1, <2>2, <3>1
  <2>3. CASE c # asking
    <3>1. Served(c)' <=> Served(c)
      BY <1>1, <2>3, NothingAssumption DEF Served
    <3>2. servers'[ChainIdToString(c)] = servers[ChainIdToString(c)]
      BY <1>1, <2>1, <2>3, KeysDiffer
    <3> QED BY <1>1, <3>1, <3>2 DEF TableInv
  <2> QED BY <2>2, <2>3
<1>5. servers' \in Tables
  BY <1>1 DEF TableInv, Tables
<1> QED BY <1>1, <1>2, <1>4, <1>5 DEF TableInv

LEMMA StartServes ==
    ASSUME StartInv, TableInv, Serve
    PROVE  StartInv' /\ TableInv'
<1>1. /\ mode = "init" /\ mode' = "serving" /\ UNCHANGED <<file, types, found, asking, servers>>
      /\ types = {} /\ found = {} /\ asking = NoChain
  BY DEF Serve, Ready, startVars
<1>2. StartInv'
  BY <1>1 DEF StartInv
<1>3. \A c \in Chains : Served(c)' <=> Served(c)
  BY <1>1 DEF Served
<1> QED BY <1>1, <1>2, <1>3 DEF TableInv

\* Everything else of a process that goes on leaves mode, file and table alone.
LEMMA StartKept ==
    ASSUME StartInv, TableInv, UNCHANGED <<mode, file, startVars, servers>>
    PROVE  StartInv' /\ TableInv'
<1>1. UNCHANGED <<mode, file, types, found, asking, servers>>
  BY DEF startVars
<1>2. StartInv'
  BY <1>1 DEF StartInv
<1>3. ASSUME NEW c \in Chains PROVE Served(c)' <=> Served(c)
  BY <1>1, Zenon DEF Served
<1> QED BY <1>1, <1>2, <1>3 DEF TableInv

LEMMA RequestsKeepStart ==
    ASSUME NEW r \in Requests, Request(r)
    PROVE  UNCHANGED <<mode, file, startVars, servers>>
BY Zenon DEF Request, Unrouted, GetChain, ListChains, SendChain, SendFails, SendEnds, GetOther, Hit,
             Miss, Symbol, Decimals, CallFails, Leave, RequestOnly

LEMMA StartStep == StartInv /\ TableInv /\ [Next]_vars => StartInv' /\ TableInv'
<1> SUFFICES ASSUME StartInv, TableInv, [Next]_vars PROVE StartInv' /\ TableInv'
  OBVIOUS
<1>1. CASE StartUp
  BY <1>1, StartVisits, StartConnects, StartAnswered, StartServes, StartExits
  DEF StartUp, NoAgents, ConnectPanics, ChainIdFails
<1>2. CASE LoadConfig \/ AddressPanics \/ Kill
  BY <1>2, StartLoads, StartExits DEF AddressPanics, Kill
<1>3. CASE Evict \/ UNCHANGED vars
  BY <1>3, StartKept DEF Evict, vars
<1>4. ASSUME NEW r \in Requests, Request(r) PROVE StartInv' /\ TableInv'
  BY <1>4, RequestsKeepStart, StartKept
<1> QED BY <1>1, <1>2, <1>3, <1>4 DEF Next

LEMMA StartInvariant == Spec => [](StartInv /\ TableInv)
<1>1. Init => StartInv /\ TableInv
  BY NothingAssumption, NoServersType DEF Init, StartInv, TableInv
<1> QED BY <1>1, StartStep, PTL DEF Spec

\* In any order of types and networks the process comes to serve exactly its
\* configuration, each chain under its own text, or it does not serve at all.
THEOREM AllOrNothing == Spec => []ServesAll
<1>1. StartInv /\ TableInv => ServesAll
  <2> SUFFICES ASSUME StartInv, TableInv, mode = "serving" PROVE ServesAll
    BY DEF ServesAll
  <2>1. DOMAIN file \subseteq Factories
    BY DEF StartInv
  <2>2. \A c \in Chains : servers[ChainIdToString(c)] = IF c \in Configured(file) THEN c ELSE NoAgent
    BY NothingAssumption DEF StartInv, TableInv, Served
  <2> QED BY <2>1, <2>2 DEF ServesAll
<1> QED BY <1>1, StartInvariant, PTL

-----------------------------------------------------------------------------
(* Requests.                                                                *)

\* What is to be told of a currency of a chain.
Truth(c, i) == [id |-> i, symbol |-> Of(c, ChainCurrencyFromString(i).address),
                decimals |-> Of(c, ChainCurrencyFromString(i).address)]

CacheInv ==
    /\ cache \in [Chains -> [Ids -> Currency \cup {NoCurrency}]]
    /\ \A c \in Chains, i \in Ids : cache[c][i] # NoCurrency => IsErc20(i) /\ cache[c][i] = Truth(c, i)
    /\ mode # "serving" => cache = NoCache

Told(x) == x \in [at : {"chain"}, chain : Chains, of : Types] /\ x.of = x.chain.type

Listing(x) ==
    /\ x \in [at : {"listing"}, of : SUBSET Types, sent : Seq(Chains), left : SUBSET DOMAIN servers]
    /\ IsInjective(x.sent)
    /\ \A k \in x.left : servers[k] # NoAgent
    /\ ToSet(x.sent) = {c \in Chains : IsRouted(c) /\ c.type \in x.of /\ ChainIdToString(c) \notin x.left}

Listed(x) ==
    /\ x \in [at : {"listed"}, of : SUBSET Types, sent : Seq(Chains)]
    /\ IsInjective(x.sent)
    /\ ToSet(x.sent) = {c \in Configured(file) : c.type \in x.of}

Asks(x) ==
    /\ x.at \in {"symbol", "decimals"}
    /\ IsRouted(x.chain) /\ x.id \in Ids /\ IsErc20(x.id)
    /\ x.at = "decimals" => x.symbol = Of(x.chain, x.id[1])

Answered(x) ==
    /\ x \in [at : {"currency"}, chain : Chains, asked : Ids, answer : Currency]
    /\ x.answer = Truth(x.chain, x.asked)
    /\ \/ ChainCurrencyFromString(x.asked).address = Empty
       \/ ChainCurrencyFromString(x.asked).token = Empty

Good(x) == \/ x.at \in {"idle", "refused"}
           \/ Told(x) \/ Listing(x) \/ Listed(x) \/ Asks(x) \/ Answered(x)

ReqInv ==
    /\ req = [r \in Requests |-> req[r]]
    /\ \A r \in Requests : Good(req[r])
    /\ mode # "serving" => \A r \in Requests : req[r] = Idle

IInv == StartInv /\ TableInv /\ CacheInv /\ ReqInv

\* An agent that is serving is that of the chain it is found under.
LEMMA RoutedToItself ==
    ASSUME StartInv, TableInv, mode = "serving", NEW c
    PROVE  /\ IsRouted(c) => c \in Configured(file) /\ AgentOf(c) = c
           /\ c \in Configured(file) => IsRouted(c)
<1>1. ASSUME c \in Chains
      PROVE  servers[ChainIdToString(c)] = IF c \in Configured(file) THEN c ELSE NoAgent
  BY <1>1, NothingAssumption DEF StartInv, TableInv, Served
<1>2. c \in Configured(file) => c \in Chains
  BY DEF Configured
<1> QED BY <1>1, <1>2, NothingAssumption DEF IsRouted, AgentOf

LEMMA TruthType == \A c \in Chains, i \in Ids : IsChainCurrency(i) => Truth(c, i) \in Currency
<1> SUFFICES ASSUME NEW c \in Chains, NEW i \in Ids, IsChainCurrency(i) PROVE Truth(c, i) \in Currency
  OBVIOUS
<1>1. i \in Seq(Parts) /\ 1 \in DOMAIN i
  BY IdsAssumption DEF Texts, IsChainCurrency
<1>2. i[1] \in Parts
  BY <1>1
<1> QED BY <1>2 DEF Truth, Of, Currency, Meta, ChainCurrencyFromString

\* One more element, if it is new, keeps a sequence without repetitions.
LEMMA AppendNew ==
    ASSUME NEW S, NEW s \in Seq(S), NEW e \in S, e \notin ToSet(s), IsInjective(s)
    PROVE  /\ IsInjective(Append(s, e))
           /\ ToSet(Append(s, e)) = ToSet(s) \cup {e}
<1> DEFINE t == Append(s, e)
<1>1. /\ t \in Seq(S) /\ Len(t) = Len(s) + 1 /\ t[Len(s) + 1] = e
      /\ \A i \in 1..Len(s) : t[i] = s[i]
  BY AppendProperties
<1>2. DOMAIN s = 1..Len(s) /\ DOMAIN t = 1..(Len(s) + 1) /\ Len(s) \in Nat
  BY <1>1
<1> HIDE DEF t
<1>3. \A i \in DOMAIN s : i \in DOMAIN t /\ t[i] = s[i] /\ s[i] # e
  BY <1>1, <1>2 DEF ToSet
<1>4. \A i \in DOMAIN t : i \in DOMAIN s \/ i = Len(s) + 1
  BY <1>2
<1>5. Len(s) + 1 \in DOMAIN t
  BY <1>2
<1>6. IsInjective(t)
  BY <1>1, <1>3, <1>4 DEF IsInjective
<1>7. ToSet(t) = ToSet(s) \cup {e}
  BY <1>1, <1>3, <1>4, <1>5 DEF ToSet
<1> QED BY <1>6, <1>7 DEF t

\* A request takes a step of its own.
LEMMA OthersWait ==
    ASSUME IInv, UNCHANGED <<mode, file, startVars, servers>>, CacheInv',
           mode = "serving", NEW r \in Requests, NEW x, Becomes(r, x), Good(x)
    PROVE  IInv'
<1>1. StartInv' /\ TableInv'
  BY StartKept DEF IInv
<1>2. \A y : Good(y)' <=> Good(y)
  BY DEF Good, Told, Listing, Listed, Asks, Answered, IsRouted, Configured
<1>3. ReqInv'
  BY <1>2 DEF IInv, ReqInv, Becomes
<1> QED BY <1>1, <1>3 DEF IInv

LEMMA Exits == ASSUME Exit PROVE IInv'
<1>1. CacheInv'
  BY DEF Exit, CacheInv, NoCache
<1>2. ReqInv'
  BY DEF Exit, ReqInv, Good, Idle
<1> QED BY <1>1, <1>2, StartExits DEF IInv

\* Before it serves, the process has no request and nothing in its caches.
LEMMA Starting ==
    ASSUME IInv, mode # "serving", UNCHANGED <<cache, req>>, StartInv', TableInv'
    PROVE  IInv'
<1>1. CacheInv'
  BY DEF IInv, CacheInv
<1>2. \A r \in Requests : req[r] = Idle
  BY DEF IInv, ReqInv
<1>3. ReqInv'
  BY <1>2 DEF IInv, ReqInv, Good, Idle
<1> QED BY <1>1, <1>3 DEF IInv

LEMMA StartUpStep ==
    ASSUME IInv, LoadConfig \/ StartUp \/ AddressPanics \/ Kill
    PROVE  IInv'
<1>1. CASE NoAgents \/ ConnectPanics \/ ChainIdFails \/ AddressPanics \/ Kill
  BY <1>1, Exits DEF NoAgents, ConnectPanics, ChainIdFails, AddressPanics, Kill
<1>2. CASE LoadConfig
  BY <1>2, Starting, StartLoads DEF IInv, LoadConfig
<1>3. CASE VisitType
  BY <1>3, Starting, StartVisits DEF IInv, VisitType
<1>4. CASE Connect
  BY <1>4, Starting, StartConnects DEF IInv, Connect
<1>5. CASE ChainIdAnswered
  BY <1>5, Starting, StartAnswered DEF IInv, ChainIdAnswered
<1>6. CASE Serve
  BY <1>6, Starting, StartServes DEF IInv, Serve
<1> QED BY <1>1, <1>2, <1>3, <1>4, <1>5, <1>6 DEF StartUp

\* A request that leaves the caches alone.
LEMMA OwnStep ==
    ASSUME IInv, RequestOnly, mode = "serving",
           NEW r \in Requests, NEW x, Becomes(r, x), Good(x)
    PROVE  IInv'
<1>1. CacheInv'
  BY DEF IInv, CacheInv, RequestOnly
<1> QED BY <1>1, OthersWait DEF RequestOnly

LEMMA AtWork ==
    ASSUME IInv, NEW r \in Requests, req[r].at # "idle"
    PROVE  mode = "serving" /\ Good(req[r])
BY DEF IInv, ReqInv, Idle

\* What is refused, routed, sent and left.
LEMMA ChainsStep ==
    ASSUME IInv, NEW r \in Requests,
           Unrouted(r) \/ GetChain(r) \/ SendFails(r) \/ CallFails(r) \/ Leave(r)
    PROVE  IInv'
<1>1. CASE Unrouted(r)
  <2>1. \A why : Good(Refused(why))
    BY DEF Good, Refused
  <2> QED BY <1>1, <2>1, OwnStep DEF Unrouted
<1>2. CASE GetChain(r)
  <2>1. PICK c \in Chains : /\ IsRouted(c)
                            /\ Becomes(r, IF c.type = AgentOf(c).type
                                 THEN [at |-> "chain", chain |-> c, of |-> AgentOf(c).type]
                                 ELSE Refused("ErrInvalidChainId"))
    BY <1>2 DEF GetChain
  <2>2. AgentOf(c) = c
    BY <1>2, <2>1, RoutedToItself DEF IInv, GetChain
  <2>3. Good([at |-> "chain", chain |-> c, of |-> c.type])
    BY DEF Good, Told, Chains
  <2> QED BY <1>2, <2>1, <2>2, <2>3, OwnStep DEF GetChain
<1>3. CASE CallFails(r)
  <2>1. Good(Refused("ErrInvalidCurrency"))
    BY DEF Good, Refused
  <2> QED BY <1>3, <2>1, AtWork, OwnStep DEF CallFails
<1>4. CASE Leave(r)
  <2>1. Good(Idle)
    BY DEF Good, Idle
  <2> QED BY <1>4, <2>1, AtWork, OwnStep DEF Leave
<1>5. CASE SendFails(r)
  <2>1. Good(Refused("Send"))
    BY DEF Good, Refused
  <2> QED BY <1>5, <2>1, AtWork, OwnStep DEF SendFails
<1> QED BY <1>1, <1>2, <1>3, <1>4, <1>5

LEMMA ListingWith ==
    ASSUME NEW y, y = [at |-> "listing", of |-> y.of, sent |-> y.sent, left |-> y.left], NEW a, NEW b
    PROVE  [y EXCEPT !.left = a, !.sent = b] =
             [at |-> "listing", of |-> y.of, sent |-> b, left |-> a]
<1> DEFINE z == [y EXCEPT !.left = a, !.sent = b]
           x == [at |-> "listing", of |-> y.of, sent |-> b, left |-> a]
<1>1. DOMAIN y = {"at", "of", "sent", "left"} /\ y.at = "listing"
  OBVIOUS
<1>2. z = [f \in {"at", "of", "sent", "left"} |->
             IF f = "sent" THEN b ELSE IF f = "left" THEN a ELSE y[f]]
  BY <1>1
<1>3. x = [f \in {"at", "of", "sent", "left"} |->
             IF f = "sent" THEN b ELSE IF f = "left" THEN a ELSE y[f]]
  BY <1>1
<1> QED BY <1>2, <1>3

LEMMA ListStep ==
    ASSUME IInv, NEW r \in Requests, ListChains(r) \/ SendChain(r) \/ SendEnds(r)
    PROVE  IInv'
<1>1. CASE ListChains(r)
  <2>1. PICK t \in SUBSET Types :
          Becomes(r, [at |-> "listing", of |-> t, sent |-> <<>>,
                      left |-> {k \in DOMAIN servers : servers[k] # NoAgent}])
    BY <1>1 DEF ListChains
  <2> DEFINE x == [at |-> "listing", of |-> t, sent |-> <<>>,
                   left |-> {k \in DOMAIN servers : servers[k] # NoAgent}]
  <2>2. ToSet(x.sent) = {} /\ IsInjective(x.sent) /\ x.sent \in Seq(Chains)
    BY DEF ToSet, IsInjective
  <2>3. \A c \in Chains : IsRouted(c) => ChainIdToString(c) \in x.left
    BY KeysDiffer DEF IsRouted, IInv, TableInv, Tables
  <2>4. Good(x)
    BY <2>2, <2>3 DEF Good, Listing
  <2> QED BY <1>1, <2>1, <2>4, OwnStep DEF ListChains
<1>2. CASE SendChain(r) \/ SendEnds(r)
  <2> DEFINE q == req[r]
  <2>1. mode = "serving" /\ Listing(q) /\ q.at = "listing"
    <3>1. q.at = "listing"
      BY <1>2 DEF SendChain, SendEnds
    <3>2. mode = "serving" /\ Good(q)
      BY <3>1, AtWork
    <3> HIDE DEF q
    <3> QED BY <3>1, <3>2 DEF Good, Told, Listed, Asks, Answered
  <2>2. CASE SendChain(r)
    <3>1. PICK k \in q.left :
            Becomes(r, [q EXCEPT
              !.left = @ \ {k},
              !.sent = IF Wanted(servers[k], q.of) THEN Append(@, servers[k]) ELSE @])
      BY <2>2 DEF SendChain
    <3>2. PICK c \in Chains : k = ChainIdToString(c)
      BY <2>1, KeysDiffer DEF Listing, IInv, TableInv, Tables
    <3>3. IsRouted(c) /\ servers[k] = c
      BY <2>1, <3>2, NothingAssumption, RoutedToItself DEF Listing, IsRouted, AgentOf, IInv
    <3>4. \A d \in Chains : ChainIdToString(d) \notin q.left \ {k}
                              <=> ChainIdToString(d) \notin q.left \/ d = c
      BY <3>2, KeysDiffer
    <3>5. c \notin ToSet(q.sent)
      BY <2>1, <3>2 DEF Listing
    <3> DEFINE sent == IF c.type \in q.of THEN Append(q.sent, c) ELSE q.sent
               x == [at |-> "listing", of |-> q.of, sent |-> sent, left |-> q.left \ {k}]
    <3>6. q \in [at : {"listing"}, of : SUBSET Types, sent : Seq(Chains), left : SUBSET DOMAIN servers]
      BY <2>1 DEF Listing
    <3>7. Becomes(r, x)
      <4>1. q = [at |-> "listing", of |-> q.of, sent |-> q.sent, left |-> q.left]
        BY <3>6
      <4>2. [q EXCEPT !.left = @ \ {k},
                      !.sent = IF Wanted(servers[k], q.of) THEN Append(@, servers[k]) ELSE @] = x
        <5>1. sent = IF Wanted(servers[k], q.of) THEN Append(q.sent, servers[k]) ELSE q.sent
          BY <3>3 DEF Wanted
        <5> HIDE DEF sent, q
        <5>2. [q EXCEPT !.left = q.left \ {k}, !.sent = sent] = x
          BY <4>1, ListingWith, Zenon
        <5> QED BY <5>1, <5>2, Zenon
      <4> QED BY <3>1, <4>2
    <3>8. /\ sent \in Seq(Chains) /\ IsInjective(sent)
          /\ ToSet(sent) = IF c.type \in q.of THEN ToSet(q.sent) \cup {c} ELSE ToSet(q.sent)
      <4>1. q.sent \in Seq(Chains) /\ IsInjective(q.sent)
        BY <2>1, <3>6 DEF Listing
      <4>2. /\ Append(q.sent, c) \in Seq(Chains) /\ IsInjective(Append(q.sent, c))
            /\ ToSet(Append(q.sent, c)) = ToSet(q.sent) \cup {c}
        BY <3>5, <4>1, AppendNew, AppendProperties
      <4> QED BY <4>1, <4>2, Zenon
    <3>9. ToSet(sent) = {d \in Chains : IsRouted(d) /\ d.type \in q.of
                                          /\ ChainIdToString(d) \notin q.left \ {k}}
      <4> HIDE DEF sent
      <4> QED BY <2>1, <3>3, <3>4, <3>8 DEF Listing
    <3>10. Good(x)
      <4> HIDE DEF sent
      <4> QED BY <2>1, <3>6, <3>8, <3>9 DEF Good, Listing
    <3> QED BY <2>1, <2>2, <3>7, <3>10, OwnStep DEF SendChain
  <2>3. CASE SendEnds(r)
    <3> DEFINE x == [at |-> "listed", of |-> q.of, sent |-> q.sent]
    <3>1. Becomes(r, x) /\ q.left = {}
      BY <2>3 DEF SendEnds
    <3>2. \A c : c \in Configured(file) <=> c \in Chains /\ IsRouted(c)
      BY <2>1, RoutedToItself DEF IInv, Configured
    <3>3. ToSet(q.sent) = {c \in Configured(file) : c.type \in q.of}
      BY <2>1, <3>1, <3>2 DEF Listing
    <3>4. q.of \in SUBSET Types /\ q.sent \in Seq(Chains) /\ IsInjective(q.sent)
      BY <2>1 DEF Listing
    <3>5. Listed(x)
      BY <3>3, <3>4 DEF Listed
    <3>6. Good(x)
      BY <3>5 DEF Good
    <3> QED BY <2>1, <2>3, <3>1, <3>6, OwnStep DEF SendEnds
  <2> QED BY <1>2, <2>2, <2>3, Zenon
<1> QED BY <1>1, <1>2

\* Currencies: answers that need no call, and the calls that fill a cache.
LEMMA IdsAreTexts == \A i \in Ids : /\ IsErc20(i) => IsChainCurrency(i)
                                    /\ IsErc20(i) => i[1] = ChainCurrencyFromString(i).address
BY DEF IsErc20, ChainCurrencyFromString

LEMMA GoodAnswer ==
    ASSUME NEW c \in Chains, NEW i \in Ids, IsChainCurrency(i),
           \/ ChainCurrencyFromString(i).address = Empty
           \/ ChainCurrencyFromString(i).token = Empty
    PROVE  Good([at |-> "currency", chain |-> c, asked |-> i, answer |-> Truth(c, i)])
BY TruthType DEF Good, Answered

LEMMA LookupStep ==
    ASSUME IInv, NEW r \in Requests, GetOther(r) \/ Hit(r) \/ Miss(r)
    PROVE  IInv'
<1>1. CASE GetOther(r)
  <2>1. PICK c \in Chains, i \in Ids :
          /\ IsRouted(c) /\ ~ IsErc20(i)
          /\ Becomes(r,
               IF ~ IsChainCurrency(i) THEN Refused("InvalidArgument")
               ELSE IF ChainCurrencyFromString(i).address = Empty
                 THEN Answer(c, i, Of(AgentOf(c), Empty), Of(AgentOf(c), Empty))
                 ELSE Refused("Unimplemented"))
    BY <1>1 DEF GetOther
  <2>2. AgentOf(c) = c
    BY <1>1, <2>1, RoutedToItself DEF IInv, GetOther
  <2>3. \A why : Good(Refused(why))
    BY DEF Good, Refused
  <2>4. CASE ChainCurrencyFromString(i).address = Empty /\ IsChainCurrency(i)
    <3>1. Good([at |-> "currency", chain |-> c, asked |-> i, answer |-> Truth(c, i)])
      BY <2>4, GoodAnswer
    <3>2. Answer(c, i, Of(c, Empty), Of(c, Empty))
            = [at |-> "currency", chain |-> c, asked |-> i, answer |-> Truth(c, i)]
      BY <2>4 DEF Answer, Truth
    <3> QED BY <1>1, <2>1, <2>2, <2>4, <3>1, <3>2, OwnStep DEF GetOther
  <2> QED BY <1>1, <2>1, <2>3, <2>4, OwnStep DEF GetOther
<1>2. CASE Hit(r)
  <2>1. PICK c \in Chains, i \in Ids :
          /\ IsRouted(c) /\ IsErc20(i) /\ cache[CacheOf(AgentOf(c))][i] # NoCurrency
          /\ Becomes(r, [at |-> "currency", chain |-> c, asked |-> i,
                         answer |-> cache[CacheOf(AgentOf(c))][i]])
    BY <1>2 DEF Hit
  <2>2. AgentOf(c) = c
    BY <1>2, <2>1, RoutedToItself DEF IInv, Hit
  <2>3. cache[CacheOf(AgentOf(c))][i] = Truth(c, i)
    BY <2>1, <2>2 DEF IInv, CacheInv, CacheOf
  <2>4. Good([at |-> "currency", chain |-> c, asked |-> i, answer |-> Truth(c, i)])
    BY <2>1, GoodAnswer DEF IsErc20
  <2> QED BY <1>2, <2>1, <2>3, <2>4, OwnStep DEF Hit
<1>3. CASE Miss(r)
  <2>1. PICK c \in Chains, i \in Ids :
          /\ IsRouted(c) /\ IsErc20(i)
          /\ Becomes(r, IF ReadsAddress(i) THEN TokenInst(c, i) ELSE Refused("InvalidAddress"))
    BY <1>3 DEF Miss
  <2>2. Good(TokenInst(c, i)) /\ Good(Refused("InvalidAddress"))
    BY <2>1 DEF Good, TokenInst, Asks, Refused
  <2> QED BY <1>3, <2>1, <2>2, OwnStep DEF Miss
<1> QED BY <1>1, <1>2, <1>3

LEMMA CallStep ==
    ASSUME IInv, NEW r \in Requests, Symbol(r) \/ Decimals(r)
    PROVE  IInv'
<1> DEFINE q == req[r]
           c == req[r].chain
           i == req[r].id
<1>1. mode = "serving" /\ Asks(q)
  BY AtWork DEF Symbol, Decimals, Good, Told, Listing, Listed, Answered
<1>2. c \in Chains /\ IsRouted(c) /\ i \in Ids /\ IsErc20(i) /\ AgentOf(c) = c
  BY <1>1, RoutedToItself DEF Asks, IsRouted, IInv
<1>3. CASE Symbol(r)
  <2> DEFINE x == [at |-> "decimals", chain |-> c, id |-> i, symbol |-> Of(c, i[1])]
  <2>1. Good(x)
    BY <1>2 DEF Good, Asks
  <2> QED BY <1>1, <1>2, <1>3, <2>1, OwnStep DEF Symbol
<1>4. CASE Decimals(r)
  <2> DEFINE x == [at |-> "currency", chain |-> c, asked |-> i, answer |-> Truth(c, i)]
  <2>1. q.symbol = Of(c, i[1]) /\ i[1] = ChainCurrencyFromString(i).address
    BY <1>1, <1>2, <1>4, IdsAreTexts DEF Asks, Decimals
  <2>2. Answer(c, i, q.symbol, Of(AgentOf(c), i[1])) = x
    BY <1>2, <2>1 DEF Answer, Truth
  <2>3. Good(x)
    BY <1>2, GoodAnswer DEF IsErc20
  <2>4. /\ Becomes(r, x) /\ UNCHANGED <<mode, file, startVars, servers>>
        /\ \/ cache' = [cache EXCEPT ![c] = [@ EXCEPT ![i] = Truth(c, i)]]
           \/ UNCHANGED cache
    BY <1>2, <1>4, <2>2 DEF Decimals, CacheOf
  <2>5. CacheInv'
    <3>1. CASE UNCHANGED cache
      BY <2>4, <3>1 DEF IInv, CacheInv
    <3>2. CASE cache' = [cache EXCEPT ![c] = [@ EXCEPT ![i] = Truth(c, i)]]
      <4>1. Truth(c, i) \in Currency
        BY <1>2, TruthType DEF IsErc20
      <4>2. \A d \in Chains, j \in Ids :
              cache'[d][j] = IF d = c /\ j = i THEN Truth(c, i) ELSE cache[d][j]
        BY <1>2, <3>2 DEF IInv, CacheInv
      <4>3. cache' \in [Chains -> [Ids -> Currency \cup {NoCurrency}]]
        BY <1>2, <3>2, <4>1 DEF IInv, CacheInv
      <4> QED BY <1>1, <1>2, <2>4, <4>2, <4>3 DEF IInv, CacheInv, Truth
    <3> QED BY <2>4, <3>1, <3>2
  <2> QED BY <1>1, <2>3, <2>4, <2>5, OthersWait
<1> QED BY <1>3, <1>4

LEMMA EvictStep == ASSUME IInv, Evict PROVE IInv'
<1>1. PICK c \in Chains, i \in Ids :
        /\ cache[c][i] # NoCurrency
        /\ cache' = [cache EXCEPT ![c] = [@ EXCEPT ![i] = NoCurrency]]
  BY DEF Evict
<1>2. UNCHANGED <<mode, file, startVars, servers, req>>
  BY DEF Evict
<1>3. mode = "serving"
  BY <1>1 DEF IInv, CacheInv, NoCache
<1>4. CacheInv'
  <2>1. \A d \in Chains, j \in Ids :
          cache'[d][j] = IF d = c /\ j = i THEN NoCurrency ELSE cache[d][j]
    BY <1>1 DEF IInv, CacheInv
  <2>2. cache' \in [Chains -> [Ids -> Currency \cup {NoCurrency}]]
    BY <1>1 DEF IInv, CacheInv
  <2> QED BY <1>2, <1>3, <2>1, <2>2 DEF IInv, CacheInv, Truth
<1>5. \A y : Good(y)' <=> Good(y)
  BY <1>2 DEF Good, Told, Listing, Listed, Asks, Answered, IsRouted, Configured
<1>6. ReqInv'
  BY <1>2, <1>5 DEF IInv, ReqInv
<1> QED BY <1>2, <1>4, <1>6, StartKept DEF IInv

LEMMA Invariant == Spec => []IInv
<1>1. Init => IInv
  <2>1. Init => StartInv /\ TableInv
    BY NothingAssumption, NoServersType DEF Init, StartInv, TableInv
  <2> QED BY <2>1 DEF Init, IInv, CacheInv, NoCache, ReqInv, Good, Idle
<1>2. IInv /\ [Next]_vars => IInv'
  <2> SUFFICES ASSUME IInv, [Next]_vars PROVE IInv'
    OBVIOUS
  <2>1. ASSUME NEW r \in Requests, Request(r) PROVE IInv'
    BY <2>1, ChainsStep, ListStep, LookupStep, CallStep DEF Request
  <2>2. CASE UNCHANGED vars
    <3>1. \A y : Good(y)' <=> Good(y)
      BY <2>2 DEF vars, startVars, Good, Told, Listing, Listed, Asks, Answered, IsRouted, Configured
    <3>2. CacheInv' /\ ReqInv'
      BY <2>2, <3>1 DEF vars, IInv, CacheInv, ReqInv
    <3> QED BY <2>2, <3>2, StartKept DEF vars, IInv
  <2> QED BY <2>1, <2>2, StartUpStep, EvictStep DEF Next
<1> QED BY <1>1, <1>2, PTL DEF Spec

-----------------------------------------------------------------------------

\* Every variable keeps its type, and each lookup at work has its agent.
THEOREM ProcessTypes == Spec => []TypeOK
<1>1. IInv => TypeOK
  <2> SUFFICES ASSUME IInv PROVE TypeOK
    OBVIOUS
  <2>1. ASSUME NEW r \in Requests PROVE ReqAt[r]
    <3>1. Good(req[r])
      BY DEF IInv, ReqInv
    <3>2. \A i \in Ids : IsErc20(i) => i[1] \in Parts
      BY IdsAssumption DEF IsErc20, IsChainCurrency, Texts
    <3>3. CASE req[r].at \in {"idle", "refused"}
      BY <3>3 DEF ReqAt
    <3>4. CASE Told(req[r])
      BY <3>4 DEF Told, ReqAt
    <3>5. CASE Listing(req[r])
      BY <3>5 DEF Listing, ReqAt
    <3>6. CASE Listed(req[r])
      BY <3>6 DEF Listed, ReqAt
    <3>7. CASE Asks(req[r])
      <4>1. req[r].at = "decimals" => req[r].symbol \in Meta
        BY <3>2, <3>7 DEF Asks, Meta, Of, IsRouted
      <4> QED BY <3>7, <4>1 DEF Asks, ReqAt
    <3>8. CASE Answered(req[r])
      BY <3>8 DEF Answered, ReqAt
    <3> QED BY <3>1, <3>3, <3>4, <3>5, <3>6, <3>7, <3>8 DEF Good
  <2> QED BY <2>1 DEF IInv, StartInv, TableInv, CacheInv, ReqInv, TypeOK
<1> QED BY <1>1, Invariant, PTL

\* Whatever filled the cache, was evicted from it or was lost with the process,
\* a currency is told as its own contract on the chain asked for tells it.
THEOREM AnswersAreRight == Spec => []RightAnswers
<1>1. IInv => RightAnswers
  BY DEF IInv, ReqInv, Good, Told, Listing, Listed, Asks, Answered, Truth, RightAnswers
<1> QED BY <1>1, Invariant, PTL

\* A list of chains that ends well is the configuration, each chain once.
THEOREM ListsAreComplete == Spec => []ListIsComplete
<1>1. IInv => ListIsComplete
  BY DEF IInv, ReqInv, Good, Told, Listing, Listed, Asks, Answered, ListIsComplete
<1> QED BY <1>1, Invariant, PTL
=============================================================================
