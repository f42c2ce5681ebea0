---------------------------- MODULE AgentProcess ----------------------------
(***************************************************************************)
(* The process of the agent: start-up from its configuration               *)
(* (cmd/agent-eth/main.go, agent/config.go), one agent per configured      *)
(* chain (agents/eth/server/server.go), the table of the proxy             *)
(* (proxy/proxy.go), and the lookups of currencies through the cache of    *)
(* each agent (agents/eth/server/currency.go, commons/cache/cache.go).     *)
(*                                                                         *)
(* A panic of any goroutine ends the process, which may be started again   *)
(* with another file.  Each call to an upstream is a step of its own.      *)
(* Texts of currencies and chains are those of Identifiers.                *)
(***************************************************************************)
EXTENDS Identifiers, SequencesExt

CONSTANTS
    Types, Networks,  \* names of chain types and of networks
    Factories,        \* types an imported package registered a factory for
    Trx,              \* the type whose addresses are read by TrxExtensions
    Files,            \* contents an operator may leave in the configuration file
    NoFile,           \* no configuration is loaded
    NoAgent,          \* no entry in the table
    NoChain,          \* a request without ChainId
    Contracts,        \* texts that AddressFromString reads
    Ids,              \* currency ids clients ask for
    Requests          \* gRPC requests that may be at work together

\* A file gives some types some networks, and each of them the labels of its
\* rpcUrls.
ASSUME NamesAssumption == Types \subseteq Parts /\ Networks \subseteq Parts /\ Trx \in Factories
ASSUME FilesAssumption == \A f \in Files :
    DOMAIN f \subseteq Types /\ \A k \in DOMAIN f : DOMAIN f[k] \subseteq Networks
ASSUME IdsAssumption == Ids \subseteq Texts /\ Contracts \subseteq Parts \ {Empty}

Chains == [type : Types, network : Networks]

ASSUME NothingAssumption == NoFile \notin Files /\ {NoAgent, NoChain} \cap Chains = {}

VARIABLES
    mode,      \* "down", "init" (InitServerProxy is at work) or "serving"
    file,      \* the configuration of this start
    types,     \* chain types InitServerProxy has not come to
    found,     \* foundAgents that have not been made
    asking,    \* the chain whose agent waits for eth_chainId, or NoChain
    servers,   \* ServerProxy.servers: the chain of the agent under each key
    cache,     \* CurrencyCache of each agent
    req        \* where each request is and what it has

startVars == <<types, found, asking>>
vars == <<mode, file, startVars, servers, cache, req>>

\* A contract of a chain stands for the symbol and the decimals it tells, the
\* empty address for those of the native currency.
Meta == [chain : Chains, address : Parts]
Currency == [id : Ids, symbol : Meta, decimals : Meta]
NoCurrency == [id |-> <<>>]

Idle == [at |-> "idle"]
NoServers == [k \in {ChainIdToString(c) : c \in Chains} |-> NoAgent]
NoCache == [c \in Chains |-> [i \in Ids |-> NoCurrency]]

Init ==
    /\ mode = "down" /\ file = NoFile
    /\ types = {} /\ found = {} /\ asking = NoChain
    /\ servers = NoServers /\ cache = NoCache
    /\ req = [r \in Requests |-> Idle]

-----------------------------------------------------------------------------
(* The end of the process: a panic, log.Fatalf, or the panic that the       *)
(* recovery handler makes of the panic of a request.                        *)

Exit ==
    /\ mode' = "down" /\ file' = NoFile
    /\ types' = {} /\ found' = {} /\ asking' = NoChain
    /\ servers' = NoServers /\ cache' = NoCache
    /\ req' = [r \in Requests |-> Idle]

-----------------------------------------------------------------------------
(* Start-up.                                                                *)

\* A file that cannot be read or parsed is a panic and leaves all as it was.
LoadConfig ==
    /\ mode = "down"
    /\ \E f \in Files :
         /\ file' = f
         /\ types' = DOMAIN f
    /\ mode' = "init"
    /\ UNCHANGED <<found, asking, servers, cache, req>>

\* A type without a factory is logged as ignored, network by network.
FoundAgents(k) == {c \in Chains : c.type = k /\ k \in Factories /\ c.network \in DOMAIN file[k]}

VisitType ==
    /\ mode = "init" /\ found = {} /\ asking = NoChain
    /\ \E k \in types :
         /\ FoundAgents(k) # {}
         /\ found' = FoundAgents(k)
         /\ types' = types \ {k}
    /\ UNCHANGED <<mode, file, asking, servers, cache, req>>

\* log.Fatalf: no network, or no factory.
NoAgents ==
    /\ mode = "init" /\ found = {} /\ asking = NoChain
    /\ \E k \in types : FoundAgents(k) = {}
    /\ Exit

Peers(c) == file[c.type][c.network]

\* The registry takes each pair of labels once; a peer that cannot be dialed
\* has not registered any.
RegistryTakes(c, dialed) == \A i, j \in dialed : Peers(c)[i] = Peers(c)[j] => i = j

Connect ==
    /\ mode = "init" /\ asking = NoChain
    /\ \E c \in found :
         /\ Peers(c) # <<>>
         /\ \E dialed \in SUBSET DOMAIN Peers(c) : RegistryTakes(c, dialed)
         /\ found' = found \ {c}
         /\ asking' = c
    /\ UNCHANGED <<mode, file, types, servers, cache, req>>

\* No peers configured, or labels that are registered already.
ConnectPanics ==
    /\ mode = "init" /\ asking = NoChain
    /\ \E c \in found :
         \/ Peers(c) = <<>>
         \/ \E dialed \in SUBSET DOMAIN Peers(c) : ~ RegistryTakes(c, dialed)
    /\ Exit

TableKeyOfType(c) == ChainIdToString([c EXCEPT !.network = CHOOSE n \in Networks : TRUE])
TableKey(c) == ChainIdToString(c)

ChainIdAnswered ==
    /\ mode = "init" /\ asking # NoChain
    /\ servers' = [servers EXCEPT ![TableKey(asking)] = asking]
    /\ asking' = NoChain
    /\ UNCHANGED <<mode, file, types, found, cache, req>>

\* An error to eth_chainId is a panic; without any upstream the call waits.
ChainIdFails ==
    /\ mode = "init" /\ asking # NoChain
    /\ Exit

ReadyEarly == types = {} /\ asking = NoChain
Ready == types = {} /\ found = {} /\ asking = NoChain

Serve ==
    /\ mode = "init" /\ Ready
    /\ mode' = "serving"
    /\ UNCHANGED <<file, startVars, servers, cache, req>>

-----------------------------------------------------------------------------
(* Requests.  Every endpoint that names a chain is routed in the same way.  *)

IsRouted(c) == c # NoChain /\ c \in Chains /\ servers[ChainIdToString(c)] # NoAgent
AgentOf(c) == servers[ChainIdToString(c)]

Refusal(c) == IF c = NoChain THEN "ErrChainIdRequired" ELSE "ErrChainNotSupported"

Becomes(r, x) == req' = [req EXCEPT ![r] = x]
Refused(why) == [at |-> "refused", why |-> why]
RequestOnly == UNCHANGED <<mode, file, startVars, servers, cache>>

Unrouted(r) ==
    /\ mode = "serving" /\ req[r] = Idle
    /\ \E c \in Chains \cup {NoChain} : ~ IsRouted(c) /\ Becomes(r, Refused(Refusal(c)))
    /\ RequestOnly

GetChain(r) ==
    /\ mode = "serving" /\ req[r] = Idle
    /\ \E c \in Chains :
         /\ IsRouted(c)
         /\ Becomes(r, IF c.type = AgentOf(c).type
                         THEN [at |-> "chain", chain |-> c, of |-> AgentOf(c).type]
                         ELSE Refused("ErrInvalidChainId"))
    /\ RequestOnly

\* The stream of ListChains: the agents in any order, each sends its chain.
ListChains(r) ==
    /\ mode = "serving" /\ req[r] = Idle
    /\ \E t \in SUBSET Types :
         /\ t = Types \/ Cardinality(t) = 1
         /\ Becomes(r, [at |-> "listing", of |-> t, sent |-> <<>>,
                        left |-> {k \in DOMAIN servers : servers[k] # NoAgent}])
    /\ RequestOnly

Wanted(a, of) == a.type \in of

SendChain(r) ==
    /\ req[r].at = "listing"
    /\ \E k \in req[r].left :
         Becomes(r, [req[r] EXCEPT
             !.left = @ \ {k},
             !.sent = IF Wanted(servers[k], req[r].of) THEN Append(@, servers[k]) ELSE @])
    /\ RequestOnly

\* An agent that cannot send ends the stream, and the list with its error.
SendFailsIgnored(r) ==
    /\ req[r].at = "listing"
    /\ \E k \in req[r].left :
         /\ Wanted(servers[k], req[r].of)
         /\ Becomes(r, [req[r] EXCEPT !.left = @ \ {k}])
    /\ RequestOnly
SendFails(r) ==
    /\ req[r].at = "listing"
    /\ \E k \in req[r].left : Wanted(servers[k], req[r].of)
    /\ Becomes(r, Refused("Send"))
    /\ RequestOnly

SendEnds(r) ==
    /\ req[r].at = "listing" /\ req[r].left = {}
    /\ Becomes(r, [at |-> "listed", of |-> req[r].of, sent |-> req[r].sent])
    /\ RequestOnly

-----------------------------------------------------------------------------
(* GetCurrency.                                                             *)

Answer(c, i, symbol, decimals) ==
    [at |-> "currency", chain |-> c, asked |-> i,
     answer |-> [id |-> i, symbol |-> symbol, decimals |-> decimals]]

Of(a, address) == [chain |-> a, address |-> address]

IsErc20(i) ==
    IsChainCurrency(i) /\ ChainCurrencyFromString(i).address # Empty
                       /\ ChainCurrencyFromString(i).token = Empty

CacheOfProcess(a) == CHOOSE c \in Chains : TRUE
CacheOf(a) == a

\* Malformed, native and erc-1155 currencies need no upstream.
GetOther(r) ==
    /\ mode = "serving" /\ req[r] = Idle
    /\ \E c \in Chains, i \in Ids :
         /\ IsRouted(c) /\ ~ IsErc20(i)
         /\ Becomes(r,
              IF ~ IsChainCurrency(i) THEN Refused("InvalidArgument")
              ELSE IF ChainCurrencyFromString(i).address = Empty
                THEN Answer(c, i, Of(AgentOf(c), Empty), Of(AgentOf(c), Empty))
                ELSE Refused("Unimplemented"))
    /\ RequestOnly

Hit(r) ==
    /\ mode = "serving" /\ req[r] = Idle
    /\ \E c \in Chains, i \in Ids :
         /\ IsRouted(c) /\ IsErc20(i)
         /\ cache[CacheOf(AgentOf(c))][i] # NoCurrency
         /\ Becomes(r, [at |-> "currency", chain |-> c, asked |-> i,
                        answer |-> cache[CacheOf(AgentOf(c))][i]])
    /\ RequestOnly

\* AddressFromString, and the contract bound to the address.
ReadsAddress(i) == i[1] \in Contracts
TokenInst(c, i) == [at |-> "symbol", chain |-> c, id |-> i]

\* The cache has no entry, or Get fails to find it.
Miss(r) ==
    /\ mode = "serving" /\ req[r] = Idle
    /\ \E c \in Chains, i \in Ids :
         /\ IsRouted(c) /\ IsErc20(i)
         /\ cache[CacheOf(AgentOf(c))][i] = NoCurrency
         /\ Becomes(r, IF ReadsAddress(i) THEN TokenInst(c, i) ELSE Refused("InvalidAddress"))
    /\ RequestOnly

\* TrxExtensions.AddressFromString slices a text that is too short.
AddressPanics ==
    /\ mode = "serving"
    /\ \E c \in Chains, i \in Ids :
         IsRouted(c) /\ AgentOf(c).type = Trx /\ IsErc20(i) /\ ~ ReadsAddress(i)
    /\ Exit

Symbol(r) ==
    /\ req[r].at = "symbol"
    /\ Becomes(r, [at |-> "decimals", chain |-> req[r].chain, id |-> req[r].id,
                   symbol |-> Of(AgentOf(req[r].chain), req[r].id[1])])
    /\ RequestOnly

\* The answer is cached under the text of the request; Set may drop it.
Decimals(r) ==
    LET q == req[r]
        a == AgentOf(q.chain)
        done == Answer(q.chain, q.id, q.symbol, Of(a, q.id[1]))
    IN /\ q.at = "decimals"
       /\ Becomes(r, done)
       /\ \/ cache' = [cache EXCEPT ![CacheOf(a)] = [@ EXCEPT ![q.id] = done.answer]]
          \/ UNCHANGED cache
       /\ UNCHANGED <<mode, file, startVars, servers>>

\* An error of eth_call or eth_getCode, or no contract at the address.
CallFails(r) ==
    /\ req[r].at \in {"symbol", "decimals"}
    /\ Becomes(r, Refused("ErrInvalidCurrency"))
    /\ RequestOnly

Evict ==
    /\ \E c \in Chains, i \in Ids :
         /\ cache[c][i] # NoCurrency
         /\ cache' = [cache EXCEPT ![c] = [@ EXCEPT ![i] = NoCurrency]]
    /\ UNCHANGED <<mode, file, startVars, servers, req>>

Leave(r) ==
    /\ req[r].at \in {"refused", "chain", "listed", "currency"}
    /\ Becomes(r, Idle)
    /\ RequestOnly

-----------------------------------------------------------------------------

StartUp == \/ VisitType \/ NoAgents \/ Connect \/ ConnectPanics
           \/ ChainIdAnswered \/ ChainIdFails \/ Serve

Request(r) == \/ Unrouted(r) \/ GetChain(r) \/ ListChains(r) \/ SendChain(r) \/ SendFails(r)
              \/ SendEnds(r) \/ GetOther(r) \/ Hit(r) \/ Miss(r) \/ Symbol(r) \/ Decimals(r)
              \/ CallFails(r) \/ Leave(r)

\* The process is killed.
Kill == mode # "down" /\ Exit

Next == \/ LoadConfig \/ StartUp \/ AddressPanics \/ Evict \/ Kill
        \/ \E r \in Requests : Request(r)

Spec == Init /\ [][Next]_vars

-----------------------------------------------------------------------------
(* Properties                                                               *)

Tables == [DOMAIN NoServers -> Chains \cup {NoAgent}]
ReqAt ==
    [r \in Requests |->
        CASE req[r].at = "listing" -> /\ req[r].of \subseteq Types
                                      /\ req[r].left \subseteq DOMAIN servers
                                      /\ req[r].sent \in Seq(Chains)
          [] req[r].at = "listed" -> req[r].of \subseteq Types /\ req[r].sent \in Seq(Chains)
          [] req[r].at = "symbol" -> IsRouted(req[r].chain) /\ IsErc20(req[r].id)
          [] req[r].at = "decimals" -> /\ IsRouted(req[r].chain) /\ IsErc20(req[r].id)
                                       /\ req[r].symbol \in Meta
          [] req[r].at = "currency" -> /\ req[r].chain \in Chains /\ req[r].asked \in Ids
                                       /\ req[r].answer \in Currency
          [] req[r].at = "chain" -> req[r].chain \in Chains /\ req[r].of \in Types
          [] OTHER -> req[r].at \in {"idle", "refused"}]

\* Every variable keeps its type; a lookup at work has an agent that answers it
\* (currency.go:18-76), and a process that is down has nothing left in memory.
TypeOK ==
    /\ mode \in {"down", "init", "serving"}
    /\ file \in Files \cup {NoFile} /\ (mode = "down" <=> file = NoFile)
    /\ types \subseteq Types /\ found \subseteq Chains /\ asking \in Chains \cup {NoChain}
    /\ mode # "init" => types = {} /\ found = {} /\ asking = NoChain
    /\ servers \in Tables
    /\ cache \in [Chains -> [Ids -> Currency \cup {NoCurrency}]]
    /\ \A r \in Requests : ReqAt[r]
    /\ mode # "serving" => cache = NoCache /\ \A r \in Requests : req[r] = Idle

Configured(f) == {c \in Chains : c.type \in DOMAIN f /\ c.network \in DOMAIN f[c.type]}

\* The process serves all of its configuration or nothing: whatever the order of
\* the maps, no chain is left out, overwritten by another, or of a type without
\* a factory (main.go:138-169).
ServesAll ==
    mode = "serving" =>
        /\ \A c \in Chains : servers[ChainIdToString(c)] =
                               IF c \in Configured(file) THEN c ELSE NoAgent
        /\ DOMAIN file \subseteq Factories

\* What is told of a currency or a chain is of the chain and under the text that
\* were asked for, whichever request filled the cache in between, and whatever
\* was evicted or lost with the process (proxy.go:32-110, currency.go:18-76).
RightAnswers ==
    \A r \in Requests :
        /\ req[r].at = "currency" =>
             LET id == ChainCurrencyFromString(req[r].asked)
                 truth == Of(req[r].chain, id.address)
             IN /\ req[r].answer = [id |-> req[r].asked, symbol |-> truth, decimals |-> truth]
                /\ id.address = Empty \/ id.token = Empty
        /\ req[r].at = "chain" => req[r].of = req[r].chain.type

\* A list that ended well has every configured chain of the type asked for,
\* once (proxy.go:44-54, server.go:138-156).
ListIsComplete ==
    \A r \in Requests : req[r].at = "listed" =>
        /\ ToSet(req[r].sent) = {c \in Configured(file) : c.type \in req[r].of}
        /\ IsInjective(req[r].sent)
=============================================================================
