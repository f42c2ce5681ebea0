# A verification development for ubt-go

ubt-go gives one gRPC interface to several blockchains. An agent process
(`cmd/agent-eth`) answers chain, block, currency and transaction requests by
calling JSON-RPC upstreams; account managers (`cmd/am`, `cmd/am-pkcs`) keep
keys and sign. This directory holds TLA+ modules translated from that code, TLC
configurations that check them on small instances, and proofs that TLAPS
checks for every instance.

## 1. Inventory

| Part | Code | State | Operations |
|---|---|---|---|
| Load balancer | `commons/balancer` | client records (flag, bucket, handle), rotation, index, time of the last refill | `Start`, `reconnectLoop`, `Call`, `CallW`, `CallEveryUpstream`, `Close` |
| Balanced RPC client | `commons/jsonrpc`, `commons/jsonrpc/client` | Prometheus registry, one gauge and one histogram per dial | `Dial`, `CallContext`, `BatchCallContext`, `CallEveryUpstream` |
| Account manager | `am`, `cmd/am` | table of accounts, encryption key of the process | `CreateAccount`, `GetAccount`, `ListAccounts`, `SignPayload`; `import`, `delete`, `list` |
| PKCS#11 account manager | `pkcs`, `cmd/am-pkcs` | keys on the token | `CreateAccount`, `GetAccount`, `SignPayload` |
| Proxy and start-up | `proxy`, `agent`, `cmd/agent-eth` | table of agents by "type:network" | `InitServerProxy`, one forwarding method per service |
| Block service | `agents/eth/server/{server,block}.go`, `agents/eth/types` | none of its own | `GetChain`, `GetBlock`, `ListBlocks` |
| Transaction conversion | `agents/eth/server/transaction.go` | none | transfers of a block with their identities |
| Construct service | `agents/eth/server/construct.go` | none; the chain's nonces | `CreateTransfer`, `CombineTransaction`, `SignTransaction`, `Send` |
| Currency service, cache | `agents/eth/server/currency.go`, `commons/cache` | a map of currencies; one value with an expiry | `GetCurrency`; `Get`, `Set` |
| Tron agent | `agents/trx` | fee prices in the expiration cache | `GetFeePrices`, `CreateTransfer`, `Send` |
| Identifiers, conversions | `blockchain`, `commons`, `commons/conv` | none | parsing and printing of identifiers, hexadecimal numbers, fixers |

How they interact. Every agent owns one `BalancedClient`, which owns one
`ClientBalancer`. Each gRPC request runs in its own goroutine and calls
upstreams through `CallW`; one more goroutine per balancer reconnects. The
records and the rotation are shared; some accesses hold `c.mu`, some do not.
The status callback of the balancer sets the gauge of the upstream. The proxy
routes a request to an agent by chain. The account managers are processes of
their own with a database or a token; a client of the system builds a transfer
with the agent, has it signed by an account manager and sends it through the
agent.

What is hard, by part:

- *Load balancer*: `connectClients` works on shared records without the lock
  while callers remove upstreams; handles are read after the lock is released;
  late errors; quotas over calendar seconds; sleeping callers. It is correct
  when the rotation loses and doubles nothing, quotas hold, load is even,
  upstreams come back and nobody sleeps for ever.
- *Balanced client*: metrics are registered by every dial under the same
  name; batch results arrive per element.
- *Account manager*: `Save` is an UPDATE and then an INSERT, from concurrent
  requests; names are unique, addresses are the key; a restart may bring
  another encryption key. It is correct when an account can sign with the key
  it was created with for as long as it exists, and nobody else comes to use the key.
- *PKCS#11*: the key is created before the answer fails; lookups use another
  label than creation.
- *Block service*: unsigned arithmetic on ranges; the head, the finalised
  block and the blocks may come from different upstreams.
- *Construct service*: two transfers prepared at the same time read the same
  nonce; a sent transaction may be sent again, and elsewhere. It is correct when
  a prepared transfer is paid at most once and as was told.
- *Caches*: stampedes and stale values around the expiry.
- *Identifiers*: what is printed must be read back as the same thing.

## 2. Plan

| Module | Rests on | State | Section |
|---|---|---|---|
| `Balancer`, implements `UpstreamQuota` | | proved and checked | 3 |
| `BalancedClient` | `Balancer` | proved and checked | 4 |
| `AccountManager`, implements `AccountStore`; `AccountKeys` on top | | proved and checked | 5 |
| `BlockService` | | proved and checked | 6 |
| `TronAgent` | | proved and checked | 7 |
| `Identifiers`, `HexConv`, `BlockConversion`, `Conversions` | each other, in this order | proved and checked | 8 |
| `ConstructService`, implements `PayOnce` | | proved and checked | 9 |
| `AgentProcess` | `Identifiers` | proved and checked | 10 |

`BalancedClient` composes the balancer with the registry of metrics of its
process, and its theorems are those of the balancer carried over. `Conversions`
composes the conversions into journeys. `AgentProcess` composes start-up,
routing table and the caches of the agents. What an upstream answers is a
nondeterministic step in every module that calls one, so the services are not
composed with the balancer step by step: the balancer gives them "some upstream
answers, any one, or an error", which is what their steps allow.

Every invariant and every action property that a run checks is a theorem too, and so
is every refinement. The liveness properties (`JoinsInTheEnd`, `NoGlobalStall`,
`Reconnects`, `Follows`, `NonceIsUsed`) are model-checked only: they need
fairness, whose ENABLED the provers cannot handle.

Left for later: the ages and the `Send` of the Tron agent; senders, fees and
signatures of converted transactions.

## 3. Load balancer

### Modules

- `Balancer` models `commons/balancer/balancer.go`. The variables keep the
  names of the code: `connected` is the slice `c.connected` (the rotation),
  `isConnected`, `bucket` and `client` are the fields of the records, `index`
  is `c.index`. The clock is `phase` (ticks since the start of the calendar
  second) and `elapsed` (time since `lastUpdated`, of which only "at least a
  second" matters, hence the cap). `rpc`, `rpos`, `newConnected` are the
  position and locals of `connectClients`, run by `Start` and then by
  `reconnectLoop`. Each caller has a position `pc`, the record it chose (`cur`)
  and the handle it read (`use`). `quit` holds the handles whose operations end
  with an error for which `IsConnectionError` holds. `sent` counts selections
  per calendar second and is only read by properties.
- `UpstreamQuota` is what the balancer promises about quotas: an operation goes
  to one member of the rotation that is below its limit, and only a new second
  gives quota back.
- `MCBalancer` gives limits and symmetry sets to TLC.
- `BalancerProofs` holds the theorems.

Grain. A critical section of `c.mu` is one step: `Publish` (101-103),
`MarkDisconnected` (106-119), the disjuncts of `SelectClient` (124-173). Code
without the lock is one step per access of shared state. Three merges: (a)
`DialOk` joins the test of the flag, the dial, the write of the handle and of
the flag (86-93), since while a record is unmarked only the reconnecting
goroutine writes its handle or sets its flag, and a `markDisconnected` in
between has the same effect before it; (b) the read of a handle is one step
although a Go interface is more than one word; (c) `DialFail` takes the time
of the dial as one step. The timer of `reconnectLoop` and the sleep of `CallW`
may fire at any time. Handles are reused by later dials once nobody refers to
them, which keeps the instances finite. A caller that runs `op` with the zero
handle panics and stays in `panicked`; in the agent that ends the process, so
the model goes on with more behaviours, not fewer.

Definitions named `...Early`, `...Kept`, `...Exact`, `...Forgotten`,
`...Staying`, `...Always`, `...WhenEmpty`, `...OrZero`, `...Appended`
are slips of the definition that follows them, kept to see that the
properties notice them; no specification uses them.

### Runs

| Run | Instance | Shows |
|---|---|---|
| `balancer_rotation` | 2 upstreams, 2 callers of `Call` and `Close`, dials fail, connections die | types; the rotation stays ordered and loses no marked record; a marked record has a handle and was reported |
| `balancer_quota` | 3 upstreams of limit 2, 2 callers of everything, no faults, 2 ticks per second | load is even, a refusal means that all quotas are used, the limit holds in each calendar second, `UpstreamQuota` is implemented |
| `balancer_live` | 2 upstreams of limit 1, one `CallW` caller, dials fail, connections die | an upstream that left comes back; a sleeper is not left behind |

Bounds. Two upstreams are the least for a removal next to a pass that is
needed for another reason; three are used for load and quotas, where "next" and
"richest" can differ. Two callers give a late error, a removal under a selected
client, and competition for quota; for liveness one caller that sleeps beside
the reconnecting goroutine and the clock must do, since two exceed what can be
searched, so fairness between sleepers is not checked. `Handles` has one more element than can be
referred to at once, so a dial is never blocked; in `balancer_rotation` it has as
many, and a redial waits only while both callers still use connections that no
record has. `TicksPerSec = 2` tells
truncated from exact refill times; 1 suffices where quotas are not the
subject. `MaxSent` bounds selections of an unlimited upstream per second.

Fairness. `WF` of the clock, of the reconnecting goroutine and of a caller that
is inside a call: the Go scheduler runs them and nothing blocks them for ever
(a `Dial` or `op` that never returns is excluded; `Dial` gets
`context.Background()`, so this is an assumption about the network). `SF` of a
successful dial of each upstream: an upstream that refuses for ever cannot come
back. Callers are never
obliged to call.

### Disagreements of code and comments

`balancer_zero_handle` is a run that is expected to violate its property: a
selected record is redialed in vain before its handle is read, and `op` gets the
zero value, although `Call` says "find available client and call op with it".

Noted without a run: a removal during a pass is undone by `Publish` (102), and
the record stays in the rotation unmarked until the next pass; an upstream without limit starts with quota 0 (47) and is
refused until the first refill raises it (137-141), although `Call` says "if no
client avaialble return ErrNoUpstream"; the late error of an old connection removes an upstream
that was reconnected since; not the first available upstream after the index
is taken, but the richest one.

Two things that no property promises. The status callback can say "up" after
"down" of a record that lost its mark in between: `connectClients` marks it (93)
and reports it later (95), and a caller that chose it before, out of a rotation that
a pass had restored, may take it out and report "down" first. `MarkedIsUp` speaks of
marked records only. And an even load: `EvenLoad` is for a rotation that does not shrink.
When one does, `index` is only brought back into range (`First`), and which
upstream the next round starts with is left to chance.

### Proofs

All theorems rest only on the named assumptions of `Balancer` about its
constants; nothing bounds the number of upstreams, callers, handles or ticks.

- `TypeCorrect`: `TypeOK` is inductive; one step per action.
- `RotationIsOrdered`: the strengthening `OrderInv` says that the next rotation
  is increasing too and below the loop variable; the sequence lemmas
  (`RemoveAtIncreasing`, `AppendIncreasing`) do the rest. The same reading
  makes duplicates impossible.
- `NothingIsLost`: `NoLostUpstream` speaks of every point of a pass and is
  inductive together with the types. The point of the proof is the removal: it
  clears the mark of exactly the record it takes out (`RemoveAtRange`).
- `MarkedIsConnected` (`MarkedIsUp`): a mark and its handle appear in one
  step, and a failed dial only touches unmarked records; what was last reported
  of a marked record is "up", or the reconnecting goroutine is about to say so.
- `ZeroHandleNeedsFailedDial` says how far `balancer_zero_handle` reaches.
  `HarmlessDialFail` is about the steps: a dial that fails meets no record that a
  caller has selected and not yet read, and none in the rotation. In every behaviour
  whose failed dials are harmless, `OpGetsAvailableClient` holds and nobody panics,
  whatever connections break, are closed and are dialed again. The second cause is
  the removal during a pass noted above: `Publish` brings the record back unmarked, and
  the next pass dials it while it can be selected. `UsableInv`: every record of the
  present and the next rotation, and every record about to be read, has a
  connection. It needs `OrderInv` (a failed dial is for none of the next rotation) and
  `FlaggedHasHandle` (the walks read marked records). TLC found it to hold on the
  instance of `balancer_zero_handle`, with the walks and `Close` added and failing dials
  so restricted, before it was proved.
- `RateIsBounded`: `QuotaInv` says that used plus left never exceeds the limit
  and that a refill is due only in a second without selections; the latter
  needs `elapsed = phase` while no refill is due, which is the truncation of
  `lastUpdated`.
- `BalancerImplementsQuota`: under `QuotaInv`, every step is a step of
  `UpstreamQuota` or leaves its variables alone.

- `RefusalsAreHonest` (`RefusedOnlyWhenUsed`), for stable connections: nobody closes
  the client and no connection ends (`"Close" \notin Ops`, `"break" \notin Faults`),
  though dials may fail. `KeptInv` says that then only marked records are in the
  rotation or on their way into it, so nothing leaves it, and that a quota is exact: unless a refill
  is due, used plus left is the limit for a member, and nothing is used of an upstream
  that has not joined. A removal would break this: a record that comes back keeps the
  quota of the second in which it left, which is why the hypothesis is there.
- `LoadIsEven` (`EvenLoad`), for equal limits (`EqualLimits`), stable connections and
  dials that succeed (`Faults = {}`), which make `Start` connect all upstreams before
  the first call (`StartInv`). `RoundInv` says who is ahead: in the round that
  starts behind `index` and ends at it, an upstream that comes earlier has one
  operation left more than a later one, or as many. So the next one has quota whenever
  any has, the branch of the richest is never taken, and a selection or a refill
  keeps the order of the round.

Only the liveness properties are left to TLC: under fairness they are beyond the prover.

## 4. Balanced RPC client

`BalancedClient` is `Balancer` with what `balancedclient.go` adds: `registered`
holds the labels of the metrics in the registry of the process, `alive` says
whether the process has ended, `closed` whether `Close` was called.

- A dial registers a gauge and a histogram under the labels of the upstream
  (46-63). `promauto` panics on labels that exist, so a second dial of an
  upstream ends the process (`DialPanics`), and so does the status of a record
  whose last dial failed, since it has no gauge (`StatusPanics`).
- `IsConnectionError` holds for `rpc.ErrClientQuit` alone. go-ethereum gives it
  after `Client.Close` only and renews by itself a connection that breaks;
  nothing under `src/` closes a connection but `Close`. So `Faults` lacks
  `"break"` here (`ConnectionAssumption`), handles die by `CloseHandle`, and other
  errors of an upstream end a call without a removal (`OpErrs`).
- `CallContext` and `BatchCallContext` are `CallW`, `CallEveryUpstream` and
  `Close` the walks. `Call` of the balancer has no caller.

| Run | Instance | Shows |
|---|---|---|
| `balancer_walks` | 2 upstreams of limit 1 with labels of their own, 2 callers of `CallW`, `CallEveryUpstream` and `Close`, dials fail | next to walks, calls, removals and the reconnecting goroutine nothing ends the process before `Close`; no connection that is open is replaced; an upstream that is down at the start joins later |

Bounds. Two upstreams: one is dialed while the other is called and closed. The
process that has ended, and everything after `Close`, may stop, so the deadlock
check is off. Two handles are enough, since each upstream is connected once
before `Close`.

Fairness (`ClientFairness`). `WF` of the reconnecting goroutine, whose timer
fires again and again; `SF` of a successful dial of each upstream, which says
that an upstream is not down for ever; `WF` of a caller within its call.

Proofs (`BalancedClientProofs`). `ClientIsBalancer` says that the client is a
balancer: `ClientSpec => Spec`, so the invariants proved there hold here
(`ClientLosesNothing`, `ClientKeepsQuota`). `NothingIsAbandoned` and `ClientLivesUntilClosed` rest on
`OpenInv`: while nobody has called `Close`, no handle is dead, no caller is on
its way to a removal, and the record of a registered label is marked;
`HandleInv` keeps the handles of records apart. A dial then only meets
records that were never connected, so `ClientOpsGetConnections` has `OpGetsAvailableClient`,
which the balancer violates, until `Close`. `ClientRefusesHonestly` has `RefusedOnlyWhenUsed` until
`Close` without an assumption of its own: an open client has no caller on its way
to a removal (`OpenInv`), so `KeptInv` of section 3 holds until somebody closes it
(`ClosedForGood`), whatever errors upstreams answer. `ClientSharesLoad` has
`EvenLoad` in the same way, for equal limits and dials that succeed: every open state
of the client satisfies `StableInv`, so the invariants behind `LoadIsEven` (`StartInv`,
`RoundInv`) hold until `Close`.

Noted without a run: after `Close` a call meets `ErrClientQuit`, takes its
upstream out, the reconnecting goroutine (which `Close` does not stop) dials it
again and the process ends; two chains with the same label of an upstream are
covered by section 10.
`IsConnectionErrorAny` is a slip as in section 3.

## 5. Account manager

### Modules

- `AccountManager` models `am/server.go`, `am/encryption.go` and the commands
  of `cmd/am/main.go` that touch the table. `accounts` is the table, indexed by
  its primary key, the address; `pc`, `req`, `found` and `answer` are the
  position, arguments, row variable and reply of each request. The encryption
  key belongs to the process that serves a request, so it is part of `req`:
  processes with different keys, or a restart with another one, are covered.
- `AccountStore` is what `Save` promises: one atomic upsert under unique names.
- `AccountKeys` adds the history of `AccountManager` that a property about earlier
  steps needs: `entrusted` remembers each private key a creation was asked for and
  the encryption key of the process it was asked of. Nothing reads it but
  `KeysStayEntrusted`.
- `MCAccountKeys` gives symmetry and the bound `MaxSeals` to TLC;
  `AccountManagerProofs` holds the theorems.

Grain: one SQL statement is one step. gorm's `Save` (not under `src/`) is an
UPDATE by primary key and, when it hit no row, an INSERT with ON CONFLICT
(address) DO UPDATE; a creation, a rename or a delete of others may come in
between. A statement may fail without effect, or commit and lose its answer. A
process may die between any two steps (`Leave`), the table stays. Signing
reads the row in one step and decrypts it in the next. Decryption is modelled
by what it does: without a key the stored bytes are returned as they are, with
a wrong key it fails. The address is determined by the private key and the
address format of the chain. `NetworkType` is never read and `PublicKey`
follows from the private key; both are left out.

### Runs

| Run | Instance | Shows |
|---|---|---|
| `account` | 2 private keys, 1 format, 1 name or none, 2 encryption keys or none, 2 requests of any kind, 2 combinations of private and encryption key in one behaviour | types, names are unique, a signature is the account's own and made under the key the row was sealed with, who signs with a key or prints it in the clear has the encryption key under which its creation was asked for, `AccountStore` is implemented |

Bounds. Two requests are what it takes to come between the two statements of
`Save`; two accounts and one name give a collision; two encryption keys and
none give every mismatch. The address formats differ in nothing but the address
they give, so one is enough for the run; the proofs have any number. A
behaviour has two combinations of private and encryption key (`MaxSeals`): two
accounts under any two keys, or one account under two of them. What three do, one
account sealed anew beside another, is left to the theorems. They have no such bound.

### Disagreements of code and comments

Noted without a run: `list -export` ends at the first key it cannot decrypt
(271), although the flag says "Export private key as base64 if possible" (239);
`delete` drops the error of `Exec` (`cmd/am/main.go:220`);
`list` omits accounts without a name, since NULL matches no pattern (257 against
229); an export without `-enckey` prints sealed bytes as if they were the key
(269).

### Proofs

From the assumptions that the placeholder values are no real ones and that a
sealed key is never mistaken for a plain one:

- `AccountTypes`: `TypeOK` with the position of each request is inductive.
- `NamesAreUnique`: a statement commits only if no other row has the name.
- `SignaturesAreSound`: the strengthening says that every stored row and every
  row that a request has read holds the private key of its own address; that
  the table has changed since the lookup then does not matter.
- `KeysStayWithTheirOwners` (`KeysStayEntrusted`, of `KeysSpec`): the strengthening
  `EntrustInv` says that of all ways in which a stored or read key can have been
  sealed (`Kept`; there is one, `EncryptOnce`) the creation was asked for, and that each
  creation at work is remembered. Then whoever opens it knows what it was sealed
  with (`OpenedIsKept`).
- `SaveImplementsStore`: every step is a step of `AccountStore` or changes
  nothing it sees; `UpdateNoRow` is the stutter, and the INSERT takes effect as
  the upsert whatever happened since.

## 6. Block service

`BlockService` models `ListBlocks` (`server.go` 187-251) with the finality
status (`block.go` 28-39) and a client that follows the chain with it. Time is
counted in slots, block n is made in slot n. `start`, `top`, `end`, `batch`,
`idx`, `status` are the locals of the call; each RPC call is a step and is
answered by some upstream: its head may lag behind, a young block may be one
that is replaced later, a missing block is null, which fails to unmarshal. A batch is
answered element by element, or fails as a whole (`BatchFails`): then its calls
have neither a result nor an error of their own (`jsonrpc.go` 26-42, 64-77), and
only the error of the whole keeps the loop from sending blocks of zeroes. A
block is converted in two steps, `Convert` up to the request for its logs and
`LoadLogs`, because the status is settled before the request and used after it.
The sum that gives `end` wraps at `Word`. The contents of blocks and logs are
in section 8; `GetBlock`, a single read, is left out. The Tron agent has ages of its own (19
and 27 blocks instead of 32 and 54) in the same hook; the ages are constants.

Whether "finalised" can be relied on depends on how long a call may take: which
block it is was settled when the batch was answered, its status follows from
the time of its conversion, and between the two the loop loads logs, waits
for quota and waits for the client. Nothing in the code bounds that time. The
constant `MaxCall` does, and `AgeAssumption` says what it must be:
`ReorgAge + MaxCall <= FinalAge`. Without it `FinalIsForGood` fails.

| Run | Instance | Shows |
|---|---|---|
| `block_feed` | 7 slots, SAFE after 1 and FINALIZED after 3, blocks up to 1 slot old may be replaced, calls take up to 2 slots, counts none, 3 and one that wraps behind block 0 | types; every block is sent once and in order; finalised blocks stay; the client gets every block that is old enough |

Bounds. `MaxCall = 2` is the least with which a block can become final behind
one that was too young in the same loop. Batches hold up to three blocks, so a
prefix of a batch may be sent, lack blocks or be too young. With a width of 16 the count
15 wraps for every number but 0, like a count near 2^64. The deadlock check
is off because time ends.

Fairness. `WF` of the clock and of the running call; `SF` of asking an
up-to-date upstream for the head, for a batch and for logs, and of sending: the client
goes on asking, with counts that do not wrap (`Fits`) again and again between others, and the balancer comes back to every upstream (section 3), so
one that is up to date answers again and again.

Noted without a run: `GetBlock` asks by hash and computes the status from the age
alone, so a block that was replaced, if an upstream still has it, is FINALIZED
once it is old. `StartNumber + Count` is not checked for overflow (200); a
count near 2^64 wraps the range to nothing and the answer is "no more blocks"
(`rpcerrors.go:15`) although there are. The calls that wrap do no harm to the
feed, but a client that makes no others gets nothing more: without `Fits` in the
fairness `Follows` fails.

Proofs (`BlockServiceProofs`), for all ages, counts and widths that satisfy the
assumptions: `FeedTypes`, `FeedIsInOrder` (the loop is always at the block that
the client lacks) and `FinalisedStays` (a replaced block was at most `ReorgAge`
old when its batch was answered, at most `MaxCall` slots before its status was
computed). `Follows` is a liveness property and only model-checked.

`LimitForgotten`, `StatusOfEarly`, `TooYoungSkipped`, `MoreInclusive` and, in
`AccountManager`, `DecryptsUnchecked`, `RowOfEmptyName`, `NameTakenUnindexed`,
`CollidesOnAddress` and `EncryptForgotten` are slips as in section 3.

## 7. Tron agent

`TronAgent` models `CreateTransfer` of `agents/trx/server.go` with
`GetFeePrices`, `GetChainParameters` and the `SimpleExpirationCache` all requests
share. `val` and `lastUpdated` are the fields of the cache, changed in one step
per critical section of its mutex; between `Get` and `Set` a request waits for
the node without the mutex, so requests that missed together overtake each
other. A call to the node is one step, answered from the state of that moment;
prices are told apart by the time of their answer. Either price may be missing
from an answer: `GetChainParameters` takes the keys that are there and leaves the
others nil. `Mul` with a nil price panics, the recovery handler of
`cmd/agent-eth` panics again, and the process starts anew with an empty cache
(`Panic`). Native transfers are made first and estimated then, those of tokens
the other way round.

`MaxCall` bounds the time from an answer of the node to its `Set`, which the
code does not; without it no age of prices is bounded, since `Set` stamps them
with its own time.

| Run | Instance | Shows |
|---|---|---|
| `tron` | 2 requests, prices that expire after 2 ticks and may be incomplete, answers up to 2 ticks under way, 5 ticks | types; an intent has a made transaction and a fee with both prices; prices are younger than `Expiration + MaxCall` when a fee is estimated |

Bounds. Two requests are what it takes for an older answer to overwrite a newer
one; five ticks hold two expirations and a call. No fairness: safety only. The
deadlock check is off because time ends.

Proofs (`TronAgentProofs`), for any requests and times: `TronTypes`;
`IntentsAreWhole`, which follows each request from its estimate to its
transaction; `FeesStayFresh`, whose strengthening says that a stamp is at most
`MaxCall` later than the answer it belongs to.

Noted without a run: `GetFeePrices` is said to "get energy and bandwidth prices
in suns" (`server.go:89`), yet it caches and hands on an answer without one of
them, and the estimate panics.

A `Send` that is
repeated for a transaction the node has taken is answered `InvalidArgument`. An answer of a
node is taken by its content, its HTTP status is not looked at (`api.go`): the
model assumes that a node that fails says so in its JSON.

Left out: the endpoints that pass on one value (`CombineTransaction`,
`SignTransaction`, `Send`), amounts; addresses are in section 10.
`SetTimeOfEnd`, `AfterEstimateOfNative` and `IsValidInclusive` are slips as in
section 3.

## 8. Identifiers, numbers and blocks

- `Identifiers`: chains and currencies as records, their texts as sequences of
  the parts between the colons, for any set of names and any idempotent
  upper-casing.
- `HexConv`: hexadecimal texts as sequences of digits, bytes, numbers, the
  fixers for quantities, `Uint256`. A text is what follows the "0x" of an
  answer; the fixers leave a text without prefix alone. `Base` and `MaxInt`
  stand for 16 and for the largest number of the type.
- `BlockConversion`: how the JSON of a block is put right before go-ethereum
  reads it (`fixer.go`, `types/block.go`), how its logs are grouped, and which
  transfers, with which identities, each transaction has (`block.go`,
  `transaction.go`). A JSON object is a function of field names, a field the
  digits of its text, or missing, or no text at all.
- `Conversions`: a value in one form (text, currency, chain, digits, bytes,
  number, JSON object, block) that any conversion that takes that form may turn into another, as
  clients, agents and account managers do; `meaning` remembers what it stood
  for at the start.
- `MCConversions` gives names in both cases to TLC.

| Run | Instance | Shows |
|---|---|---|
| `conversions` | 7 names, texts of up to 4 parts; digits in base 3, texts of up to 4 | no sequence of conversions changes a number, a chain or a currency, but for the tokens of a MAINNET; a JSON object is read as the numbers it stands for or refused for a field that stands for none; a converted block has every transfer once, in order and under its transaction, and identities of transfers tell their transactions |
| `conversions_mainnet` | the same | violated: the token of a MAINNET is printed as ETH:0xdac... where `currency.go:39` says "ETH::0xdac17f958d2ee523a2206206994597c13d831ec7" |

Bounds. Blocks have two transactions, of which one may be worth nothing, and up to
three logs of six kinds, transaction by transaction as a node lists them
(`LogsInOrder`): a transaction with two logs beside one of the other, and logs that are
no transfers, occur. That logs in any order give the same is what `TransfersAreKept`
proves. JSON fields are padded, empty, zero, missing or no text. Four parts are all that an identifier may have. Base 3 has a zero, a
largest digit and one between; four digits are two bytes, and texts of odd length,
of zeroes only and of none occur. `MaxInt` is 60, so numbers of four digits are
too large in part and `MakeUint256` panics; in the conversions of 64 bits they
are errors. The deadlock check is off because a panic and an error end the
journey.

Proofs (`ConversionsProofs`), for all names, bases, texts, numbers and blocks and for
journeys of any length. There is one invariant for the forms that turn into each
other (`TokenInv`, `ChainInv`, `CurrencyInv`, `NumberInv`, `FieldsInv`, `BlockInv`);
no other conversion touches these forms (`TokenActions`, ...).

- `TokensKept`, `ChainsKept`, `CurrenciesKept` rest on lemmas that say what is read
  from what was printed (`PrintedTokenIsRead`, `PrintedChainIsRead`,
  `PrintedCurrencyIsRead`).
- `MainnetTokensAreLost`: `conversions_mainnet` shows one token, this theorem all of
  them. The exception that `CurrencyKept` makes is thus not wider than needed.
- `NumbersKept`: what a text or bytes stand for is a recursive function
  of its prefixes, and `DigitsOf` one of repeated divisions. What they compute is found by
  induction, in the form the provers can use (`Induction`): a set that holds 0 and with
  each number the next holds all numbers, by the well-foundedness of `<`. From it come
  `LeadingZeroes` (padding and trimming), `PairsKeepNumber` (two digits are a byte) and
  `DigitsOfNumber` (a number's digits stand for it, lie below the base and have no leading zero).
- `FieldsAreKept`: a field can be read after it is fixed if and only if it stands
  for a number, and then as that number (`FieldIsFixed`). `FieldsAssumption` says that a
  missing field and one that is no text are not mistaken for digits.
- `TransfersAreKept`: `Collected` is what a loop appends of what it passes. It takes an
  increasing numbering of the indexes it keeps (`CollectedIs`), also when transfers
  are picked from a group of logs (`CollectedTwice`), and the place of a log is the
  count of those up to it (`PlaceIsNumber`).
- `IdsTellTheirTransactions`: after the hash, the identity of a token's transfer
  has the bytes of a number, which never are the single zero of a native one.
- `ConversionsTypes` follows from the six invariants.

`RpcBlocksAssumption` is what is assumed of blocks, and `TLC` evaluates it on those of
`MCConversions`: a hash is of one transaction, values and indexes are numbers, a log is of a
contract, which has an address. Indexes of transactions need not differ, and logs may
come in any order or name transactions that are not in the block.

Noted without a run: `Hex2Bytes` drops the error of a text with strange
characters and returns what was decoded before it; `FixField` creates the field
in the enclosing object when an element of the path is not an object
(`fixer.go` 55-85), which no path of the program has; a missing field is let
through; a `Transfer` of an ERC-721 token (four topics) is listed as a token
transfer without a value; a transaction that failed is listed with its native transfer
and as a success; the token transfers of one transaction share an identity.

Definitions named `...AsIs`, `...OfType`, `...OfErc20`, `...Unpadded`,
`FixesWithoutV`, `GroupedFirst` and `TxIndexByte` are slips as in section 3.

## 9. Construct service

`ConstructService` follows the transfers of one account through
`agents/eth/server/construct.go`. The agents keep nothing between two calls; what
makes transfers depend on each other is the pending nonce of the chain. So the
model has, besides each transfer's place in `CreateTransfer` (`pc`) and its
intent (`net`, `asset`, `raw`, `fee`), the world the agents talk to: for each
network a chain (`executed`) and for each of its nodes a pool. Every call of an
agent is a step answered by any node.

- `CreateTransfer` is `AskNonce`, `AskPrice`, `AskGas`, with the currency parsed
  after the price: a native transfer is complete then, an ERC-20 one asks for
  gas, anything else is refused. `Fails` are its error returns, `Again` a client
  that asks anew.
- `Sign` stands for `SignTransaction`, and for an account manager followed by
  `CombineTransaction`, with the key of the account or with another.
- `Send` may be repeated and may go to the agent of any network, since the proxy
  routes by the `ChainId` of the request (`proxy.go` 112-154). The signer is recovered
  from the hash that the sending agent computes. An answer may be lost.
  `SendUnsigned` is the panic on `Signatures[0]`, which ends the process.
- `PendingNonce`, the pools, `Gossip` and `Mine` are external: nodes of Ethereum
  as the code uses them. A node may lag (`AskNonce` takes any nonce up to the pending
  one), replaces a waiting transfer only by one with a higher price, and refuses used
  nonces. Assumed: no chain reorganisation, no eviction, and that nobody else
  spends from the account.

`PayOnce` is the promise to the one who approves a transfer: it is paid at most
once, approved, on its network, and costs at most what was told.
Preparing a payment anew is another transfer, which may pay a second time:
the code has no memory by which it could tell. The `Id` of an intent is the
hash to sign, not the hash by which `Send` answers.

| Run | Instance | Shows |
|---|---|---|
| `construct` | 2 transfers, 2 networks with 2 nodes each, prices 1 and 2, gas 1 or 2 | types; `ConstructService` implements `PayOnce`; the nonce of a transfer that `Send` accepted is used in the end, by it or by its rival |

Bounds. Two transfers can have the same nonce or follow each other, two networks are
what a replay takes, two nodes hold rival transfers, two prices let one replace the
other. Fairness: each network mines as long as something can be executed
(`WF_vars(Mine(n))`); the code promises nothing itself, and no call of a client
is fair. Deadlock is checked: a client can always send again.

Proofs (`ConstructProofs`), for any sets of transfers, networks, nodes, prices and
gas: `ConstructTypes` and `ConstructPaysOnce`, that every step is a step of
`PayOnce` or a stutter. The inductive invariant `Inv` adds that only intents are
signed, that a fee is the limit times the price, that what waits is of its owner and its
network, and that the i-th entry of a chain is a transfer with nonce `i - 1`: so
no transfer is there twice. `NonceIsUsed` is liveness and only model-checked.

`NewTransaction` is go-ethereum's, without recipient, amount and data.
`AfterPriceUnchecked`, `GasEstimateOfNative`, `SigHashHomestead` and
`PendingNonceAfter` are slips as in section 3.

## 10. The process of the agent

`AgentProcess` models `cmd/agent-eth/main.go` with the table of `proxy.go`, the
start of each agent (`server.go` 59-95), the chain service and `GetCurrency` with
its cache. `mode` is where the process is; `file` the configuration of this
start; `types`, `found` and `asking` are what `InitServerProxy` has not come to,
has found, and the agent that waits for `eth_chainId`; `servers` is the map of the
proxy, indexed by the text `ChainIdToString` gives; `cache` has one map for each
agent; `req` is the place of each request and what it holds.

- Types and networks come in the order of a Go map: `VisitType` and `Connect`
  take any. Without a network or a factory the start ends (`NoAgents`: the log says
  "ignoring", 151, but the count of agents made is checked by `Fatalf`, 160). A chain without
  peers, a label given twice, an error to `eth_chainId` are panics
  (`ConnectPanics`, `ChainIdFails`). The process may be killed at any time and
  started again with another file; nothing survives.
- Every endpoint that names a chain is routed as `Unrouted` and `IsRouted` say.
- A list of chains is sent agent by agent (`SendChain`), in any order; an agent that
  cannot send ends the list with its error (`SendFails`), so only a list without
  an error ends well (`SendEnds`).
- `GetCurrency` is one step if it needs no upstream (`GetOther`, `Hit`), else a
  step per call: `Miss` reads the address and binds the contract, `Symbol` and
  `Decimals` call it, through any upstream, and the last one fills the cache.
  `Set` of ristretto may drop the entry, `Evict` may take any. Requests that
  missed together fill it one after the other.
- The Tron agent reads addresses by slicing the text, which panics on a short
  one; the recovery handler panics again and the process ends (`AddressPanics`).
- Left out: the other endpoints behind the table, which sections 6, 7 and 9 have;
  flags and logging; `ChainConfig.LimitRPS`, `DefaultNetwork` and
  `GetChainConfig`, which nothing uses.

| Run | Instance | Shows |
|---|---|---|
| `agent_process` | 5 configurations of 3 types and 2 networks, 7 currency texts, 2 requests, any restarts | types; the process serves all of its configuration or nothing; answers are of the chain and the text asked for; a list of chains that ends well is complete and without repetitions |

Bounds. The configurations have two types, a label given twice, no `rpcUrls`, no
network, and a type without a factory; the texts are native, erc-20 in two
forms, erc-1155, malformed and unreadable. Two requests race for the cache and list
while the other fills it; two chains of one type and one of another have
the same texts of currencies.

No fairness, and no property that a start comes to an end: chains are connected one
after the other before the API listens, and the first call of each is repeated without
a bound until some upstream of the chain answers, well or with an error. A chain
whose upstreams are all down keeps every other from being served, which
`AgentProcess` allows as a process that stays in `init`.

Proofs (`AgentProcessProofs`), for any configurations, names and requests.
`AllOrNothing`: `StartInv` and `TableInv` say that during the start the table has
exactly the chains that are configured, no longer to come and not waiting
(`Served`), each under its own text. `AnswersAreRight`: `CacheInv` says that every
entry is what the chain's own contract tells of its text, `ReqInv` says what each
request holds (`Asks`, `Answered`). `ListsAreComplete`: what was sent is what was
routed, wanted and is no longer left (`Listing`). `ProcessTypes` follows from the same
invariant.

Noted without a run: `currency.go:21` calls itself a "naive implementation, no
cache" above a cache; symbol and decimals come from two calls, possibly from two
upstreams, and with a context of their own, so a client that leaves does not end
them; any failure of an upstream is answered `ErrInvalidCurrency`; `GetChain` always
says that a chain is no testnet, `ListChains` says what is configured; the proxy
compares the network as written, so an empty one is not MAINNET; the id of a currency
is the text within the chain, "ETH::address" is refused; the id that `eth_chainId`
answers is not compared with the configuration.
`TableKeyOfType`, `ReadyEarly`, `SendFailsIgnored` and `CacheOfProcess` are slips as in section 3.

## 11. Not modelled

- *PKCS#11 account manager*: `InitAMPKCSServer` is given an empty
  configuration, so `crypto11.Configure` fails and the server panics when it
  starts; behind that the endpoints are not implemented or look for a key under a
  placeholder. There is no behaviour to state properties of.
- *Blockchains*, *command-line utilities*, *contract bindings*: cryptography,
  address formats, flags, error constants, generated code; no state. Two calls
  of the ERC-20 binding are steps of `AgentProcess`; ERC-1155 is never used.
- *Parts of modelled components*: the endpoints of `accounts.go` (they keep
  nothing and call the blockchain registry), senders, fees and signatures of
  converted transactions, the values of metrics, wrappers of `backend.go` that
  nothing calls.
- *Of the environment*: a wall clock that steps back (`lastUpdated` has lost its
  monotonic reading, so refills would stop until the clock has caught up), a `Dial`
  that hangs and with it the reconnecting goroutine, reorganisations of a chain in
  section 9.
