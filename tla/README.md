# A TLA+ verification of solgo

The repository is a collection of Go libraries and Solidity contracts that are
used together to sell, redeem and randomise NFTs: an entropy oracle on chain
with its server, contracts that sell and redeem tokens, a service that streams
blocks from Firehose, a library for hardware wallets, and helpers. There is no
single program; there are components with state of their own, most of which are
changed by several actors, and libraries of functions. This project models both:
the former as state machines, the latter as operators that are compared with
their definitions.

`PROJECT.json` lists for every definition the source lines it models, for every
run what it checks, the hazards of the code, and the theorems.

## Inventory

| Component | State | Operations | Meets | What is hard |
|---|---|---|---|---|
| `go/sync` Toggle | a flag, a mutex, a channel with one buffered item | `Wait`, `Set`, `Close` | used by usbwallet | every operation is several steps of mutex and channel; the item is shared by all waiters |
| `go/usbwallet` Wallet | the map of devices (travelling in a channel), quit, error buffer, Toggle | the event loop, the tracker of existing devices, `SignerFn`, `derive`, `Wait`, `Close`, `Err` | Toggle; hub and devices of go-ethereum | five kinds of goroutine; closing while all of them are under way |
| `contracts/entropy` EntropyOracle, V2 | signer, entropy per block, callbacks per block, override | request, request with callback, provide, trigger, remove, set signer, set override | consumers' callbacks; the V1 oracle; the server | partial failure of callbacks, retries, re-entrant consumers, changes of signer between request and fulfilment |
| `contracts/entropy/entropyserver` | cached block number, rate limiter | `ServeHTTP` by concurrent handlers | an Ethereum node; clients that retry | a cache checked and swapped by many handlers, a lagging node, a limiter |
| `go/firehose` Proxy and Hydrant service | per stream: two goroutines, channels, an error, a cursor | `Blocks`, `Events`, `Recv`, `Close`, cancellation | a Firehose server; gRPC clients | errors, cancellation and early return of either goroutine; resumption |
| `contracts/sellers` | prices, limits and counters per seller; authorised sellers per sellable | `purchase` of each mechanic, setters, `handleSale`, `lockSellers` | sellables, redeemable tokens | several sellers and limits that change between purchases; batches |
| `contracts/redemption` | voucher ownership, redeemers, transfer restriction, redemption records | `redeem`, restriction setters, `lockRedeemers` | sellers of the presets | one voucher redeemed by several redeemers; soft expiry |
| `contracts/presets` | projects and editions, pass redeemers | `redeem`, `handleSale`, `burn` | sellers and redemption | one transaction over three contracts |
| `contracts/uups` | code and implementation of the proxy on chain, list of versions | deploy all, find the current version, migrate, simulate an upgrade | CREATE2, proxies, forge | broadcasts that are interrupted and scripts that are repeated |
| `go/shuffle` | a partial permutation | `Permute`, `PermuteUpTo`, `Grow`, `GrowTo` | | growing between permutations |
| `go/eth` | none | `LastBlockBy` (a binary search over a live chain), nullable values, signing | an Ethereum node | a chain that grows and fails during the search, equal timestamps |
| `go/dbtx` | transactions and advisory locks of Postgres | `Do`, `PgTxLock`, `TryPgTxLock` | Postgres | several transactions in one call, commits that fail, panics, lock release |
| `go/spawner` | a map of spawned containers | `Spawn`, `Kill` | Docker, Postgres | failures after the launch, expiry while a call is under way |
| `go/erc721` | registered servers, contracts they are bound to | register, attach, metadata and image handlers, rarity | contracts, HTTP clients | tokens minted and burnt between check and use; shared metadata; which status an error becomes |
| `go/solcover` | registry of sources and contracts, deployed addresses, line hits | register, trace calls, report | solc's output, the EVM | compressed source maps, nested calls, addresses used again |
| `go/galois` | none | roots of unity, Fourier transform, convolution | | sizes that are no powers of two, roots that do not exist |
| `go/flipside` | a query run at the server | create, poll with backoff, fetch pages | Flipside's API | states that end a run, the last page, a Context that ends |
| `proto/eth`, extractors of `go/firehose` | none | payloads, conversions, event signatures, logs to events | the EVM's logs | order of indexed and other arguments |
| the rest | none of its own | thin clients of services, flags, test helpers, constants, build rules, demo | | |

The properties that make each component correct, in a sentence each:

- Toggle: `Wait` passes only while on, the item is neither lost nor doubled,
  every call that should return does, closing unblocks waiters.
- Wallet: the map has one owner, the Toggle says whether a device is open, an
  error nobody reads blocks nothing, `Close` returns.
- Oracle: every registered callback is called successfully once, or is pending,
  or was removed; entropy is historical, final, and what was delivered stays on
  record.
- Server: only mined blocks are signed; clients that retry are served.
- Block stream: every block once and in order over all sessions of a client,
  EOF only at the end, no goroutine leaks.
- Sellers, redemption, presets: limits hold over all purchases, what was paid is
  what the sellable received, a voucher is redeemed at most once and never
  without its sale.
- Migrations: versions set up in order and once, whatever was interrupted.
- Shuffle: a permutation whatever is grown and permuted when; what was drawn is
  final.
- LastBlockBy: never a wrong block, although the chain grows.
- Transactions: a prefix of the Funcs is applied, all of them if there was no
  error; locks exclude each other and end with their transaction.
- Spawner: no container without somebody who can kill it or knows why not.
- Metadata server: only minted tokens reach a handler, errors stay inside.
- Coverage: a line is hit exactly if it was executed.
- Flipside: all pages of a successful run, once and in order; it ends.
- Functions: convolutions, source maps, wire formats, rarities and events are
  those of their definitions.

## Modules

| Module | Models | Notes |
|---|---|---|
| `Toggle` | `go/sync/toggle.go` | one action per mutex or channel operation |
| `Gate` | what a Toggle promises | an atomic gate; `Toggle` implements it with `on <- HasItem` |
| `Wallet` | `go/usbwallet/{wallet,eventloop,accounts}.go` | composes the goroutines of a wallet with an instance of `Toggle` |
| `EntropyOracle` | `EntropyOracle.sol`, `EntropyOracleV2.sol` | one action per transaction |
| `EntropyTrigger` | `EntropyOracleV2._triggerCallbacks` | the loop call by call, with re-entrant consumers |
| `EntropyServer` | `entropyserver/main.go` | one action per access to shared state |
| `BlockStream` | `firehose.go`, `ethservice.go` | fetcher, handler and client over several sessions |
| `Accounts`, `LockableRole` | accounts and their operators; a role with `lockSellers` or `lockRedeemers` | used by the three below |
| `Sellers` | `contracts/sellers`: base, mechanics and presets | what a purchase does to the seller |
| `Voucher` | `SellableRedeemableRestrictableERC721` with `BaseSellable`, `BaseRedeemableToken`, transfer restrictions | minted by sellers, burnt by redeemers |
| `ProjectPool` | `ProjectPoolSellable`, `SellableERC721ACommonByProjectID` | projects and editions |
| `Sale` | the transactions of `contracts/{sellers,redemption,presets}` | composes the three |
| `Contracts` | `EntropyOracle`, `EntropyTrigger` and `Sale` | each in behaviours of its own, as they share no state; `ActiveContracts` says which are explored |
| `Shuffle` | `go/shuffle` | one step per iteration of `Permute` |
| `BlockSearch` | `eth.LastBlockBy` | one step per probed block, on a chain that grows |
| `Coverage` | registry and collector of `go/solcover` | driven by an EVM with nested frames |
| `Transactor` | `go/dbtx` | concurrent `Do`s with advisory locks |
| `Spawner` | `go/spawner` | concurrent `Spawn`s and `Kill`s |
| `Flipside` | `go/flipside` | one step per request |
| `MetadataServer` | `go/erc721` servers | registration, attachment, concurrent requests |
| `Migrations` | `contracts/uups` | scripts, broadcast transaction by transaction |
| `Galois`, `SourceMap`, `Values`, `EventLogs`, `Nullable`, `Rarity` | `go/galois`, parsers of `go/solcover`, `proto/eth`, extractors of `go/firehose`, `eth/nullable.go`, `erc721/rarity.go` | operators, each with its reference definition |
| `Library` | calls of these functions | a state is a call |
| `Services` | `Shuffle` to `Library` | each in behaviours of its own, as they share no state; `ActiveServices` says which are explored |
| `MC*` | | instances for TLC |
| `FoldTheorems` | | what the folds of the community modules and recursive functions compute, proved once for all |
| `EntropyOracleProofs`, `BlockStreamProofs`, `WalletProofs`, `SaleProofs` | | theorems about these modules, checked by TLAPS |
| `ContractProofs` | | theorems about `EntropyTrigger`, `Migrations`, `Coverage` and `EntropyServer` |
| `ServiceProofs` | | theorems about `Toggle`, `Transactor`, `Shuffle`, `BlockSearch`, `Spawner`, `Flipside` and `MetadataServer` |
| `LibraryProofs` | | theorems about `Library` and its functions |

Definitions named as a mutant in their comment ("Mutant of ...") are plausible
bugs; each property of a passing run is known to fail when one of them replaces
the definition it follows.

### Toggle

`Set` holds `mu` while it sends to or receives from the channel of capacity 1;
`Wait` takes the channel under the mutex (`WaitSigChan`), receives the item
(`WaitRecv`) and sends it back (`WaitReturn`). `pc` says where each goroutine
is; the values of `RestPCs` are the results of its last call. Sending on, or
closing, a closed channel panics and ends the process (`panicked`). The Context
of a `Wait` may be done at any time (`CtxDone`). `State()` and `String()` only
read and are left out.

Seen from outside, the Toggle is on while an item exists, in the buffer or in
the hands of a `Wait` (`HasItem`), which is how it implements `Gate`.

### Wallet

The goroutines are `listen`, `track` (trackExistingWallets), `close` (the one
caller of `Close`), the signers and the waiters. The map of wallets is the item
of a one-item channel: `box` says whether it is there, taken or closed; `status`
is the content of the map, `"open"` for an entry whose `open()` is true. The hub
may report any event about any device at any time, and every call of a device
may fail. `SignerFn`, `derive` and the function that signs take the map, use a
device and put the map back, so one `Signer` stands for the three; which account
they choose changes nothing. `Wait` is a `Wait` of the Toggle; `Set` and `Close`
of the Toggle are interleaved step by step with everything else.

No call is started after `Close` has been, since a wallet is not used any more
then; calls that are in progress go on.

### EntropyOracle and EntropyTrigger

A transaction is atomic. `entropyOf` is the mapping of the contract, with
`EntropyRequested` for the marker of `requestEntropy` that `OwnEntropy` hides. The
signature of a block hashed into its entropy is an element of
`OracleSigners \X Salts`: deterministic signatures have one salt, and the contract
does not rely on it. A call of a consumer succeeds or reverts (`ok`). `registered`,
`triggered`, `removed` and `delivered` are history variables. `setOverride` takes
any address; the model has the one V1 oracle that the override is there for, on or
off, and the properties are shown for a steerer who names no other contract.

`EntropyTrigger` opens up `_triggerCallbacks`: the loop over the first `max`
elements of the EnumerableSet, the consumers' calls, and the removals after the
loop, with a stack of frames as consumers that are `reentrant` may call
`triggerCallbacks` from their callback. A frame that runs off the end of a set
that a nested one has shrunk reverts, and with it all it did. `ActsAtomically`
is the link between the two modules: without re-entrant consumers, the whole
loop is the step `TriggerCallbacks` of `EntropyOracle`.

### EntropyServer

A handler loads the cached number, asks the limiter, asks the node and swaps the
cache; each is a step, and other handlers run in between. The node may answer
with a head that is up to `MaxLag` blocks old, as load-balanced nodes do, or fail.
`Interval` adds a token up to the burst. Methods other than the served ones and
arguments that are not numbers are refused without any effect and are left out, and
so are failures of signing with the key in memory and of writing the response,
which end in a 500 and change nothing.

### BlockStream

A session is a call of `Events`: the fetcher of `Proxy.Blocks`, the handler of
`ethHandler.events` with the goroutine of `newETHAdaptor` around it, and the
client calling `Recv`. Blocks are numbered in stream order, and a cursor is the
number of its block. `bad` is the set of blocks with a log that does not fit its
event signature: `events` fails on them. A goroutine sets its error in one step
(`FetcherReturns`, `HandlerReturns`) and closes its channel in the next
(`FetcherCloses`, `HandlerCloses`), as their deferred functions do. After an error the client may open a
session from the cursor of its last response while goroutines of earlier
sessions are on their way out. Parsing signatures and extracting arguments is
abstracted to `bad`; `EventLogs` has them in detail.

### Sellers, Voucher, ProjectPool and Sale

A transaction is an action over all the contracts it reaches; one that reverts
is not enabled. `Sellers` has the seller's side of a purchase for one contract
of each kind: public with a limit per address, signed allowances, free of charge
by the steerer, gated by a token, airdrop to the holders of a token. A batch is
checked and counted entry by entry in the code; since the counters only grow and
a failure reverts everything, the model compares the counters after the batch
with the limits, and the mutants show what the difference would be. `held` is
the balance of a seller, which receives `msg.value` and forwards the cost.
`Sale` adds the call of the sellable, the redeemers (`records`, and as history
`passOf`, `ranked` and `burnt`), and the steerer, who changes prices, limits,
signers, roles and restrictions in between. Who may act for whom, by approval or
delegation, is the constant `Operators`. The sellers are deployed at
`InitialPrice` and `InitialLimit`, the sellers' and redeemers' roles granted.
`highestLimit` is the history of the limit per address, which may be lowered. A
role's members are sellers and redeemers of this repository, none of which calls
`renounceRole`. `"burner"` stands for `MintPassBurner` and for `RoleGatedBurningRedeemer`, which
differ in who may call them.

### Services

`Services` puts together what shares no state. A behaviour belongs to the package
`active`; the behaviours of several are interleavings of these.

- `Shuffle`. `perm` is a function on `0..size-1`, `shuffled` the number of drawn
  values. The source of randomness may return any index that it is asked for.
  Calls of several goroutines are not modelled: the type has no lock and its
  callers use it from one.
- `BlockSearch`. `Mine` extends the chain at any time, with timestamps that do
  not decrease; `Probe` is one call of the function given to `sort.Search`, which
  remembers the best block and may fail. The check of the `int` range is kept.
- `Coverage`. `codeAt` and `frames` are the EVM's truth, `deployedContracts` and
  `contracts` what the collector believes. `Matches` are the contracts that creation
  code may be taken for: the one with its hash, or any with a library whose pattern
  occurs in it, as patterns are not anchored and are tried in the random order of a
  map; `CovEmbeds` says which code contains which. The ghosts `covExecuted` and
  `covOwed` say what ran and what a report should have, the latter of code that
  matches itself and no other; `covSpurious` and `covClashed` name the deviations
  that the code has (see below), and nothing else is allowed.
- `Transactor`. A `Func` takes any locks and then returns, fails or panics; a
  `Commit` that fails may have been applied. `EndTx` and `Compatible` are
  PostgreSQL's. After a panic the transaction stays open until its Context ends.
- `Spawner`. Every `Spawn` has a container, which may expire; each call to Docker
  may fail.
- `Flipside`. The run may end in any terminal state and the Context at any time;
  a request that meets a Context that is done fails.
- `MetadataServer`. `AttachServers` attaches one prefix after the other and may
  stop at an error; a request is checked against the contract in one step and
  handled in another, and its response is copied in a third, which may fail before or
  after the first byte (`CopyFails`). `existed` records whether the token existed at
  some time between the request and the answer of the contract. Metadata has an image
  filled in unless it has one, or an animation (`Animated`), or its server has no
  image endpoint (`ImageServers`). An endpoint without handler is the kind
  `UnhandledImage`. Errors of `registerServer` end the binary. IDs are reduced modulo
  2^256, here `IDs`.
- `Migrations`. A script is simulated as a whole: if it would revert, it is not
  enabled. Its transactions are then broadcast one by one, and `BroadcastStops`
  forgets the rest. One operator runs one script at a time, as only the admin
  may upgrade.
- `Library`. `Galois` takes its random draws as arguments, slices are values (that
  `zeroPad` may append into the backing array of its caller is not covered), and the recursion of
  `cooleyTukey()` on slices of slices is one on strides, with `Butterfly` for what
  a call does after its two recursive ones; `SourceMap` has byte codes and nodes
  of a source map as small numbers, with an operator for each turn of its two
  loops; a log in `EventLogs` is what
  the EVM makes of an event; the reference definitions are the sum that defines a
  convolution, the instruction that contains a byte, the last field given, the
  event that was emitted, and the value that was marshalled.

## Runs

| Run | Instance | Shows |
|---|---|---|
| `toggle` | 3 goroutines, each calling anything, any number of times | item conserved (`ItemConserved`), `Gate` implemented (`ImplementsGate`), closed while off for good (`ClosedOffStays`), `Set` and `Wait` return (`CallsReturn`) |
| `toggle_close_doc` | 2 goroutines | **violation**: `Close` makes a `Wait` panic |
| `wallet` | 2 URLs, 1 of them connected before, 1 waiter, 1 signer, error buffer of 1 | one owner of the map; Toggle equals any-open; panics only once closing; management stops; `Close` and `Wait` return (`CallsReturn`) |
| `wallet_close_doc` | the same | **violation**: `Close` makes a managing goroutine panic |
| `contracts` | oracle: 2 blocks, 2 callbacks, 2 signers, 3 registrations in all; loop: 3 callbacks, frames nested up to 3, any re-entrant subset; sale: 2 accounts, 2 vouchers, batches of 2, 2 projects, 2 allowances, limits 0 to 2, 2 changes by the steerer, by time or of the gating token (a change of a seller counts twice) | oracle: callbacks accounted for and pending ones requested (`CallbacksAccounted`), entropy historical, final, on record; loop: nothing lost, order kept, atomic without re-entrancy; sale: limits, funds (no seller keeps any), one exchange per voucher, rankings, editions, locks |
| `entropy_trigger_doc` | 2 callbacks, 2 frames | **violation**: a consumer that accepts twice |
| `sale_limit_doc` | the sale of `contracts` | **violation**: a limit of 0 refuses everybody |
| `entropy_server` | 2 handlers, 2 blocks, burst 1, lag 1 | only mined blocks signed; cache set back by no more than the lag; retrying works |
| `entropy_server_doc` | 2 handlers, burst 4, no lag | **violation**: 403 for a mined block |
| `block_stream` | 4 blocks, 2 sessions | in order, complete at EOF, no leak, sessions end |
| `services` | see the bounds below | `PoolIsPermutation`, `PermutedIsFinal`; `SearchIsRight`; `CoverageIsExact`; `DoIsTransactional`; `SpawnsAreTracked`; `PagesAreComplete`, `FetchEnds`; `ServesOnlyMinted`; `MigrationsAreInOrder`; `FunctionsAreRight`, `EventsAreEmitted` |
| `nullable_doc` | the functions of `services` | **violation**: a null does not survive JSON |

Bounds. `MaxBlock`, `MaxRegistrations`, `MaxDepth`, `MaxHead`, `Burst`,
`MaxLag`, `MaxSessions`, `ErrChanBuffer` and, in `Sale`, `MaxVouchers`, `MaxBatch`,
`MaxNum`, `MaxValue`, `MaxTime`, `MaxChanges` and `Steered` are the only ones;
nothing else is counted. In `Services` they are `MaxPool`, `MaxHead`, `MaxTime`,
`MaxInt`, `MaxFrames`, `MaxEvents`, `MaxFuncs`, `MaxPages`, `MaxImpls`,
`MaxSetUps` and the sets of callers, containers, prefixes and arguments.

Three goroutines are the least with a `Set` that waits for an item held
by one `Wait` while another competes for it. Three registrations
allow one of the same callback and block after its call, while another is pending;
two blocks allow a batch. Three
callbacks are the least for which the swap of `EnumerableSet.remove` can move an
element that is neither first nor removed. Two handlers suffice for one to
overtake another between its load and its swap. Two
sessions allow a failure with goroutines that are still on their way out, and a
success; of four blocks one can be in each place between stream and client. Two
vouchers and batches of two allow the same voucher, project, token or allowance
twice in a batch; two changes allow a stage to be set and locked, or a lock and
an attempt to undo it.

In `services`: a pool of 4 is grown after a draw and drawn from again; five
blocks give a search of three probes, with equal timestamps on either side of
the bound, and `MaxInt` is reached; two contracts with a file of the same index
and a common line, and a third that contains the code of one of them, at two
addresses, are called from each other and deployed again on a second backend; two callers with a key meet in every combination of
lock modes, with a second Func after a failed first one; three pages are a
first, a middle and a last; two servers, one of them with images, under two
prefixes; three IDs of which two share their metadata and one is animated, and raw
IDs below and above the range; three versions out of four, of which one cannot be
upgraded from and one has a wrong hash, in lists with and without duplicates;
slices of up to three elements of the field of order 5, for which roots of order
1, 2 and 4 exist and one of order 8 does not; byte codes of up to five bytes and
source maps of up to three nodes, in and out of the list of files.

`Contracts` and `Services` may stop at any time, as no
transaction or call has to happen, so their configurations do not check for
deadlock; all others do. `TypeOK` is left out of the runs: where there are proofs,
the types that they need are proved.

Symmetry is used in `contracts` (signers of the oracle; callbacks with the requester
role), where no liveness is checked.

### Fairness

- Toggle: every goroutine inside a call is scheduled, and Go's mutexes and
  channels serve those that wait in turn (a mutex switches to starvation mode, a
  channel queues its receivers), which is strong fairness of each goroutine's
  steps. Nothing has to be called.
- Wallet: the same for its goroutines; a `select` with several ready cases
  chooses uniformly at random, so that `quit`, ready from some time on, is
  chosen eventually. The hub need not report anything. Devices answer.
- EntropyServer: handlers run, the limiter's time passes, the node does not fail
  for ever and clients repeat their request, which is what the server's 403
  tells them to do.
- BlockStream: goroutines run; the stream comes up with a block, its end or an
  error; the client calls `Recv` until it fails, as the doc of `Events` demands.
- Services: only for `FetchEnds`. The goroutine of `FetchQueryResults` goes on:
  requests are answered or fail, timers fire, and a request whose Context is done
  fails (`FlipsideGoesOn`). The run at the server need not end.

## What the runs show about the code

Everything listed as "pass" holds. In six places the code does not do what its
documentation says (`findings` in `PROJECT.json` quotes the lines):

1. `Toggle.Close` promises that all waiters return `ErrToggleClosed`. A `Wait`
   that has received the item and not yet sent it back panics. If the Toggle is
   off when closed the promise holds (`ClosedOffStays`).
2. `Wallet.Close` can make the goroutines that manage devices panic:
   `trackExistingWallets` on a channel that `listen` closes before waiting for
   it, `eventLoop` on the nil map it receives from the closed channel of
   wallets or on `Set` of the closed Toggle. Nothing panics unless `Close` has
   been called (`PanicsOnlyInClose`).
3. `triggerCallbacks` is said to be idempotent. A consumer that calls it from
   its own callback is called again.
4. `sign` says it signs if and only if the block has been mined, and that 403 is
   reserved for blocks that are not. With the limiter's burst spent, a block
   that has been mined is answered 403 as well; a client that retries gets its
   signature (`MinedGetsSigned`).
5. A limit per address of 0 is said to be ignored. `PerAddressLimited` has no case
   for it, and refuses every purchase. Limits are otherwise kept, also when they are
   lowered (`LimitsHold`).
6. Nullable values are said to be marshalled reliably to and from JSON. The null of
   JSON is unmarshalled to the empty string, which is then the valid zero address,
   or an error for a number. CSV, and JSON for values that are not null, are right
   (`FunctionsAreRight`).

Smaller observations, without a run of their own. The properties are stated so
that these are the only exceptions.

- Oracle: the comment on `v1Override` (`EntropyOracleV2.sol:31`) calls the V1
  oracle a fallback, while `blockEntropy` and its own doc prefer it.
- Wallet: a `walletAndStatus` pinned by a `SignerFn` keeps its flags after the
  device is dropped, so that its `open()` check cannot notice. A device that has
  arrived and been opened, but whose "opened" event has not been handled, is not
  closed by `Wallet.Close`, which looks at `deviceOpen`.
- LastBlockBy: blocks that share a timestamp can end in the "broken invariant"
  error, since the remembered block is only replaced by a strictly later one.
- Coverage: `deployedContracts` is never cleared, so that an address of an earlier
  backend keeps its contract if the new one is not matched; creation code that
  contains that of a registered contract with a library, as a factory's does, may be
  taken for that contract, so that its own lines are missed and lines of the other
  counted; contracts with constructor arguments are not matched by hash; constructors are traced with the
  source map of the runtime code; a line is missed if the last instruction had
  the same line of another contract's file with the same index; a source
  registered after `Collector()`, or a file without a registered source, makes a
  nil map or mapper panic, though the comment at `solcover.go:153` speaks of
  missing line numbers only; source ranges of length zero have line 0.
- Metadata server: the comment at `server.go:38` says that the codes of handlers
  are propagated; with an error they become 500, and `metadata()` drops the code
  when there is none, so that nil metadata, as `SignedURLImages` returns it,
  panics. A failing node is a 404. If the data of an image cannot be read to its end,
  the hash of the error follows what was sent, with code 200. The token may have been
  burnt before its handler is called, which is said to be guaranteed its existence. A
  `Server` registered under two prefixes has its paths prefixed with both, as its slices are shared; an object returned for several tokens
  keeps the image of the first. A signed URL is valid for up to a year, not for a
  year.
- Spawner: errors of `Expire` are ignored, a container that does not answer is
  left to its expiry, data directories and entries of `resources` stay.
- Transactions: a `Func` that panics leaves its transaction and locks until the
  Context is done.
- Migrations: a list with duplicates lets `migrate(from, to)` run again from an
  earlier index, which `migrate(to)` refuses as ambiguous.
- Functions: a draw of zero makes 0 a root of unity, and the test for primitive
  roots is right for powers of two only; `uint8` is not read by `MustParseWithoutValidation`; arguments
  without a name, and indexed strings, cannot be extracted; duplicate traits of a
  token spoil its probabilities; two requested signatures with one hash are
  extracted by the later one; and since a hash does not say which arguments are
  indexed, an event that has others indexed than the requested signature, but as
  many, is extracted without an error and with its values at the wrong arguments
  (the exception that `Says` makes).

## Proofs

All theorems are about the specification without fairness, for every value of the
constants that satisfies the assumptions named in the modules. They do not depend
on the bounds of the runs: where a guard has a bound, its constant may be any
number. The assumptions are the types of the constants, that the sets which are
summed over are finite (`AccountsAssumption`, `SellersAssumption` and the set of
callbacks), and that placeholders are not members of the sets they stand beside
(`NoOneAssumption`, `WalletAssumption`, `VoucherAssumption`,
`MigrationsAssumption`, `ERC721Assumption` and the one of `Coverage`). For the
functions, the order of the field is prime (`FieldAssumption`: the integers modulo
it are a field only then, and the code does not check), lines have a length and no file is named
like the absence of one (`SourceMapAssumption`), and arguments have the types of
their functions (`LibraryAssumption`). Every safety property of a passing run is
stated by a theorem.

### Induction over data

`FoldTheorems` is what the other proofs rest on where the code loops. The theorems
of the library that take the claim as an operator cannot be instantiated here, but
`WFMin` and `NatLessThanWellFounded` have no such parameter: from them follows
`LeastNatural`, that a set of numbers which is not empty has a least element. A
claim is proved for all numbers by looking at the least one in the set of those
for which it fails. By this, the recursive function of a fold exists
(`CHOOSE` says nothing of it otherwise), a sum does not depend on the order
(`SumOne`, `SumUpdate`, `SumGroups`), and `FoldLeft` and `FlattenSeq` compute what
their names say. The removal of callbacks, `idempotentCreate2`, the batches of the
sellers and the count of exchanged vouchers use this. So do the loops of pure
functions: a recursive function on `0..n` exists and is unique whatever its step
is (`RecursionExists`, `RecursionUnique`), as the step is passed as a function and
not as an operator.

### The sale

`SaleProofs`, with the invariant `SaleInv`. The four properties are not inductive
by themselves, and have to be proved together:

- `NoLimitIsExceeded` (`LimitsHold`): `SellersInv` adds types, that the limit per
  address is at most the highest there was, and that no seller holds money. A batch with the same allowance several times is a sum per
  allowance (`SumGroups`), which is what each limit bounds.
- `EveryVoucherIsSold` (`MintedIsSold`): there is a lemma per seller (`PublicSale`,
  `GatedSale`, `AirdropSale`, `FreeSale`, `SignedSale`) that it mints to as many
  receivers as it counts, whatever its arguments; `Len(owner) = Counted` then
  carries over all of them.
- `NoDoubleSpending` (`GoodsMatchBurns`): `OncePerBurn` says how often a voucher
  occurs in what *all* redeemers have given together. A redemption of a batch
  burns vouchers that were not burnt and that differ, and gives one good for
  each (`GoodsOfBurn`), which each redeemer is shown to do in its own way.
- `EditionsAreNumbered` (`EditionsAreContiguous`): the same project may occur
  several times in one purchase; `Among` counts how many of its editions come
  before each.
- `LocksAreKept` (`LocksHold`) is an action property and needs no invariant: no
  action changes what is locked.

### Contracts, migrations and coverage

`ContractProofs`:

- `NoCallbackIsLost`, `LoopIsInOrder` and `LoopActsAtomically` from `TriggerInv`.
  What a loop has noted as successful must be accepted not only now, but also in
  every state that the EVM may go back to when a call around it reverts
  (`SuccessIsAccepted`); else the loop would remove a callback whose consumer has
  been undone. Without re-entrance, `Undisturbed` ties the loop's variables to the
  list it started with. `SwapRemoveRemoves` is the lemma on `EnumerableSet`.
- `VersionsAreInOrder` from `MigrationsInv`: the transactions which are not sent
  yet are the rest of one script, and fit what is on chain (`Deploying`,
  `UpgradesAfter` or `Simulating`), so that they may stop after any of them.
- `CollectorIsExact` from `CovInv`: the collector's stack is the EVM's
  (`StackIsRight`), a deployment that matches itself and no other contract is known by its
  address in every frame, whichever matches were tried before (`KnownIsDeployed`), and the line that is skipped because it was the last one
  has been counted (`LastIsCounted`).

### Services

`ServiceProofs`:

- `ItemIsConserved`: `TypeOK /\ LockInv /\ ItemConserved` is inductive.
  `ItemConserved` alone is not: a `Set` changes `state` and the item in two steps,
  and only the fact that whoever is between the two holds the mutex (`LockInv`)
  allows `Settled` to say what the item agrees with. `NoPassWhenOff`,
  `ClosedOffIsStable` and `ToggleImplementsGate` follow from it step by step: the
  refinement maps `WaitRecv` to the atomic pass, the channel operation of `Set` to
  the flip, and the other steps to stutters.
- `DoIsAlwaysTransactional` is inductive with its types; a lemma per conjunct.
- `PoolIsAlwaysPermutation`: `ShuffleInv` is the type invariant and the property;
  a swap inside the domain keeps a permutation, and new indices are above all old
  ones. `DrawnIsFinal` follows, since a step swaps at or above its own position.
- `SearchIsAlwaysRight`: `SearchInv` adds that timestamps do not decrease,
  `Bracket` (below `lo` mined by the time, at `hi` not), `ResultIsRight` (the
  remembered block has the timestamp of the block below `lo`, and is that block
  unless timestamps repeat) and `Verdict`.
- `NothingIsLeaked` from `SpawnerInv`: what is in the map of resources was
  returned, and what was rejected never had a container.
- `AllPagesAreFetched` from `FlipInv`: the pages so far are the first ones, and
  after the first of them the number of pages is that of the run.
- `OnlyMintedIsServed` from `ERC721Inv`: a request is routed only to a server that
  is registered (`AttachedAreRegistered`) and not attached again, so that whether it
  has a contract does not change under way; what is said of each request depends on
  its phase (`GoodRequest`); and an object's image is that of one of its tokens
  whichever request filled it in (`FilledIn`).

`EntropyOracleProofs`. `OracleInvariants`: the four invariants and `OracleTypeOK`, with
`V1IsHistorical` added for `EntropyIsHistorical` (what an override delivers is
historical because the V1 oracle demands it too). `ProvidedEntropyIsFinal` is
proved from `OracleTypeOK`.

`EntropyServer`, in `ContractProofs`. `ServerSignsMined`: `HeadBounds` says that every number a
handler relies on, cached or fetched, is at most the head, which only grows.
`CacheRegressionIsBounded` needs `SwapsForward`: between fetching and swapping a
handler's number is at most `MaxLag` below what it loaded, and the swap succeeds
only if the cache still is what it loaded.

`BlockStreamProofs`. `BlocksAreReceivedInOrder` and `EOFOnlyAtTheEnd`: `StreamInv`
adds `Pipeline` (which block is where between stream and client of the current
session, and which error a channel that is closed has beside it),
`ReturnsInOrder` (a handler sets its error before it closes its channel) and
`Unopened`. Goroutines of earlier sessions are not constrained.

`WalletProofs`. `MapAlwaysHasOneOwner`, `ToggleFollowsMap`, `NoPanicWhileOpen` and
`CloseStopsManagement` from `WalletInv`: `LoopInv` says what the argument of the
`Set` in progress is, `CloseInv` what only `Close` brings about. The lemmas
`OwnersTake`, `OwnersPut` and `OwnersStay` carry the ownership over any number of
signers; `Move` and `Stay` stand for the many steps that only walk.

### Functions

`LibraryProofs`. The invariant `CallInv` only says that the arguments of a call are
those that a caller may pass; what `FunctionsRight` (`FunctionsAreRight`) and
`EventsEmitted` (`EventsAreEmitted`) need is a lemma per function, for arguments
of every size.

- `ConvolutionTheorem`: `Convolve` with a root of `ConvolutionRoot` is the
  convolution, in every prime field. From `q` being prime follows that there are no
  zero divisors, from that Fermat's theorem (by counting cosets of the powers of an
  element), and from both that a draw which passes the test of `RootOfUnity` has
  order exactly `n`, since `n` is a power of two (`RootLemma`, `OrderIsSize`); its
  half turn is then -1 (`HalfTurn`), which is what the subtraction in the butterfly
  relies on. `CooleyTukeyLemma` goes through the strides from `n` down to 1:
  at each one every slice holds the sum that defines its transform (`IsPart`,
  `PartStep`), modulo `q` only, as the code does not reduce in between. The powers
  of a root sum to zero (`Orthogonal`), so that the inverse transform of a product
  picks the pairs of indices with the right sum modulo `n` (`InnerSum`,
  `OuterSum`), and padding to `n` keeps different sums from meeting (`PadLemma`).
- `InstructionsNumberedLemma`: `CodeInv` ties the program counters seen so far, the
  numbers given to them and the op codes at every byte of `parseCode`.
- `SrcMapDecompressedLemma`: after each node `last` and `curr` hold the last value
  given for each field, which is the reference definition `FieldOf`.
- `NullableLemma`: unmarshalling inverts marshalling for CSV, and for JSON if the
  value is not null.
- `RarityLemma`: the tokens are grouped by their value, the absence of one included
  (`CountGroups`), so that the counts sum to the size of the collection.
- `ExtractLemma`: what is selected from two sequences at the same indices has the
  same indices in the results (`SelectedPick`); applied to positions of arguments,
  to logs of a transaction and to transactions of a block.

### Only model-checked

- The liveness properties `CallsReturn` (of the Toggle and of the wallet),
  `MinedGetsSigned`, `FetcherIsReleased`, `SessionEnds` and `FetchEnds`: they need
  fairness, which the prover does not support.

## Not modelled

`components` in `PROJECT.json` gives the reason for each. Thin clients of
services, flags, constants, generated and test code, build rules and the demo
have no control of their own: what there is to get wrong in them is the service.
Keys, signers and dialling wrap go-ethereum and gRPC. Of the sale contracts, the
seller gated by nesting levels, the ephemeral airdropper and the ArtBlocks pool
are left out: they add an off-chain signature, a deployment and an external
engine to what is modelled. Of the migrations, the switching between pranks and
broadcasts is left out. `polynomial.go` of galois and `flipside.go` are not part
of the build.

## Plan

Two operators of migrations with plans that are stale when they are broadcast,
and forge's resumption of an interrupted broadcast.
