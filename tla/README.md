# A TLA+ model of the RPC explorer

This directory holds a formal model of the explorer in this repository: an Express
application that answers every page and API call by asking one Bitcoin-like node
over JSON-RPC, with caches, files, optional redis and optional Electrum servers in
between. The process is single-threaded. What makes it hard is that every `await`
is a place where other requests, timers and callbacks run, that almost all state
is shared (module variables, `global.*`, caches), and that the node, redis, the
file system and the browser may each be slow, fail or come back.

TLC checks small instances of each module; TLAPS proves the central invariants for
every value of the constants.

Contents: [the system](#the-system), [the modules](#the-modules),
[the runs](#the-runs), [what is proved](#what-is-proved),
[disagreements found](#disagreements-found), [what is not modelled](#what-is-not-modelled),
[the plan](#the-plan), [how to run](#how-to-run).

## The system

Sources are relative to `src/`.

| Component | State it keeps | Operations | What must be true of it |
|---|---|---|---|
| RPC queue, `app/api/rpcApi.js` | `rpcQueue` (async.queue, `rpcConcurrency` workers), `global.rpcClient`, `rpcConnected`, `rpcStats` | `getRpcData`, `getRpcDataWithParams`, `/disconnect`, a changed auth cookie | each promise settles once; a worker always comes back; nothing but probes before the node is verified; the node's load is bounded |
| Startup, `app.js` 487-726, 1085-1130 | `activeBlockchain`, `getindexinfo`, `txindexAvailable`, the timers | verification every 30 s, index assessment with back-off, periodic refreshes | verified once, no timer set twice; the index is assessed in the end |
| Tiered cache, `coreApi.js` 46-202, `cacheUtils.js`, `redisCache.js` | LRU caches, redis, `SET`s in flight | `tryCacheThenRpcApi` | staleness bounded; conditional results not cached; a caller is left waiting only by a redis client without a connection |
| UTXO summary, `app.js` 728-749, `coreApi.js` 284-325 | `utxoSetSummary`, `utxoSetSummaryPending`, cache entry, `utxo-set.json` | refresh, page, API route | pending flag means computing; slow nodes are spared; only real summaries shown |
| Mining summary, `coreApi.js` 1226-1390, `internalApiRouter.js` 246-306 | `miningSummaryCache`, `miningPromiseQueue`, status and result stores | build, poll, fetch once | a build waits for its own tasks; complete means stored; builds end |
| Mempool summaries, `coreApi.js` 1394-1883 | `mempoolTxSummaryCache` and its file, stores | build, poll, fetch once | a summary is that of its own listing; progress is exact; builds end and are seen |
| Predicted blocks, `coreApi.js` 1885-2120 | the same cache, stores | build, poll, fetch | ancestors of a higher rate before descendants; weight limit; nothing twice, nothing lost |
| Blocks and transactions, `coreApi.js` 900-1220, `rpcApi.js` 289-380 | caches | batched input lookups, lookup without txindex, header in place of a pruned block | inputs belong to their transactions; a recent or own transaction is found |
| Difficulty history, `coreApi.js` 447-495, `app.js` 627-664 | height-keyed cache, dirty flag, file | periodic load and save | what need not be saved is in the file |
| IP cache, `utils.js` 72-154, 834-902 | table, file, redis | get, set, locate, load at start, save | the same |
| Address APIs, `electrumAddressApi.js`, `xyzpubApi.js`, `addressApi.js` and the three HTTP services | `electrumClients`; a reader's sort, limit and offset, which travel through urls | connect, close, run on all servers; a page of a history; search an extended key | what servers disagree on is not given out; pages add up to the history; every used address is found |
| Single sign-on, `sso.js` | token, its file, cookies | match, rotate, issue a cookie | a token is used once |
| Statistics and logs, `systemMonitor.js`, `statTracker.js`, `appStats.js`, `utils.js` | a series of points and a coarser one in front of it | measure, hand over, downsample, chart | no peak is hidden |
| Pages and API routes, `routes/*.js`, middleware of `app.js`, `auth.js` | the request | about 120 handlers | answered, and once |
| Sessions, `app.js` 214-236, 1165-1251 | `req.session`, its store, the settings cookie | load, change, store | a message is shown once; session and cookie agree |
| Chain arithmetic, `coins/rod.js`, `utils.js`, parts of `coreApi.js` | none | reward, supply estimate, chart windows | windows leave out no block |

They interact through promises (everything calls the RPC queue through the tiered
cache), through globals (a refresh writes what a page reads), through files that
outlive the process, through a redis server that outlives it too, and through ids
that a browser page invents and polls. The hard behaviours are therefore: several
requests between a cache miss and the cache write; answers out of order; a timer
that fires while its previous run is still waiting; a drain event shared by
unrelated builds; one failed call among many; a restart between a computation and
its write; and pages that wait for something no one will ever say.

`PROJECT.json` lists the hazards, each at the line where it bites, with the
properties that cover it or the reason why none does.

## The modules

Every module says at its head what it stands for and names its bounds. Actions
keep the source's names where they have one. Between two awaits JavaScript runs
without interruption, so one action stands for one such stretch, with everything
that it assigns.

### RpcService and RpcQueue

`RpcService` is the abstract promise: a call is refused, or accepted and settled
once; at most `Concurrency` are in service; the gate opens when the node answered.

`RpcQueue` is the code. `tasks` and `running` are async.queue; `outcome` is the
promise of each call. A call is pushed in the caller's turn (`Call`,
`VerifyRpcConnection`), taken when a worker is free (`Start`), and the client is
read only then, so `/disconnect` in between makes the call fail inside its task
(`StartWithoutClient`). `Logged` counts what the code logs: an RpcError result is
logged where it is seen and again by the catch block. `gettxoutsetinfo` runs on a
client of its own without a timeout: nothing makes it end. The clients of
`/disconnect` and of a cookie change are two values, `"live"` and `"null"`; the
connected flag is never lowered, as in the code.

### TieredCache

One key of `txCache`, the only cache used with a condition. A result is its kind
(`"null"`, `"refused"` or `"accepted"` by `shouldCacheTransaction`) and the moment
the node read it. Time is explicit, because what is promised is how old an answer
can be. Redis survives `Restart`; a SET may land late or never; a hit in redis is
not copied to memory; nothing coalesces two misses. Configurations with any subset
of the two tiers are initial states.

The process's redis client is closed, ready or without a connection. `RedisConnect` is the
first command: if it cannot connect, that request goes on to the node, but the client counts
as open from then on. Commands of a client without a connection wait in its queue;
`RedisHit` needs a connection, and a broken one (`ConnectionChanges`) need not come back.
`redisCache.js` sets no timeout for a command and no listener for the client's errors, so
nothing else ends that wait. What an error without a listener may do to the whole process is left out.

### UtxoSummary

A summary is the height at which the node computed it. Jobs are refreshes, page
views and API requests; all three run `getUtxoSetSummary` (`CacheHit`, `FileHit`,
`CallNode`, `Answer`, `AnswerEmpty`, `Fail`), but only the refresh ignores the file
and owns the flag, and only refresh and page ask
`shouldSkipUtxoSetSummaryFetch`. `Restart` forgets the globals and may leave half a
file. Cache expiry is an action that may happen at any time.

### MiningSummary

Builds push one task per uncached height on one shared queue, and go on at its
drain event (`callback`). `Summarise` runs the sums, the last status and the
handler's assignment, which the code does in one turn. The page polls, stops
polling at the first complete status, and fetches; a poll already sent may make it
fetch again.

### MempoolSummaries

Builds reload the global cache from its file, fetch what it lacks all at once, and
purge and save it at the end. `FetchSucceeds` writes into whichever object is global
at that moment. The page differs from the mining page: it keeps polling until a
fetched summary has a count. The ten-character cache key is taken to identify the
transaction. Ages, sizes, fee buckets and top lists are not modelled: the summary
is the set of transactions it aggregates.

### Handlers, BaseRoutes, ApiRoutes, AppRoutes and PageRequests

`Handlers` is a vocabulary for what an Express handler does to its request: it waits
for calls (`Settle`: together, naming those whose failure it feels; `Await`: one),
starts a promise nobody catches (`Uncaught`), may throw, and answers (`Page`, `Json`,
`Redirect`) or passes on (`PassOn`). A handler is its body followed by its catch
blocks, and `escape` says whether an exception behind the last of them reaches
Express's error page. `BaseRoutes`, `ApiRoutes` and `AppRoutes` write every handler of
`routes/` in these terms, one definition per route, with one variant per class of
inputs that takes another way. Here the order of calls, answers and `next()` is the
code and everything else is data.

`PageRequests` runs them: `Arrive` picks a route; `Authenticate`, `ParseBody`,
`RateLimit`, `LoadSession` and `CheckConnection` are the middleware in its order, each
with its own way to answer at once; `Dispatch` enters the handlers whose pattern
matches (`LaterMatches` lists the urls two routes match); the await actions let each
call succeed or fail; `Finish` is what a request meets when all handlers passed it on,
`ErrorPage` what an exception meets. `global.rpcConnected` may rise at any time.

### Sessions

A request reads a copy of the session when it comes in, and the copy is stored as a
whole before the answer leaves. `BeginHandler` is the middleware up to the handler
(defaults, redirect to the connect page, one-shot message), and other requests may
run between it and the end. The cookie outlives the store, which a restart empties.

### NodeStartup

`Tick` is the clock of the 30-second interval and of the RPC timeout;
`VerificationSucceeds` runs `onRpcConnectionVerified` up to its await and counts every
`setInterval` it reaches. `assessTxindexAvailability` is `IndexInfo`,
`KnownTransaction` (nodes without `getindexinfo`), `IndexInfoFails` and `RetryFires`.

### SavedTables

The IP table and the difficulty table, each with memory, flag and file. They differ
where the code does: the IP flag is lowered before the write is known to have
worked, the difficulty flag is never lowered, a failed IP save is logged and a failed
difficulty save ends the process, and the IP file is not loaded but removed at every
start, because it is assigned to a `const`. `Stop` may cut a write in half.

### ElectrumPool and XpubSearch

`electrumClients` is the array of the code, with a client in it once more after each
reconnect. `Ask` sends to everyone in the array in one turn, `Answer` lets a server
answer or fail, and the request resolves by the rule of its kind. `EndAddress` has
the comparison that never finds a conflict.

`XpubSearch` is the loop of `searchXpubTxids` with its three counters, one action per
way through its body (`EmptyPage`, `UsedPage`, `PageWithoutTxids`), and what an address
has is chosen when it is first asked for, so that all histories are covered.

### AddressHistory

One address whose history grows while it is read page by page: a client of
`/api/address` steps the offset itself (`AskAsClient`), a reader of `/address` follows
the links of the page (`OpenPage`, `TurnPage`). The pages are those of
`electrumAddressApi.js`, `blockchainAddressApi.js`, `blockchairAddressApi.js` and
`blockcypherAddressApi.js`, each with what it makes of sort, limit and offset; the
count that an ascending page of blockchain.com is computed from is asked for in a call
of its own, so the history may grow between the two.

### SsoToken

Tokens are numbers in the order of their making. The companion program reads the
token from the file at any time and logs in with it later, also after it was replaced.
`UpdateToken` writes a temporary file that replaces the token file; when that fails it
throws before the cookie is made, and may leave the temporary file behind. The process
may stop and start at any time.

### TransactionLookup and BlockPage

`TransactionLookup` is `getRawTransaction` for one transaction, followed by
`noTxIndexTransactionLookup`: each call is an action, may fail, and the chain grows in
between. The Electrum servers are asked first if they are configured (`app.js` 1132 makes
their API a global once they are connected; before, the attempt throws and is caught); the
block they name, right or wrong, is tried with a `getRawTransaction` of its own, which
searches the wallets too, and whose failure leads on to the wallets and the blocks.
`troubled` records that a call failed which could have found it. Left out: the genesis
coinbase, which is not asked of the node at all, and an answer that names no block.

`BlockPage` is `getBlockByHashWithTransactions`: the coinbase put in front of a later
page and dropped again, the index flag read when the inputs are asked for and again in
the catch block, and the outputs collected and matched back by `txid:n`. Initial
states are all small blocks without a double spend. When `getblock` or the lookup of the
coinbase fails, `getBlockByHash` of `rpcApi.js` takes the header with an empty list instead
(`headerOnly`); its first page then has nothing to ask for, and a later one asks for
`undefined`, which fails.

### BlockPrediction

The sorted list, the `while` and `for` loops of `buildPredictedBlocks` with one action
per way through the body, and the summary of each transaction as the cache has it. A
summary's size counts all ancestors, what it lists are the parents only (`depends`), and
those are what `AddTx` adds; an old one may count an ancestor that has left the mempool.

### Statistics

A value passes through `TrackValue`, `ProcessAndReset` and `TrackAppStats`, which
appends it, moves the maximum of the oldest points to the coarser series when there
are too many, and shortens both series.

### ChainArithmetic

The windows of `getTxStats` (point count, window size, the shortened window at the
genesis block) for every range of a chain that grows.

### Services and MCServices

The twelve parts from Sessions on share no variable with one another (and none with
the queue, the caches and the jobs above, which they see only as calls that succeed
or fail). A behaviour of `Services` runs one of them; the interleavings of two would
add nothing either could see. `Services` takes every size as a constant and names what
it assumes of them; `MCServices` gives them the sizes of the run.

## The runs

| Run | Instance | Shows |
|---|---|---|
| `rpc_queue` | 7 calls: two attempts (4 probes), one `gettxoutsetinfo`, two ordinary; 2 workers | no call lost or doubled; gate; statistics; timed calls settle; refinement of `RpcService` |
| `utxo_summary` | two refreshes, a page, an API request; 2 heights | no stale flag; summaries are real; refresh and page spare slow nodes; the flag clears |
| `tiered_cache` | two request slots used again and again, every delay 1, clock to 4 | bounded staleness; refused and null results always fresh; a request is answered, or waits in the queue of a redis client without a connection |
| `mining_summary` | ranges 1..2 and 2..3, 2 workers, 2 fetches | the drain covers a build's tasks; complete means stored; builds end; built is shown |
| `mempool_summaries` | 2 transactions, 2 builds | a summary is its own listing; progress is exact; builds end; built is shown |
| `page_requests` | every route, every class of inputs, every outcome of every call; a loop over two items stands for a longer one | nobody is answered twice; no false 404; all but eleven named handlers answer |
| `services` | the twelve parts of `Services`, see `MCServices.tla` for each one's bounds | the properties of Sessions, NodeStartup, SavedTables, ElectrumPool, SsoToken, AddressHistory, XpubSearch, TransactionLookup, BlockPage, BlockPrediction, Statistics, ChainArithmetic |
| `utxo_slow_device`, `utxo_pending_flag`, `mining_block_fails`, `mempool_empty`, `address_links` | the instances above | the disagreements below |

Why the bounds are enough to meet the interesting cases:

- Two workers are exhausted by one `gettxoutsetinfo` and any other call; a second
  attempt may start before the first is answered; the two ordinary calls can be
  made before, between and after.
- Two refreshes are the fewest that overlap on one flag; a page and an API request
  add the other two ways in. Two heights tell an old summary from a new one.
- The clock runs past the largest staleness, `RpcTimeout + RedisDelay + Ttl` = 3, so
  an entry that lived too long would be delivered. Two slots are enough for a
  late older answer to overwrite a newer one, and each slot is reused without bound.
- The ranges overlap in one height, so a build meets heights another one cached;
  four tasks on two workers make tasks of both builds wait and run together.
- With two transactions one may be cached while the other is fetched, fails or
  leaves; two builds are enough for one to reload or purge the other's cache.

- Requests of one browser: three, because a message set by the first is taken by the
  second and must not be seen by the third.
- The startup interval is six ticks to a timeout of one, the ratio of the default
  configuration; three attempts let two fail before one succeeds.
- One restart and two keys per table: one key saved, one added since. Three Electrum
  servers: two can outvote one, and one can close while two remain.
- A key search with a gap of two, pages of two and up to three transactions: pages
  that are empty, short, full, and full followed by short; used addresses before,
  inside and behind a gap.
- A lookup depth of two on a chain of up to four blocks: blocks that are searched and
  blocks that are not, while the chain grows past the search.
- Three transactions in three blocks of weight three: packages that fit, fit only in
  the next block, or never; chains of ancestors, of which only the parent comes along, and
  shared ancestors.
- Nine hand-overs for series of three and two: points are downsampled, and downsamples
  are dropped, more than once.
- Blocks of up to three transactions and pages of one and two: the first page, later
  pages, pages that start behind the end; two outputs of one transaction, and inputs
  beyond `txMaxInput`.
- Histories of up to five transactions in pages of one to three: last pages that are
  whole and that are not, histories that end within, at and behind a service's cap.
- Charts of up to nine points from every block of chains of up to forty, rounded and not.

What the bounds leave out: `XpubFindsAll` speaks of searches without a limit on
addresses, and only of those in which no address ends on a full page and every answer
has a list (see the observations below). `MessageShownOnce` and
`SessionAgreesWithCookie` speak of requests that do not overlap: overlapping ones may
break both, by the design of the session store.

Nothing is symmetric-reduced: symmetry is unsound with liveness.

`CHECK_DEADLOCK FALSE` is set for the mining runs, where each page is opened once and
nothing is left when all are shown or closed, and for the runs of `MCServices`, whose
parts end when their requests, attempts, tokens and blocks are used up.

### Fairness

- `RpcQueue`: async.queue starts a task whenever it has one and a free worker; the
  main client's timeout (`app/credentials.js` 50) ends every request it sends. There is no fairness for
  `gettxoutsetinfo` (no timeout), for callers, or for the operator.
- `UtxoSummary`: lookups go on, and the node answers in the end. This one is an
  assumption about the node, needed only for `PendingClears`: the code itself never gives up.
- `TieredCache`: an attempt to connect to redis ends, redis replies as long as there is a
  connection, and the RPC client times out. That there is a connection nothing guarantees, so
  `RequestsSettle` says where a request may be left waiting, and it is not assumed that a
  connection comes back.
- `MiningSummary`, `MempoolSummaries`: the event loop runs what is ready; the RPC
  timeout ends each call of a task; a page that stays open keeps polling. Closing a
  page, a failing call and eviction are never required.
- `PageRequests`: the event loop goes on and every call ends, by the RPC client's
  timeout. The routes that wait for `gettxoutsetinfo`, for the address APIs or for a
  file are assumed to get their answer; where the code makes a call that never
  settles, the handler says so (`Uncaught`) and the route is on the list of exceptions.
- `NodeStartup`: an index check ends, and its retry timer fires. Failures are bounded
  by `MaxErrors`: with a node that fails for ever nothing is promised.

## What is proved

Each theorem says of every behaviour of a module's specification, for every value of
its constants, what the run named in the third column checks on one instance.

| Theorem | Module | Run | Says |
|---|---|---|---|
| `QueueTypeOK`, `QueueLosesNoCall`, `QueueOnlyProbesUnverified`, `QueueStatsAgree` | `RpcQueueProofs` | `rpc_queue` | no call lost or doubled, the gate, the statistics, for any calls, attempts and workers |
| `QueueImplementsService` | `RpcQueueProofs` | `rpc_queue` | every behaviour of the queue is one of `RpcService` |
| `CacheTypeOK`, `StalenessIsBounded`, `UncacheableIsFresh` | `TieredCacheProofs` | `tiered_cache` | the cache's guarantees, for any requests, times and delays |
| `UtxoTypeOK`, `PendingIsNeverStale`, `OnlyRealSummaries`, `SlowNodeSpared` | `UtxoSummaryProofs` | `utxo_summary` | the shape of the state and the safety properties, for any jobs and blocks |
| `DrainCovers`, `StatusIsComplete` | `MiningSummaryProofs` | `mining_summary` | a build sums up only when none of its tasks is open; "all done" and a stored summary are the same |
| `SummariesAreOwnListings`, `ProgressIsCounted` | `MempoolSummariesProofs` | `mempool_summaries` | a summary is that of its own listing; progress is exact |
| `SessionIsKept`, `MessageOnce`, `SessionAgrees` | `ServicesProofs` | `services` | a message is shown once; session and cookie agree |
| `TokenSingleUse` | `ServicesProofs` | `services` | a token is used once |
| `TablesSaved` | `ServicesProofs` | `services` | what is not marked is in its file |
| `NodeVerifiedOnce` | `ServicesProofs` | `services` | no timer is set twice |
| `TransactionFound` | `ServicesProofs` | `services` | the lookup without an index finds what it covers, whatever Electrum servers say |
| `HashIsAgreed` | `ServicesProofs` | `services` | every connected server named the hash that is given out |
| `PageShowsBlock` | `ServicesProofs` | `services` | a page is of its block, each input with its output, or without transactions |
| `PredictionSound` | `ServicesProofs` | `services` | predicted blocks keep their weight, bring parents along and earlier ancestors before, and lose no transaction |
| `ChartsTile` | `SeriesProofs` | `services` | the windows of a chart leave out no block |
| `XpubSearchFindsAll` | `SeriesProofs` | `services` | every used address up to the gap is found |
| `HistoryFound` | `SeriesProofs` | `services` | pages add up to the history, once and in order |
| `ChartHidesNoPeak` | `SeriesProofs` | `services` | what a chart shows are peaks, in order, up to the newest hand-over |
| `ServicesTypeOK` | `ServicesProofs` | `services` | the shape of all parts' state: nothing outgrows what the code allows it |
| `AnsweredOnlyOnce`, `FoundUnlessXpub` | `PageRequestsProofs` | `page_requests` | nobody is answered twice; no false 404 |

`PageRequests` has no constants, so that its run is the whole model; what the proof adds
is the reason, a promise of every handler that a new route has to keep.

Assumptions are the named `ASSUME`s of the modules; TLC evaluates them on every run.
What a probe is, that there is at least one worker, that times and bounds are natural
numbers, that weights are natural numbers (`PredictionAssumption`) and that the mempool
is finite needs no reason. The others do:

- `TimeoutAssumption`: the client's timeout is shorter than the interval of the
  attempts. Both are configured; by default 5 and 30 seconds. Without it two
  attempts could wait at once and both be answered, and `NodeVerifiedOnce` would be false.
- `HistoryAssumption`: a client that steps the offset by the page asks for one
  transaction or more; a page of none would never end a history.
- `StatisticsAssumption`: the series keeps at least one point and a downsample stands
  for at least one. The coarser series may keep none: `appStats.js` then drops what it
  cuts.
- `PredictionAssumption` also asks for at least one block to predict; the code's loop
  ends with 20 (`coreApi.js:1942`), and one that may build none is not modelled.
- `OutputsAssumption`, `SettingsAssumption`, `RequestsAssumption`: an output is a pair,
  and the values that stand for "no message" and "no setting" are neither. They
  are about the model's data only.

The arguments:

- **Queue.** `NoCallLost` is what makes the invariant inductive: the head of the
  queue is a waiting call that no worker holds, so taking it neither doubles nor
  loses it. The refinement maps `inService` to `running`; every step is a step of
  the service or a stutter, the two probes of an attempt being accepted together.
  `AppendTwoToQueue`, `AppendToQueue` and `TailOfQueue` say what the operations do
  to the set of queued calls. For the statistics the invariant adds that only
  finitely many calls were resolved so far, without which they could not be counted.
- **Cache.** `BoundedStaleness` is about steps. The invariant `AgeInv` bounds how old
  each entry was when it was set, in memory, in redis and in every SET under way,
  and says that a request in flight is within its timeout. `Tick` keeps it because
  time does not pass a deadline (`WithinDeadlines`). "Refused" results are fresh
  because no tier holds one.
- **UTXO summary.** Two invariants carry everything. `RealInv` bounds each summary by
  the node's height, the file's too, because a restart leaves the file for the next
  lookup. `FlagInv` adds to `NoStalePending` that a refresh or page which is in its
  lookup may ask the node (`SpareInv`): knowledge of the index is only lost by a
  restart, which ends the job as well. `SlowNodeSpared` follows because the node is
  called from a lookup only.
- **Drain.** A task is open only while its build is in the loop or waits. At the last
  callback nothing is open at all, so all who wait may go on; at any other callback
  none of them does. That a build has no open task before it starts is part of the
  invariant.
- **Mining progress.** A height has three items. What a build counts as done is a set
  (`Items`): those of the heights the loop has passed, without what the height's open
  task has left (`CountIsExact`). So the status is below the total, which is one more
  than all items, until the step that stores the summary adds the last unit (`CountInv`).
- **Mempool.** What a build listed is partitioned into what it has, what it waits for
  and what failed. The shared cache does not occur in the invariant: a build takes
  from it only in the turn of its own listing, which is why no other build can
  disturb it. `ProgressInv` adds that the reported status is the count of its last turn.
- **Session.** While no two requests have overlapped, at most one is under way, its
  session is a copy of the stored one, and a message that was shown is neither in the
  store nor in a copy (`PostedInv`). The proof has one lemma per middleware.
- **Single sign-on.** Tokens are numbered as they are made. The accepted token, the one in
  the file and those still to be made are unused (`SsoInv`); a login uses a token
  only in the turn that replaces it.
- **Tables.** `TablesAreSaved` is inductive once it is known that a half-written file is read
  as an empty one (`TablesInv`).
- **Startup.** With a timeout shorter than the interval at most one attempt waits,
  because it ends before the next can start (`AttemptsInv`). Hence the first answer
  finds no blockchain chosen, later ones find one, and timers are set on the first only (`TimersInv`).
- **Transaction lookup.** As long as every call succeeds and the node lists its wallets,
  the search has passed only wallets and blocks that do not hold the transaction, and
  what it covers reaches `Depth` below every tip since it began (`LookupInv`). The attempt
  with a block that was named comes before all that and leaves nothing behind: however it
  ends without the transaction, all wallets are tried (again).
- **Electrum.** Every connected server is in the pool, so it is asked; removing a
  closed server leaves the others in; a request holds the pool as it was when it was
  made, and answers come back in that order (`ElectrumInv`, `RequestInv`).
- **Block page.** What is asked for is the page's range of the block, with the coinbase
  in front of a later page; inputs are resolved by outpoint, so that the order
  in which answers come does not matter (`PageInv`). Of a header nothing is asked for, or the
  undefined transaction, whose call never succeeds (`HeaderListed`).
- **Predicted blocks.** The weight of a set of transactions is a fold. The proof needs only that
  a union weighs no more than its parts together; this is proved by the least
  counterexample (`SumsOfParts`), as the induction theorems cannot be applied. The
  invariant `PackingInv` says of every closed block and of the open one that its
  transactions weigh no more than what was counted and have their parents with them;
  of every transaction that it is in a block exactly if it was added (`AddedIsPacked`);
  and of one that was not, that it is still on the list (`OthersAreLeft`). That an ancestor
  which is before its descendant in the list is in the same block or an earlier one needs
  `OrderInv`: the list keeps its order, and what the loop has passed without adding it did not
  fit, so that nothing which counts as much fits either (`FirstWeighsLess`).
- **The shape of the services' state.** Most of it the invariants above give. What they leave
  open has reasons of its own, beside them (`PartShapes`): a kind of addresses is asked for a
  page only while its gap is not found, so no gap passes the limit; a block is begun only while
  there is room for one; a slice of a history has nothing the history has not, wherever a
  service lets it begin, even before its start; a file holds keys of its table only, also
  when half of it was written.
- **Page requests.** Every handler of every route is shown to answer at most once and to pass on
  only what it has answered (`IsSound`): once for each shape of module `Handlers`, then one step
  per route. Two routes are apart: `/api/xyzpub`, whose catch block passes on nothing, and the
  one that rewrites the url of a transaction and answers nothing itself. A handler that `next()`
  leads to does nothing when there is an answer. `RequestInv` says what is left of
  a part: behind an answer, nothing but `next()`.
- **Chart windows.** A window starts where its neighbour ends: integer division, for
  every point count, with the window at the genesis block as a case of its own.
- **Key search.** What is counted as a gap is one, addresses that are done have all
  their transactions listed, and the search without a limit ends only when both kinds
  of addresses have their gap; a used address that was not looked at lies behind one (`XpubInv`).
- **Histories.** What was listed is what the pages so far cover, in the order that was
  asked for; the translation of sort, limit and offset is reduced for each service
  to one slice of the history (`HistoryInv`). That adjacent slices add up is a lemma on sequences.
- **Statistics.** A recent point is one hand-over, and they follow one another up to the
  newest. A downsample is the largest of its stretch of hand-overs, at a distance
  from its neighbours and from the points that the sizes determine (`SeriesInv`).
  Handing over, downsampling and both cuts keep that; what a chart shows follows from it.

Only model-checked: all liveness (`TimedCallsSettle`, `PendingClears`, `RequestsSettle`, `BuildsEnd`,
`BuiltIsShown`, `IndexIsAssessed`, `RequestsAreAnswered`). It rests on fairness and `ENABLED`,
which the proof system does not handle.

## Disagreements found

1. **Slow devices, API route** (`utxo_slow_device`). The maintainers' wiki says to
   skip `gettxoutsetinfo` when the index is unavailable. The refresh and the page do,
   `/api/blockchain/utxo-set` does not.
2. **Pending flag** (`utxo_pending_flag`). The flag is to tell "no details yet" from
   "not going to compute them". With two overlapping refreshes the first one to end
   without a summary lowers it while the other still computes.
3. **A failed block** (`mining_block_fails`). The catch block says "resolve anyway",
   but the sum over the range then reads the missing height and the build is
   rejected; the page polls for ever.
4. **An empty mempool** (`mempool_empty`). The final status, set to "make sure
   statusFunc knows it", is `{count: 0, done: 0}`; the page takes a status without a
   count for "not started yet" and never fetches the stored summary.
5. **Links of the address page** (`address_links`). The page calls its list "Newest
   First", and `baseRouter.js` 1563 puts `?sort=desc` into the base of its links so that
   they keep that order. The pagination mixin appends `?limit=10&offset=10`: the sort
   that comes back is `desc?limit=10`, which is not `desc`, and the limit is lost. Over
   Electrum the list then stays oldest first, so the second page of the newest-first
   history is the second page of the oldest-first one: of three transactions in pages
   of two, one is shown twice and one never.

Observed, but promised nowhere, hence not stated as violations: answers of
overlapping `gettxoutsetinfo` calls may arrive out of order, so heights can go back;
a summary read from the file enters the cache as if it were new, and a refresh may
be given it; an empty answer of a refresh replaces a good summary by null; a late
older answer replaces a newer one in the caches (the staleness bound holds
nevertheless); a failed build leaves its status in the store.

Found while reading, outside what the runs state:

- A node built without a wallet rejects `listwallets`, and the lookup without an index
  ends there, before the recent blocks that `README.md` 58 speaks of are searched
  (`rpcApi.js` 344; `TransactionIsFound` therefore assumes a node that lists wallets).
- `searchXpubTxids`: an address whose number of transactions is a multiple of the page
  is counted as an empty one when its last, empty page comes; the gap of 20 that
  `xyzpubApi.js` 153 names is then 19. Without a list of transactions (no address API)
  the loop over the pages never ends.
- `electrumAddressApi.js` 280: what is compared to notice conflicts is the wrapper of
  the answer, so that no conflict is ever reported.
- `redisCache.js` 20 and 47 say that an error of redis falls back to the next tier. That
  holds for the request whose attempt to connect fails; the client counts as open from then
  on, so the `GET` of the next request is queued in it, without a timeout, and `tryCache`
  waits for it as long as redis stays out of reach. `RequestsSettle` names that place: a
  request that is `Stranded`.
- `POST /connect` always throws: `bitcoinCore` is not defined.
- A header that was taken in place of a block stays in the block cache for fifteen minutes
  (`coreApi.js` 866), so the block is shown without transactions although the node gives it
  out again; behind its first page `undefined` is asked for (`coreApi.js` 1188).
- `buildPredictedBlocks` counts the weight of all ancestors of a transaction and adds its
  parents only: an ancestor that is further away and has a lower rate comes in a later
  block than its descendant, or in none (`PredictionIsSound` speaks of the others).
- The catch block of `getBlockByHashWithTransactions` says "report the error" and
  reports none.
- `getRawTransactionsByHeights` (`coreApi.js` 996) passes a block where a block hash
  belongs; `getRawTransaction`'s cache key leaves the block hash out.
- `docs/api.js` 66 promises the current supply or an estimate of it. `estimatedSupply`
  (`utils.js` 763) steps at multiples of the halving interval from 0 and takes each step
  at the reward of its first block: the first 1,054,080 blocks count 1 ROD each although
  998,520 of them issued 800, and every later era starts 55,560 blocks late. A checkpoint
  behind the pre-release would hide the first error; the configured one is at height 0.
- The next-halving estimate leaves the pre-release blocks out, so the subsidy it
  reports for the next halving (`docs/api.js` 76) is not half of the present one.
- `buildPredictedBlocks` adds a transaction's own fee to its ancestors' fees, which
  already include it, and divides by zero for the averages of an empty block.
- `appStats` drops one point after each downsample, between the two series.
- `getTxStats` with a start further back than the chain is long asks for heights below
  zero.
- `blockchainAddressApi.js`: unless the last page is whole or exactly half a page, in
  ascending order it is asked for with a wrong or negative offset, and a transaction
  that comes in between two pages moves them (`HistoryIsListed` makes an exception
  for both); an error path names an undefined variable. `/price/marketcap` throws
  without exchange rates.

## What is not modelled

- How long redis takes to reply is not part of the staleness bound: it adds to every
  hit. A write delayed by an outage is assumed to arrive within `RedisDelay` or to
  fail. `gettxoutsetinfo` has no timeout, so the bound is not about its key.
- Values that no property tells apart: transactions' contents, fees, miners' names,
  labels, buckets, wording, rendering, logging.
- The process is one event loop, as deployed; several explorers on one redis are
  not modelled.
- The shared `global.rpcClient.wallet` by which a wallet lookup chooses its wallet:
  overlapping lookups may ask each other's wallet. `TransactionLookup` follows one.
- Of the mempool summary its buckets and top lists, of a predicted block its averages,
  of the mining summary its sums by miner.
- Balances and amounts of an address, the error log and the performance log, rewards and
  the supply estimate (see the observation above), the time estimates of the next
  difficulty adjustment and the next halving, the next-block fee estimate, inflation
  behind the last era, coins other than this one.
- Reorganisations: nothing in the explorer reacts to one. What stays in the caches until
  it expires, or for ever in `miningSummaryCache`, is listed among the hazards.
- Not modelled at all: configuration and credentials (read once), views and assets,
  `bin/`, the wiki linter, the mock API. They have no state of interest after startup.

## The plan

Done, in order of importance: `RpcService`, `RpcQueue`; `UtxoSummary`; `TieredCache`;
`MiningSummary`; `MempoolSummaries`; proofs of the queue, the cache, the UTXO
summary, the drain and the mempool listing; then `PageRequests` with the routes,
`NodeStartup`, `Sessions`, `SavedTables`, `ElectrumPool`, `SsoToken`,
`AddressHistory`, `XpubSearch`,
`TransactionLookup`, `BlockPage`, `BlockPrediction`, `Statistics` and `ChainArithmetic`.

Then the proofs of the statistics, of the mining and mempool progress, of the page
requests, and of the safety properties and the shape of all parts of `Services`.

## How to run

In this directory: `tlc -workers 2 -config MCRpcQueue.cfg MCRpcQueue`, and likewise for
each row of `runs` in `PROJECT.json`, with the module and the configuration it names; `tlapm RpcQueueProofs.tla`, and likewise for each
module whose name ends in `Proofs`. The longest run takes about two minutes.
The definitions marked "Mutant:" in the modules are faulty variants of the definition
below them; `PROJECT.json` says which property each of them breaks.
