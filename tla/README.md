# A verification model of the EVM Data SDK

The SDK (`src/src/`) answers queries about EVM chains from several indexing providers and from archive RPC
endpoints. A client finds its keys and endpoints in a configuration and an environment, keeps pools of
them, retries and falls back between providers, scans block ranges window by window, reads prices from
contracts, and synchronises what it finds into a database that histories are replayed from. All of it runs
on one event loop, so there are no data races, but every `await` is a place where another call of the same
client may run, and the database is shared with other processes. The modules here model that control flow
in TLA+; TLC checks them on small instances, and TLAPS proves the results marked "proved" for every value
of the constants.

## Inventory

| component | state | operations | interacts with |
|---|---|---|---|
| `CredentialPool`, `CooldownTracker` | entries (leased, active token, disabled, two cooldown clocks), round-robin index | `acquire`, `report`, `reportByValue`, `restoreCooldownState`, `nextAvailableAt` | executor attempts lease; `ApiChainService` reports by value; a change hook writes rows; the client restores |
| `ProxyPool` | leases and cooldowns of proxies | `acquire`, `report` | executor, `ApiChainService` |
| `RetryPolicy` | none | `decide` | executor |
| `RequestExecutor` | provider health, last attempt of a provider; per call: candidate, attempt, leases, deadline | `execute` | both pools, router, adapters |
| `ProviderRouter`, `cursorCodec` | none | candidates of an operation; cursors | executor, caller |
| `BlockRangeScanner` | windows pending and completed, provider pin, records | `scan`, with or without `onWindow` | executor, caller's callback |
| `SyncService` | rows `sdk_sync_scopes`, `_windows`, `_runs`, fact tables | `update`, `recollect`, `resume`, `audit` | scanner (through the services), storage, replay jobs |
| `HistoryService` | `sdk_replay_jobs`, snapshots, current revision | replay with a lease, reads | storage, `SyncService` |
| `StorageAdapter` | the SQLite connection, the PostgreSQL pool | `initialize`, `close`, statements, `transaction` | everything that persists |
| `CooldownStore` | `sdk_cooldown_states` | `save`, `delete`, `loadAll` | pools, client |
| `ApiChainService` | context cache and requests in flight | candidate loops over providers and keys | pools (by value), adapters |
| `AddressService`, `TokenService` | none beyond a call | page loop of a range; hand-over | executor, scanner, chain service |
| adapters, transport | streams and keys of a complete read; throttle of Etherscan | one page, every page of a range; classes of errors | providers |
| `AlertService` | time of the last report | `checkAndReportAlerts` | pools, webhook |
| `EnvLoader`, configuration | none | discovery, merge, judgement | constructor |
| `EvmDataClient` | all of the above | construction, `initialize`, `restorePersistedCooldowns`, `close` | |
| `RpcService`, `ChainlinkService`, DeFi and Uniswap services | none beyond a call | batched multicalls, evaluation | the external pool of archive endpoints |

The hard behaviours, one by one with their lines, are the `hazards` of `PROJECT.json`: shared pools between
callers that follow different protocols, early exits that hold leases, claims that time out, cursors that
are read before an await and used after it, windows that split, streams that are merged, rows written in
any order, restarts. What makes a component correct:

- pool: one holder of a key; a rejected key stays out; a cooldown is neither shortened nor forgotten nor
  endless; rotation is fair; disk and memory agree.
- executor and chain service: leases come back; a call gives up only when nothing is left to try; only what
  is at fault rests; every call settles.
- scanner and paging: the windows tile the range; each row is delivered once; limits refuse only what exceeds them.
- sync and replay: one working claim; no gap below the cursor; one version of a block; updates catch up;
  snapshots are the fold of the facts.
- client: a cursor goes on with the query it came from; discovery only adds; whoever reads has a pool that
  is looked after; cooldowns survive restarts; lasting faults are told; a price does not depend on what else
  is asked for.

## Modules

| module | models | state and actions |
|---|---|---|
| `CredentialEntry` | an entry of the pool and its `CooldownTracker` | operators only: `IsUsable`, `Settle` (the body of `report`), `RecordFailure` (the ladder), `RestoreCooldownState` |
| `CredentialPool` | a pool and everyone who touches it | `Acquire`/`Report` of executor attempts, `ApiPick`/`ApiReport`/`ApiFail` of `ApiChainService`, `LoadRows`/`RestoreRows` of alert checks, `Restart`, `Tick` |
| `CredentialFairness` | the same with a history of who was passed over | |
| `RangeCoverage` | abstract: a range covered upwards without gap or overlap | `Cover`, `Return`, `Fail` |
| `BlockRangeScan` | `scan` | the loop's ways through one window: `RequestFails`, `SplitOrStall`, `RejectItems`, `Collect`, the callback, and the ways out |
| `RetryPolicy` | `decide` | operators, with the failures grouped by the decision they lead to (`Codes`) |
| `RequestExecutor` | concurrent `execute` calls over shared pools and provider health | per call, the code between two awaits: `Start`, `CheckHealth`, `TakeKey`/`LackKey`, `LeaveForRoute`, `TakeRoute`/`LackRoute`, `Answer`, `TimeOut`, `Abort` |
| `RequestShapes` | requests before and after `domain/operations.ts`, the chain registry, the identity of a query | operators: `Canonical`, `Resolve`, `QueryFingerprint` |
| `ProviderRouting` | candidates of a first page, the continuation of a cursor | `Refuse`, `Hand` (to another service), `Answer`, `LosePage`, `Take`, `SetUpAnew` (a client with another configuration) |
| `ErrorClasses` | transport and adapters: what an answer becomes, and what that does to key and proxy | operators |
| `ApiCandidates` | `ApiChainService` | `Begin`, `PassOver`, `TakeCandidate`, `NoRoute`, the reads of a transaction (`Ask`, `UseCache`, `JoinFlight`), the inner call (`AskBlock`, `BlockAnswered`), `Answer`, `Succeed`, `Fail` with the direct retry, `Abort` |
| `IndexedPages` | the adapters' listings, and `AddressService`'s loop over cursors | `FetchPage`/`FailPage` of a stream of a complete read, `ListPage` for a caller, `FollowCursor`/`FailCursor`/`StopScan` of the loop, `Abort` |
| `DurableDataset` | abstract: a dataset that begins once and only grows | `Open`, `Extend` |
| `SyncScope` | `update` and `recollect` over one scope row | `Plan` (before the claim), `ClaimRead`/`ClaimWrite` (its transaction), `Fetch`, `Commit`/`Stall`/`FailRun`, `RecollectFetch`/`RecollectCommit`, `Crash`, `Expire`, `Reorg` |
| `ReplayJobs` | `replay` and what a sync commit does to derived state | `Prepare` (the reads before the claim), `ClaimJob`/`ClaimBusy`, `ReadFacts`, `Publish` (the last transaction), `FailReplay`, `SyncCommit` with `Enqueue` and invalidation, `Crash`, `Expire`, `Reorg` |
| `ClientSetup` | `EnvLoader`, `parseClientConfiguration` and the wiring in the constructor | `Construct`; everything before it is operators named as in the code |
| `ClientUpkeep` | counts of failures in memory and on disk, `initialize`, restore, `close`, and `AlertService` | `Fail`/`Succeed`, `Land`/`Lose` (statements of PostgreSQL), `Initialize`, `OpenStorage`/`FailToOpen`, `LoadAll`, `RestorePersistedCooldowns`, `StartCheck`, `Skip`, `Send`, `Answered`, `Close`, `Tick`, `Restart` |
| `PriceReads` | Chainlink, DeFi, Uniswap V3 and V4, and ERC-20 views, over one batched multicall | `Begin`, the endpoint's `Connect`/`Reply`/`Break`/`Reorganize`/`Exhaust`, `Conclude` |
| `Absence` | the value of a field that is left out | |
| `Lists` | arrays that are filtered | operators: `Among` |
| `CredentialPoolProofs` (with `CredentialFairness`), `BlockRangeScanProofs`, `RequestExecutorProofs`, `ApiCandidatesProofs`, `SyncScopeProofs`, `ReplayJobsProofs`, `IndexedPagesProofs`, `ClientProofs` | theorems about the module of that name; `ClientProofs` about the four modules of a client: `ProviderRouting`, `ClientSetup`, `ClientUpkeep` and `PriceReads` | |
| `MC...` | constants for TLC; `MCClient` puts the four modules of a client side by side | |

`BlockRangeScan` refines `RangeCoverage` (property `ImplementsCoverage`, proved), and `SyncScope` refines
`DurableDataset` (`DatasetOnlyGrows`, proved). `CredentialFairness`
extends `CredentialPool`, `RequestExecutor` extends `RetryPolicy`, `ApiCandidates` extends `ErrorClasses`,
`ProviderRouting` extends `RequestShapes`. In `MCClient` the modules
`ProviderRouting`, `ClientSetup`, `ClientUpkeep` and `PriceReads` share no variable; `part` is chosen in the
first state and says which one moves, so the state space is their sum and not their product, and one run
serves all four. The definitions named as mutants are variants of the definition they precede, with a plausible
slip in it, and no behaviour uses them.

### What the models leave out

- **CredentialPool** Time is a counter. `AcquireTimes` is the clock, or a remaining budget where the
  executor passes one (`RequestExecutor.ts:361` gives the value of `ensureSignalAndDeadline` to `acquire`);
  the budgets are smaller than `Epoch`, as milliseconds of a deadline are smaller than those since 1970. A write to a row of
  `sdk_cooldown_states` is applied at once, which is so with SQLite; `ClientUpkeep` has the other order.
- **RequestExecutor** The pools give out any usable entry and cool down for one duration; order, tokens
  and ladder are `CredentialPool`'s. Pacing is not configured. Time passes only while every call waits,
  so a deadline is never met between two statements. One operation on one chain; each candidate has a pool
  of one key at least, which the client's constructor ensures. `Abortable` calls carry a signal.
- **BlockRangeScan** An entry has an identity (the log index or the adapter's key), a canonical transfer and
  a block. The executor's answer is any of: an error, an incomplete or malformed coverage, or the pinned
  provider's entries of the window.
- **ProviderRouting** A text is what it denotes and how it is spelt; the codec's encoding is the record
  itself. Which candidate answers is the executor's business, so any may.
- **ErrorClasses** The words of a message are the patterns they match.
- **ApiCandidates** One call per caller; a key or proxy that rests may come back at any time. A service's
  answer is drawn from the set of its scenario.
- **IndexedPages** Rows do not change while they are listed. Alchemy's index of internal transfers is listed in
  order (the code does not sort it); the properties compare sets.
- **SyncScope** A fetch is one instant, the commit transaction is atomic, every caller has a connection of
  its own, and an address has one transfer in a block. With SQLite `BEGIN IMMEDIATE` excludes other
  transactions; with PostgreSQL's default isolation the claim's read and write are two steps with other
  transactions between them. What a commit does to derived state is `ReplayJobs`'.
- **ReplayJobs** Transactions are serialised. The reads before the claim are one instant, and so are the three
  reads of the facts. A state of a user is the bag of rows it was folded from, with its opening; the
  arithmetic of `reduceFacts` is not modelled. Which block boundaries get a snapshot besides the last is left open
  (the code counts events and blocks). The ranges that busy calls and `enqueueReplay` merge into a job's row
  are left out, because no code reads them back except the status query. So is the status of rows that no
  longer run, and `heartbeat`, which asks for an owner that `replay` tells nobody. A recollect replaces; one
  that merges would leave the old rows as well.
- **ClientSetup** Numeric limits of policies appear as one comparison of two times; a URL is its parts, its
  scheme and its spelling. Of the schema's sizes only those of endpoint and proxy lists are modelled (`MaxListed`,
  64 in the code), because merging can exceed them.
- **ClientUpkeep** A cooldown is its count of failures, looked at up to the last tier. The endpoints'
  probes are evm-call's.
- **PriceReads** An answer is a few words; a pool's slot is a ratio of small integers, so ticks, square roots and
  the rendering of decimals are out. The executor and the pool of endpoints are evm-call's, modelled from
  how `RpcService` uses them: an endpoint that fails is left with all it has answered.

## What is checked

Passing runs:

| run | question | bounds, and why they are enough |
|---|---|---|
| `pool_executor` | types, ledger of leases, exclusive leases, lasting rejections and fair rotation while nobody reports by value | 2 keys, 2 attempts, 1 alert check: a late report needs the key to be in other hands, so two of each; the time lets a cooldown end and a key be rate limited again; 3 leases of a key make the rotation wrap |
| `pool_shared` | disk against memory, wake-ups, windows and leases with reports by value | 2 keys, 2 attempts, 2 API calls, 3 failures over a ladder of two rungs, so that the cap is reached |
| `scan` | tiling, bounded requests, exact result, delivered prefix, refinement, termination | 8 blocks split three deep, 6 windows, with and without a callback; two providers, one of them with an entry too many; a reorganised transaction, an entry without log index |
| `sync` | no gap below the cursor and updates that catch up, whatever happens to claims; a consistent cursor; one version of a block with one caller; exclusive claims and no older fact over a newer one, `Undisturbed`; refinement of the dataset that only grows | three scenarios: 1 caller with recollects and 2 reorganisations (before and after a window); 2 callers, both possibly slower than five minutes, on either database, with rewinds and a reorganisation |
| `replay` | one replay at work; snapshots that are the fold of the facts | 1 caller with every kind of request (resumed, opening, explicit start, explicit end, forced) and a reorganisation; 2 callers that take jobs over; 3 blocks: one for the opening, one to resume at, one beyond |
| `executor` | exclusive leases, no orphaned lease, giving up only at the last candidate, every call settles | 2 calls, 2 candidates, 2 attempts, 2 settings: two keys before one, a proxy and the direct route, one call a continuation; and one key each, two proxies, no direct route, one call with a signal; the clock runs long enough for a provider, a key and a proxy to cool down and come back within a call |
| `paging` | listings that are exact, limits that refuse only what exceeds them, reads that end | pages of 2 rows, limits of 4 rows; every index of up to 4 rows, each in, out or to oneself, and some of 5 and 6, so that the record limit is met, just met and passed; services that end exactly, late, or hand out keys for ever |
| `candidates` | fair blame, proxies that come back, calls that settle | 4 candidates of 3 providers, 1 proxy; one call with all 43 answers, two that share or do not share a hash, one with an inner call |
| `client` | see below | |

The run `client` asks of `ProviderRouting` that a page belongs to the query its listing began with and comes
from the same provider entry (`ContinuesWhatItBegan`), and that a cursor is refused for no other reason
(`SpellingIsFree`): 3 configurations, 26 requests that differ in one field or one spelling. Of `ClientSetup`
that what an env file holds only adds (`DiscoveryOnlyAdds`), and that whoever reads has an attended pool that
is not empty (`ReadersAreServed`): all combinations of features with built-in, listed, disabled and no
endpoints, 6 files, 2 process environments, and a limit of 4 listed endpoints (`MaxListed`), which some merged lists exceed. Of `ClientUpkeep` that the counts a client goes by are the
failures since the last success (`CooldownsSurviveRestarts`) and that a lasting fault is told
(`FaultsAreReported`): 2 resources that share a key, 2 overlapping checks, 2 restarts, both drivers. Of
`PriceReads` that a price in a batch is the price alone (`AloneAsTogether`): 23 questions over every reader,
batches of 4 calls, 2 endpoints that agree, differ, or have nothing.

`CHECK_DEADLOCK FALSE` everywhere: a scan returns, calls settle, idle callers may stay idle, and the
bounds on time, leases and reorganisations end a behaviour.

Fairness: the event loop resumes whatever can go on, so each continuation of a call has weak fairness
(`Proceed` of executor and chain service, the scan's step, `FetchPage`, `FollowCursor` and `StopScan`, `Work`, `RecollectCommit`);
a provider's answer counts as one because the transport has an
attempt timeout; time passes. Faults, aborts, starts of calls, a caller's next page and reorganisations have none.
`CatchesUp` supposes that a caller calls again after each result and that faults do not go on for ever;
`FaultsAreReported` that the application keeps checking, as the documentation has it do on a timer, and that
the webhook answers well infinitely often if it is asked infinitely often (the one strong fairness).

Runs that TLC shows violated, each a disagreement of code and documentation with its lines in `findings`:

- `executor_dead_key`: the executor asks the pools with the remaining budget for a time, so what once cooled down stays
  cooling. The proxies are asked in the same way.
- `executor_lost_key`: the way out of an attempt that moves on because every proxy cools down keeps the key.
- `pool_duplicate_lease`: a report by value ends another's lease, and the key is leased twice.

Three more configurations are kept to be run by hand (`tlc -config X.cfg M`) and end in a counterexample. No
document states the first two properties.

- `SyncScopeRecollectGap.cfg` (`MCSyncScope`): a recollect ahead of the cursor moves it over blocks that
  nobody fetched.
- `ReplayJobsLostOpening.cfg` (`MCReplayJobs`): a commit that rewinds deletes the pointer through which a
  stored opening is found; the next replay starts at block 0 without it and publishes that.
- `ApiCandidatesBlame.cfg` (`MCApiCandidates`): the proxy of a call rests because its inner call for the
  latest block found no route; FR-006 (`docs/SPEC.md:351`) wants a proxy to rest for its own failures.

The passing runs choose their constants around further ones. They are the models' conclusions, each from one
change to a configuration or a property, and worth a decision by the maintainers:

| change | then violated | because |
|---|---|---|
| `CredentialPoolExecutor`: `Budgets = {1}` | `NoKeyTwiceBeforeAnother` | asked with the remaining budget, the pool passes over what once cooled down |
| `CredentialPoolDuplicateLease`: check the other invariant | `RejectedStaysDisabled` | a rejection is dropped as stale when a report by value ended the lease |
| `CredentialPoolShared`: `Checks = {x1}` | `StoredMatchesMemory`, `WindowNeverShrinks` | an alert check that read the rows before a rate limit writes the older, shorter window over it |
| `SyncScope`: `ClaimExclusive` without `Undisturbed`, `Slow = {}` | `ClaimExclusive` | under PostgreSQL's default isolation two callers read the idle row before either writes |
| `SyncScope`: `ClaimExclusive` without `Undisturbed`, SQLite scenarios only | `ClaimExclusive` | a claim is taken over after five minutes while its run still works; the run then ends the other's claim |
| `SyncScope`: `OneVersionPerBlock` for two callers | `OneVersionPerBlock` | whether overlapped facts go is decided with the cursor read before the claim |
| `SyncScope`: `Starts = {0, 2}` for two callers | `PrefixPersisted`, `DatasetOnlyGrows` | a first call plans at block 2 before the row exists, and claims without comparing with the cursor again (`SyncService.ts:36-43` compares) |
| `SyncScope`: a start other than 0 | `CursorConsistent` | a scope that begins above block 0 has a next block and no last one |
| `SyncScope`: `WindowBlocks = 1` | `CatchesUp` | a window not larger than the overlap ends below the cursor and is refused, every time |
| `ReplayJobs`: `Again` from block 2 | `SnapshotsMatchFacts` | a replay with an explicit start over an opening folds the facts from that start, not those between |
| `ReplayJobs`: a second dataset | `SnapshotsMatchFacts` | the first window of a dataset invalidates nothing, though its facts lie below the other's snapshots |
| `ReplayJobs`: the invariant without `~raced` | `SnapshotsMatchFacts` | a replay publishes what it folded before a commit invalidated it |
| `ReplayJobs`: the invariant without `~lost` | `OneReplayAtWork` | a queued replay wipes the lease of the running one, and a second starts beside it |
| `RequestExecutorLostKey`: the setting with `allowDirect` and `abortable = {r1}` | `OnlyRejectedKeysAreLost` | a call aborted between the lease of its key and the call of its adapter keeps the key |
| `BlockRangeScan`: one log index in two blocks of an index | `ResultIsExact`, `DeliveredIsPrefix` | an identity is chain, transaction and log index without the block (`BlockRangeScanner.ts:188-191`), so whether the second is a duplicate depends on the windows |
| `IndexedPages`: `ListingIsExact` for Alchemy's transactions as well | `ListingIsExact` | a transaction to oneself is in both streams and may come on two pages |
| `IndexedPages`: `LimitsAreWideEnough` without its clause for holdings | `LimitsAreWideEnough` | 1,000 pages of 100 token holdings are exactly the 100,000 records that are allowed, but the page after them is refused (`EtherscanAdapter.ts:309-344`) |
| `ApiCandidates`: `BlameIsFair` without `~Entangled` | `BlameIsFair` | who joins a request reports its own key and proxy for the failure of the request's owner |
| `Client`: `ReadersAreServed` without the exception of `uniswapV4` | `ReadersAreServed` | its own pool is neither probed, restored nor watched |
| `Client`: `ListedFor` without the exception of discovered ids | `DiscoveryOnlyAdds` | a listed DeFi endpoint gives way to one of the same id that discovery gave to Chainlink |
| `Client`: a listed URL spelt otherwise than the file's | `DiscoveryOnlyAdds` | the merge compares URLs as written (`configuration.ts:856-879`), the judgement as meant (`:648-678`), so the whole configuration is refused |
| `Client`: `FoundIsClean` without its limits | `DiscoveryOnlyAdds` | the limit of 64 (`configuration.ts:380`) judges the merged list, so a full one is refused once a file adds to it |
| `Client`: a second attended pool with an endpoint of the same id | `CooldownsSurviveRestarts` | both pools write the row `rpc:<id>` (`EvmDataClient.ts:133`, `:344-366`), and the one's success deletes the other's count |
| `Client`: `CooldownsSurviveRestarts` without `murky` | `CooldownsSurviveRestarts` | statements of PostgreSQL land in any order, and a restore writes over what came meanwhile |

Smaller things the models met, without a run of their own: in `RequestExecutor` a call that finds its only
key leased by another settles with `AUTHENTICATION_FAILED` (`poolUnavailableFailure`), and no document says which
class contention has. One `http` RPC URL in an environment refuses the whole configuration. Endpoints are
numbered by the keys found, so a restart with other keys gives persisted rows to other endpoints. The
sentence of `README.md:147` that `useBuiltinArchiveRpcs: false` leaves only explicit endpoints does not
hold when the environment has keys, and `uniswapV3.rpcEndpoints` counts for nothing while Chainlink is enabled.
`getBlockNumberByTimestamp` says it needs `defi` or `chainlink`, but only DeFi's chains get an executor
(`EvmDataClient.ts:451`). Overlapping alert checks can send twice within an interval. A Uniswap V4 read gives
the price `"0"` as a success where the quote is no stablecoin, and one unknown token refuses the whole batch.

## What is proved

TLAPS proves the following for every value of the constants. The assumptions are those named in the modules,
which each run evaluates; a hypothesis of a theorem is named beside it, and the constants of the run that checks its
property satisfy it, so a theorem says of any number of keys, callers or blocks what the run shows for a few.
Where a hypothesis is missing, a row of the table above tells what then happens; several of those rows were found
because a proof attempt failed.

`CredentialPoolProofs`, for any number of keys, actors and budgets and any ladder:

- `TypeCorrect` (`TypeOK`) and `LedgerHolds` (`LeaseLedger`). Inductive together: a token in a hand is below the entry's
  next token, and two hands never hold the same token of a key; so whatever ends a lease, an entry is leased
  exactly while its active token is in a hand.
- `LeasesAreExclusive`, `RejectionsLast`: of `ExecutorSpec`, where nobody reports by value. There a held
  lease is always the active one of its key, which the ledger lacks (`ExecutorInv`): a report is never stale,
  so a rejection is never dropped, and a leased key is never usable.
- `LeasesAreNotRevoked`: from the ledger, step by step.
- `WakesAreUseful`: `nextAvailableAt` reads two clocks; `ClocksAgree` says that both, when they run, end at one instant.
- `RestartsResume` and `WindowsNeverShrink`, without alert checks (`Checks = {}`): a window on disk and in memory is one of the
  ladder (`DurableInv`), so a row read back restores the clock it was written from. The second needs that the rungs rise.
- `RotationIsFair`: asked with the clock (`Budgets = {}`). Whoever was passed over while usable lies ahead
  in the round of the one that was leased instead (`PassedAreBehind`), which is arithmetic modulo the number of keys.

`BlockRangeScanProofs`, for any range, limits and provider indexes:

- `LedgerAlwaysTiles`: each pending window starts where the one before it ends, the first where the completed ones
  end, and the last ends at `EndBlock`; splitting a window keeps it, because the halves meet.
- `ScanImplementsCoverage`: under the mapping of `next` to the end of the completed windows and of `status`
  to an outcome, each step is one of `RangeCoverage` or leaves it alone.
- `RequestsAreBounded`: the calls made are `2 * completed + pending + 2 * in hand - 1`, and windows are never more than
  `MaxRangeWindows`; so the splits of a scan cost at most `2 * MaxRangeWindows - 1` requests.
- `CheckpointsAreSafe`, `ResultsAreExact`: where an identity belongs to one block of an index (`OneBlockPerIdentity`), what was gathered
  or handed over is the pinned provider's index of the completed windows, each entry once (`DataInv`).

`RequestExecutorProofs`, for any calls, candidates, pools and settings; one invariant `ExecInv` (type, a call holds the leases its place
in the code implies, an attempt is left, and without a missing route or an abort a call goes on at once):

- `LeasesStayInUse`, `NoLeaseIsOrphaned`, and `FallsBackToTheLast` as an action property.

`SyncScopeProofs`, for any callers, blocks, windows and overlap, over crashes, expired claims and reorganisations:

- `NoDurableGap`, where callers of one scope begin at one block and recollects begin there too (`OneBeginning`). The property
  is not inductive: what a call will commit starts where it planned, before its claim. `GapInv` adds that no call
  at work starts above the cursor, which crashes, rewinds and take-overs keep.
- `DatasetNeverShrinks` (`DatasetOnlyGrows`), under the same `OneBeginning`: a claim that makes the row opens the dataset, a commit extends it
  (or opens it, for a first recollect), and every other step leaves it alone. A window deletes only blocks that
  it fetched again, so no block is without facts in between; `GapInv` after the step gives the prefix. The run checks this refinement, which implies
  `PrefixPersisted`; the invariant itself is checked by hand in `SyncScopeRecollectGap.cfg`, where it fails.
- `CursorFollowsTheLastBlock`, for starts at block 0.
- `ClaimsExclude` and `FactsOnlyAdvance`, where nobody recollects beside another call (`RecollectsAlone`): while `Undisturbed`, whoever is in a claim is
  alone in it and found the scope free, and what it fetched is no older than what it will replace (`ClaimInv`).
- `NoStaleVersions`, where recollects replace: a lone caller's window that replaces nothing lies above all facts (`VersionInv`).

`ReplayJobsProofs`, for any callers, requests, crashes, expired leases and reorganisations:

- `OneReplayAtATime`: until a lease is lost, whoever works holds the job's row with a live lease.
- `SnapshotsAreFolds`, with facts of one dataset and explicit starts that skip nothing after an opening (`OneDataset`, `StartsMeetOpenings`;
  `NoneIsApart` keeps the model value `None` from being a record). `FoldInv` follows a state from where it is published to where it is
  resumed: a base is a fold of the facts below it until a commit overtakes the replay, all states of a revision
  have one opening, and what a working replay has read is what is stored. A bag of rows is compared row by row, so no induction is needed.

`ApiCandidatesProofs`, for any services, keys, proxies, answers and callers:

- `ProxiesReturn`: a proxy is leased exactly while one task holds it, outer or inner, and an inner call runs only within its outer one (`RoutesInv`).
- `BlameIsDeserved`: where no two calls share a request (`~Entangled`, as in the property), each mark on a key or proxy was
  earned by a request that used it (`BlameInv`).

`IndexedPagesProofs`, for any page size, limits, providers, indexes and callers' signals:

- `ListingsAreExact` (`ListingIsExact`). `PagesInv` says at every instant what each stream has: the rows it holds are the
  first `key * PageSize` of its own view of the index, filtered; a stream that ended well holds all of it, and a stream that ended
  is not asked again. The merge of two streams is described by membership and not by what a recursion returns: each merged row is
  of a stream, once, and the outdated copies are the ones dropped, for which `JobsAssumption` says where Alchemy's index has them.
- `LimitsLeaveRoom` (`LimitsAreWideEnough`), from `RoomAssumption`: pages times page size exceed the record limit. The proof failed
  for token holdings, where they are equal (1,000 pages of 100, `EtherscanAdapter.ts:309`, against 100,000 records, `:338`): exactly as many
  rows as the limit are refused although the record limit lets them pass, which the property now names. It also failed for
  a stream that hands out its key twice in `AddressService`'s loop, where the model went on and the code ends; the model was wrong.

`ClientProofs`, for any callers' configurations, files, environments, built-in endpoints and limit, and any requests, pages, price
tables, questions and answers:

- `PagesStayTogether` and `SpellingNeverMatters`. The lemma they rest on is that two requests have one fingerprint exactly
  when they mean the same (`IdentityIsMeaning`).
- `PricesStandAlone` (`AloneAsTogether`). `PricesInv`: what was returned for the batches begun is what this one endpoint answers to each call
  of each batch, so the answers found by id are the endpoint's whatever the batches (`ManifestAssumption`, `QuestionAssumption` and
  `WorldAssumption` say which tables, questions and answers there are). The services' evaluations are not unfolded: they look up only the calls
  of the token, and a token's calls are asked for alone and together.
- `EveryReaderIsServed`: the pools follow from the configuration by the wiring alone (`MadeInv`), and a reader's pool is
  never empty because built-in endpoints or listed ones are required by the judgement. Pools share ids through recursive
  functions; the lemmas on them argue by the smallest place where they would fail.
- `DiscoveryKeepsWhatStands`, where callers write URLs as files do (`PlainlyListed`) and have one name for an endpoint (`OneNamePerEndpoint`;
  `NoneIsNoFeature` is about the model value). Merges keep what is listed in front and add only what meets nothing there; a configuration
  so merged is accepted again; and a pool serves an endpoint unless one before it has its id and another URL. The property
  also supposes that what was found is clean and fits the schema's limits (`FoundIsClean`).
- `CooldownsOutliveProcesses`, where no two attended pools share a row (`RowsOfTheirOwn`): outside `murky` resources, a row together
  with the statements under way, memory once it is restored, and what a restore has read are the failures since
  the last success (`CountsInv`).

Every invariant, action property and refinement that a passing run checks is stated by a theorem. Model-checked only is
what holds under fairness (`Settles` of scan and executor, `CatchesUp`, `CallsSettle`, `PagingEnds`, `FaultsAreReported`): liveness and
`ENABLED` are out of the prover's reach. The lists that recursive functions compute (`Among`, merges, pools) are reasoned about by the
smallest position where a claim would fail, since induction over data is out of reach as well.

## Not modelled

- The pacing of a provider (`RequestExecutor.ts:414`) and Etherscan's throttle (`EtherscanAdapter.ts:685`): they delay calls and
  change no outcome the models tell apart.
- The deadline that passes between two statements (`RequestExecutor.ts:242`): time stands still while a call
  can go on; the leases such a call would keep are those of `executor_lost_key`.
- Statements of others that join an open transaction on SQLite's one connection (`StorageAdapter.ts:94`).
- `audit`, the status queries, `heartbeat`, and the columns of runs and windows that no code reads back.
- The mapping of single answers to models, the redaction of messages, the formatting of decimals and of alerts, the tables of
  tokens and feeds, and the square roots of Uniswap: data that no control flow here depends on.
- Klines and prices of exchanges: the package token-price-sdk, to which `EvmDataClient` and `TokenService` hand
  requests over; and the archive RPC pool and its executor, the package evm-call, except as `PriceReads` and
  `ClientUpkeep` meet them.

## Plan

Next: a module of the transactions on SQLite's one connection, with the statements of others that join them
(`StorageAdapter.ts:94`); the pacing of the executor with the throttle, and a clock that may pass between two statements; an
abstract history that `ReplayJobs` refines as `SyncScope` does `DurableDataset`.
