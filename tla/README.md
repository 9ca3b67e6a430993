# TLA+ models of evm-sim-api

`evm-sim-api` simulates an EVM transaction before it is signed: a request goes
through an HTTP middleware chain, is executed by an archive node at the block
the caller chose (or the latest one), behind a Redis cache, is decoded into
asset changes, graded for risk, stored in Postgres and answered.  This
directory holds TLA+ models of the program, the TLC runs that check them, and
theorems with proofs that TLAPS checks.  Paths below are relative to `src/`.

## 1. Inventory

| Component | State | Operations | Meets others in |
|---|---|---|---|
| **ArchiveNodeFork**, **CallTracer** (`internal/repo/evm/fork.go`, `tracer.go`) | none of its own; the node's chain grows under it | `Simulate`: `eth_call`, `eth_estimateGas`, header, `debug_traceCall`, and sometimes `alchemy_simulateAssetChanges` | the node (RPC), one timeout for all calls |
| **SimulationCacheRepo** (`internal/repo/simulation_cache.go`) | Redis: a blob with a lifetime per key | `Simulate`: GET, on a miss the fork and a SET | all requests share Redis |
| **EVMTokenDecoder** (`internal/repo/evm/token_decoder.go`) | `tokenCache`, a Go map without a lock | `Decode`, `lookupToken` | all requests share one decoder (`cmd/app/main.go:99`) |
| **PlanRateLimiter** (`internal/controller/http/plan_rate_limiter.go`) | a package-level map of limiters under an RWMutex; a counter per plan and owner | the middleware, `getPlanMiddleware` | all requests share the map |
| **Middleware and handlers** (`internal/controller/http/*.go`) | counters per address | CORS, rate limit, API key, plan limit; `Simulate`, `GetSimulation`, `ListSimulations` | call the use case and the key repository |
| **SimulationUseCase** (`internal/usecase/simulation.go`) | none | `Run`: fork, decode, analyze, save; `GetByID`, `List` | calls the four ports |
| **SimulationPostgresRepo**, **APIKeyPostgresRepo** (`internal/repo/*_postgres.go`) | tables `simulations`, `api_keys` | `Save`, `GetByID`, `ListByAPIKey`, `Validate` | all requests share the tables |
| **SimulationLoggingRepo** (`internal/repo/simulation_logging.go`) | none | logs and passes on | wraps the cache |
| **DefaultRiskAnalyzer** (`internal/usecase/risk_analyzer.go`) | none | seven pure checks | called by the use case |
| **Lifecycle** (`cmd/app/main.go`) | where `main` is; the server, the pool, the Redis client; the signal channel | startup, serving, shutdown | owns Redis, the pool and the server that all requests use |
| **Configuration, logger, entities** | none after startup | | |
| `evm/revert_docker.go` | none | nothing calls it | |

What makes each of them hard, and correct:

* **Fork and cache.**  The chain grows between the calls of one simulation; the
  timeout may expire between any two; the client may go away; two calls may miss
  the same key and write in the other order; Redis fails, expires and evicts.
  Right is: who pins a block is answered with that block's state, whoever filled
  the cache; an entry never outlives its kind; a reply has one consistent order of
  evaluation; every call ends.
* **Decoding and risk rules.**  One execution is reported in up to four forms: a
  call tree with logs, a call tree alone, Alchemy's list, or nothing.  Frames fail
  inside frames, values are repeated, approvals travel as changes.  Right is: what
  is shown adds up to what the execution did to balances, human amounts read back,
  and the level says what is grave however the node reports it.
* **Lifecycle.**  Signals at any moment, a Shutdown with a timeout, deferred closes,
  and requests with timeouts of their own.  Right is: no handler is cut off before
  its grace is over, the process ends in bounded time, and an answer comes too late
  only for time its request has spent outside the fork, which has a timeout of its own.
* **Token decoder.**  Unsynchronised reads and writes of one map; metadata filled
  in by two calls that fail separately; a `decimals()` that does not fit a byte.
  Right is: nobody's amounts are shown in another token's unit, both sides of a
  transfer are in one unit, no delta gets lost or is shown twice, `Decode` ends.
* **Plan limiter.**  Double-checked creation under an RWMutex.  Right is: the map
  is never written beside another access, a plan has one counter, an account is
  held to its quota exactly, no request waits for ever.
* **API.**  Early returns, swallowed errors, a context that is cancelled half way,
  rows that are read while others are written.  Right is: what is refused leaves
  nothing behind, everyone who sees a simulation sees the same one, what has been
  answered can be asked for at once, a database error does not fail a simulation,
  every request is answered.

The list `hazards` in `PROJECT.json` places each of these at its line, with the
properties that would catch it going wrong.

## 2. Modules

| Module | Models | Uses |
|---|---|---|
| `ArchiveFork` | `ArchiveNodeFork.Simulate` call by call, with the node and the context | |
| `SimCache` | `SimulationCacheRepo` around it: GET, miss, SET, lifetimes | extends `ArchiveFork`, instance of `MemoisedFork` |
| `MemoisedFork` | *abstract*: what the use case may expect of a fork that remembers | |
| `PlanRateLimiter` | the limiter with its lock, map and stores | instance of `PlanQuota` |
| `PlanQuota` | *abstract*: a quota per account, used one by one and renewed | |
| `TokenCache` | `Decode`'s loop over deltas, and `lookupToken` with its data race | |
| `Evm` | *external*: an execution, and what callTracer records of it | |
| `AssetChanges` | `Decode`, `extractNativeChanges`, `collectLogs`, `convertAlchemyChanges`, `formatAmount` as operators | |
| `RiskRules` | `Analyze` with its seven checks, `deriveRiskLevel` | |
| `SimulationRun` | `SimulationUseCase.Run` on what a node tells of one execution | extends `Evm`, `AssetChanges`, `RiskRules` |
| `Lifecycle` | `main` from configuration to exit, its server, and the requests it serves | |
| `SimulationApi` | middleware, handlers, use case, repositories | instance of `PlanQuota`; takes the fork as `MemoisedFork` describes it, an answer or an error, and the flags as any set |
| `SimCacheProofs`, `PlanRateLimiterProofs`, `TokenCacheProofs`, `SimulationRunProofs`, `LifecycleProofs`, `SimulationApiProofs` | theorems and proofs | extend their module |
| `SumLemmas` | lemmas: what a sum over a finite set is, and that a number is the sum of its decimal digits | |
| `LedgerProofs` | theorems about what `SimulationRun` shows of amounts | extends `SimulationRunProofs`, `SumLemmas` |
| `MCSimCache`, `MCPlanRateLimiter`, `MCTokenCache`, `MCSimulationRun`, `MCLifecycle`, `MCSimulationApi` | small instances for TLC | extend their module |

The three models of one simulation divide it among them: `ArchiveFork` asks *when*
each part is computed and takes its content as given, `SimulationRun` asks what is
made of the content and takes all parts from one block, and `TokenCache` asks what
concurrent Decodes do to the token metadata, which `SimulationRun` takes as known.

Every definition that translates code has an entry in `map` of `PROJECT.json`
with the lines it stands for.  Definitions whose comment begins with "Bug:" are
not part of any specification: each is a mutated form of the definition that
follows it, used to see that a property notices the bug.

### ArchiveFork and SimCache

A `Call` is a goroutine inside `SimulationCacheRepo.Simulate`.  `pc[c]` is the
call it makes next; `raw[c]` is its `RawSimResult`; `ctx[c]` is the context: live,
expired (the fork's own timeout, `fork.go:57`) or cancelled (the client has gone).

The main abstraction: *what* a node call answers is replaced by *where* it was
evaluated.  Each part of `raw` is a block number, or `NoAnswer` for an error.  The
EVM is deterministic, so equal blocks stand for equal answers, and the properties
ask whether parts of one reply belong together.  Whether the EVM reverts is the
constant `Reverting`, by transaction, gas limit and block; `Success` is
`callErr == nil`, as in the code, for which a revert and a lost call are the same.

| Code | Action |
|---|---|
| `simulation_cache.go:52-59` GET | `CacheHit`, `CacheMiss` (absent, unreadable, or Redis away) |
| `fork.go:60-75` calldata is not hex | `DecodeFails` |
| `fork.go:92` | `EthCall` |
| `fork.go:95` | `EstimateGas` (takes no block, and fails where the transaction reverts) |
| `fork.go:102-108` | `ResolveBlock` |
| `fork.go:111`, `tracer.go` | `TraceCall`, with the decision of `fork.go:114` |
| `fork.go:118` | `AlchemySimulate` (always at the head) |
| `simulation_cache.go:68-77` SET | `CacheSet`, `CacheSetFails` (only logged) |
| `context.WithTimeout`, client gone | `Expire`, `HangUp` |
| outside | `Mine`, `Tick` (a second in Redis), `Evict` |

A pinned block that the node does not have yet answers with an error until it is
mined.  `Redis` keeps one entry per key; a lifetime of 0 or less is no expiry, as
in go-redis.

### PlanRateLimiter

`RLock`, `Lookup` (read of the map and `RUnlock` on both branches),
`LockAnnounce` and `LockAcquire` (the two halves of `RWMutex.Lock`: a waiting
writer keeps new readers out, and then waits for the old ones), `Create` (second
look, new store if needed, `Unlock`), `Count` (increment, then compare, atomic in
the memory store), `Bypass` for enterprise.  The store names are model values
because the code tells stores apart only by identity.  The mutex and the memory
store are library code, modelled from how they are used.

### TokenCache

A `Call` is one `Decode`.  `deltas[c]` is the set of keys of the Go map that the
logs have filled, and never changes; `todo[c]` is what the loop has not taken of it
yet, in any order, as Go iterates maps.  A map access is two steps
(`Lookup` then `Hit` or `Miss`; `Store` then `Stored`), so that two can overlap.
An overlap with a write is undefined in Go; the model takes what the runtime does
with it: it may end the process (`FatalError`, the "concurrent map" error, which
`recover` does not catch), a read may miss an entry, a write may get lost.
`FetchSymbol` and `FetchDecimals` fail separately and leave the default
(`UNKNOWN`, 18) behind; the number of decimals is reduced modulo 256, as
`uint8(...)` does.

### Evm, AssetChanges, RiskRules and SimulationRun

`Evm` builds an execution step by step: frames are entered (CALL, DELEGATECALL,
SELFDESTRUCT), emit events, return or fail.  It keeps two records of it: `frames`,
which is what `debug_traceCall` returns, and `journal`, which is what has happened
and has not been taken back by a failing frame.  The program sees the first one
only; the properties compare its answer with the second.  The tree is kept as a
sequence in the order frames are entered, with the index of the frame around each
one, so that a walk over the tree is a quantifier or a sum.  Amounts are small
numbers; topics and data of logs are read already (`kind`, `from`, `to`,
`amount`).  An NFT's `Transfer` has the topic of a coin's and no data, hence the
amount 0 and a delta that is dropped.

`Run(tracing, alchemy)` is the whole of `SimulationUseCase.Run` up to `Save`, for a
node that traces with logs, without logs or not at all, and that does or does not
know `alchemy_simulateAssetChanges`:

| Code | Definition |
|---|---|
| `tracer.go:96-121`, `203-216` | `TraceCall`, `CollectLogs` |
| `fork.go:114-141`, `145-206` | `Simulated`, `ConvertAlchemyChanges` |
| `usecase/simulation.go:38-70` | `AssetChangesOf` |
| `token_decoder.go:54-157`, `160-200` | `Decode`, `ExtractNativeChanges` |
| `token_decoder.go:269-287`, `asset_change.go:59-74` | `FormatAmount`, `NormaliseHumanAmount`, on a sign, a whole number and digits |
| `risk_analyzer.go:28-223` | `Analyze` and one operator per check |
| `simulation_postgres.go:110-122` | `DeriveRiskLevel` |

Changes and flags are sets, since the code fills its lists from Go maps in any
order; a change carries the place of the event it stands for, so that two equal
approvals stay two.  For the same reason `CollectLogs` gives the logs by their place
in the tree (frame, and position among its logs): nothing acts on the order in which
`collectLogs` appends them, and what it collects can then be proved about without
induction over the tree.

A number of decimals is cut to a byte wherever the code does it (`Uint8`): in the
token metadata (`CoinUnit`), and in `convertAlchemyChanges` (`fork.go:169`), which cuts
the decimals only and passes Alchemy's amount on.

### Lifecycle

`main` walks through `cmd/app/main.go` statement by statement; every step of the
startup may end the process by `must`.  `server` is the goroutine of
`ListenAndServe`, which may fail at any time (`log.Fatal`).  A signal kills the
process before `Notify` and afterwards goes to a channel with room for one.
`Receive` begins Shutdown by closing the listener; `Drain` is its polling, its
timeout and the second call of `main.go:137`, which has the same expired context;
`CloseRedis`, `ClosePool` and `Return` are the deferred calls, the pool's waiting
for connections in use.

A request is reduced to where it is and how long it has been there: validating its
key (`auth`), reading its body, GET, the fork, SET, looking up tokens, in a query.
A hit goes around fork and SET; a Redis client that has been closed fails at once.
`Limit` is what each stage may take, and `Over` adds the body, whose deadline is
`ReadTimeout` after the request began; `Tick` lets time pass unless something is due.
Two clocks run for a request: `forked` under the fork's timeout, and `outside` for all
the rest that counts for `WriteTimeout`.  `Write` happens when the handler returns and
is lost when the two together have reached `WriteTimeout` since the header was read.
A connection that has been accepted and has sent nothing is spared by Shutdown for
`Fresh` (5 seconds in net/http), and dropped afterwards.

### SimulationApi

A `Call` is one HTTP request; the UUID of the simulation it makes is the call
itself.  `pc` walks the chain in the order `router.go` registers it.  Each
handler action has one disjunct per outcome of the code.  Every query may fail,
and fails for sure after the client has gone, since it runs under the request's
context.  A result is reduced to what the handlers and the repository act on:
success, the severities of its flags, and whether it has a call trace.

What a request's body leads to is part of it: not JSON, a bad number, calldata
that is not hex, a token whose name makes `decodeStringReturn` panic
(`token_decoder.go:255`: `64+strLen` wraps around; `Recovery` answers 500), and a
result that the table never takes (a block beyond `BIGINT`, a NUL in `JSONB`).

## 3. Runs

| Run | Instance | Shows |
|---|---|---|
| `sim_cache` | 2 calls; transactions `transfer` and `garbled` (not hex); blocks 1, 2 (mined during the run) and latest; lifetimes 0 and 2 s | `CacheInv`, `ReplyInv`, `PinnedReplies`, `LatestPartsAdvance`, `AlchemyIsLastResort`, `Memoised`: the decorator implements `MemoisedFork`, and `EveryCallEnds` |
| `cached_verdict` *(violation)* | 1 pinned call | an `eth_call` that fails for any reason is cached as the block's result |
| `gas_limit` *(violation)* | 2 calls that differ in the gas limit | the second one may be shown the first one's outcome |
| `plan_rate_limiter` | 3 requests, 3 plan names (one not in `planLimits`), enterprise, no plan, no owner, limits 1 and 2 | `LimiterInv`, `MapExclusive`, `OneStorePerPlan`, `QuotaIsKept` (implements `PlanQuota`), `EveryRequestDecided` |
| `token_cache` | 2 Decodes, 2 tokens between 2 addresses, one token with `decimals()` = 258 and no name | `TokenInv`, `MetaIsOfItsToken`, `SameUnit`, `OneChangePerDelta`, `EveryDecodeEnds` |
| `decoder_crash` *(violation)* | 2 Decodes of one token | the process may end |
| `simulation_run` | a user, a coin, a pool that issues NFTs; up to 4 frames and events; value 0, 0.6 and 1.6 ETH around the threshold of 1 | `RunInv`, `NativeIsBalanceChange`, `CoinChangesAddUp`, `HumanAmountsReadBack`, `GraveIsCritical`, `CriticalHasReason`, `ReentryIsFlagged`, `ItemLossIsFlagged`, `HighLossIsFlagged` |
| `native_changes` *(violation)* | the same, up to 3 frames and events | value that was not transferred is shown as transferred |
| `lifecycle` | 2 requests, at most one token each, 2 signals; the fork 1 unit, Shutdown and `ReadTimeout` 2, `WriteTimeout` 3, all else 1 | `LifecycleInv` with bounds on every request's two clocks, `HandlersHaveTheirGrace`, `StopsInTime`, `AnswersInTime`, `SignalEndsProcess` |
| `simulation_api` | 2 requests of every kind, address and plan limits of 1, one renewed window, one revoked key | `ApiInv`, `RefusedLeavesNothing`, `RepliesAgree`, `DBErrorNeverFailsCaller`, `AnswerIsReadable`, `PlansAreCharged` (implements `PlanQuota`), `EveryCallAnswered` |
| `list_history` *(violation)* | simulate, get, list | a customer's history is always empty |
| `not_found` *(violation)* | simulate, get, list | an unknown id is answered with 500 |

### Why these bounds

* Two calls: what happens between calls goes through Redis, one entry at a time,
  or through the decoder's map, where the hazard is two accesses at once.  The
  inductive invariants speak of one call or one entry at a time, and the theorems
  below remove the bound from the properties they cover.
* Three requests in the limiter: a reader inside, a writer that waits and a second
  one that finds the map filled need three.
* `MaxHead` = 2 from a head of 1: one block is mined between any two calls.
* A lifetime of 2 for the latest block has an entry that is young, old and gone; 0
  for pinned blocks is the default configuration, "no expiry".
* Four frames and events: a frame inside a frame inside a frame with an event, a
  contract that is entered again through another one, a failing frame with a
  sibling that does not, an approval beside a movement of the same coin.  1 ETH is
  100 wei and a coin has 100 units: amounts of 5 (a fraction with a zero in front),
  10^8 (a million coins, the threshold of a warning) and twice that, which
  stands for 2^256-1; two large transfers reach it.
* In `lifecycle` the margin of `WriteTimeout` is 2 units and so is `ReadTimeout`, while
  key, GET, SET, one lookup and the INSERT take up to 1 each: answers are late for a
  slow body alone, for several short steps together, and in time after a slow fork.
  Shutdown waits for 2, less than a whole request may take, so that it both drains
  and gives up.
  Two signals: the second one finds the channel empty or filled.
* `IpLimit` 1, `PlanLimit` 1, `MaxRenewals` 1: the second request is refused,
  unless a window ends between the two.  `MaxRevoked` 1: each key may go.
* Two moves of tokens per run of `token_cache`: the same token twice, two tokens,
  and a transfer beside a swap of both, which shares one token.

No run uses symmetry, since nearly all check liveness.  `CHECK_DEADLOCK FALSE` stands in all
configurations because a run ends when all requests have been answered, the
execution has been reported or the process has ended; that
requests do not get stuck before is what the liveness properties say.

### Fairness

* `SimCache`: a goroutine that can go on is scheduled, so GET, SET and calls under
  an expired or cancelled context return; the timeout of `fork.go:57` expires.
  The node is *not* assumed to answer: a live call may wait until the timeout.
  Redis calls return because go-redis has read and write timeouts of its own.
* `TokenCache`: goroutines run; the three seconds of `token_decoder.go:212` pass;
  then calls under that context return.  The node need not answer.
* `PlanRateLimiter`: every goroutine that can run is scheduled.  No window need
  end.
* `Lifecycle`: `main` goes on when it can once it has reached Notify, handlers return
  within their limits, and time passes.  Nobody need connect, send anything or
  signal; startup need not succeed.  That Postgres answers within `QueryTime` is an
  assumption; so is that Redis answers within `RedisTime`, which stands for go-redis'
  own timeouts and all its retries, since nothing in `main` bounds them.
* `SimulationRun` states safety only and needs none.
* `SimulationApi`: every goroutine that can run is scheduled.  That the fork and
  the decoder return is `EveryCallEnds` and `EveryDecodeEnds`; that Postgres
  answers or the connection breaks is an assumption on the environment, since the
  pool's queries have no timeout besides the request's context.

## 4. Proofs

`tlapm` proves the following for every value of the constants.  The assumptions
are the named `ASSUME`s of the modules, which TLC also evaluates.

| Theorem | Says |
|---|---|
| `SimCacheProofs!TypeCorrect` | `Spec => []TypeOK` |
| `SimCacheProofs!CacheCorrect` | `Spec => []CacheInv` |
| `SimCacheProofs!RepliesPinned` | `Spec => []PinnedReplies` |
| `SimCacheProofs!RepliesInOrder` | `Spec => []ReplyInv` |
| `SimCacheProofs!PartsAdvance` | `Spec => []LatestPartsAdvance` |
| `SimCacheProofs!AlchemyComesLast` | `Spec => []AlchemyIsLastResort` |
| `SimCacheProofs!CacheImplementsMemo` | `Spec => Memoised` |
| `PlanRateLimiterProofs!LimiterCorrect` | `Spec => []LimiterInv` |
| `PlanRateLimiterProofs!MapIsExclusive` | `Spec => []MapExclusive` |
| `PlanRateLimiterProofs!PlansHaveOneStore` | `Spec => []OneStorePerPlan` |
| `PlanRateLimiterProofs!LimiterImplementsQuota` | `Spec => QuotaIsKept` |
| `TokenCacheProofs!TokensCorrect` | `Spec => []TokenInv` |
| `TokenCacheProofs!MetaNeverMixed` | `Spec => []MetaIsOfItsToken` |
| `TokenCacheProofs!DeltasConvertedOnce` | `Spec => []OneChangePerDelta` |
| `TokenCacheProofs!UnitsAgree` | `Spec => []SameUnit` |
| `SimulationRunProofs!RunCorrect` | `Spec => []RunInv` |
| `SimulationRunProofs!GraveMakesCritical` | `Spec => []GraveIsCritical` |
| `SimulationRunProofs!CriticalNeedsReason` | `Spec => []CriticalHasReason` |
| `SimulationRunProofs!ReentryFlagged` | `Spec => []ReentryIsFlagged` |
| `SimulationRunProofs!ItemLossFlagged` | `Spec => []ItemLossIsFlagged` |
| `LedgerProofs!BooksBalance` | `Spec => []BooksInv` |
| `LedgerProofs!NativeShownRight` | `Spec => []NativeIsBalanceChange` |
| `LedgerProofs!CoinChangesRight` | `Spec => []CoinChangesAddUp` |
| `LedgerProofs!HighLossFlagged` | `Spec => []HighLossIsFlagged` |
| `LedgerProofs!HumanAmountsRight` | `Spec => []HumanAmountsReadBack` |
| `LifecycleProofs!TypeCorrect` | `Spec => []TypeOK` |
| `LifecycleProofs!LifecycleCorrect` | `Spec => []LifecycleInv` |
| `LifecycleProofs!LateOutsideTheFork` | `Spec => []AnswersInTime` |
| `LifecycleProofs!GraceIsKept` | `Spec => []HandlersHaveTheirGrace` |
| `LifecycleProofs!ShutdownIsBounded` | `Spec => []StopsInTime` |
| `SimulationApiProofs!TypeCorrect` | `Spec => []TypeOK` |
| `SimulationApiProofs!ApiCorrect` | `Spec => []ApiInv` |
| `SimulationApiProofs!NothingLeft` | `Spec => []RefusedLeavesNothing` |
| `SimulationApiProofs!RepliesAreTheResult` | `Spec => []RepliesAgree` |
| `SimulationApiProofs!CallersSurviveTheDatabase` | `Spec => []DBErrorNeverFailsCaller` |
| `SimulationApiProofs!AnswersAreReadable` | `Spec => AnswerIsReadable` |
| `SimulationApiProofs!ChainImplementsQuota` | `Spec => PlansAreCharged` |

**The cache** (`RequestAssumption`, `NodeAssumption`, `TTLAssumption`).
`PinnedReplies` says something of finished calls only, and a hit finishes a call
with an entry that anybody may have written: it is not inductive.  `CacheInv` adds
what a call has gathered half way (`GatheredAtBlock`) and what every entry of
Redis holds for its key (`EntryOK`).  The bounds on `left` in `EntryOK` are for
the refinement, whose memory keeps ages in place of remaining times.
`ReplyInv` is the same idea for the two properties of answers for the latest block: a
finished answer may come out of Redis, so every entry has them too (`AnswerOK`); the
parts that a call has not come to yet are empty (`NotYet`), so that the next one, at
the head, cannot be older than those before it; and a call that is at Alchemy has
passed the test of `fork.go:114`.  In these proofs the chain grows without a bound
other than `MaxHead`.

**The limiter** (`PlanAssumption`, `CallerAssumption`, `StoreAssumption`).
`LimiterInv` ties the lock to the program counters (`LockInv`), the map to the
limits and to what requests have taken out of it (`MapInv`), and says that a store
no plan shows has counted nothing (`CountInv`): without that, the quota seen
through the refinement mapping would jump when a store appears.  In the refinement
`Create` is a stutter, `Count` is `Admit` or `Refuse`, and `WindowEnds` is
`Renew` or a stutter.

**The decoder** (`TokenAssumption`).  `TokenInv` says which delta a call is at
(`DeltaInv`), that every delta is pending, current or converted (`OneChangePerDelta`,
which compares them with `deltas`, so that one that is dropped on the way would be
missed), that what is being filled in and what the map holds belongs to its
token (`MetaInv`), and, for `SameUnit`, that where nobody else has filled the map
it agrees with all changes made so far (`AloneInv`).  Data races are among the
steps.

**One simulation** (`EvmAssumption`, `DecimalsAssumption`, `RiskAssumption`;
executions of any length, `MaxSteps` being any number).  The program sees the call
tree, the properties speak of the journal, so everything rests on how the two agree.
`LogsAreJournal` says that the logs of all frames are exactly the events that no
revert has taken back.  By itself it is not inductive: a revert cuts the journal at a
mark and empties the logs of all frames from a certain one on, and nothing says that
these are the same events.  `SameSide` does: an entry of the journal and the frame
that has its log were there before a running frame began, or both came after, for
every frame on the stack.  `StackInv` orders the stack.  `AnswerInv` then says what an
answer is made of, whatever the node's plan: no logs or all of them, no call tree or
the whole, Alchemy's list only beside no logs and of a success.  From there
`GraveIsCritical` and `ItemLossIsFlagged` follow an event from the journal through
`CollectLogs` or Alchemy's list, the asset changes and the check to the flag and the
level; `ReentryIsFlagged` needs the call tree only.  `CriticalHasReason` goes the
other way, from a critical flag back to the change, log or frame it is about
(`CriticalFlags`) and from a change of `MaxUint256` to the event it comes from
(`WhereMaxComesFrom`).  That way the code raises three false alarms, which `FalseAlarm`
names one by one and section 6 explains; `Grave` has none of them, so that
`GraveIsCritical` asks nothing of a revoked operator or a reverted SELFDESTRUCT, and
each of the three is reached by the instance.  What is left for the property to say is
that nothing else makes a level critical: no other event that a revert has taken back,
nothing the node has not told, and no number of warnings.

**The sums of a simulation** (the same assumptions; the lemmas on sums and digits are
in `SumLemmas`).  What is shown of ETH and of coins is a sum over the call tree or
the logs; what has happened is a sum over the journal.  `BooksInv` ties the two
together while the execution still runs.  The *books* of the first `k` frames have one
entry for the value each frame carries and one for each of its logs (`Booked`,
`Entry`).  A *weighing* is any function from events to integers.  `Ledger` says that
under every weighing the journal and the books come to the same, now and back at the
point where each running frame began; the second half is what a revert needs, which
cuts the journal at that point.  The books keep the value of a frame that has failed,
or that only repeats a value (DELEGATECALL), and the journal does not: that is finding
4.  So a weighing that looks at value fits only a `PlainTree`, without such frames.
`NestInv` adds that what was entered since a running frame began is inside it, so that
the books lose exactly what a revert takes back; `NftInv` that an NFT's `Transfer`
weighs nothing, so that it may stand among the logs of coins; `LogsTold` that an answer
has all logs or none.

Each property then is one weighing.  `NetWeight("native", ...)` turns the books into
what `extractNativeChanges` walks and the journal into the change of a balance, which
gives `NativeShownRight`, and `HighLossFlagged` from it; `NetWeight("transfer", ...)`
and `ApprovalWeight` do the same for `Decode`'s deltas and approvals
(`CoinChangesRight`).  For Alchemy's list no books are needed: each item shows two
sides (`ItemSides`), and the sides of an address come to what its events do to it
(`SidesSum`).  `HumanAmountsRight` is about one amount: `Digits` writes as many digits
as the number has (`DigitsShape`), padding makes them the digits of the fraction at
its full width (`PaddedDigits`), trimming takes zeros only (`Trimmed`), and the digits
that are left, each times its power of ten, come to the fraction (`DigitsSum`).

Sums and powers of ten are recursive, and the library's induction theorems have an
operator for a parameter, which the provers cannot instantiate.  `SumLemmas` proves
induction in terms of sets: a set of numbers that has 0, and with each number the next,
is the set of all (`NumberInduction`), and in the same way for the subsets of a
finite set (`SubsetInduction`).  That is enough to show that the recursive definitions
have solutions (`SolutionExists`, `PowersExist`) and what they compute.

**The process** (`TimeAssumption`).  `TimeInv` ties the two clocks of a request to its
stage: what the stages behind it may have taken outside the fork (`Before`), what is
spent of this one, and what it all may come to (`Overhead`).  `AnswersInTime` follows:
`Write` compares the sum of the clocks with the simulation's timeout and the margin,
and `forked` alone is never over that timeout, so the margin has been spent outside.
`ShutdownInv` says where `main` can be while the server is open or closed, that the
time of Shutdown is spent in `drain`, and that after it only queries in progress keep
the pool.  The proofs first reduce the many steps of the startup to one (`Prepare`),
which touches no request and no clock.

**The API** (`ApiAssumption`).  `ApiInv` says what is true of a call at each station of
the chain (`CallInv`: it has an identity from authentication on, no result before the
decoder, no answer before the end), that every row is the row of a call that has
its result, that a simulation which has been answered is in the table or had its query
fail, and that what anybody has been shown is such a result.  `AnswersAreReadable` needs
that Save comes before the answer and that an id has one row (`OneRowOfEach`).  The
theorems take any number of calls of any kind, any limits and any keys.  `InfoOf(k) # NoInfo` is the
assumption that no key in the table belongs to the owner who stands for "not
authenticated": `NoInfo` is the absence of the value `api_key_middleware.go` puts in
the context, and `api_keys.owner_id` is never NULL (`migrations/001`).
`ChainImplementsQuota` is the refinement of the limiter again, now through the whole
chain: only the step at "plan" is `Admit` or `Refuse`, only `Renew` is `Renew`, and
every other step of every handler stutters.

**Only model-checked.**

* Liveness is out of the prover's reach: `EveryCallEnds`, `EveryRequestDecided`,
  `EveryDecodeEnds`, `EveryCallAnswered`, `SignalEndsProcess`.

Every invariant, action property and refinement that a passing run checks has a
theorem.

## 5. Findings

Each has a run that TLC finds violated.

1. **Failures are cached as verdicts** (`cached_verdict`, `fork.go:129`).  The
   fork returns no error when `eth_call` fails, so an RPC error, a timeout or a
   block that does not exist yet is kept, for pinned blocks without expiry, as
   a failed simulation of that block.
2. **The gas limit is not in the cache key** (`gas_limit`,
   `simulation_cache.go:84`).
3. **Unsynchronised map** (`decoder_crash`, `token_decoder.go:239`): the Go
   runtime may end the process, which `Recovery` cannot prevent.
4. **Value that was never transferred** (`native_changes`, `token_decoder.go:165`):
   `extractNativeChanges` sums the value of failed frames, of frames inside them,
   and of DELEGATECALL frames, which repeat the value of the frame around them.
   The sender of a transaction that fails is shown to have paid, and may be warned
   of it.  `NativeIsBalanceChange` shows that the sums are right for a call tree
   without such frames (`PlainTree`), and for Alchemy's list; of a tree with them it
   says nothing.
5. **History is empty** (`list_history`, `simulation_postgres.go:39`): the INSERT
   does not fill `api_key`, and the list selects by it, with the owner's id.
6. **Unknown id is a 500** (`not_found`, `simulation_postgres.go:69`); the API
   documentation says 404.

## 6. What a reader should know besides

* For the latest block, the parts of one answer may come from different blocks.
  `LatestPartsAdvance` shows that they never go back, not that they agree.
* The gas estimate and Alchemy's asset changes come from the head even when the
  caller pins a block.  `PinnedReplies` leaves these two parts out; it would be
  false with them.
* Two Decodes that fill the map together may show the two sides of one transfer
  in different units, since the first side uses the goroutine's own value and
  the second one what the map holds by then.  `SameUnit` therefore speaks of a
  call that shares the map with nobody.
* A half-filled entry of the token map is kept until the process ends.
* A late SET may overwrite a newer entry for the latest block, with a whole new
  lifetime.  `MemoisedFork` allows that: it promises an answer not older than its
  lifetime since it was written.
* `StateOverrides` are part of the cache key and are never sent to the node.
  `Decode` never returns an error, so the use case's `DECODE_ERROR` is
  unreachable; `CacheHit` in the result is never set.
* The roadmap (`README.md:245`) gives the pro plan 1000 requests per minute;
  `plan_rate_limiter.go:16` gives it 200.
* Two Decodes that miss the same token both ask the node for it, in spite of the
  comment at `token_decoder.go:203`; the model has this behaviour.
* On the log path an approval is shown as an `erc20` change of its spender, in base
  units; on Alchemy's path it is shown like a transfer, taken from the owner, because
  `convertAlchemyChanges` does not look at `changeType`.  `CoinChangesAddUp` says
  both, and nothing else disturbs the sums.
* `checkAlchemyApprovals` reads every ERC-20 change as an approval, so that a
  movement of a million coins is warned of as a large one, and an unlimited
  approval is flagged twice there (the set of flags in the model has it once).
  A transfer of exactly 2^256-1 would be flagged as an approval.
* `README.md:193` has HIGH_NATIVE_TRANSFER for what the sender sends;
  `checkHighNativeTransfer` takes the absolute value and flags what it receives, too.
  With Alchemy's list it compares item by item, so that several small losses are not
  added.
* Three false alarms are critical (`FalseAlarm`).  Movements of a coin that come to
  exactly 2^256-1 for somebody, which are taken for an unlimited approval.
  `ApprovalForAll(operator, false)`, which takes an approval back: `README.md:191` has
  SET_APPROVAL_FOR_ALL for `setApprovalForAll(operator, true)`, and
  `risk_analyzer.go:119-136` does not look at the log's data.  A SELFDESTRUCT inside a
  frame that failed: `risk_analyzer.go:200-213` does not look at errors.
* `fork.go:169` cuts Alchemy's number of decimals to a byte and passes its amount on:
  from 256 decimals on the two no longer agree.  `HumanAmountsReadBack` speaks of
  fewer on that path; on the path of logs the amount is written in the decimals that
  are left, and always reads back.
* NFT transfers never show on the log path.  An ERC-1155 item of Alchemy is dropped.
* The ABI branch of `decodeRevertReason` needs return data that `CallContract` does
  not hand out with an error.
* A signal before `Notify`, or an error of `ListenAndServe`, ends the process
  without any deferred close, running requests included.  After Shutdown's timeout
  handlers go on while Redis and the pool are closed; what they still ask of the
  pool fails, and only queries in progress are waited for.
* `WriteTimeout` adds 10 seconds to the simulation's timeout, and much is to fit in
  there: validating the key, the body, which a client may send for up to `ReadTimeout`,
  15 seconds (`main.go:115`), after the request began, Redis twice
  (`simulation_cache.go:52`, `72`), lookups of 3 seconds each, one INSERT.  After a
  simulation that has used its timeout, a slow body alone or four slow lookups make its
  answer too late.
  `AnswersInTime` says that nothing but the time spent there does: a slow node, whose
  timeout is the fork's, never costs an answer by itself.
* A panic in `decodeStringReturn` costs the caller a 500 after the fork's work is
  done; a row that Postgres refuses costs nobody anything, and is not logged.
* `main.go:137-143` calls `Shutdown` a second time after a failure, and logs "server
  stopped cleanly" whether or not it worked.

## 7. Not modelled

* **Conversions that nothing acts on**: `gasWithBuffer`, `hexToUint64`, `clampInt`,
  `decodeRevertReason`'s text, the JSON form of `BigIntString`, `DecodedLog`s.
* **Configuration and logger**: reading is one step of `Lifecycle`; the values are
  constants here.
* Hex and addresses: an address or an amount that a node sends malformed.  The
  models take what the node sends as well formed.
* RequestLogger and `/swagger` change no state.
* LIMIT and OFFSET of the list, and `rows.Err()`, which `ListByAPIKey` does not ask
  for after its loop: its query finds no rows at all (finding 5).
* `revert_docker.go`: dead code.

## 8. Plan

Done, in the order of importance: `ArchiveFork`, `SimCache` with `MemoisedFork`
and its proofs; `PlanRateLimiter` with `PlanQuota` and its proofs; `TokenCache`
and its proofs; `SimulationApi` with `PlanQuota`; `Evm`, `AssetChanges`,
`RiskRules` and `SimulationRun`; `Lifecycle`.

All invariants, refinements and action properties of all passing runs have theorems;
what is left to TLC is liveness.

What could still be added: that a promise of `MemoisedFork` itself, such as that no
answer in its memory is older than its lifetime, follows from its steps and so carries
over to `SimCache`.
