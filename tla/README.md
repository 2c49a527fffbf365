# Verification of dota2-analysis

TLA+ models of both services of the repository, TLC runs that check them on small
instances, and TLAPS proofs, for every instance, of the safety properties that hold in the runs.
Paths below are relative to the repository; `ingestion` is
`go-ingestion/internal`.

## 1. The system

`go-ingestion` brings Dota 2 matches into Postgres with a chain of small
processes that talk through Redis; `go-analysis` turns them into features,
trains models and serves draft recommendations; `go-core` holds what both share.

| Part | State it keeps | Operations | What is hard |
|---|---|---|---|
| stream queue (`ingestion/queue/redisstreams`) | stream, consumer group, PEL, DLQ stream, ZSET of delayed retries | Publish, Subscribe (Pop, PopPending, handlers), Ack, Retry, routeDLQ, RecoverStale, matureAsyncRetries | crashes between commands, lost replies, trimming, claims from slow workers |
| circuit breaker (`ingestion/resilience`, `worker/ingester/resilient.go`) | state, two counters, a timer channel | Allow, RecordFailure, RecordSuccess, timer | lock-free code shared by 20 goroutines |
| discoverer (`worker/discovery`, `cmd/discoverer`) | stored lists; a ticker per cycle | Scheduler.Run, RunOnce: list, Redis filter, DB filter, publish or upsert | partial failure, stale filters, overlapping runs |
| fetcher (`worker/fetcher`) | payload store | fetch, Put, Publish | redelivery, drops |
| parser and ingester (`worker/parser`, `worker/ingester`, `storage/matchstore/matchpg`, `dedup/redisseen`) | matches and player rows, seen set | Get, decode, IngestMatch, MarkSeen, Delete | commit before mark, old payload after a new one, self-healing |
| proxy pool (`ingestion/proxy`) | ZSETs of proxies, leases, cooldown; stats | Acquire, Release, Mark*, Replace, Add, cooldown recovery | lease expiry, late reports on removed proxies |
| HTTP doer (`proxy/httpdo`) | client cache | Do over several proxies | eviction of a client in use, error classes |
| proxy loader (`proxy/loader`, `cmd/proxyloader`) | none | validate in chunks, Add, Replace | concurrent with leases |
| dead-letter tool (`ingestion/dlq`) | guard keys | List, Replay, Purge | crash between guard and XADD |
| enrichment (`ingestion/enrich`) | gate keys | dependency order, critical sources, gate | abort half way |
| migrator (`go-core/migrator`) | schema_migrations, advisory lock | Run | two starting at once, crash between migrations |
| draft domain (`go-analysis/internal/domain`, `worker/parser/decode_draft.go`) | none | phase tables, validation | boundaries |
| recommender and API (`go-analysis/internal/recommend`, `scoring`, `api`) | atomic model pointer | Recommend, Reload | reload between features and scoring |
| featurizer (`go-analysis/internal/featurize`) | materialized views, launch key | RefreshAll, snapshot | readiness before data |
| backtester (`go-analysis/internal/eval`, `cmd/backtester`) | counts per phase | Replay | limits, what was known at a pick |
| reference stores (`ingestion/storage`) | tables | upserts of whole lists | foreign keys, failures half way |
| clients, metrics, configuration, training | | I/O, floating point | not modelled |

How they interact: discoverer → `dota2:fetch` → fetcher → payload store and
`dota2:parse` → parser → circuit breaker → ingester → Postgres, then the seen
set, which the next discoverer sweep reads. All HTTP goes through the doer and
its proxy pool. Dead letters return through the dead-letter tool. The enricher
fills the tables that the ingested rows refer to. featurizer → launch key → API
and backtester; trainer → model directory → SIGHUP → API.

## 2. Plan

Done: the core (`StreamQueue` with `Delivery`, `CircuitBreaker`, `Pipeline`,
`ProxyPool`, each with its proofs) and the parts around it (`HttpDoer`,
`DeadLetter`, `Migrator`, `EnrichRunner`, `IngestTx`, `Discoverer`, `MatchDecode`,
`DraftRules`, `DraftState`, `Simulate`, `Backtest`, `Serving`), which `MCPlatform`
puts into one run. Every safety property of a passing run has its theorem.

Still worth a module: the in-memory queue and proxy pool, if they are
ever used outside of tests.

## 3. Modules

### StreamQueue, Delivery

`StreamQueue` is one stream with its group, dead letters and delayed retries.
Entries are numbered in the order XADD adds them; `msgOf`, `retries`, `present`
are the stream, `cursor` and `owner` the group (last-delivered id and PEL),
`dlq`, `delayed` the other keys; `phase`, `batch`, `running`, `broken` are where
each worker's `Subscribe` loop is, what it has read and which handlers run.
One action is one Redis command or Lua script with the Go code around it:
`Pop`/`PopPending` (XREADGROUP `>`/`0`), `Dispatch`/`BatchDone`
(`processTasks`), `Succeed`/`Fail` (`processOne` with `Ack` or `Retry`, which
goes to `RouteDLQ`, `Requeue` or `ScheduleAsyncRetry`), `RecoverStale`
(XAUTOCLAIM), `MatureRead/Add/Remove`. Failures are actions of their own: a lost
reply (`PopReplyLost`), a lost Ack or Retry, a crash; an XADD of the delayed retries'
pipeline that Redis refuses, after which ZREM runs all the same (`MatureAddRefused`),
or a pipeline that breaks off (`MatureAborted`). MAXLEN `~` may drop any
prefix that leaves MaxLen entries. The handler is its result; back-off times are
left out, backpressure is a free choice of the batch size.

`Delivery` is the promise per message: unsent, waiting, then done, dead or lost. A
message that was handled and whose acknowledgement was lost is "again": PopPending
hands it out once more, until an acknowledgement comes through or its entry is
trimmed. `StreamQueue` implements it under the mapping `Fate`.

### CircuitBreaker

Each action is one atomic operation or one critical section; `pc` says where a
goroutine is. A timer goroutine whose channel was closed may still fire when
both cases of its `select` are ready. The load/compare-and-swap loop that
decrements `failures` is one atomic step. `Allow` and what follows it are the
calls of `ResilientIngester.Ingest`.

### Pipeline

Discoverer sweeps, fetchers and parsers around the two queues, the payload
store, the seen set and the tables. The queues are sequences of tasks, with what
`StreamQueue` establishes about them: order, retries up to MaxRetries then a dead
letter, redelivery after a crash. A match is reduced to whether upstream has
parsed its replay; unusable matches are `Invalid` (dropped) or `Poison` (an
error on every try). Every error path of `RunOnce`, `handleMessage` and `Ingest`
is an action that spends one of `MaxFaults`.

### ProxyPool

The pool's Redis keys (`set`, `leased`, `stats`, `cooldown`), the workers that
lease a proxy (`doWithLease`), the loader and the cooldown recovery. One action
is one script, transaction or command: `Acquire`, `MarkSuccess`/`MarkFailure`,
`Release`; `LoadChunk` (probe a chunk, `Add`), `ReplaceRead`,
`ReplaceReadCooldown`, `Replace`; `RecoverRead`, `RecoverCheck` and then the
pipeline's three commands one by one, since it is not a transaction. Time is
whole seconds, the unit of the scripts, counted down: `leased` and `cooldown`
hold what is left, `left` and `key` the lease key of a worker, which goes some
time in its last second. `MaxLag` is the number of seconds that may pass between
`time.Now()` in Go and the script. `robbed` is history: workers whose entry in
`leased` was taken by the release of an earlier lease in its last `MaxLag` seconds.
The recovery's `EXISTS` and the `ZREM` of a forgotten proxy are steps of their own,
and so is an error reply to one command of its pipeline (`RecoverRefused`). Left
out: scores (acquire.lua picks at random among the best, and its windows of 400
candidates hold any small pool), the limit of 50 proxies per recovery, the rate limiter (off by default).

### HttpDoer

`Do` of `httpdo.Doer` for several callers that share it: `Begin`, then per attempt
`Acquire`, `GetClient` (cache hit, eviction of the head of `accessOrder`, insert,
refusal of a proxy), `Request` with its classes of answers and the verdict on the
proxy, `Release`, `Decide` (surface, retry at once, back off) and `Exhausted`; the
direct request; `EvictIdleEntries`, `Close`, and a context that ends at any point.
`transports` and `accessOrder` are the cache; `Without` is what the two loops over
`accessOrder` leave of it.

### DeadLetter

`cmd/dlq` command by command: two operators read a batch (`XREVRANGE`), set guard
keys, run the Lua script that copies and deletes, or purge; any command may fail,
lose its reply or be the last of a killed operator; guard keys expire. `copies`
counts what a letter became.

### Migrator

The two migrator binaries on one database, from images of different age:
connection, advisory lock, what is applied, one transaction per migration.

### EnrichRunner

The enricher's start (proxies, Postgres, local files), its cycles, `runOne` with
the gate, and the sources of `buildSources` as what they depend on and which
tables they write; foreign keys make an upsert fail whose rows are missing.
`SortByDependencies` is the depth-first sort, step by step (`Search`): the calls of
`visit` that are to be made or returned from are a stack. `Strings` is what sources
and tables may be called.

### IngestTx

`Store.IngestMatch` statement by statement, in several transactions at once: hero
stubs with their row locks and deadlocks, the root row's lock, tables that keep
their first rows, are updated, or are deleted and inserted, the draft check,
Postgres' aborted state, commit and its failure, redelivery. A payload says which
tables it has rows for: a statement with an empty list returns at once and touches
nothing. A row is named by the transaction that wrote it.

### Discoverer

`Scheduler.Run`: first runs one after another, then a ticker per cycle whose tick
is dropped while a run lasts; fetch and upsert of a list, failures, empty answers,
the panic without dedup set, crash and restart. Below that, as operators, the way of the match
cycle from the explorer's rows to tasks (`parseMatchRefs`, `UnknownIDs`,
`QueueCandidates`).

### MatchDecode, DraftRules, DraftState

`MatchDecode`: operators from a payload to rows (`isMatchParsed`, `validate`,
`expandTimeseries` with its int16, events) and from rows to the stored match
(`upsertMatchRoot` with COALESCE, `Replace` of events, `Overwrite` of advantages and
cosmetics, without COALESCE); one column stands for those treated alike. Its
action `HandleMessage` takes any payload of the match, again and again; `held` is
what Postgres has. `DraftRules`, operators: the three patterns, `ValidateDraft`, `DetectDraftEra`,
`AssignPhases`, `PhaseNames`, `CMPhaseTable`, `DerivePhaseTable`. `DraftState`: what
a recommendation is asked with, legal heroes, features that count picks.

### Simulate, Backtest

`Simulate`: `SimulateDraft` slot by slot; a request for no heroes becomes one for
five, the scores are any function of slot and hero (`ScoreOf`), the recommender may
fail. `Backtest`: `eval.Replay` row by row, with the roster query, the query of the
rows, which may fail, the limit, the derived phase tables and the counts. The metrics
per phase that are computed from the counts at the end are left out.

### Serving

Featurizer (`RefreshMV` view by view, `SetLaunchKey`, `SnapshotPlayerHero`), API
(`WaitForLaunchKey`; `WireBuilder` or, for another kind of scorer, `WireLinear`;
`LoadModel` file by file: `ReadSpec`, `ReadBin`, `LoadFails`; `WireValue` and the
same three for the value model; `StartWatching` in its goroutine, `Reload`), trainer
(`Publish`, then for each of the two models `RemoveDirectory`, where current is no link
yet, and `SwapLink`; then SIGHUP, which ends a process that is not watching) and
requests (`Build`, `Score`, `ScoreValue`, `Answer`); both processes crash and restart.
A feature definition is a name and its source, which stands for dtype and hash: the
builder's are those of the binary, a model's those of its spec.json. A scorer carries
the publications that its spec.json and its model.bin are of; it is `Torn` when they
differ. meta.json, which is read between them and decides nothing, is left out, as is
an operator who copies files by hand, and a trainer that is killed.

### MCPlatform, MCAnalysis, Probes

`MCPlatform` puts the parts of go-ingestion around the queues and those of
go-analysis side by side, each on an instance of its own; `MCAnalysis` holds the
instances of the latter. The modules are extended, with constants in `platform.cfg`,
so that the properties that the run checks are those of the theorems. `part` (of
`Probes`) says which part a behaviour is of, the others stand still in an initial
state; for the algorithms `probe` is the input. So the run explores the union of the
parts' state spaces, not their product: they share only the databases, which each
models as far as it uses them.

## 4. Runs

| Run | Checks | Shows |
|---|---|---|
| queue_production | TypeOK, NoTaskLost, SingleCopy, ExclusiveHold, DeadAfterAllRetries, LifecycleSpec, Settles, InFlightReclaimed | with the production wiring a message is lost only to trimming and never in play twice; Delivery is implemented; with restarts under the same name every message and every pending entry comes to an end |
| queue_delayed | NoTaskLost | delayed retries and XAUTOCLAIM duplicate; they lose a message only where Redis refuses the XADD of a delayed retry |
| breaker_stuck_open (violation) | OpenIsRetried | a stale half-open failure stops the new timer: open for ever |
| pipeline_safety | TypeOK, SeenOnlyAfterCommit, NeverDowngraded | two parsers, two faults |
| pipeline_healing | SelfHealing, EventuallyParsed | sweeps repair every single fault, next to a poison match |
| pipeline_players (violation) | FullyParsed | player rows stay those of the unparsed payload |
| proxy_lease | TypeOK, Exclusive | late releases, dead workers and loads never make two workers use a proxy within their leases, but for the last second of a lease |
| proxy_cooldown (violation) | CooldownRestores | an eviction between the recovery's ZADD and ZREM leaves the proxy in neither set |
| proxy_zombie (violation) | MarksNeverRevive | a late failure puts a proxy back that Replace evicted |
| platform | see the next table | the parts of go-ingestion around the queues and of go-analysis, crashes and failures included, and their algorithms on all probes |
| backtest_limit (violation) | MaxMatches | the row after the limit's last match gets in |
| value_reload (violation) | ValueReloaded | SIGHUP does not reload the value model |

The properties of `platform`:

| Part | Property: its conjuncts, stated in the part's module | Shows |
|---|---|---|
| CircuitBreaker | TimerOnlyWhileOpen, CountersBounded, LegalTransitions, Recovers | three racing goroutines: one timer and only while open, no counter runs away, no illegal transition; it closes for good once calls succeed |
| HttpDoer | DoerSound: CacheInStep, CacheBounded, LeaseReturned | map and LRU list of the cache agree under eviction, Close and direct requests; every lease goes back with a verdict |
| | SurfacedAtOnce | permanent answers and 429 end a call |
| DeadLetter | LettersSound: NoLetterLost, ReplayedOnce | no letter vanishes; two operators queue it once |
| Migrator | MigrationsSound: AppliedOnce, AppliedInOrder | exactly once and in order, over kills and lost locks |
| EnrichRunner | EnrichmentSound: GateHonest, DependenciesFirst | keys stand for complete runs; the sort against its definition on every graph of three sources |
| IngestTx | IngestSound: AllOrNothing, EventsNotDoubled, OkMeansStored | an ignored stub error stores nothing and reports nothing stored; concurrent payloads of a match |
| Discoverer | NeverOlder | first runs and tickers do not overlap |
| | QueuesTheUnknown | the filters against their definition |
| MatchDecode | DecodeSound: TimeseriesComplete | a row for each minute with a value and no other, no count negative |
| | KnownKept | a later payload takes no COALESCE column back to NULL and deletes no events, after any number of payloads; advantages and cosmetics keep a row, not its content (section 6) |
| DraftRules | DraftRulesSound: ValidationExact, EraFits, PhasesStable, PickNamesAgree, TablesAgree | the greedy check against its definition; picks keep their phases unless a ban phase is declined as a whole; both services name the picks alike, their tables have the same kinds and teams (not the same names) |
| Serving | ServingSound: ScoredAsTrained, TornIsTransient, ReadyMeansPopulated | a reload between building and scoring gives an error or scores of a model trained on the same features; the exception is a model whose files are of two publications, and such an imitation model has its reload still to come; the API never meets an empty view |
| | ReloadKeepsModel; ModelServed | no reload leaves the API without a model; no signal is lost, and at last the imitation model is all of the last publication |
| Simulate | SimulationSound: SimulationLegal, FirstAndLastPick | no hero twice, one first and one last pick per side |
| Backtest | BacktestSound: LimitKeepsMatches, NoHindsight, CountsAddUp | matches up to the limit whole and in order, no later pick known, counts complete |
| HttpDoer, DeadLetter, Migrator, IngestTx | EveryJobEnds | every call of `Do` returns, guard keys only delay a letter, refused locks, failures and kills a migrator; deadlocks of transactions end |
| EnrichRunner, Discoverer | DataKeptFresh | the tables fill up and no key keeps a source out; the last list is stored |

Bounds. Two workers are enough for every pair of interleaved commands, three
goroutines for a third that races with two. One retry reaches the requeue and
the dead-letter path; MaxLen 1 lets two messages overflow the stream; one crash
and one lost command, in any order, hit every window between two commands.
MaxId bounds the entries ever added; four let both messages use their retry, or
one be redelivered and retried next to the other.
Pipeline queues hold one task; a publisher waits for room, and trimming is one of
the faults.
The pool has a seed proxy, which every completed load keeps, and a remote one,
which loads add and drop; leases and cooldowns of one second expire at every
point of a request, a load and a recovery. proxy_lease takes MaxLag 1 and, for its
size, one load or one failing recovery, and no recovery's command within a load
(OneTrouble); the theorems have no such bound.
In `platform`: two callers, three proxies (one with an unusable URL) and room for
one client make hits, evictions and refusals meet, with one attempt through a proxy
and the direct one; two letters of one match or of none for two operators; an old
and a new migrator image with three versions; four sources, two of them dependent on
others, and two faults, so that the local and the main run of a source both
fail; two transactions on one match and two new heroes, in both
orders of locks, with each pair of four payloads (raw, parsed, of an illegal draft,
parsed with most lists empty), in one order, since the parsers are alike; three
goroutines, two failures to trip and three successes to close the breaker; two cycles
and two editions; payloads of one match with and without each kind of content, in
any sequence. The probes: graphs of three sources with up to two dependencies
each, one of them unknown; up to two explorer rows with every content of Redis and
Postgres; players with lists of up to two minutes.
Of go-analysis: three publications, of imitation models with one order of features,
another, and an unknown feature, and of value models with the first order, with a
feature of another source, and none; the first are directories where current is, a
value model is configured exactly with LightGBM, one fault; heroes scored up, down,
in turns and mixed; three matches of three shapes, a limit of none and of one; all
drafts of 15 to 25 entries with 0, 2, 3, 4, 6 or 7 bans before each pair of picks. Of
the catalogs the first runs out early, the second is just enough.
Each part has one or two faults of any kind. The simulation, the backtest and the
probes come to an end, so this run does not check for deadlock; that the other parts
do not get stuck is what their liveness properties say. backtest_limit and
value_reload are this run for one part.

Assumptions that carry weight. EventuallyParsed needs seen keys that expire:
with SeenTTL FALSE (DEDUP_TTL=0) the Redis filter, which runs before the database
filter, hides a match stored unparsed for ever. Exclusive
speaks of the time in which a lease is safe: all of it but the last MaxLag seconds,
where acquire.lua may already have cleaned its entry, and where the release of the
lease takes the entry of the next holder (`robbed`). Requests outlive leases: PROXY_HOLD
is 30 s, DISCOVERY_HTTP_TIMEOUT 180 s, and nothing stops a request whose lease is over.
ModelServed and TornIsTransient need that SIGHUP follows each complete publication.

Fairness. Workers loop for ever and their handlers return (HTTP and Postgres
calls have timeouts); the container runtime starts a worker and, with
`restart: unless-stopped`, restarts it under the same consumer name (RestartSpec); the scheduler's
ticker starts sweep after sweep, and the explorer keeps listing the matches;
keys with a TTL expire; time passes and a ticker drives the cooldown recovery;
a goroutine in the breaker runs on and a timer elapses. In `platform` every
process runs on and is restarted, calls to Redis, Postgres and HTTP return because
they have timeouts or a context; a deadlock is broken by Postgres; the queue
delivers a failed payload again; a publication that is begun is completed and its
SIGHUP sent. EveryJobEnds
assumes somebody who replays all dead letters again and again (strong fairness:
the other operator may be in between each time).
No fault is ever obliged to happen, and the faults are finitely many.

## 5. Proofs

Each proof module has the inductive invariant of its part, one lemma per action or
group of actions that keeps it, and the theorems. TLC checks the properties on the
instances of section 4, the theorems state them for all values of the constants.

- `StreamQueueProofs` (any messages, workers, limits and settings).
  - QueueTypeOK, QueueNoTaskLost. NoTaskLost is not inductive:
    the invariant adds that what a worker holds was delivered (HeldDelivered), that
    a PEL entry is in the stream or recorded as lost (PendingBacked), that delayed
    retries were acknowledged, and that one whose ZREM is due was added again or is
    still in the ZSET (DelayedAcked), that entries without fields are lost ones
    (BrokenLost), and that every published message nobody finished has an
    anchoring entry (AllAnchored).
  - QueueExclusiveHold: what a worker holds is in its own PEL (OwnHold), it holds an
    entry once (HeldOnce), and nothing between two batches (IdleEmpty), so that a
    crash or a restart leaves nothing in two hands.
  - QueueDeadAfterAllRetries: an entry with n retries was preceded by entries of
    its message with every smaller count (RetryChain), and Retry gives up only at
    the limit (DeadTried).
  - QueueSingleCopy and QueueImplementsDelivery, for the queue as production wires
    it (no XAUTOCLAIM, no delayed retries). Each step either brings nothing into
    play, settles one entry, replaces one by its retry, or publishes: these four
    kinds of steps (lemmas over `NoneBut`, `Replaces`, `Sends`) keep SingleCopy, with
    BuriedAcked, SettledPublished and DroppedSettled, and they are the steps
    of Delivery under the mapping `Fate`. The refinement is proved step by step for
    the safety part; Delivery states no fairness.
- `CircuitBreakerProofs` (any goroutines and thresholds): BreakerTimer,
  BreakerTransitions and BreakerCounters. TimerOnlyWhileOpen is
  inductive with the types; the transitions follow from it. The bounds of the
  counters come from counting goroutines by where they are: a counter is at most
  the limit of its round plus those that still may add in it. The proof corrected
  the bound: Threshold - 1 + the number of goroutines is wrong when goroutines outnumber the
  threshold, since those left over from one round are the start of the next
  (MaxFailures, MaxSuccesses).
- `PipelineProofs`: PipelineTypeOK, PipelineSeen, PipelineMonotone. The invariant
  adds that a busy worker has a task and a body where it needs them (HasTask,
  HasBody) and that a parser about to mark has committed (Committed).
- `ProxyPoolProofs`: PoolTypeOK, PoolExclusive. Acquire sees only the leased ZSET
  and Release only its key, so the invariant ties both to the leases the workers
  have: the entry of a safe lease is at most MaxLag seconds older than it
  (LeaseBacked), and a key is there only while its lease lasts (KeyBacked). For any
  MaxLag; with 0 nobody is ever robbed.
- `StoreProofs`, what reaches Postgres:
  - Migrator: MigratorSound. A process in its loop has the lock (LoopLocked), so
    what it read from schema_migrations is what is there (LoopCurrent). Assumed
    (MigratorConstants): an image that has a migration has all older ones, and all
    processes hash the same DSN to the same lock; with two lock ids it is false.
  - IngestTx: IngestIsSound. From `upsertMatchRoot` to its end a transaction has
    the row lock of its match (RootKept), so what its DELETEs saw is current when it
    commits (DeletesCurrent), and a commit has passed checkDraftSchema (DraftChecked).
  - MatchDecode: DecodingIsSound, for players whose lists have any lengths: a minute
    has a row exactly if one of the lists reaches it (SeriesRows, LongestList), its
    number is right for the 32768 minutes that an int16 has, and `int16` after the limit keeps a count
    (SmallCounts). ParserKeepsKnown, for any set of payloads: the row that
    is stored never holds "null" or an empty text (HeldOK), and so no COALESCE takes
    one for a value.
- `DeadLetterProofs`: DeadLettersSound. The guard key of a letter is there while an
  operator is between SETNX and the script (ClaimGuarded), one operator has it
  (OneClaim), and a letter replayed stays guarded from those who still
  have it in their batch (SentGuarded, SentUnclaimed). That XREVRANGE can return the
  letters newest first, for any number of them, is AllSortable.
- `PlatformProofs`, three parts of go-ingestion that share no state:
  - Discoverer: SchedulerNeverOlder. The loop of Scheduler.Run is at the cycle whose
    first run is going on (FirstRun) and has left behind those with a ticker (Spawned);
    cycles are distinct (DiscovererConstants), so a cycle has one run at a time
    (OneRun), and what it fetched is not older than what is stored (NotStale).
    QueueIsExact, for any sweep whose listed start times are those of the rows
    (SweepOK): where the join on the start time can miss a row, a stored match is queued again.
  - HttpDoer: DoerIsSound and DoerSurfaces. CacheBounded is inductive as a bound of
    the proxies' clients alone (Sized), since the direct client is added without
    a look at the limit; it needs CacheInStep, without which an eviction might make no room,
    and a limit of at least 1 (it is 100). WithoutFilters says what the loops
    of touchAccessOrder and evictIdleEntries return, for lists of any length.
  - EnrichRunner: EnrichmentIsSound, for any sources with distinct names. SearchInv
    holds after each step of the search: the stack of calls has one return for each
    name that is entered and not sorted (Stacked); what is sorted comes after all it
    depends on (InOrder); every source, and what an entered one depends on, is sorted or still to be called
    (AllCalled, DepsCalled). A measure bounds the steps (LastStep), so the search has
    ended. Where some order of the sources exists, each call is for a source below those that
    wait for it and the search does not fail (Descends); where it does not fail,
    what it returns is such an order. GateInv: the upserts that a run counts as written are
    committed, so a key set after the last one stands for all of them.
- `AnalysisProofs`, go-analysis:
  - Serving: AnalysisSound and AnalysisKeepsModel. A request carries the spec of the
    builder of its process (RequestsFit), a linear scorer has the builder's spec and a
    loaded one that of the publication its spec.json is of (ModelsFit), which Score
    compares; so one that is not torn was trained on it. The link moves between the two
    files of a load only while a signal is due or will be (LoadSeen), so a torn model is
    reloaded; the launch key comes after the last view (Launched).
  - Backtest: BacktestIsSound, for any rows in the order of the query. BackInv: the
    matches collected so far are consecutive runs of rows, whole but for the last
    (Collected); what is played is what the rows before the present one say (Known);
    each total is the number of countable picks passed (Counts), so that it is complete
    when the replay ends.
  - Simulate: SimulationIsSound, for any number of heroes and recommendations and any scores.
    SimInv: the heroes drafted are distinct, and without failures the picks of a team are the pick
    slots that it has passed (SimDraft); those recommended first are drafted
    (SimSteps), and each step was told the picks before it (SimTold). That CMPhaseTable has
    five picks for each team is computed slot by slot (PicksNext).
  - DraftRules: DraftRulesAreSound, for every sequence of Booleans. ScanAt says
    where the greedy scan is after each entry of a pattern: it has matched as many
    picks and as much of the present run of bans as the draft has. It accepts
    therefore exactly what WithoutSomeBans describes, which speaks of runs of bans and
    not of any scan. NextPickPhase: between two picks the phase grows by two if there
    is a ban in between and else not at all, so phases of picks do not depend on the
    number of bans.

Assumptions are the ASSUMEs of the modules, or, for the parts that `MCPlatform`
puts together, definitions that are hypotheses of the theorems:
MigratorConstants, IngestConstants, LetterConstants, ServingConstants,
DiscovererConstants, DoerConstants, EnrichConstants, DecodeConstants,
SimulateConstants, BacktestConstants; and SortInputOK, SweepOK, PlayersOK and
Seq(BOOLEAN) of the inputs of an algorithm. TLC evaluates all of them for the instances
and for every probe (PlatformConstants, AnalysisConstants).

The library's induction theorems take an operator and cannot be used here. Where a
fact is about all lengths or sizes (AllSortable, WithoutFilters, MinOfNats, the steps of the
search and of the scan) it is proved by a least counterexample, from the well-foundedness of < on Nat (WFMin), which takes a
set; a recursive function is first shown to exist (FilterExists).

Every invariant and every step property that a run checks and finds to hold is stated by a theorem.
Only model-checked is liveness, which the prover does not handle: Settles,
InFlightReclaimed, Recovers, SelfHealing, EventuallyParsed, EveryJobEnds, DataKeptFresh and ModelServed.

## 6. Where code and documents differ, without a run

Met while modelling; the models follow the code.

- Neither `cmd/fetcher` nor `cmd/parser` sets SubscribeRecover (`queue.go:529`), so
  XAUTOCLAIM never runs in production; `go-ingestion/ARCHITECTURE.md:515-517` says that
  in-flight messages are reclaimed by it. Only a restart under the same consumer
  name brings them back (InFlightReclaimed in queue_production).
- The fetcher drops a task on every PermanentHTTPError (`fetcher.go:132-135`), a 500
  included; `ARCHITECTURE.md:566-567` drops only 404, 401, 403 and 410 and retries
  5xx. 429 marks the proxy as failed, as `ARCHITECTURE.md:567` says and against
  `ARCHITECTURE.md:169-170`.
- `store.go:46` logs "triggers will handle missing heroes": after the error the
  transaction is aborted and nothing handles anything (OkMeansStored).
- `phase_table.go:77-80` promises "ban_1" after a first pick; the code names that
  phase "ban_2". Phase numbers are stable only as long as no ban phase is declined as a
  whole, and `isSubsequenceRemovesOnlyBans` also accepts prefixes that lack picks,
  which ValidateDraft's count of picks catches.
- CMPhaseTable names slot 14 "pick_3" where DerivePhaseTable and PhaseNames say
  "pick_2": the API and the backtester report one pick under two names.
- A reload to a model with other features makes all requests fail until a restart,
  and SIGHUP before the watcher runs, or with the linear scorer, ends the process.
  UsedValueModel stays true when the value scorer failed (`recommender.go:84-92`).
- LoadModel (`loader.go:57-106`) opens spec.json and model.bin by name, one after the
  other: when a publication moves the link in between, the spec of one model is checked
  for the binary of another, and scores are wrong until the reload that the publication's
  SIGHUP causes; for the value model, which is not reloaded, until a restart.
  `publish.py:9` calls the publication an "atomic symlink swap".
- `radiant_gold_adv` and `radiant_xp_adv` are overwritten together and without COALESCE
  (`root.go:99-101`): a payload with one of the lists empties the other. Cosmetics that
  are JSON null replace stored ones (`root.go:105-114`). Columns that decode a missing
  field to 0 (scores, tower status) are overwritten with 0 in spite of COALESCE.
- `TestMismatchedTimeLengths` (`decode_test.go:109-124`) expects an error for lists of
  different lengths; its payload is refused for its missing start_time, and
  expandTimeseries accepts different lengths (TimeseriesComplete says how).
- A payload whose players have only lh_t or dn_t, or that has objectives and chat but
  neither purchase logs nor gold and experience lists, counts as unparsed
  (`decode_match.go:121-144`) and loses them. Minutes wrap after 32768.
- An XADD that Redis refuses in the pipeline of matureAsyncRetries (`queue.go:748-778`)
  is followed by its ZREM: the task is lost (NoTaskLost records it as such). No
  production binary turns delayed retries on.
- The dedup set that could not be created is a typed nil (`cmd/discoverer/main.go:124`):
  the first batch panics instead of going on without dedup.

## 7. Not modelled

Metrics, logging, tracing, connection set-up and configuration parsing: pure I/O.
The in-memory queue and proxy pool: doubles for tests. Floating-point scoring,
recall and NDCG, and the Python training: out of TLC's reach. The read-only
profile handlers of the API and HTTP encoding. Partition maintenance and the
one-shot modes of discoverer and enricher. A flush of Redis while workers run.
Times: back-off, block times, delays and jitter are arbitrary.
