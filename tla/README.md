# A TLA+ model of the rate limiting gateway

The program (`src/middleware`, in Go) is a reverse proxy that limits the rate of
requests per client, detects bots, blocks offenders, and is administered over
HTTP: APIs and their rules are registered, changes are recorded and streamed,
metrics are kept. Its state is shared by one goroutine per request, by background
goroutines and by files on disk. These modules model the parts in which that
sharing can go wrong.

Paths below are relative to `src/middleware`.

## Conventions

* One action per step another goroutine can see: an atomic access
  (`CircuitBreaker`), a critical section or the code between two of them
  (`MemoryBackend`, `FileRegistry`, `EventHistory`, `Gateway`), a backend call
  (`Middleware`), a script (`RedisBackend`), a file access (`FileRegistry`,
  `EventHistory`, `Metrics`). `SearchedWindow` goes below that: it takes a critical
  section apart and shows that it may be taken for one step.
* `pc[g]` is the next step of goroutine `g` (of the breaker, `access[c]`);
  `Goto(g, from, to)` takes it.
* Variables marked *history* record what happened for the properties only; no
  guard depends on them, apart from the bounds of the runs (how many requests,
  changes, crashes).
* A definition whose comment begins with *Mutant:* is a plausible mistake in the
  definition that follows it. Nothing refers to it: it is put in that
  definition's place to see that a property notices (the list is `mutants` in
  `PROJECT.json`).
* `MC*` modules hold what the TLC configurations need: sets of model values and
  symmetry. Symmetry is used in safety runs only. Where a configuration has
  nothing to add the module is run as it is.
* `*Proofs` modules hold the theorems, checked by TLAPS.
* Time is a small clock. Durations are compared only with each other, so a few
  ticks stand for all that matters: equal, shorter, longer, expired.

## Inventory

| part | state | operations | hard behaviour | correct means |
|---|---|---|---|---|
| circuit breaker `base/cicuit_breaker.go` | four atomics: state, failures, last failure, half-open requests | `Allow`, `RecordSuccess`, `RecordFailure`, `ReleaseProbe` | no lock: every access interleaves; late results of earlier periods | a half-open breaker is never stuck; open is left again; closes when the backend recovers; at most `max_probes` |
| sliding window `storage/memory/store.go` 260-333 | times of admissions, mutex | `Allow`, `Count`, `findFirstValid` | boundaries, equal times | limit in *every* window; denied only when full |
| LRU cache 336-443 | map and linked list | `Get`, `Add`, `Remove`, eviction | pointer surgery in long sequences | list and map agree; bounded; evicts the least recent |
| memory backend 21-258 | entries in the cache: window, `blockedUntil`, violations | `AllowSlidingWindow`, `Block`, `IsBlocked`, `IncrementViolation`, getters | lookup and insertion not atomic; entry used outside the lock; data race; eviction of live state | limit per key; blocks hold and end |
| Redis backend `storage/redis/store.go` | hashes and sorted sets in Redis, Lua scripts | the same interface, each call through the breaker | errors, retries, timeouts, units of time | limit and blocks hold with late, repeated and lost commands; no leak of probes |
| pipeline `routing/middleware.go` | counters, the backend | `Handler`, `/unblock` | many backend calls per request, each may fail, time passes between them | every request counted once; strict mode fails closed; blocks enforced and capped |
| file registry `storage/file/registry.go` | map of APIs, JSON file, channel of changes, RW mutex | register, update, delete, endpoints, import, reload, close, subscribe, rule matching | failed saves, crashes, re-entrant lock, closing while in use, import outside the lock | what is acknowledged is on disk; memory = file; order of announcements; no panic, no deadlock |
| events `base/events.go`, `routing/admin_api.go` | memory of recent events, one file a day; one stream per subscriber | append, recent, stream | file rewritten at each append; change and event are two steps; one channel for all subscribers | complete history, true history, each subscriber sees each change |
| metrics `metrics/metrics.go`, `routing/metrics_api.go` | hours, days, totals per API; one file per API | record, aggregate, save, clean up, load, query | saved without the lock; two savers; truncation; ranges at boundaries | nothing counted twice or lost; reports match |
| rules `storage/file/registry.go` 616-702, `routing/middleware.go` 255-317 | none of their own | choice of a rule for a path, its limits over the static ones | two lookups per request, ties left to the order of a map, zero and negative values | limits and route of a request agree; no limit of nothing |
| configuration `config/loader.go`, `base/config.go` | one record, made at the start | file or built-in values, overrides, validation | what a file leaves out is zero and overwrites a default | a process that starts can serve |
| proxy and main `cmd/main.go` | the server, deferred closes | proxying, startup, shutdown | rule and API read separately; `main` returns before requests are done; nested mutexes | forwards only to what was registered; ends after a signal |
| dry-run check `routing/check.go`, SDK `sdk/go` | none | query of the limits | reads while the pipeline writes | same limit as the request itself (not modelled) |
| address extraction, attack detector, helpers | see *Not modelled* | | | |

How they interact: `main` builds breaker, backend, pipeline, registry, event store
and metrics. A request runs through the pipeline, which calls the backend
(memory, or Redis behind the breaker), then to the proxy handler, which reads the
registry and records metrics. Admin requests change the registry, which announces
the change on its channel; then they append an event. Stream handlers take
announcements off the channel, append them again, and send them.

The hazards this gives rise to are listed line by line in `PROJECT.json`
(`hazards`), each with the properties that cover it.

## Modules

| module | models | uses |
|---|---|---|
| `CircuitBreaker` | the breaker and the wrapper of every Redis method | |
| `WindowParameters` | the parameters of a window | |
| `SlidingWindow` | abstract specification: the window, a call as a reading of the clock and one step | `WindowParameters` |
| `FindFirstValid` | the binary search, one action per iteration, from any slice | |
| `SearchedWindow` | `Allow` and `Count` with the search inside them; refines `SlidingWindow` | `FindFirstValid`, `SlidingWindow` (INSTANCE) |
| `SearchedWindowProofs` | ten theorems: the search, the window, its refinement and what follows from them; the LRU list and its refinement | `SearchedWindow`, `LRUList` |
| `LRU` | operators on a bounded recency sequence | |
| `LRUCache` | abstract specification: such a sequence as a state machine | `LRU` |
| `LRUList` | `map` + linked list; refines `LRUCache` | `LRUCache` (INSTANCE) |
| `MemoryBackend` | the memory backend under concurrent goroutines | `LRU` |
| `MemoryBackendProofs` | three theorems: blocks hold, and end; the overrun of a limit is bounded | `MemoryBackend` |
| `Middleware` | the pipeline over the interface of a backend | |
| `MiddlewareProofs` | five theorems | `Middleware` |
| `FileRegistry` | the registry, its file and its channel | |
| `FileRegistryProofs` | four theorems | `FileRegistry` |
| `EventHistory` | admin handlers, event store, event streams | |
| `EventHistoryProofs` | three theorems | `EventHistory` |
| `Metrics` | collector, savers, file, reports of one API | |
| `MetricsProofs` | four theorems | `Metrics` |
| `RedisBackend` | the scripts of one key, and a client that retries | |
| `RedisBackendProofs` | seven theorems: three of the backend, four of the breaker every call passes | `RedisBackend`, `CircuitBreaker` |
| `Rules` | operators: the rule for a path, the limits it gives | |
| `Config` | operators: from file and environment to a valid configuration | `Rules` |
| `Gateway` | `main`: start, requests through both lookups, changes of rules, recording, shutdown | `Config` |
| `GatewayProofs` | three theorems | `Gateway` |

The layers are cut where the code has an interface. `LRUList` shows that the list
implements the sequence of `LRU`, so `MemoryBackend` works with the sequence.
`FindFirstValid` shows what `SlidingWindow` assumes of the search, and
`SearchedWindow` composes the two. `MemoryBackend`
has the steps inside the calls that are single steps in `Middleware`; the window
that `Middleware` uses is the one `SlidingWindow` is about. `EventHistory` takes a
registry change as one step, `FileRegistry` has the steps inside; so does `Gateway`,
which leaves the limiter's decision open (`Middleware` and the backends make it) and
keeps what only the composition shows: what a request has read while something else
changes, and who waits for whom.

### Correspondence to the code

`PROJECT.json` maps each definition to its lines. In outline:

* **CircuitBreaker.** `Allow` is `LoadState`, `LoadLastFailure`, `RejectOpen`,
  `CasHalfOpen`, `ZeroProbes`, `TakeSlot`, `RejectFull`; the Redis command is
  `Finish`, whose result decides which of `StampFailure`..`ZeroOpen` and
  `ResetFailures`..`ZeroClosed` follow; `ReleaseProbe` is `LoadRelease`,
  `Decrement`. The result `errorThenOk` is `SetTokenBucket`, which records a
  success after its failure; `miss` is `redis.Nil`. Failures are kept up to the
  threshold and the age of the last failure up to just above the timeout, which is
  all the code compares.
* **SlidingWindow, SearchedWindow, FindFirstValid.** In `SlidingWindow` a call is
  `ReadClock` and `Allow`. In `SearchedWindow` it is `Begin` (lock, clock), the steps
  of the search - `Enter` (the shortcut), `Halve`, `Return` - on the slice as it is,
  and `Grant`, `Deny` or `ReturnCount`; time passes in between.
* **LRUList.** `AddToFront`, `RemoveFromList`, `MoveToFront`, `Evict` are operators
  on a list record, in the order of the pointer assignments; `Get`, `Add`, `Remove`
  are the exported methods.
* **MemoryBackend.** A method is `Call`, `CacheHit` or `CacheMiss` then `CacheAdd`,
  then its body. `Block` stores the two words of a `time.Time` in either order
  (`StoreFirstWord`, `StoreSecondWord`), because nothing orders them; `wall` is
  whether the value carries a monotonic reading. What the history variables promise of a
  key ends when its entry is evicted or replaced. The window a call asks for and the
  one the backend was made with are one `WindowSize`; they differ for a
  rule with a window of its own, and an entry keeps the one it was made with.
* **Middleware.** One action per outcome of each backend call, in the order of
  `Handler`; every call has a failing outcome that may or may not have taken
  effect. `strict` and `store` are the configuration and
  never change, so that one run covers both kinds of errors and both backends: the
  limiter of the memory refuses a key that was blocked since the check, the script of
  Redis does not (`LimiterSeesBlock`), and the memory may evict a key with its block
  (`Evict`). A block is of the configured duration or of that of the request's rule
  (`BaseDurations`); validation bounds only the first, but a rule's is applied by an
  escalation only, which caps it. The violation increment and the
  block ignore errors, as in the code. `calculateBlockDuration` is `Escalated`, `Capped`
  and `Jitters`, in that order: a power that a Duration does not hold becomes either
  end of its range (`ToDurations`; which one depends on the processor), and a sum
  wraps around (`Wrapped`). `violations` starts with any of `Before`, because Redis
  outlives the process.
* **FileRegistry.** `Change` (map), `Save` or `SaveFails` (file), `Notify` or
  `NotifyPanics` (channel), the mutex held throughout. `ImportExisting`,
  `ImportNew` read the map without it. A save replaces the file by a rename, so it
  is whole or without effect. `LoadFails` is any of the errors of `Load`, after which
  `main` serves with an empty map; `unread` remembers that there was a file. That the
  rollback of `AddEndpoint` keeps the new time of the update is not visible here:
  times of updates are left out.
* **EventHistory.** `ChangeRegistry` then `BeginAppend`/`EndAppend` (the write
  truncates first, so the file is `Torn` in between); streams are `Subscribe`,
  `Take`, `HandOver`, `Disconnect`. The goroutine that forwards announcements to a
  stream outlives it until it notices (`QuitForwarder`), and may take one more, which
  is then `lost`.
* **Metrics.** `Record` under the mutex; a save is `CopyTotals`, `CopyHours`,
  `CreateFile` (truncates), `EncodeFile`, without it; `Stop`, `LoadAll` is a restart,
  and `LoadFails` one that cannot read the file. Hours are local; `Midnight` is a local one, and `DateTime` the moment that the
  date of a bucket is taken for, which is the same day's midnight in UTC.
* **RedisBackend.** A call is `Begin`, which reads the clock and sends; a copy of its
  command `k` runs as `RunAdmit`, `RunRefuse`, `RunCount`, `RunBlock`,
  `RunBlockFraction`, `RunUnblock` or `RunIsBlocked` at any time until `MaxDelay` after
  that reading, or never (`Lose`); its answer is `Answered` or lost, and the client
  may have sent another by then (`Retry`) or have gone (`GiveUp`). The units are the
  code's: scores in milliseconds (ticks), blocks in seconds (`PerSecond` ticks).
  `SaysBlocked` is an answer without an error: a field that is no whole number is one
  that `IsBlocked` cannot parse.
* **Rules, Config.** Operators. A base path with a pattern is the set of the paths it
  selects. `GetCompiledRule` gives a set: the rules it may return, which are several
  only for a tie between APIs. A file is a record in which what it leaves out is zero.
* **Gateway.** `Configure`, `PingRedis`, `Serve` are `main` up to `ListenAndServe`. A
  request is `Arrive`, `ResolveLimits` (the first lookup of the rule), `Limit`,
  `Route` (the second), `FindAPI`, `Forward`, and then `RecordKnown`, or
  `RecordFirst` and `Describe`, between which it holds the collector's mutex and
  waits for the registry's. `Signal` to `CloseMetrics` is the goroutine that waits
  for the signal; `ListenReturns` and `Exit` are `main`, which does not wait for it.
  `since` keeps the registries there have been while a request is served.

## Runs

There is one passing run for each component, and two runs in which TLC refutes a
sentence of the repository. All passing runs explore their whole state space.
Deadlock is checked except where a bound on time, requests or changes makes the model
stop, or where the process has ended (`CHECK_DEADLOCK FALSE`). Where a component has a
type invariant that is not listed, it is the first conjunct of a property that is
(`WellLinked`, `BlockBounded`, `MemoryIsTail`, `NothingInvented`, `IInv`).

| run | shows | bounds, and why they are enough |
|---|---|---|
| `breaker` | `IInv`, `NoLeakedSlot`, `HalfOpenAdmits`, `EventuallyProbed`, `Recovers` | 2 callers: one late while the other opens, probes or closes; threshold 2, so that a count can be reset half way; timeout 1; all four results. The safety part is proved for any number of callers |
| `sliding_window` | `Splits`, `RateLimited`, `DeniedOnlyWhenFull`, `CountExact`, `ImplementsSlidingWindow`, `Terminates` | limit 4, window 3, 6 ticks: the slice grows to the length at which the search takes every branch, the window slides over itself twice, and time passes inside a call |
| `lru_list` | `WellLinked`, `ImplementsLRU` | 3 keys, 4 nodes, capacity 2: every operation at an empty, partial and full list |
| `memory` | `OverrunBounded`, `BlockHolds`, `BlockBounded` | 2 goroutines share a key that one of them blocks and unblocks, and a second key pushes the first out of a cache of 1; window of one tick, blocks of two, 3 ticks: a window ends and begins again, a block is renewed while it is in force and ends |
| `memory_limit` | refutes `AskedLimitKept` | a rule that asks for less than the backend's own limit |
| `pipeline` | `TypeOK`, `Accounting`, `StrictFailsClosed`, `BlocksEnforced`, `BlockCapped` | 2 goroutines, 3 requests of one key, over memory and over Redis, strict and lenient errors, every call may fail, unblocks, evictions; 3 ticks; a configured block of 2 and a rule's of 4; a key with or without a violation from before; the second violation escalates past the maximum, the third past the longest Duration (6 ticks), so that the block may become negative; the jitter (up to half, rounded to ticks) adds a tick |
| `registry` | `TypeOK`, `Durable`, `MemoryMatchesFile`, `EventsInOrder` | 2 goroutines, 2 APIs with an endpoint and two contents, all operations, 3 changes, a channel of one, failing loads and saves, a crash |
| `registry_reload` | refutes `ReloadReturns` | one API, two goroutines |
| `events` | `CompleteUnlessDamaged`, `MemoryIsTail`, `EverySubscriberSees` | 2 administrators, 1 stream, 3 changes, memory of 2 events so that it overflows, failing files, a refused import, a crash, a forwarder that outlives its stream |
| `metrics` | `NothingInvented`, `NothingMissing`, `TodayCounted`, `SavedUnlessCut` | 2 savers, days of 2 hours, 5 hours, retention of a day, so that hours are removed while their day stays; 2 restarts, with files that can and cannot be read; local time in UTC and an hour to either side |
| `redis` | `WithinLimit`, `RetryAdmits`, `BlockHolds` | 2 calls in progress, each sent up to twice and late by a tick; limit 2 in a window of 3 ticks, 2 ticks to the second, 5 times from 20 (a window is in the past at the start); five workloads (`MCRedisBackend`): admissions with counting, admissions with unblocking, and blocks of a half to two seconds, with and without a fraction, within the default window and beyond it, that are asked for, lifted, shortened and renewed |
| `gateway` | `ForwardedWasRegistered`, `LimitedAsRouted`, `Usable`, `Exits`, `ForwardedIsRecorded` | 7 ways to start (the files of the repository, built-in values, an empty, a refused and an unreadable file, with and without `REDIS_ADDR`); registries with two endpoints of one priority on a path, the same rules on two APIs, an API without an upstream, an inactive one, half a request a second, a negative burst, a rule for every method; any request during two changes, and two requests with a change, a reload and a shutdown |

### What the violations show

The quotations are in `PROJECT.json` (`findings`).

* `memory_limit`: the limit that the pipeline passes for the rule of a request is not
  used (`storage/memory/store.go` 73).
* `registry_reload`: `ReloadRules` locks the mutex it holds
  (`storage/file/registry.go` 604).

### Divergences met while modelling

The code does the following too. The modules contain the behaviour, and the
properties are stated with the precondition that excludes it; without the
precondition TLC shows it on an instance in which it can happen.

| where | what the code does | precondition |
|---|---|---|
| `base/cicuit_breaker.go` 46, 54, 90 | callers take slots between the switch to half-open and the reset of the counter, and callers of the closed period give back slots they never took, so more than `max_probes` callers probe at once (`config/server.yaml` 82: "Probes in half-open state") | none: nothing bounds `probes`; that no slot is *leaked* holds and is proved |
| `storage/memory/store.go` 54 | two first requests of a key create an entry each, and each has a full limit | the factor `Cardinality(Serve(k, Methods))` of `OverrunBounded`; `promised` ends with a replacement (`replaced`) |
| `storage/memory/store.go` 408 | a blocked key is evicted, and its block, window and violations with it | `promised` and `admitted` end with the eviction (`evicted`; in `Middleware`, `Evict`) |
| `storage/memory/store.go` 88 | two writes of `blockedUntil` interleave; the value left has no monotonic reading and lies thousands of years ahead | `OneWriter` in `BlockHolds` and `BlockBounded` |
| `routing/middleware.go` 368 | the jitter is added after the cap: a block outlasts `max_block_duration` | the term `j` of `BlockCapped` |
| `routing/middleware.go` 338 | a full window is refused with a positive retry-after and counts no violation; only a block that ends between two readings of the clock (`BlockRunsOut`) does, so ordinary refusals never escalate. With Redis, whose refusals always carry a retry-after (`RetryAdmits`), none does | none: `RefuseFull` leaves `violations` alone |
| `routing/middleware.go` 361 | after some 25 violations base times power is more than a Duration holds; on amd64 the conversion gives a negative one, which passes under the cap and unblocks, or, with a negative jitter on top, wraps around to a positive one; on arm64 it gives the longest Duration, which is capped | `~overflowed` in `BlockCapped`; `Backend.Block` of a negative duration ends the promise of `BlocksEnforced` |
| `storage/redis/store.go` 110 | the sliding window script compares seconds with milliseconds and never sees a block; the check before it does. A request that passed the check before its key was blocked is admitted | `store = "memory"` for the limiter in `BlocksEnforced`; `SeesBlock` |
| `storage/redis/store.go` 147, 302 | a block that does not end on a second is stored as a fraction, which `IsBlocked` cannot parse: it answers with an error until the hash expires, which a lenient pipeline passes (`routing/middleware.go` 380), a strict one answers 503, and `/check` 500. Such a block also replaces one that was acknowledged and readable. If it is longer than the default window, `EXPIRE` fails after it was stored: `Block` reports an error, and unless an earlier block set an expiry the field never goes away | blocks of whole seconds that no other has masked, in `BlockHolds` (`Lifted`) |
| `storage/file/registry.go` 684-701 | the higher priority wins (`README.md` 166: "lower = higher priority"), and a rule is chosen by its path alone: of two endpoints of one priority that share a path, the second is never reached and its method is answered 405; between two APIs the order of a map decides | a single rule in `LimitedAsRouted` |
| `routing/middleware.go` 286, `cmd/main.go` 415 | the middleware compares the method as it is, the proxy in upper case: a request for `get` is routed by a rule whose limits it was not given | `method = Upper[method]` in `LimitedAsRouted` |
| `routing/check.go` 115 | the dry run takes the method of the call to `/check`, always POST, for that of the request asked about; the call is itself limited by the pipeline | not modelled: the check changes no state |
| `base/config.go` 126, 135, 144 | the threshold of the breaker, the decay interval and the global window are replaced only where they are zero: negative ones are accepted | the hypothesis `NumberedFile` of `Serves` |
| `cmd/main.go` 109 | a `REDIS_ADDR` makes `main` require an answer from Redis also when the backend is memory | none: `NeedsRedis` |
| `config/loader.go` 200-240 | without a file, staging and production want Redis but have no address: `main` panics unless `REDIS_ADDR` is set | none: `Refused` |
| `routing/middleware.go` 166 | a global rate below one request per window gives a limit of zero, which refuses everything; validation accepts it | none: not part of `Usable` |
| `cmd/main.go` 564 | the timeout of `Shutdown` comes from the file alone: `development.yaml` and `staging.yaml` set none, so it is zero, and not the 30s of `config/server.yaml` 160 | none: `ShutdownReturns` never waits |
| `cmd/main.go` 615 | `main` returns as soon as `Shutdown` begins: requests in flight are cut whatever the timeout, and the goroutine that closes everything may not get to | none: `Exit` |
| `metrics/metrics.go` 208 | after `ReloadRules` has locked the registry, the first request of an API waits for it with the collector's mutex held; the process then never ends | `stuck /\ recorder # Nothing` in `Exits` and `ForwardedIsRecorded` |
| `storage/file/registry.go` 271 | `DeleteAPI`, `UpdateAPI`, `UpdateEndpoint` and `RemoveEndpoint` do not take their change back when the save fails; the next save writes it | `~dirty` in `Durable`, `MemoryMatchesFile` |
| `storage/file/registry.go` 45-67, `cmd/main.go` 152 | a registry file that cannot be read or parsed is logged and passed over: the process serves with an empty map, and its first save replaces the file, with every API in it | `~unread` in `MemoryMatchesFile`; a save with `unread` is `dirty` |
| `storage/file/registry.go` 174, 709 | a change in flight while the registry is closed sends on the closed channel and panics | none: `NotifyPanics` |
| `base/events.go` 80 | the file of the day is truncated, then written: a crash in between loses the day | `~damaged` in `CompleteUnlessDamaged` |
| `base/events.go` 69 | a file that cannot be read counts as empty and is overwritten | the same |
| `routing/admin_api.go` 529 | refused imports are recorded as creations | none: event 0 of `ImportRefused` |
| `storage/file/registry.go` 576 | subscribers share one channel, so each change reaches one of them | `Subscribers = {s}` in `EverySubscriberSees` |
| `storage/file/registry.go` 576 | the forwarder of a stream that has ended may take an announcement before it notices, and nobody is sent it | `n \in lost` in `EverySubscriberSees` |
| `metrics/metrics.go` 574 | a save that is cut short leaves an invalid file, which `Load` passes over: all that was saved before is lost; two overlapping saves can leave the older totals | `~cut` in `SavedUnlessCut` |
| `metrics/metrics.go` 623, 634 | a valid file that cannot be read is passed over silently: the API starts at zero, and the next save truncates the file | `~unread`, and `~cut` once it is replaced, in `SavedUnlessCut` |
| `metrics/metrics.go` 419, `routing/metrics_api.go` 134 | buckets have local dates, which are parsed as dates in UTC, while the range of today starts at the local midnight: west of UTC today's requests are never in it, east of it only once the hour exceeds the zone's offset | the cases of `TodayCounted` |
| `metrics/metrics.go` 418-420, `routing/metrics_api.go` 114, 148 | a query adds the days whose midnight is in the range, both ends included: the current hour is 0 except in the first hour of the day, when it is the day; yesterday includes today | only `GET .../today` is stated (`TodayCounted`) |

### Fairness

* `CircuitBreaker`: weak fairness of each caller's steps and of new calls (goroutines
  are scheduled, Redis commands return because the client has timeouts, requests keep
  arriving), of the clock, and strong fairness of a successful command: among the
  commands answered while Redis is healthy, some are recorded as successes. The last
  is the assumption that calls are not all `redis.Nil` or cancelled by their clients,
  in which case the breaker rightly does not close.
* `FileRegistry` (`registry_reload`): strong fairness of each goroutine's steps,
  because Go's `RWMutex` does not starve a waiting writer. Administrators, crashes and
  subscribers are not fair.
* `SearchedWindow`: a goroutine that holds the mutex runs.
* `Gateway`: weak fairness of `main` and of each request's handler: goroutines that can
  run are run. `ForwardedIsRecorded` begins when the upstream has answered or failed, so
  that it rests on no assumption about the upstream. Nothing is assumed of arrivals, administrators, the signal, or the
  goroutine that closes.
* `RedisBackend` has no liveness property: commands may be lost for ever.

## Proofs

TLAPS proves, for every value of the constants that the `ASSUME`s admit:

| theorem | statement | argument |
|---|---|---|
| *RedisBackendProofs* | | |
| `BreakerTypeCorrect` | `[]TypeOK` of `CircuitBreaker` | step by step |
| `BreakerInvariant` | `[]IInv` | `IInv == TypeOK /\ SlotsHeldInCalls /\ NoLeakedSlot`. `NoLeakedSlot` alone is not inductive: a caller leaving with a slot must still be inside its call, which `SlotsHeldInCalls` says. The counter and the set of holders change by at most one together (`SlotStep`) |
| `SlotsNotLeaked`, `HalfOpenNotStuck` | `[]NoLeakedSlot`, `[]HalfOpenAdmits` | from `IInv`; for the second, with nobody in a call the set of holders is empty, so the counter is at most zero, below the limit |
| `BlocksHold` | `[]BlockHolds` | see below |
| `NeverOverLimit`, `RetriesFindRoom` | `[]WithinLimit`, `[]RetryAdmits` | see below |
| *SearchedWindowProofs* | | |
| `NeverOverLimit`, `NeverDeniedEarly` | `[]RateLimited`, `[]DeniedOnlyWhenFull` of `SlidingWindow` | `IInv` adds that what the window keeps is the tail of the history (`KeepsTail`), that times are sorted and that the kept times fit the limit. `FirstValidSplits` states what the search returns |
| `SearchCorrect` | `[]Splits` of `FindFirstValid` | the loop invariant `Bracketed`: all before `left` expired, all from `right` on valid |
| `Implements` | `Spec => ImplementsSlidingWindow`, the refinement | while a call searches, the slice and the clock it works with are those of the last step of `SlidingWindow`; the search then has the boundary, which is what `FirstValid` chooses (`CHOOSE` is unique), so `Grant` and `Deny` are `Allow`, `Begin` is `ReadClock`, all else stutters |
| `StepwiseRateLimited`, `StepwiseDenied` | `[]RateLimited`, `[]DeniedOnlyWhenFull` of `SearchedWindow` | its states map to states of `SlidingWindow`, whose invariant they inherit (`Inherits`) |
| `BoundaryFound` | `[]Splits` of `SearchedWindow` | the loop invariant, in every call and for whatever slice earlier calls have left |
| `CountsAll` | `[]CountExact` | what the window keeps is the tail of the history, so from the boundary on nothing is missing of it (`CountInv`: the answer stays right while time passes) |
| `WellLinkedAlways`, `ListImplementsLRU` | `[]WellLinked`, and `ListSpec => ImplementsLRU`, the refinement | see below |
| *MemoryBackendProofs* | | |
| `BlocksEnd` | `[]BlockBounded` | see below |
| `BlocksHold` | `BlockHolds`, an action property | see below |
| `OverrunsBounded` | `[]OverrunBounded` | see below |
| *MiddlewareProofs* | | |
| `TypeCorrect` | `[]TypeOK` | `IInv` and `BlockInv` together |
| `CountersAddUp` | `[]Accounting` | counters against the cardinalities of the sets `Busy` and `Uncounted`; each action moves one request across at most one border |
| `FailClosed` | `[]StrictFailsClosed` | with `ControlTypeOK`; a failed check of a strict request moves it to its answer |
| `BlocksAreEnforced` | `BlocksEnforced`, an action property | `BlockInv` has `Promises`: what is in force ends no earlier than what was promised, and an eviction or an unblock ends the promise with the block. The steps that let a request pass compare the clock with what is in force, all but the limiter of Redis |
| `BlocksAreCapped` | `[]BlockCapped` | `DurationsCapped`: for any count, base and maximum, a duration that did not overflow is at most the maximum and one of its jitters, because the jitter grows with the duration; and the maximum and its jitter fit a Duration, so that their sum does not wrap around (`MaximumAssumption`) |
| *FileRegistryProofs* | | |
| `TypeCorrect` | `[]TypeOK` | see below |
| `FileIsDurable`, `MemoryIsFile` | `[]Durable`, `[]MemoryMatchesFile` | see below |
| `AnnouncedInTurn` | `[]EventsInOrder` | `Ordered` adds that what is in the channel is younger than what was received and older than the change under way, whose maker has the mutex |
| *EventHistoryProofs* | | |
| `HistoryIsComplete` | `[]CompleteUnlessDamaged` | see below |
| `MemoryIsEndOfFile` | `[]MemoryIsTail` | see below |
| `NothingIsMissed` | `[]EverySubscriberSees` | it is inductive with the types and `InQueue`: the channel never holds more than there were changes, so one with room for all of them drops none |
| *MetricsProofs* | | |
| `NoneInvented` | `[]NothingInvented` | see below |
| `NoneMissing`, `TodayIsCounted` | `[]NothingMissing`, `[]TodayCounted` | see below |
| `SavesAreKept` | `[]SavedUnlessCut` | see below |
| *GatewayProofs* | | |
| `Forwarding`, `LimitsOfTheRoute` | `[]ForwardedWasRegistered`, `[]LimitedAsRouted`, without fairness | `Inv` follows a request from step to step: the present registry is among those it has seen (`Current`), so what a lookup finds is in one of them (`Resolved`, `Routed`, `Addressed`), and a change only adds to them (`InstallKeeps`). It is stated request by request (`Holds`), so that a step of one request needs to be looked at for that request only (`OneRequest`). With one rule to find in all of them the two lookups found the same (`OneRule`) |
| `Serves` | `[]Usable`, from any files and registrations of numbers | `Ready`: a configuration that was accepted is `Sound`, whatever was left out of the file (`LoadedIsSound` follows `ToBaseConfig`, `WithEnv` and `Validate`); the limits a rule may resolve to, and the window of the backend, are then positive for every registration (`LimitsArePositive`, `WindowHasLength`) |

**The memory backend** (`MemoryBackendProofs`). That a block holds is not visible in
the state of one goroutine: the entry `Block` wrote to must be the one another request
reads. `IInv` therefore says

* of whom an entry is: an entry is of one key, in the cache and in all hands
  (`OfOneKey`), and as long as the entry of a key was never lost, whoever holds an
  entry of the key holds the one in the cache (`Current`). This is where the gap
  between `CacheHit`/`CacheMiss` and `CacheAdd` matters;
* what has been written: behind the first of the two stores one word is that of the
  deadline, behind the second both are (`HalfStored`) - if nobody else writes, which is
  `OneWriter`, and follows for goroutines from `OnlyOneWriter`; an entry nobody is
  storing to has a deadline that some `Block` computed, or none (`Settled`);
* what has been promised: it ends within `BlockTicks`, of an entry in the cache
  (`Backed`); the entry's deadline *and the one being stored to it* are at least as
  late (`Honoured`). The second half is what a renewal needs, whose words go in one by
  one while the older promise stands: any mixture of the two deadlines is still late
  enough.

The steps that store no deadline are covered by one lemma (`Frame`); `StoreKeeps` is
either store, `BlockReturnsKeeps` the moment of the promise, `CacheAddKeeps` a new
entry that evicts or replaces. The list of the cache is reasoned about as a relation
between keys and entries (`Caches`), for which `UsedFacts` and `AddedFacts` state what
a hit and an addition do; `DomainOfCache` to `AddedFacts` know nothing of the backend.

That the overrun is bounded speaks of how many goroutines a key has, and the
admissions of a key are spread over all the entries that ever counted them, some of
which nobody can find any more. `Ledger` adds to `IInv` an account of them:

* `Created`: each live entry of a key was made by a goroutine that serves it, and no
  goroutine made two of them. An entry is replaced only by that of a goroutine which
  looked the key up before the first entry was there; a goroutine that comes later
  finds one;
* `Slots`: each admission of a key that is not older than a window is booked under a
  goroutine and a place, no two under the same; while the entry which that goroutine
  made is live, the admission is in that place of its slice. A place is at most
  `EntryLimit`.

So there are no more admissions than goroutines times `EntryLimit`, by the
cardinality of a product (`SlotsBound`) and without induction over goroutines.
`LedgerAllow` does the accounts of an admission: the slice loses its expired prefix,
so the bookings of its entry move down by as many places (`Trimmed`), and the new
admission takes the place behind them (`Recorded`). `LedgerAdd` is the arrival of an
entry, `LedgerFrame` every step without one.

**The Redis backend** (`RedisBackendProofs`). A command may run after its client has
given up, twice, or after a younger one, so what holds must hold of the key whoever
wrote it last. `Promised` says of each block that was acknowledged, and of each field
an `IsBlocked` has read while it stands, that what is stored, and the expiry of the
hash, are at least as late as the promise (`Keeps`, `Stored`). The expiry is counted
from when the script runs and is no shorter than the block, which is counted from a
whole second no later than that (`WholeSeconds`). A promise is made only of a block
that ends at a whole second, and one that does not, whether it was acknowledged or
Redis refused its expiry, takes back every promise it masks (`Lifted`).
`WindowInv` counts: scores are readings of the clock of commands at
most `MaxDelay` late, so each of the last admissions that is younger than a cut by
more than `MaxDelay` has left its member in the set behind that cut (`Counted`), and
the set never holds more than `Limit` (`AdmitWindow`, `TrimWindow`). A refusal names
the score of the oldest member, and once it is out of the window there is room
(`RefuseWindow`).

**The metrics** (`MetricsProofs`). `Bounded` has memory, the copies the savers hold,
and the file below the history `counted`, hour by hour and day by day, and the totals
below the sums. `ExactUntilRestart` is equality in memory as long as nothing was loaded; the
hours that were cleaned up are excepted, their days are not. `SavedKept` follows a
save through the copy to the file: with one saver at a time the copies are ahead of
what was last saved, and the file holds it unless a write was cut short. Sums over
hours and days are cardinalities (`SumOf` counts pairs), so that one more of one of
them is one more of the sum (`SumAdd`) and more of each is more altogether
(`SumMonotone`), for any number of hours and without induction.

**The LRU list** (`SearchedWindowProofs`). `Rep` relates the map and the pointers to
a sequence of nodes: the neighbours of a node in the sequence are its `next` and
`prev`, between the two sentinels, and the map has the keys of the nodes. `Unlink`
and `Link` say what the four pointer assignments of a removal and of an insertion do
to it; `DropRep`, `PlusRep`, `MoveRep` and `EvictRep` put them together as the
methods do. The refinement mapping reads the list back from its pointers, which is a recursive
function; that it returns the sequence which is represented (`ReadBack`) is shown by
taking the first place where the two differ, since the one before it agrees.

What `/today` answers is worked out zone by zone: in a range from the present
midnight to now lies the date of today or none that has begun, and days to come have
no requests (`AlwaysNoneToCome`, `OneDay`).

**The registry.** `IInv == Typed /\ Mutex /\ (~dirty => Agree) /\ Ordered`. `Agree`
relates the map, the file and what administrators were told, by where the holder of
the mutex is: before its save the file is the acknowledged registry and the map is one
valid change ahead; behind the save the file is ahead too. That a failed save is taken
back exactly - the rollback of an endpoint restores the very map there was - is a lemma
about `Changed` and `RolledBack`, and holds only for the changes that are taken back.

**The history.** An append rewrites the file from the copy it read, so while the
store's mutex is held the file is torn and the truth is that copy. `Complete` and
`Remembered` are stated of `Kept`, the file or the owner's copy of the day; the rest is
that the last elements of a sequence and an element more are the last elements of the
longer one (`Newest`).

Assumptions are those of the modules: finite sets of callers, calls and goroutines, natural
or positive parameters, a key for the global limit that is no client's, names for
nobody and nothing that are none of the things named, administrators that are not
subscribers, and workloads made of the declared requests. The cache of
`MemoryBackend` has room for one entry, which `Serves` shows of every configuration
that is accepted; `SearchedWindow` is proved for windows of at least one tick.
`RedisAssumption` has positive limits, commands that are late by no more than a
window, and a default window of whole seconds, which is what `defaultWindowSecs` holds;
`FileAssumption` of `Metrics` that a missing or torn file is no file's contents, and
`ZonesAssumption` that a zone is less than a day from UTC; the
list has sentinels that are no entries, and any capacity.
`MaximumAssumption` of `Middleware` is what validation requires of a maximum, and that
it is less than 292 years. `Serves` has hypotheses of its own: what files and
registrations hold are numbers, and three settings of a file, for which validation
replaces only zero, are not negative (`NumberedFile`). Nothing is assumed otherwise
of registrations, configurations or the number of changes. Bounds of the runs, on the
clock, requests, changes and crashes, are parameters: the theorems hold for each.

Only model-checked:

* liveness (`EventuallyProbed`, `Recovers`, `Terminates`, `Exits`,
  `ForwardedIsRecorded`): it needs fairness
  and `ENABLED`, which the prover does not handle;
* `AskedLimitKept` and `ReloadReturns` are false, which a run shows.

## Not modelled

* Token buckets, in memory and in Redis, the decay of violations and, in Redis, their
  count: no caller reaches them (`allowRequest` always uses the sliding window, and
  refusals of Redis are never violations).
* The matching of a pattern against a path: a base path and a pattern are the set of
  paths they select.
* Detection rules for bots (a free choice in `Middleware`), cookies, headers, bodies,
  JSON, the rewriting of a forwarded request, the health, configuration and debug
  endpoints.
* Settings that none of the modelled parts reads; logging, encryption of cookies.
* The dry run of `/check`, which resolves limits with a copy of `getRateLimits` and
  reads the backend, and the SDK, which is a client of it: neither changes state.
* Of the events, that `GetRecent` sends at most 50 of them, the newest first.
* Client addresses (`base/extractor.go`, `helper/ip.go`): pure functions of headers,
  whose correctness is in the parsing of text. The distributed attack detector
  (`base/limiter.go`): a counter that is only logged.
* Slices that `GetAPI` shares with the registry: aliasing of memory.
* Of the metrics, everything but numbers of requests of one API; `Gateway` has the
  collector's mutex and which APIs it knows.

## Plan

Done: the modules above. The order was: what every request depends on (breaker,
window, backends, pipeline), then persistent state (registry, events, metrics), then
the process they make up.

What would add most next:

1. An abstract limiter - admissions per window and key, blocks that hold - which
   `MemoryBackend` and `RedisBackend` implement with their preconditions, and which
   `Middleware` uses in place of its own window.
2. `RuleMatch`: patterns against a reference definition of a match, over bounded paths.

Every invariant, action property and refinement that a passing run checks is also
proved. With an abstract limiter, its refinement by both backends would be the next
theorem: the inductive invariants above are what it needs.
