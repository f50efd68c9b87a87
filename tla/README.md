# LFP in TLA+

LFP finds the peers of Cosmos networks: it asks an RPC endpoint for its peer
list, crawls from peer to peer, looks up geo data, stores what it found in Redis
and PostgreSQL, and serves it over HTTP.  It is a Tokio program: every `.await`
is a place where other tasks run, and where a `select!` or a timeout can drop
the task for good.  These modules model the parts in which that matters, TLC
checks them on small instances, and TLAPS proves the central invariants for
every value of the constants.

Paths below are relative to the repository's root (`src/…` are the Rust files).

## 1. Inventory

| Component | State | Operations | What makes it correct |
|---|---|---|---|
| **Peer traversal** `discovery/peer_traversal.rs` | result map, `seen_ips`, queue, shared `visited`, results of a round, two counters | `follow_rpc_addresses`: rounds of concurrent tasks that ask `/status` and `/net_info`, then a merge | no URL asked twice; the two records of known IPs agree; no address lost; verdicts and entries kept; limits; termination |
| **Network scan** `discovery/network_scanner.rs`, `discovery/memory.rs:485-630`, `discovery/cache.rs`, `discovery/geo.rs` | global peer caches, `FAILED_ENDPOINTS`, the lock of `REDIS_CACHE`, Redis keys, table rows | `scan_network`, `memory_scan_endpoint`: fetch, crawl, geo, replace Redis, upsert, mark inactive | concurrent scans do not mix; table and Redis agree; `last_seen` is a sighting; the lock is always given back |
| **Worker manager** `discovery/service.rs:375-685, 812-895` | `active_workers`, index into the cached list, failures, handles, semaphore | `scan_chain_with_multiple_workers`, `spawn_scan_worker`, `trigger_network_scan` | the count is the handles; permits suffice; the list is walked without gaps; a call returns; its workers stop |
| **Discovery service** `discovery/service.rs:32-373, 687-810` | `NetworkScanState`: counts, stability, last scan | `start_discovery_service`, `scan_chain_with_cached_peers`, the shutdown checks | a skipped network was really stable, and is scanned again; the signal stops the loop |
| **Memory-only discovery** `discovery/memory.rs:22-483` | task per network, permits, view of the cached peers | first pass, continuous passes, cached / primary / fallback attempts | every network is asked in every pass; the signal ends it |
| **Peer table** `db.rs` | table `PeerNode` | upsert, mark inactive, purge, reads, statistics, move of a renamed network | chunks are atomic; a move in three statements loses no peer and completes if nobody writes between them |
| **Redis cache** `redis_cache.rs` | keys per network and IP | store, delete, read, purge of private addresses | as for the scan |
| **Peer list parser** `discovery/peer_parser.rs` | one response, attempt counter | fetch with retries, parsers by network | ends; drops what is not public |
| **Database cache** `cache.rs` | statistics, peers by network string, one `last_refresh` for all, two settings | `is_stale`, `get_*`, `update_*`, `update_config` | what it holds is complete; when it passes for fresh; a refresh is not undone by an older answer |
| **HTTP API** `api.rs` | none of its own | nine handlers, choice between cache, database, Redis and memory | the lock is always given back; every request is answered; triggered scans |
| **Configuration** `config.rs` | URLs by network | `from_env`, `get_rpc_urls` | a network has its own URLs |
| **IP policy, address rewriting** `utils.rs`, `discovery/utils.rs` | none | pure functions | public addresses only |
| **Life cycle** `main.rs` | broadcast channel, task handles, the server | start-up and its purges, signal, wait of five seconds, exit | the process ends; what it cuts off is found in order by the next one |
| Command line, data types, errors `cli.rs`, `models.rs`, `error.rs` | none | declarations | |
| **Migration tool** `migrate_omniflix.rs` | a process of its own | one call of `db.rs` | may be cut off anywhere and run again |

**How they interact.**  `main` starts either `start_discovery_service` (with a
database) or `run_memory_only_discovery`, and the HTTP server beside it; they
share only global state (the peer caches, Redis, the table) and the broadcast
channel of the shutdown signal.  The service calls the pass over cached peers
and then the worker manager, network by network.  The manager spawns workers,
each of which is one network scan; an API request calls the same manager for
the same network at any time.  The API reads the table through `DB_CACHE`, which
scans do not know of, and the migration tool writes the table from outside the
program.  A scan runs one crawl.  So several scans of one
network can be in flight, from the same call, from an earlier call whose handles
were dropped, and from the API, and all of them write the same caches.

**What is hard.**  Interleavings inside a crawl and between scans; a lock held
across many awaits and released by cancellation; counters kept beside the
collections they count; values read before an await and used after it (the
emptiness of a cache, the map entry a verdict is for); limits tested at one place
and consumed at another; a signal that several checks compete for; a timeout that
detaches what it was waiting for; endpoints that never answer or answer 429
forever; answers that are read without a lock and stored with it; three statements
that have no transaction; a process that ends between two writes.  `PROJECT.json` lists each at its line.

## 2. The modules

```
     Crawl          promise of a crawl
       ^ implements
     PeerTraversal  <- proofs in PeerTraversalProofs
       : one step of
     NetworkScanner <- NetworkScannerProofs   implements PeerStore
       : one worker of                     : one attempt of
     ChainScan  <- ChainScanProofs       MemoryDiscovery <- MemoryDiscoveryProofs
       : one call of    implements WorkerPool
     DiscoveryService  <- DiscoveryServiceProofs

     PeerTable <- PeerTableProofs    implements RenamedTable
       ^ extended by
     Api  <- ApiProofs (extends PeerTableProofs)       and extends DbCache
```

A dotted level abstracts the one above it to its outcomes: `CrawlReturns` of
NetworkScanner allows every result a crawl can have, `WorkerEnds` of ChainScan
every end of a scan, `WorkersReturn` of DiscoveryService every return of a call.
Each `MC…` module gives a component its small instance.  A definition whose
comment starts with "Mutant:" is a plausible bug of the definition after it, for
checking that the property it is meant for would notice; no specification uses
it.

### PeerTraversal and Crawl

One member of `Peers` is one `PeerInfo` as a list may contain it: an IP and what
its `rpc_address` resolves to.  Two members can share an IP, since `PeerInfo` is
compared by IP alone, or a URL.  `BeginRound` is the two limit checks, the
shuffle and the `drain`; `StartTask` the first poll of a task by
`buffer_unordered`, up to the release of the lock on `visited`; `StatusReply` and
`FetchReply` the continuations after the two requests; `Merge` the loop over the
collected results; `Finish` every way out of the loop.  The queue is a set because
it is shuffled and its order never used.

`Crawl` states the promise without rounds: only known IPs grow, an address is
contacted only if it was advertised for a known IP, none twice, nothing is learned
before somebody was contacted, and the crawl stops.  `ImplementsCrawl` is the
refinement (known = `KnownIps`, contacted = the URLs with a request, open =
not done), checked with Crawl's fairness and proved for its safety part.

`VerdictsMatchContacts` is what the next level takes from this one: that every
verdict is of an IP one of whose addresses was asked is why `CrawlReturns` of
NetworkScanner gives no verdict to a peer that cannot be asked.

### NetworkScanner

`pc` names the await or lock a scan is at.  Each action is what happens between two
of them, and every action of a scan has its failing forms.  The two caches have a
lock each, and a scan updates them one after the other without an await in between:
`FetchInitial` and `CrawlReturns` add to `ALL_DISCOVERED_PEERS`, `CacheInitial` and
`CacheCrawled` then replace `KNOWN_GOOD_PEERS`.  Between the two no scan can be dropped,
but other scans of the network run there: those started by `/peers/scan/{network}`
are spawned on the threads of the HTTP server, or in a runtime of their own without a
database.  The lock on
`REDIS_CACHE` is taken even if Redis is not configured, and its guard lives to
the end of the function, so the upsert of the table happens under it as well.
With `UseDb = FALSE` the module is `memory_scan_endpoint`, which differs in
three places (the first list does not replace the cached peers, the failed
endpoint is not remembered, nothing is upserted).  `Cancel` is the drop of the
future by a worker's `select!` or by a timeout, at any await, and so never between the
two caches.  `Crash` is the end
of the process (`main` waits five seconds and no longer) and its next start: all
scans under way, the caches and the lock are gone, Redis and the table are what
they are.  `disturbed` is a history variable: it separates what the code promises
from what it cannot when a write failed, or the process ended, in the middle; the
promise holds again as soon as one scan has cleared Redis, also for a scan of the
next process.

`PeerStore` is that promise to whoever looks between two scans: a scan is working,
writing, done or failed, and publishes its result as a whole, one scan at a time.
In the refinement a scan's phase is read off its `pc`, its result off its batch; the
copy is Redis, but unknown while somebody writes it and after a disturbance; of the
table it keeps the peers and the last verdict on each.  `Begin` is the taking of the
lock, `Publish` the last write, the calls between them are stutters or `WriteRows`;
`Fail` takes a set of scans since `Crash` ends all at once.

### ChainScan

The workers of one call are interchangeable and are counted: `waiting`,
`scanning`, `finished` with a handle still held.  The loop of the manager is split
at its awaits into `Check`, `Reap`, `Add`/`AddNone` and the drain.  `Discovered` is
a constant because nothing adds to `discovered_peers` while the manager runs.
`told` is what the workers' receivers will see; a closed channel completes `recv`
in the `select!`, but is not what `try_recv` looks for before the scan.  A call of the
API closes it by returning, since the sender is a local variable of
`trigger_network_scan`; the service keeps its sender and forwards a signal.
`MaxCalls` bounds how many of the `Calls` are made.  That the
manager can find `Discovered` at the limit is allowed by the module, though today's
callers never start it so: the service goes on to the next network when the pass found enough, and a call from the API starts from zero.

`WorkerPool` forgets how the manager counts: each call opens a pool with two
workers, takes on more while it is open and below the limit, and closes it; workers
end at any time, after that too.  The refinement maps the workers of a call to
`waiting + scanning`, whether or not the manager still knows of them.

### DiscoveryService

`main` is the other actor: it serves, drains the server, waits for the service, is
gone.  `SendSignal` is what the task that waits for Ctrl+C does, the broadcast and
`stop(true)`; `ServerStops` is the end of `server.await`, when the open connections
have been served, half a minute later at most; `MainExits` is the end of the five
seconds or of the service, whichever is first.  Nothing of the service runs after
that, whatever it was doing.  `Terminate` is SIGTERM, which actix handles itself and
nobody broadcasts.  It handles Ctrl+C as well, and when its own handler is first it
closes the connections at once; `ServerStops` may therefore follow without delay.

Of the times of the shutdown, one comparison matters and is kept: a cycle ends with a
sleep of ten seconds, which is longer than the five that `main` waits.  `EndCycle`
goes to `sleep`, from which `WakeUp` starts the next cycle, or, if `main` has begun to
wait, to `lastSleep`, which nothing ends but the process.  A sleep that begins while
the server drains can be over before the server has stopped.

The loop with its three shutdown checks, the two reports per pass
(`CachedOk`, `WorkersReturn`) and `NetworkScanState`.  `age` is the time since
`last_scan_time`, in ticks and kept up to one tick past `TwoHours`.  Percentages
are compared as `100 * diff >= Threshold * count`.

### MemoryDiscovery

The tasks of a pass, the permits, the look at the cache when a task is created and
the second look after the permit, the three kinds of endpoint and their order, and
the signal checks.  `network` and `continuous` are the command-line options, chosen
by `Init`.

### PeerTable, DbCache and Api

`PeerTable` is the table for everybody who writes it, with a row reduced to the pair
of network and IP: a scan's transaction (`ScanWrites`), the purge at start-up (one
`DELETE`), and the three statements of `migrate_omniflixhub_to_omniflix` with an
interruption between any two.  `clock` numbers the changes and `version` says which
of them was the last for a network, so that an answer can be told from an older
one.  `quiet` is a history variable: no scan wrote since the migration began.

`RenamedTable` is the table for a reader who takes the old name for the new one: with
a row of either name counted as the peer's, the migration, its failures and its
repetitions are invisible, and a peer goes only if the purge matches it.

`DbCache` is `DatabaseCache`.  Statistics and the lists of the networks are entries
of one function; an entry is the change of the table it was read at, whether it was
filtered, and its age.  `AsSigned` is the cast of the configured `u64` interval to
`i64`.

`Api` extends both and serves requests: `Get` is `/peers/network/{network}` or
`/stats`, `Refresh` is `/cache/refresh` in its three forms.  `Lock`,
`AnswerFromCache` and `Miss` are the look at the cache, `Query` one statement,
`StoreAnswer` the store under the lock taken again.  The refresh of everything goes
through its networks by `Proceed`, in any order since they come from a hash map.
`Disconnect` drops a handler at an await.  `Restart` is the end of the process and
the start of the next: empty cache, configured interval, the purge if the database
can be reached.  `Others` are the migration, the scans, `/cache/configure` and
time.  `floor` is a history variable for `RefreshesStick`.

## 3. What is checked

| Run | Instance | Shows |
|---|---|---|
| `PeerTraversal` | 5 reports of 4 IPs, 2 URLs, batches of 2, 2 tasks at a time, 3 rounds, 3 attempts | the six invariants, `EntriesAreStable`, `StepsAreCounted`, the refinement of `Crawl`, termination |
| `NetworkScanner` | 2 scans, 2 IPs of which one is crawlable, caps and chunks of 1, ages 0 to 2, Redis and table, the process ending at any point | the refinement of `PeerStore`, no mixing in Redis, Redis in agreement with the table, the caches in step, `last_seen` moves only for a live peer |
| `NetworkScanner_memory` | 2 scans, 1 IP, no table | every scan ends whatever the other one does and whatever its endpoint answers |
| `ChainScan` | one call, of the service or of the API, 3 endpoints, cached lists up to 2 entries, 3 workers, 3 permits, up to 2 added per pass, 2 failures | the count is the handles, no entry is skipped, the refinement of `WorkerPool`, the call returns, left-over workers stop once a signal is forwarded or their channel closed |
| `DiscoveryService` | 3 networks, one without URLs, counts 100, 104, 105, 200, stability limit 4 | what the stability counter means, that every network is scanned again unless a pass over cached peers never ends, that Ctrl+C ends the process |
| `MemoryDiscovery` | 3 networks (ordinary, primary skipped, not configured), 2 permits, all options | every network is asked in every pass, continuous discovery ends for two reasons only, the signal ends it |
| `Api` | 2 requests, 1 key beside the statistics, 2 networks (the two names of the migration), 2 IPs of which the purge matches one, 1 write of a scan, 2 intervals (0 and one past the signed limit), ages to 1, restarts | complete lists in the cache, what `last_refresh` is, no older answer over a newer one, the refinement of `RenamedTable`, the completion of the migration, every request answered |

Why these bounds are enough.  Every limit is small enough to be reached and
passed: a round overruns the attempts, the chunk of one forces several
transactions per batch, caps of one make `take` choose, two permits make a third
task wait, the cached list ends inside a window.  Two reports of one IP with
different URLs and two IPs with one URL are the two ways identities can clash in
a crawl.  Two scans suffice for the shared lock and caches, whose invariants
relate at most two of them.  The counts sit on both sides of five percent (100 to
104 and 105) and at the maximum.  Endpoint and message contents are reduced to
what the code branches on.  In `Api` one key is enough for two entries, since the
statistics are the other one, and two requests are one that reads and one that
overtakes it; `get_peer_stats` has two statements instead of five, which separates
the first one, whose moment counts, from the last one, which fails on an empty
table.  `Alongside = FALSE` lets the migration run only after the requests of the
instance, beside scans, restarts and purges; `MaxWrites` bounds the transactions of
scans.  The proofs have neither bound, nor the single key.  `ChainScan`
makes one call (`MaxCalls = 1`), of either kind, because two at once are more than TLC
finishes with; what two calls share is only the cache, which changes at any time in
the run.  Calls that follow each other or overlap are in `ChainScan_outlive` and, in
any number, in the proofs.  `age`, the length of cached lists, the caps and the
chunks are the bounds; all are constants of their module.

`CHECK_DEADLOCK FALSE` is set where a system ends: a crawl and a scan return, a
call has returned and its workers are gone, discovery has stopped.

### Fairness

* `PeerTraversal`: weak fairness of the whole step relation.  Each request has a
  timeout, so some task always can go on; no single task is favoured.
* `NetworkScanner`: weak fairness of each scan's own steps, except that nothing
  forces a cancellation or the passing of time.  HTTP calls have timeouts; Redis
  and PostgreSQL are taken to answer, which the code also assumes.  Weak fairness
  is enough for the lock because a scan takes it once.  The fetch has no fairness:
  an endpoint that answers 429 keeps it going, and only the timeout around a scan
  of memory mode (`FetchTimesOut`) is sure to come.  `ScansEnd` is therefore checked
  for memory mode; a scan with a database may never end.
* `ChainScan`: the manager, its clock, a spawned worker that has a permit and a
  worker that was told to stop.  **Not** the end of a scan: `fetch_peer_info`
  retries on 429 without counting the attempt (`discovery/peer_parser.rs:141`), so
  `CallsReturn` and `ToldWorkersStop` hold although workers may never finish.
* `DiscoveryService`: the loop outside the pass over cached peers, and the clock.
  The call of the workers has its limit of an hour.  The pass has none:
  `scan_chain_with_cached_peers` awaits its scans without a timeout (`service.rs:796`),
  and a peer that answers 429 forever keeps it there.  `NetworksAreRescanned`
  therefore names this one exception.
  `ShutdownCompletes` needs only `main`: the server stops after Ctrl+C (actix gives
  open connections half a minute) and the wait for the service has a timeout.
* `Api`: each request's own steps.  A statement ends, if only with an error, and the
  mutex of Tokio is fair.  Nothing obliges a scan, the migration, the clock or a
  restart to happen.
* `MemoryDiscovery`: discovery as a whole; its scans have timeouts and its interval
  passes.

### Disagreements between the code and what it says

Five runs end in a counterexample.

* `PeerTraversal_maxpeers`: `--max-peers` is the "maximum number of peers to
  discover per network" (`cli.rs:28`) but is compared before a round only; the
  first list and a merge can pass it.
* `NetworkScanner_livefallback`: without database and Redis the live peers are read
  from a `HashSet` whose entries, once inserted as untested, are never replaced, so
  a peer found live by a finished scan is not listed as live.
* `ChainScan_outlive`: "force stop workers" (`service.rs:601`) and "will be
  dropped" (`service.rs:618`) describe something that dropping a `JoinHandle` does
  not do; workers go on after their call has returned.
* `DiscoveryService_shutdown`: the check inside the loop over networks takes the
  signal and leaves only that loop, so a service that has logged that it stops
  goes on to the sleep between cycles and starts the next cycle.  It takes a server
  that drains for longer than that sleep, as `stop(true)` (`main.rs:193`) allows and
  as SIGTERM shortly before Ctrl+C makes it do; in the last five seconds of `main`,
  and so if actix is quick to cut the connections off, the sleep is all that happens.
* `MemoryDiscovery_fallback`: an endpoint that is down yields an empty list and a
  scan of an empty list succeeds, so the fallback is not tried although the primary
  "completely failed" (`memory.rs:429`).

Met on the way and not given a run: `--max-peers 0` is documented as unlimited but
stops after 500 attempts; the comment on failed endpoints (`service.rs:527`) does
not keep an endpoint from being tried again, since only URLs that are skipped anyway
are entered; a network is taken for stable after about half as many passes as
`max_stable_scans` says, because a pass reports twice (`StabilityCountsPasses`
states the exact relation); "will scan each chain until finding {} peers or scanning
for 1 hour" (`service.rs:171`) is not so for the pass over cached peers, which may
never end; with `--network`, an error of the first pass ends
memory-only discovery even with `--continuous`.

Others have to do with the cache and the table.  "If fresh" (`cache.rs:63`) is about
the newest entry, not the one asked for: a list stays fresh as long as any other
network or the statistics are refreshed (`LastRefreshIsNewest`).  A slow `GET` that
read the table before a refresh and stores after it undoes the refresh, which is
why `RefreshesStick` speaks of stores that nobody holds an older answer to.
`/cache/refresh?network=Omniflix` stores under `omniflix`, while the configured name
and a client that asks for `Omniflix` use another key.  `/stats` adds up statements
of different moments, and is an error on an empty table, where `MAX("last_seen")` is
NULL.  An interval of 2^63 or more is negative after the cast, so the cache is always
stale.  `cache_ttl` is configured and never read.  The `LIKE` patterns of the purge
match some public addresses (`172.1%.__`, `100.6%.__`) and miss private ones with a
last part of one or three digits.  The purge of Redis takes what follows the last
colon of a key for the address, which is no address for IPv6, so public IPv6 peers
go too; the model's addresses are IPv4.  `/peers/scan/{network}` is registered
before `/peers/scan/status` (`api.rs:18-19`), so the documented status
(`README.md:123`) is a request for the network `status`, which is not configured: the
answer is 400 (`api.rs:225-229`).  SIGTERM stops the server but is
not broadcast, and the service is cut off after five seconds.

## 4. What is proved

The proofs hold for all constants that satisfy the `ASSUME`s of the modules: finite
sets of peers, IPs and URLs, positive batch sizes and limits, `MaxWorkers` at least
the two workers a call starts with and at most the permits, a threshold between 1
and 100 percent, a configuration that names finitely many networks.

**PeerTraversalProofs.**  `IndInv` is the conjunction of the checked invariants with
the facts they need in the middle of a round: a URL that was asked is visited (so
the test under the lock excludes a second request); queued and processed peers have
an entry (so `get_mut` finds it); only known IPs carry verdicts (so an insert cannot
erase one); a URL that was asked is either being asked or has left its verdict, and a
verdict is of an IP that was asked; tasks run in rounds only.  `AttemptsBounded` counts
what is asked with what waits, so that the start of a task moves one from the second
to the first and no step but the start of a round adds to their sum.  Each conjunct is
shown separately for each action.  From it follow type correctness,
`SeenMatchesResult`, `NoUrlAskedTwice`, `NoAddressLost`, `AttemptLimitHolds`,
`VerdictsAreKept`, the action property `EntriesKept`, and `CrawlImplemented`: initial
states map to initial states of `Crawl`, and every step to a step of it or a stutter.

`CrawlIsBounded` is the half of termination that is safety: `StepsLeft` is a natural
number and every step makes it smaller, so a crawl takes at most
`5 * (MaxQueryAttempts + MaxPeersPerDepth - 1) + 1` steps, whatever its peers report.
An attempt pays for the three steps of its task and, in a round of one, for the start
and the merge.  What is left to TLC is that the crawl does not stop short of its end.

**ChainScanProofs.**  `ActiveIsHandles` alone does not bound anything; the
strengthening bounds the count (and leaves room in the pass that adds workers), and
bounds the workers of a call *after* it has returned as well, when the count is no
longer kept.  The lemma `FreshSize` (a pass finds at most as many usable entries as
positions it looks at) is the only step that needs cardinalities.  `NoEntrySkipped` is
inductive on top of it.  `NoWorkerBlocks` (`SemaphoreNeverBlocks`: no worker of a call,
left over or not, waits for a permit) follows from the bound and
`MaxWorkers <= Permits`.

`WorkerPoolImplemented` goes through the actions: `Start` opens a pool (a new call has
no workers, and the service's guard is `WorkerPool`'s), a pass takes on as many as it
found entries, which the count of handles leaves room for, a worker that gets its
permit is a stutter unless it ends there, the two drains close the pool, and everything
else cannot be seen.  A worker that outlives its call is one of a closed pool, which
`WorkerPool` allows; that it stops once told is `ToldWorkersStop`, for TLC.

**DiscoveryServiceProofs.**  A pass may call `update_peer_count` twice, so whether
the counter may be raised depends on why the pass was allowed and what the first
report did.  `PassIsDue` (until its first report, the network is unstable or long
not scanned) and `SecondReportFits` (after it, there is room for one more) carry
that.  `LosingAllIsSignificant` is the arithmetic of the threshold.

**NetworkScannerProofs.**  `RedisIsOneBatch` and `RedisMatchesTable` speak of the
moments when nobody has the lock, so the invariant says how far its holder has
come: a scan about to store finds Redis empty, one that upserts finds its own batch
there (`RedisProgress`), and a peer in Redis on which the table does not agree is
still to be upserted by that scan (`TableProgress`, with `UpsertProgress`:
everything of the batch that is not left to do is in the table).  When the lock is
free nobody upserts, so they agree.  `KnownGoodIsDiscovered` needs the moment between
the two caches: what a scan there is about to offer for reuse is known already, by its
own first update, and stays so whatever other scans do, since that set only grows
until the process ends, and the scan with it (`FoundIsKnown`).  The lemma `WrittenStays` is why the entries
stay comparable afterwards: from its store on a scan changes neither its verdicts
nor its batch.  What a write does to the maps is stated once each (`UpsertEffect`,
`MarkEffect`, `TickEffect`, `OverwriteEmpty`, ...), and `CrashEffect` that what is left
by the end of a process is either what a scan with the lock had finished or
`disturbed`.  `LastSeenOnlyOnSighting` is an
action property from the same invariant.

`PeerStoreImplemented` rests on the same facts and one more: `RowsWritten`, that a row of
the batch that is no longer to be written shows this scan's verdict (nobody else
writes meanwhile), so that the table is complete when the scan publishes.  A phase
changes only at the first write, at the end and in a failure (`PhaseOfOne`,
`PhaseStays`); a result once there does not change (`ResultStays`); the copy is unknown
while a scan writes and, at its end, its batch or still unknown (`CopyIs`).  `Crash`
maps to `Fail` of all the scans it ends at once (`CrashMapsToStore`).  That a scan which
ends well has its batch in the table (`SuccessIsRecorded`) and that the lock is held
exactly while a scan writes (`LockDiscipline`) are theorems on the way.

**PeerTableProofs** has the lemmas about the table that hold for every specification
whose steps on it are among `TableStep`.  `ConflictsAreDouble` (what the migration is
about to delete is still there under the new name, or matched by the purge) makes
the `DELETE` lose nothing; `ConflictsAreAll` (while no scan has written, nothing else
is double) makes the `UPDATE` meet no conflict.  Both say something only between
the `SELECT` and the `DELETE`, and both survive a purge, an interruption and a second
run.  `TableStepRefines` maps every step of the table to `RenamedTable`: a write of a
scan adds, the purge removes, and the migration's statements are stutters but for
the rows that the `DELETE` takes after the purge has taken their doubles, which
`RemovableGone` shows to be among those the purge matches.

**ApiProofs** cites them and adds the requests.  `RefreshesStick` is not inductive: the
invariant adds that an answer on its way to the cache is between the floor of its
entry and the present (`AnswersAreAboveFloor`, `FloorIsPast`) and that a request that
stores has asked (`AskedFits`).  A store raises the floor only if no other request
holds an answer, so nobody is below it; a query starts at the present, which is
never below it because versions only grow.  `LastRefreshIsNewest` and
`EntriesAreComplete` are inductive with it; `RenamedTableImplemented` (and with it
`MigrationLosesNoPeer`, that no peer loses its last row except to the purge) lifts the
lemma on the table to the whole system.  All of it holds with the migration beside the
requests.  Two theorems are the half of `RequestsEnd` that is safety.
`LockIsHeldBriefly`: whoever has the lock only has to look at the cache or to store, so
nobody waits for it in vain.  `RequestsAreBounded`: `WorkLeft` (the statements, the lock and
the store of the entry, and as much again for each network still to refresh) is a
natural number that every step of a request's own lowers and that no other request, scan,
migration or restart raises.  What is left to TLC is that the fairness of the tasks
makes those steps happen.

**MemoryDiscoveryProofs.**  `TasksAsk` (a task past its permit has asked, if its network
is configured, and one that failed has asked the fallback) and `TasksBelong` (only
networks of the pass have tasks, and none runs outside a pass) give
`NoNetworkLeftOut`, and `ContinuousDiscoveryGoesOn` as an action property.

Only model-checked: everything about liveness (`Termination`, the fairness part of
`ImplementsCrawl`, `ScansEnd`, `CallsReturn`, `ToldWorkersStop`,
`NetworksAreRescanned`, `ShutdownCompletes`, `SignalEndsDiscovery`, `RequestsEnd`),
which is beyond the prover: it has no rule for weak fairness and no `ENABLED`.  The
invariants and action properties the runs check, and the safety of the four
refinements, are all proved.

## 5. Not modelled

Parsing of responses, geo data, the wording of URLs, logging and HTTP are abstracted
to outcomes.  The random sleeps before a task and between requests, the second after a
network of the service and the pauses inside the worker manager are not modelled: they
delay but do not order anything.  The manager's own shutdown receiver is left out,
since nobody sends while it runs.  `failed_endpoints` of the manager changes no
decision.

* `config.rs`, `utils.rs`, `discovery/utils.rs`: string functions without state.  Their
  verdicts are constants here (the configured networks, what an address resolves
  to, which addresses are public or match the purge).
* `peer_parser.rs`: which parser reads a response, and its loop of attempts beyond
  "may never return", which is what the other modules depend on.
* The handlers that only read (`/peers`, `/live_peers`, `/health`, scan status), and
  the answers from Redis and memory inside those that are modelled: they change no
  state.  `/live_peers` without a database is in `LiveVerdictIsVisible`.
* `create_pool` and `run_migrations`: idempotent statements before anything else runs.
* The purge of Redis at start-up, whose addresses no scan writes (apart from IPv6, see
  above).
* The table of NetworkScanner (columns, one network) and of PeerTable (networks, no
  columns) are two views of one table and are not composed: together they exceed what
  TLC can enumerate, and no property relates a column to the migration.

## 6. Order of the work, and what could follow

The crawl, the scans, the manager and the services came first, then the table with
the migration, the cache and the HTTP server, the end of the process, the proofs of
each, and the abstract specifications `PeerStore`, `WorkerPool` and `RenamedTable` with
theirs.  What could follow: the counterpart of `CrawlIsBounded` and
`RequestsAreBounded` for the scans (each has a number of steps left); an abstract
specification of the discovery service that only says when a network is due; the loop
of `fetch_peer_info` as a module of its own; the address policy against a reference of
the reserved ranges.
