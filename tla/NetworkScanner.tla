--------------------------- MODULE NetworkScanner ---------------------------
(***************************************************************************)
(* scan_network (discovery/network_scanner.rs) and its memory-only twin    *)
(* memory_scan_endpoint (discovery/memory.rs): several scans of ONE        *)
(* network that run at the same time and share the two peer caches, the    *)
(* Redis copy and the PeerNode table.  A scan fetches the peer list of its *)
(* endpoint, crawls (PeerTraversal, here one step with any outcome), asks  *)
(* for geo data and, holding REDIS_CACHE's lock to its end, replaces the   *)
(* Redis copy and upserts the table.  Every await is a point where a       *)
(* shutdown or a timeout can drop the scan.  Other scans run there too,    *)
(* and between two updates without an await as well, since those of the    *)
(* HTTP API are on the server's threads.  The process can end anywhere:    *)
(* main does not wait for scans longer than five seconds.  It may start    *)
(* again on the same Redis and table.                                      *)
(***************************************************************************)
EXTENDS Naturals, FiniteSets

CONSTANTS
  Scans,        \* the scans of the network that are started
  Ips,          \* the IPs that peer lists contain, public and not purged
  RpcIps,       \* those that come with an rpc_address
  UseDb,        \* the program has a database: scan_network; else memory mode
  UseRedis,     \* REDIS_CACHE is initialised
  InitialCap,   \* peers cached from the first list (100 in the code)
  FinalCap,     \* peers cached from the crawl (200 in the code)
  ChunkSize,    \* rows of one upsert transaction (100 in the code)
  StaleAge,     \* the age at which last_seen is over 15 minutes old
  Free          \* nobody holds the lock

ASSUME ScanAssumption ==
  /\ IsFiniteSet(Scans) /\ IsFiniteSet(Ips) /\ RpcIps \subseteq Ips
  /\ UseDb \in BOOLEAN /\ UseRedis \in BOOLEAN
  /\ InitialCap \in Nat \ {0} /\ FinalCap \in Nat \ {0}
  /\ ChunkSize \in Nat \ {0} /\ StaleAge \in Nat \ {0}
  /\ Free \notin Scans

VARIABLES
  pc,             \* the await or lock each scan is at, or how it ended
  found,          \* the peers a scan has and their is_live
  batch,          \* peers_with_geo
  todo,           \* the peers of the batch not upserted yet
  allDiscovered,  \* ALL_DISCOVERED_PEERS: IP and the is_live it came with
  knownGood,      \* KNOWN_GOOD_PEERS
  failed,         \* the scans whose endpoint is in FAILED_ENDPOINTS
  lock,           \* who holds REDIS_CACHE
  redis,          \* the network's peers in Redis, with the scan that wrote each
  db,             \* the network's rows of PeerNode
  disturbed       \* history: a write under the lock failed or was cut short,
                  \* and no scan has cleared the Redis copy since

vars == <<pc, found, batch, todo, allDiscovered, knownGood, failed, lock, redis,
          db, disturbed>>
local == <<found, batch, todo>>
caches == <<allDiscovered, knownGood, failed>>

Verdicts == {"untested", "live", "dead"}
BetweenCaches == {"listed", "crawled"}
Holding == {"delete", "store", "upsert", "mark"}
Ended == {"ok", "err", "cancelled"}
PeerMaps == UNION {[S -> Verdicts] : S \in SUBSET Ips}
RedisMaps == UNION {[S -> [by : Scans, live : Verdicts]] : S \in SUBSET Ips}
Rows == [active : BOOLEAN, live : Verdicts, age : 0 .. StaleAge]
Tables == UNION {[S -> Rows] : S \in SUBSET Ips}

TypeOK ==
  /\ pc \in [Scans -> {"fetch", "crawl", "geo", "lock"} \cup BetweenCaches
                        \cup Holding \cup Ended]
  /\ found \in [Scans -> PeerMaps]
  /\ batch \in [Scans -> SUBSET Ips]
  /\ todo \in [Scans -> SUBSET Ips]
  /\ allDiscovered \in PeerMaps
  /\ knownGood \subseteq Ips
  /\ failed \subseteq Scans
  /\ lock \in Scans \cup {Free}
  /\ redis \in RedisMaps
  /\ db \in Tables
  /\ disturbed \in BOOLEAN

Empty == [ip \in {} |-> "untested"]
-----------------------------------------------------------------------------
Smaller(a, b) == IF a <= b THEN a ELSE b

\* The subsets that .take(cap) of a list in no particular order can leave.
Takes(S, cap) ==
  {T \in SUBSET S : Cardinality(T) = Smaller(cap, Cardinality(S))}

\* Mutant: the set is cleared first, as update_cached_peers does with its list.
ReplaceDiscovered(peers) == allDiscovered' = peers

\* HashSet::insert: PeerInfo is compared by IP, a known IP keeps its old entry.
AddDiscovered(peers) ==
  allDiscovered' = [ip \in DOMAIN allDiscovered \cup DOMAIN peers |->
                      IF ip \in DOMAIN allDiscovered THEN allDiscovered[ip]
                                                     ELSE peers[ip]]

\* update_cached_peers: the last writer replaces the list.
ReplaceKnownGood(peers, cap) == knownGood' \in Takes(peers \cap RpcIps, cap)

\* Mutant: the lock is never freed.
ReleaseNone(s) == UNCHANGED lock

\* The lock's guard is dropped when the scan returns or is dropped.
Release(s) == lock' = IF lock = s THEN Free ELSE lock

Goto(s, label) == pc' = [pc EXCEPT ![s] = label]

End(s, outcome) == Goto(s, outcome) /\ Release(s)

\* Mutant: the verdict is written in a form of its own.
EntriesUntyped(s, S) == [ip \in S |-> [by |-> s, live |-> "unknown"]]

\* What store_peers_batch writes for a set of IPs.
Entries(s, S) == [ip \in S |-> [by |-> s, live |-> found[s][ip]]]

Overwrite(f, g) ==
  [x \in DOMAIN f \cup DOMAIN g |-> IF x \in DOMAIN g THEN g[x] ELSE f[x]]

\* Mutant: a delete that finds none of the keys.
KeepAll(f, S) == f

Keep(f, S) == [x \in S |-> f[x]]

\* Mutants of the upsert: last_seen always moves; is_live is not updated.
UpsertedSeen(s, chunk) ==
  [ip \in DOMAIN db \cup chunk |->
     IF ip \notin chunk THEN db[ip]
     ELSE [active |-> TRUE, live |-> found[s][ip], age |-> 0]]
UpsertedOldVerdict(s, chunk) ==
  [ip \in DOMAIN db \cup chunk |->
     IF ip \in DOMAIN db THEN [db[ip] EXCEPT !.active = TRUE]
     ELSE [active |-> TRUE, live |-> found[s][ip], age |-> 0]]

\* INSERT ... ON CONFLICT DO UPDATE: last_seen moves only for a live peer.
Upserted(s, chunk) ==
  [ip \in DOMAIN db \cup chunk |->
     IF ip \notin chunk THEN db[ip]
     ELSE [active |-> TRUE,
           live   |-> found[s][ip],
           age    |-> IF ip \notin DOMAIN db \/ found[s][ip] = "live"
                        THEN 0 ELSE db[ip].age]]

MarkedInactive ==
  [ip \in DOMAIN db |-> IF db[ip].age = StaleAge
                          THEN [db[ip] EXCEPT !.active = FALSE] ELSE db[ip]]
-----------------------------------------------------------------------------
Init ==
  /\ pc = [s \in Scans |-> "fetch"]
  /\ found = [s \in Scans |-> Empty]
  /\ batch = [s \in Scans |-> {}]
  /\ todo = [s \in Scans |-> {}]
  /\ allDiscovered = Empty
  /\ knownGood = {}
  /\ failed = {}
  /\ lock = Free
  /\ redis = [ip \in {} |-> [by |-> Free, live |-> "untested"]]
  /\ db = [ip \in {} |-> [active |-> FALSE, live |-> "untested", age |-> 0]]
  /\ disturbed = FALSE

\* The endpoint's peer list.  If it has no usable address, or in memory mode,
\* KNOWN_GOOD_PEERS is not written here.
FetchInitial(s) ==
  /\ pc[s] = "fetch"
  /\ \E initial \in (SUBSET Ips) \ {{}} :
       /\ found' = [found EXCEPT ![s] = [ip \in initial |-> "untested"]]
       /\ AddDiscovered([ip \in initial |-> "untested"])
       /\ Goto(s, IF UseDb /\ initial \cap RpcIps # {} THEN "listed" ELSE "crawl")
  /\ UNCHANGED <<batch, todo, knownGood, failed, lock, redis, db, disturbed>>

CacheFound(s, cap) == ReplaceKnownGood(DOMAIN found[s], cap)

\* The second cache, under a lock of its own.
CacheInitial(s) ==
  /\ pc[s] = "listed"
  /\ CacheFound(s, InitialCap)
  /\ Goto(s, "crawl")
  /\ UNCHANGED <<local, allDiscovered, failed, lock, redis, db, disturbed>>

\* No peers: the scan ends, and ends well; only scan_network remembers it.
FetchNothing(s) ==
  /\ pc[s] = "fetch"
  /\ failed' = IF UseDb THEN failed \cup {s} ELSE failed
  /\ End(s, "ok")
  /\ UNCHANGED <<local, allDiscovered, knownGood, redis, db, disturbed>>

\* A network-specific parser rejects the response.
FetchError(s) ==
  /\ pc[s] = "fetch"
  /\ End(s, "err")
  /\ UNCHANGED <<local, caches, redis, db, disturbed>>

\* follow_rpc_addresses returns the initial peers and more, some with a verdict.
CrawlReturns(s) ==
  /\ pc[s] = "crawl"
  /\ \E S \in SUBSET Ips :
       /\ DOMAIN found[s] \subseteq S
       /\ \E peers \in [S -> Verdicts] :
            /\ \A ip \in S \ RpcIps : peers[ip] = "untested"
            /\ found' = [found EXCEPT ![s] = peers]
            /\ AddDiscovered(peers)
  /\ Goto(s, "crawled")
  /\ UNCHANGED <<batch, todo, knownGood, failed, lock, redis, db, disturbed>>

CacheCrawled(s) ==
  /\ pc[s] = "crawled"
  /\ CacheFound(s, FinalCap)
  /\ Goto(s, "geo")
  /\ UNCHANGED <<local, allDiscovered, failed, lock, redis, db, disturbed>>

\* fetch_geo_info_batch: an answer may leave peers out.
GeoReturns(s) ==
  /\ pc[s] = "geo"
  /\ \E S \in SUBSET DOMAIN found[s] : batch' = [batch EXCEPT ![s] = S]
  /\ Goto(s, "lock")
  /\ UNCHANGED <<found, todo, caches, lock, redis, db, disturbed>>

GeoError(s) ==
  /\ pc[s] = "geo"
  /\ End(s, "err")
  /\ UNCHANGED <<local, caches, redis, db, disturbed>>

\* What comes after Redis: the table, unless there is none or nothing to write
\* (upsert_peers_batch returns early, before it marks inactive rows).
ToUpsert(s) ==
  IF UseDb /\ batch[s] # {}
    THEN /\ todo' = [todo EXCEPT ![s] = batch[s]]
         /\ Goto(s, "upsert")
         /\ lock' = s
    ELSE /\ Goto(s, "ok")
         /\ lock' = Free
         /\ UNCHANGED todo

AcquireLock(s) ==
  /\ pc[s] = "lock"
  /\ lock = Free
  /\ IF UseRedis THEN /\ Goto(s, "delete")
                      /\ lock' = s
                      /\ UNCHANGED todo
                 ELSE ToUpsert(s)
  /\ UNCHANGED <<found, batch, caches, redis, db, disturbed>>

\* An error of either Redis call is logged and the scan goes on.
DeletePeers(s) ==
  /\ pc[s] = "delete"
  /\ \/ redis' = Keep(redis, {}) /\ disturbed' = FALSE
     \/ /\ \E left \in SUBSET DOMAIN redis : redis' = Keep(redis, left)
        /\ disturbed' = TRUE
  /\ Goto(s, "store")
  /\ UNCHANGED <<local, caches, lock, db>>

StorePeers(s) ==
  /\ pc[s] = "store"
  /\ \/ redis' = Overwrite(redis, Entries(s, batch[s])) /\ UNCHANGED disturbed
     \/ /\ \E S \in SUBSET batch[s] : redis' = Overwrite(redis, Entries(s, S))
        /\ disturbed' = TRUE
  /\ ToUpsert(s)
  /\ UNCHANGED <<found, batch, caches, db>>

\* One transaction of upsert_peers_batch.
UpsertChunk(s) ==
  /\ pc[s] = "upsert"
  /\ \E chunk \in Takes(todo[s], ChunkSize) :
       /\ db' = Upserted(s, chunk)
       /\ todo' = [todo EXCEPT ![s] = @ \ chunk]
  /\ Goto(s, IF todo'[s] = {} THEN "mark" ELSE "upsert")
  /\ UNCHANGED <<found, batch, caches, lock, redis, disturbed>>

MarkInactive(s) ==
  /\ pc[s] = "mark"
  /\ db' = MarkedInactive
  /\ End(s, "ok")
  /\ UNCHANGED <<local, caches, redis, disturbed>>

\* Mutant: the error is logged and the scan succeeds.
DbErrorIgnored(s) ==
  /\ pc[s] \in {"upsert", "mark"}
  /\ End(s, "ok")
  /\ disturbed' = TRUE
  /\ UNCHANGED <<local, caches, redis, db>>

\* A statement or a commit fails: the transaction is rolled back, the scan ends.
DbError(s) ==
  /\ pc[s] \in {"upsert", "mark"}
  /\ End(s, "err")
  /\ disturbed' = TRUE
  /\ UNCHANGED <<local, caches, redis, db>>

\* The select! of a worker or a timeout of memory mode drops the scan, at an
\* await: the locks of the caches are no awaits.
Cancel(s) ==
  /\ pc[s] \notin Ended \cup BetweenCaches
  /\ End(s, "cancelled")
  /\ disturbed' = (disturbed \/ pc[s] \in Holding)
  /\ UNCHANGED <<local, caches, redis, db>>

\* The process ends and starts again: the scans, the caches and the lock are
\* gone, Redis and the table stay as they are.  A scan that has done nothing yet
\* may as well be one that starts afterwards.
Crash ==
  /\ pc' = [s \in Scans |->
              IF pc[s] \in Ended \cup {"fetch"} THEN pc[s] ELSE "cancelled"]
  /\ lock' = Free
  /\ allDiscovered' = Empty /\ knownGood' = {} /\ failed' = {}
  /\ disturbed' = (disturbed \/ lock # Free)
  /\ UNCHANGED <<local, redis, db>>

\* Time passes: last_seen of every row gets older.
Tick ==
  /\ \E ip \in DOMAIN db : db[ip].age < StaleAge
  /\ db' = [ip \in DOMAIN db |-> [db[ip] EXCEPT !.age = Smaller(@ + 1, StaleAge)]]
  /\ UNCHANGED <<pc, local, caches, lock, redis, disturbed>>

Step(s) ==
  \/ FetchInitial(s) \/ FetchNothing(s) \/ FetchError(s)
  \/ CacheInitial(s) \/ CrawlReturns(s) \/ CacheCrawled(s)
  \/ GeoReturns(s) \/ GeoError(s)
  \/ AcquireLock(s) \/ DeletePeers(s) \/ StorePeers(s)
  \/ UpsertChunk(s) \/ MarkInactive(s) \/ DbError(s)

Next == Tick \/ Crash \/ \E s \in Scans : Step(s) \/ Cancel(s)

\* The timeout that memory mode puts around a scan, here for its fetch.
FetchTimesOut(s) == pc[s] = "fetch" /\ ~UseDb /\ Cancel(s)

\* HTTP calls have timeouts and the stores are taken to answer.  The fetch is no
\* single call: as long as the endpoint answers 429 it is repeated, and nothing
\* ends it but the timeout of memory mode.  Nothing else obliges a scan to be
\* cancelled, the process to end or time to pass.
Spec ==
  /\ Init /\ [][Next]_vars
  /\ \A s \in Scans : /\ WF_vars(pc[s] # "fetch" /\ Step(s))
                      /\ WF_vars(FetchTimesOut(s))
-----------------------------------------------------------------------------
\* The lock is held exactly from the first write to the end of the scan.
LockIsHeld == \A s \in Scans : pc[s] \in Holding <=> lock = s

\* What whoever looks between two scans sees of a scan and of the two stores.
Phase(label) ==
  CASE label \in Holding -> "writing"
    [] label = "ok" -> "done"
    [] label \in {"err", "cancelled"} -> "failed"
    [] OTHER -> "working"
Phases == [s \in Scans |-> Phase(pc[s])]
Result(s) == Entries(s, batch[s])
Copy == IF disturbed \/ \E s \in Scans : pc[s] \in Holding THEN Free ELSE redis
Verdict == [ip \in DOMAIN db |-> db[ip].live]

Atomic == INSTANCE PeerStore WITH
  HasCopy <- UseRedis, HasTable <- UseDb, Unknown <- Free,
  phase <- Phases, result <- [s \in Scans |-> Result(s)],
  copy <- Copy, verdict <- Verdict

\* The calls under the lock amount to one: a scan that ends well has published
\* its whole batch in both stores, no scan writes while another does, and
\* errors, cancellation and the end of the process at any await leave of a scan
\* nothing but a copy marked as such and rows of its batch.
ImplementsPeerStore == Atomic!Spec

\* A scan updates the two caches twice, under two locks, and between them other
\* scans update both: an endpoint that is offered for reuse is nevertheless always
\* one the API's fallback knows of.
KnownGoodIsDiscovered == knownGood \subseteq DOMAIN allDiscovered

\* Scans of one network do not mix in Redis: unless a write failed or was cut
\* short since Redis was last cleared, whoever gets the lock finds the batch of
\* exactly one scan, or nothing.
RedisIsOneBatch ==
  lock = Free /\ ~disturbed =>
    \/ DOMAIN redis = {}
    \/ \E s \in Scans : redis = Entries(s, batch[s])

\* The lock covers the Redis copy and the table: whoever gets it finds them in
\* agreement on the peers in Redis.
RedisMatchesTable ==
  lock = Free /\ ~disturbed /\ UseDb =>
    \A ip \in DOMAIN redis : ip \in DOMAIN db /\ db[ip].live = redis[ip].live

\* A scan that reports success has every peer of its batch in the table.
OkIsRecorded ==
  UseDb => \A s \in Scans : pc[s] = "ok" => batch[s] \subseteq DOMAIN db

\* last_seen of a row moves forward only when a scan found the peer live, so a
\* dead peer that keeps being listed by others still goes stale.
RefreshNeedsLivePeer ==
  \A ip \in DOMAIN db : db'[ip].age < db[ip].age =>
    \E s \in Scans : pc[s] = "upsert" /\ ip \in todo[s] /\ found[s][ip] = "live"
LastSeenIsASighting == [][RefreshNeedsLivePeer]_vars

\* In memory mode every scan ends, whatever the others do with the lock and
\* whatever its endpoint answers.
ScansEnd == \A s \in Scans : <>(pc[s] \in Ended)

-----------------------------------------------------------------------------
\* README.md: /live_peers returns the "list of live peer connection strings".
\* Without database and Redis it reads ALL_DISCOVERED_PEERS, so a peer that a
\* finished scan found live is live there.
LiveVerdictIsVisible ==
  ~UseDb /\ ~UseRedis =>
    \A s \in Scans : pc[s] = "ok" =>
      \A ip \in DOMAIN found[s] \cap DOMAIN allDiscovered :
        found[s][ip] = "live" => allDiscovered[ip] = "live"
==============================================================================
