------------------------- MODULE NetworkScannerProofs -------------------------
(***************************************************************************)
(* The safety of concurrent scans, for any number of scans, any IPs and    *)
(* any caps and chunk sizes, with errors and cancellation at every await.  *)
(* The properties of Redis and the table hold when nobody has the lock, so *)
(* the invariant says how far the holder has come with both.               *)
(***************************************************************************)
EXTENDS NetworkScanner, TLAPS

Maps(V) == UNION {[S -> V] : S \in SUBSET Ips}

\* What a scan is about to offer for reuse, it or another scan made known before.
FoundIsKnown ==
  \A s \in Scans :
    pc[s] \in BetweenCaches => DOMAIN found[s] \subseteq DOMAIN allDiscovered

\* A scan has a batch only after the geo lookup, and of peers it found.
BatchComesLate ==
  \A s \in Scans :
    /\ pc[s] \in {"fetch", "crawl", "geo"} \cup BetweenCaches => batch[s] = {}
    /\ batch[s] \subseteq DOMAIN found[s]

\* What is not left to upsert is in the table.
UpsertProgress ==
  \A s \in Scans :
    /\ todo[s] \subseteq batch[s]
    /\ pc[s] \in {"upsert", "mark"} => UseDb /\ batch[s] \ todo[s] \subseteq DOMAIN db
    /\ pc[s] = "mark" => todo[s] = {}

\* The scan has written its batch to Redis and will not change it any more.
Written(s) == pc[s] \in {"upsert", "mark"} \cup Ended

IsBatch == \/ DOMAIN redis = {}
           \/ \E s \in Scans : Written(s) /\ redis = Entries(s, batch[s])

\* Redis holds one batch; none after it was cleared, and that of the scan that
\* upserts, if there is a Redis.
RedisProgress ==
  ~disturbed =>
    /\ IsBatch
    /\ \A s \in Scans :
         /\ pc[s] = "store" => DOMAIN redis = {}
         /\ pc[s] \in {"upsert", "mark"} => ~UseRedis \/ redis = Entries(s, batch[s])

\* The rows a scan has upserted stay what it wrote until it ends.
RowsWritten ==
  \A s \in Scans : pc[s] \in {"upsert", "mark"} =>
    \A ip \in batch[s] \ todo[s] : ip \in DOMAIN db /\ db[ip].live = found[s][ip]

\* Without Redis its copy stays empty.
RedisIsUsed ==
  UseRedis \/ (DOMAIN redis = {} /\ \A s \in Scans : pc[s] \notin {"delete", "store"})

\* The peers in Redis that the table does not agree on are still to be upserted.
TableProgress ==
  ~disturbed /\ UseDb =>
    \A ip \in DOMAIN redis :
      \/ ip \in DOMAIN db /\ db[ip].live = redis[ip].live
      \/ \E s \in Scans : pc[s] = "upsert" /\ ip \in todo[s]

IndInv ==
  /\ TypeOK
  /\ LockIsHeld
  /\ KnownGoodIsDiscovered
  /\ FoundIsKnown
  /\ OkIsRecorded
  /\ BatchComesLate
  /\ UpsertProgress
  /\ RedisIsUsed
  /\ RedisProgress
  /\ TableProgress
  /\ RowsWritten
-----------------------------------------------------------------------------
\* The three kinds of maps are partial functions on the IPs.
LEMMA KindsOfMaps ==
  /\ PeerMaps = Maps(Verdicts)
  /\ RedisMaps = Maps([by : Scans, live : Verdicts])
  /\ Tables = Maps(Rows)
BY DEF PeerMaps, RedisMaps, Tables, Maps

\* What a map of one of these kinds is ...
LEMMA MapElim ==
  ASSUME NEW V, NEW f \in Maps(V)
  PROVE  /\ DOMAIN f \subseteq Ips
         /\ f \in [DOMAIN f -> V]
BY DEF Maps

\* ... and what makes a function one.
LEMMA MapIntro ==
  ASSUME NEW V, NEW S \in SUBSET Ips, NEW f \in [S -> V]
  PROVE  f \in Maps(V)
BY DEF Maps

\* Overwriting a map with another gives a map of the kind.
LEMMA OverwriteType ==
  ASSUME NEW V, NEW f \in Maps(V), NEW g \in Maps(V)
  PROVE  Overwrite(f, g) \in Maps(V)
<1>1. /\ DOMAIN f \subseteq Ips /\ DOMAIN g \subseteq Ips
      /\ f \in [DOMAIN f -> V] /\ g \in [DOMAIN g -> V]
  BY MapElim
<1>2. Overwrite(f, g) \in [DOMAIN f \cup DOMAIN g -> V]
  BY <1>1 DEF Overwrite
<1>. QED
  BY <1>1, <1>2, MapIntro

\* Overwriting an empty map gives the other one.
LEMMA OverwriteEmpty ==
  ASSUME NEW f, DOMAIN f = {}, NEW S, NEW g \in [S -> [by : Scans, live : Verdicts]]
  PROVE  Overwrite(f, g) = g
BY DEF Overwrite

\* A batch is written with verdicts the scan has.
LEMMA EntriesType ==
  ASSUME NEW s \in Scans, found[s] \in PeerMaps, NEW S \in SUBSET DOMAIN found[s]
  PROVE  /\ Entries(s, S) \in [S -> [by : Scans, live : Verdicts]]
         /\ Entries(s, S) \in RedisMaps
         /\ DOMAIN Entries(s, S) = S
         /\ \A ip \in S : Entries(s, S)[ip].live = found[s][ip]
<1>1. /\ DOMAIN found[s] \subseteq Ips
      /\ found[s] \in [DOMAIN found[s] -> Verdicts]
  BY KindsOfMaps, MapElim
<1>2. Entries(s, S) \in [S -> [by : Scans, live : Verdicts]]
  BY <1>1 DEF Entries
<1>3. Entries(s, S) \in RedisMaps
  BY <1>1, <1>2, KindsOfMaps, MapIntro
<1>. QED
  BY <1>2, <1>3 DEF Entries

\* A transaction keeps the table a table.  It changes the rows of its chunk only,
\* makes their verdicts those of the scan, and lowers the age of a known row only
\* if the scan found the peer live.
LEMMA UpsertEffect ==
  ASSUME NEW s \in Scans, found[s] \in PeerMaps, db \in Tables,
         NEW chunk \in SUBSET DOMAIN found[s]
  PROVE  /\ Upserted(s, chunk) \in Tables
         /\ DOMAIN Upserted(s, chunk) = DOMAIN db \cup chunk
         /\ \A ip \in DOMAIN db \ chunk : Upserted(s, chunk)[ip] = db[ip]
         /\ \A ip \in chunk : Upserted(s, chunk)[ip].live = found[s][ip]
         /\ \A ip \in DOMAIN db \cap chunk :
              found[s][ip] # "live" => Upserted(s, chunk)[ip].age = db[ip].age
<1>1. /\ DOMAIN found[s] \subseteq Ips
      /\ found[s] \in [DOMAIN found[s] -> Verdicts]
      /\ DOMAIN db \subseteq Ips
      /\ db \in [DOMAIN db -> Rows]
  BY KindsOfMaps, MapElim
<1>2. Upserted(s, chunk) \in [DOMAIN db \cup chunk -> Rows]
  BY <1>1, ScanAssumption DEF Upserted, Rows
<1>3. Upserted(s, chunk) \in Tables
  BY <1>1, <1>2, KindsOfMaps, MapIntro
<1>. QED
  BY <1>1, <1>3 DEF Upserted

\* Marking keeps the rows, their verdicts and their age ...
LEMMA MarkEffect ==
  ASSUME db \in Tables
  PROVE  /\ MarkedInactive \in Tables
         /\ DOMAIN MarkedInactive = DOMAIN db
         /\ \A ip \in DOMAIN db : /\ MarkedInactive[ip].live = db[ip].live
                                  /\ MarkedInactive[ip].age = db[ip].age
<1>1. DOMAIN db \subseteq Ips /\ db \in [DOMAIN db -> Rows]
  BY KindsOfMaps, MapElim
<1>2. MarkedInactive \in [DOMAIN db -> Rows]
  BY <1>1 DEF MarkedInactive, Rows
<1>3. MarkedInactive \in Tables
  BY <1>1, <1>2, KindsOfMaps, MapIntro
<1>. QED
  BY <1>1, <1>3 DEF MarkedInactive, Rows

\* ... and so does the clock, except that rows get older.
LEMMA TickEffect ==
  ASSUME db \in Tables, Tick
  PROVE  /\ db' \in Tables
         /\ DOMAIN db' = DOMAIN db
         /\ \A ip \in DOMAIN db : /\ db'[ip].live = db[ip].live
                                  /\ db'[ip].age >= db[ip].age
<1>1. DOMAIN db \subseteq Ips /\ db \in [DOMAIN db -> Rows]
  BY KindsOfMaps, MapElim
<1>2. db' = [ip \in DOMAIN db |-> [db[ip] EXCEPT !.age = Smaller(@ + 1, StaleAge)]]
  BY DEF Tick
<1>3. db' \in [DOMAIN db -> Rows]
  BY <1>1, <1>2, ScanAssumption DEF Smaller, Rows
<1>4. db' \in Tables
  BY <1>1, <1>3, KindsOfMaps, MapIntro
<1>. QED
  BY <1>1, <1>2, <1>4, ScanAssumption DEF Smaller, Rows

\* The caches only learn what a scan has found.
LEMMA DiscoverEffect ==
  ASSUME allDiscovered \in PeerMaps, NEW peers \in PeerMaps, AddDiscovered(peers)
  PROVE  /\ allDiscovered' \in PeerMaps
         /\ DOMAIN allDiscovered' = DOMAIN allDiscovered \cup DOMAIN peers
<1>1. /\ DOMAIN allDiscovered \subseteq Ips /\ DOMAIN peers \subseteq Ips
      /\ allDiscovered \in [DOMAIN allDiscovered -> Verdicts]
      /\ peers \in [DOMAIN peers -> Verdicts]
  BY KindsOfMaps, MapElim
<1>2. allDiscovered' \in [DOMAIN allDiscovered \cup DOMAIN peers -> Verdicts]
  BY <1>1 DEF AddDiscovered
<1>. QED
  BY <1>1, <1>2, KindsOfMaps, MapIntro
-----------------------------------------------------------------------------
\* Nothing is found, written or held at the start.
LEMMA InitIndInv == Init => IndInv
<1>. SUFFICES ASSUME Init PROVE IndInv
  OBVIOUS
<1>1. /\ Empty \in [{} -> Verdicts]
      /\ redis \in [{} -> [by : Scans, live : Verdicts]]
      /\ db \in [{} -> Rows]
  BY DEF Init, Empty
<1>2. Empty \in PeerMaps /\ redis \in RedisMaps /\ db \in Tables
  BY <1>1, KindsOfMaps, MapIntro
<1>3. TypeOK
  BY <1>2 DEF Init, TypeOK
<1>4. DOMAIN Empty = {} /\ DOMAIN redis = {} /\ DOMAIN db = {}
  BY <1>1
<1>. QED
  BY <1>3, <1>4, ScanAssumption
  DEF Init, IndInv, LockIsHeld, KnownGoodIsDiscovered, FoundIsKnown, OkIsRecorded,
      BetweenCaches, BatchComesLate, UpsertProgress, RedisIsUsed, RedisProgress, IsBatch,
      TableProgress, RowsWritten, Holding

\* The end of the process ends every scan that has begun, in no good way, and
\* touches neither store.
LEMMA CrashEffect ==
  ASSUME TypeOK, Crash
  PROVE  /\ pc' \in [Scans -> {"fetch"} \cup Ended]
         /\ \A s \in Scans : /\ pc[s] \in Ended => pc'[s] = pc[s]
                             /\ pc'[s] \in {"ok", "fetch"} => pc'[s] = pc[s]
         /\ UNCHANGED <<found, batch, todo, redis, db>>
         /\ lock' = Free /\ knownGood' = {} /\ failed' = {}
         /\ allDiscovered' \in PeerMaps /\ disturbed' \in BOOLEAN
         /\ ~disturbed' => ~disturbed /\ lock = Free
<1>1. /\ pc' \in [Scans -> {"fetch"} \cup Ended]
      /\ \A s \in Scans : /\ pc[s] \in Ended => pc'[s] = pc[s]
                          /\ pc'[s] \in {"ok", "fetch"} => pc'[s] = pc[s]
  BY DEF Crash, Ended
<1>2. Empty \in [{} -> Verdicts]
  BY DEF Empty
<1>3. Empty \in PeerMaps
  BY <1>2, KindsOfMaps, MapIntro
<1>. QED
  BY <1>1, <1>3 DEF Crash, local, TypeOK
-----------------------------------------------------------------------------
\* Every step keeps the types.
LEMMA NextTypeOK == IndInv /\ [Next]_vars => TypeOK'
<1>. SUFFICES ASSUME IndInv, [Next]_vars PROVE TypeOK'
  OBVIOUS
<1>0. TypeOK
  BY DEF IndInv
<1>. USE DEF Holding, BetweenCaches, Ended, local, caches, End, Goto, Release
<1>1. ASSUME NEW s \in Scans, FetchInitial(s) PROVE TypeOK'
  <2>1. PICK initial \in (SUBSET Ips) \ {{}} :
          /\ found' = [found EXCEPT ![s] = [ip \in initial |-> "untested"]]
          /\ AddDiscovered([ip \in initial |-> "untested"])
    BY <1>1 DEF FetchInitial
  <2>2. [ip \in initial |-> "untested"] \in [initial -> Verdicts]
    BY DEF Verdicts
  <2>3. [ip \in initial |-> "untested"] \in PeerMaps
    BY <2>2, KindsOfMaps, MapIntro
  <2>4. allDiscovered' \in PeerMaps
    BY <1>0, <2>1, <2>3, DiscoverEffect DEF TypeOK
  <2>5. \E l \in {"listed", "crawl"} : pc' = [pc EXCEPT ![s] = l]
    BY <1>1 DEF FetchInitial
  <2>. QED
    BY <1>0, <1>1, <2>1, <2>3, <2>4, <2>5 DEF FetchInitial, TypeOK
<1>2. ASSUME NEW s \in Scans, FetchNothing(s) \/ FetchError(s) \/ GeoError(s)
      PROVE  TypeOK'
  BY <1>0, <1>2 DEF FetchNothing, FetchError, GeoError, TypeOK
<1>3. ASSUME NEW s \in Scans, CrawlReturns(s) PROVE TypeOK'
  <2>1. PICK S \in SUBSET Ips : \E peers \in [S -> Verdicts] :
          found' = [found EXCEPT ![s] = peers] /\ AddDiscovered(peers)
    BY <1>3 DEF CrawlReturns
  <2>2. PICK peers \in [S -> Verdicts] :
          found' = [found EXCEPT ![s] = peers] /\ AddDiscovered(peers)
    BY <2>1
  <2>3. peers \in PeerMaps
    BY KindsOfMaps, MapIntro
  <2>4. allDiscovered' \in PeerMaps
    BY <1>0, <2>2, <2>3, DiscoverEffect DEF TypeOK
  <2>. QED
    BY <1>0, <1>3, <2>2, <2>3, <2>4 DEF CrawlReturns, TypeOK
<1>4. ASSUME NEW s \in Scans, GeoReturns(s) PROVE TypeOK'
  <2>1. DOMAIN found[s] \subseteq Ips
    BY <1>0, KindsOfMaps, MapElim DEF TypeOK
  <2>. QED
    BY <1>0, <1>4, <2>1 DEF GeoReturns, TypeOK
<1>5. ASSUME NEW s \in Scans, AcquireLock(s) PROVE TypeOK'
  BY <1>0, <1>5 DEF AcquireLock, ToUpsert, TypeOK
<1>6. ASSUME NEW s \in Scans, DeletePeers(s) PROVE TypeOK'
  <2>1. /\ DOMAIN redis \subseteq Ips
        /\ redis \in [DOMAIN redis -> [by : Scans, live : Verdicts]]
    BY <1>0, KindsOfMaps, MapElim DEF TypeOK
  <2>2. \A S \in SUBSET DOMAIN redis :
          Keep(redis, S) \in [S -> [by : Scans, live : Verdicts]]
    BY <2>1 DEF Keep
  <2>3. \A S \in SUBSET DOMAIN redis : Keep(redis, S) \in RedisMaps
    BY <2>1, <2>2, KindsOfMaps, MapIntro
  <2>4. redis' \in RedisMaps /\ disturbed' \in BOOLEAN
    BY <1>6, <2>3 DEF DeletePeers
  <2>. QED
    BY <1>0, <1>6, <2>4 DEF DeletePeers, TypeOK
<1>7. ASSUME NEW s \in Scans, StorePeers(s) PROVE TypeOK'
  <2>1. \A S \in SUBSET batch[s] : Entries(s, S) \in RedisMaps
    BY <1>0, EntriesType DEF TypeOK, IndInv, BatchComesLate
  <2>2. \A f, g \in RedisMaps : Overwrite(f, g) \in RedisMaps
    BY KindsOfMaps, OverwriteType
  <2>3. redis' \in RedisMaps /\ disturbed' \in BOOLEAN
    BY <1>0, <1>7, <2>1, <2>2 DEF StorePeers, TypeOK
  <2>. QED
    BY <1>0, <1>7, <2>3 DEF StorePeers, ToUpsert, TypeOK
<1>8. ASSUME NEW s \in Scans, UpsertChunk(s) PROVE TypeOK'
  <2>1. PICK chunk \in SUBSET todo[s] :
          /\ db' = Upserted(s, chunk)
          /\ todo' = [todo EXCEPT ![s] = @ \ chunk]
    BY <1>8 DEF UpsertChunk, Takes
  <2>2. chunk \subseteq DOMAIN found[s]
    BY <2>1 DEF IndInv, BatchComesLate, UpsertProgress
  <2>3. db' \in Tables
    BY <1>0, <2>1, <2>2, UpsertEffect DEF TypeOK
  <2>. QED
    BY <1>0, <1>8, <2>1, <2>3 DEF UpsertChunk, TypeOK
<1>9. ASSUME NEW s \in Scans, MarkInactive(s) PROVE TypeOK'
  BY <1>0, <1>9, MarkEffect DEF MarkInactive, TypeOK
<1>10. ASSUME NEW s \in Scans, DbError(s) \/ Cancel(s) PROVE TypeOK'
  BY <1>0, <1>10 DEF DbError, Cancel, TypeOK
<1>11. CASE Tick
  BY <1>0, <1>11, TickEffect DEF Tick, TypeOK
<1>12. CASE UNCHANGED vars
  BY <1>0, <1>12 DEF vars, TypeOK
<1>13. CASE Crash
  BY <1>0, <1>13, CrashEffect DEF TypeOK
<1>14. ASSUME NEW s \in Scans, CacheInitial(s) \/ CacheCrawled(s) PROVE TypeOK'
  <2>1. knownGood' \subseteq Ips
    BY <1>14, ScanAssumption
    DEF CacheInitial, CacheCrawled, CacheFound, ReplaceKnownGood, Takes
  <2>. QED
    BY <1>0, <1>14, <2>1 DEF CacheInitial, CacheCrawled, TypeOK
<1>. QED
  BY <1>1, <1>2, <1>3, <1>4, <1>5, <1>6, <1>7, <1>9, <1>10, <1>11, <1>12, <1>8,
     <1>13, <1>14
  DEF Next, Step

\* The lock: only the scan that takes or gives it back is affected.
LEMMA NextLock == IndInv /\ [Next]_vars => LockIsHeld'
<1>. SUFFICES ASSUME IndInv, [Next]_vars PROVE LockIsHeld'
  OBVIOUS
<1>. USE DEF Holding, Ended, End, Goto, Release
<1>0. TypeOK /\ LockIsHeld /\ Free \notin Scans
  BY ScanAssumption DEF IndInv
<1>1. ASSUME NEW s \in Scans,
             \/ FetchInitial(s) \/ CacheInitial(s)
             \/ CrawlReturns(s) \/ CacheCrawled(s) \/ GeoReturns(s)
             \/ DeletePeers(s) \/ UpsertChunk(s)
      PROVE  LockIsHeld'
  BY <1>0, <1>1
  DEF FetchInitial, CacheInitial, CrawlReturns, CacheCrawled, GeoReturns,
      DeletePeers, UpsertChunk, TypeOK, LockIsHeld
<1>2. ASSUME NEW s \in Scans,
             \/ FetchNothing(s) \/ FetchError(s) \/ GeoError(s)
             \/ MarkInactive(s) \/ DbError(s) \/ Cancel(s)
      PROVE  LockIsHeld'
  <2>1. /\ \E outcome \in Ended : pc' = [pc EXCEPT ![s] = outcome]
        /\ lock' = IF lock = s THEN Free ELSE lock
    BY <1>2
    DEF FetchNothing, FetchError, GeoError, MarkInactive, DbError, Cancel
  <2>. QED
    BY <1>0, <2>1 DEF TypeOK, LockIsHeld
<1>3. ASSUME NEW s \in Scans, AcquireLock(s) \/ StorePeers(s) PROVE LockIsHeld'
  <2>1. \A t \in Scans \ {s} : pc[t] \notin Holding
    BY <1>0, <1>3 DEF AcquireLock, StorePeers, LockIsHeld
  <2>2. \/ \E l \in Holding : pc' = [pc EXCEPT ![s] = l] /\ lock' = s
        \/ pc' = [pc EXCEPT ![s] = "ok"] /\ lock' = Free
    BY <1>3 DEF AcquireLock, StorePeers, ToUpsert
  <2>. QED
    BY <1>0, <2>1, <2>2 DEF TypeOK, LockIsHeld
<1>4. CASE Tick \/ UNCHANGED vars
  BY <1>0, <1>4 DEF Tick, vars, LockIsHeld
<1>5. CASE Crash
  <2>1. /\ pc' \in [Scans -> {"fetch"} \cup Ended] /\ lock' = Free
    BY <1>0, <1>5, CrashEffect
  <2>. QED
    BY <1>0, <2>1 DEF LockIsHeld
<1>. QED
  BY <1>1, <1>2, <1>3, <1>4, <1>5 DEF Next, Step

\* What a scan has found stays known while it, and whoever comes between its two
\* updates, go on: the set of discovered peers only grows until the process ends,
\* and the end of the process is the end of the scan.
LEMMA NextFoundIsKnown == IndInv /\ [Next]_vars => FoundIsKnown'
<1>. SUFFICES ASSUME IndInv, [Next]_vars PROVE FoundIsKnown'
  OBVIOUS
<1>0. TypeOK /\ FoundIsKnown
  BY DEF IndInv
<1>. USE DEF BetweenCaches, Ended, Goto, End, local, caches
<1>1. ASSUME NEW s \in Scans,
             FetchInitial(s) \/ CrawlReturns(s)
      PROVE  FoundIsKnown'
  <2>1. PICK peers : /\ found' = [found EXCEPT ![s] = peers]
                     /\ AddDiscovered(peers)
    BY <1>1 DEF FetchInitial, CrawlReturns
  <2>2. DOMAIN allDiscovered' = DOMAIN allDiscovered \cup DOMAIN peers
    BY <2>1 DEF AddDiscovered
  <2>3. \E l : pc' = [pc EXCEPT ![s] = l]
    BY <1>1 DEF FetchInitial, CrawlReturns
  <2>. QED
    BY <1>0, <2>1, <2>2, <2>3 DEF TypeOK, FoundIsKnown
<1>2. ASSUME UNCHANGED <<found, allDiscovered>>,
             \A s \in Scans : pc'[s] \in BetweenCaches => pc[s] \in BetweenCaches
      PROVE  FoundIsKnown'
  BY <1>0, <1>2 DEF FoundIsKnown
<1>3. ASSUME NEW s \in Scans,
             \/ CacheInitial(s) \/ CacheCrawled(s) \/ FetchNothing(s)
             \/ FetchError(s) \/ GeoReturns(s) \/ GeoError(s) \/ DeletePeers(s)
             \/ MarkInactive(s) \/ DbError(s) \/ Cancel(s)
      PROVE  FoundIsKnown'
  <2>1. /\ UNCHANGED <<found, allDiscovered>>
        /\ \E l \in {"crawl", "geo", "lock", "store"} \cup Ended :
             pc' = [pc EXCEPT ![s] = l]
    BY <1>3
    DEF CacheInitial, CacheCrawled, FetchNothing, FetchError, GeoReturns,
        GeoError, DeletePeers, MarkInactive, DbError, Cancel
  <2>. QED
    BY <1>0, <1>2, <2>1 DEF TypeOK
<1>4. ASSUME NEW s \in Scans, AcquireLock(s) \/ StorePeers(s) \/ UpsertChunk(s)
      PROVE  FoundIsKnown'
  <2>1. /\ UNCHANGED <<found, allDiscovered>>
        /\ \E l \in {"delete", "upsert", "mark", "ok"} : pc' = [pc EXCEPT ![s] = l]
    BY <1>4 DEF AcquireLock, StorePeers, UpsertChunk, ToUpsert
  <2>. QED
    BY <1>0, <1>2, <2>1 DEF TypeOK
<1>5. CASE Tick \/ UNCHANGED vars
  BY <1>2, <1>5 DEF Tick, vars
<1>6. CASE Crash
  <2>1. \A s \in Scans : pc'[s] \notin BetweenCaches
    BY <1>0, <1>6, CrashEffect
  <2>. QED
    BY <2>1 DEF FoundIsKnown
<1>. QED
  BY <1>1, <1>3, <1>4, <1>5, <1>6 DEF Next, Step

\* Whatever is offered for reuse was made known before, and by now perhaps by
\* somebody else: only the second update writes what is offered.
LEMMA NextCaches == IndInv /\ [Next]_vars => KnownGoodIsDiscovered'
<1>. SUFFICES ASSUME IndInv, [Next]_vars PROVE KnownGoodIsDiscovered'
  OBVIOUS
<1>1. ASSUME NEW s \in Scans, FetchInitial(s) \/ CrawlReturns(s)
      PROVE  KnownGoodIsDiscovered'
  <2>1. knownGood' = knownGood /\ \E peers : AddDiscovered(peers)
    BY <1>1 DEF FetchInitial, CrawlReturns
  <2>2. DOMAIN allDiscovered \subseteq DOMAIN allDiscovered'
    BY <2>1 DEF AddDiscovered
  <2>. QED
    BY <2>1, <2>2 DEF IndInv, KnownGoodIsDiscovered
<1>2. ASSUME NEW s \in Scans, CacheInitial(s) \/ CacheCrawled(s)
      PROVE  KnownGoodIsDiscovered'
  <2>1. DOMAIN found[s] \subseteq DOMAIN allDiscovered
    BY <1>2 DEF CacheInitial, CacheCrawled, BetweenCaches, IndInv, FoundIsKnown
  <2>2. allDiscovered' = allDiscovered /\ knownGood' \subseteq DOMAIN found[s]
    BY <1>2 DEF CacheInitial, CacheCrawled, CacheFound, ReplaceKnownGood, Takes
  <2>. QED
    BY <2>1, <2>2 DEF KnownGoodIsDiscovered
<1>3. ASSUME UNCHANGED <<allDiscovered, knownGood>> PROVE KnownGoodIsDiscovered'
  BY <1>3 DEF IndInv, KnownGoodIsDiscovered
<1>4. CASE Crash
  BY <1>4 DEF Crash, KnownGoodIsDiscovered
<1>. QED
  BY <1>1, <1>2, <1>3, <1>4
  DEF Next, Step, FetchNothing, FetchError, GeoReturns, GeoError, AcquireLock,
      DeletePeers, StorePeers, UpsertChunk, MarkInactive, DbError, Cancel, Tick,
      vars, caches

\* No step takes a row out of the table.
LEMMA RowsStay == IndInv /\ [Next]_vars => DOMAIN db \subseteq DOMAIN db'
<1>. SUFFICES ASSUME IndInv, [Next]_vars PROVE DOMAIN db \subseteq DOMAIN db'
  OBVIOUS
<1>1. ASSUME NEW s \in Scans, UpsertChunk(s) PROVE DOMAIN db \subseteq DOMAIN db'
  BY <1>1 DEF UpsertChunk, Upserted
<1>2. ASSUME NEW s \in Scans, MarkInactive(s) PROVE DOMAIN db \subseteq DOMAIN db'
  BY <1>2 DEF MarkInactive, MarkedInactive
<1>3. CASE Tick \/ Crash
  BY <1>3 DEF Tick, Crash
<1>. QED
  BY <1>1, <1>2, <1>3
  DEF Next, Step, FetchInitial, FetchNothing, FetchError, CacheInitial,
      CrawlReturns, CacheCrawled, GeoReturns, GeoError, AcquireLock, DeletePeers,
      StorePeers, DbError, Cancel, vars

\* How far each scan has come with its batch.
LEMMA NextProgress ==
  IndInv /\ [Next]_vars => BatchComesLate' /\ UpsertProgress' /\ OkIsRecorded'
<1>. DEFINE Progress == BatchComesLate /\ UpsertProgress /\ OkIsRecorded
<1>. SUFFICES ASSUME IndInv, [Next]_vars PROVE Progress'
  OBVIOUS
<1>. USE DEF Ended, Holding, BetweenCaches, End, Goto, local
<1>0. TypeOK /\ Progress /\ DOMAIN db \subseteq DOMAIN db'
  BY RowsStay DEF IndInv
<1>1. ASSUME NEW s \in Scans, FetchInitial(s) \/ CrawlReturns(s) PROVE Progress'
  <2>1. /\ pc[s] \in {"fetch", "crawl"}
        /\ \E l \in {"crawl"} \cup BetweenCaches : pc' = [pc EXCEPT ![s] = l]
        /\ \E m : found' = [found EXCEPT ![s] = m]
        /\ UNCHANGED <<batch, todo>>
    BY <1>1 DEF FetchInitial, CrawlReturns
  <2>. QED
    BY <1>0, <2>1 DEF TypeOK, BatchComesLate, UpsertProgress, OkIsRecorded
<1>2. ASSUME NEW s \in Scans, CacheInitial(s) \/ CacheCrawled(s) PROVE Progress'
  <2>1. /\ pc[s] \in BetweenCaches
        /\ \E l \in {"crawl", "geo"} : pc' = [pc EXCEPT ![s] = l]
        /\ UNCHANGED <<found, batch, todo>>
    BY <1>2 DEF CacheInitial, CacheCrawled
  <2>. QED
    BY <1>0, <2>1 DEF TypeOK, BatchComesLate, UpsertProgress, OkIsRecorded
<1>3. ASSUME NEW s \in Scans, GeoReturns(s) PROVE Progress'
  <2>1. PICK S \in SUBSET DOMAIN found[s] : batch' = [batch EXCEPT ![s] = S]
    BY <1>3 DEF GeoReturns
  <2>2. todo[s] = {}
    BY <1>0, <1>3 DEF GeoReturns, BatchComesLate, UpsertProgress
  <2>. QED
    BY <1>0, <1>3, <2>1, <2>2
    DEF GeoReturns, TypeOK, BatchComesLate, UpsertProgress, OkIsRecorded
<1>4. ASSUME NEW s \in Scans,
             \/ FetchNothing(s) \/ FetchError(s) \/ GeoError(s)
             \/ MarkInactive(s) \/ DbError(s) \/ Cancel(s)
      PROVE  Progress'
  <2>1. /\ UNCHANGED <<found, batch, todo>>
        /\ \E outcome \in Ended :
             /\ pc' = [pc EXCEPT ![s] = outcome]
             /\ outcome = "ok" => pc[s] \in {"fetch", "mark"}
    BY <1>4
    DEF FetchNothing, FetchError, GeoError, MarkInactive, DbError, Cancel
  <2>. QED
    BY <1>0, <2>1 DEF TypeOK, BatchComesLate, UpsertProgress, OkIsRecorded
<1>5. ASSUME NEW s \in Scans, AcquireLock(s) \/ StorePeers(s) PROVE Progress'
  <2>1. /\ pc[s] \in {"lock", "store"} /\ UNCHANGED <<found, batch>>
        /\ \/ pc' = [pc EXCEPT ![s] = "delete"] /\ UNCHANGED todo
           \/ ToUpsert(s)
    BY <1>5 DEF AcquireLock, StorePeers
  <2>. QED
    BY <1>0, <2>1
    DEF ToUpsert, TypeOK, BatchComesLate, UpsertProgress, OkIsRecorded
<1>6. ASSUME NEW s \in Scans, DeletePeers(s) PROVE Progress'
  BY <1>0, <1>6
  DEF DeletePeers, TypeOK, BatchComesLate, UpsertProgress, OkIsRecorded
<1>7. ASSUME NEW s \in Scans, UpsertChunk(s) PROVE Progress'
  <2>1. PICK chunk \in SUBSET todo[s] :
          /\ db' = Upserted(s, chunk)
          /\ todo' = [todo EXCEPT ![s] = @ \ chunk]
    BY <1>7 DEF UpsertChunk, Takes
  <2>2. DOMAIN db' = DOMAIN db \cup chunk
    BY <2>1 DEF Upserted
  <2>. QED
    BY <1>0, <1>7, <2>1, <2>2
    DEF UpsertChunk, TypeOK, BatchComesLate, UpsertProgress, OkIsRecorded
<1>8. CASE Tick \/ UNCHANGED vars
  BY <1>0, <1>8
  DEF Tick, vars, TypeOK, BatchComesLate, UpsertProgress, OkIsRecorded
<1>9. CASE Crash
  <2>1. /\ UNCHANGED <<found, batch, todo, db>>
        /\ \A s \in Scans : /\ pc'[s] \in {"fetch"} \cup Ended
                            /\ pc'[s] \in {"ok", "fetch"} => pc'[s] = pc[s]
    BY <1>0, <1>9, CrashEffect
  <2>. QED
    BY <1>0, <2>1 DEF BatchComesLate, UpsertProgress, OkIsRecorded
<1>. QED
  BY <1>1, <1>2, <1>3, <1>4, <1>5, <1>6, <1>7, <1>8, <1>9 DEF Next, Step

\* A program without Redis never takes the two steps that write to it.
LEMMA NextRedisIsUsed == IndInv /\ [Next]_vars => RedisIsUsed'
<1>. SUFFICES ASSUME IndInv, [Next]_vars, ~UseRedis PROVE RedisIsUsed'
  BY DEF RedisIsUsed
<1>0. /\ TypeOK /\ DOMAIN redis = {}
      /\ \A s \in Scans : pc[s] \notin {"delete", "store"}
  BY DEF IndInv, RedisIsUsed
<1>3. CASE Crash
  BY <1>0, <1>3, CrashEffect DEF RedisIsUsed, Ended
<1>. SUFFICES ASSUME ~Crash PROVE RedisIsUsed'
  BY <1>3
<1>1. redis' = redis
  BY <1>0
  DEF Next, Step, FetchInitial, FetchNothing, FetchError, CacheInitial,
      CrawlReturns, CacheCrawled, GeoReturns, GeoError, AcquireLock, DeletePeers,
      StorePeers, UpsertChunk, MarkInactive, DbError, Cancel, Tick, vars
<1>2. \/ pc' = pc
      \/ \E s \in Scans,
            l \in {"crawl", "geo", "lock", "upsert", "mark"} \cup BetweenCaches \cup Ended :
           pc' = [pc EXCEPT ![s] = l]
  <2>. USE <1>0 DEF Goto, End, BetweenCaches, Ended
  <2>1. ASSUME NEW s \in Scans, AcquireLock(s)
        PROVE  \E l \in {"upsert", "ok"} : pc' = [pc EXCEPT ![s] = l]
    BY <2>1 DEF AcquireLock, ToUpsert
  <2>2. ASSUME NEW s \in Scans, UpsertChunk(s)
        PROVE  \E l \in {"upsert", "mark"} : pc' = [pc EXCEPT ![s] = l]
    BY <2>2 DEF UpsertChunk
  <2>. QED
    BY <2>1, <2>2
    DEF Next, Step, FetchInitial, FetchNothing, FetchError, CacheInitial,
        CrawlReturns, CacheCrawled, GeoReturns, GeoError, DeletePeers, StorePeers,
        MarkInactive, DbError, Cancel, Tick, vars
<1>. QED
  BY <1>0, <1>1, <1>2 DEF TypeOK, RedisIsUsed, BetweenCaches, Ended

\* What a scan wrote to Redis stays what it would write.
LEMMA WrittenStays ==
  ASSUME IndInv, [Next]_vars, NEW s \in Scans, Written(s)
  PROVE  /\ Written(s)'
         /\ found'[s] = found[s] /\ batch'[s] = batch[s]
<1>. USE DEF Written, Ended, Holding, Goto, End, local
<1>0. TypeOK
  BY DEF IndInv
<1>. DEFINE Stays == Written(s)' /\ found'[s] = found[s] /\ batch'[s] = batch[s]
<1>1. ASSUME NEW t \in Scans, FetchInitial(t) \/ GeoReturns(t) PROVE Stays
  BY <1>0, <1>1 DEF FetchInitial, GeoReturns, TypeOK
<1>2. ASSUME NEW t \in Scans, CrawlReturns(t) PROVE Stays
  BY <1>0, <1>2 DEF CrawlReturns, TypeOK
<1>3. ASSUME NEW t \in Scans,
             \/ FetchNothing(t) \/ FetchError(t) \/ GeoError(t)
             \/ MarkInactive(t) \/ DbError(t) \/ Cancel(t)
      PROVE  Stays
  <2>1. /\ UNCHANGED <<found, batch>>
        /\ \E outcome \in Ended : pc' = [pc EXCEPT ![t] = outcome]
    BY <1>3
    DEF FetchNothing, FetchError, GeoError, MarkInactive, DbError, Cancel
  <2>. QED
    BY <1>0, <2>1 DEF TypeOK
<1>4. ASSUME NEW t \in Scans, AcquireLock(t) \/ StorePeers(t) \/ DeletePeers(t)
      PROVE  Stays
  <2>1. /\ UNCHANGED <<found, batch>> /\ ~Written(t)
        /\ \E l : pc' = [pc EXCEPT ![t] = l]
    BY <1>4 DEF AcquireLock, StorePeers, DeletePeers, ToUpsert
  <2>. QED
    BY <1>0, <2>1 DEF TypeOK
<1>5. ASSUME NEW t \in Scans, UpsertChunk(t) PROVE Stays
  BY <1>0, <1>5 DEF UpsertChunk, TypeOK
<1>6. CASE Tick \/ UNCHANGED vars
  BY <1>6 DEF Tick, vars
<1>7. CASE Crash
  <2>1. /\ UNCHANGED <<found, batch>>
        /\ pc'[s] \in {"fetch"} \cup Ended
        /\ pc'[s] = "fetch" => pc'[s] = pc[s]
    BY <1>0, <1>7, CrashEffect
  <2>. QED
    BY <2>1
<1>8. ASSUME NEW t \in Scans, CacheInitial(t) \/ CacheCrawled(t) PROVE Stays
  BY <1>0, <1>8 DEF CacheInitial, CacheCrawled, TypeOK
<1>. QED
  BY <1>1, <1>2, <1>3, <1>4, <1>5, <1>6, <1>7, <1>8 DEF Next, Step

\* The steps that do not write to Redis keep what it holds.
LEMMA RedisKept ==
  ASSUME IndInv, [Next]_vars, redis' = redis, ~disturbed' => ~disturbed,
         \A s \in Scans : pc'[s] = "store" => pc[s] = "store",
         \A s \in Scans : pc'[s] \in {"upsert", "mark"} =>
           pc[s] \in {"upsert", "mark"} \/ ~UseRedis
  PROVE  RedisProgress'
<1>. SUFFICES ASSUME ~disturbed' PROVE /\ IsBatch'
       /\ \A s \in Scans :
            /\ pc'[s] = "store" => DOMAIN redis = {}
            /\ pc'[s] \in {"upsert", "mark"} =>
                 ~UseRedis \/ redis = Entries(s, batch[s])'
  BY DEF RedisProgress
<1>1. RedisProgress /\ ~disturbed
  BY DEF IndInv
<1>2. \A s \in Scans : Written(s) =>
        Written(s)' /\ Entries(s, batch[s])' = Entries(s, batch[s])
  BY WrittenStays DEF Entries
<1>. QED
  BY <1>1, <1>2 DEF RedisProgress, IsBatch, Written

\* What Redis holds after each step: the delete empties it, the store fills it
\* with one batch, and the lock keeps everyone else away.
LEMMA NextRedisProgress == IndInv /\ [Next]_vars => RedisProgress'
<1>. SUFFICES ASSUME IndInv, [Next]_vars PROVE RedisProgress'
  OBVIOUS
<1>0. /\ TypeOK /\ LockIsHeld /\ Free \notin Scans
      /\ BatchComesLate /\ UpsertProgress /\ RedisIsUsed /\ RedisProgress
  BY ScanAssumption DEF IndInv
<1>. USE DEF Goto, End, Ended, BetweenCaches, Holding
<1>1. ASSUME NEW s \in Scans, DeletePeers(s) PROVE RedisProgress'
  <2>. SUFFICES ASSUME ~disturbed' PROVE RedisProgress'
    BY DEF RedisProgress
  <2>1. DOMAIN redis' = {}
    BY <1>1 DEF DeletePeers, Keep
  <2>2. \A t \in Scans : pc'[t] \notin {"upsert", "mark"}
    BY <1>0, <1>1 DEF DeletePeers, LockIsHeld, TypeOK
  <2>. QED
    BY <2>1, <2>2 DEF RedisProgress, IsBatch
<1>2. ASSUME NEW s \in Scans, StorePeers(s) PROVE RedisProgress'
  <2>. SUFFICES ASSUME ~disturbed' PROVE RedisProgress'
    BY DEF RedisProgress
  <2>1. /\ ~disturbed /\ pc[s] = "store"
        /\ redis' = Overwrite(redis, Entries(s, batch[s]))
        /\ UNCHANGED <<found, batch>>
    BY <1>0, <1>2 DEF StorePeers, TypeOK
  <2>2. DOMAIN redis = {}
    BY <1>0, <2>1 DEF RedisProgress
  <2>3. redis' = Entries(s, batch[s])
    BY <1>0, <2>1, <2>2, EntriesType, OverwriteEmpty DEF TypeOK, BatchComesLate
  <2>4. \E l \in {"upsert", "ok"} : pc' = [pc EXCEPT ![s] = l]
    BY <1>2 DEF StorePeers, ToUpsert
  <2>5. Written(s)' /\ redis' = Entries(s, batch[s])'
    BY <1>0, <2>1, <2>3, <2>4 DEF Written, Entries, TypeOK
  <2>6. \A t \in Scans \ {s} : pc'[t] \notin Holding
    BY <1>0, <2>1, <2>4 DEF LockIsHeld, TypeOK
  <2>7. pc'[s] # "store"
    BY <1>0, <2>4 DEF TypeOK
  <2>. QED
    BY <2>5, <2>6, <2>7 DEF RedisProgress, IsBatch
<1>3. ASSUME NEW s \in Scans, AcquireLock(s) PROVE RedisProgress'
  <2>1. \/ pc' = [pc EXCEPT ![s] = "delete"]
        \/ /\ ~UseRedis
           /\ \E l \in {"upsert", "ok"} : pc' = [pc EXCEPT ![s] = l]
    BY <1>0, <1>3 DEF AcquireLock, ToUpsert, RedisIsUsed
  <2>. QED
    BY <1>0, <1>3, <2>1, RedisKept DEF AcquireLock, TypeOK
<1>4. ASSUME NEW s \in Scans,
             \/ FetchInitial(s) \/ CacheInitial(s)
             \/ CrawlReturns(s) \/ CacheCrawled(s) \/ GeoReturns(s)
             \/ FetchNothing(s) \/ FetchError(s) \/ GeoError(s)
             \/ MarkInactive(s) \/ DbError(s) \/ Cancel(s) \/ UpsertChunk(s)
      PROVE  RedisProgress'
  <2>1. redis' = redis
    BY <1>4
    DEF FetchInitial, CacheInitial, CrawlReturns, CacheCrawled, GeoReturns,
        FetchNothing, FetchError, GeoError, MarkInactive, DbError, Cancel,
        UpsertChunk
  <2>2. ~disturbed' => ~disturbed
    BY <1>4
    DEF FetchInitial, CacheInitial, CrawlReturns, CacheCrawled, GeoReturns,
        FetchNothing, FetchError, GeoError, MarkInactive, DbError, Cancel,
        UpsertChunk
  <2>3. \/ \E l \in {"crawl", "geo", "lock"} \cup BetweenCaches \cup Ended :
             pc' = [pc EXCEPT ![s] = l]
        \/ /\ pc[s] = "upsert"
           /\ \E l \in {"upsert", "mark"} : pc' = [pc EXCEPT ![s] = l]
    BY <1>4
    DEF FetchInitial, CacheInitial, CrawlReturns, CacheCrawled, GeoReturns,
        FetchNothing, FetchError, GeoError, MarkInactive, DbError, Cancel,
        UpsertChunk
  <2>. QED
    BY <1>0, <2>1, <2>2, <2>3, RedisKept DEF TypeOK
<1>5. CASE Tick \/ UNCHANGED vars
  BY <1>0, <1>5, RedisKept DEF Tick, vars, TypeOK
<1>6. CASE Crash
  <2>1. /\ redis' = redis /\ (~disturbed' => ~disturbed)
        /\ \A s \in Scans : pc'[s] \notin {"store", "upsert", "mark"}
    BY <1>0, <1>6, CrashEffect
  <2>. QED
    BY <2>1, RedisKept
<1>. QED
  BY <1>1, <1>2, <1>3, <1>4, <1>5, <1>6 DEF Next, Step

\* The steps that write to neither store, or keep the verdicts of every row, and
\* leave whoever upserts with the same peers to do.
LEMMA TableKept ==
  ASSUME IndInv, redis' = redis, ~disturbed' => ~disturbed,
         \A ip \in DOMAIN db : ip \in DOMAIN db' /\ db'[ip].live = db[ip].live,
         ~disturbed' => \A s \in Scans : pc[s] = "upsert" =>
           pc'[s] = "upsert" /\ todo'[s] = todo[s]
  PROVE  TableProgress'
BY DEF IndInv, TableProgress

\* The table catches up with Redis: a scan that has written its batch to Redis
\* upserts it chunk by chunk, and nobody else writes meanwhile.
LEMMA NextTableProgress == IndInv /\ [Next]_vars => TableProgress'
<1>. SUFFICES ASSUME IndInv, [Next]_vars PROVE TableProgress'
  OBVIOUS
<1>0. /\ TypeOK /\ LockIsHeld /\ Free \notin Scans
      /\ BatchComesLate /\ UpsertProgress /\ TableProgress
      /\ RedisIsUsed /\ RedisProgress
  BY ScanAssumption DEF IndInv
<1>. USE DEF Goto, End, Ended, Holding, local
<1>1. ASSUME NEW s \in Scans, DeletePeers(s) PROVE TableProgress'
  <2>. SUFFICES ASSUME ~disturbed' PROVE TableProgress'
    BY DEF TableProgress
  <2>1. DOMAIN redis' = {}
    BY <1>1 DEF DeletePeers, Keep
  <2>. QED
    BY <2>1 DEF TableProgress
<1>2. ASSUME NEW s \in Scans, StorePeers(s) PROVE TableProgress'
  <2>. SUFFICES ASSUME ~disturbed', UseDb PROVE TableProgress'
    BY DEF TableProgress
  <2>1. /\ ~disturbed /\ pc[s] = "store"
        /\ redis' = Overwrite(redis, Entries(s, batch[s]))
        /\ ToUpsert(s)
    BY <1>0, <1>2 DEF StorePeers, TypeOK
  <2>2. DOMAIN redis = {}
    BY <1>0, <2>1 DEF RedisProgress
  <2>3. DOMAIN redis' = batch[s]
    BY <1>0, <2>1, <2>2, EntriesType, OverwriteEmpty DEF TypeOK, BatchComesLate
  <2>4. batch[s] # {} => pc'[s] = "upsert" /\ todo'[s] = batch[s]
    BY <1>0, <2>1 DEF ToUpsert, TypeOK
  <2>. QED
    BY <2>3, <2>4 DEF TableProgress
<1>3. ASSUME NEW s \in Scans, UpsertChunk(s) PROVE TableProgress'
  <2>. SUFFICES ASSUME ~disturbed', UseDb, NEW ip \in DOMAIN redis'
                PROVE  \/ ip \in DOMAIN db' /\ db'[ip].live = redis'[ip].live
                       \/ pc'[s] = "upsert" /\ ip \in todo'[s]
    BY DEF TableProgress
  <2>1. PICK chunk \in SUBSET todo[s] :
          /\ db' = Upserted(s, chunk)
          /\ todo' = [todo EXCEPT ![s] = @ \ chunk]
    BY <1>3 DEF UpsertChunk, Takes
  <2>2. /\ pc[s] = "upsert" /\ redis' = redis /\ ~disturbed
        /\ pc' = [pc EXCEPT ![s] = IF todo'[s] = {} THEN "mark" ELSE "upsert"]
    BY <1>3 DEF UpsertChunk
  <2>3. chunk \subseteq batch[s] /\ batch[s] \subseteq DOMAIN found[s]
    BY <1>0, <2>1 DEF BatchComesLate, UpsertProgress
  <2>4. /\ DOMAIN db' = DOMAIN db \cup chunk
        /\ \A p \in DOMAIN db \ chunk : db'[p] = db[p]
        /\ \A p \in chunk : db'[p].live = found[s][p]
    <3>1. found[s] \in PeerMaps /\ db \in Tables
      BY <1>0 DEF TypeOK
    <3>2. chunk \in SUBSET DOMAIN found[s]
      BY <2>3
    <3>3. db' = Upserted(s, chunk)
      BY <2>1
    <3>. HIDE DEF Goto, End, Ended, Holding, local
    <3>. QED
      BY <3>1, <3>2, <3>3, UpsertEffect
  <2>5. redis = Entries(s, batch[s])
    BY <1>0, <2>2 DEF RedisProgress, RedisIsUsed
  <2>6. ip \in batch[s] /\ redis[ip].live = found[s][ip]
    BY <1>0, <2>2, <2>3, <2>5, EntriesType DEF TypeOK
  <2>7. CASE ip \in chunk
    BY <2>2, <2>4, <2>6, <2>7
  <2>8. CASE ip \in todo[s] \ chunk
    <3>1. ip \in todo'[s]
      BY <1>0, <2>1, <2>8 DEF TypeOK
    <3>. QED
      BY <1>0, <2>2, <3>1 DEF TypeOK
  <2>9. CASE ip \notin todo[s]
    <3>1. \A t \in Scans : pc[t] = "upsert" => t = s
      BY <1>0, <2>2 DEF LockIsHeld
    <3>2. ip \in DOMAIN db /\ db[ip].live = redis[ip].live
      BY <1>0, <2>2, <2>9, <3>1 DEF TableProgress
    <3>3. ip \notin chunk
      BY <2>1, <2>9
    <3>. QED
      BY <2>2, <2>4, <3>2, <3>3
  <2>. QED
    BY <2>7, <2>8, <2>9
<1>4. ASSUME NEW s \in Scans, MarkInactive(s) PROVE TableProgress'
  <2>1. /\ pc[s] = "mark" /\ pc' = [pc EXCEPT ![s] = "ok"]
        /\ UNCHANGED <<todo, redis, disturbed>> /\ db' = MarkedInactive
    BY <1>4 DEF MarkInactive
  <2>2. \A ip \in DOMAIN db : ip \in DOMAIN db' /\ db'[ip].live = db[ip].live
    BY <1>0, <2>1, MarkEffect DEF TypeOK
  <2>3. \A t \in Scans : pc[t] = "upsert" => pc'[t] = "upsert" /\ todo'[t] = todo[t]
    BY <1>0, <2>1 DEF TypeOK
  <2>. QED
    BY <2>1, <2>2, <2>3, TableKept
<1>5. ASSUME NEW s \in Scans,
             \/ FetchInitial(s) \/ CacheInitial(s)
             \/ CrawlReturns(s) \/ CacheCrawled(s) \/ GeoReturns(s)
             \/ FetchNothing(s) \/ FetchError(s) \/ GeoError(s)
             \/ AcquireLock(s) \/ DbError(s) \/ Cancel(s)
      PROVE  TableProgress'
  <2>1. UNCHANGED <<redis, db>>
    BY <1>5
    DEF FetchInitial, CacheInitial, CrawlReturns, CacheCrawled, GeoReturns,
        FetchNothing, FetchError, GeoError, AcquireLock, DbError, Cancel
  <2>2. ~disturbed' => ~disturbed /\ pc[s] \notin Holding
    <3>1. CASE Cancel(s)
      BY <3>1 DEF Cancel
    <3>2. CASE DbError(s)
      BY <3>2 DEF DbError
    <3>. QED
      BY <1>5, <3>1, <3>2
      DEF FetchInitial, CacheInitial, CrawlReturns, CacheCrawled, GeoReturns,
          FetchNothing, FetchError, GeoError, AcquireLock
  <2>3. /\ \E l : pc' = [pc EXCEPT ![s] = l]
        /\ \E T : todo' = [todo EXCEPT ![s] = T]
    <3>1. ASSUME UNCHANGED todo PROVE todo' = [todo EXCEPT ![s] = todo[s]]
      BY <1>0, <3>1 DEF TypeOK
    <3>2. CASE AcquireLock(s)
      BY <3>1, <3>2 DEF AcquireLock, ToUpsert
    <3>. QED
      BY <1>5, <3>1, <3>2
      DEF FetchInitial, CacheInitial, CrawlReturns, CacheCrawled, GeoReturns,
          FetchNothing, FetchError, GeoError, DbError, Cancel
  <2>. QED
    BY <1>0, <2>1, <2>2, <2>3, TableKept DEF TypeOK
<1>6. CASE Tick
  BY <1>0, <1>6, TickEffect, TableKept DEF Tick, TypeOK
<1>7. CASE UNCHANGED vars
  BY <1>0, <1>7 DEF vars, TableProgress
<1>8. CASE Crash
  <2>1. /\ UNCHANGED <<redis, db>>
        /\ ~disturbed' => ~disturbed /\ lock = Free
    BY <1>0, <1>8, CrashEffect
  <2>2. ~disturbed' => \A s \in Scans : pc[s] # "upsert"
    BY <1>0, <2>1 DEF LockIsHeld
  <2>. QED
    BY <2>1, <2>2, TableKept
<1>. QED
  BY <1>1, <1>2, <1>3, <1>4, <1>5, <1>6, <1>7, <1>8 DEF Next, Step

\* A step that keeps the verdicts of all rows keeps what a scan has upserted.
LEMMA RowsKept ==
  ASSUME IndInv,
         \A ip \in DOMAIN db : ip \in DOMAIN db' /\ db'[ip].live = db[ip].live,
         \A s \in Scans : pc'[s] \in {"upsert", "mark"} =>
           \/ todo'[s] = batch'[s]
           \/ /\ pc[s] \in {"upsert", "mark"} /\ todo'[s] = todo[s]
              /\ found'[s] = found[s] /\ batch'[s] = batch[s]
  PROVE  RowsWritten'
BY DEF IndInv, RowsWritten

\* Nobody else writes rows between a scan's upsert and its end.
LEMMA NextRowsWritten == IndInv /\ [Next]_vars => RowsWritten'
<1>. SUFFICES ASSUME IndInv, [Next]_vars PROVE RowsWritten'
  OBVIOUS
<1>0. /\ TypeOK /\ LockIsHeld /\ Free \notin Scans
      /\ BatchComesLate /\ UpsertProgress /\ RowsWritten
  BY ScanAssumption DEF IndInv
<1>. USE DEF Goto, End, Ended, BetweenCaches, Holding, local
<1>1. ASSUME NEW s \in Scans, UpsertChunk(s) PROVE RowsWritten'
  <2>1. PICK chunk \in SUBSET todo[s] :
          /\ db' = Upserted(s, chunk)
          /\ todo' = [todo EXCEPT ![s] = @ \ chunk]
    BY <1>1 DEF UpsertChunk, Takes
  <2>2. /\ pc[s] = "upsert" /\ UNCHANGED <<found, batch>>
        /\ \E l \in {"upsert", "mark"} : pc' = [pc EXCEPT ![s] = l]
    BY <1>1 DEF UpsertChunk
  <2>3. chunk \subseteq DOMAIN found[s] /\ todo'[s] = todo[s] \ chunk
    BY <1>0, <2>1 DEF TypeOK, BatchComesLate, UpsertProgress
  <2>4. /\ DOMAIN db' = DOMAIN db \cup chunk
        /\ \A p \in DOMAIN db \ chunk : db'[p] = db[p]
        /\ \A p \in chunk : db'[p].live = found[s][p]
    <3>1. found[s] \in PeerMaps /\ db \in Tables
      BY <1>0 DEF TypeOK
    <3>2. chunk \in SUBSET DOMAIN found[s] /\ db' = Upserted(s, chunk)
      BY <2>1, <2>3
    <3>. HIDE DEF Goto, End, Ended, Holding, local
    <3>. QED
      BY <3>1, <3>2, UpsertEffect
  <2>5. \A t \in Scans \ {s} : pc'[t] \notin Holding
    BY <1>0, <2>2 DEF TypeOK, LockIsHeld
  <2>6. \A ip \in batch[s] \ todo'[s] :
          ip \in DOMAIN db' /\ db'[ip].live = found[s][ip]
    BY <1>0, <2>2, <2>3, <2>4 DEF RowsWritten
  <2>. QED
    BY <2>2, <2>5, <2>6 DEF RowsWritten
<1>2. ASSUME NEW s \in Scans, MarkInactive(s) PROVE RowsWritten'
  <2>1. \A ip \in DOMAIN db : ip \in DOMAIN db' /\ db'[ip].live = db[ip].live
    BY <1>0, <1>2, MarkEffect DEF MarkInactive, TypeOK
  <2>. QED
    BY <1>0, <1>2, <2>1, RowsKept DEF MarkInactive, TypeOK
<1>3. ASSUME NEW s \in Scans,
             \/ FetchInitial(s) \/ CacheInitial(s)
             \/ CrawlReturns(s) \/ CacheCrawled(s) \/ GeoReturns(s)
             \/ FetchNothing(s) \/ FetchError(s) \/ GeoError(s)
             \/ DeletePeers(s) \/ DbError(s) \/ Cancel(s)
      PROVE  RowsWritten'
  <2>1. /\ db' = db /\ todo' = todo
        /\ \E l \in {"crawl", "geo", "lock", "store"} \cup BetweenCaches \cup Ended :
             pc' = [pc EXCEPT ![s] = l]
        /\ \E f : found' = [found EXCEPT ![s] = f]
        /\ \E b : batch' = [batch EXCEPT ![s] = b]
    <3>1. found = [found EXCEPT ![s] = found[s]] /\ batch = [batch EXCEPT ![s] = batch[s]]
      BY <1>0 DEF TypeOK
    <3>. QED
      BY <1>3, <3>1
      DEF FetchInitial, CacheInitial, CrawlReturns, CacheCrawled, GeoReturns,
          FetchNothing, FetchError, GeoError, DeletePeers, DbError, Cancel
  <2>. QED
    BY <1>0, <2>1, RowsKept DEF TypeOK
<1>4. ASSUME NEW s \in Scans, AcquireLock(s) \/ StorePeers(s) PROVE RowsWritten'
  <2>1. /\ UNCHANGED <<found, batch, db>>
        /\ \/ pc' = [pc EXCEPT ![s] = "delete"] /\ todo' = todo
           \/ ToUpsert(s)
    BY <1>4 DEF AcquireLock, StorePeers
  <2>. QED
    BY <1>0, <2>1, RowsKept DEF ToUpsert, TypeOK
<1>5. CASE Tick
  BY <1>0, <1>5, TickEffect, RowsKept DEF Tick, TypeOK
<1>6. CASE UNCHANGED vars
  BY <1>0, <1>6 DEF vars, RowsWritten
<1>7. CASE Crash
  <2>1. /\ db' = db
        /\ \A s \in Scans : pc'[s] \notin {"upsert", "mark"}
    BY <1>0, <1>7, CrashEffect
  <2>. QED
    BY <2>1, RowsKept
<1>. QED
  BY <1>1, <1>2, <1>3, <1>4, <1>5, <1>6, <1>7 DEF Next, Step

\* The invariant is inductive.
LEMMA NextIndInv == IndInv /\ [Next]_vars => IndInv'
<1>. SUFFICES ASSUME IndInv, [Next]_vars PROVE IndInv'
  OBVIOUS
<1>. QED
  BY NextTypeOK, NextLock, NextCaches, NextFoundIsKnown, NextProgress, NextRedisIsUsed,
     NextRedisProgress, NextTableProgress, NextRowsWritten
  DEF IndInv
-----------------------------------------------------------------------------
\* Every state of every interleaving of the scans satisfies the invariant.
THEOREM Invariance == Spec => []IndInv
BY InitIndInv, NextIndInv, PTL DEF Spec

\* The variables of a scan and the shared stores have their types.
THEOREM TypeCorrect == Spec => []TypeOK
<1>1. IndInv => TypeOK
  BY DEF IndInv
<1>. QED
  BY <1>1, Invariance, PTL

\* A scan holds REDIS_CACHE exactly while it writes to the stores: no error and
\* no cancellation leaves the lock behind, and no step gives away another's.
THEOREM LockDiscipline == Spec => []LockIsHeld
<1>1. IndInv => LockIsHeld
  BY DEF IndInv
<1>. QED
  BY <1>1, Invariance, PTL

\* An endpoint offered for reuse is known to the API's fallback, whichever scans
\* update either cache between the two updates of a scan.
THEOREM CachesAgree == Spec => []KnownGoodIsDiscovered
<1>1. IndInv => KnownGoodIsDiscovered
  BY DEF IndInv
<1>. QED
  BY <1>1, Invariance, PTL

\* A scan that reports success has upserted its whole batch.
THEOREM SuccessIsRecorded == Spec => []OkIsRecorded
<1>1. IndInv => OkIsRecorded
  BY DEF IndInv
<1>. QED
  BY <1>1, Invariance, PTL

\* Scans of one network do not mix in Redis.
THEOREM RedisHoldsOneBatch == Spec => []RedisIsOneBatch
<1>1. IndInv => RedisIsOneBatch
  BY DEF IndInv, RedisProgress, IsBatch, RedisIsOneBatch
<1>. QED
  BY <1>1, Invariance, PTL

\* Whoever gets the lock finds Redis and the table in agreement: the peers left
\* to upsert are those of a scan that has the lock.
THEOREM RedisAgreesWithTable == Spec => []RedisMatchesTable
<1>1. ASSUME IndInv, lock = Free PROVE \A s \in Scans : pc[s] # "upsert"
  BY <1>1, ScanAssumption DEF IndInv, LockIsHeld, Holding
<1>2. IndInv => RedisMatchesTable
  BY <1>1 DEF IndInv, TableProgress, RedisMatchesTable
<1>. QED
  BY <1>2, Invariance, PTL

\* last_seen of a row moves forward only in the transaction of a scan that found
\* the peer live; ageing, marking and dead peers never refresh it.
THEOREM LastSeenOnlyOnSighting == Spec => LastSeenIsASighting
<1>1. ASSUME IndInv, [Next]_vars PROVE [RefreshNeedsLivePeer]_vars
  <2>. SUFFICES ASSUME NEW ip \in DOMAIN db, db'[ip].age < db[ip].age
                PROVE  \E s \in Scans : /\ pc[s] = "upsert" /\ ip \in todo[s]
                                        /\ found[s][ip] = "live"
    BY DEF RefreshNeedsLivePeer
  <2>0. /\ TypeOK /\ BatchComesLate /\ UpsertProgress
        /\ db \in [DOMAIN db -> Rows]
    BY <1>1, KindsOfMaps, MapElim DEF IndInv, TypeOK
  <2>1. db[ip].age \in Nat
    BY <2>0, ScanAssumption DEF Rows
  <2>2. ~(db'[ip].age = db[ip].age)
    BY <2>1
  <2>3. ~Tick
    <3>. SUFFICES ASSUME Tick PROVE FALSE
      OBVIOUS
    <3>1. db'[ip].age >= db[ip].age /\ db' \in [DOMAIN db -> Rows]
      BY <2>0, TickEffect, KindsOfMaps, MapElim DEF TypeOK
    <3>2. db'[ip].age \in Nat
      BY <3>1, ScanAssumption DEF Rows
    <3>. QED
      BY <2>1, <3>1, <3>2
  <2>4. ASSUME NEW s \in Scans, MarkInactive(s) PROVE FALSE
    BY <2>0, <2>2, <2>4, MarkEffect DEF MarkInactive, TypeOK
  <2>5. PICK s \in Scans : UpsertChunk(s)
    BY <1>1, <2>2, <2>3, <2>4
    DEF Next, Step, FetchInitial, FetchNothing, FetchError, CacheInitial,
        CrawlReturns, CacheCrawled, GeoReturns, GeoError, AcquireLock,
        DeletePeers, StorePeers, DbError, Cancel, Crash, vars
  <2>6. PICK chunk \in SUBSET todo[s] : db' = Upserted(s, chunk)
    BY <2>5 DEF UpsertChunk, Takes
  <2>7. chunk \in SUBSET DOMAIN found[s]
    BY <2>0, <2>6 DEF BatchComesLate, UpsertProgress
  <2>8. ip \in chunk /\ found[s][ip] = "live"
    <3>1. found[s] \in PeerMaps /\ db \in Tables
      BY <2>0 DEF TypeOK
    <3>2. /\ \A p \in DOMAIN db \ chunk : db'[p] = db[p]
          /\ \A p \in DOMAIN db \cap chunk :
               found[s][p] # "live" => db'[p].age = db[p].age
      BY <2>6, <2>7, <3>1, UpsertEffect
    <3>. QED
      BY <2>2, <3>2
  <2>. QED
    BY <2>5, <2>6, <2>8 DEF UpsertChunk
<1>. QED
  BY <1>1, Invariance, PTL DEF Spec, LastSeenIsASighting
-----------------------------------------------------------------------------
\* NetworkScanner implements PeerStore.  The result of a scan is empty before
\* the geo lookup.
LEMMA NoBatchNoResult ==
  ASSUME NEW s, batch[s] = {}
  PROVE  Result(s) = Atomic!Nothing
BY DEF Result, Entries, Atomic!Nothing

LEMMA InitMapsToStore == Init => Atomic!Init
<1>. SUFFICES ASSUME Init PROVE Atomic!Init
  OBVIOUS
<1>1. \A s \in Scans : Phase(pc[s]) = "working" /\ Result(s) = Atomic!Nothing
  BY DEF Init, Phase, Holding, Result, Entries, Atomic!Nothing
<1>2. Copy = Atomic!Nothing
  <2>1. Copy = redis
    BY DEF Init, Copy, Holding
  <2>2. redis = [ip \in {} |-> [by |-> Free, live |-> "untested"]]
    BY DEF Init
  <2>. QED
    BY <2>1, <2>2 DEF Atomic!Nothing
<1>3. Verdict = Atomic!Nothing
  <2>1. db = [ip \in {} |-> [active |-> FALSE, live |-> "untested", age |-> 0]]
    BY DEF Init
  <2>. QED
    BY <2>1 DEF Verdict, Atomic!Nothing
<1>. QED
  BY <1>1, <1>2, <1>3 DEF Atomic!Init, Phases

\* A scan that goes somewhere changes its own phase only.
LEMMA PhaseOfOne ==
  ASSUME TypeOK, NEW s \in Scans, NEW l, pc' = [pc EXCEPT ![s] = l]
  PROVE  Phases' = [Phases EXCEPT ![s] = Phase(l)]
<1>1. /\ pc'[s] = l
      /\ \A t \in Scans \ {s} : pc'[t] = pc[t]
  BY DEF TypeOK
<1>2. Phase(pc[s])' = Phase(l)
  BY <1>1 DEF Phase
<1>3. \A t \in Scans \ {s} : Phase(pc[t])' = Phase(pc[t])
  BY <1>1 DEF Phase
<1>. QED
  BY <1>2, <1>3 DEF Phases

LEMMA PhaseStays ==
  ASSUME TypeOK, NEW s \in Scans, NEW l, pc' = [pc EXCEPT ![s] = l],
         Phase(l) = Phase(pc[s])
  PROVE  Phases' = Phases
BY PhaseOfOne DEF Phases

\* Only the geo lookup gives a scan its result.
LEMMA ResultStays ==
  ASSUME IndInv, [Next]_vars, NEW s \in Scans, ~GeoReturns(s)
  PROVE  Result(s)' = Result(s)
<1>. USE DEF Goto, End, local
<1>0. TypeOK /\ BatchComesLate
  BY DEF IndInv
<1>1. ASSUME NEW t \in Scans, FetchInitial(t) \/ CrawlReturns(t)
      PROVE  Result(s)' = Result(s)
  <2>1. /\ batch' = batch /\ batch[t] = {}
        /\ \E f : found' = [found EXCEPT ![t] = f]
    BY <1>0, <1>1 DEF FetchInitial, CrawlReturns, BatchComesLate
  <2>2. CASE s = t
    BY <2>1, <2>2 DEF Result, Entries
  <2>3. CASE s # t
    BY <1>0, <2>1, <2>3 DEF Result, Entries, TypeOK
  <2>. QED
    BY <2>2, <2>3
<1>2. ASSUME NEW t \in Scans, GeoReturns(t)
      PROVE  Result(s)' = Result(s)
  <2>1. /\ found' = found /\ t # s
        /\ \E b : batch' = [batch EXCEPT ![t] = b]
    BY <1>2 DEF GeoReturns
  <2>. QED
    BY <1>0, <2>1 DEF Result, Entries, TypeOK
<1>3. ASSUME UNCHANGED <<found, batch>>
      PROVE  Result(s)' = Result(s)
  BY <1>3 DEF Result, Entries
<1>. QED
  BY <1>1, <1>2, <1>3
  DEF Next, Step, FetchNothing, FetchError, CacheInitial, CacheCrawled, GeoError,
      AcquireLock, DeletePeers, StorePeers, UpsertChunk, MarkInactive, DbError,
      Cancel, Tick, Crash, vars

\* The verdicts of a table whose rows keep theirs.
LEMMA VerdictStays ==
  ASSUME DOMAIN db' = DOMAIN db, \A ip \in DOMAIN db : db'[ip].live = db[ip].live
  PROVE  Verdict' = Verdict
BY DEF Verdict

\* While somebody has the lock, and after a failure, nothing is known of Redis.
LEMMA CopyIs ==
  ASSUME LockIsHeld
  PROVE  Copy = IF disturbed \/ lock \in Scans THEN Free ELSE redis
BY DEF LockIsHeld, Copy

\* A step of a scan is a step of PeerStore or one that PeerStore cannot see.
LEMMA ScanMapsToStore ==
  ASSUME IndInv, [Next]_vars, IndInv', NEW s \in Scans, Step(s) \/ Cancel(s)
  PROVE  [Atomic!Next]_(Atomic!vars)
<1>. DEFINE results == [t \in Scans |-> Result(t)]
<1>0. /\ TypeOK /\ LockIsHeld /\ Free \notin Scans /\ UseDb \in BOOLEAN
      /\ BatchComesLate /\ UpsertProgress /\ RedisIsUsed /\ RedisProgress
      /\ RowsWritten /\ LockIsHeld'
  BY ScanAssumption DEF IndInv
<1>. USE DEF Goto, End, Release, local
<1>a. /\ Copy = IF disturbed \/ lock \in Scans THEN Free ELSE redis
      /\ Copy' = IF disturbed' \/ lock' \in Scans THEN Free ELSE redis'
  <2>1. Copy' = IF disturbed' \/ \E t \in Scans : pc'[t] \in Holding THEN Free ELSE redis'
    BY DEF Copy
  <2>. QED
    BY <1>0, <2>1, CopyIs DEF LockIsHeld
<1>b. ~GeoReturns(s) => results' = results
  <2>1. ASSUME ~GeoReturns(s), NEW t \in Scans PROVE Result(t)' = Result(t)
    <3>1. ~GeoReturns(t)
      BY <1>0, <2>1 DEF TypeOK, GeoReturns, Step, Cancel, FetchInitial,
         FetchNothing, FetchError, CacheInitial, CrawlReturns, CacheCrawled,
         GeoError, AcquireLock, DeletePeers, StorePeers, UpsertChunk,
         MarkInactive, DbError, ToUpsert, Ended, BetweenCaches
    <3>. QED
      BY <3>1, ResultStays
  <2>. QED
    BY <2>1
<1>1. CASE \/ FetchInitial(s) \/ CacheInitial(s)
           \/ CrawlReturns(s) \/ CacheCrawled(s)
  <2>1. /\ \E l \in {"listed", "crawl", "crawled", "geo"} : pc' = [pc EXCEPT ![s] = l]
        /\ pc[s] \in {"fetch", "listed", "crawl", "crawled"}
        /\ UNCHANGED <<lock, redis, db, disturbed>>
        /\ ~GeoReturns(s)
    BY <1>1
    DEF FetchInitial, CacheInitial, CrawlReturns, CacheCrawled, GeoReturns
  <2>2. Phases' = Phases
    BY <1>0, <2>1, PhaseStays DEF Phase, Holding
  <2>. QED
    BY <1>a, <1>b, <2>1, <2>2 DEF Atomic!vars, Verdict
<1>2. CASE GeoReturns(s)
  <2>1. PICK S \in SUBSET DOMAIN found[s] : batch' = [batch EXCEPT ![s] = S]
    BY <1>2 DEF GeoReturns
  <2>2. /\ pc[s] = "geo" /\ pc' = [pc EXCEPT ![s] = "lock"]
        /\ UNCHANGED <<found, lock, redis, db, disturbed>>
    BY <1>2 DEF GeoReturns
  <2>3. Phases' = Phases /\ Phases[s] = "working"
    BY <1>0, <2>2, PhaseStays DEF Phase, Holding, Phases
  <2>4. Result(s) = Atomic!Nothing
    BY <1>0, <2>2, NoBatchNoResult DEF BatchComesLate
  <2>5. Result(s)' = Entries(s, S) /\ Entries(s, S) \in Atomic!Results(s)
    <3>1. DOMAIN found[s] \subseteq Ips /\ found[s] \in [DOMAIN found[s] -> Verdicts]
      BY <1>0, KindsOfMaps, MapElim DEF TypeOK
    <3>2. Entries(s, S) \in [S -> [by : {s}, live : Verdicts]]
      BY <3>1 DEF Entries
    <3>3. Entries(s, S) \in Atomic!Results(s)
      BY <3>1, <3>2 DEF Atomic!Results
    <3>4. batch'[s] = S
      BY <1>0, <2>1 DEF TypeOK
    <3>. QED
      BY <2>2, <3>3, <3>4 DEF Result, Entries
  <2>6. \A t \in Scans \ {s} : Result(t)' = Result(t)
    BY <1>0, <2>1, <2>2 DEF Result, Entries, TypeOK
  <2>7. results' = [results EXCEPT ![s] = Entries(s, S)]
    BY <2>5, <2>6
  <2>8. Atomic!Produce(s)
    BY <1>a, <2>2, <2>3, <2>4, <2>5, <2>7 DEF Atomic!Produce, Verdict
  <2>. QED
    BY <2>8 DEF Atomic!Next
<1>3. CASE FetchNothing(s)
  <2>1. /\ pc[s] = "fetch" /\ pc' = [pc EXCEPT ![s] = "ok"]
        /\ lock' = lock /\ UNCHANGED <<redis, db, disturbed>> /\ ~GeoReturns(s)
    BY <1>0, <1>3 DEF FetchNothing, GeoReturns, LockIsHeld, Holding
  <2>2. Phases' = [Phases EXCEPT ![s] = "done"] /\ Phases[s] = "working"
    BY <1>0, <2>1, PhaseOfOne DEF Phase, Phases, Holding
  <2>3. Result(s) = Atomic!Nothing
    BY <1>0, <2>1, NoBatchNoResult DEF BatchComesLate
  <2>4. Atomic!Skip(s)
    BY <1>a, <1>b, <2>1, <2>2, <2>3 DEF Atomic!Skip, Atomic!Move, Verdict
  <2>. QED
    BY <2>4 DEF Atomic!Next
<1>4. CASE FetchError(s) \/ GeoError(s) \/ DbError(s) \/ Cancel(s)
  <2>1. PICK l \in {"err", "cancelled"} : pc' = [pc EXCEPT ![s] = l]
    BY <1>4 DEF FetchError, GeoError, DbError, Cancel
  <2>2. /\ pc[s] \notin Ended /\ UNCHANGED <<redis, db>> /\ ~GeoReturns(s)
        /\ lock' = IF lock = s THEN Free ELSE lock
        /\ disturbed' = (disturbed \/ pc[s] \in Holding)
    <3>1. disturbed \in BOOLEAN /\ pc[s] \notin Ended
      BY <1>0, <1>4 DEF FetchError, GeoError, DbError, Cancel, Ended, TypeOK
    <3>2. ~GeoReturns(s)
      BY <1>0, <2>1 DEF GeoReturns, TypeOK
    <3>. QED
      BY <1>4, <3>1, <3>2
      DEF FetchError, GeoError, DbError, Cancel, Ended, Holding
  <2>3. Phases' = [Phases EXCEPT ![s] = "failed"]
    BY <1>0, <2>1, PhaseOfOne DEF Phase, Holding
  <2>4. Phases[s] = IF pc[s] \in Holding THEN "writing" ELSE "working"
    BY <2>2 DEF Phase, Phases, Ended
  <2>5. /\ {s} \in SUBSET Atomic!Unfinished
        /\ Phases' = [t \in Scans |-> IF t \in {s} THEN "failed" ELSE Phases[t]]
    BY <2>3, <2>4 DEF Atomic!Unfinished, Phases
  <2>6. Copy' = IF \E t \in {s} : Phases[t] = "writing" THEN Free ELSE Copy
    <3>1. CASE pc[s] \in Holding
      BY <1>a, <2>2, <2>4, <3>1
    <3>2. CASE pc[s] \notin Holding
      <4>1. lock' = lock /\ disturbed' = disturbed
        BY <1>0, <2>2, <3>2 DEF LockIsHeld, TypeOK
      <4>. QED
        BY <1>a, <2>2, <2>4, <3>2, <4>1
    <3>. QED
      BY <3>1, <3>2
  <2>7. Atomic!Fail({s})
    BY <1>b, <2>2, <2>5, <2>6 DEF Atomic!Fail, Verdict
  <2>. QED
    BY <2>5, <2>7 DEF Atomic!Next
<1>5. CASE AcquireLock(s)
  <2>1. /\ pc[s] = "lock" /\ lock = Free /\ ~GeoReturns(s)
        /\ UNCHANGED <<redis, db, disturbed>>
        /\ \A t \in Scans : pc[t] \notin Holding
    BY <1>0, <1>5 DEF AcquireLock, GeoReturns, LockIsHeld
  <2>2. Phases[s] = "working" /\ \A t \in Scans : Phases[t] # "writing"
    BY <2>1 DEF Phases, Phase, Holding
  <2>3. ASSUME NEW l \in {"delete", "upsert"}, pc' = [pc EXCEPT ![s] = l]
        PROVE  [Atomic!Next]_(Atomic!vars)
    <3>1. Phases' = [Phases EXCEPT ![s] = "writing"]
      BY <1>0, <2>3, PhaseOfOne DEF Phase, Holding
    <3>2. Copy' = Free
      <4>1. pc'[s] \in Holding
        BY <1>0, <2>3 DEF TypeOK, Holding
      <4>. QED
        BY <4>1 DEF Copy
    <3>3. Atomic!Begin(s)
      BY <1>b, <2>1, <2>2, <3>1, <3>2 DEF Atomic!Begin, Atomic!Move, Verdict
    <3>. QED
      BY <3>3 DEF Atomic!Next
  <2>4. ASSUME ~UseRedis, ~(UseDb /\ batch[s] # {}), pc' = [pc EXCEPT ![s] = "ok"],
               lock' = Free
        PROVE  [Atomic!Next]_(Atomic!vars)
    <3>1. Phases' = [Phases EXCEPT ![s] = "done"]
      BY <1>0, <2>4, PhaseOfOne DEF Phase, Holding
    <3>2. Result(s) = Atomic!Nothing \/ ~(UseRedis \/ UseDb)
      BY <2>4, NoBatchNoResult
    <3>3. Atomic!Skip(s)
      BY <1>a, <1>b, <2>1, <2>2, <2>4, <3>1, <3>2
      DEF Atomic!Skip, Atomic!Move, Verdict
    <3>. QED
      BY <3>3 DEF Atomic!Next
  <2>. QED
    BY <1>5, <2>3, <2>4 DEF AcquireLock, ToUpsert
<1>6. CASE DeletePeers(s)
  <2>1. /\ pc[s] = "delete" /\ pc' = [pc EXCEPT ![s] = "store"]
        /\ lock' = lock /\ db' = db /\ ~GeoReturns(s) /\ lock = s
    BY <1>0, <1>6 DEF DeletePeers, GeoReturns, LockIsHeld, Holding
  <2>2. Phases' = Phases
    BY <1>0, <2>1, PhaseStays DEF Phase, Holding
  <2>. QED
    BY <1>a, <1>b, <2>1, <2>2 DEF Atomic!vars, Verdict
<1>7. CASE StorePeers(s)
  <2>1. /\ pc[s] = "store" /\ db' = db /\ ~GeoReturns(s) /\ lock = s /\ UseRedis
    BY <1>0, <1>7 DEF StorePeers, GeoReturns, LockIsHeld, Holding, RedisIsUsed
  <2>2. CASE UseDb /\ batch[s] # {}
    <3>1. pc' = [pc EXCEPT ![s] = "upsert"] /\ lock' = s
      BY <1>7, <2>2 DEF StorePeers, ToUpsert
    <3>2. Phases' = Phases
      BY <1>0, <2>1, <3>1, PhaseStays DEF Phase, Holding
    <3>. QED
      BY <1>a, <1>b, <2>1, <3>1, <3>2 DEF Atomic!vars, Verdict
  <2>3. CASE ~(UseDb /\ batch[s] # {})
    <3>1. pc' = [pc EXCEPT ![s] = "ok"] /\ lock' = Free
      BY <1>7, <2>3 DEF StorePeers, ToUpsert
    <3>2. Phases' = [Phases EXCEPT ![s] = "done"] /\ Phases[s] = "writing"
      BY <1>0, <2>1, <3>1, PhaseOfOne DEF Phase, Phases, Holding
    <3>3. Copy' \in {IF UseRedis THEN Result(s) ELSE Atomic!Nothing, Free}
      <4>1. CASE disturbed'
        BY <1>a, <4>1
      <4>2. CASE ~disturbed'
        <5>1. ~disturbed /\ redis' = Overwrite(redis, Entries(s, batch[s]))
          BY <1>0, <1>7, <4>2 DEF StorePeers, TypeOK
        <5>2. DOMAIN redis = {}
          BY <1>0, <2>1, <5>1 DEF RedisProgress
        <5>3. redis' = Result(s)
          BY <1>0, <5>1, <5>2, EntriesType, OverwriteEmpty
          DEF TypeOK, BatchComesLate, Result
        <5>. QED
          BY <1>0, <1>a, <2>1, <3>1, <4>2, <5>3
      <4>. QED
        BY <4>1, <4>2
    <3>4. UseDb => \A ip \in DOMAIN Result(s) :
                     ip \in DOMAIN Verdict /\ Verdict[ip] = Result(s)[ip].live
      BY <2>3 DEF Result, Entries
    <3>5. Atomic!Publish(s)
      BY <1>b, <2>1, <3>2, <3>3, <3>4 DEF Atomic!Publish, Atomic!Move, Verdict
    <3>. QED
      BY <3>5 DEF Atomic!Next
  <2>. QED
    BY <2>2, <2>3
<1>8. CASE UpsertChunk(s)
  <2>1. PICK chunk \in SUBSET todo[s] : db' = Upserted(s, chunk)
    BY <1>8 DEF UpsertChunk, Takes
  <2>2. /\ pc[s] = "upsert" /\ lock' = lock /\ lock = s /\ ~GeoReturns(s) /\ UseDb
        /\ \E l \in {"upsert", "mark"} : pc' = [pc EXCEPT ![s] = l]
    BY <1>0, <1>8 DEF UpsertChunk, GeoReturns, LockIsHeld, Holding, UpsertProgress
  <2>3. Phases' = Phases /\ Phases[s] = "writing"
    BY <1>0, <2>2, PhaseStays DEF Phase, Phases, Holding
  <2>4. chunk \in SUBSET batch[s] /\ chunk \in SUBSET DOMAIN found[s]
    BY <1>0, <2>1 DEF BatchComesLate, UpsertProgress
  <2>5. /\ DOMAIN db' = DOMAIN db \cup chunk
        /\ \A ip \in DOMAIN db \ chunk : db'[ip] = db[ip]
        /\ \A ip \in chunk : db'[ip].live = found[s][ip]
    <3>1. found[s] \in PeerMaps /\ db \in Tables
      BY <1>0 DEF TypeOK
    <3>. HIDE DEF Goto, End, Release, local
    <3>. QED
      BY <2>1, <2>4, <3>1, UpsertEffect
  <2>6. DOMAIN Result(s) = batch[s] /\ \A ip \in batch[s] : Result(s)[ip].live = found[s][ip]
    BY DEF Result, Entries
  <2>7. Verdict' = [ip \in DOMAIN Verdict \cup chunk |->
                      IF ip \in chunk THEN Result(s)[ip].live ELSE Verdict[ip]]
    BY <2>4, <2>5, <2>6 DEF Verdict
  <2>8. Copy' = Copy
    BY <1>a, <2>2
  <2>9. Atomic!WriteRows(s)
    BY <1>b, <2>2, <2>3, <2>4, <2>6, <2>7, <2>8 DEF Atomic!WriteRows
  <2>. QED
    BY <2>9 DEF Atomic!Next
<1>9. CASE MarkInactive(s)
  <2>1. /\ pc[s] = "mark" /\ pc' = [pc EXCEPT ![s] = "ok"] /\ lock = s /\ lock' = Free
        /\ db' = MarkedInactive /\ UNCHANGED <<redis, disturbed>> /\ ~GeoReturns(s)
    BY <1>0, <1>9 DEF MarkInactive, GeoReturns, LockIsHeld, Holding
  <2>2. Phases' = [Phases EXCEPT ![s] = "done"] /\ Phases[s] = "writing"
    BY <1>0, <2>1, PhaseOfOne DEF Phase, Phases, Holding
  <2>3. Verdict' = Verdict
    BY <1>0, <2>1, MarkEffect, VerdictStays DEF TypeOK
  <2>4. \A ip \in DOMAIN Result(s) :
          ip \in DOMAIN Verdict /\ Verdict[ip] = Result(s)[ip].live
    BY <1>0, <2>1 DEF RowsWritten, UpsertProgress, Verdict, Result, Entries
  <2>5. Copy' \in {IF UseRedis THEN Result(s) ELSE Atomic!Nothing, Free}
    <3>1. CASE disturbed
      BY <1>a, <2>1, <3>1
    <3>2. CASE ~disturbed /\ UseRedis
      BY <1>0, <1>a, <2>1, <3>2 DEF RedisProgress, Result
    <3>3. CASE ~disturbed /\ ~UseRedis
      <4>1. Copy' = redis
        BY <1>0, <1>a, <2>1, <3>3
      <4>2. DOMAIN redis = {} /\ redis = [ip \in DOMAIN redis |-> redis[ip]]
        BY <1>0, <3>3, KindsOfMaps, MapElim DEF RedisIsUsed, TypeOK
      <4>. QED
        BY <3>3, <4>1, <4>2 DEF Atomic!Nothing
    <3>. QED
      BY <3>1, <3>2, <3>3
  <2>6. Atomic!Publish(s)
    BY <1>b, <2>1, <2>2, <2>3, <2>4, <2>5 DEF Atomic!Publish, Atomic!Move
  <2>. QED
    BY <2>6 DEF Atomic!Next
<1>. QED
  BY <1>1, <1>2, <1>3, <1>4, <1>5, <1>6, <1>7, <1>8, <1>9 DEF Step

\* The end of the process fails all the scans it finds at work, at once.
LEMMA CrashMapsToStore ==
  ASSUME IndInv, [Next]_vars, IndInv', Crash
  PROVE  Atomic!Next
<1> DEFINE S == {s \in Scans : pc[s] \notin Ended \cup {"fetch"}}
<1>0. TypeOK /\ LockIsHeld /\ Free \notin Scans /\ LockIsHeld'
  BY ScanAssumption DEF IndInv
<1>1. /\ pc' = [s \in Scans |-> IF s \in S THEN "cancelled" ELSE pc[s]]
      /\ lock' = Free /\ disturbed' = (disturbed \/ lock # Free)
      /\ UNCHANGED <<redis, db>>
  BY DEF Crash
<1>2. Phases' = [s \in Scans |-> IF s \in S THEN "failed" ELSE Phases[s]]
  <2>1. ASSUME NEW s \in Scans
        PROVE  Phase(pc[s])' = IF s \in S THEN "failed" ELSE Phase(pc[s])
    <3>1. pc'[s] = IF s \in S THEN "cancelled" ELSE pc[s]
      BY <1>1
    <3>. QED
      BY <3>1 DEF Phase, Holding
  <2>. HIDE DEF S
  <2>. QED
    BY <2>1 DEF Phases
<1>3. S \in SUBSET Atomic!Unfinished
  BY DEF Atomic!Unfinished, Phases, Phase, Ended, Holding
<1>4. (\E s \in S : Phases[s] = "writing") <=> lock # Free
  <2>1. \A s \in Scans : Phases[s] = "writing" <=> pc[s] \in Holding
    BY DEF Phases, Phase, Holding
  <2>2. \A s \in Scans : pc[s] \in Holding => s \in S
    BY DEF Ended, Holding
  <2>. QED
    BY <1>0, <2>1, <2>2 DEF TypeOK, LockIsHeld
<1>5. Copy' = IF \E s \in S : Phases[s] = "writing" THEN Free ELSE Copy
  <2>1. \A s \in Scans : pc'[s] \notin Holding
    BY <1>0, <1>1 DEF LockIsHeld
  <2>2. Copy' = IF disturbed' THEN Free ELSE redis'
    BY <2>1 DEF Copy
  <2>3. Copy = IF disturbed \/ lock \in Scans THEN Free ELSE redis
    BY <1>0, CopyIs
  <2>. HIDE DEF S
  <2>. QED
    BY <1>0, <1>1, <1>4, <2>2, <2>3 DEF TypeOK
<1>6. [s \in Scans |-> Result(s)]' = [s \in Scans |-> Result(s)]
  BY DEF Crash, local, Result, Entries
<1>7. Atomic!Fail(S)
  BY <1>1, <1>2, <1>5, <1>6 DEF Atomic!Fail, Verdict
<1>. HIDE DEF S
<1>. QED
  BY <1>3, <1>7 DEF Atomic!Next

\* Whatever happens is a step of PeerStore, or nothing that PeerStore can see.
LEMMA NextMapsToStore ==
  ASSUME IndInv, [Next]_vars, IndInv'
  PROVE  [Atomic!Next]_(Atomic!vars)
<1>1. CASE Tick
  <2>1. Verdict' = Verdict
    BY <1>1, TickEffect, VerdictStays DEF IndInv, TypeOK
  <2>2. UNCHANGED <<pc, found, batch, redis, disturbed>>
    BY <1>1 DEF Tick, local
  <2>3. Phases' = Phases /\ Copy' = Copy
    BY <2>2 DEF Phases, Phase, Copy
  <2>4. [s \in Scans |-> Result(s)]' = [s \in Scans |-> Result(s)]
    BY <2>2 DEF Result, Entries
  <2>. QED
    BY <2>1, <2>3, <2>4 DEF Atomic!vars
<1>2. CASE Crash
  BY <1>2, CrashMapsToStore
<1>3. ASSUME NEW s \in Scans, Step(s) \/ Cancel(s)
      PROVE  [Atomic!Next]_(Atomic!vars)
  BY <1>3, ScanMapsToStore
<1>4. CASE UNCHANGED vars
  BY <1>4
  DEF vars, Atomic!vars, Phases, Phase, Copy, Verdict, Result, Entries
<1>. QED
  BY <1>1, <1>2, <1>3, <1>4 DEF Next

\* redis_cache.rs and db.rs as network_scanner.rs:145-173 uses them: the calls a
\* scan makes under the lock amount to one.
THEOREM PeerStoreImplemented == Spec => ImplementsPeerStore
BY InitMapsToStore, NextMapsToStore, Invariance, PTL
   DEF Spec, ImplementsPeerStore, Atomic!Spec
=============================================================================
