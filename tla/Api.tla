--------------------------------- MODULE Api ---------------------------------
(***************************************************************************)
(* The HTTP server (api.rs) between its clients, the DatabaseCache         *)
(* (DbCache) and the table (PeerTable) that scans, the purge and the       *)
(* migration change under it.  Each request is served by a task of its     *)
(* own, which holds DB_CACHE's lock to look at the cache or to store, but  *)
(* not while it reads the table.  The process may crash and start again,   *)
(* with or without a database.  /peers, /live_peers, /health and           *)
(* /peers/scan/status change no state and never look at the cache; a scan  *)
(* that /peers/scan starts is a ScanWrites.                                *)
(***************************************************************************)
EXTENDS PeerTable, DbCache, FiniteSets

CONSTANTS
  Requests,     \* the requests that are made
  Omniflix,     \* the keys that are "omniflix" in lower case
  OmniflixKey,  \* "omniflix"
  Column,       \* the network whose rows LOWER(network) = LOWER(key) selects
  Configured,   \* the networks of the configuration
  Statements,   \* the statements of get_peer_stats (5 in the code)
  Alongside,    \* bound: FALSE lets the migration run only after the requests
  Free          \* nobody holds the lock

ASSUME ApiAssumption ==
  /\ OmniflixKey \in Keys
  /\ Column \in [Keys -> Names]
  /\ Configured \subseteq Keys /\ IsFiniteSet(Configured)
  /\ Statements \in Nat \ {0} /\ Alongside \in BOOLEAN
  /\ Free \notin Requests

VARIABLES
  useDb,  \* main has a pool
  pc,     \* where a request is
  job,    \* what it is about
  lock,   \* who holds DB_CACHE
  floor   \* history: what was stored while nobody held an older answer

request == <<pc, job>>
vars == <<table, dbCache, useDb, request, lock, floor>>

InFlight == {"check", "query", "store", "memory"}

\* A request for an entry, or for all of them in turn: the parameter active, the
\* networks still to refresh, the statements executed for the entry and the
\* change of the table that the first of them saw.
Jobs == [key : Entries, filter : {"all", "some"},
         left : SUBSET Configured, asked : 0 .. Statements, at : Nat]

Job(k, filter, left) ==
  [key |-> k, filter |-> filter, left |-> left, asked |-> 0, at |-> 0]
NoJob == Job(Stats, "all", {})

TypeOK ==
  /\ TableTypeOK /\ CacheTypeOK
  /\ useDb \in BOOLEAN
  /\ pc \in [Requests -> InFlight \cup {"idle", "ended"}]
  /\ job \in [Requests -> Jobs]
  /\ lock \in Requests \cup {Free}
  /\ floor \in [Entries -> Nat]

Init ==
  /\ TableInit /\ CacheInit
  /\ useDb \in BOOLEAN
  /\ pc = [r \in Requests |-> "idle"]
  /\ job = [r \in Requests |-> NoJob]
  /\ lock = Free
  /\ floor = [e \in Entries |-> 0]
-----------------------------------------------------------------------------
Goto(r, label, newJob) ==
  /\ pc' = [pc EXCEPT ![r] = label]
  /\ job' = [job EXCEPT ![r] = newJob]

End(r) == Goto(r, "ended", NoJob)

\* Mutant: the guard lives to the end of the handler.
KeepLock(r) == lock = r /\ UNCHANGED lock

Unlock(r) == lock = r /\ lock' = Free

\* Mutant: the answers to a refresh of everything are of one moment.
ProceedAsBefore(r) ==
  \/ job[r].left = {} /\ End(r)
  \/ \E k \in job[r].left :
       Goto(r, "store", [job[r] EXCEPT !.key = k, !.left = @ \ {k}])

\* An entry is done with: the next network, or the end.
Proceed(r) ==
  \/ job[r].left = {} /\ End(r)
  \/ \E k \in job[r].left : Goto(r, "query", Job(k, "all", job[r].left \ {k}))

\* get_peers_by_network and get_stats.
Get(r) ==
  /\ pc[r] = "idle"
  /\ \/ Goto(r, "check", NoJob)
     \/ \E k \in Keys, filter \in {"all", "some"} :
          Goto(r, "check", Job(k, filter, {}))
  /\ UNCHANGED <<table, dbCache, useDb, lock, floor>>

\* refresh_cache: every spelling of "omniflix" is stored under one.
RefreshKey(k) == IF k \in Omniflix THEN OmniflixKey ELSE k

\* It is refused without a database.
Refresh(r) ==
  /\ pc[r] = "idle"
  /\ \/ ~useDb /\ End(r)
     \/ useDb /\ \E k \in Keys : Goto(r, "query", Job(RefreshKey(k), "all", {}))
     \/ useDb /\ Goto(r, "query", Job(Stats, "all", Configured))
  /\ UNCHANGED <<table, dbCache, useDb, lock, floor>>

Lock(r) ==
  /\ pc[r] \in {"check", "store"}
  /\ lock = Free
  /\ lock' = r
  /\ UNCHANGED <<table, dbCache, useDb, request, floor>>

\* The cached list is filtered and answered.
AnswerFromCache(r) ==
  /\ pc[r] = "check" /\ Hit(job[r].key)
  /\ Unlock(r)
  /\ End(r)
  /\ UNCHANGED <<table, dbCache, useDb, floor>>

Miss(r) ==
  /\ pc[r] = "check" /\ ~Hit(job[r].key)
  /\ Unlock(r)
  /\ Goto(r, IF useDb THEN "query" ELSE "memory", job[r])
  /\ UNCHANGED <<table, dbCache, useDb, floor>>

\* The answer comes from Redis, or else from the scans' own caches.
AnswerWithoutDb(r) ==
  /\ pc[r] = "memory"
  /\ End(r)
  /\ UNCHANGED <<table, dbCache, useDb, lock, floor>>

StatementsOf(k) == IF k = Stats THEN Statements ELSE 1

\* What a statement for k reads: everything, or the rows of a network.
Moment(k) == IF k = Stats THEN clock ELSE version[Column[k]]

TableIsEmpty == \A n \in Names : rows[n] = {}

\* Mutant: one statement too many.
QueryOnceMore(r) ==
  LET j == job[r]
      k == j.key
  IN  /\ pc[r] = "query"
      /\ Goto(r, IF j.asked = StatementsOf(k) THEN "store" ELSE "query",
              [j EXCEPT !.asked = @ + 1,
                        !.at = IF j.asked = 0 THEN Moment(k) ELSE @])
      /\ UNCHANGED <<table, dbCache, useDb, lock, floor>>

\* One statement.  The last one of get_peer_stats, MAX("last_seen"), gives NULL
\* for an empty table, which is no DateTime: an error.
Query(r) ==
  LET j == job[r]
      k == j.key
  IN  /\ pc[r] = "query"
      /\ ~(k = Stats /\ j.asked + 1 = Statements /\ TableIsEmpty)
      /\ Goto(r, IF j.asked + 1 = StatementsOf(k) THEN "store" ELSE "query",
              [j EXCEPT !.asked = @ + 1,
                        !.at = IF j.asked = 0 THEN Moment(k) ELSE @])
      /\ UNCHANGED <<table, dbCache, useDb, lock, floor>>

\* A statement fails: the refresh of everything only counts it.
QueryFails(r) ==
  /\ pc[r] = "query"
  /\ Proceed(r)
  /\ UNCHANGED <<table, dbCache, useDb, lock, floor>>

\* Another request has read the table for e and has yet to store that.
Pending(r, e) ==
  \E q \in Requests \ {r} :
    pc[q] \in {"query", "store"} /\ job[q].key = e /\ job[q].asked > 0

Raised(r, e, n) ==
  [floor EXCEPT ![e] = IF Pending(r, e) \/ n < @ THEN @ ELSE n]

\* Mutant: the filtered answer is stored too.
StoreAny(r) ==
  LET j == job[r]
  IN  /\ pc[r] = "store"
      /\ Unlock(r)
      /\ Store(j.key, j.at, j.filter)
      /\ floor' = Raised(r, j.key, j.at)
      /\ Proceed(r)
      /\ UNCHANGED <<table, useDb>>

\* An answer that was filtered is not stored.
StoreAnswer(r) ==
  LET j == job[r]
  IN  /\ pc[r] = "store"
      /\ Unlock(r)
      /\ IF j.filter = "all"
           THEN /\ Store(j.key, j.at, j.filter)
                /\ floor' = Raised(r, j.key, j.at)
           ELSE UNCHANGED <<dbCache, floor>>
      /\ Proceed(r)
      /\ UNCHANGED <<table, useDb>>

\* The client goes away: its handler is dropped at an await.
Disconnect(r) ==
  /\ pc[r] \in InFlight /\ lock # r
  /\ End(r)
  /\ UNCHANGED <<table, dbCache, useDb, lock, floor>>

\* The process ends, with whatever it was doing, and starts again: main
\* configures the cache and purges the table, if it can connect to it.
Restart ==
  /\ pc' = [r \in Requests |-> IF pc[r] = "idle" THEN "idle" ELSE "ended"]
  /\ job' = [r \in Requests |-> NoJob]
  /\ lock' = Free
  /\ cache' = [e \in {} |-> 0] /\ lastRefresh' = Never /\ interval' = Default
  /\ useDb' \in BOOLEAN
  /\ \/ useDb' /\ Purge
     \/ UNCHANGED <<rows, clock, version>>
  /\ UNCHANGED <<migrating, floor>>

Serve(r) ==
  \/ Lock(r) \/ AnswerFromCache(r) \/ Miss(r) \/ AnswerWithoutDb(r)
  \/ Query(r) \/ QueryFails(r) \/ StoreAnswer(r)

Arrive(r) == Get(r) \/ Refresh(r)

Others ==
  \/ /\ Migrate
     /\ Alongside \/ \A r \in Requests : pc[r] = "ended"
     /\ UNCHANGED <<dbCache, useDb, request, lock, floor>>
  \/ \E n \in Names : ScanWrites(n)
                      /\ UNCHANGED <<dbCache, useDb, request, lock, floor>>
  \/ /\ Age \/ (lock = Free /\ Configure)
     /\ UNCHANGED <<table, useDb, request, lock, floor>>

Next ==
  \/ \E r \in Requests : Arrive(r) \/ Serve(r) \/ Disconnect(r)
  \/ Others \/ Restart

\* A statement ends, if only with an error, and a task that can run does.
Spec == Init /\ [][Next]_vars /\ \A r \in Requests : WF_vars(Serve(r))
-----------------------------------------------------------------------------
\* What is stored while no other request holds an answer read before stays: the
\* entry is never replaced by an older one.  (A slow request that read the
\* table before a refresh and stores after it does undo the refresh.)
RefreshesStick ==
  \A e \in DOMAIN cache : cache[e].at >= floor[e]

\* Every request is answered, in whatever order requests get the lock.
RequestsEnd ==
  \A r \in Requests : pc[r] \in InFlight ~> pc[r] = "ended"
==============================================================================
