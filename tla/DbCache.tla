------------------------------- MODULE DbCache -------------------------------
(***************************************************************************)
(* DatabaseCache (cache.rs): the answers the HTTP server keeps so as not   *)
(* to read the table for every request.  stats and peers_by_network are    *)
(* one function here, from Stats and the network strings that clients use  *)
(* to what was stored and how long ago; all of them share last_refresh.    *)
(***************************************************************************)
EXTENDS Integers

CONSTANTS
  Keys,         \* the keys of peers_by_network
  Stats,        \* the entry stats
  Never,        \* there was no refresh yet
  Intervals,    \* the refresh intervals that are configured
  Default,      \* CACHE_REFRESH_INTERVAL, or an hour
  SignedLimit,  \* 2^63: from there on a u64 is negative as an i64
  MaxAge        \* bound on the ages of entries

Entries == Keys \cup {Stats}

ASSUME CacheAssumption ==
  /\ Stats \notin Keys
  /\ Never \notin Int
  /\ SignedLimit \in Nat \ {0}
  /\ Intervals \subseteq 0 .. (2 * SignedLimit - 1)
  /\ Default \in Intervals
  /\ MaxAge \in Nat

VARIABLES
  cache,        \* what is stored: of which moment, whether unfiltered, its age
  lastRefresh,  \* the age of last_refresh
  interval      \* cache_refresh_interval

dbCache == <<cache, lastRefresh, interval>>

Stored == [at : Nat, filter : {"all", "some"}, age : 0 .. MaxAge]

CacheTypeOK ==
  /\ DOMAIN cache \subseteq Entries
  /\ cache = [e \in DOMAIN cache |-> cache[e]]
  /\ \A e \in DOMAIN cache : cache[e] \in Stored
  /\ lastRefresh \in (0 .. MaxAge) \cup {Never}
  /\ interval \in Intervals

\* DatabaseCache::default(), configured by main.
CacheInit ==
  /\ cache = [e \in {} |-> 0]
  /\ lastRefresh = Never
  /\ interval = Default
-----------------------------------------------------------------------------
\* cache_refresh_interval as i64.
AsSigned(n) == IF n < SignedLimit THEN n ELSE n - 2 * SignedLimit

IsStale == lastRefresh = Never \/ lastRefresh > AsSigned(interval)

\* get_stats and get_peers_for_network return something.
Hit(e) == ~IsStale /\ e \in DOMAIN cache

With(e, at, filter) ==
  [x \in DOMAIN cache \cup {e} |->
     IF x = e THEN [at |-> at, filter |-> filter, age |-> 0] ELSE cache[x]]

\* Mutant: update_stats leaves last_refresh alone.
StorePeersOnly(e, at, filter) ==
  /\ cache' = With(e, at, filter)
  /\ lastRefresh' = IF e = Stats THEN lastRefresh ELSE 0
  /\ UNCHANGED interval

\* update_stats and update_peers_for_network.
Store(e, at, filter) ==
  /\ cache' = With(e, at, filter)
  /\ lastRefresh' = 0
  /\ UNCHANGED interval

\* configure_cache.
Configure ==
  /\ interval' \in Intervals
  /\ UNCHANGED <<cache, lastRefresh>>

Older(age) == IF age < MaxAge THEN age + 1 ELSE age

\* Time passes.
Age ==
  /\ \E e \in DOMAIN cache : cache[e].age < MaxAge
  /\ cache' = [e \in DOMAIN cache |-> [cache[e] EXCEPT !.age = Older(@)]]
  /\ lastRefresh' = IF lastRefresh = Never THEN Never ELSE Older(lastRefresh)
  /\ UNCHANGED interval
-----------------------------------------------------------------------------
\* last_refresh is the time of the newest entry, whatever that is: an older
\* entry passes for fresh exactly as long as another one is.
LastRefreshIsNewest ==
  /\ lastRefresh = Never <=> DOMAIN cache = {}
  /\ \A e \in DOMAIN cache : lastRefresh <= cache[e].age
  /\ DOMAIN cache # {} => \E e \in DOMAIN cache : cache[e].age = lastRefresh

\* Only complete lists are stored, since a list is filtered when it is answered:
\* a filtered one would hide peers from every later request.
EntriesAreComplete == \A e \in DOMAIN cache : cache[e].filter = "all"
==============================================================================
