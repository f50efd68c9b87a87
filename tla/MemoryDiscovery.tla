--------------------------- MODULE MemoryDiscovery ---------------------------
(***************************************************************************)
(* run_memory_only_discovery and the functions it scans a network with     *)
(* (discovery/memory.rs): discovery when there is no database.  A first    *)
(* pass over the networks, then, with --continuous, one per interval.  A   *)
(* pass runs one task per network, some at a time; a task tries one cached *)
(* peer, or the primary and then the fallback endpoint.  What a scan of    *)
(* one endpoint does is in module NetworkScanner.                          *)
(***************************************************************************)
EXTENDS Naturals, FiniteSets

CONSTANTS
  Networks,          \* the networks that can be asked for
  Configured,        \* those that get_rpc_urls finds
  Problematic,       \* those whose primary URL has a problematic pattern
  ConcurrentChains,  \* --concurrent-chains, at most 5
  All                \* no --network option: all networks are scanned

ASSUME MemoryAssumption ==
  /\ IsFiniteSet(Networks)
  /\ Configured \subseteq Networks /\ Problematic \subseteq Configured
  /\ ConcurrentChains \in 1 .. 5
  /\ All \notin Networks

VARIABLES
  network,     \* --network, or All
  continuous,  \* --continuous
  pc,         \* where run_memory_only_discovery is
  first,      \* the pass that runs, or comes next, is the one before the loop
  task,       \* where the task of each network is
  useCached,  \* use_peer_cache, read when the task is created
  hasCached,  \* KNOWN_GOOD_PEERS has peers for the network
  signal,     \* the shutdown signal: not sent, in the channel, taken from it
  asked,      \* history: the kinds of endpoint asked in this pass
  yielded     \* history: the networks for which one had peers

options == <<network, continuous>>
service == <<options, pc, first, signal>>
vars == <<service, task, useCached, hasCached, asked, yielded>>

Endpoints == {"cached", "primary", "fallback"}
Ended == {"ok", "err", "skipped"}

TypeOK ==
  /\ network \in Networks \cup {All} /\ continuous \in BOOLEAN
  /\ pc \in {"start", "scan", "loop", "tick", "check", "done"}
  /\ first \in BOOLEAN
  /\ task \in [Networks -> {"idle", "waiting"} \cup Endpoints \cup Ended]
  /\ useCached \in [Networks -> BOOLEAN]
  /\ hasCached \in [Networks -> BOOLEAN]
  /\ signal \in {"none", "sent", "taken"}
  /\ asked \in [Networks -> SUBSET Endpoints]
  /\ yielded \subseteq Networks

\* The networks of a pass.
Scanned == IF network = All THEN Networks ELSE {network}

Scanning == {n \in Networks : task[n] \in Endpoints}
-----------------------------------------------------------------------------
Init ==
  /\ network \in Networks \cup {All}
  /\ continuous \in BOOLEAN
  /\ pc = "start" /\ first = TRUE
  /\ task = [n \in Networks |-> "idle"]
  /\ useCached = [n \in Networks |-> FALSE]
  /\ hasCached \in [Networks -> BOOLEAN]
  /\ signal = "none"
  /\ asked = [n \in Networks |-> {}]
  /\ yielded = {}

\* The tasks of a pass are created together, each with its look at the cache.
Launch ==
  /\ pc' = "scan"
  /\ task' = [n \in Networks |-> IF n \in Scanned THEN "waiting" ELSE "idle"]
  /\ useCached' = hasCached
  /\ asked' = [n \in Networks |-> {}]
  /\ yielded' = {}
  /\ UNCHANGED <<options, first, hasCached, signal>>

TakeSignal ==
  /\ signal = "sent"
  /\ signal' = "taken"
  /\ pc' = "done"
  /\ UNCHANGED <<options, first, task, useCached, hasCached, asked, yielded>>

\* Only with --network is the signal looked for before the first pass.
Start == pc = "start" /\ (network # All => signal # "sent") /\ Launch

StopAtStart == pc = "start" /\ network # All /\ TakeSignal

Ask(n, endpoint) ==
  /\ task' = [task EXCEPT ![n] = endpoint]
  /\ asked' = [asked EXCEPT ![n] = @ \cup {endpoint}]

\* Mutant: the fallback endpoint is not asked without the primary one.
AskPrimary(n) ==
  IF n \in Configured \ Problematic
    THEN Ask(n, "primary")
    ELSE task' = [task EXCEPT ![n] = "skipped"] /\ UNCHANGED asked

\* memory_scan_network, if the network is configured.
AskConfigured(n) ==
  IF n \in Configured
    THEN Ask(n, IF n \in Problematic THEN "fallback" ELSE "primary")
    ELSE task' = [task EXCEPT ![n] = "skipped"] /\ UNCHANGED asked

\* Mutant: the task fails when its cached peer is of no use.
FailUnusable(n) == task' = [task EXCEPT ![n] = "failed"] /\ UNCHANGED asked

\* After an error of memory_scan_from_cached_peers.
CachedFailed(n) == AskConfigured(n)

\* The semaphore has a permit.  memory_scan_from_cached_peers reads the cache
\* again: there may be no peer now, and the one it picks may have no usable
\* address.
Acquire(n) ==
  /\ task[n] = "waiting"
  /\ Cardinality(Scanning) < ConcurrentChains
  /\ \/ useCached[n] /\ hasCached[n] /\ Ask(n, "cached")
     \/ useCached[n] /\ CachedFailed(n)
     \/ ~useCached[n] /\ AskConfigured(n)
  /\ UNCHANGED <<service, useCached, hasCached, yielded>>

\* memory_scan_endpoint succeeds, having replaced the list of cached peers.
ScanFindsPeers(n) ==
  /\ n \in Scanning
  /\ task' = [task EXCEPT ![n] = "ok"]
  /\ yielded' = yielded \cup {n}
  /\ \E c \in BOOLEAN : hasCached' = [hasCached EXCEPT ![n] = c]
  /\ UNCHANGED <<service, useCached, asked>>

\* It succeeds too when there are no peers, or no answer.
ScanFindsNothing(n) ==
  /\ n \in Scanning
  /\ task' = [task EXCEPT ![n] = "ok"]
  /\ UNCHANGED <<service, useCached, hasCached, asked, yielded>>

\* Mutant: a network whose endpoints fail is tried until they do not.
RetryFallback(n) ==
  /\ n \in Scanning
  /\ Ask(n, IF n \in Problematic THEN "fallback" ELSE "primary")
  /\ \E c \in BOOLEAN : hasCached' = [hasCached EXCEPT ![n] = c]
  /\ UNCHANGED <<service, useCached, yielded>>

\* Mutant: an error is final.
FailAtOnce(n) ==
  /\ n \in Scanning
  /\ task' = [task EXCEPT ![n] = "err"]
  /\ \E c \in BOOLEAN : hasCached' = [hasCached EXCEPT ![n] = c]
  /\ UNCHANGED <<service, useCached, asked, yielded>>

\* An error or the timeout, which may come after the list was replaced.
ScanFails(n) ==
  /\ n \in Scanning
  /\ CASE task[n] = "cached" -> CachedFailed(n)
       [] task[n] = "primary" -> Ask(n, "fallback")
       [] task[n] = "fallback" ->
            task' = [task EXCEPT ![n] = "err"] /\ UNCHANGED asked
  /\ \E c \in BOOLEAN : hasCached' = [hasCached EXCEPT ![n] = c]
  /\ UNCHANGED <<service, useCached, yielded>>

\* join_all returns.  With --network an error of the first pass ends discovery.
EndPass ==
  /\ pc = "scan"
  /\ \A n \in Scanned : task[n] \in Ended
  /\ pc' = IF ~first THEN "check"
           ELSE IF continuous /\ ~(network # All /\ task[network] = "err")
                  THEN "loop" ELSE "done"
  /\ first' = FALSE
  /\ UNCHANGED <<options, task, useCached, hasCached, signal, asked, yielded>>

\* The checks at the top of the loop and after a pass.
StopInLoop == pc \in {"loop", "check"} /\ TakeSignal

NoSignal ==
  /\ pc \in {"loop", "check"} /\ signal # "sent"
  /\ pc' = IF pc = "loop" THEN "tick" ELSE "loop"
  /\ UNCHANGED <<options, first, task, useCached, hasCached, signal, asked,
                 yielded>>

\* The interval has passed.
Tick == pc = "tick" /\ Launch

SendSignal ==
  /\ signal = "none"
  /\ signal' = "sent"
  /\ UNCHANGED <<options, pc, first, task, useCached, hasCached, asked, yielded>>

\* A scan started over the HTTP API replaces the list.
OtherScan(n) ==
  /\ hasCached' = [hasCached EXCEPT ![n] = ~@]
  /\ UNCHANGED <<service, task, useCached, asked, yielded>>

Discover ==
  \/ Start \/ StopAtStart \/ EndPass \/ StopInLoop \/ NoSignal \/ Tick
  \/ \E n \in Networks :
       Acquire(n) \/ ScanFindsPeers(n) \/ ScanFindsNothing(n) \/ ScanFails(n)

Next == Discover \/ SendSignal \/ \E n \in Networks : OtherScan(n)

\* Every scan has a timeout and the interval passes.
Spec == Init /\ [][Next]_vars /\ WF_vars(Discover)
-----------------------------------------------------------------------------
\* A pass leaves no configured network out: the emptiness read when the task was
\* created may be out of date when it gets its permit, and the cached peer of no
\* use, but then the configured endpoints are asked.
EveryNetworkAsked ==
  pc \in {"loop", "check"} => \A n \in Scanned \cap Configured : asked[n] # {}

\* With --continuous discovery ends for a signal, and for one other reason: the
\* `?` of the first pass over a single network, whose configured endpoints have
\* failed down to the last.  No error of a later pass ends it.
EndsForAReason ==
  continuous /\ pc # "done" /\ pc' = "done" =>
    \/ signal' = "taken"
    \/ first /\ network # All /\ "fallback" \in asked[network]
ContinuousGoesOn == [][EndsForAReason]_vars

\* The signal ends discovery, at the latest after a pass.
SignalEndsDiscovery == signal = "sent" ~> pc = "done"
-----------------------------------------------------------------------------
\* memory.rs:429 "Only try fallback if primary completely failed": a network
\* whose primary endpoint gave no peers has its fallback tried.
PrimaryFailureTriesFallback ==
  \A n \in Networks : task[n] = "ok" /\ "primary" \in asked[n] /\ n \notin yielded
                        => "fallback" \in asked[n]
==============================================================================
