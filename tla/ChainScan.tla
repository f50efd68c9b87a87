------------------------------ MODULE ChainScan ------------------------------
(***************************************************************************)
(* scan_chain_with_multiple_workers and spawn_scan_worker                  *)
(* (discovery/service.rs): the manager that scans one network through      *)
(* spawned workers, each of them a NetworkScanner scan.  Several calls for *)
(* the network follow each other (the discovery service) or overlap        *)
(* (trigger_network_scan, from the HTTP API).                              *)
(*                                                                         *)
(* The workers of a call are interchangeable, so they are counted: waiting *)
(* to be polled or for a permit, scanning, finished.  While the call runs  *)
(* its Vec of handles holds all of them; when the call returns the handles *)
(* are dropped, which detaches the tasks and does not stop them.           *)
(*                                                                         *)
(* The manager's own shutdown receiver is left out: both callers await the *)
(* call, so nobody sends on the channel while it runs.                     *)
(***************************************************************************)
EXTENDS Naturals, Sequences, FiniteSets

CONSTANTS
  Calls,         \* the calls made for the network
  Triggered,     \* those made by trigger_network_scan, the rest by the service
  MaxCalls,      \* bound: how many of them are made
  Endpoints,     \* URLs a worker can be given
  Primary, Fallback,  \* the two configured ones
  Unusable,      \* a cached peer with no or a problematic URL
  MaxCached,     \* bound: the length of a KNOWN_GOOD_PEERS list
  MaxWorkers,    \* max_workers (20 in the code)
  Permits,       \* WORKERS_PER_CHAIN, the permits of a call's semaphore (25)
  AddStep,       \* workers added in one pass (5)
  MaxFailures,   \* max_consecutive_failures (3)
  Discovered,    \* peers_count: the workers never add to discovered_peers
  MaxPeers       \* MAX_PEERS_PER_CHAIN (4000)

ASSUME ChainAssumption ==
  /\ Triggered \subseteq Calls /\ MaxCalls \in Nat
  /\ Primary \in Endpoints /\ Fallback \in Endpoints /\ Unusable \notin Endpoints
  /\ MaxCached \in Nat
  /\ MaxWorkers \in Nat /\ 2 <= MaxWorkers
  /\ Permits \in Nat /\ MaxWorkers <= Permits
  /\ AddStep \in Nat \ {0} /\ MaxFailures \in Nat \ {0}
  /\ Discovered \in Nat /\ MaxPeers \in Nat

VARIABLES
  mgr,         \* where each call is
  active,      \* active_workers
  index,       \* worker_index
  failures,    \* consecutive_failures
  timeUp,      \* an hour has passed since scan_start
  shouldStop,  \* should_stop
  told,        \* the workers' receivers have a signal or a closed channel
  waiting,     \* workers spawned that have no permit yet
  scanning,    \* workers in scan_network
  finished,    \* workers whose task has ended and whose handle is held
  tried,       \* history: the endpoints a call has spawned workers for
  sameList,    \* history: the cache has not changed since the call started
  cache        \* get_cached_peers: the URLs of KNOWN_GOOD_PEERS

manager == <<mgr, active, index, failures, shouldStop>>
workers == <<waiting, scanning, finished>>
history == <<tried, sameList>>
vars == <<manager, workers, history, timeUp, told, cache>>

Cached == Endpoints \cup {Unusable}
Lists == UNION {[1 .. n -> Cached] : n \in 0 .. MaxCached}
Running == {"check", "reap", "add", "drain"}

TypeOK ==
  /\ mgr \in [Calls -> {"new", "returned"} \cup Running]
  /\ active \in [Calls -> Nat] /\ index \in [Calls -> Nat]
  /\ failures \in [Calls -> Nat]
  /\ timeUp \in [Calls -> BOOLEAN] /\ shouldStop \in [Calls -> BOOLEAN]
  /\ told \in [Calls -> BOOLEAN]
  /\ waiting \in [Calls -> Nat] /\ scanning \in [Calls -> Nat]
  /\ finished \in [Calls -> Nat]
  /\ tried \in [Calls -> SUBSET Endpoints]
  /\ sameList \in [Calls -> BOOLEAN]
  /\ cache \in Lists

Smaller(a, b) == IF a <= b THEN a ELSE b

Service == Calls \ Triggered

Zero == [c \in Calls |-> 0]
No == [c \in Calls |-> FALSE]
-----------------------------------------------------------------------------
Init ==
  /\ mgr = [c \in Calls |-> "new"]
  /\ active = Zero /\ index = Zero /\ failures = Zero
  /\ timeUp = No /\ shouldStop = No /\ told = No
  /\ waiting = Zero /\ scanning = Zero /\ finished = Zero
  /\ tried = [c \in Calls |-> {}]
  /\ sameList = [c \in Calls |-> TRUE]
  /\ cache \in Lists

\* A worker for the primary and one for the fallback endpoint.  The service
\* makes one call at a time.
Start(c) ==
  /\ mgr[c] = "new"
  /\ Cardinality({d \in Calls : mgr[d] # "new"}) < MaxCalls
  /\ c \in Service => \A d \in Service : mgr[d] \in {"new", "returned"}
  /\ mgr' = [mgr EXCEPT ![c] = "check"]
  /\ waiting' = [waiting EXCEPT ![c] = 2]
  /\ active' = [active EXCEPT ![c] = 2]
  /\ tried' = [tried EXCEPT ![c] = {Primary, Fallback}]
  /\ sameList' = [sameList EXCEPT ![c] = TRUE]
  /\ UNCHANGED <<index, failures, shouldStop, scanning, finished, timeUp, told,
                 cache>>

\* The loop condition and the reasons to leave the loop.
Check(c) ==
  /\ mgr[c] = "check"
  /\ mgr' = [mgr EXCEPT ![c] = IF active[c] = 0 \/ shouldStop[c] \/ timeUp[c]
                                 THEN "drain" ELSE "reap"]
  /\ UNCHANGED <<active, index, failures, shouldStop, workers, history, timeUp,
                 told, cache>>

\* Handles of finished workers are removed; with enough peers or workers the
\* manager sleeps and starts over.
Reap(c) ==
  /\ mgr[c] = "reap"
  /\ active' = [active EXCEPT ![c] = @ - finished[c]]
  /\ finished' = [finished EXCEPT ![c] = 0]
  /\ IF Discovered >= MaxPeers \/ active'[c] >= MaxWorkers
       THEN /\ mgr' = [mgr EXCEPT ![c] = "check"]
            /\ shouldStop' = [shouldStop EXCEPT ![c] = @ \/ Discovered >= MaxPeers]
       ELSE /\ mgr' = [mgr EXCEPT ![c] = "add"]
            /\ UNCHANGED shouldStop
  /\ UNCHANGED <<index, failures, waiting, scanning, history, timeUp, told, cache>>

\* Mutant: the free places are not looked at.
MaxToAddAlways(c) == AddStep

\* The positions of the cached list that one pass looks at.
MaxToAdd(c) == Smaller(AddStep, MaxWorkers - active[c])
\* Mutant: the index is taken for that of the first entry already tried.
WindowOffByOne(c) ==
  {i \in 1 .. Len(cache) : i > index[c] + 1 /\ i <= index[c] + MaxToAdd(c)}

Window(c) == {i \in 1 .. Len(cache) : i > index[c] /\ i <= index[c] + MaxToAdd(c)}
Fresh(c) == {i \in Window(c) : cache[i] \in Endpoints}

\* Leave the loop after too many passes in a row that added nobody.
CountFailure(c) ==
  /\ failures' = [failures EXCEPT ![c] = @ + 1]
  /\ mgr' = [mgr EXCEPT ![c] = IF failures'[c] >= MaxFailures
                                 THEN "drain" ELSE "check"]

\* Mutants: the new workers are not counted, or refused peers are counted too.
AddUncounted(c, n) ==
  /\ waiting' = [waiting EXCEPT ![c] = @ + n]
  /\ tried' = [tried EXCEPT ![c] = @ \cup {cache[i] : i \in Fresh(c)}]
  /\ UNCHANGED active
AddOvercounted(c, n) ==
  /\ waiting' = [waiting EXCEPT ![c] = @ + n]
  /\ active' = [active EXCEPT ![c] = @ + MaxToAdd(c)]
  /\ tried' = [tried EXCEPT ![c] = @ \cup {cache[i] : i \in Fresh(c)}]

AddWorkers(c, n) ==
  /\ waiting' = [waiting EXCEPT ![c] = @ + n]
  /\ active' = [active EXCEPT ![c] = @ + n]
  /\ tried' = [tried EXCEPT ![c] = @ \cup {cache[i] : i \in Fresh(c)}]

\* The next entries of the list as it is now.  failed_endpoints only ever holds
\* problematic URLs, which are skipped anyway.
Add(c) ==
  /\ mgr[c] = "add"
  /\ Len(cache) > index[c]
  /\ AddWorkers(c, Cardinality(Fresh(c)))
  /\ IF Fresh(c) # {}
       THEN /\ failures' = [failures EXCEPT ![c] = 0]
            /\ mgr' = [mgr EXCEPT ![c] = "check"]
       ELSE CountFailure(c)
  /\ index' = [index EXCEPT ![c] = @ + MaxToAdd(c)]
  /\ UNCHANGED <<shouldStop, scanning, finished, sameList, timeUp, told, cache>>

AddNone(c) ==
  /\ mgr[c] = "add"
  /\ Len(cache) <= index[c]
  /\ CountFailure(c)
  /\ UNCHANGED <<active, index, shouldStop, workers, history, timeUp, told, cache>>

\* The call returns and drops its handles; a triggered call drops the sender of
\* its workers' channel too.
Return(c) ==
  /\ mgr' = [mgr EXCEPT ![c] = "returned"]
  /\ finished' = [finished EXCEPT ![c] = 0]
  /\ told' = [told EXCEPT ![c] = @ \/ c \in Triggered]
  /\ UNCHANGED <<active, index, failures, shouldStop, waiting, scanning, history,
                 timeUp, cache>>

DrainAll(c) ==
  /\ mgr[c] = "drain"
  /\ waiting[c] = 0 /\ scanning[c] = 0
  /\ Return(c)

\* Mutant: join_all is awaited without a timeout.
DrainForever(c) ==
  /\ mgr[c] = "drain"
  /\ waiting[c] + scanning[c] = 0
  /\ Return(c)

\* The 10 second timeout around join_all.
DrainTimeout(c) ==
  /\ mgr[c] = "drain"
  /\ waiting[c] + scanning[c] > 0
  /\ Return(c)

\* The task of a worker ends; only a held handle remembers it.
Finish(c) ==
  finished' = [finished EXCEPT ![c] = IF mgr[c] \in Running THEN @ + 1 ELSE @]

\* A worker gets a permit.  try_recv finds a signal, but not a closed channel.
WorkerStarts(c) ==
  /\ waiting[c] > 0
  /\ scanning[c] < Permits
  /\ waiting' = [waiting EXCEPT ![c] = @ - 1]
  /\ IF shouldStop[c] \/ (told[c] /\ c \in Service)
       THEN Finish(c) /\ UNCHANGED scanning
       ELSE /\ scanning' = [scanning EXCEPT ![c] = @ + 1]
            /\ UNCHANGED finished
  /\ UNCHANGED <<manager, history, timeUp, told, cache>>

\* scan_network returns, with a result or an error.
WorkerEnds(c) ==
  /\ scanning[c] > 0
  /\ scanning' = [scanning EXCEPT ![c] = @ - 1]
  /\ Finish(c)
  /\ UNCHANGED <<manager, waiting, history, timeUp, told, cache>>

\* Mutant: the branch of the select! is for a message, Ok(_) = recv(); a closed
\* channel only disables it.
ToldByMessage(c) ==
  /\ told[c] /\ c \in Service
  /\ scanning[c] > 0
  /\ scanning' = [scanning EXCEPT ![c] = @ - 1]
  /\ Finish(c)
  /\ UNCHANGED <<manager, waiting, history, timeUp, told, cache>>

\* recv in the worker's select! completes: the scan is dropped where it is.
WorkerToldToStop(c) ==
  /\ told[c]
  /\ scanning[c] > 0
  /\ scanning' = [scanning EXCEPT ![c] = @ - 1]
  /\ Finish(c)
  /\ UNCHANGED <<manager, waiting, history, timeUp, told, cache>>

\* A scan replaces the list of cached peers.
UpdateCache(c) ==
  /\ scanning[c] > 0
  /\ cache' \in Lists \ {cache}
  /\ sameList' = No
  /\ UNCHANGED <<manager, workers, tried, timeUp, told>>

\* The service loop, between two calls, forwards the shutdown signal.
Signal ==
  /\ \A d \in Service : mgr[d] \in {"new", "returned"}
  /\ \E d \in Service : mgr[d] = "returned" /\ ~told[d]
  /\ told' = [c \in Calls |-> told[c] \/ (c \in Service /\ mgr[c] = "returned")]
  /\ UNCHANGED <<manager, workers, history, timeUp, cache>>

\* The clock of the service starts before the pass over cached peers, so its hour
\* can be over when the call begins.
TimeUp(c) ==
  /\ mgr[c] \in Running \/ (c \in Service /\ mgr[c] = "new")
  /\ ~timeUp[c]
  /\ timeUp' = [timeUp EXCEPT ![c] = TRUE]
  /\ UNCHANGED <<manager, workers, history, told, cache>>

Manage(c) ==
  Check(c) \/ Reap(c) \/ Add(c) \/ AddNone(c) \/ DrainAll(c) \/ DrainTimeout(c)

Next ==
  \/ Signal
  \/ \E c \in Calls :
       \/ Start(c) \/ Manage(c)
       \/ WorkerStarts(c) \/ WorkerEnds(c) \/ WorkerToldToStop(c)
       \/ UpdateCache(c) \/ TimeUp(c)

\* The manager runs, timers expire and a spawned or told worker is polled.  A
\* scan need not end: fetch_peer_info retries a rate-limited endpoint forever.
Spec ==
  /\ Init /\ [][Next]_vars
  /\ \A c \in Calls : /\ WF_vars(Manage(c)) /\ WF_vars(TimeUp(c))
                      /\ WF_vars(WorkerStarts(c)) /\ WF_vars(WorkerToldToStop(c))
-----------------------------------------------------------------------------
\* active_workers is the number of handles held: the loop ends when there are
\* none, and the subtraction of a finished worker never underflows.
ActiveIsHandles ==
  \A c \in Calls : mgr[c] \in Running =>
    active[c] = waiting[c] + scanning[c] + finished[c]

\* The two limits of a call fit together: its workers never wait for a permit.
SemaphoreNeverBlocks ==
  \A c \in Calls : waiting[c] > 0 => scanning[c] < Permits

\* The pool of a call and the workers in it, which nobody counts once the call
\* has returned.
Pool(c) ==
  CASE mgr[c] = "new" -> "unused"
    [] mgr[c] = "returned" -> "closed"
    [] OTHER -> "open"
Pools == [c \in Calls |-> Pool(c)]
Workers == [c \in Calls |-> waiting[c] + scanning[c]]

Abstract == INSTANCE WorkerPool WITH
  Serial <- Service, First <- 2, Limit <- MaxWorkers,
  pool <- Pools, workers <- Workers

\* However the manager counts, a call never has more than max_workers workers,
\* those included that it has lost sight of; no worker joins a call that has
\* returned, and the calls of the service do not overlap.
ImplementsWorkerPool == Abstract!Spec

\* As long as nobody replaces the list, no entry the manager has gone past was
\* left out.
NoEntrySkipped ==
  \A c \in Calls : sameList[c] /\ mgr[c] \in Running =>
    \A i \in 1 .. Len(cache) :
      i <= index[c] /\ cache[i] \in Endpoints => cache[i] \in tried[c]

\* A call returns even if its workers never do.
CallsReturn == \A c \in Calls : mgr[c] \in Running ~> mgr[c] = "returned"

\* Workers that outlive a call of the service stop once the signal is forwarded;
\* those of a triggered call always stop, since the call takes the sender of their
\* channel with it.
MustStop(c) == told[c] \/ (c \in Triggered /\ mgr[c] = "returned")
ToldWorkersStop == \A c \in Calls : MustStop(c) ~> waiting[c] + scanning[c] = 0

-----------------------------------------------------------------------------
\* service.rs:618 "Workers will be dropped when they go out of scope", after the
\* timeout of service.rs:601 "before we force stop workers".
WorkersEndWithCall ==
  \A c \in Calls : mgr[c] = "returned" => waiting[c] + scanning[c] = 0
==============================================================================
