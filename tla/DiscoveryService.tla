--------------------------- MODULE DiscoveryService ---------------------------
(***************************************************************************)
(* start_discovery_service and NetworkScanState (discovery/service.rs):    *)
(* the loop that scans the configured networks one after the other, skips  *)
(* those whose peer count has stabilised, and looks for the shutdown       *)
(* signal of main between them.                                            *)
(*                                                                         *)
(* A network is scanned in up to two parts, the pass over cached peers     *)
(* (scan_chain_with_cached_peers) and the call of the worker manager       *)
(* (scan_chain_with_multiple_workers, module ChainScan).  The loop awaits  *)
(* each of them and sees only the number of discovered_peers.              *)
(*                                                                         *)
(* The other actor is main (main.rs): it runs the HTTP server, a task of   *)
(* it broadcasts Ctrl+C and stops the server, and when the server has      *)
(* served its open connections main waits five seconds for the service and *)
(* ends the process.                                                       *)
(***************************************************************************)
EXTENDS Integers, Sequences

CONSTANTS
  Names,       \* all_networks, in the order of the loop
  Configured,  \* the networks get_rpc_urls finds
  Totals,      \* peer counts a pass over cached peers may end with
  MaxPeers,    \* MAX_PEERS_PER_CHAIN
  MaxStable,   \* max_stable_scans (10 in the code)
  Threshold,   \* min_change_threshold (5 percent)
  TwoHours,    \* two hours, in ticks
  Never        \* last_scan_time has no entry

Networks == {Names[i] : i \in 1 .. Len(Names)}

ASSUME ServiceAssumption ==
  /\ Names \in Seq(Networks)
  /\ Configured \subseteq Networks
  /\ Totals \subseteq Nat \ {0}
  /\ MaxPeers \in Nat
  /\ MaxStable \in Nat \ {0}
  /\ Threshold \in 1 .. 100
  /\ TwoHours \in Nat \ {0} /\ Never \notin Nat

VARIABLES
  pc,      \* where the loop is
  pos,     \* the network the for loop is at
  main,    \* main runs the server, drains it, waits for the service or is gone
  signal,  \* the shutdown signal: not sent, in the channel, taken from it
  total,   \* the size of discovered_peers, a new set for each pass
  count,   \* peer_counts, 0 for a network without an entry
  stable,  \* stable_scan_count, likewise
  age,     \* time since last_scan_time
  quiet    \* history: passes in a row without a significant change

tracker == <<count, stable, age, quiet>>
vars == <<main, pc, pos, signal, total, tracker>>

TypeOK ==
  /\ pc \in {"top", "network", "cached", "workers", "cycle", "sleep", "lastSleep",
             "done"}
  /\ pos \in 1 .. Len(Names) + 1
  /\ pc \in {"cached", "workers"} => pos <= Len(Names)
  /\ main \in {"serving", "draining", "waiting", "exited"}
  /\ signal \in {"none", "sent", "taken"}
  /\ total \in Nat
  /\ count \in [Networks -> Nat]
  /\ stable \in [Networks -> Nat]
  /\ age \in [Networks -> Nat \cup {Never}]
  /\ quiet \in [Networks -> Nat]

Current == Names[pos]
-----------------------------------------------------------------------------
\* NetworkScanState.

\* More than two hours since the last scan of n, if there was one.
LongAgo(n) == age[n] # Never /\ age[n] > TwoHours

\* Mutants: stability is tested with <=; it is never lost by waiting.
ShouldScanOnceMore(n) == stable[n] <= MaxStable \/ age[n] = Never \/ LongAgo(n)
ShouldScanUnstable(n) == stable[n] < MaxStable \/ age[n] = Never

ShouldScan(n) == stable[n] < MaxStable \/ age[n] = Never \/ LongAgo(n)

\* Mutant: nothing is compared with a count of 0.
SignificantIfKnown(n, new) ==
  LET diff == IF new >= count[n] THEN new - count[n] ELSE count[n] - new
  IN  count[n] # 0 /\ 100 * diff >= Threshold * count[n]

\* A change of at least 5 percent, or any change from or to nothing.
Significant(n, new) ==
  LET diff == IF new >= count[n] THEN new - count[n] ELSE count[n] - new
  IN  count[n] = 0 \/ 100 * diff >= Threshold * count[n]

\* Mutant: the stability counter is not reset.
UpdateWithoutReset(n, new) ==
  /\ count' = [count EXCEPT ![n] = new]
  /\ age' = [age EXCEPT ![n] = 0]
  /\ IF Significant(n, new) \/ LongAgo(n)
       THEN /\ quiet' = [quiet EXCEPT ![n] = 0]
            /\ UNCHANGED stable
       ELSE /\ stable' = [stable EXCEPT ![n] = @ + 1]
            /\ quiet' = [quiet EXCEPT ![n] = IF total = 0 THEN @ + 1 ELSE @]

\* update_peer_count.  The history counts a pass when it reports for the first
\* time.
UpdatePeerCount(n, new) ==
  /\ count' = [count EXCEPT ![n] = new]
  /\ age' = [age EXCEPT ![n] = 0]
  /\ IF Significant(n, new) \/ LongAgo(n)
       THEN /\ stable' = [stable EXCEPT ![n] = 0]
            /\ quiet' = [quiet EXCEPT ![n] = 0]
       ELSE /\ stable' = [stable EXCEPT ![n] = @ + 1]
            /\ quiet' = [quiet EXCEPT ![n] = IF total = 0 THEN @ + 1 ELSE @]
-----------------------------------------------------------------------------
Init ==
  /\ main = "serving"
  /\ pc = "top" /\ pos = 1 /\ signal = "none" /\ total = 0
  /\ count = [n \in Networks |-> 0]
  /\ stable = [n \in Networks |-> 0]
  /\ age = [n \in Networks |-> Never]
  /\ quiet = [n \in Networks |-> 0]

BeginCycle ==
  /\ pc = "top" /\ signal # "sent"
  /\ pc' = "network" /\ pos' = 1
  /\ UNCHANGED <<signal, total, tracker>>

\* The check before a cycle and the one after it leave the loop.
Stop ==
  /\ pc \in {"top", "cycle"} /\ signal = "sent"
  /\ signal' = "taken"
  /\ pc' = "done"
  /\ UNCHANGED <<pos, total, tracker>>

\* The check before a network takes the signal and leaves the for loop.
StopNetworks ==
  /\ pc = "network" /\ pos <= Len(Names) /\ signal = "sent"
  /\ signal' = "taken"
  /\ pc' = "cycle"
  /\ UNCHANGED <<pos, total, tracker>>

NoMoreNetworks ==
  /\ pc = "network" /\ pos > Len(Names)
  /\ pc' = "cycle"
  /\ UNCHANGED <<pos, signal, total, tracker>>

\* The cycle ends with a sleep of ten seconds.  One that begins in main's last
\* five seconds is not over before they are.
EndCycle ==
  /\ pc = "cycle" /\ signal # "sent"
  /\ pc' = IF main = "waiting" THEN "lastSleep" ELSE "sleep"
  /\ UNCHANGED <<pos, signal, total, tracker>>

WakeUp ==
  /\ pc = "sleep"
  /\ pc' = "top"
  /\ UNCHANGED <<pos, signal, total, tracker>>

AtNetwork == pc = "network" /\ pos <= Len(Names) /\ signal # "sent"

\* Mutant: the network is left twice.
NextButOne == pc' = "network" /\ pos' = pos + 2

NextNetwork == pc' = "network" /\ pos' = pos + 1

\* A stable network, or one without RPC URLs.
Skip ==
  /\ AtNetwork
  /\ ~ShouldScan(Current) \/ Current \notin Configured
  /\ NextNetwork
  /\ UNCHANGED <<signal, total, tracker>>

\* Whether there are cached peers depends on the scans of the network.
StartScan ==
  /\ AtNetwork
  /\ ShouldScan(Current) /\ Current \in Configured
  /\ pc' \in {"cached", "workers"}
  /\ total' = 0
  /\ UNCHANGED <<pos, signal, tracker>>

\* The pass over cached peers found some: the workers are called too, unless
\* the network is stable now or has enough peers.
CachedOk ==
  /\ pc = "cached"
  /\ \E t \in Totals :
       /\ UpdatePeerCount(Current, t)
       /\ total' = t
       /\ IF stable'[Current] >= MaxStable \/ t >= MaxPeers
            THEN NextNetwork
            ELSE pc' = "workers" /\ UNCHANGED pos
  /\ UNCHANGED signal

\* No cached peer could be scanned.
CachedError ==
  /\ pc = "cached"
  /\ pc' = "workers"
  /\ UNCHANGED <<pos, signal, total, tracker>>

\* The workers do not add to discovered_peers: the total is reported again.
WorkersReturn ==
  /\ pc = "workers"
  /\ UpdatePeerCount(Current, total)
  /\ NextNetwork
  /\ UNCHANGED <<signal, total>>

\* The task that waits for Ctrl+C broadcasts the signal once and then stops the
\* server, unless that is on its way down already.
SendSignal ==
  /\ signal = "none"
  /\ signal' = "sent"
  /\ main' = IF main = "serving" THEN "draining" ELSE main
  /\ UNCHANGED <<pc, pos, total, tracker>>

\* SIGTERM: actix stops the server, and nobody broadcasts it.
Terminate ==
  /\ main = "serving"
  /\ main' = "draining"
  /\ UNCHANGED <<pc, pos, signal, total, tracker>>

\* The open connections have been served, or half a minute is over; without any,
\* or when actix gets Ctrl+C first and cuts them off, that is at once.
ServerStops ==
  /\ main = "draining"
  /\ main' = "waiting"
  /\ UNCHANGED <<pc, pos, signal, total, tracker>>

\* Mutant: main joins the service without a timeout.
JoinWithoutTimeout ==
  /\ main = "waiting" /\ pc = "done"
  /\ main' = "exited"
  /\ UNCHANGED <<pc, pos, signal, total, tracker>>

\* The service has ended or the timeout of five seconds has: the process exits,
\* and with it a pass that is under way.
MainExits ==
  /\ main = "waiting"
  /\ main' = "exited"
  /\ UNCHANGED <<pc, pos, signal, total, tracker>>

\* Time passes, up to a bound past the two hours.  The workers' call lasts at
\* most an hour and ten seconds, so it is over two hours after the pass over
\* cached peers was counted.
Tick ==
  /\ pc # "done"
  /\ pc = "workers" /\ total > 0 => age[Current] < TwoHours
  /\ age' = [n \in Networks |->
               IF age[n] = Never \/ age[n] > TwoHours THEN age[n] ELSE age[n] + 1]
  /\ UNCHANGED <<main, pc, pos, signal, total, count, stable, quiet>>

Step ==
  /\ \/ BeginCycle \/ Stop \/ StopNetworks \/ NoMoreNetworks \/ EndCycle \/ WakeUp
     \/ Skip \/ StartScan \/ CachedOk \/ CachedError \/ WorkersReturn
  /\ UNCHANGED main

\* Nothing runs once the process has exited.
Loop == main # "exited" /\ Step
Time == main # "exited" /\ Tick

Next ==
  \/ Loop \/ Time \/ Terminate \/ ServerStops \/ MainExits
  \/ main # "exited" /\ SendSignal

\* The service runs, time passes, the server is given half a minute to stop and
\* main five seconds to return.  Nothing makes a pass over cached peers end: it
\* awaits its scans without a timeout, and a peer that answers 429 is asked again
\* forever.  The workers' call has an hour.
Spec ==
  /\ Init /\ [][Next]_vars
  /\ WF_vars(pc # "cached" /\ Loop) /\ WF_vars(Time)
  /\ WF_vars(ServerStops) /\ WF_vars(MainExits)
-----------------------------------------------------------------------------
\* The counter never passes the limit it is compared with, although a pass may
\* add to it twice.
StableIsBounded == \A n \in Networks : stable[n] <= MaxStable

\* A network that was last found without peers is never taken for stable: it is
\* scanned in every cycle.
EmptyIsNotStable == \A n \in Networks : stable[n] > 0 => count[n] > 0

\* What the counter says about the past: a network at stability k has had at
\* least (k - 1) / 2 passes in a row without a significant change, and at most k.
StabilityCountsPasses ==
  \A n \in Networks : quiet[n] <= stable[n] /\ stable[n] <= 2 * quiet[n] + 1

Scanning(n) == pc \in {"cached", "workers"} /\ Current = n

\* A network is skipped for a while, not for good: the only thing that can keep
\* the running service from scanning it again is one pass over cached peers, of
\* whichever network, that never ends.
NetworksAreRescanned ==
  \/ \A n \in Configured : []<>(pc = "done" \/ main = "exited" \/ Scanning(n))
  \/ <>[](pc = "cached")

\* Ctrl+C ends the process, although the service may take the signal and go on.
ShutdownCompletes == signal # "none" ~> main = "exited"
-----------------------------------------------------------------------------
\* service.rs:213 "Received shutdown signal, stopping discovery service": once
\* that is logged no scan starts.
NoScanAfterSignal == signal = "taken" => pc \notin {"cached", "workers"}
==============================================================================
