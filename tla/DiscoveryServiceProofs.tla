------------------------ MODULE DiscoveryServiceProofs ------------------------
(***************************************************************************)
(* What the stability counter means, for every list of networks, every     *)
(* peer count and every limit.  The three properties are not inductive by  *)
(* themselves: a pass reports its count up to twice, and whether the       *)
(* second report may add to the counter depends on why the pass was        *)
(* allowed and on what the first report did.                               *)
(***************************************************************************)
EXTENDS DiscoveryService, TLAPS

Reporting == pc \in {"cached", "workers"}

\* A network that was never scanned has not been found stable.
UnscannedIsUnstable == \A n \in Networks : age[n] = Never => stable[n] = 0

\* The pass over cached peers is the first to report.
CachedReportsFirst == pc = "cached" => total = 0

\* Until its first report, a pass is there because the network is not stable or
\* has not been scanned for long, and time cannot change that.
PassIsDue ==
  Reporting /\ total = 0 => stable[Current] < MaxStable \/ LongAgo(Current)

\* The pass over cached peers leaves room for the second report.
SecondReportFits ==
  pc = "workers" /\ total > 0 =>
    stable[Current] < MaxStable /\ stable[Current] <= 2 * quiet[Current]

IndInv ==
  /\ TypeOK
  /\ StableIsBounded
  /\ EmptyIsNotStable
  /\ StabilityCountsPasses
  /\ UnscannedIsUnstable
  /\ CachedReportsFirst
  /\ PassIsDue
  /\ SecondReportFits

\* The conjuncts that only speak of the tracker.
TrackerOK ==
  /\ count \in [Networks -> Nat]
  /\ stable \in [Networks -> Nat]
  /\ age \in [Networks -> Nat \cup {Never}]
  /\ quiet \in [Networks -> Nat]
  /\ StableIsBounded
  /\ EmptyIsNotStable
  /\ StabilityCountsPasses
  /\ UnscannedIsUnstable
-----------------------------------------------------------------------------
\* The loop is at a network whenever it reports one.
LEMMA CurrentIsNetwork ==
  ASSUME TypeOK, pos <= Len(Names)
  PROVE  Current \in Networks
<1>1. Len(Names) \in Nat
  BY ServiceAssumption
<1>2. pos \in 1 .. Len(Names)
  BY <1>1 DEF TypeOK
<1>. QED
  BY <1>2 DEF Current, Networks

\* A network that has lost all its peers has changed significantly.
LEMMA LosingAllIsSignificant ==
  ASSUME NEW n, count[n] \in Nat
  PROVE  Significant(n, 0)
<1>1. CASE count[n] = 0
  BY <1>1 DEF Significant
<1>2. CASE count[n] # 0
  <2>1. Threshold * count[n] <= 100 * count[n]
    BY ServiceAssumption
  <2>. QED
    BY <1>2, <2>1 DEF Significant
<1>. QED
  BY <1>1, <1>2

\* One report keeps what the tracker promises.
LEMMA ReportKeepsTracker ==
  ASSUME IndInv, Reporting, NEW t \in Nat, total = 0 \/ pc = "workers",
         UpdatePeerCount(Current, t)
  PROVE  TrackerOK'
<1>1. Current \in Networks
  BY CurrentIsNetwork DEF IndInv, TypeOK, Reporting
<1>2. /\ count \in [Networks -> Nat] /\ stable \in [Networks -> Nat]
      /\ quiet \in [Networks -> Nat] /\ age \in [Networks -> Nat \cup {Never}]
      /\ MaxStable \in Nat \ {0} /\ Never \notin Nat /\ total \in Nat
  BY ServiceAssumption DEF IndInv, TypeOK
<1>3. /\ count' = [count EXCEPT ![Current] = t]
      /\ age' = [age EXCEPT ![Current] = 0]
  BY DEF UpdatePeerCount
<1>4. CASE Significant(Current, t) \/ LongAgo(Current)
  <2>1. /\ stable' = [stable EXCEPT ![Current] = 0]
        /\ quiet' = [quiet EXCEPT ![Current] = 0]
    BY <1>4 DEF UpdatePeerCount
  <2>. QED
    BY <1>1, <1>2, <1>3, <2>1
    DEF IndInv, TrackerOK, StableIsBounded, EmptyIsNotStable,
        StabilityCountsPasses, UnscannedIsUnstable
<1>5. CASE ~Significant(Current, t) /\ ~LongAgo(Current)
  <2>1. /\ stable' = [stable EXCEPT ![Current] = @ + 1]
        /\ quiet' = [quiet EXCEPT ![Current] = IF total = 0 THEN @ + 1 ELSE @]
    BY <1>5 DEF UpdatePeerCount
  <2>2. t > 0
    BY <1>1, <1>2, <1>5, LosingAllIsSignificant
  <2>3. stable[Current] < MaxStable
    BY <1>2, <1>5 DEF IndInv, PassIsDue, SecondReportFits
  <2>4. total > 0 => stable[Current] <= 2 * quiet[Current]
    BY <1>2 DEF IndInv, SecondReportFits
  <2>5. StabilityCountsPasses'
    BY <1>1, <1>2, <2>1, <2>4 DEF IndInv, StabilityCountsPasses
  <2>. QED
    BY <1>1, <1>2, <1>3, <2>1, <2>2, <2>3, <2>5
    DEF IndInv, TrackerOK, StableIsBounded, EmptyIsNotStable,
        UnscannedIsUnstable
<1>. QED
  BY <1>4, <1>5
-----------------------------------------------------------------------------
LEMMA InitIndInv == Init => IndInv
<1>. SUFFICES ASSUME Init PROVE IndInv
  OBVIOUS
<1>1. Len(Names) \in Nat
  BY ServiceAssumption
<1>. QED
  BY <1>1, ServiceAssumption
  DEF Init, IndInv, TypeOK, StableIsBounded, EmptyIsNotStable,
      StabilityCountsPasses, UnscannedIsUnstable, CachedReportsFirst,
      PassIsDue, SecondReportFits, Reporting

LEMMA NextIndInv == IndInv /\ [Next]_vars => IndInv'
<1>. SUFFICES ASSUME IndInv, [Next]_vars PROVE IndInv'
  OBVIOUS
<1>a. /\ Len(Names) \in Nat /\ MaxStable \in Nat \ {0}
      /\ Totals \subseteq Nat \ {0} /\ Never \notin Nat
  BY ServiceAssumption
\* A step outside the two scanning states that leaves the tracker alone.
<1>b. ASSUME UNCHANGED tracker, ~Reporting', total' = total, TypeOK'
      PROVE  IndInv'
  BY <1>b DEF IndInv, StableIsBounded, EmptyIsNotStable, StabilityCountsPasses,
              UnscannedIsUnstable, CachedReportsFirst, PassIsDue,
              SecondReportFits, Reporting, tracker
\* The step after the last report of a pass.
<1>c. ASSUME TrackerOK', TypeOK', pc' = "network"
      PROVE  IndInv'
  BY <1>c DEF TrackerOK, IndInv, CachedReportsFirst, PassIsDue,
              SecondReportFits, Reporting
<1>1. CASE BeginCycle /\ UNCHANGED main
  BY <1>b, <1>1 DEF BeginCycle, IndInv, TypeOK, Reporting, tracker
<1>2. CASE Stop /\ UNCHANGED main
  BY <1>b, <1>2 DEF Stop, IndInv, TypeOK, Reporting, tracker
<1>3. CASE StopNetworks /\ UNCHANGED main
  BY <1>b, <1>3 DEF StopNetworks, IndInv, TypeOK, Reporting, tracker
<1>4. CASE NoMoreNetworks /\ UNCHANGED main
  BY <1>b, <1>4 DEF NoMoreNetworks, IndInv, TypeOK, Reporting, tracker
<1>5. CASE EndCycle /\ UNCHANGED main
  BY <1>b, <1>5 DEF EndCycle, IndInv, TypeOK, Reporting, tracker
<1>6. CASE WakeUp /\ UNCHANGED main
  BY <1>b, <1>6 DEF WakeUp, IndInv, TypeOK, Reporting, tracker
<1>7. CASE Skip /\ UNCHANGED main
  BY <1>b, <1>7
  DEF Skip, AtNetwork, NextNetwork, IndInv, TypeOK, Reporting, tracker
<1>8. CASE StartScan /\ UNCHANGED main
  <2>1. TypeOK'
    BY <1>8 DEF StartScan, AtNetwork, IndInv, TypeOK, tracker
  <2>2. Current \in Networks
    BY <1>8, CurrentIsNetwork DEF StartScan, AtNetwork, IndInv
  <2>3. stable[Current] < MaxStable \/ LongAgo(Current)
    BY <1>a, <1>8, <2>2 DEF StartScan, ShouldScan, IndInv, UnscannedIsUnstable
  <2>4. PassIsDue'
    BY <1>8, <2>3 DEF StartScan, PassIsDue, LongAgo, Current, tracker
  <2>. QED
    BY <1>8, <2>1, <2>4
    DEF StartScan, IndInv, StableIsBounded, EmptyIsNotStable,
        StabilityCountsPasses, UnscannedIsUnstable, CachedReportsFirst,
        SecondReportFits, tracker
<1>9. CASE CachedOk /\ UNCHANGED main
  <2>1. PICK t \in Totals :
          /\ UpdatePeerCount(Current, t)
          /\ total' = t
          /\ IF stable'[Current] >= MaxStable \/ t >= MaxPeers
               THEN NextNetwork
               ELSE pc' = "workers" /\ UNCHANGED pos
    BY <1>9 DEF CachedOk
  <2>2. /\ pc = "cached" /\ signal' = signal /\ t \in Nat /\ t > 0
        /\ total = 0 /\ pos <= Len(Names)
    BY <1>a, <1>9 DEF CachedOk, IndInv, TypeOK, CachedReportsFirst
  <2>3. TrackerOK'
    BY <2>1, <2>2, ReportKeepsTracker DEF Reporting
  <2>4. Current \in Networks
    BY <2>2, CurrentIsNetwork DEF IndInv
  <2>5. total' = t
    BY <2>1
  <2>6. CASE NextNetwork
    <3>1. TypeOK'
      BY <1>9, <2>2, <2>3, <2>6, <2>5 DEF NextNetwork, TrackerOK, IndInv, TypeOK
    <3>. QED
      BY <1>c, <2>3, <2>6, <3>1 DEF NextNetwork
  <2>7. CASE /\ pc' = "workers" /\ UNCHANGED pos
             /\ ~(stable'[Current] >= MaxStable)
    <3>1. TypeOK'
      BY <1>9, <2>2, <2>3, <2>7, <2>5 DEF TrackerOK, IndInv, TypeOK
    <3>2. stable'[Current] < MaxStable
      BY <1>a, <2>3, <2>4, <2>7 DEF TrackerOK
    <3>3. stable'[Current] <= 2 * quiet'[Current]
      BY <2>1, <2>2, <2>4
      DEF UpdatePeerCount, IndInv, TypeOK, StabilityCountsPasses
    <3>4. Current' = Current
      BY <2>7 DEF Current
    <3>5. PassIsDue' /\ CachedReportsFirst'
      <4>1. total' # 0 /\ pc' # "cached"
        BY <2>2, <2>7, <2>5
      <4>. QED
        BY <4>1 DEF PassIsDue, CachedReportsFirst
    <3>6. SecondReportFits'
      BY <3>2, <3>3, <3>4 DEF SecondReportFits
    <3>. QED
      BY <2>3, <3>1, <3>5, <3>6 DEF TrackerOK, IndInv
  <2>. QED
    BY <2>1, <2>6, <2>7
<1>10. CASE CachedError /\ UNCHANGED main
  <2>1. TypeOK'
    BY <1>10 DEF CachedError, IndInv, TypeOK, tracker
  <2>2. /\ UNCHANGED <<stable, age, Current>>
        /\ Reporting /\ total = 0
    BY <1>10
    DEF CachedError, IndInv, CachedReportsFirst, Reporting, Current, tracker
  <2>3. PassIsDue'
    BY <2>2 DEF IndInv, PassIsDue, LongAgo
  <2>. QED
    BY <1>10, <2>1, <2>2, <2>3
    DEF CachedError, IndInv, TypeOK, StableIsBounded, EmptyIsNotStable,
        StabilityCountsPasses, UnscannedIsUnstable, CachedReportsFirst,
        SecondReportFits, tracker
<1>11. CASE WorkersReturn /\ UNCHANGED main
  <2>1. TrackerOK'
    BY <1>11, ReportKeepsTracker DEF WorkersReturn, Reporting, IndInv, TypeOK
  <2>2. /\ pc = "workers" /\ pc' = "network" /\ pos' = pos + 1
        /\ signal' = signal /\ total' = total
    BY <1>11 DEF WorkersReturn, NextNetwork
  <2>3. TypeOK'
    BY <1>11, <2>1, <2>2 DEF TrackerOK, IndInv, TypeOK
  <2>. QED
    BY <1>c, <2>1, <2>2, <2>3
<1>12. CASE SendSignal
  BY <1>12
  DEF SendSignal, IndInv, TypeOK, StableIsBounded, EmptyIsNotStable,
      StabilityCountsPasses, UnscannedIsUnstable, CachedReportsFirst, PassIsDue,
      SecondReportFits, Reporting, LongAgo, Current, tracker
<1>13. CASE Tick
  <2>1. /\ age' \in [Networks -> Nat \cup {Never}]
        /\ \A n \in Networks : (age'[n] = Never <=> age[n] = Never)
                               /\ (LongAgo(n) => LongAgo(n)')
    BY <1>a, <1>13 DEF Tick, LongAgo, IndInv, TypeOK
  <2>2. TypeOK'
    BY <1>13, <2>1 DEF Tick, IndInv, TypeOK
  <2>3. PassIsDue'
    <3>. SUFFICES ASSUME Reporting, total = 0 PROVE PassIsDue'
      BY <1>13 DEF Tick, PassIsDue, Reporting
    <3>1. Current \in Networks
      BY CurrentIsNetwork DEF IndInv, TypeOK, Reporting
    <3>. QED
      BY <1>13, <2>1, <3>1 DEF Tick, IndInv, PassIsDue, Current, LongAgo
  <2>. QED
    BY <1>13, <2>1, <2>2, <2>3
    DEF Tick, IndInv, StableIsBounded, EmptyIsNotStable, StabilityCountsPasses,
        UnscannedIsUnstable, CachedReportsFirst, SecondReportFits, Current
<1>14. CASE UNCHANGED vars \/ Terminate \/ ServerStops \/ MainExits
  BY <1>14
  DEF vars, Terminate, ServerStops, MainExits, IndInv, TypeOK, StableIsBounded, EmptyIsNotStable,
      StabilityCountsPasses, UnscannedIsUnstable, CachedReportsFirst, PassIsDue,
      SecondReportFits, Reporting, LongAgo, Current, tracker
<1>. QED
  BY <1>1, <1>2, <1>3, <1>4, <1>5, <1>7, <1>8, <1>9, <1>10, <1>11, <1>12,
     <1>13, <1>14, <1>6 DEF Next, Loop, Step, Time

\* The invariant and what it strengthens, for the loop of the service.
THEOREM Invariance == Spec => []IndInv
<1>. QED
  BY InitIndInv, NextIndInv, PTL DEF Spec

\* Type correctness: the for loop never runs past the list of networks.
THEOREM TypeCorrect == Spec => []TypeOK
<1>1. IndInv => TypeOK
  BY DEF IndInv
<1>. QED
  BY <1>1, Invariance, PTL

\* The stability counter never passes max_stable_scans, although a pass over a
\* network may call update_peer_count twice.
THEOREM StabilityIsBounded == Spec => []StableIsBounded
<1>1. IndInv => StableIsBounded
  BY DEF IndInv
<1>. QED
  BY <1>1, Invariance, PTL

\* A network that was last found without peers is scanned in every cycle,
\* whatever the threshold in percent.
THEOREM EmptyNetworksAreScanned == Spec => []EmptyIsNotStable
<1>1. IndInv => EmptyIsNotStable
  BY DEF IndInv
<1>. QED
  BY <1>1, Invariance, PTL

\* The counter counts passes without a significant change at most twice.
THEOREM StabilityMeaning == Spec => []StabilityCountsPasses
<1>1. IndInv => StabilityCountsPasses
  BY DEF IndInv
<1>. QED
  BY <1>1, Invariance, PTL
==============================================================================
