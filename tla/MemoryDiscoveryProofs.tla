------------------------ MODULE MemoryDiscoveryProofs ------------------------
(***************************************************************************)
(* The safety of memory-only discovery, for every set of networks and any  *)
(* number of permits.  A task that has begun has asked an endpoint if its  *)
(* network is configured, and outside a pass no task is under way: so the  *)
(* end of a pass finds every network asked.                                *)
(***************************************************************************)
EXTENDS MemoryDiscovery, TLAPS

\* A task that got its permit has asked, and fails only after the fallback.
TasksAsk ==
  \A n \in Networks :
    /\ n \in Configured /\ task[n] \in Endpoints \cup Ended => asked[n] # {}
    /\ task[n] \in {"fallback", "err"} => "fallback" \in asked[n]

\* Only the networks of the pass have tasks, and only a pass has tasks that run.
TasksBelong ==
  /\ \A n \in Networks \ Scanned : task[n] = "idle"
  /\ pc # "scan" => \A n \in Networks : task[n] \in {"idle"} \cup Ended
  /\ pc \in {"loop", "check"} => \A n \in Scanned : task[n] \in Ended

IndInv == TypeOK /\ TasksAsk /\ TasksBelong
-----------------------------------------------------------------------------
LEMMA ScannedInNetworks == TypeOK => Scanned \subseteq Networks
BY DEF TypeOK, Scanned

\* A task of a pass goes on to a state in which it keeps what it promises.
LEMMA TaskMoves ==
  ASSUME IndInv, pc = "scan", NEW n \in Networks, task[n] # "idle",
         NEW label \in Endpoints \cup Ended, NEW A \in SUBSET Endpoints,
         n \in Configured => A # {},
         label \in {"fallback", "err"} => "fallback" \in A,
         task' = [task EXCEPT ![n] = label], asked' = [asked EXCEPT ![n] = A],
         hasCached' \in [Networks -> BOOLEAN], yielded' \subseteq Networks,
         UNCHANGED <<service, useCached>>
  PROVE  IndInv'
<1>1. TypeOK'
  BY DEF IndInv, TypeOK, service, options
<1>2. /\ task'[n] = label /\ asked'[n] = A
      /\ \A m \in Networks \ {n} : task'[m] = task[m] /\ asked'[m] = asked[m]
  BY DEF IndInv, TypeOK
<1>3. TasksAsk'
  BY <1>2 DEF IndInv, TasksAsk
<1>4. TasksBelong'
  <2>1. pc' = "scan" /\ Scanned' = Scanned
    BY DEF service, options, Scanned
  <2>. QED
    BY <1>2, <2>1 DEF IndInv, TasksBelong
<1>. QED
  BY <1>1, <1>3, <1>4 DEF IndInv

\* An endpoint is asked, or the network is not configured.
LEMMA AskMoves ==
  ASSUME IndInv, pc = "scan", NEW n \in Networks, task[n] # "idle",
         hasCached' \in [Networks -> BOOLEAN], yielded' \subseteq Networks,
         UNCHANGED <<service, useCached>>,
         AskConfigured(n) \/ \E e \in Endpoints : Ask(n, e)
  PROVE  IndInv'
<1>1. asked \in [Networks -> SUBSET Endpoints]
  BY DEF IndInv, TypeOK
<1>2. ASSUME NEW e \in Endpoints, Ask(n, e)
      PROVE  IndInv'
  <2>1. /\ task' = [task EXCEPT ![n] = e]
        /\ asked' = [asked EXCEPT ![n] = asked[n] \cup {e}]
    BY <1>2 DEF Ask
  <2>2. asked[n] \cup {e} \in SUBSET Endpoints
    BY <1>1, <1>2
  <2>3. e \in {"fallback", "err"} => "fallback" \in asked[n] \cup {e}
    BY <1>2 DEF Endpoints
  <2>. QED
    BY <1>2, <2>1, <2>2, <2>3, TaskMoves
<1>3. ASSUME n \notin Configured, task' = [task EXCEPT ![n] = "skipped"],
             UNCHANGED asked
      PROVE  IndInv'
  <2>1. asked' = [asked EXCEPT ![n] = asked[n]] /\ asked[n] \in SUBSET Endpoints
    BY <1>1, <1>3
  <2>. QED
    BY <1>3, <2>1, TaskMoves DEF Ended
<1>. QED
  BY <1>2, <1>3 DEF AskConfigured, Endpoints
-----------------------------------------------------------------------------
LEMMA InitIndInv == Init => IndInv
BY DEF Init, IndInv, TypeOK, TasksAsk, TasksBelong, Scanned, Endpoints, Ended

\* A pass begins with all its tasks waiting.
LEMMA LaunchIndInv == IndInv /\ Launch => IndInv'
<1>. SUFFICES ASSUME IndInv, Launch PROVE IndInv'
  OBVIOUS
<1>1. Scanned' = Scanned /\ Scanned \subseteq Networks
  BY ScannedInNetworks DEF Launch, options, Scanned, IndInv
<1>2. TypeOK'
  BY DEF Launch, options, IndInv, TypeOK
<1>. QED
  BY <1>1, <1>2
  DEF Launch, IndInv, TypeOK, TasksAsk, TasksBelong, Endpoints, Ended

LEMMA NextIndInv == IndInv /\ [Next]_vars => IndInv'
<1>. SUFFICES ASSUME IndInv, [Next]_vars PROVE IndInv'
  OBVIOUS
<1>1. CASE Start \/ Tick
  BY <1>1, LaunchIndInv DEF Start, Tick
<1>2. CASE StopAtStart \/ StopInLoop \/ NoSignal \/ SendSignal
  BY <1>2
  DEF StopAtStart, StopInLoop, NoSignal, SendSignal, TakeSignal, options,
      Scanned, IndInv, TypeOK, TasksAsk, TasksBelong
<1>3. CASE EndPass
  BY <1>3, ScannedInNetworks
  DEF EndPass, options, Scanned, IndInv, TypeOK, TasksAsk, TasksBelong
<1>4. ASSUME NEW n \in Networks, OtherScan(n)
      PROVE  IndInv'
  BY <1>4
  DEF OtherScan, service, options, Scanned, IndInv, TypeOK, TasksAsk, TasksBelong
<1>5. ASSUME NEW n \in Networks, Acquire(n)
      PROVE  IndInv'
  <2>1. pc = "scan" /\ task[n] # "idle"
    BY <1>5 DEF Acquire, IndInv, TasksBelong, Ended
  <2>2. /\ hasCached' \in [Networks -> BOOLEAN] /\ yielded' \subseteq Networks
        /\ UNCHANGED <<service, useCached>>
    BY <1>5 DEF Acquire, IndInv, TypeOK
  <2>3. AskConfigured(n) \/ \E e \in Endpoints : Ask(n, e)
    BY <1>5 DEF Acquire, CachedFailed, Endpoints
  <2>. QED
    BY <2>1, <2>2, <2>3, AskMoves
<1>6. ASSUME NEW n \in Networks, n \in Scanning
      PROVE  /\ pc = "scan" /\ task[n] # "idle" /\ asked[n] \in SUBSET Endpoints
             /\ n \in Configured => asked[n] # {}
  BY <1>6
  DEF Scanning, Endpoints, Ended, IndInv, TypeOK, TasksAsk, TasksBelong
<1>7. ASSUME NEW n \in Networks, ScanFindsPeers(n) \/ ScanFindsNothing(n)
      PROVE  IndInv'
  <2>1. /\ n \in Scanning /\ task' = [task EXCEPT ![n] = "ok"]
        /\ asked' = asked /\ yielded' \subseteq Networks
        /\ hasCached' \in [Networks -> BOOLEAN] /\ UNCHANGED <<service, useCached>>
    BY <1>7 DEF ScanFindsPeers, ScanFindsNothing, IndInv, TypeOK
  <2>2. asked' = [asked EXCEPT ![n] = asked[n]]
    BY <2>1 DEF IndInv, TypeOK
  <2>. QED
    BY <1>6, <2>1, <2>2, TaskMoves DEF Ended
<1>8. ASSUME NEW n \in Networks, ScanFails(n)
      PROVE  IndInv'
  <2>1. /\ n \in Scanning /\ task[n] \in Endpoints /\ yielded' \subseteq Networks
        /\ hasCached' \in [Networks -> BOOLEAN] /\ UNCHANGED <<service, useCached>>
    BY <1>8 DEF ScanFails, Scanning, IndInv, TypeOK
  <2>2. CASE task[n] \in {"cached", "primary"}
    <3>1. AskConfigured(n) \/ \E e \in Endpoints : Ask(n, e)
      BY <1>8, <2>2 DEF ScanFails, CachedFailed, Endpoints
    <3>. QED
      BY <1>6, <2>1, <3>1, AskMoves
  <2>3. CASE task[n] = "fallback"
    <3>1. /\ task' = [task EXCEPT ![n] = "err"] /\ asked' = asked
          /\ "fallback" \in asked[n]
      BY <1>8, <2>3 DEF ScanFails, IndInv, TasksAsk
    <3>2. asked' = [asked EXCEPT ![n] = asked[n]]
      BY <3>1 DEF IndInv, TypeOK
    <3>. QED
      BY <1>6, <2>1, <3>1, <3>2, TaskMoves DEF Ended
  <2>. QED
    BY <2>1, <2>2, <2>3 DEF Endpoints
<1>9. CASE UNCHANGED vars
  BY <1>9
  DEF vars, service, options, Scanned, IndInv, TypeOK, TasksAsk, TasksBelong
<1>. QED
  BY <1>1, <1>2, <1>3, <1>4, <1>5, <1>7, <1>8, <1>9 DEF Next, Discover

\* Memory-only discovery keeps its invariant in every reachable state.
THEOREM Invariance == Spec => []IndInv
BY InitIndInv, NextIndInv, PTL DEF Spec

\* The state of discovery keeps its types.
THEOREM TypeCorrect == Spec => []TypeOK
<1>1. IndInv => TypeOK
  BY DEF IndInv
<1>. QED
  BY <1>1, Invariance, PTL

\* memory.rs:119: however stale the look at the cache, a pass asks an endpoint of
\* every configured network.
THEOREM NoNetworkLeftOut == Spec => []EveryNetworkAsked
<1>1. ASSUME IndInv PROVE EveryNetworkAsked
  <2>1. Scanned \subseteq Networks
    BY <1>1, ScannedInNetworks DEF IndInv
  <2>. QED
    BY <1>1, <2>1 DEF IndInv, EveryNetworkAsked, TasksAsk, TasksBelong
<1>. QED
  BY <1>1, Invariance, PTL

\* memory.rs:98: continuous discovery gives up without a signal only if the
\* first pass over its one network ended with a failed fallback endpoint.
THEOREM ContinuousDiscoveryGoesOn == Spec => ContinuousGoesOn
<1>1. ASSUME IndInv, [Next]_vars PROVE [EndsForAReason]_vars
  <2>. SUFFICES ASSUME continuous, pc # "done", pc' = "done"
                PROVE  \/ signal' = "taken"
                       \/ first /\ network # All /\ "fallback" \in asked[network]
    BY DEF EndsForAReason
  <2>1. TakeSignal \/ EndPass
    BY <1>1
    DEF Next, Discover, Start, StopAtStart, StopInLoop, NoSignal, Tick, Launch,
        SendSignal, OtherScan, Acquire, ScanFindsPeers, ScanFindsNothing,
        ScanFails, service, vars
  <2>2. CASE TakeSignal
    BY <2>2 DEF TakeSignal
  <2>3. CASE EndPass
    <3>1. first /\ network # All /\ task[network] = "err"
      BY <2>3 DEF EndPass
    <3>2. network \in Networks
      BY <1>1, <3>1 DEF IndInv, TypeOK
    <3>. QED
      BY <1>1, <3>1, <3>2 DEF IndInv, TasksAsk
  <2>. QED
    BY <2>1, <2>2, <2>3
<1>. QED
  BY <1>1, Invariance, PTL DEF Spec, ContinuousGoesOn
==============================================================================
