--------------------------- MODULE ChainScanProofs ---------------------------
(***************************************************************************)
(* The bookkeeping of the worker manager, for every number of calls, every *)
(* cached list and every limit.  SemaphoreNeverBlocks also speaks of the   *)
(* workers left over by a call that has returned, so the invariant bounds  *)
(* the workers of a call at all times and not only while it counts them.   *)
(***************************************************************************)
EXTENDS ChainScan, FiniteSetTheorems, TLAPS

\* Before it starts, a call has no workers and has looked at no entry.
NewCallsAreEmpty ==
  \A c \in Calls : mgr[c] = "new" =>
    waiting[c] = 0 /\ scanning[c] = 0 /\ finished[c] = 0 /\ index[c] = 0

\* The count stays within max_workers, with room left where workers are added.
CountIsBounded ==
  \A c \in Calls :
    /\ mgr[c] \in Running => active[c] <= MaxWorkers
    /\ mgr[c] = "add" => active[c] < MaxWorkers

\* So do the workers that have not finished, also after the call.
WorkersAreBounded == \A c \in Calls : waiting[c] + scanning[c] <= MaxWorkers

IndInv ==
  /\ TypeOK
  /\ ActiveIsHandles
  /\ NewCallsAreEmpty
  /\ CountIsBounded
  /\ WorkersAreBounded

\* The second invariant is about the cached list alone.
ListInv == IndInv /\ NoEntrySkipped
-----------------------------------------------------------------------------
\* One pass looks at no more positions than there is room for.
LEMMA MaxToAddBounds ==
  ASSUME NEW c, active[c] \in Nat, active[c] < MaxWorkers
  PROVE  MaxToAdd(c) \in Nat /\ active[c] + MaxToAdd(c) <= MaxWorkers
BY ChainAssumption DEF MaxToAdd, Smaller

\* The usable entries a pass finds are at most the positions it looks at.
LEMMA FreshSize ==
  ASSUME NEW c, index[c] \in Nat, MaxToAdd(c) \in Nat
  PROVE  Cardinality(Fresh(c)) \in 0 .. MaxToAdd(c)
<1>. DEFINE first == index[c] + 1
            last == index[c] + MaxToAdd(c)
<1>1. Fresh(c) \subseteq first .. last
  BY DEF Fresh, Window
<1>2. /\ IsFiniteSet(first .. last)
      /\ Cardinality(first .. last) = MaxToAdd(c)
  <2>1. first \in Int /\ last \in Int
    OBVIOUS
  <2>2. /\ IsFiniteSet(first .. last)
        /\ Cardinality(first .. last) = IF first > last THEN 0
                                                       ELSE last - first + 1
    BY <2>1, FS_Interval
  <2>3. (IF first > last THEN 0 ELSE last - first + 1) = MaxToAdd(c)
    OBVIOUS
  <2>. QED
    BY <2>2, <2>3
<1>3. /\ IsFiniteSet(Fresh(c))
      /\ Cardinality(Fresh(c)) <= MaxToAdd(c)
  BY <1>1, <1>2, FS_Subset
<1>. QED
  BY <1>3, FS_CardinalityType
-----------------------------------------------------------------------------
LEMMA InitIndInv == Init => IndInv
<1>. SUFFICES ASSUME Init PROVE IndInv
  OBVIOUS
<1>1. TypeOK
  BY DEF Init, TypeOK, Zero, No
<1>. QED
  BY <1>1, ChainAssumption
  DEF Init, IndInv, ActiveIsHandles, NewCallsAreEmpty, CountIsBounded,
      WorkersAreBounded, Running, Zero

LEMMA NextIndInv == IndInv /\ [Next]_vars => IndInv'
<1>. SUFFICES ASSUME IndInv, [Next]_vars PROVE IndInv'
  OBVIOUS
<1>. USE DEF Running
<1>a. /\ MaxWorkers \in Nat /\ 2 <= MaxWorkers /\ MaxFailures \in Nat
      /\ Primary \in Endpoints /\ Fallback \in Endpoints
  BY ChainAssumption
<1>1. ASSUME NEW c \in Calls, Start(c) PROVE IndInv'
  BY <1>a, <1>1
  DEF Start, IndInv, TypeOK, ActiveIsHandles, NewCallsAreEmpty, CountIsBounded,
      WorkersAreBounded
<1>2. ASSUME NEW c \in Calls, Check(c) PROVE IndInv'
  BY <1>2
  DEF Check, IndInv, TypeOK, ActiveIsHandles, NewCallsAreEmpty, CountIsBounded,
      WorkersAreBounded, workers, history
<1>3. ASSUME NEW c \in Calls, Reap(c) PROVE IndInv'
  <2>1. /\ mgr[c] = "reap"
        /\ active[c] = waiting[c] + scanning[c] + finished[c]
        /\ active[c] \in Nat /\ active[c] <= MaxWorkers
        /\ waiting[c] \in Nat /\ scanning[c] \in Nat /\ finished[c] \in Nat
    BY <1>3 DEF Reap, IndInv, TypeOK, ActiveIsHandles, CountIsBounded
  <2>2. /\ active' = [active EXCEPT ![c] = waiting[c] + scanning[c]]
        /\ finished' = [finished EXCEPT ![c] = 0]
    <3>1. active[c] - finished[c] = waiting[c] + scanning[c]
      BY <2>1
    <3>. QED
      BY <1>3, <3>1 DEF Reap
  <2>3. \/ mgr' = [mgr EXCEPT ![c] = "check"]
        \/ mgr' = [mgr EXCEPT ![c] = "add"] /\ waiting[c] + scanning[c] < MaxWorkers
    BY <1>a, <1>3, <2>1 DEF Reap, IndInv, TypeOK
  <2>4. TypeOK'
    <3>1. waiting[c] + scanning[c] \in Nat
      BY <2>1
    <3>2. /\ UNCHANGED <<index, failures, waiting, scanning, history, timeUp,
                         told, cache>>
          /\ shouldStop' \in [Calls -> BOOLEAN]
      BY <1>3 DEF Reap, IndInv, TypeOK
    <3>. QED
      BY <2>2, <2>3, <3>1, <3>2 DEF IndInv, TypeOK, history
  <2>. QED
    BY <1>3, <2>1, <2>2, <2>3, <2>4
    DEF Reap, IndInv, TypeOK, ActiveIsHandles, NewCallsAreEmpty, CountIsBounded,
        WorkersAreBounded
<1>4. ASSUME NEW c \in Calls, Add(c) PROVE IndInv'
  <2>. DEFINE n == Cardinality(Fresh(c))
  <2>1. /\ mgr[c] = "add" /\ active[c] \in Nat /\ index[c] \in Nat
        /\ failures[c] \in Nat /\ active[c] < MaxWorkers
        /\ active[c] = waiting[c] + scanning[c] + finished[c]
        /\ waiting[c] \in Nat /\ scanning[c] \in Nat /\ finished[c] \in Nat
    BY <1>4 DEF Add, IndInv, TypeOK, ActiveIsHandles, CountIsBounded
  <2>2. MaxToAdd(c) \in Nat /\ n \in Nat /\ active[c] + n <= MaxWorkers
    BY <1>a, <2>1, MaxToAddBounds, FreshSize
  <2>3. /\ waiting' = [waiting EXCEPT ![c] = @ + n]
        /\ active' = [active EXCEPT ![c] = @ + n]
        /\ index' = [index EXCEPT ![c] = @ + MaxToAdd(c)]
        /\ UNCHANGED <<shouldStop, scanning, finished, sameList, timeUp, told,
                       cache>>
    BY <1>4 DEF Add, AddWorkers
  <2>4. /\ mgr' \in {[mgr EXCEPT ![c] = "check"], [mgr EXCEPT ![c] = "drain"]}
        /\ failures' \in [Calls -> Nat]
    BY <1>4, <2>1 DEF Add, CountFailure, IndInv, TypeOK
  <2>5. tried' \in [Calls -> SUBSET Endpoints]
    BY <1>4 DEF Add, AddWorkers, Fresh, IndInv, TypeOK
  <2>. HIDE DEF n
  <2>6. TypeOK'
    <3>1. /\ waiting[c] + n \in Nat /\ active[c] + n \in Nat
          /\ index[c] + MaxToAdd(c) \in Nat
      BY <2>1, <2>2
    <3>. QED
      BY <2>3, <2>4, <2>5, <3>1 DEF IndInv, TypeOK
  <2>. QED
    BY <1>a, <2>1, <2>2, <2>3, <2>4, <2>6
    DEF IndInv, TypeOK, ActiveIsHandles, NewCallsAreEmpty, CountIsBounded,
        WorkersAreBounded
<1>5. ASSUME NEW c \in Calls, AddNone(c) PROVE IndInv'
  BY <1>5
  DEF AddNone, CountFailure, IndInv, TypeOK, ActiveIsHandles, NewCallsAreEmpty,
      CountIsBounded, WorkersAreBounded, workers, history
<1>6. ASSUME NEW c \in Calls, mgr[c] = "drain", Return(c) PROVE IndInv'
  BY <1>6
  DEF Return, IndInv, TypeOK, ActiveIsHandles, NewCallsAreEmpty, CountIsBounded,
      WorkersAreBounded, history
<1>7. ASSUME NEW c \in Calls, WorkerStarts(c) PROVE IndInv'
  BY <1>a, <1>7
  DEF WorkerStarts, Finish, IndInv, TypeOK, ActiveIsHandles, NewCallsAreEmpty,
      CountIsBounded, WorkersAreBounded, manager, history
<1>8. ASSUME NEW c \in Calls, WorkerEnds(c) \/ WorkerToldToStop(c) PROVE IndInv'
  <2>1. /\ scanning[c] \in Nat /\ scanning[c] > 0 /\ finished[c] \in Nat
        /\ waiting[c] \in Nat
        /\ scanning' = [scanning EXCEPT ![c] = @ - 1]
        /\ finished' = [finished EXCEPT ![c] = IF mgr[c] \in Running
                                                 THEN @ + 1 ELSE @]
        /\ UNCHANGED <<manager, waiting, history, timeUp, told, cache>>
    BY <1>8 DEF WorkerEnds, WorkerToldToStop, Finish, IndInv, TypeOK
  <2>2. TypeOK'
    BY <2>1 DEF IndInv, TypeOK, manager, history
  <2>3. ActiveIsHandles' /\ NewCallsAreEmpty'
    BY <2>1 DEF IndInv, TypeOK, ActiveIsHandles, NewCallsAreEmpty, manager
  <2>4. CountIsBounded' /\ WorkersAreBounded'
    BY <1>a, <2>1
    DEF IndInv, TypeOK, CountIsBounded, WorkersAreBounded, manager
  <2>. QED
    BY <2>2, <2>3, <2>4 DEF IndInv
<1>9. ASSUME NEW c \in Calls, UpdateCache(c) PROVE IndInv'
  BY <1>9
  DEF UpdateCache, IndInv, TypeOK, ActiveIsHandles, NewCallsAreEmpty,
      CountIsBounded, WorkersAreBounded, No, manager, workers
<1>10. ASSUME NEW c \in Calls, TimeUp(c) PROVE IndInv'
  BY <1>10
  DEF TimeUp, IndInv, TypeOK, ActiveIsHandles, NewCallsAreEmpty, CountIsBounded,
      WorkersAreBounded, manager, workers, history
<1>11. CASE Signal
  BY <1>11
  DEF Signal, IndInv, TypeOK, ActiveIsHandles, NewCallsAreEmpty, CountIsBounded,
      WorkersAreBounded, manager, workers, history
<1>12. CASE UNCHANGED vars
  BY <1>12
  DEF vars, IndInv, TypeOK, ActiveIsHandles, NewCallsAreEmpty, CountIsBounded,
      WorkersAreBounded, manager, workers, history
<1>. QED
  BY <1>1, <1>2, <1>3, <1>4, <1>5, <1>6, <1>7, <1>8, <1>9, <1>10, <1>11, <1>12
  DEF Next, Manage, DrainAll, DrainTimeout
-----------------------------------------------------------------------------
\* The manager never goes past an entry it did not use: only a pass that looks
\* at the list moves the index, by as many positions as it looked at.
LEMMA NextListInv == ListInv /\ [Next]_vars => NoEntrySkipped'
<1>. SUFFICES ASSUME ListInv, [Next]_vars PROVE NoEntrySkipped'
  OBVIOUS
<1>. USE DEF Running
<1>1. ASSUME NEW c \in Calls, Start(c) PROVE NoEntrySkipped'
  BY <1>1 DEF Start, ListInv, IndInv, TypeOK, NewCallsAreEmpty, NoEntrySkipped
<1>2. ASSUME NEW c \in Calls, Check(c) \/ Reap(c) \/ AddNone(c)
      PROVE  NoEntrySkipped'
  <2>1. /\ UNCHANGED <<cache, sameList, tried, index>>
        /\ mgr[c] \in Running
        /\ \A d \in Calls \ {c} : mgr'[d] = mgr[d]
    BY <1>2
    DEF Check, Reap, AddNone, CountFailure, ListInv, IndInv, TypeOK, history,
        workers
  <2>. QED
    BY <2>1 DEF ListInv, NoEntrySkipped
<1>3. ASSUME NEW c \in Calls, Add(c) PROVE NoEntrySkipped'
  <2>1. /\ UNCHANGED <<cache, sameList>>
        /\ index' = [index EXCEPT ![c] = @ + MaxToAdd(c)]
        /\ tried' = [tried EXCEPT ![c] = @ \cup {cache[i] : i \in Fresh(c)}]
        /\ mgr[c] \in Running
        /\ \A d \in Calls \ {c} : mgr'[d] = mgr[d]
    BY <1>3 DEF Add, AddWorkers, CountFailure, ListInv, IndInv, TypeOK
  <2>. SUFFICES ASSUME NEW d \in Calls, sameList[d], mgr'[d] \in Running,
                       NEW i \in 1 .. Len(cache), i <= index'[d],
                       cache[i] \in Endpoints
                PROVE  cache[i] \in tried'[d]
    BY <2>1 DEF NoEntrySkipped
  <2>2. CASE d # c
    BY <2>1, <2>2 DEF ListInv, IndInv, TypeOK, NoEntrySkipped
  <2>3. CASE d = c /\ i <= index[c]
    BY <2>1, <2>3 DEF ListInv, IndInv, TypeOK, NoEntrySkipped
  <2>4. CASE d = c /\ i > index[c]
    <3>1. i \in Fresh(c)
      BY <2>1, <2>4 DEF Fresh, Window, ListInv, IndInv, TypeOK
    <3>. QED
      BY <2>1, <2>4, <3>1 DEF ListInv, IndInv, TypeOK
  <2>5. index[c] \in Nat /\ i \in Int
    BY DEF ListInv, IndInv, TypeOK
  <2>. QED
    BY <2>2, <2>3, <2>4, <2>5
<1>4. ASSUME NEW c \in Calls, Return(c) PROVE NoEntrySkipped'
  BY <1>4 DEF Return, ListInv, IndInv, TypeOK, NoEntrySkipped, history
<1>5. ASSUME NEW c \in Calls, \/ WorkerStarts(c) \/ WorkerEnds(c)
                              \/ WorkerToldToStop(c) \/ TimeUp(c)
      PROVE  NoEntrySkipped'
  BY <1>5
  DEF WorkerStarts, WorkerEnds, WorkerToldToStop, TimeUp, ListInv,
      NoEntrySkipped, manager, history
<1>6. ASSUME NEW c \in Calls, UpdateCache(c) PROVE NoEntrySkipped'
  BY <1>6 DEF UpdateCache, No, NoEntrySkipped
<1>7. CASE Signal
  BY <1>7 DEF Signal, ListInv, NoEntrySkipped, manager, history
<1>8. CASE UNCHANGED vars
  BY <1>8 DEF vars, ListInv, NoEntrySkipped, manager, history
<1>. QED
  BY <1>1, <1>2, <1>3, <1>4, <1>5, <1>6, <1>7, <1>8
  DEF Next, Manage, DrainAll, DrainTimeout

\* The inductive invariant, with and without the cached list.
THEOREM Invariance == Spec => []ListInv
<1>1. Init => ListInv
  <2>1. Init => NoEntrySkipped
    BY DEF Init, NoEntrySkipped, Running
  <2>. QED
    BY <2>1, InitIndInv DEF ListInv
<1>2. ListInv /\ [Next]_vars => ListInv'
  BY NextIndInv, NextListInv DEF ListInv
<1>. QED
  BY <1>1, <1>2, PTL DEF Spec

\* Type correctness; that active_workers is in Nat says that the subtraction of
\* a finished worker never underflows.
THEOREM TypeCorrect == Spec => []TypeOK
<1>1. ListInv => TypeOK
  BY DEF ListInv, IndInv
<1>. QED
  BY <1>1, Invariance, PTL

\* active_workers counts the handles the manager holds.
THEOREM CountIsRight == Spec => []ActiveIsHandles
<1>1. ListInv => ActiveIsHandles
  BY DEF ListInv, IndInv
<1>. QED
  BY <1>1, Invariance, PTL

\* As long as max_workers is at most the permits of the semaphore, no worker
\* ever waits for one.
THEOREM NoWorkerBlocks == Spec => []SemaphoreNeverBlocks
<1>1. ListInv => SemaphoreNeverBlocks
  <2>. SUFFICES ASSUME ListInv, NEW c \in Calls, waiting[c] > 0
                PROVE  scanning[c] < Permits
    BY DEF SemaphoreNeverBlocks
  <2>1. /\ waiting[c] \in Nat /\ scanning[c] \in Nat
        /\ waiting[c] + scanning[c] <= MaxWorkers
    BY DEF ListInv, IndInv, TypeOK, WorkersAreBounded
  <2>. QED
    BY <2>1, ChainAssumption
<1>. QED
  BY <1>1, Invariance, PTL

\* A manager whose cached list stays the same skips no usable entry of it.
THEOREM ListIsWalked == Spec => []NoEntrySkipped
<1>1. ListInv => NoEntrySkipped
  BY DEF ListInv
<1>. QED
  BY <1>1, Invariance, PTL
-----------------------------------------------------------------------------
\* The refinement of WorkerPool.  A manager step that neither opens nor closes
\* the pool leaves it as it is.
LEMMA PoolStays ==
  ASSUME TypeOK, NEW c \in Calls, mgr[c] \in Running, mgr'[c] \in Running,
         \A d \in Calls \ {c} : mgr'[d] = mgr[d]
  PROVE  Pools' = Pools /\ Pools[c] = "open"
BY DEF Pools, Pool, Running

\* A pool is open while its manager runs.
LEMMA PoolIs ==
  ASSUME TypeOK, NEW c \in Calls
  PROVE  /\ Pools[c] = "unused" <=> mgr[c] = "new"
         /\ Pools[c] = "open" <=> mgr[c] \in Running
         /\ Pools[c] = "closed" <=> mgr[c] = "returned"
BY DEF Pools, Pool, Running, TypeOK

\* Moving a worker from one count to the other is nothing to the pool; taking
\* one away is the end of a worker.
LEMMA WorkersStay ==
  ASSUME \A c \in Calls : waiting'[c] + scanning'[c] = waiting[c] + scanning[c]
  PROVE  Workers' = Workers
BY DEF Workers

LEMMA OneWorkerLess ==
  ASSUME TypeOK, NEW c \in Calls, UNCHANGED manager,
         waiting[c] + scanning[c] > 0,
         waiting'[c] + scanning'[c] = waiting[c] + scanning[c] - 1,
         \A d \in Calls \ {c} :
           waiting'[d] + scanning'[d] = waiting[d] + scanning[d]
  PROVE  Abstract!WorkerEnds(c)
<1>1. Pools' = Pools
  BY DEF Pools, Pool, manager
<1>2. Workers[c] > 0
  BY DEF Workers
<1>3. Workers' = [Workers EXCEPT ![c] = @ - 1]
  <2>1. \A d \in Calls : Workers[d] = waiting[d] + scanning[d]
    BY DEF Workers
  <2>2. \A d \in Calls : Workers'[d] = waiting'[d] + scanning'[d]
    BY DEF Workers
  <2>3. Workers'[c] = Workers[c] - 1
    <3>1. waiting[c] \in Nat /\ scanning[c] \in Nat
      BY DEF TypeOK
    <3>. QED
      BY <2>1, <2>2, <3>1
  <2>4. \A d \in Calls \ {c} : Workers'[d] = Workers[d]
    BY <2>1, <2>2
  <2>. QED
    BY <2>3, <2>4 DEF Workers
<1>. QED
  BY <1>1, <1>2, <1>3 DEF Abstract!WorkerEnds

LEMMA InitMapsToPool == Init => Abstract!Init
<1>. SUFFICES ASSUME Init PROVE Abstract!Init
  OBVIOUS
<1>1. Pools = [c \in Calls |-> "unused"]
  BY DEF Init, Pools, Pool
<1>2. Workers = [c \in Calls |-> 0]
  BY DEF Init, Workers, Zero
<1>. QED
  BY <1>1, <1>2 DEF Abstract!Init

\* A call opens its pool when it starts, with the workers of the two configured
\* endpoints: it has none before.
LEMMA StartMapsToPool ==
  ASSUME IndInv, NEW c \in Calls, Start(c)
  PROVE  Abstract!Open(c)
<1>. TypeOK
  BY DEF IndInv
<1>1. /\ mgr[c] = "new" /\ scanning[c] = 0
      /\ mgr' = [mgr EXCEPT ![c] = "check"]
      /\ waiting' = [waiting EXCEPT ![c] = 2]
      /\ scanning' = scanning
  BY DEF Start, IndInv, NewCallsAreEmpty
<1>2. Pools[c] = "unused"
  BY <1>1, PoolIs
<1>3. c \in Service => \A d \in Service : Pools[d] # "open"
  <2>1. \A d \in Service : d \in Calls
    BY DEF Service
  <2>. QED
    BY <2>1, PoolIs DEF Start, Running
<1>4. Pools' = [Pools EXCEPT ![c] = "open"]
  BY <1>1 DEF Pools, Pool, TypeOK
<1>5. Workers' = [Workers EXCEPT ![c] = 2]
  <2>1. \A d \in Calls : Workers'[d] = IF d = c THEN 2 ELSE Workers[d]
    BY <1>1 DEF Workers, TypeOK
  <2>. QED
    BY <2>1 DEF Workers
<1>. QED
  BY <1>2, <1>3, <1>4, <1>5 DEF Abstract!Open

\* The usable entries of a pass are workers the pool has room for, because the
\* workers that have not ended are among the handles the manager counts.
LEMMA AddMapsToPool ==
  ASSUME IndInv, NEW c \in Calls, Add(c)
  PROVE  [Abstract!Next]_(Abstract!vars)
<1>. DEFINE n == Cardinality(Fresh(c))
<1>. TypeOK
  BY DEF IndInv
<1>1. /\ mgr[c] = "add" /\ mgr[c] \in Running
      /\ active[c] \in Nat /\ index[c] \in Nat /\ active[c] < MaxWorkers
      /\ active[c] = waiting[c] + scanning[c] + finished[c]
      /\ waiting[c] \in Nat /\ scanning[c] \in Nat /\ finished[c] \in Nat
      /\ MaxWorkers \in Nat
  BY ChainAssumption
  DEF Add, IndInv, TypeOK, ActiveIsHandles, CountIsBounded, Running
<1>2. n \in Nat /\ active[c] + n <= MaxWorkers
  BY <1>1, MaxToAddBounds, FreshSize
<1>3. /\ waiting' = [waiting EXCEPT ![c] = @ + n]
      /\ scanning' = scanning
      /\ mgr' \in {[mgr EXCEPT ![c] = "check"], [mgr EXCEPT ![c] = "drain"]}
  BY DEF Add, AddWorkers, CountFailure
<1>. HIDE DEF n
<1>4. Pools' = Pools /\ Pools[c] = "open"
  <2>1. mgr'[c] \in Running /\ \A d \in Calls \ {c} : mgr'[d] = mgr[d]
    BY <1>3 DEF TypeOK, Running
  <2>. QED
    BY <1>1, <2>1, PoolStays
<1>5. Workers' = [Workers EXCEPT ![c] = @ + n]
  <2>1. \A d \in Calls : Workers'[d] = IF d = c THEN Workers[c] + n ELSE Workers[d]
    BY <1>1, <1>2, <1>3 DEF Workers, TypeOK
  <2>. QED
    BY <2>1 DEF Workers
<1>6. Workers[c] + n <= MaxWorkers /\ n <= MaxWorkers /\ Workers[c] \in Nat
  <2>1. Workers[c] = waiting[c] + scanning[c]
    BY DEF Workers
  <2>. QED
    BY <1>1, <1>2, <2>1
<1>7. CASE n = 0
  <2>1. Workers' = Workers
    <3>1. Workers[c] + n = Workers[c]
      BY <1>6, <1>7
    <3>. QED
      BY <1>5, <3>1 DEF Workers
  <2>. QED
    BY <1>4, <2>1 DEF Abstract!vars
<1>8. CASE n # 0
  <2>1. n \in 1 .. MaxWorkers
    BY <1>1, <1>2, <1>6, <1>8
  <2>2. Abstract!TakeOn(c, n)
    BY <1>4, <1>5, <1>6 DEF Abstract!TakeOn
  <2>. QED
    BY <2>1, <2>2 DEF Abstract!Next
<1>. QED
  BY <1>7, <1>8

\* The manager gives up its handles and closes the pool; the workers stay.
LEMMA ReturnMapsToPool ==
  ASSUME IndInv, NEW c \in Calls, mgr[c] = "drain", Return(c)
  PROVE  Abstract!Close(c)
<1>. TypeOK
  BY DEF IndInv
<1>1. Pools[c] = "open"
  BY PoolIs DEF Running
<1>2. Pools' = [Pools EXCEPT ![c] = "closed"]
  BY DEF Return, Pools, Pool, TypeOK
<1>3. UNCHANGED Workers
  BY DEF Return, Workers
<1>. QED
  BY <1>1, <1>2, <1>3 DEF Abstract!Close

\* A worker that gets its permit is scanning, or has ended when it found itself
\* told to stop.
LEMMA WorkerStartsMapsToPool ==
  ASSUME IndInv, NEW c \in Calls, WorkerStarts(c)
  PROVE  [Abstract!Next]_(Abstract!vars)
<1>. TypeOK
  BY DEF IndInv
<1>1. /\ waiting[c] \in Nat /\ waiting[c] > 0 /\ scanning[c] \in Nat
      /\ waiting' = [waiting EXCEPT ![c] = @ - 1]
      /\ UNCHANGED manager
      /\ \/ scanning' = scanning
         \/ scanning' = [scanning EXCEPT ![c] = @ + 1]
  BY DEF WorkerStarts, TypeOK
<1>2. CASE scanning' = scanning
  <2>1. /\ waiting[c] + scanning[c] > 0
        /\ waiting'[c] + scanning'[c] = waiting[c] + scanning[c] - 1
        /\ \A d \in Calls \ {c} :
             waiting'[d] + scanning'[d] = waiting[d] + scanning[d]
    BY <1>1, <1>2 DEF TypeOK
  <2>2. Abstract!WorkerEnds(c)
    BY <1>1, <2>1, OneWorkerLess
  <2>. QED
    BY <2>2 DEF Abstract!Next
<1>3. CASE scanning' = [scanning EXCEPT ![c] = @ + 1]
  <2>1. \A d \in Calls : waiting'[d] + scanning'[d] = waiting[d] + scanning[d]
    BY <1>1, <1>3 DEF TypeOK
  <2>2. Workers' = Workers
    BY <2>1, WorkersStay
  <2>3. Pools' = Pools
    BY <1>1 DEF Pools, Pool, manager
  <2>. QED
    BY <2>2, <2>3 DEF Abstract!vars
<1>. QED
  BY <1>1, <1>2, <1>3

LEMMA WorkerEndsMapsToPool ==
  ASSUME IndInv, NEW c \in Calls, WorkerEnds(c) \/ WorkerToldToStop(c)
  PROVE  Abstract!WorkerEnds(c)
<1>. TypeOK
  BY DEF IndInv
<1>1. /\ scanning[c] \in Nat /\ scanning[c] > 0 /\ waiting[c] \in Nat
      /\ scanning' = [scanning EXCEPT ![c] = @ - 1]
      /\ UNCHANGED <<manager, waiting>>
  BY DEF WorkerEnds, WorkerToldToStop, TypeOK
<1>2. /\ waiting[c] + scanning[c] > 0
      /\ waiting'[c] + scanning'[c] = waiting[c] + scanning[c] - 1
      /\ \A d \in Calls \ {c} :
           waiting'[d] + scanning'[d] = waiting[d] + scanning[d]
  BY <1>1 DEF TypeOK
<1>. QED
  BY <1>1, <1>2, OneWorkerLess

\* Every step of a manager or of a worker is a step of the pool or none.
LEMMA NextMapsToPool ==
  IndInv /\ [Next]_vars => [Abstract!Next]_(Abstract!vars)
<1>. SUFFICES ASSUME IndInv, [Next]_vars PROVE [Abstract!Next]_(Abstract!vars)
  OBVIOUS
<1>. TypeOK
  BY DEF IndInv
<1>1. ASSUME NEW c \in Calls, Start(c) PROVE Abstract!Next
  BY <1>1, StartMapsToPool DEF Abstract!Next
<1>2. ASSUME NEW c \in Calls, Check(c) \/ Reap(c) \/ AddNone(c)
      PROVE  UNCHANGED Abstract!vars
  <2>1. /\ UNCHANGED <<waiting, scanning>>
        /\ mgr[c] \in Running /\ mgr'[c] \in Running
        /\ \A d \in Calls \ {c} : mgr'[d] = mgr[d]
    BY <1>2 DEF Check, Reap, AddNone, CountFailure, TypeOK, workers, Running
  <2>2. Workers' = Workers
    BY <2>1 DEF Workers
  <2>. QED
    BY <2>1, <2>2, PoolStays DEF Abstract!vars
<1>3. ASSUME NEW c \in Calls, Add(c) PROVE [Abstract!Next]_(Abstract!vars)
  BY <1>3, AddMapsToPool
<1>4. ASSUME NEW c \in Calls, DrainAll(c) \/ DrainTimeout(c)
      PROVE  Abstract!Next
  BY <1>4, ReturnMapsToPool DEF DrainAll, DrainTimeout, Abstract!Next
<1>5. ASSUME NEW c \in Calls, WorkerStarts(c)
      PROVE  [Abstract!Next]_(Abstract!vars)
  BY <1>5, WorkerStartsMapsToPool
<1>6. ASSUME NEW c \in Calls, WorkerEnds(c) \/ WorkerToldToStop(c)
      PROVE  Abstract!Next
  BY <1>6, WorkerEndsMapsToPool DEF Abstract!Next
<1>7. CASE \/ Signal \/ UNCHANGED vars
           \/ \E c \in Calls : UpdateCache(c) \/ TimeUp(c)
  <2>1. UNCHANGED <<mgr, waiting, scanning>>
    BY <1>7 DEF Signal, vars, UpdateCache, TimeUp, manager, workers
  <2>. QED
    BY <2>1 DEF Pools, Pool, Workers, Abstract!vars
<1>. QED
  BY <1>1, <1>2, <1>3, <1>4, <1>5, <1>6, <1>7 DEF Next, Manage

\* The manager, with its handles, its counter and its two limits, implements a
\* pool that is never too large, that nobody joins once it is closed and that
\* the service has one of at a time: for every number of calls, every limit and
\* every cached list.
THEOREM WorkerPoolImplemented == Spec => ImplementsWorkerPool
<1>1. ListInv => IndInv
  BY DEF ListInv
<1>. QED
  BY <1>1, Invariance, InitMapsToPool, NextMapsToPool, PTL
  DEF Spec, ImplementsWorkerPool, Abstract!Spec
==============================================================================
