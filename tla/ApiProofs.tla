------------------------------ MODULE ApiProofs ------------------------------
(***************************************************************************)
(* The invariants of the HTTP server, its cache and the table, for every   *)
(* number of requests, keys, networks and addresses, with the migration at *)
(* any time.  RefreshesStick needs to know what a request holds between    *)
(* its first statement and its store: an answer no older than the floor of *)
(* its entry.                                                              *)
(***************************************************************************)
EXTENDS Api, PeerTableProofs, FiniteSetTheorems

\* A request has executed some statements for its entry, or is about to.
AskedFits ==
  \A r \in Requests :
    /\ pc[r] = "check" => job[r].asked = 0
    /\ pc[r] = "query" => job[r].asked < StatementsOf(job[r].key)
    /\ pc[r] = "store" => job[r].asked > 0

\* An answer on its way to the cache, and every entry's floor, is of a moment
\* between the floor and now.
FloorIsPast == \A e \in Entries : floor[e] <= Moment(e)
AnswersAreAboveFloor ==
  \A r \in Requests :
    pc[r] \in {"query", "store"} /\ job[r].asked > 0 =>
      floor[job[r].key] <= job[r].at /\ job[r].at <= Moment(job[r].key)

IndInv ==
  /\ TypeOK
  /\ TableInv
  /\ EntriesAreComplete
  /\ LastRefreshIsNewest
  /\ AskedFits
  /\ FloorIsPast
  /\ AnswersAreAboveFloor
  /\ RefreshesStick

\* What a step may do with the requests, apart from the cache.
RequestsOK ==
  /\ pc \in [Requests -> InFlight \cup {"idle", "ended"}]
  /\ job \in [Requests -> Jobs]
  /\ AskedFits
-----------------------------------------------------------------------------
LEMMA AssumedTypes ==
  /\ Statements \in Nat \ {0} /\ Free \notin Requests
  /\ Stats \notin Keys /\ Never \notin Int /\ MaxAge \in Nat
  /\ Default \in Intervals /\ Intervals \subseteq Int
  /\ Configured \subseteq Keys /\ OmniflixKey \in Keys
  /\ Column \in [Keys -> Names]
BY ApiAssumption, CacheAssumption

LEMMA MomentIsNat ==
  ASSUME TableTypeOK, NEW e \in Entries
  PROVE  Moment(e) \in Nat
BY AssumedTypes DEF TableTypeOK, Moment, Entries

LEMMA StatementsInRange ==
  ASSUME NEW e
  PROVE  StatementsOf(e) \in 1 .. Statements
BY AssumedTypes DEF StatementsOf

LEMMA NewJobIsJob ==
  ASSUME NEW k \in Entries, NEW f \in {"all", "some"},
         NEW L \in SUBSET Configured
  PROVE  /\ Job(k, f, L) \in Jobs
         /\ Job(k, f, L).asked = 0 /\ Job(k, f, L).key = k
         /\ Job(k, f, L).filter = f
BY AssumedTypes DEF Job, Jobs

\* The moments only move forward.
LEMMA MomentsGrow ==
  ASSUME TableTypeOK, TableTypeOK', TableMonotone, NEW e \in Entries
  PROVE  Moment(e) <= Moment(e)'
BY AssumedTypes DEF TableTypeOK, TableMonotone, Moment, Entries

LEMMA InitIndInv == Init => IndInv
<1>. SUFFICES ASSUME Init PROVE IndInv
  OBVIOUS
<1>1. TableInv
  BY TableInitInv DEF Init
<1>2. NoJob \in Jobs /\ NoJob.asked = 0
  BY NewJobIsJob DEF NoJob, Entries
<1>3. CacheTypeOK /\ EntriesAreComplete /\ LastRefreshIsNewest /\ DOMAIN cache = {}
  BY AssumedTypes
  DEF Init, CacheInit, CacheTypeOK, EntriesAreComplete, LastRefreshIsNewest
<1>4. TypeOK
  BY <1>1, <1>2, <1>3 DEF Init, TypeOK, TableInv, InFlight
<1>5. FloorIsPast
  BY <1>1, MomentIsNat DEF Init, FloorIsPast, TableInv
<1>. QED
  BY <1>1, <1>2, <1>3, <1>4, <1>5
  DEF Init, IndInv, AskedFits, AnswersAreAboveFloor, RefreshesStick
-----------------------------------------------------------------------------
\* One request moves on to label with job j.
LEMMA GotoKeepsRequests ==
  ASSUME RequestsOK, NEW r \in Requests, NEW j \in Jobs,
         NEW label \in InFlight \cup {"idle", "ended"}, Goto(r, label, j),
         label = "check" => j.asked = 0,
         label = "query" => j.asked < StatementsOf(j.key),
         label = "store" => j.asked > 0
  PROVE  RequestsOK'
<1>1. /\ pc' \in [Requests -> InFlight \cup {"idle", "ended"}]
      /\ job' \in [Requests -> Jobs]
  BY DEF RequestsOK, Goto
<1>2. ASSUME NEW q \in Requests
      PROVE  /\ pc'[q] = "check" => job'[q].asked = 0
             /\ pc'[q] = "query" => job'[q].asked < StatementsOf(job'[q].key)
             /\ pc'[q] = "store" => job'[q].asked > 0
  <2>1. CASE q = r
    BY <2>1 DEF RequestsOK, Goto
  <2>2. CASE q # r
    <3>1. pc'[q] = pc[q] /\ job'[q] = job[q]
      BY <2>2 DEF RequestsOK, Goto
    <3>. QED
      BY <3>1 DEF RequestsOK, AskedFits
  <2>. QED
    BY <2>1, <2>2
<1>. QED
  BY <1>1, <1>2 DEF RequestsOK, AskedFits, StatementsOf

\* The same, when only the request and the lock change.
LEMMA GotoKeepsIndInv ==
  ASSUME IndInv, NEW r \in Requests, NEW j \in Jobs,
         NEW label \in InFlight \cup {"idle", "ended"}, Goto(r, label, j),
         label = "check" => j.asked = 0,
         label = "query" => j.asked < StatementsOf(j.key),
         label = "store" => j.asked > 0,
         label \in {"query", "store"} /\ j.asked > 0 =>
           floor[j.key] <= j.at /\ j.at <= Moment(j.key),
         lock' \in Requests \cup {Free},
         UNCHANGED <<table, dbCache, useDb, floor>>
  PROVE  IndInv'
<1>1. RequestsOK'
  BY GotoKeepsRequests DEF IndInv, TypeOK, RequestsOK
<1>2. TableInv' /\ TableTypeOK'
  BY TableStepKeeps DEF IndInv, TableStep, TableInv
<1>3. /\ CacheTypeOK' /\ EntriesAreComplete' /\ LastRefreshIsNewest'
      /\ RefreshesStick'
  BY DEF IndInv, TypeOK, dbCache, CacheTypeOK, EntriesAreComplete,
         LastRefreshIsNewest, RefreshesStick
<1>4. \A e : Moment(e)' = Moment(e)
  BY DEF Moment, table
<1>5. FloorIsPast'
  BY <1>4 DEF IndInv, FloorIsPast
<1>6. ASSUME NEW q \in Requests, pc'[q] \in {"query", "store"}, job'[q].asked > 0
      PROVE  /\ floor[job'[q].key] <= job'[q].at
             /\ job'[q].at <= Moment(job'[q].key)
  <2>1. CASE q = r
    BY <1>6, <2>1 DEF Goto, IndInv, TypeOK
  <2>2. CASE q # r
    <3>1. pc'[q] = pc[q] /\ job'[q] = job[q]
      BY <2>2 DEF IndInv, TypeOK, Goto
    <3>. QED
      BY <1>6, <3>1 DEF IndInv, AnswersAreAboveFloor
  <2>. QED
    BY <2>1, <2>2
<1>7. AnswersAreAboveFloor'
  <2>1. \A q \in Requests : Moment(job'[q].key) = Moment(job[q].key)'
    BY DEF Moment, table
  <2>. QED
    BY <1>6, <2>1 DEF AnswersAreAboveFloor
<1>. QED
  BY <1>1, <1>2, <1>3, <1>5, <1>7
  DEF IndInv, TypeOK, RequestsOK

\* The table changes under the server.
LEMMA TableStepKeepsIndInv ==
  ASSUME IndInv, TableStep, UNCHANGED <<dbCache, useDb, request, lock, floor>>
  PROVE  IndInv'
<1>1. TableInv' /\ TableMonotone
  BY TableStepKeeps DEF IndInv
<1>2. \A e \in Entries : Moment(e) <= Moment(e)' /\ Moment(e) \in Nat
                          /\ Moment(e)' \in Nat
  <2>1. TableTypeOK /\ TableTypeOK'
    BY <1>1 DEF IndInv, TableInv
  <2>2. ASSUME NEW e \in Entries
        PROVE  Moment(e)' \in Nat
    BY <2>1, AssumedTypes DEF TableTypeOK, Moment, Entries
  <2>. QED
    BY <1>1, <2>1, <2>2, MomentsGrow, MomentIsNat
<1>3. FloorIsPast'
  <2>1. \A e \in Entries : floor[e] \in Nat /\ floor'[e] = floor[e]
    BY DEF IndInv, TypeOK
  <2>. QED
    BY <1>2, <2>1 DEF IndInv, FloorIsPast
<1>4. AnswersAreAboveFloor'
  <2>1. \A q \in Requests :
          job[q].key \in Entries /\ job[q].at \in Nat
          /\ job'[q] = job[q] /\ pc'[q] = pc[q]
    BY DEF IndInv, TypeOK, Jobs, request
  <2>. QED
    BY <1>2, <2>1 DEF IndInv, AnswersAreAboveFloor
<1>. QED
  BY <1>1, <1>3, <1>4
  DEF IndInv, TypeOK, TableInv, request, dbCache, CacheTypeOK,
      EntriesAreComplete, LastRefreshIsNewest, RefreshesStick, AskedFits,
      StatementsOf
-----------------------------------------------------------------------------
\* What the cache promises by itself.
CacheOK == CacheTypeOK /\ EntriesAreComplete /\ LastRefreshIsNewest

\* Storing an unfiltered answer makes it the newest entry.
LEMMA StoreKeepsCache ==
  ASSUME CacheOK, NEW e \in Entries, NEW n \in Nat, Store(e, n, "all")
  PROVE  /\ CacheOK'
         /\ DOMAIN cache' = DOMAIN cache \cup {e}
         /\ cache'[e].at = n
         /\ \A x \in DOMAIN cache : x # e => cache'[x] = cache[x]
<1> DEFINE v == [at |-> n, filter |-> "all", age |-> 0]
<1>1. /\ cache' = [x \in DOMAIN cache \cup {e} |-> IF x = e THEN v ELSE cache[x]]
      /\ lastRefresh' = 0 /\ interval' = interval
  BY DEF Store, With
<1>2. v \in Stored /\ v.at = n /\ v.age = 0 /\ v.filter = "all"
  BY AssumedTypes DEF Stored
<1>3. CacheTypeOK'
  BY <1>1, <1>2, AssumedTypes DEF CacheOK, CacheTypeOK
<1>4. EntriesAreComplete'
  BY <1>1, <1>2 DEF CacheOK, EntriesAreComplete
<1>5. \A x \in DOMAIN cache' : cache'[x].age \in Nat
  BY <1>3, AssumedTypes DEF CacheTypeOK, Stored
<1>6. LastRefreshIsNewest'
  <2>1. e \in DOMAIN cache' /\ cache'[e].age = 0
    BY <1>1, <1>2
  <2>2. lastRefresh' = 0 /\ 0 # Never
    BY <1>1, AssumedTypes
  <2>. QED
    BY <1>5, <2>1, <2>2 DEF LastRefreshIsNewest
<1>. QED
  BY <1>1, <1>2, <1>3, <1>4, <1>6 DEF CacheOK

\* Time keeps the order of the ages.
LEMMA AgeKeepsCache ==
  ASSUME CacheOK, Age
  PROVE  /\ CacheOK'
         /\ DOMAIN cache' = DOMAIN cache
         /\ \A x \in DOMAIN cache : cache'[x].at = cache[x].at
<1>1. /\ cache' = [x \in DOMAIN cache |-> [cache[x] EXCEPT !.age = Older(@)]]
      /\ lastRefresh' = IF lastRefresh = Never THEN Never ELSE Older(lastRefresh)
      /\ interval' = interval
  BY DEF Age
<1>2. \A x \in DOMAIN cache : cache[x] \in Stored
  BY DEF CacheOK, CacheTypeOK
<1>3. \A n \in 0 .. MaxAge : Older(n) \in 0 .. MaxAge
  BY AssumedTypes DEF Older
<1>4. \A m, n \in 0 .. MaxAge : m <= n => Older(m) <= Older(n)
  BY AssumedTypes DEF Older
<1>5. \A x \in DOMAIN cache :
        /\ cache'[x] \in Stored
        /\ cache'[x].at = cache[x].at /\ cache'[x].filter = cache[x].filter
        /\ cache'[x].age = Older(cache[x].age)
        /\ cache[x].age \in 0 .. MaxAge
  BY <1>1, <1>2, <1>3 DEF Stored
<1>6. DOMAIN cache' = DOMAIN cache
  BY <1>1
<1>7. lastRefresh \in (0 .. MaxAge) \cup {Never}
  BY DEF CacheOK, CacheTypeOK
<1>8. CacheTypeOK'
  <2>1. cache' = [x \in DOMAIN cache' |-> cache'[x]]
    BY <1>1
  <2>. QED
    BY <1>1, <1>3, <1>5, <1>6, <1>7, <2>1 DEF CacheOK, CacheTypeOK
<1>9. LastRefreshIsNewest'
  <2>1. CASE lastRefresh = Never
    BY <1>1, <1>6, <2>1 DEF CacheOK, LastRefreshIsNewest
  <2>2. CASE lastRefresh # Never
    <3>1. /\ lastRefresh \in 0 .. MaxAge
          /\ lastRefresh' = Older(lastRefresh) /\ lastRefresh' # Never
      BY <1>1, <1>3, <1>7, <2>2, AssumedTypes
    <3>2. DOMAIN cache # {}
      BY <2>2 DEF CacheOK, LastRefreshIsNewest
    <3>3. PICK x \in DOMAIN cache : cache[x].age = lastRefresh
      BY <3>2 DEF CacheOK, LastRefreshIsNewest
    <3>4. cache'[x].age = lastRefresh'
      BY <1>5, <3>1, <3>3
    <3>5. \A y \in DOMAIN cache : lastRefresh' <= cache'[y].age
      BY <1>4, <1>5, <3>1 DEF CacheOK, LastRefreshIsNewest
    <3>. QED
      BY <1>6, <3>1, <3>2, <3>4, <3>5 DEF LastRefreshIsNewest
  <2>. QED
    BY <2>1, <2>2
<1>. QED
  BY <1>5, <1>6, <1>8, <1>9 DEF CacheOK, EntriesAreComplete

\* Steps of the cache that no request takes.
LEMMA CacheStepKeepsIndInv ==
  ASSUME IndInv, Age \/ Configure,
         UNCHANGED <<table, useDb, request, lock, floor>>
  PROVE  IndInv'
<1>1. CacheOK
  BY DEF IndInv, TypeOK, CacheOK
<1>2. /\ CacheOK'
      /\ DOMAIN cache' = DOMAIN cache
      /\ \A x \in DOMAIN cache : cache'[x].at = cache[x].at
  <2>1. CASE Age
    BY <1>1, <2>1, AgeKeepsCache
  <2>2. CASE Configure
    BY <1>1, <2>2
    DEF Configure, CacheOK, CacheTypeOK, EntriesAreComplete, LastRefreshIsNewest
  <2>. QED
    BY <2>1, <2>2
<1>3. TableInv'
  BY TableStepKeeps DEF IndInv, TableStep
<1>4. RefreshesStick'
  BY <1>2 DEF IndInv, RefreshesStick
<1>5. FloorIsPast' /\ AnswersAreAboveFloor' /\ AskedFits'
  BY DEF IndInv, FloorIsPast, AnswersAreAboveFloor, AskedFits, StatementsOf,
         Moment, table, request
<1>. QED
  BY <1>2, <1>3, <1>4, <1>5
  DEF IndInv, TypeOK, CacheOK, TableInv, request
-----------------------------------------------------------------------------
\* What a request does next with its entries: RequestsOK and an answer of none.
LEMMA ProceedKeepsRequests ==
  ASSUME RequestsOK, NEW r \in Requests, Proceed(r)
  PROVE  /\ RequestsOK'
         /\ job'[r].asked = 0
         /\ \A q \in Requests \ {r} : pc'[q] = pc[q] /\ job'[q] = job[q]
<1>1. NoJob \in Jobs /\ NoJob.asked = 0
  BY NewJobIsJob DEF NoJob, Entries
<1>2. CASE End(r)
  <2>1. RequestsOK'
    BY <1>1, <1>2, GotoKeepsRequests DEF End, InFlight
  <2>. QED
    BY <1>1, <1>2, <2>1 DEF End, Goto, RequestsOK
<1>3. ASSUME NEW k \in job[r].left,
             Goto(r, "query", Job(k, "all", job[r].left \ {k}))
      PROVE  /\ RequestsOK'
             /\ job'[r].asked = 0
             /\ \A q \in Requests \ {r} : pc'[q] = pc[q] /\ job'[q] = job[q]
  <2> DEFINE j == Job(k, "all", job[r].left \ {k})
  <2>1. job[r].left \in SUBSET Configured
    BY DEF RequestsOK, Jobs
  <2>2. j \in Jobs /\ j.asked = 0 /\ j.key = k
    BY <2>1, AssumedTypes, NewJobIsJob DEF Entries
  <2>3. j.asked < StatementsOf(j.key)
    BY <2>2, StatementsInRange
  <2>4. RequestsOK'
    BY <1>3, <2>2, <2>3, GotoKeepsRequests DEF InFlight
  <2>. QED
    BY <1>3, <2>2, <2>4 DEF Goto, RequestsOK
<1>. QED
  BY <1>2, <1>3 DEF Proceed

\* The request stores its answer, and the floor of the entry may rise to it.
LEMMA StoreAnswerKeepsIndInv ==
  ASSUME IndInv, NEW r \in Requests, StoreAnswer(r)
  PROVE  IndInv'
<1> DEFINE j == job[r]
<1>a. /\ j \in Jobs /\ j.key \in Entries /\ j.at \in Nat
      /\ pc[r] = "store" /\ j.asked > 0
      /\ floor \in [Entries -> Nat]
  BY DEF IndInv, TypeOK, Jobs, StoreAnswer, AskedFits
<1>b. floor[j.key] <= j.at /\ j.at <= Moment(j.key)
  BY <1>a DEF IndInv, AnswersAreAboveFloor
<1>1. /\ RequestsOK' /\ job'[r].asked = 0
      /\ \A q \in Requests \ {r} : pc'[q] = pc[q] /\ job'[q] = job[q]
  BY ProceedKeepsRequests DEF IndInv, TypeOK, RequestsOK, StoreAnswer
<1>2. TableInv' /\ \A e : Moment(e)' = Moment(e)
  <2>1. UNCHANGED table
    BY DEF StoreAnswer
  <2>. QED
    BY <2>1, TableStepKeeps DEF IndInv, TableStep, Moment, table
<1>3. CacheOK
  BY DEF IndInv, TypeOK, CacheOK
<1>4. CASE j.filter = "all"
  <2>1. Store(j.key, j.at, "all") /\ floor' = Raised(r, j.key, j.at)
    BY <1>4 DEF StoreAnswer
  <2>2. /\ CacheOK'
        /\ DOMAIN cache' = DOMAIN cache \cup {j.key}
        /\ cache'[j.key].at = j.at
        /\ \A x \in DOMAIN cache : x # j.key => cache'[x] = cache[x]
    BY <1>a, <1>3, <2>1, StoreKeepsCache
  <2>3. /\ floor' \in [Entries -> Nat]
        /\ \A e \in Entries \ {j.key} : floor'[e] = floor[e]
        /\ floor'[j.key] \in {floor[j.key], j.at}
        /\ floor'[j.key] = floor[j.key] \/ ~Pending(r, j.key)
    BY <1>a, <2>1 DEF Raised
  <2>4. FloorIsPast'
    <3>1. \A e \in Entries : floor'[e] <= Moment(e)
      BY <1>a, <1>b, <2>3 DEF IndInv, FloorIsPast
    <3>. QED
      BY <1>2, <3>1 DEF FloorIsPast
  <2>5. RefreshesStick'
    <3>1. DOMAIN cache \subseteq Entries
      BY <1>3 DEF CacheOK, CacheTypeOK
    <3>2. \A e \in DOMAIN cache' : cache'[e].at >= floor'[e]
      BY <1>a, <1>b, <2>2, <2>3, <3>1 DEF IndInv, RefreshesStick
    <3>. QED
      BY <3>2 DEF RefreshesStick
  <2>6. ASSUME NEW q \in Requests, pc'[q] \in {"query", "store"}, job'[q].asked > 0
        PROVE  /\ floor'[job'[q].key] <= job'[q].at
               /\ job'[q].at <= Moment(job'[q].key)
    <3>1. q # r
      BY <1>1, <2>6
    <3>2. pc'[q] = pc[q] /\ job'[q] = job[q]
      BY <1>1, <3>1
    <3>3. /\ floor[job[q].key] <= job[q].at /\ job[q].at <= Moment(job[q].key)
          /\ job[q].key \in Entries
      BY <2>6, <3>2 DEF IndInv, AnswersAreAboveFloor, TypeOK, Jobs
    <3>4. CASE job[q].key # j.key
      BY <2>3, <3>2, <3>3, <3>4
    <3>5. CASE job[q].key = j.key
      <4>1. Pending(r, j.key)
        BY <2>6, <3>1, <3>2, <3>5 DEF Pending
      <4>. QED
        BY <2>3, <3>2, <3>3, <3>5, <4>1
    <3>. QED
      BY <3>4, <3>5
  <2>7. AnswersAreAboveFloor'
    <3>1. \A q \in Requests : Moment(job'[q].key) = Moment(job[q].key)'
      BY DEF StoreAnswer, Moment, table
    <3>. QED
      BY <2>6, <3>1 DEF AnswersAreAboveFloor
  <2>. QED
    BY <1>1, <1>2, <2>2, <2>3, <2>4, <2>5, <2>7
    DEF IndInv, TypeOK, CacheOK, TableInv, RequestsOK, StoreAnswer, Unlock
<1>5. CASE j.filter # "all"
  <2>1. UNCHANGED <<dbCache, floor>>
    BY <1>5 DEF StoreAnswer
  <2>2. CacheOK' /\ RefreshesStick'
    BY <1>3, <2>1
    DEF dbCache, CacheOK, CacheTypeOK, EntriesAreComplete, LastRefreshIsNewest,
        IndInv, RefreshesStick
  <2>3. FloorIsPast'
    BY <1>2, <2>1 DEF IndInv, FloorIsPast
  <2>4. ASSUME NEW q \in Requests, pc'[q] \in {"query", "store"}, job'[q].asked > 0
        PROVE  /\ floor'[job'[q].key] <= job'[q].at
               /\ job'[q].at <= Moment(job'[q].key)
    <3>1. q # r
      BY <1>1, <2>4
    <3>. QED
      BY <1>1, <2>1, <2>4, <3>1 DEF IndInv, AnswersAreAboveFloor
  <2>5. AnswersAreAboveFloor'
    <3>1. \A q \in Requests : Moment(job'[q].key) = Moment(job[q].key)'
      BY DEF StoreAnswer, Moment, table
    <3>. QED
      BY <2>4, <3>1 DEF AnswersAreAboveFloor
  <2>. QED
    BY <1>1, <1>2, <2>1, <2>2, <2>3, <2>5
    DEF IndInv, TypeOK, CacheOK, TableInv, RequestsOK, StoreAnswer, Unlock
<1>. QED
  BY <1>4, <1>5

\* A handler reads the table once more, or starts.
LEMMA QueryKeepsIndInv ==
  ASSUME IndInv, NEW r \in Requests, Query(r)
  PROVE  IndInv'
<1> DEFINE j == job[r]
           k == j.key
           moment == IF j.asked = 0 THEN Moment(k) ELSE j.at
           new == [j EXCEPT !.asked = j.asked + 1, !.at = moment]
           label == IF j.asked + 1 = StatementsOf(k) THEN "store" ELSE "query"
<1>1. /\ j \in Jobs /\ k \in Entries /\ j.at \in Nat /\ j.asked \in Nat
      /\ pc[r] = "query" /\ j.asked < StatementsOf(k)
      /\ floor \in [Entries -> Nat] /\ TableTypeOK
  BY DEF IndInv, TypeOK, Jobs, Query, AskedFits
<1>2. Moment(k) \in Nat /\ StatementsOf(k) \in 1 .. Statements
      /\ floor[k] <= Moment(k)
  BY <1>1, MomentIsNat, StatementsInRange DEF IndInv, FloorIsPast
<1>3. floor[k] <= moment /\ moment <= Moment(k) /\ moment \in Nat
  BY <1>1, <1>2 DEF IndInv, AnswersAreAboveFloor
<1>4. /\ new \in Jobs /\ new.key = k /\ new.asked = j.asked + 1
      /\ new.at = moment
  <2>1. ASSUME NEW a \in 0 .. Statements, NEW m \in Nat
        PROVE  LET v == [j EXCEPT !.asked = a, !.at = m]
               IN  v \in Jobs /\ v.key = k /\ v.asked = a /\ v.at = m
    BY <1>1 DEF Jobs
  <2>2. j.asked + 1 \in 0 .. Statements
    BY <1>1, <1>2, AssumedTypes
  <2>. HIDE DEF j, k, moment
  <2>. QED
    BY <1>3, <2>1, <2>2
<1>5. Goto(r, label, new) /\ UNCHANGED <<table, dbCache, useDb, lock, floor>>
  BY DEF Query
<1>6. lock' \in Requests \cup {Free}
  BY <1>5 DEF IndInv, TypeOK
<1>7. label \in InFlight \cup {"idle", "ended"}
  BY DEF InFlight
<1>8. label = "query" => new.asked < StatementsOf(new.key)
  BY <1>1, <1>2, <1>4
<1>9. label # "check" /\ new.asked > 0
  BY <1>1, <1>4
<1>10. floor[new.key] <= new.at /\ new.at <= Moment(new.key)
  BY <1>3, <1>4
<1> HIDE DEF new, label
<1>. QED
  BY <1>4, <1>5, <1>6, <1>7, <1>8, <1>9, <1>10, GotoKeepsIndInv

\* A handler starts, ends or goes on with what it has.
LEMMA RequestKeepsIndInv ==
  ASSUME IndInv, NEW r \in Requests,
         Arrive(r) \/ Serve(r) \/ Disconnect(r)
  PROVE  IndInv'
<1>a. /\ job[r] \in Jobs /\ job[r].key \in Entries /\ lock \in Requests \cup {Free}
      /\ RequestsOK /\ AskedFits
  BY DEF IndInv, TypeOK, Jobs, RequestsOK
<1>b. NoJob \in Jobs /\ NoJob.asked = 0 /\ NoJob.key = Stats
  BY NewJobIsJob DEF NoJob, Entries
<1>c. \A k \in Entries : \A f \in {"all", "some"} :
        \A L \in SUBSET Configured :
          Job(k, f, L) \in Jobs /\ Job(k, f, L).asked = 0 /\ Job(k, f, L).key = k
  BY NewJobIsJob
<1>d. \A k \in Entries : StatementsOf(k) > 0
  BY StatementsInRange, AssumedTypes
\* A step to a job that has no answer yet.
<1>e. ASSUME NEW label \in {"check", "query", "ended", "memory"}, NEW j \in Jobs,
             j.asked = 0, Goto(r, label, j), lock' \in Requests \cup {Free},
             UNCHANGED <<table, dbCache, useDb, floor>>
      PROVE  IndInv'
  <2>1. label = "query" => j.asked < StatementsOf(j.key)
    BY <1>d, <1>e DEF Jobs
  <2>2. label \in InFlight \cup {"idle", "ended"}
    BY <1>e DEF InFlight
  <2>. QED
    BY <1>e, <2>1, <2>2, GotoKeepsIndInv
<1>f. ASSUME End(r), lock' \in Requests \cup {Free},
             UNCHANGED <<table, dbCache, useDb, floor>>
      PROVE  IndInv'
  BY <1>b, <1>e, <1>f DEF End
<1>1. CASE Get(r)
  <2>1. CASE Goto(r, "check", NoJob)
    BY <1>a, <1>b, <1>e, <1>1, <2>1 DEF Get
  <2>2. ASSUME NEW k \in Keys, NEW f \in {"all", "some"},
               Goto(r, "check", Job(k, f, {}))
        PROVE  IndInv'
    BY <1>a, <1>c, <1>e, <1>1, <2>2 DEF Get, Entries
  <2>. QED
    BY <1>1, <2>1, <2>2 DEF Get
<1>2. CASE Refresh(r)
  <2>1. CASE End(r)
    BY <1>a, <1>f, <1>2, <2>1 DEF Refresh
  <2>2. ASSUME NEW k \in Keys, Goto(r, "query", Job(RefreshKey(k), "all", {}))
        PROVE  IndInv'
    <3>1. RefreshKey(k) \in Entries
      BY AssumedTypes DEF RefreshKey, Entries
    <3>. QED
      BY <1>a, <1>c, <1>e, <1>2, <2>2, <3>1 DEF Refresh
  <2>3. CASE Goto(r, "query", Job(Stats, "all", Configured))
    <3>1. Stats \in Entries /\ Configured \in SUBSET Configured
      BY DEF Entries
    <3>2. /\ Job(Stats, "all", Configured) \in Jobs
          /\ Job(Stats, "all", Configured).asked = 0
      BY <1>c, <3>1
    <3>3. lock' \in Requests \cup {Free} /\ UNCHANGED <<table, dbCache, useDb, floor>>
      BY <1>a, <1>2 DEF Refresh
    <3>. QED
      BY <1>e, <2>3, <3>2, <3>3
  <2>. QED
    BY <1>2, <2>1, <2>2, <2>3 DEF Refresh
<1>3. CASE Lock(r)
  <2>1. /\ lock' = r /\ pc' = pc /\ job' = job
        /\ UNCHANGED <<table, dbCache, useDb, floor>>
    BY <1>3 DEF Lock, request
  <2>2. Goto(r, pc[r], job[r])
    BY <2>1 DEF Goto, IndInv, TypeOK
  <2>3. pc[r] \in {"check", "store"}
    BY <1>3 DEF Lock
  <2>4. /\ pc[r] = "check" => job[r].asked = 0
        /\ pc[r] = "store" => job[r].asked > 0
    BY <1>a DEF AskedFits
  <2>5. pc[r] \in {"query", "store"} /\ job[r].asked > 0 =>
          floor[job[r].key] <= job[r].at /\ job[r].at <= Moment(job[r].key)
    BY DEF IndInv, AnswersAreAboveFloor
  <2>. QED
    BY <1>a, <2>1, <2>2, <2>3, <2>4, <2>5, GotoKeepsIndInv DEF InFlight
<1>4. CASE AnswerFromCache(r)
  BY <1>f, <1>4 DEF AnswerFromCache, Unlock
<1>5. CASE Miss(r)
  <2>1. job[r].asked = 0
    BY <1>a, <1>5 DEF Miss, AskedFits
  <2>2. Goto(r, IF useDb THEN "query" ELSE "memory", job[r])
    BY <1>5 DEF Miss
  <2>. QED
    BY <1>a, <1>e, <1>5, <2>1, <2>2 DEF Miss, Unlock
<1>6. CASE AnswerWithoutDb(r)
  BY <1>a, <1>f, <1>6 DEF AnswerWithoutDb
<1>7. CASE Query(r)
  BY <1>7, QueryKeepsIndInv
<1>8. CASE QueryFails(r)
  <2>1. CASE End(r)
    BY <1>a, <1>f, <1>8, <2>1 DEF QueryFails
  <2>2. ASSUME NEW k \in job[r].left,
               Goto(r, "query", Job(k, "all", job[r].left \ {k}))
        PROVE  IndInv'
    <3>1. job[r].left \subseteq Configured /\ k \in Entries
      BY <1>a, AssumedTypes DEF Jobs, Entries
    <3>. QED
      BY <1>a, <1>c, <1>e, <1>8, <2>2, <3>1 DEF QueryFails
  <2>. QED
    BY <1>8, <2>1, <2>2 DEF QueryFails, Proceed
<1>9. CASE StoreAnswer(r)
  BY <1>9, StoreAnswerKeepsIndInv
<1>10. CASE Disconnect(r)
  BY <1>a, <1>f, <1>10 DEF Disconnect
<1>. QED
  BY <1>1, <1>2, <1>3, <1>4, <1>5, <1>6, <1>7, <1>8, <1>9, <1>10
  DEF Arrive, Serve

\* The process starts again.
LEMMA RestartKeepsIndInv ==
  ASSUME IndInv, Restart
  PROVE  IndInv'
<1>1. TableStep
  BY DEF Restart, TableStep, table, migrating
<1>2. TableInv' /\ TableMonotone /\ TableTypeOK /\ TableTypeOK'
  BY <1>1, TableStepKeeps DEF IndInv, TableInv
<1>3. NoJob \in Jobs /\ NoJob.asked = 0
  BY NewJobIsJob DEF NoJob, Entries
<1>4. RequestsOK' /\ AnswersAreAboveFloor'
  <2>1. /\ pc' = [r \in Requests |-> IF pc[r] = "idle" THEN "idle" ELSE "ended"]
        /\ job' = [r \in Requests |-> NoJob]
    BY DEF Restart
  <2>2. \A r \in Requests : pc'[r] \in {"idle", "ended"}
    BY <2>1
  <2>. QED
    BY <1>3, <2>1, <2>2 DEF RequestsOK, AskedFits, AnswersAreAboveFloor
<1>5. CacheOK' /\ RefreshesStick'
  <2>1. DOMAIN cache' = {} /\ cache' = [e \in DOMAIN cache' |-> cache'[e]]
        /\ lastRefresh' = Never /\ interval' = Default
    BY DEF Restart
  <2>. QED
    BY <2>1, AssumedTypes
    DEF CacheOK, CacheTypeOK, EntriesAreComplete, LastRefreshIsNewest,
        RefreshesStick
<1>6. FloorIsPast'
  <2>1. \A e \in Entries :
          /\ Moment(e) <= Moment(e)'
          /\ Moment(e) \in Nat /\ floor[e] \in Nat /\ floor[e] <= Moment(e)
    BY <1>2, MomentsGrow, MomentIsNat DEF IndInv, TypeOK, FloorIsPast
  <2>2. ASSUME NEW e \in Entries
        PROVE  Moment(e)' \in Nat
    BY <1>2, AssumedTypes DEF TableTypeOK, Moment, Entries
  <2>. QED
    BY <2>1, <2>2 DEF FloorIsPast, Restart
<1>. QED
  BY <1>2, <1>4, <1>5, <1>6
  DEF IndInv, TypeOK, CacheOK, RequestsOK, Restart

LEMMA NextIndInv == IndInv /\ [Next]_vars => IndInv'
<1>. SUFFICES ASSUME IndInv, [Next]_vars PROVE IndInv'
  OBVIOUS
<1>1. ASSUME NEW r \in Requests, Arrive(r) \/ Serve(r) \/ Disconnect(r)
      PROVE  IndInv'
  BY <1>1, RequestKeepsIndInv
<1>2. CASE Others
  <2>1. CASE Migrate /\ UNCHANGED <<dbCache, useDb, request, lock, floor>>
    BY <2>1, TableStepKeepsIndInv DEF TableStep
  <2>2. ASSUME NEW n \in Names, ScanWrites(n),
               UNCHANGED <<dbCache, useDb, request, lock, floor>>
        PROVE  IndInv'
    BY <2>2, TableStepKeepsIndInv DEF TableStep
  <2>3. CASE (Age \/ Configure) /\ UNCHANGED <<table, useDb, request, lock, floor>>
    BY <2>3, CacheStepKeepsIndInv
  <2>. QED
    BY <1>2, <2>1, <2>2, <2>3 DEF Others
<1>3. CASE Restart
  BY <1>3, RestartKeepsIndInv
<1>4. CASE UNCHANGED vars
  BY <1>4, TableStepKeepsIndInv DEF vars, TableStep
<1>. QED
  BY <1>1, <1>2, <1>3, <1>4 DEF Next

\* A step of the server takes the table a step of its own, or none.
LEMMA NextIsTableStep == [Next]_vars => TableStep
<1>. SUFFICES ASSUME [Next]_vars PROVE TableStep
  OBVIOUS
<1>1. ASSUME NEW r \in Requests, Arrive(r) \/ Serve(r) \/ Disconnect(r)
      PROVE  UNCHANGED table
  BY <1>1 DEF Arrive, Serve, Get, Refresh, Lock, AnswerFromCache, Miss,
              AnswerWithoutDb, Query, QueryFails, StoreAnswer, Disconnect
<1>2. CASE Others
  BY <1>2 DEF Others, TableStep
<1>3. CASE Restart
  BY <1>3 DEF Restart, TableStep, table, migrating
<1>4. CASE UNCHANGED vars
  BY <1>4 DEF vars, TableStep
<1>. QED
  BY <1>1, <1>2, <1>3, <1>4 DEF Next, TableStep
-----------------------------------------------------------------------------
\* The invariant of the server holds in every reachable state.
THEOREM IndInvIsInvariant == Spec => []IndInv
<1>. QED
  BY InitIndInv, NextIndInv, PTL DEF Spec

\* Type correctness of the server, its cache and the table.
THEOREM ApiTypeOK == Spec => []TypeOK
<1>1. IndInv => TypeOK
  BY DEF IndInv
<1>. QED
  BY <1>1, IndInvIsInvariant, PTL

\* cache.rs and api.rs:109: no request ever caches a filtered list.
THEOREM CacheHoldsCompleteLists == Spec => []EntriesAreComplete
<1>1. IndInv => EntriesAreComplete
  BY DEF IndInv
<1>. QED
  BY <1>1, IndInvIsInvariant, PTL

\* cache.rs:52-61: last_refresh speaks for the newest entry and for no other.
THEOREM LastRefreshIsOfNewest == Spec => []LastRefreshIsNewest
<1>1. IndInv => LastRefreshIsNewest
  BY DEF IndInv
<1>. QED
  BY <1>1, IndInvIsInvariant, PTL

\* api.rs: only a request that read the table before an answer was stored can
\* replace that answer by an older one.
THEOREM StoredAnswersStick == Spec => []RefreshesStick
<1>1. IndInv => RefreshesStick
  BY DEF IndInv
<1>. QED
  BY <1>1, IndInvIsInvariant, PTL

\* db.rs:441-514: a migration that no scan interrupts is complete.
THEOREM MigrationCompletes == Spec => []QuietMigrationCompletes
<1>1. IndInv => QuietMigrationCompletes
  BY DEF IndInv, TableInv
<1>. QED
  BY <1>1, IndInvIsInvariant, PTL

\* db.rs: the migration never loses a peer, whatever runs beside it and
\* wherever it stops.
THEOREM MigrationLosesNoPeer == Spec => [][RowsAreKept]_table
<1>1. IndInv /\ [Next]_vars => [RowsAreKept]_table
  BY NextIsTableStep, TableStepKeeps DEF IndInv
<1>. QED
  BY <1>1, IndInvIsInvariant, PTL DEF Spec

\* db.rs:441-514: to who reads both names as one, the table is a table that
\* nobody migrates, whatever interrupts or repeats the three statements.
THEOREM RenamedTableImplemented == Spec => ImplementsRenamedTable
<1>1. Init => Atomic!Init
  BY TableInitRefines DEF Init
<1>2. IndInv /\ [Next]_vars => [Atomic!Next]_Renamed
  BY NextIsTableStep, TableStepRefines DEF IndInv
<1>. QED
  BY <1>1, <1>2, IndInvIsInvariant, PTL DEF Spec, ImplementsRenamedTable, Atomic!Spec
-----------------------------------------------------------------------------
\* What RequestsEnd rests on, as far as it is safety.  First: whoever has the
\* lock only has to look at the cache or to store, so who waits for the lock
\* waits for nobody who reads the table or waits for a lock.
HolderOnlyLooks == lock # Free => pc[lock] \in {"check", "store"}

\* api.rs:80-99, 104-111: the guard of DB_CACHE is dropped before every read of
\* the table and at the end of every store.
THEOREM LockIsHeldBriefly == Spec => []HolderOnlyLooks
<1>1. Init => HolderOnlyLooks
  BY DEF Init, HolderOnlyLooks
<1>2. TypeOK /\ HolderOnlyLooks /\ [Next]_vars => HolderOnlyLooks'
  <2>. SUFFICES ASSUME TypeOK, HolderOnlyLooks, [Next]_vars PROVE HolderOnlyLooks'
    OBVIOUS
  <2>. /\ Free \notin Requests /\ lock \in Requests \cup {Free}
       /\ pc \in [Requests -> InFlight \cup {"idle", "ended"}]
    BY AssumedTypes DEF TypeOK
  <2>1. ASSUME NEW r \in Requests, Lock(r) PROVE HolderOnlyLooks'
    BY <2>1 DEF Lock, HolderOnlyLooks, request
  <2>2. ASSUME NEW r \in Requests,
               AnswerFromCache(r) \/ Miss(r) \/ StoreAnswer(r)
        PROVE  HolderOnlyLooks'
    BY <2>2 DEF AnswerFromCache, Miss, StoreAnswer, Unlock, HolderOnlyLooks
  <2>3. ASSUME NEW r \in Requests,
               \/ Arrive(r) \/ AnswerWithoutDb(r) \/ Query(r)
               \/ QueryFails(r) \/ Disconnect(r)
        PROVE  HolderOnlyLooks'
    <3>1. lock # r /\ lock' = lock /\ \A q \in Requests \ {r} : pc'[q] = pc[q]
      BY <2>3
      DEF Arrive, Get, Refresh, AnswerWithoutDb, Query, QueryFails, Disconnect,
          Proceed, End, Goto, HolderOnlyLooks
    <3>. QED
      BY <3>1 DEF HolderOnlyLooks
  <2>4. CASE Others
    BY <2>4 DEF Others, HolderOnlyLooks, request
  <2>5. CASE Restart
    BY <2>5 DEF Restart, HolderOnlyLooks
  <2>6. CASE UNCHANGED vars
    BY <2>6 DEF vars, request, HolderOnlyLooks
  <2>. QED
    BY <2>1, <2>2, <2>3, <2>4, <2>5, <2>6 DEF Next, Serve
<1>. QED
  BY <1>1, <1>2, ApiTypeOK, PTL DEF Spec

\* Second: the steps a request has left.  An entry takes its statements, the lock
\* and the store; a refresh of everything does that for each network.
EntrySteps == Statements + 2
Networks(r) == Cardinality(job[r].left)
Now(r) ==
  CASE pc[r] = "check"  -> EntrySteps + (IF lock = r THEN 1 ELSE 2)
    [] pc[r] = "query"  -> StatementsOf(job[r].key) - job[r].asked + 2
    [] pc[r] = "store"  -> IF lock = r THEN 1 ELSE 2
    [] pc[r] = "memory" -> 1
    [] OTHER -> 0
WorkLeft(r) == Networks(r) * EntrySteps + Now(r)

LEMMA WorkTypes ==
  ASSUME IndInv, NEW r \in Requests, pc[r] \in InFlight
  PROVE  /\ IsFiniteSet(job[r].left) /\ Networks(r) \in Nat
         /\ EntrySteps \in Nat /\ Networks(r) * EntrySteps \in Nat
         /\ Now(r) \in 1 .. (EntrySteps + 2)
         /\ WorkLeft(r) \in Nat
<1>1. job[r] \in Jobs /\ job[r].left \in SUBSET Configured
  BY DEF IndInv, TypeOK, Jobs
<1>2. IsFiniteSet(job[r].left) /\ Networks(r) \in Nat
  BY <1>1, ApiAssumption, FS_Subset, FS_CardinalityType DEF Networks
<1>3. EntrySteps \in Nat /\ EntrySteps >= 3
  BY AssumedTypes DEF EntrySteps
<1>4. Networks(r) * EntrySteps \in Nat
  BY <1>2, <1>3
<1>5. Now(r) \in 1 .. (EntrySteps + 2)
  <2>1. CASE pc[r] = "query"
    <3>1. /\ job[r].asked \in Nat /\ job[r].asked < StatementsOf(job[r].key)
          /\ StatementsOf(job[r].key) \in 1 .. Statements /\ Statements \in Nat
      BY <1>1, <2>1, StatementsInRange, AssumedTypes DEF IndInv, AskedFits, Jobs
    <3>2. Now(r) = StatementsOf(job[r].key) - job[r].asked + 2
      BY <2>1 DEF Now
    <3>. QED
      BY <3>1, <3>2 DEF EntrySteps
  <2>2. CASE pc[r] # "query"
    BY <1>3, <2>2 DEF Now, InFlight
  <2>. QED
    BY <2>1, <2>2
<1>. QED
  BY <1>2, <1>3, <1>4, <1>5 DEF WorkLeft

LEMMA OneNetworkLess ==
  ASSUME NEW n \in Nat, NEW w \in Nat, n >= 1
  PROVE  (n - 1) * w = n * w - w
OBVIOUS

\* A request that has ended has no work left.
LEMMA EndedHasNoWork ==
  ASSUME TypeOK, NEW r \in Requests, End(r)
  PROVE  WorkLeft(r)' = 0
<1>1. pc'[r] = "ended" /\ job'[r].left = {}
  BY DEF TypeOK, End, Goto, NoJob, Job
<1>2. Networks(r)' = 0 /\ Now(r)' = 0
  BY <1>1, FS_EmptySet DEF Networks, Now
<1>3. EntrySteps' = EntrySteps /\ EntrySteps \in Nat
  BY AssumedTypes DEF EntrySteps
<1>. QED
  BY <1>2, <1>3 DEF WorkLeft

\* The next network costs no more than the place it takes up in the list.
LEMMA ProceedShrinks ==
  ASSUME IndInv, NEW r \in Requests, pc[r] \in InFlight, Proceed(r)
  PROVE  WorkLeft(r)' < WorkLeft(r)
<1>. DEFINE n == Networks(r)
<1>1. /\ IsFiniteSet(job[r].left) /\ n \in Nat /\ EntrySteps \in Nat
      /\ n * EntrySteps \in Nat /\ Now(r) \in 1 .. (EntrySteps + 2)
      /\ EntrySteps' = EntrySteps
      /\ WorkLeft(r) = n * EntrySteps + Now(r)
  BY WorkTypes DEF EntrySteps, WorkLeft
<1>. HIDE DEF n
<1>2. CASE End(r)
  BY <1>1, <1>2, EndedHasNoWork DEF IndInv
<1>3. ASSUME NEW k \in job[r].left, Goto(r, "query", Job(k, "all", job[r].left \ {k}))
      PROVE  WorkLeft(r)' < WorkLeft(r)
  <2>1. /\ pc'[r] = "query" /\ job'[r].left = job[r].left \ {k}
        /\ job'[r].asked = 0 /\ job'[r].key = k
    BY <1>3 DEF IndInv, TypeOK, Goto, Job
  <2>2. Networks(r)' = n - 1 /\ n >= 1
    <3>1. IsFiniteSet(job[r].left)
      BY <1>1
    <3>2. Cardinality(job[r].left \ {k}) = Cardinality(job[r].left) - 1
      BY <3>1, FS_RemoveElement
    <3>3. Cardinality(job[r].left \ {k}) \in Nat /\ Cardinality(job[r].left) \in Nat
      BY <3>1, FS_RemoveElement, FS_CardinalityType
    <3>4. n = Cardinality(job[r].left) /\ Networks(r)' = Cardinality(job[r].left \ {k})
      BY <2>1 DEF Networks, n
    <3>. QED
      BY <3>2, <3>3, <3>4
  <2>3. Now(r)' = StatementsOf(k) + 2
    <3>1. StatementsOf(k) \in Nat
      BY StatementsInRange, AssumedTypes
    <3>. QED
      BY <2>1, <3>1 DEF Now, StatementsOf
  <2>4. Now(r)' \in Nat /\ Now(r)' <= EntrySteps
    BY <2>3, StatementsInRange, AssumedTypes DEF EntrySteps
  <2>5. WorkLeft(r)' = n * EntrySteps - EntrySteps + Now(r)'
    BY <1>1, <2>2, OneNetworkLess DEF WorkLeft
  <2>. QED
    BY <1>1, <2>4, <2>5
<1>. QED
  BY <1>2, <1>3 DEF Proceed

\* As long as the list stays, only what is done with the entry counts.
LEMMA SameListShrinks ==
  ASSUME IndInv, NEW r \in Requests, pc[r] \in InFlight,
         job'[r].left = job[r].left, Now(r)' \in Nat, Now(r)' < Now(r)
  PROVE  WorkLeft(r)' < WorkLeft(r)
<1>1. Networks(r)' = Networks(r) /\ EntrySteps' = EntrySteps
  BY DEF Networks, EntrySteps
<1>. QED
  BY <1>1, WorkTypes DEF WorkLeft

LEMMA ServeShrinks ==
  ASSUME IndInv, NEW r \in Requests, Serve(r) \/ Disconnect(r)
  PROVE  WorkLeft(r)' < WorkLeft(r)
<1>1. pc[r] \in InFlight
  BY DEF Serve, Disconnect, Lock, AnswerFromCache, Miss, AnswerWithoutDb, Query,
         QueryFails, StoreAnswer, InFlight
<1>2. /\ pc \in [Requests -> InFlight \cup {"idle", "ended"}]
      /\ job \in [Requests -> Jobs] /\ r # Free
      /\ Statements \in Nat \ {0}
      /\ StatementsOf(job[r].key) \in 1 .. Statements
      /\ TypeOK
  BY AssumedTypes, StatementsInRange DEF IndInv, TypeOK
<1>3. CASE Lock(r)
  <2>1. /\ pc[r] \in {"check", "store"} /\ pc'[r] = pc[r] /\ job' = job
        /\ lock # r /\ lock' = r
    BY <1>2, <1>3 DEF Lock, request
  <2>2. Now(r)' \in Nat /\ Now(r)' < Now(r)
    BY <1>2, <2>1 DEF Now, EntrySteps
  <2>. QED
    BY <1>1, <2>1, <2>2, SameListShrinks
<1>4. CASE Miss(r)
  <2>1. /\ pc[r] = "check" /\ pc'[r] \in {"query", "memory"}
        /\ job'[r] = job[r] /\ job[r].asked = 0
    BY <1>2, <1>4 DEF Miss, Goto, IndInv, AskedFits
  <2>2. Now(r) > EntrySteps /\ Now(r) \in Nat /\ EntrySteps \in Nat
    BY <1>2, <2>1 DEF Now, EntrySteps
  <2>3. Now(r)' \in Nat /\ Now(r)' <= EntrySteps
    BY <1>2, <2>1 DEF Now, EntrySteps, StatementsOf
  <2>. QED
    BY <1>1, <2>1, <2>2, <2>3, SameListShrinks
<1>5. CASE Query(r)
  <2>1. /\ pc[r] = "query" /\ job[r].asked < StatementsOf(job[r].key)
        /\ job[r].asked \in Nat
        /\ job'[r].left = job[r].left /\ job'[r].key = job[r].key
        /\ job'[r].asked = job[r].asked + 1
        /\ pc'[r] = IF job[r].asked + 1 = StatementsOf(job[r].key)
                      THEN "store" ELSE "query"
    BY <1>2, <1>5 DEF Query, Goto, IndInv, AskedFits, Jobs
  <2>2. Now(r) = StatementsOf(job[r].key) - job[r].asked + 2
    BY <2>1 DEF Now
  <2>3. CASE pc'[r] = "store"
    <3>1. Now(r)' \in {1, 2}
      BY <2>3 DEF Now
    <3>. QED
      BY <1>1, <1>2, <2>1, <2>2, <3>1, SameListShrinks
  <2>4. CASE pc'[r] = "query"
    <3>1. Now(r)' = StatementsOf(job[r].key) - (job[r].asked + 1) + 2
      BY <2>1, <2>4 DEF Now, StatementsOf
    <3>. QED
      BY <1>1, <1>2, <2>1, <2>2, <3>1, SameListShrinks
  <2>. QED
    BY <2>1, <2>3, <2>4
<1>6. CASE QueryFails(r) \/ StoreAnswer(r)
  BY <1>1, <1>6, ProceedShrinks DEF QueryFails, StoreAnswer
<1>7. CASE AnswerFromCache(r) \/ AnswerWithoutDb(r) \/ Disconnect(r)
  <2>1. WorkLeft(r)' = 0
    BY <1>2, <1>7, EndedHasNoWork DEF AnswerFromCache, AnswerWithoutDb, Disconnect
  <2>2. WorkLeft(r) \in Nat /\ WorkLeft(r) > 0
    BY <1>1, WorkTypes DEF WorkLeft
  <2>. QED
    BY <2>1, <2>2
<1>. QED
  BY <1>3, <1>4, <1>5, <1>6, <1>7 DEF Serve

\* The other requests leave this one alone.
LEMMA OthersLeaveAlone ==
  ASSUME IndInv, NEW q \in Requests, Arrive(q) \/ Serve(q) \/ Disconnect(q),
         NEW r \in Requests, r # q
  PROVE  UNCHANGED <<pc[r], job[r], lock = r>>
<1>1. pc'[r] = pc[r] /\ job'[r] = job[r]
  BY DEF IndInv, TypeOK, Arrive, Get, Refresh, Serve, Lock, AnswerFromCache, Miss,
         AnswerWithoutDb, Query, QueryFails, StoreAnswer, Disconnect, Proceed, End,
         Goto, request
<1>2. (lock' = r) <=> (lock = r)
  BY AssumedTypes
  DEF Arrive, Get, Refresh, Serve, Lock, AnswerFromCache, Miss, AnswerWithoutDb,
      Query, QueryFails, StoreAnswer, Disconnect, Unlock
<1>. QED
  BY <1>1, <1>2

\* A step that a request takes, or that is taken with it, takes one off; what
\* other requests, scans, the migration and time do adds nothing.
WorkShrinks ==
  \A r \in Requests : pc[r] \in InFlight =>
    /\ WorkLeft(r) \in Nat
    /\ WorkLeft(r)' < WorkLeft(r) \/ UNCHANGED <<pc[r], job[r], lock = r>>

\* Every step does, whoever takes it.
LEMMA NextShrinksWork == IndInv /\ [Next]_vars => [WorkShrinks]_vars
<1>. SUFFICES ASSUME IndInv, Next, NEW r \in Requests, pc[r] \in InFlight
              PROVE  \/ WorkLeft(r)' < WorkLeft(r)
                     \/ UNCHANGED <<pc[r], job[r], lock = r>>
  BY WorkTypes DEF WorkShrinks
<1>1. ASSUME NEW q \in Requests, Arrive(q) \/ Serve(q) \/ Disconnect(q)
      PROVE  \/ WorkLeft(r)' < WorkLeft(r)
             \/ UNCHANGED <<pc[r], job[r], lock = r>>
  <2>1. CASE q # r
    BY <1>1, <2>1, OthersLeaveAlone
  <2>2. CASE q = r
    <3>1. ~Arrive(r)
      BY DEF Arrive, Get, Refresh, InFlight
    <3>. QED
      BY <1>1, <2>2, <3>1, ServeShrinks
  <2>. QED
    BY <2>1, <2>2
<1>2. CASE Others
  BY <1>2 DEF Others, request
<1>3. CASE Restart
  <2>1. pc'[r] = "ended" /\ job'[r].left = {}
    BY <1>3 DEF Restart, NoJob, Job, InFlight
  <2>2. WorkLeft(r)' = 0
    <3>1. Networks(r)' = 0 /\ Now(r)' = 0
      BY <2>1, FS_EmptySet DEF Networks, Now
    <3>2. EntrySteps' \in Nat
      BY AssumedTypes DEF EntrySteps
    <3>. QED
      BY <3>1, <3>2 DEF WorkLeft
  <2>3. WorkLeft(r) \in Nat /\ WorkLeft(r) > 0
    BY WorkTypes DEF WorkLeft
  <2>. QED
    BY <2>2, <2>3
<1>. QED
  BY <1>1, <1>2, <1>3 DEF Next

\* api.rs: a request in flight has a number of steps left that every step of its
\* own makes smaller and no other step makes larger, whatever the interleaving.
THEOREM RequestsAreBounded == Spec => [][WorkShrinks]_vars
BY NextShrinksWork, IndInvIsInvariant, PTL DEF Spec
==============================================================================
