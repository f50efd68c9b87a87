------------------------- MODULE PeerTraversalProofs -------------------------
(***************************************************************************)
(* The safety of the crawl for every set of peers, addresses and limits.   *)
(* IndInv strengthens the checked invariants: what a verdict, a request    *)
(* and the end of a task are tied to in the middle of a round.             *)
(***************************************************************************)
EXTENDS PeerTraversal, FiniteSetTheorems, TLAPS

\* A URL that was asked is in the visited set, which is what stops a second
\* task from asking it.
RequestedIsVisited == \A u \in Urls : requests[u] > 0 => u \in visited

\* Whoever is queued or has been processed has an entry in the result.
InvolvedIsKnown ==
  \A p \in Peers : p \in queue \/ task[p] # "idle" => IpOf[p] \in KnownIps

\* Only known IPs have verdicts.
VerdictIsKnown == \A ip \in Ips : isLive[ip] # "untested" => ip \in KnownIps

\* A URL that was asked is being asked or has left its verdict.
RequestIsAnswered ==
  \A u \in Urls : requests[u] > 0 =>
    \E p \in Peers : /\ RpcOf[p] = u
                     /\ \/ task[p] = "status"
                        \/ isLive[IpOf[p]] # "untested"

\* Every verdict comes from a request.
VerdictNeedsRequest ==
  \A ip \in Ips : isLive[ip] # "untested" =>
    \E p \in Peers : IpOf[p] = ip /\ RpcOf[p] \in Contacted

\* Tasks run in rounds only, and only a usable address gets past the start.
TasksInRounds ==
  \A p \in Peers :
    /\ pc # "round" => task[p] \in {"idle", "finished"}
    /\ task[p] \in {"status", "fetch"} => Usable(p) /\ requests[RpcOf[p]] > 0

\* Peers are reported by somebody who was asked.
AskedBeforeReport == reported # {} => \E u \in Urls : requests[u] > 0

IndInv ==
  /\ TypeOK
  /\ SeenIsKnown
  /\ ContactedOnce
  /\ RequestedIsVisited
  /\ NoneStranded
  /\ AttemptsBounded
  /\ InvolvedIsKnown
  /\ VerdictIsKnown
  /\ RequestIsAnswered
  /\ VerdictNeedsRequest
  /\ TasksInRounds
  /\ AskedBeforeReport
-----------------------------------------------------------------------------
\* The entry chosen for an IP is one of the representatives and has that IP.
LEMMA PeerWithIpChoice ==
  ASSUME NEW T, NEW ip, ip \in IpsOf(T)
  PROVE  PeerWithIp(T, ip) \in T /\ IpOf[PeerWithIp(T, ip)] = ip
BY DEF PeerWithIp, IpsOf

\* Choosing one representative for each IP of S loses no IP of S.
LEMMA OnePerIpCovers ==
  ASSUME NEW S, NEW T \in OnePerIp(S)
  PROVE  T \subseteq S /\ IpsOf(T) = IpsOf(S)
BY DEF OnePerIp, IpsOf

\* A batch has between one and MaxPeersPerDepth members.
LEMMA BatchSize ==
  ASSUME queue \subseteq Peers, queue # {}, NEW batch \in SUBSET queue,
         Cardinality(batch) = Smaller(MaxPeersPerDepth, Cardinality(queue))
  PROVE  Cardinality(batch) \in 1 .. MaxPeersPerDepth
<1>1. IsFiniteSet(queue)
  BY FS_Subset, PeersAssumption
<1>2. Cardinality(queue) \in Nat \ {0}
  BY <1>1, FS_CardinalityType, FS_EmptySet
<1>. QED
  BY <1>2, LimitsAssumption DEF Smaller

\* At least one attempt is allowed.
LEMMA AttemptLimit == MaxQueryAttempts \in Nat \ {0}
BY LimitsAssumption DEF MaxQueryAttempts

\* The counter of attempts holds while the tasks that wait and the URLs asked
\* stay the same.
LEMMA CountKept ==
  ASSUME AttemptsBounded, UNCHANGED <<attempted, requests>>,
         \A p \in Peers : task'[p] = "waiting" <=> task[p] = "waiting"
  PROVE  AttemptsBounded'
<1>1. InState("waiting")' = InState("waiting") /\ Contacted' = Contacted
  BY DEF InState, Contacted
<1>. QED
  BY <1>1 DEF AttemptsBounded, MaxQueryAttempts

\* Verdicts stay grounded while none is made and no request is forgotten.
LEMMA GroundsKept ==
  ASSUME VerdictNeedsRequest, requests' = requests,
         \A ip \in Ips : isLive'[ip] # "untested" => isLive[ip] # "untested"
  PROVE  VerdictNeedsRequest'
BY DEF VerdictNeedsRequest, Contacted

\* The initial state is one of the inductive invariant.
LEMMA InitIndInv == Init => IndInv
<1>. SUFFICES ASSUME Init PROVE IndInv
  OBVIOUS
<1>a. PICK initial \in (SUBSET Peers) \ {{}} :
         /\ \E kept \in OnePerIp(initial) :
              allPeers = [ip \in Ips |-> IF ip \in IpsOf(kept)
                                           THEN PeerWithIp(kept, ip) ELSE Absent]
         /\ seen = IpsOf(initial)
         /\ queue = initial
         /\ visited \in {{}} \cup {{u} : u \in Urls}
  BY DEF Init
<1>1. PICK kept \in OnePerIp(initial) :
         allPeers = [ip \in Ips |-> IF ip \in IpsOf(kept)
                                      THEN PeerWithIp(kept, ip) ELSE Absent]
  BY <1>a
<1>2. kept \subseteq initial /\ IpsOf(kept) = IpsOf(initial)
  BY OnePerIpCovers
<1>3. \A ip \in IpsOf(kept) : PeerWithIp(kept, ip) \in initial
  BY <1>2, PeerWithIpChoice
<1>4. IpsOf(initial) \subseteq Ips
  BY PeersAssumption DEF IpsOf
<1>5. TypeOK
  BY <1>a, <1>1, <1>3, <1>4, PeersAssumption DEF Init, TypeOK, TaskStates
<1>6. KnownIps = IpsOf(initial)
  BY <1>1, <1>2, <1>3, <1>4, PeersAssumption DEF KnownIps
<1>7. SeenIsKnown /\ ContactedOnce /\ RequestedIsVisited /\ VerdictIsKnown
        /\ RequestIsAnswered /\ TasksInRounds /\ AskedBeforeReport
        /\ VerdictNeedsRequest
  BY <1>a, <1>1, <1>6 DEF Init, SeenIsKnown, ContactedOnce, RequestedIsVisited,
                    VerdictIsKnown, RequestIsAnswered, TasksInRounds,
                    AskedBeforeReport, VerdictNeedsRequest
<1>8. NoneStranded
  <2>1. \A ip \in KnownIps : allPeers[ip] \in queue
    BY <1>a, <1>1, <1>2, <1>3, <1>4, <1>6
  <2>. QED
    BY <2>1 DEF NoneStranded
<1>9. InvolvedIsKnown
  BY <1>a, <1>1, <1>6 DEF Init, InvolvedIsKnown, IpsOf
<1>10. AttemptsBounded
  <2>1. Contacted = {} /\ InState("waiting") = {}
    BY DEF Init, Contacted, InState
  <2>. QED
    BY <2>1, FS_EmptySet, AttemptLimit, LimitsAssumption DEF Init, AttemptsBounded
<1>. QED
  BY <1>5, <1>6, <1>7, <1>8, <1>9, <1>10 DEF IndInv
-----------------------------------------------------------------------------
\* Each action preserves the inductive invariant: the start of a round,
LEMMA BeginRoundIndInv ==
  ASSUME IndInv, BeginRound
  PROVE  IndInv'
<1>1. PICK batch \in SUBSET queue :
        /\ Cardinality(batch) = Smaller(MaxPeersPerDepth, Cardinality(queue))
        /\ queue' = queue \ batch
        /\ attempted' = attempted + Cardinality(batch)
        /\ task' = [p \in Peers |-> IF p \in batch THEN "waiting" ELSE task[p]]
  BY DEF BeginRound, Rest
<1>. USE DEF IndInv
<1>2. Cardinality(batch) \in 1 .. MaxPeersPerDepth
  BY <1>1, BatchSize DEF BeginRound, Rest, MayStartRound, TypeOK
<1>3. KnownIps' = KnownIps
  BY DEF BeginRound, Rest, KnownIps
<1>4. TypeOK'
  BY <1>1, <1>2, LimitsAssumption DEF BeginRound, Rest, TypeOK, TaskStates
<1>5. SeenIsKnown' /\ ContactedOnce' /\ RequestedIsVisited' /\ VerdictIsKnown'
  BY <1>3 DEF BeginRound, Rest, SeenIsKnown, ContactedOnce, RequestedIsVisited,
              VerdictIsKnown
<1>6. NoneStranded'
  BY <1>1, <1>3 DEF BeginRound, Rest, NoneStranded, TypeOK, KnownIps, Usable
<1>7. AttemptsBounded'
  <2>1. InState("waiting") = {} /\ InState("waiting")' = batch
    BY <1>1 DEF BeginRound, InState, TypeOK, TasksInRounds
  <2>2. Contacted' = Contacted
    BY DEF BeginRound, Contacted
  <2>3. Cardinality(Contacted) \in Nat /\ Cardinality({}) = 0
    BY FS_Subset, FS_CardinalityType, FS_EmptySet, PeersAssumption DEF Contacted
  <2>4. Cardinality(Contacted) <= attempted
    BY <2>1, <2>3 DEF AttemptsBounded
  <2>5. Cardinality(Contacted)' + Cardinality(InState("waiting"))' <= attempted'
    BY <1>1, <1>2, <2>1, <2>2, <2>3, <2>4 DEF TypeOK
  <2>6. attempted' < (MaxQueryAttempts + MaxPeersPerDepth)'
    BY <1>1, <1>2, AttemptLimit, LimitsAssumption
    DEF BeginRound, MayStartRound, TypeOK, MaxQueryAttempts
  <2>. QED
    BY <2>5, <2>6 DEF AttemptsBounded
<1>8. InvolvedIsKnown'
  BY <1>1, <1>3 DEF BeginRound, Rest, InvolvedIsKnown, TypeOK
<1>9. RequestIsAnswered'
  BY <1>1 DEF BeginRound, Rest, RequestIsAnswered, TypeOK, TasksInRounds
<1>10. TasksInRounds'
  BY <1>1 DEF BeginRound, Rest, TasksInRounds, TypeOK, Usable
<1>11. AskedBeforeReport'
  BY DEF BeginRound, Rest, AskedBeforeReport
<1>12. VerdictNeedsRequest'
  BY GroundsKept DEF BeginRound
<1>. QED
  BY <1>4, <1>5, <1>6, <1>7, <1>8, <1>9, <1>10, <1>11, <1>12

\* the end of the crawl,
LEMMA FinishIndInv ==
  ASSUME IndInv, Finish
  PROVE  IndInv'
<1>. USE DEF IndInv, Finish
<1>1. KnownIps' = KnownIps
  BY DEF KnownIps
<1>2. TypeOK'
  BY DEF TypeOK
<1>3. SeenIsKnown' /\ ContactedOnce' /\ RequestedIsVisited' /\ AttemptsBounded'
  BY <1>1, CountKept DEF SeenIsKnown, ContactedOnce, RequestedIsVisited
<1>4. NoneStranded' /\ InvolvedIsKnown' /\ VerdictIsKnown'
  BY <1>1 DEF NoneStranded, InvolvedIsKnown, VerdictIsKnown
<1>5. /\ RequestIsAnswered' /\ TasksInRounds' /\ AskedBeforeReport'
      /\ VerdictNeedsRequest'
  BY GroundsKept DEF RequestIsAnswered, TasksInRounds, AskedBeforeReport
<1>. QED
  BY <1>2, <1>3, <1>4, <1>5

\* the start of a task, which tests and marks its URL in one step,
LEMMA StartTaskIndInv ==
  ASSUME IndInv, NEW p \in Peers, StartTask(p)
  PROVE  IndInv'
<1>. USE DEF IndInv
<1>1. KnownIps' = KnownIps /\ allPeers' = allPeers
  BY DEF StartTask, MayAsk, KnownIps
<1>2. pc = "round"
  BY DEF StartTask, MayAsk, TasksInRounds
<1>3. TypeOK'
  BY PeersAssumption DEF StartTask, MayAsk, TypeOK, TaskStates, Usable
<1>4. SeenIsKnown' /\ VerdictIsKnown'
  BY <1>1 DEF StartTask, MayAsk, SeenIsKnown, VerdictIsKnown
<1>8. /\ IsFiniteSet(InState("waiting")) /\ p \in InState("waiting")
      /\ Cardinality(InState("waiting")) \in Nat
      /\ Cardinality(InState("waiting") \ {p}) = Cardinality(InState("waiting")) - 1
  <2>1. IsFiniteSet(InState("waiting")) /\ p \in InState("waiting")
    BY FS_Subset, PeersAssumption DEF InState, StartTask
  <2>. QED
    BY <2>1, FS_RemoveElement, FS_CardinalityType
<1>9. /\ IsFiniteSet(Contacted) /\ Cardinality(Contacted) \in Nat
      /\ attempted' = attempted /\ attempted \in Nat
  BY FS_Subset, FS_CardinalityType, PeersAssumption DEF Contacted, StartTask, TypeOK
<1>10. ASSUME NEW l \in {"status", "finished"}, task' = [task EXCEPT ![p] = l]
       PROVE  InState("waiting")' = InState("waiting") \ {p}
  BY <1>10 DEF InState, TypeOK
<1>5. InvolvedIsKnown'
  BY <1>1 DEF StartTask, MayAsk, InvolvedIsKnown, TypeOK
<1>6. CASE Usable(p) /\ RpcOf[p] \notin visited
  <2>1. /\ visited' = visited \cup {RpcOf[p]}
        /\ requests' = [requests EXCEPT ![RpcOf[p]] = @ + 1]
        /\ task' = [task EXCEPT ![p] = "status"]
    BY <1>6 DEF StartTask, MayAsk
  <2>2. requests[RpcOf[p]] = 0 /\ RpcOf[p] \in Urls
    BY <1>6 DEF RequestedIsVisited, Usable, TypeOK
  <2>3. ContactedOnce' /\ RequestedIsVisited'
    BY <2>1, <2>2 DEF ContactedOnce, RequestedIsVisited, TypeOK
  <2>4. NoneStranded'
    BY <1>1, <2>1 DEF StartTask, MayAsk, NoneStranded, Usable, TypeOK, KnownIps
  <2>5. RequestIsAnswered'
    <3>. SUFFICES ASSUME NEW u \in Urls, requests'[u] > 0
                  PROVE  \E q \in Peers : /\ RpcOf[q] = u
                                          /\ \/ task'[q] = "status"
                                             \/ isLive'[IpOf[q]] # "untested"
      BY DEF RequestIsAnswered
    <3>1. CASE u = RpcOf[p]
      BY <2>1, <3>1 DEF TypeOK
    <3>2. CASE u # RpcOf[p]
      BY <2>1, <2>2, <3>2 DEF StartTask, MayAsk, RequestIsAnswered, TypeOK
    <3>. QED
      BY <3>1, <3>2
  <2>6. TasksInRounds'
    BY <1>2, <1>6, <2>1, <2>2 DEF StartTask, MayAsk, TasksInRounds, TypeOK, Usable
  <2>7. AskedBeforeReport'
    BY <2>1, <2>2 DEF StartTask, MayAsk, AskedBeforeReport, TypeOK
  <2>8. RpcOf[p] \notin Contacted /\ Contacted' = Contacted \cup {RpcOf[p]}
    BY <2>1, <2>2 DEF Contacted, TypeOK
  <2>9. AttemptsBounded'
    <3>1. Cardinality(Contacted)' = Cardinality(Contacted) + 1
      BY <1>9, <2>8, FS_AddElement
    <3>2. Cardinality(InState("waiting"))' = Cardinality(InState("waiting")) - 1
      BY <1>8, <1>10, <2>1
    <3>. QED
      BY <1>8, <1>9, <3>1, <3>2 DEF AttemptsBounded, MaxQueryAttempts
  <2>10. VerdictNeedsRequest'
    BY <2>8 DEF StartTask, VerdictNeedsRequest
  <2>. QED
    BY <1>3, <1>4, <1>5, <2>3, <2>4, <2>5, <2>6, <2>7, <2>9, <2>10
<1>7. CASE ~(Usable(p) /\ RpcOf[p] \notin visited)
  <2>1. /\ visited' = visited /\ requests' = requests
        /\ task' = [task EXCEPT ![p] = "finished"]
    BY <1>7 DEF StartTask, MayAsk
  <2>2. ContactedOnce' /\ RequestedIsVisited'
    BY <2>1 DEF ContactedOnce, RequestedIsVisited
  <2>3. NoneStranded'
    BY <1>1, <1>7, <2>1 DEF StartTask, MayAsk, NoneStranded, Usable, TypeOK, KnownIps
  <2>4. RequestIsAnswered'
    BY <2>1 DEF StartTask, MayAsk, RequestIsAnswered, TypeOK
  <2>5. TasksInRounds'
    BY <1>2, <2>1 DEF StartTask, MayAsk, TasksInRounds, TypeOK, Usable
  <2>6. AskedBeforeReport'
    BY <2>1 DEF StartTask, MayAsk, AskedBeforeReport
  <2>7. AttemptsBounded'
    <3>1. Contacted' = Contacted
      BY <2>1 DEF Contacted
    <3>2. Cardinality(InState("waiting"))' = Cardinality(InState("waiting")) - 1
      BY <1>8, <1>10, <2>1
    <3>. QED
      BY <1>8, <1>9, <3>1, <3>2 DEF AttemptsBounded, MaxQueryAttempts
  <2>8. VerdictNeedsRequest'
    BY <2>1, GroundsKept DEF StartTask
  <2>. QED
    BY <1>3, <1>4, <1>5, <2>2, <2>3, <2>4, <2>5, <2>6, <2>7, <2>8
<1>. QED
  BY <1>6, <1>7

\* the answer to /status, which records a verdict,
LEMMA StatusReplyIndInv ==
  ASSUME IndInv, NEW p \in Peers, StatusReply(p)
  PROVE  IndInv'
<1>. USE DEF IndInv
<1>1. PICK outcome \in {"ok", "refused", "unreachable"} :
        /\ RecordVerdict(p, IF outcome = "ok" THEN "live" ELSE "dead")
        /\ task' = [task EXCEPT ![p] = IF outcome = "unreachable"
                                         THEN "finished" ELSE "fetch"]
  BY DEF StatusReply
<1>2. /\ KnownIps' = KnownIps /\ allPeers' = allPeers
      /\ pc' = pc /\ requests' = requests /\ visited' = visited
  BY DEF StatusReply, KnownIps
<1>3. /\ pc = "round" /\ Usable(p) /\ IpOf[p] \in KnownIps
      /\ RpcOf[p] \in Urls
  BY DEF StatusReply, TasksInRounds, InvolvedIsKnown, Usable
<1>4. PICK verdict \in {"live", "dead"} : isLive' = [isLive EXCEPT ![IpOf[p]] = verdict]
  BY <1>1, <1>3 DEF RecordVerdict
<1>5. TypeOK'
  BY <1>1, <1>2, <1>4 DEF StatusReply, TypeOK, TaskStates
<1>6. SeenIsKnown' /\ ContactedOnce' /\ RequestedIsVisited' /\ AttemptsBounded'
  <2>1. \A q \in Peers : task'[q] = "waiting" <=> task[q] = "waiting"
    BY <1>1 DEF StatusReply, TypeOK
  <2>. QED
    BY <1>2, <2>1, CountKept
    DEF StatusReply, SeenIsKnown, ContactedOnce, RequestedIsVisited
<1>7. NoneStranded'
  BY <1>1, <1>2 DEF StatusReply, NoneStranded, TypeOK, KnownIps, Usable
<1>8. InvolvedIsKnown'
  BY <1>1, <1>2 DEF StatusReply, InvolvedIsKnown, TypeOK
<1>9. VerdictIsKnown'
  BY <1>2, <1>3, <1>4 DEF VerdictIsKnown, TypeOK
<1>10. RequestIsAnswered'
  <2>. SUFFICES ASSUME NEW u \in Urls, requests[u] > 0
                PROVE  \E q \in Peers : /\ RpcOf[q] = u
                                        /\ \/ task'[q] = "status"
                                           \/ isLive'[IpOf[q]] # "untested"
    BY <1>2 DEF RequestIsAnswered
  <2>1. PICK q \in Peers : /\ RpcOf[q] = u
                           /\ task[q] = "status" \/ isLive[IpOf[q]] # "untested"
    BY DEF RequestIsAnswered
  <2>2. IpOf[p] \in Ips /\ IpOf[q] \in Ips
    BY PeersAssumption
  <2>. QED
    BY <1>1, <1>4, <2>1, <2>2 DEF TypeOK
<1>11. TasksInRounds'
  <2>1. requests[RpcOf[p]] > 0
    BY DEF StatusReply, TasksInRounds
  <2>. QED
    BY <1>1, <1>2, <1>3, <2>1 DEF TasksInRounds, TypeOK, Usable
<1>12. AskedBeforeReport'
  BY <1>2 DEF StatusReply, AskedBeforeReport
<1>13. VerdictNeedsRequest'
  <2>1. Contacted' = Contacted /\ RpcOf[p] \in Contacted
    BY <1>2, <1>3 DEF StatusReply, Contacted, TasksInRounds
  <2>. QED
    BY <1>4, <2>1 DEF VerdictNeedsRequest, TypeOK
<1>. QED
  BY <1>5, <1>6, <1>7, <1>8, <1>9, <1>10, <1>11, <1>12, <1>13

\* the answer to /net_info,
LEMMA FetchReplyIndInv ==
  ASSUME IndInv, NEW p \in Peers, FetchReply(p)
  PROVE  IndInv'
<1>. USE DEF IndInv
<1>1. /\ KnownIps' = KnownIps /\ allPeers' = allPeers /\ isLive' = isLive
      /\ pc' = pc /\ requests' = requests /\ visited' = visited
      /\ task' = [task EXCEPT ![p] = "finished"]
  BY DEF FetchReply, KnownIps
<1>2. pc = "round"
  BY DEF FetchReply, TasksInRounds
<1>3. TypeOK'
  BY <1>1 DEF FetchReply, TypeOK, TaskStates
<1>4. /\ SeenIsKnown' /\ ContactedOnce' /\ RequestedIsVisited'
      /\ AttemptsBounded' /\ VerdictIsKnown' /\ VerdictNeedsRequest'
  <2>1. \A q \in Peers : task'[q] = "waiting" <=> task[q] = "waiting"
    BY <1>1 DEF FetchReply, TypeOK
  <2>. QED
    BY <1>1, <2>1, CountKept, GroundsKept
    DEF FetchReply, SeenIsKnown, ContactedOnce, RequestedIsVisited, VerdictIsKnown
<1>5. NoneStranded'
  BY <1>1 DEF FetchReply, NoneStranded, TypeOK, KnownIps, Usable
<1>6. InvolvedIsKnown'
  BY <1>1 DEF FetchReply, InvolvedIsKnown, TypeOK
<1>7. RequestIsAnswered'
  BY <1>1 DEF FetchReply, RequestIsAnswered, TypeOK
<1>8. TasksInRounds'
  BY <1>1, <1>2 DEF TasksInRounds, TypeOK, Usable
<1>9. AskedBeforeReport'
  BY <1>1 DEF FetchReply, AskedBeforeReport, TasksInRounds, Usable
<1>. QED
  BY <1>3, <1>4, <1>5, <1>6, <1>7, <1>8, <1>9

\* the merge of a round's reports,
LEMMA MergeIndInv ==
  ASSUME IndInv, Merge
  PROVE  IndInv'
<1>. USE DEF IndInv
<1>1. PICK fresh \in OnePerIp({p \in reported : IpOf[p] \notin seen}) :
       /\ seen' = seen \cup IpsOf(fresh)
       /\ allPeers' = [ip \in Ips |-> IF ip \in IpsOf(fresh)
                                        THEN PeerWithIp(fresh, ip) ELSE allPeers[ip]]
       /\ isLive' = [ip \in Ips |-> IF ip \in IpsOf(fresh)
                                      THEN "untested" ELSE isLive[ip]]
       /\ queue' = queue \cup {p \in fresh : RpcOf[p] # NoRpc}
  BY DEF Merge, Unseen, Mark, Insert
<1>2. /\ pc' = "head" /\ reported' = {} /\ visited' = visited /\ task' = task
      /\ depth' = depth /\ attempted' = attempted /\ requests' = requests
      /\ \A p \in Peers : task[p] \in {"idle", "finished"}
  BY DEF Merge, Unseen, Mark, Insert
<1>3. fresh \subseteq Peers /\ \A p \in fresh : IpOf[p] \notin seen
  BY OnePerIpCovers DEF TypeOK
<1>4. IpsOf(fresh) \subseteq Ips /\ \A ip \in IpsOf(fresh) : ip \notin KnownIps
  BY <1>3, PeersAssumption DEF IpsOf, SeenIsKnown
<1>5. \A ip \in IpsOf(fresh) : PeerWithIp(fresh, ip) \in fresh
  BY PeerWithIpChoice
<1>6. KnownIps' = KnownIps \cup IpsOf(fresh)
  BY <1>1, <1>3, <1>4, <1>5, PeersAssumption DEF KnownIps, TypeOK
<1>7. TypeOK'
  BY <1>1, <1>2, <1>3, <1>4, <1>5 DEF TypeOK
<1>8. /\ SeenIsKnown' /\ ContactedOnce' /\ RequestedIsVisited' /\ AttemptsBounded'
      /\ VerdictNeedsRequest'
  <2>1. AttemptsBounded'
    BY <1>2, CountKept
  <2>2. VerdictNeedsRequest'
    BY <1>1, <1>2, GroundsKept
  <2>. QED
    BY <1>1, <1>2, <1>6, <2>1, <2>2
    DEF SeenIsKnown, ContactedOnce, RequestedIsVisited
<1>9. NoneStranded'
  <2>. SUFFICES ASSUME NEW ip \in KnownIps', Usable(allPeers'[ip])
                PROVE  \/ RpcOf[allPeers'[ip]] \in visited
                       \/ allPeers'[ip] \in queue'
    BY <1>2 DEF NoneStranded, Usable
  <2>1. CASE ip \in IpsOf(fresh)
    BY <1>1, <1>4, <1>5, <2>1, PeersAssumption DEF Usable
  <2>2. CASE ip \notin IpsOf(fresh)
    <3>1. ip \in KnownIps /\ ip \in Ips /\ allPeers'[ip] = allPeers[ip]
      BY <1>1, <1>6, <2>2 DEF KnownIps
    <3>2. allPeers[ip] \in Peers
      BY <3>1 DEF KnownIps, TypeOK
    <3>. QED
      BY <1>1, <1>2, <3>1, <3>2 DEF NoneStranded
  <2>. QED
    BY <2>1, <2>2
<1>10. InvolvedIsKnown'
  BY <1>1, <1>2, <1>3, <1>6 DEF InvolvedIsKnown, IpsOf
<1>11. VerdictIsKnown'
  BY <1>1, <1>6 DEF VerdictIsKnown
<1>12. RequestIsAnswered'
  <2>. SUFFICES ASSUME NEW u \in Urls, requests[u] > 0
                PROVE  \E q \in Peers : RpcOf[q] = u /\ isLive'[IpOf[q]] # "untested"
    BY <1>2 DEF RequestIsAnswered
  <2>1. PICK q \in Peers : RpcOf[q] = u /\ isLive[IpOf[q]] # "untested"
    BY <1>2 DEF RequestIsAnswered
  <2>2. IpOf[q] \in Ips /\ IpOf[q] \notin IpsOf(fresh)
    BY <1>4, <2>1, PeersAssumption DEF VerdictIsKnown
  <2>. QED
    BY <1>1, <2>1, <2>2
<1>13. TasksInRounds' /\ AskedBeforeReport'
  BY <1>2 DEF TasksInRounds, AskedBeforeReport
<1>. QED
  BY <1>7, <1>8, <1>9, <1>10, <1>11, <1>12, <1>13

\* and a stuttering step.
LEMMA StutterIndInv ==
  ASSUME IndInv, UNCHANGED vars
  PROVE  IndInv'
BY DEF vars, IndInv, TypeOK, SeenIsKnown, ContactedOnce, RequestedIsVisited,
       NoneStranded, AttemptsBounded, InvolvedIsKnown, VerdictIsKnown,
       RequestIsAnswered, TasksInRounds, AskedBeforeReport, KnownIps,
       VerdictNeedsRequest, Contacted, InState, MaxQueryAttempts
-----------------------------------------------------------------------------
\* The invariant that the other safety theorems are read off.
THEOREM Invariance == Spec => []IndInv
<1>1. Init => IndInv
  BY InitIndInv
<1>2. IndInv /\ [Next]_vars => IndInv'
  BY BeginRoundIndInv, FinishIndInv, MergeIndInv, StartTaskIndInv,
     StatusReplyIndInv, FetchReplyIndInv, StutterIndInv DEF Next
<1>. QED
  BY <1>1, <1>2, PTL DEF Spec

\* Every variable keeps its type.
THEOREM TypeCorrect == Spec => []TypeOK
BY Invariance, PTL DEF IndInv

\* seen_ips and the keys of all_peers never come apart.
THEOREM SeenMatchesResult == Spec => []SeenIsKnown
BY Invariance, PTL DEF IndInv

\* However many tasks run at once, no URL is asked twice in a crawl.
THEOREM NoUrlAskedTwice == Spec => []ContactedOnce
BY Invariance, PTL DEF IndInv

\* Whatever the limits, the batch size and the duplicates in peer lists, no
\* usable address of a known peer is dropped without having been visited.
THEOREM NoAddressLost == Spec => []NoneStranded
BY Invariance, PTL DEF IndInv

\* The attempts overrun their limit by less than a batch, and cover every
\* address that is asked.
THEOREM AttemptLimitHolds == Spec => []AttemptsBounded
BY Invariance, PTL DEF IndInv

\* Between rounds every URL that was asked has left a verdict, and every verdict
\* is of an IP one of whose addresses was asked: the scan that takes over the
\* result (NetworkScanner) finds none on a peer without an rpc_address.
THEOREM VerdictsAreKept == Spec => []VerdictsMatchContacts
<1>1. IndInv => VerdictsMatchContacts
  BY DEF IndInv, VerdictsMatchContacts, RequestIsAnswered, TasksInRounds,
         VerdictNeedsRequest, Contacted
<1>. QED
  BY <1>1, Invariance, PTL

\* A later report of a known IP changes neither its entry nor, back to
\* untested, its verdict.
THEOREM EntriesKept == Spec => EntriesAreStable
<1>1. IndInv /\ [Next]_vars => [KeepsEntries]_vars
  <2>. SUFFICES ASSUME IndInv, Next PROVE KeepsEntries
    OBVIOUS
  <2>. USE DEF KeepsEntries, KnownIps
  <2>1. CASE BeginRound \/ Finish
    BY <2>1 DEF BeginRound, Rest, Finish
  <2>2. ASSUME NEW p \in Peers, StartTask(p) \/ FetchReply(p) PROVE KeepsEntries
    BY <2>2 DEF StartTask, MayAsk, FetchReply
  <2>3. ASSUME NEW p \in Peers, StatusReply(p) PROVE KeepsEntries
    <3>1. IpOf[p] \in Ips
      BY PeersAssumption
    <3>. QED
      BY <2>3, <3>1 DEF StatusReply, RecordVerdict, IndInv, TypeOK
  <2>4. CASE Merge
    <3>1. PICK fresh \in OnePerIp({p \in reported : IpOf[p] \notin seen}) :
           /\ allPeers' = [ip \in Ips |-> IF ip \in IpsOf(fresh)
                                  THEN PeerWithIp(fresh, ip) ELSE allPeers[ip]]
           /\ isLive' = [ip \in Ips |-> IF ip \in IpsOf(fresh)
                                  THEN "untested" ELSE isLive[ip]]
      BY <2>4 DEF Merge, Unseen, Mark, Insert
    <3>2. \A ip \in IpsOf(fresh) : ip \notin KnownIps
      BY OnePerIpCovers DEF IpsOf, IndInv, SeenIsKnown
    <3>. QED
      BY <3>1, <3>2
  <2>. QED
    BY <2>1, <2>2, <2>3, <2>4 DEF Next
<1>. QED
  BY <1>1, Invariance, PTL DEF Spec, EntriesAreStable

-----------------------------------------------------------------------------
\* The tasks of a round can be counted.
LEMMA TasksAreFinite ==
  \A s \in TaskStates : IsFiniteSet(InState(s)) /\ Count(s) \in Nat
<1>1. \A s \in TaskStates : IsFiniteSet(InState(s))
  BY FS_Subset, PeersAssumption DEF InState
<1>. QED
  BY <1>1, FS_CardinalityType DEF Count

\* The attempts are bounded, so a number of steps is left.
LEMMA StepsAreNat ==
  ASSUME IndInv
  PROVE  AttemptsLeft \in Nat /\ LoopSteps \in 0 .. 2 /\ StepsLeft \in Nat
<1>1. AttemptsLeft \in Nat
  BY AttemptLimit, LimitsAssumption DEF IndInv, TypeOK, AttemptsBounded, AttemptsLeft
<1>2. LoopSteps \in 0 .. 2
  BY DEF LoopSteps, IndInv, TypeOK
<1>. QED
  BY <1>1, <1>2, TasksAreFinite DEF StepsLeft, TaskStates

\* One task moves: only the counts of where it was and where it is now change.
LEMMA TaskMoves ==
  ASSUME TypeOK, NEW p \in Peers,
         NEW from \in TaskStates, NEW to \in TaskStates, from # to,
         task[p] = from, task' = [task EXCEPT ![p] = to]
  PROVE  /\ Count(from)' = Count(from) - 1
         /\ Count(to)' = Count(to) + 1
         /\ \A s \in TaskStates \ {from, to} : Count(s)' = Count(s)
<1>1. /\ InState(from)' = InState(from) \ {p}
      /\ InState(to)' = InState(to) \cup {p}
      /\ \A s \in TaskStates \ {from, to} : InState(s)' = InState(s)
  BY DEF InState, TypeOK
<1>2. /\ IsFiniteSet(InState(from)) /\ IsFiniteSet(InState(to))
      /\ p \in InState(from) /\ p \notin InState(to)
  BY TasksAreFinite DEF InState
<1>3. Cardinality(InState(from) \ {p}) = Cardinality(InState(from)) - 1
  BY <1>2, FS_RemoveElement
<1>4. Cardinality(InState(to) \cup {p}) = Cardinality(InState(to)) + 1
  BY <1>2, FS_AddElement
<1>. QED
  BY <1>1, <1>3, <1>4 DEF Count

\* While tasks move, attempts and loop stay where they are.
LEMMA TaskStepsDecrease ==
  ASSUME IndInv, NEW p \in Peers,
         StartTask(p) \/ StatusReply(p) \/ FetchReply(p)
  PROVE  StepsLeft' < StepsLeft
<1>. TypeOK
  BY DEF IndInv
<1>1. AttemptsLeft' = AttemptsLeft /\ LoopSteps' = LoopSteps
  BY DEF StartTask, StatusReply, FetchReply, AttemptsLeft, LoopSteps, MaxQueryAttempts
<1>2. /\ AttemptsLeft \in Nat /\ LoopSteps \in 0 .. 2
      /\ Count("waiting") \in Nat /\ Count("status") \in Nat /\ Count("fetch") \in Nat
  BY StepsAreNat, TasksAreFinite DEF TaskStates
<1>3. CASE StartTask(p)
  <2>1. PICK to \in {"status", "finished"} :
          task[p] = "waiting" /\ task' = [task EXCEPT ![p] = to]
    BY <1>3 DEF StartTask
  <2>2. /\ Count("waiting")' = Count("waiting") - 1 /\ Count("fetch")' = Count("fetch")
        /\ Count("status")' \in {Count("status"), Count("status") + 1}
    BY <2>1, TaskMoves DEF TaskStates
  <2>. QED
    BY <1>1, <1>2, <2>2 DEF StepsLeft
<1>4. CASE StatusReply(p)
  <2>1. PICK to \in {"fetch", "finished"} :
          task[p] = "status" /\ task' = [task EXCEPT ![p] = to]
    BY <1>4 DEF StatusReply
  <2>2. /\ Count("status")' = Count("status") - 1 /\ Count("waiting")' = Count("waiting")
        /\ Count("fetch")' \in {Count("fetch"), Count("fetch") + 1}
    BY <2>1, TaskMoves DEF TaskStates
  <2>. QED
    BY <1>1, <1>2, <2>2 DEF StepsLeft
<1>5. CASE FetchReply(p)
  <2>1. task[p] = "fetch" /\ task' = [task EXCEPT ![p] = "finished"]
    BY <1>5 DEF FetchReply
  <2>2. /\ Count("fetch")' = Count("fetch") - 1
        /\ Count("waiting")' = Count("waiting") /\ Count("status")' = Count("status")
    BY <2>1, TaskMoves DEF TaskStates
  <2>. QED
    BY <1>1, <1>2, <2>2 DEF StepsLeft
<1>. QED
  BY <1>3, <1>4, <1>5

\* A round takes off five steps for each attempt it spends, and gives its tasks
\* three each.
LEMMA BeginRoundDecreases ==
  ASSUME IndInv, BeginRound
  PROVE  StepsLeft' < StepsLeft
<1>1. PICK batch \in SUBSET queue :
        /\ Cardinality(batch) = Smaller(MaxPeersPerDepth, Cardinality(queue))
        /\ attempted' = attempted + Cardinality(batch)
        /\ task' = [p \in Peers |-> IF p \in batch THEN "waiting" ELSE task[p]]
  BY DEF BeginRound
<1>2. Cardinality(batch) \in Nat \ {0}
  BY <1>1, BatchSize, LimitsAssumption DEF BeginRound, MayStartRound, IndInv, TypeOK
<1>3. \A p \in Peers : task[p] \in {"idle", "finished"}
  BY DEF BeginRound, IndInv, TasksInRounds
<1>4. /\ InState("waiting") = {} /\ InState("status") = {} /\ InState("fetch") = {}
      /\ InState("waiting")' = batch
      /\ InState("status")' = {} /\ InState("fetch")' = {}
  BY <1>1, <1>3 DEF InState, IndInv, TypeOK
<1>5. /\ Count("waiting") = 0 /\ Count("status") = 0 /\ Count("fetch") = 0
      /\ Count("waiting")' = Cardinality(batch) /\ Count("status")' = 0 /\ Count("fetch")' = 0
  BY <1>4, FS_EmptySet DEF Count
<1>6. /\ attempted \in Nat /\ AttemptsLeft \in Nat
      /\ AttemptsLeft' = AttemptsLeft - Cardinality(batch)
      /\ LoopSteps = 1 /\ LoopSteps' = 2
  <2>1. attempted \in Nat /\ AttemptsLeft \in Nat
    BY StepsAreNat DEF IndInv, TypeOK
  <2>2. MaxQueryAttempts \in Nat /\ MaxQueryAttempts' = MaxQueryAttempts
        /\ MaxPeersPerDepth \in Nat
    BY AttemptLimit, LimitsAssumption DEF MaxQueryAttempts
  <2>3. LoopSteps = 1 /\ LoopSteps' = 2
    BY DEF BeginRound, LoopSteps
  <2>. QED
    BY <1>1, <1>2, <2>1, <2>2, <2>3 DEF AttemptsLeft
<1>. QED
  BY <1>2, <1>5, <1>6 DEF StepsLeft

\* The merge and the end are the loop's own steps.
LEMMA LoopStepsDecrease ==
  ASSUME IndInv, Merge \/ Finish
  PROVE  StepsLeft' < StepsLeft
<1>1. LoopSteps \in 0 .. 2 /\ LoopSteps' \in 0 .. 2 /\ LoopSteps' < LoopSteps
  BY DEF Merge, Finish, LoopSteps
<1>2. /\ AttemptsLeft' = AttemptsLeft
      /\ Count("waiting")' = Count("waiting") /\ Count("status")' = Count("status") /\ Count("fetch")' = Count("fetch")
  BY DEF Merge, Finish, AttemptsLeft, MaxQueryAttempts, Count,
         InState
<1>3. /\ AttemptsLeft \in Nat
      /\ Count("waiting") \in Nat /\ Count("status") \in Nat /\ Count("fetch") \in Nat
  BY StepsAreNat, TasksAreFinite DEF TaskStates
<1>. QED
  BY <1>1, <1>2, <1>3 DEF StepsLeft

\* Whatever the peers report, the limits determine the steps a crawl can take:
\* the safety half of Termination, for which the provers have no fairness.
THEOREM CrawlIsBounded == Spec => StepsAreCounted
<1>1. IndInv => StepsLeft \in Nat
  BY StepsAreNat
<1>2. IndInv /\ [Next]_vars => [StepsLeft' < StepsLeft]_vars
  BY TaskStepsDecrease, BeginRoundDecreases, LoopStepsDecrease DEF Next
<1>. QED
  BY <1>1, <1>2, Invariance, PTL DEF Spec, StepsAreCounted

-----------------------------------------------------------------------------
\* The crawl starts in an initial state of Crawl.
LEMMA InitMapsToAbstract == Init => Abstract!Init
<1>. SUFFICES ASSUME Init PROVE Abstract!Init
  OBVIOUS
<1>1. PICK initial \in (SUBSET Peers) \ {{}} : seen = IpsOf(initial)
  BY DEF Init
<1>2. KnownIps = IpsOf(initial)
  BY <1>1, InitIndInv DEF IndInv, SeenIsKnown
<1>3. KnownIps # {}
  BY <1>1, <1>2 DEF IpsOf
<1>. QED
  BY <1>3 DEF Init, Abstract!Init, KnownIps, Contacted

\* A step of the crawl is a step of Crawl or changes nothing Crawl can see.
LEMMA StepMapsToAbstract ==
  ASSUME IndInv, [Next]_vars
  PROVE  [Abstract!Next]_(Abstract!vars)
<1>. USE DEF IndInv, Contacted
<1>1. CASE BeginRound
  BY <1>1 DEF BeginRound, Rest, Abstract!vars, KnownIps
<1>2. CASE Finish
  BY <1>2 DEF Finish, Abstract!Next, Abstract!Stop, KnownIps
<1>3. ASSUME NEW p \in Peers, StartTask(p) PROVE [Abstract!Next]_(Abstract!vars)
  <2>1. pc # "done" /\ pc' = pc /\ KnownIps' = KnownIps /\ IpOf[p] \in KnownIps
    BY <1>3 DEF StartTask, MayAsk, KnownIps, TasksInRounds, InvolvedIsKnown
  <2>2. CASE Usable(p) /\ RpcOf[p] \notin visited
    <3>1. /\ RpcOf[p] \in Urls /\ requests[RpcOf[p]] = 0
          /\ requests' = [requests EXCEPT ![RpcOf[p]] = 1]
      BY <1>3, <2>2 DEF StartTask, MayAsk, RequestedIsVisited, Usable, TypeOK
    <3>2. Abstract!Contact(RpcOf[p])
      BY <2>1, <2>2, <3>1 DEF Abstract!Contact, TypeOK
    <3>. QED
      BY <3>1, <3>2 DEF Abstract!Next
  <2>3. CASE ~(Usable(p) /\ RpcOf[p] \notin visited)
    BY <1>3, <2>1, <2>3 DEF StartTask, MayAsk, Abstract!vars
  <2>. QED
    BY <2>2, <2>3
<1>4. ASSUME NEW p \in Peers, StatusReply(p) \/ FetchReply(p)
      PROVE  [Abstract!Next]_(Abstract!vars)
  BY <1>4 DEF StatusReply, FetchReply, Abstract!vars, KnownIps
<1>5. CASE Merge
  <2>1. PICK fresh \in OnePerIp({p \in reported : IpOf[p] \notin seen}) :
          seen' = seen \cup IpsOf(fresh)
    BY <1>5 DEF Merge, Unseen, Mark, Insert
  <2>2. KnownIps' = KnownIps \cup IpsOf(fresh)
    BY <1>5, <2>1, MergeIndInv DEF SeenIsKnown
  <2>3. IpsOf(fresh) \in SUBSET Ips
    BY OnePerIpCovers, PeersAssumption DEF TypeOK, IpsOf
  <2>4. CASE fresh = {}
    BY <1>5, <2>2, <2>4 DEF Merge, Unseen, Mark, Insert, Abstract!vars, IpsOf
  <2>5. CASE fresh # {}
    <3>1. PICK u \in Urls : requests[u] > 0
      BY <2>5, OnePerIpCovers DEF AskedBeforeReport
    <3>2. Abstract!Learn(IpsOf(fresh))
      BY <1>5, <2>2, <3>1 DEF Merge, Unseen, Mark, Insert, Abstract!Learn
    <3>. QED
      BY <2>3, <3>2 DEF Abstract!Next
  <2>. QED
    BY <2>4, <2>5
<1>6. CASE UNCHANGED vars
  BY <1>6 DEF vars, Abstract!vars, KnownIps
<1>. QED
  BY <1>1, <1>2, <1>3, <1>4, <1>5, <1>6 DEF Next

\* The crawl implements the safety part of Crawl.
THEOREM CrawlImplemented == Spec => ImplementsCrawlSteps
BY InitMapsToAbstract, StepMapsToAbstract, Invariance, PTL
   DEF Spec, ImplementsCrawlSteps
==============================================================================
