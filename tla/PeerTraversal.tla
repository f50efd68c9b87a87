---------------------------- MODULE PeerTraversal ----------------------------
(***************************************************************************)
(* follow_rpc_addresses (discovery/peer_traversal.rs): the recursive crawl *)
(* that starts from the peers one endpoint reported.  The crawl goes in    *)
(* rounds.  A round takes up to MaxPeersPerDepth peers off the queue and   *)
(* runs one task for each, at most MaxConcurrent at a time; a task asks    *)
(* the peer's /status, records the verdict, and asks its /net_info.  Only  *)
(* when every task of the round has ended are the reported peers merged    *)
(* into the result and the queue.                                          *)
(*                                                                         *)
(* A member of Peers is one PeerInfo as a peer list may contain it; two    *)
(* members can have the same IP (PeerInfo's Eq and Hash look at the IP     *)
(* only) and the same or different addresses.                              *)
(***************************************************************************)
EXTENDS Naturals, FiniteSets

CONSTANTS
  Peers,             \* the PeerInfo values that can be reported
  Ips,               \* their IP addresses, all public: the parser drops others
  Urls,              \* the addresses resolve_rpc_url can return
  IpOf,              \* the IP of a peer
  RpcOf,             \* what its rpc_address resolves to, or one of the next two
  NoRpc,             \* the peer has no rpc_address
  BadRpc,            \* the peer has one that resolve_rpc_url refuses
  Absent,            \* no entry for this IP in the result map
  MaxDepth,          \* --max-depth: rounds allowed, 0 for no limit
  MaxPeers,          \* --max-peers: 0 for no limit
  MaxPeersPerDepth,  \* batch size (50 in the code)
  DefaultAttempts,   \* attempts allowed when MaxPeers = 0 (500 in the code)
  MaxConcurrent      \* --max-concurrent-requests

ASSUME PeersAssumption ==
  /\ IsFiniteSet(Peers) /\ IsFiniteSet(Ips) /\ IsFiniteSet(Urls)
  /\ IpOf \in [Peers -> Ips]
  /\ RpcOf \in [Peers -> Urls \cup {NoRpc, BadRpc}]
  /\ NoRpc \notin Urls /\ BadRpc \notin Urls
  /\ Absent \notin Peers

\* A crawl with no concurrency never polls a task: the program needs one.
ASSUME LimitsAssumption ==
  /\ MaxDepth \in Nat /\ MaxPeers \in Nat
  /\ MaxPeersPerDepth \in Nat \ {0}
  /\ DefaultAttempts \in Nat \ {0}
  /\ MaxConcurrent \in Nat \ {0}

VARIABLES
  pc,         \* "head" of the while loop, in a "round", or "done"
  allPeers,   \* all_peers: the entry kept for each IP
  isLive,     \* the is_live field of that entry
  seen,       \* seen_ips
  queue,      \* queue; a set, since it is shuffled between rounds
  visited,    \* the shared set of visited URLs
  task,       \* where each peer's task is
  reported,   \* results: the peers reported in this round, not yet merged
  depth,      \* current_depth
  attempted,  \* attempted_queries
  requests    \* history: how often each URL has been asked for /status

vars == <<pc, allPeers, isLive, seen, queue, visited, task, reported, depth,
          attempted, requests>>

TaskStates == {"idle", "waiting", "status", "fetch", "finished"}

TypeOK ==
  /\ pc \in {"head", "round", "done"}
  /\ allPeers \in [Ips -> Peers \cup {Absent}]
  /\ isLive \in [Ips -> {"untested", "live", "dead"}]
  /\ seen \subseteq Ips
  /\ queue \subseteq Peers
  /\ visited \subseteq Urls
  /\ task \in [Peers -> TaskStates]
  /\ reported \subseteq Peers
  /\ depth \in Nat
  /\ attempted \in Nat
  /\ requests \in [Urls -> Nat]

-----------------------------------------------------------------------------
Smaller(a, b) == IF a <= b THEN a ELSE b

KnownIps == {ip \in Ips : allPeers[ip] # Absent}

\* resolve_rpc_url returns an address for this peer.
Usable(p) == RpcOf[p] \in Urls

InState(s) == {p \in Peers : task[p] = s}

\* Mutant: the place of a task that has ended is not given back.
RunningLeaked == Peers \ (InState("idle") \cup InState("waiting"))

Running == InState("status") \cup InState("fetch")

MaxQueryAttempts == IF MaxPeers > 0 THEN MaxPeers ELSE DefaultAttempts

\* One representative of each IP of S.
OnePerIp(S) == {T \in SUBSET S :
                  /\ \A p, q \in T : IpOf[p] = IpOf[q] => p = q
                  /\ \A p \in S : \E q \in T : IpOf[q] = IpOf[p]}

PeerWithIp(S, ip) == CHOOSE p \in S : IpOf[p] = ip

IpsOf(S) == {IpOf[p] : p \in S}

-----------------------------------------------------------------------------
\* The caller passes a nonempty peer list and marks the address it came from
\* as visited; that address need not be one a peer advertises.
Init ==
  /\ pc = "head"
  /\ \E initial \in (SUBSET Peers) \ {{}}, start \in {{}} \cup {{u} : u \in Urls} :
       /\ \E kept \in OnePerIp(initial) :
            allPeers = [ip \in Ips |-> IF ip \in IpsOf(kept)
                                         THEN PeerWithIp(kept, ip) ELSE Absent]
       /\ seen = IpsOf(initial)
       /\ queue = initial
       /\ visited = start
  /\ isLive = [ip \in Ips |-> "untested"]
  /\ task = [p \in Peers |-> "idle"]
  /\ reported = {}
  /\ depth = 0
  /\ attempted = 0
  /\ requests = [u \in Urls |-> 0]

\* Mutant: the attempts are not limited.
MayStartAnyRound ==
  /\ queue # {}
  /\ MaxDepth = 0 \/ depth < MaxDepth
  /\ MaxPeers = 0 \/ Cardinality(KnownIps) < MaxPeers

\* The loop condition and the two limit checks, made between rounds only.
MayStartRound ==
  /\ queue # {}
  /\ MaxDepth = 0 \/ depth < MaxDepth
  /\ MaxPeers = 0 \/ Cardinality(KnownIps) < MaxPeers
  /\ attempted < MaxQueryAttempts

\* Mutant: the whole queue is dropped with the batch.
NoRest(batch) == {}

\* What queue.drain leaves.
Rest(batch) == queue \ batch

BeginRound ==
  /\ pc = "head"
  /\ MayStartRound
  /\ \E batch \in SUBSET queue :
       /\ Cardinality(batch) = Smaller(MaxPeersPerDepth, Cardinality(queue))
       /\ queue' = Rest(batch)
       /\ attempted' = attempted + Cardinality(batch)
       /\ task' = [p \in Peers |-> IF p \in batch THEN "waiting" ELSE task[p]]
  /\ depth' = depth + 1
  /\ pc' = "round"
  /\ UNCHANGED <<allPeers, isLive, seen, visited, reported, requests>>

Finish ==
  /\ pc = "head"
  /\ ~MayStartRound
  /\ pc' = "done"
  /\ UNCHANGED <<allPeers, isLive, seen, queue, visited, task, reported, depth,
                 attempted, requests>>

\* Mutants: the visited set, or the verdict of resolve_rpc_url, is ignored.
MayAskAgain(p) == Usable(p)
MayAskAnything(p) == RpcOf[p] \notin visited

MayAsk(p) == Usable(p) /\ RpcOf[p] \notin visited

\* buffer_unordered polls a further task: it resolves the address, and checks
\* and marks it as visited under one lock.
StartTask(p) ==
  /\ task[p] = "waiting"
  /\ Cardinality(Running) < MaxConcurrent
  /\ IF MayAsk(p)
       THEN /\ visited' = visited \cup {RpcOf[p]}
            /\ requests' = [requests EXCEPT ![RpcOf[p]] = @ + 1]
            /\ task' = [task EXCEPT ![p] = "status"]
       ELSE /\ task' = [task EXCEPT ![p] = "finished"]
            /\ UNCHANGED <<visited, requests>>
  /\ UNCHANGED <<pc, allPeers, isLive, seen, queue, reported, depth, attempted>>

\* Mutant: a failed query leaves no verdict.
RecordSuccess(p, verdict) ==
  isLive' = IF IpOf[p] \in KnownIps /\ verdict = "live"
              THEN [isLive EXCEPT ![IpOf[p]] = verdict] ELSE isLive

\* get_mut: the verdict goes to the entry of the peer's IP, if there is one.
RecordVerdict(p, verdict) ==
  isLive' = IF IpOf[p] \in KnownIps THEN [isLive EXCEPT ![IpOf[p]] = verdict]
                                    ELSE isLive

\* /status: a 2xx answer, another HTTP answer, or an error or timeout.  Only
\* the last one ends the task.
StatusReply(p) ==
  /\ task[p] = "status"
  /\ \E outcome \in {"ok", "refused", "unreachable"} :
       /\ RecordVerdict(p, IF outcome = "ok" THEN "live" ELSE "dead")
       /\ task' = [task EXCEPT ![p] = IF outcome = "unreachable"
                                        THEN "finished" ELSE "fetch"]
  /\ UNCHANGED <<pc, allPeers, seen, queue, visited, reported, depth,
                 attempted, requests>>

\* /net_info: a peer list, empty for every error and for the timeout.
FetchReply(p) ==
  /\ task[p] = "fetch"
  /\ \E list \in SUBSET Peers : reported' = reported \cup list
  /\ task' = [task EXCEPT ![p] = "finished"]
  /\ UNCHANGED <<pc, allPeers, isLive, seen, queue, visited, depth, attempted,
                 requests>>

\* Mutant: reports of known IPs are merged again.
AllReported == reported

Unseen == {p \in reported : IpOf[p] \notin seen}

\* Mutant: only peers that will be asked are marked as seen.
MarkQueued(fresh) == seen \cup IpsOf({p \in fresh : RpcOf[p] # NoRpc})

Mark(fresh) == seen \cup IpsOf(fresh)

\* Mutant: the result is only what the last round found.
Replace(fresh) ==
  /\ allPeers' = [ip \in Ips |-> IF ip \in IpsOf(fresh)
                                    THEN PeerWithIp(fresh, ip) ELSE Absent]
  /\ isLive' = [ip \in Ips |-> "untested"]

\* HashMap::insert for each peer of fresh.
Insert(fresh) ==
  /\ allPeers' = [ip \in Ips |-> IF ip \in IpsOf(fresh)
                                    THEN PeerWithIp(fresh, ip) ELSE allPeers[ip]]
  /\ isLive' = [ip \in Ips |-> IF ip \in IpsOf(fresh)
                                  THEN "untested" ELSE isLive[ip]]

\* The loop over the collected results: of several reports of an unseen IP
\* the first in the order the tasks ended is kept, the others are dropped.
Merge ==
  /\ pc = "round"
  /\ \A p \in Peers : task[p] \in {"idle", "finished"}
  /\ \E fresh \in OnePerIp(Unseen) :
       /\ seen' = Mark(fresh)
       /\ Insert(fresh)
       /\ queue' = queue \cup {p \in fresh : RpcOf[p] # NoRpc}
  /\ reported' = {}
  /\ pc' = "head"
  /\ UNCHANGED <<visited, task, depth, attempted, requests>>

Next ==
  \/ BeginRound
  \/ Finish
  \/ Merge
  \/ \E p \in Peers : StartTask(p) \/ StatusReply(p) \/ FetchReply(p)

\* Every await of a task has a timeout, so the crawl as a whole makes progress.
Spec == Init /\ [][Next]_vars /\ WF_vars(Next)
-----------------------------------------------------------------------------
\* seen_ips and all_peers are two records of the same fact; the merge trusts
\* the first and the verdict of a task is looked up in the second.
SeenIsKnown == seen = KnownIps

\* The check and the mark of a URL are one step under the lock, so no two
\* tasks of a crawl, in the same round or in different ones, ask one URL.
ContactedOnce == \A u \in Urls : requests[u] <= 1

\* No address of the result is forgotten: its URL has been visited, or its
\* peer still waits for its turn.  Hence a crawl that ends with an empty
\* queue has visited the URL of every peer it returns.
NoneStranded ==
  \A ip \in KnownIps :
    LET p == allPeers[ip]
    IN  Usable(p) => \/ RpcOf[p] \in visited
                     \/ p \in queue
                     \/ task[p] = "waiting"

Contacted == {u \in Urls : requests[u] > 0}

\* The limits are tested between rounds, so a round may overrun the attempts
\* allowed, by less than one batch.  A round is charged before its tasks run, and
\* covers every request that is sent or may still be: a crawl asks fewer than
\* MaxQueryAttempts + MaxPeersPerDepth addresses.
AttemptsBounded ==
  /\ attempted < MaxQueryAttempts + MaxPeersPerDepth
  /\ Cardinality(Contacted) + Cardinality(InState("waiting")) <= attempted

\* Between rounds every URL that was asked has left a verdict on some peer
\* that advertises it: the entry was still there when the answer came.  And
\* nobody has a verdict unless an address of its IP has been asked.
VerdictsMatchContacts ==
  /\ pc # "round" =>
       \A u \in Contacted :
         \E p \in Peers : RpcOf[p] = u /\ isLive[IpOf[p]] # "untested"
  /\ \A ip \in Ips : isLive[ip] # "untested" =>
       \E p \in Peers : IpOf[p] = ip /\ RpcOf[p] \in Contacted

KeepsEntries ==
  \A ip \in KnownIps : /\ allPeers'[ip] = allPeers[ip]
                       /\ isLive[ip] # "untested" => isLive'[ip] # "untested"

\* The entry of an IP is never replaced by a later report of the same IP, and
\* a verdict is never taken back.
EntriesAreStable == [][KeepsEntries]_vars

\* What the limits leave of the crawl, whatever the peers report: the attempts
\* not yet made, what the tasks of the round still have to do, and the loop.
AttemptsLeft == MaxQueryAttempts + MaxPeersPerDepth - 1 - attempted
Count(s) == Cardinality(InState(s))
LoopSteps == CASE pc = "head" -> 1 [] pc = "round" -> 2 [] pc = "done" -> 0
StepsLeft ==
  5 * AttemptsLeft + 3 * Count("waiting") + 2 * Count("status") + Count("fetch")
    + LoopSteps

\* Every step of the crawl is one of a number that the limits determine, so no
\* peer, by what it reports or how often it is reported, keeps a crawl going.
StepsAreCounted == [](StepsLeft \in Nat) /\ [][StepsLeft' < StepsLeft]_vars

\* The crawl returns.
Termination == <>(pc = "done")

-----------------------------------------------------------------------------
\* The crawl as the abstract specification sees it.
Abstract == INSTANCE Crawl WITH
  Advertised <- {<<IpOf[p], RpcOf[p]>> : p \in {q \in Peers : Usable(q)}},
  known <- KnownIps,
  contacted <- Contacted,
  open <- (pc # "done")

\* follow_rpc_addresses keeps the promises of Crawl: what it may do and that
\* it returns.
ImplementsCrawl == Abstract!Spec

\* The part of them that is safety.
ImplementsCrawlSteps == Abstract!Init /\ [][Abstract!Next]_(Abstract!vars)

-----------------------------------------------------------------------------
\* cli.rs:28 documents --max-peers as the "Maximum number of peers to discover
\* per network": a crawl returns no more than that.
MaxPeersIsMaximum ==
  MaxPeers > 0 /\ pc = "done" => Cardinality(KnownIps) <= MaxPeers
=============================================================================
