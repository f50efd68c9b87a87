-------------------------------- MODULE Crawl --------------------------------
(***************************************************************************)
(* What a crawl of one network promises, whatever its batches, limits and  *)
(* concurrency: it only learns IPs, it contacts an address that was        *)
(* advertised for an IP it knows, it contacts no address twice, and after  *)
(* it has stopped it does nothing.  PeerTraversal is shown to implement    *)
(* this specification.                                                     *)
(***************************************************************************)
CONSTANTS Ips,         \* the IP addresses peers can have
          Urls,        \* the addresses a peer can be asked at
          Advertised   \* the pairs <<ip, url>> a peer list can contain

VARIABLES known,       \* the IPs the crawl has learned
          contacted,   \* the addresses it has asked
          open         \* the crawl has not returned

vars == <<known, contacted, open>>

Init ==
  /\ known \in (SUBSET Ips) \ {{}}
  /\ contacted = {}
  /\ open = TRUE

Contact(u) ==
  /\ open
  /\ u \notin contacted
  /\ \E ip \in known : <<ip, u>> \in Advertised
  /\ contacted' = contacted \cup {u}
  /\ UNCHANGED <<known, open>>

\* New IPs come out of answers only, so somebody has been asked before.
Learn(ips) ==
  /\ open
  /\ contacted # {}
  /\ known' = known \cup ips
  /\ UNCHANGED <<contacted, open>>

Stop ==
  /\ open
  /\ open' = FALSE
  /\ UNCHANGED <<known, contacted>>

Next ==
  \/ \E u \in Urls : Contact(u)
  \/ \E ips \in SUBSET Ips : Learn(ips)
  \/ Stop

Spec == Init /\ [][Next]_vars /\ WF_vars(Next)
==============================================================================
