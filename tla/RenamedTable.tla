----------------------------- MODULE RenamedTable -----------------------------
(***************************************************************************)
(* What the table of peers promises to a reader who knows of the renaming  *)
(* and counts the rows of the old name as rows of the new one: peers are   *)
(* added to a network, a peer may go only if its address is one that the   *)
(* purge is about, and nothing else ever happens.  The migration, its      *)
(* failures and its repetitions cannot be seen at all.  PeerTable is shown *)
(* to implement this specification.                                        *)
(***************************************************************************)
CONSTANTS Networks,   \* the names in use after the renaming
          Ips,        \* the addresses of peers
          Removable   \* those that may go away

VARIABLE peers        \* the peers of each network

Init == peers \in [Networks -> SUBSET Ips]

Add(n, ips) == peers' = [peers EXCEPT ![n] = @ \cup ips]

Remove(gone) == peers' = [n \in Networks |-> peers[n] \ gone[n]]

Next ==
  \/ \E n \in Networks, ips \in SUBSET Ips : Add(n, ips)
  \/ \E gone \in [Networks -> SUBSET Removable] : Remove(gone)

Spec == Init /\ [][Next]_peers
==============================================================================
