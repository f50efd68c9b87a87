--------------------------- MODULE MCPeerTraversal ---------------------------
(***************************************************************************)
(* Small networks for PeerTraversal.  Five PeerInfo values on four IPs:    *)
(* two reports of IP i1 with different addresses, one of which is also     *)
(* the address of i2 (two reports can resolve to one URL), a peer without  *)
(* and a peer with a refused rpc_address.                                  *)
(***************************************************************************)
EXTENDS PeerTraversal, TLC

CONSTANTS p1, q1, p2, p3, p4, i1, i2, i3, i4, u1, u2

MCPeers == {p1, q1, p2, p3, p4}
MCIps == {i1, i2, i3, i4}
MCUrls == {u1, u2}
MCIpOf == (p1 :> i1) @@ (q1 :> i1) @@ (p2 :> i2) @@ (p3 :> i3) @@ (p4 :> i4)
MCRpcOf == (p1 :> u1) @@ (q1 :> u2) @@ (p2 :> u2) @@ (p3 :> NoRpc) @@ (p4 :> BadRpc)
==============================================================================
