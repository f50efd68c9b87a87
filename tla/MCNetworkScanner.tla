-------------------------- MODULE MCNetworkScanner --------------------------
(***************************************************************************)
(* Two concurrent scans of a network with two IPs, one or both of which    *)
(* come with an rpc_address; a single IP for the liveness run.             *)
(***************************************************************************)
EXTENDS NetworkScanner, TLC

CONSTANTS s1, s2, i1, i2

MCScans == {s1, s2}
TwoIps == {i1, i2}
OneIp == {i1}
ScanSymmetry == Permutations(MCScans)
==============================================================================
