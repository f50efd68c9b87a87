-------------------------- MODULE MCDiscoveryService --------------------------
(***************************************************************************)
(* Three networks, one of them without RPC URLs, and peer counts on both   *)
(* sides of the 5 percent threshold and at MAX_PEERS_PER_CHAIN.            *)
(***************************************************************************)
EXTENDS DiscoveryService, TLC

CONSTANTS a, b, unknown

MCNames == <<a, unknown, b>>
MCConfigured == {a, b}
MCTotals == {100, 104, 105, 200}
==============================================================================
