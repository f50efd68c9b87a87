-------------------------- MODULE MCMemoryDiscovery --------------------------
(***************************************************************************)
(* Three networks: an ordinary one, one whose primary URL is skipped and   *)
(* one that is not configured; all of them or any single one is scanned.   *)
(***************************************************************************)
EXTENDS MemoryDiscovery, TLC

CONSTANTS a, b, c

MCNetworks == {a, b, c}
MCConfigured == {a, b}
MCProblematic == {b}
==============================================================================
