----------------------------- MODULE MCChainScan -----------------------------
(***************************************************************************)
(* ChainScan on a small instance for one network: a call of the discovery  *)
(* service or one of trigger_network_scan, and both if MaxCalls allows it. *)
(***************************************************************************)
EXTENDS ChainScan, TLC

CONSTANTS service, trigger, primary, fallback, other, none

Triggers == {trigger}
BothCalls == {service, trigger}
TwoEndpoints == {primary, fallback}
WithOther == {primary, fallback, other}
==============================================================================
