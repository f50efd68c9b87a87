-------------------------------- MODULE MCApi --------------------------------
(***************************************************************************)
(* Two requests, the two names that the migration is about, the spelling   *)
(* under which clients ask for the new one, and two peers, one with an     *)
(* address that the patterns of the purge match.                           *)
(***************************************************************************)
EXTENDS Api, TLC

CONSTANTS r1, r2, hub, omni, omniflix, p, q

MCRequests == {r1, r2}
MCNames == {hub, omni}
MCKeys == {omniflix}
MCColumn == omniflix :> omni
MCIps == {p, q}
MCMatched == {q}
MCIntervals == {0, 7}
==============================================================================
