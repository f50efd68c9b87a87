------------------------------ MODULE WorkerPool ------------------------------
(***************************************************************************)
(* What the calls that scan one network promise of their workers: a call   *)
(* opens a pool, the pool never has more than Limit of them, only an open  *)
(* one takes on more, and a closed one can but run empty, at its own pace. *)
(* Calls that are Serial never have two pools open.  ChainScan is shown to *)
(* implement this specification.                                           *)
(***************************************************************************)
EXTENDS Naturals

CONSTANTS Calls,   \* the calls that are made
          Serial,  \* those that one task makes, one after the other
          First,   \* the workers a call starts with
          Limit    \* the workers a pool can have

VARIABLES pool,    \* "unused", "open" or "closed", by call
          workers  \* the workers that have not ended, by call

vars == <<pool, workers>>

Init ==
  /\ pool = [c \in Calls |-> "unused"]
  /\ workers = [c \in Calls |-> 0]

Open(c) ==
  /\ pool[c] = "unused"
  /\ c \in Serial => \A d \in Serial : pool[d] # "open"
  /\ pool' = [pool EXCEPT ![c] = "open"]
  /\ workers' = [workers EXCEPT ![c] = First]

TakeOn(c, n) ==
  /\ pool[c] = "open"
  /\ workers[c] + n <= Limit
  /\ workers' = [workers EXCEPT ![c] = @ + n]
  /\ UNCHANGED pool

WorkerEnds(c) ==
  /\ workers[c] > 0
  /\ workers' = [workers EXCEPT ![c] = @ - 1]
  /\ UNCHANGED pool

Close(c) ==
  /\ pool[c] = "open"
  /\ pool' = [pool EXCEPT ![c] = "closed"]
  /\ UNCHANGED workers

Next ==
  \E c \in Calls :
    \/ Open(c) \/ WorkerEnds(c) \/ Close(c)
    \/ \E n \in 1 .. Limit : TakeOn(c, n)

Spec == Init /\ [][Next]_vars
==============================================================================
