------------------------------ MODULE PeerStore ------------------------------
(***************************************************************************)
(* What the two stores of a network promise to whoever looks at them       *)
(* between two scans, although every scan writes them call by call: a scan *)
(* publishes its whole result at once, one scan at a time.  A writer that  *)
(* fails leaves a copy nobody can say anything of, until the next writer   *)
(* is through, and rows of its result only.  NetworkScanner is shown to    *)
(* implement this specification.                                           *)
(***************************************************************************)
CONSTANTS Scans,     \* the scans of the network
          Ips,       \* the addresses of peers
          Verdicts,  \* what a scan can say of a peer
          HasCopy,   \* results are copied to Redis
          HasTable,  \* results are written to the table
          Unknown    \* the copy, while it is written and after a failure

VARIABLES phase,     \* a scan is working, writing, done or failed
          result,    \* what a scan has found, with itself as the author
          copy,      \* the result in Redis
          verdict    \* the peers in the table and the last verdict on each

vars == <<phase, result, copy, verdict>>

Results(s) == UNION {[S -> [by : {s}, live : Verdicts]] : S \in SUBSET Ips}

Nothing == [ip \in {} |-> Unknown]

Unfinished == {s \in Scans : phase[s] \in {"working", "writing"}}

Init ==
  /\ phase = [s \in Scans |-> "working"]
  /\ result = [s \in Scans |-> Nothing]
  /\ copy = Nothing
  /\ verdict = Nothing

Move(s, from, to) == phase[s] = from /\ phase' = [phase EXCEPT ![s] = to]

Produce(s) ==
  /\ phase[s] = "working" /\ result[s] = Nothing
  /\ \E r \in Results(s) : result' = [result EXCEPT ![s] = r]
  /\ UNCHANGED <<phase, copy, verdict>>

\* A scan with nothing to write, or nowhere to write it.
Skip(s) ==
  /\ result[s] = Nothing \/ ~(HasCopy \/ HasTable)
  /\ Move(s, "working", "done")
  /\ UNCHANGED <<result, copy, verdict>>

Begin(s) ==
  /\ \A t \in Scans : phase[t] # "writing"
  /\ Move(s, "working", "writing")
  /\ copy' = Unknown
  /\ UNCHANGED <<result, verdict>>

WriteRows(s) ==
  /\ phase[s] = "writing" /\ HasTable
  /\ \E S \in SUBSET DOMAIN result[s] :
       verdict' = [ip \in DOMAIN verdict \cup S |->
                     IF ip \in S THEN result[s][ip].live ELSE verdict[ip]]
  /\ UNCHANGED <<phase, result, copy>>

\* An error of Redis is no error of the scan.
Publish(s) ==
  /\ HasTable => \A ip \in DOMAIN result[s] :
                   ip \in DOMAIN verdict /\ verdict[ip] = result[s][ip].live
  /\ Move(s, "writing", "done")
  /\ copy' \in {IF HasCopy THEN result[s] ELSE Nothing, Unknown}
  /\ UNCHANGED <<result, verdict>>

\* Errors, cancellation, and the end of the process, which many scans share.
Fail(S) ==
  /\ phase' = [s \in Scans |-> IF s \in S THEN "failed" ELSE phase[s]]
  /\ copy' = IF \E s \in S : phase[s] = "writing" THEN Unknown ELSE copy
  /\ UNCHANGED <<result, verdict>>

Next ==
  \/ \E s \in Scans : Produce(s) \/ Skip(s) \/ Begin(s) \/ WriteRows(s) \/ Publish(s)
  \/ \E S \in SUBSET Unfinished : Fail(S)

Spec == Init /\ [][Next]_vars
==============================================================================
