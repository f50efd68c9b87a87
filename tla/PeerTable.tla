------------------------------ MODULE PeerTable ------------------------------
(***************************************************************************)
(* The table PeerNode (db.rs) as everybody writes it: the scans upsert     *)
(* rows, a start of the program purges addresses by LIKE patterns, and the *)
(* program migrate_omniflix, a process of its own, moves the rows of a     *)
(* renamed network in three statements without a transaction.  A row is    *)
(* the pair of a network, one of Names, and an IP; of its other columns    *)
(* only that they change matters here, and clock counts the changes.       *)
(***************************************************************************)
EXTENDS Naturals, FiniteSets

CONSTANTS
  Names,      \* the values of the column network
  Ips,        \* the values of the column ip
  Matched,    \* the IPs that match a pattern of the purge
  Old,        \* 'Omniflixhub'
  New,        \* 'Omniflix'
  MaxWrites   \* bound on clock for the writes of scans

ASSUME TableAssumption ==
  /\ Old \in Names /\ New \in Names /\ Old # New
  /\ Matched \subseteq Ips
  /\ MaxWrites \in Nat

VARIABLES
  rows,       \* the IPs that have a row, by network
  clock,      \* the number of changes of the table
  version,    \* the last change of a network's rows
  migration,  \* the statement the migration is at, or how its last run ended
  conflicts,  \* the IPs the migration found under both names
  quiet       \* history: no scan has written since the migration was last started

migrating == <<migration, conflicts, quiet>>
table == <<rows, clock, version, migrating>>

TableTypeOK ==
  /\ rows \in [Names -> SUBSET Ips]
  /\ clock \in Nat
  /\ version \in [Names -> Nat]
  /\ \A n \in Names : version[n] <= clock
  /\ migration \in {"idle", "select", "delete", "update", "ok", "err"}
  /\ conflicts \subseteq Ips
  /\ quiet \in BOOLEAN

TableInit ==
  /\ rows \in [Names -> SUBSET Ips]
  /\ clock = 0
  /\ version = [n \in Names |-> 0]
  /\ migration = "idle" /\ conflicts = {} /\ quiet = TRUE

\* A write to the networks S, whose rows are newRows then.
Change(S, newRows) ==
  /\ rows' = newRows
  /\ clock' = IF S = {} THEN clock ELSE clock + 1
  /\ version' = [n \in Names |-> IF n \in S THEN clock' ELSE version[n]]

\* A statement that removes or renames rows, or finds none.
Replace(newRows) == Change({n \in Names : newRows[n] # rows[n]}, newRows)
-----------------------------------------------------------------------------
\* A transaction of upsert_peers_batch, or the statement after it that marks
\* rows inactive: rows appear or change, none goes away.  The scan may be one
\* of another process.
ScanWrites(n) ==
  /\ clock < MaxWrites
  /\ \E S \in SUBSET Ips :
       Change({n}, [rows EXCEPT ![n] = @ \cup S])
  /\ quiet' = (quiet /\ migration = "idle")
  /\ UNCHANGED <<migration, conflicts>>

\* purge_non_public_peers, one DELETE.
Purge == Replace([n \in Names |-> rows[n] \ Matched])

\* migrate_omniflix is run, again if need be.
MigrationStarts ==
  /\ migration \in {"idle", "ok", "err"}
  /\ migration' = "select"
  /\ conflicts' = {}
  /\ quiet' = TRUE
  /\ UNCHANGED <<rows, clock, version>>

\* Mutants: a run does not look at the new name; it never deletes.
SelectAll ==
  /\ migration = "select"
  /\ conflicts' = rows[Old]
  /\ migration' = IF conflicts' = {} THEN "update" ELSE "delete"
  /\ UNCHANGED <<rows, clock, version, quiet>>
SelectOnly ==
  /\ migration = "select"
  /\ conflicts' = rows[Old] \cap rows[New]
  /\ migration' = "update"
  /\ UNCHANGED <<rows, clock, version, quiet>>

\* The DELETE is skipped when there is no conflict.
SelectConflicts ==
  /\ migration = "select"
  /\ conflicts' = rows[Old] \cap rows[New]
  /\ migration' = IF conflicts' = {} THEN "update" ELSE "delete"
  /\ UNCHANGED <<rows, clock, version, quiet>>

DeleteConflicts ==
  /\ migration = "delete"
  /\ Replace([rows EXCEPT ![Old] = @ \ conflicts])
  /\ migration' = "update" /\ conflicts' = {}
  /\ UNCHANGED quiet

\* UNIQUE(ip, network) lets the UPDATE rename all rows or none.
RenameRest ==
  /\ migration = "update"
  /\ rows[Old] \cap rows[New] = {}
  /\ Replace([rows EXCEPT ![New] = @ \cup rows[Old], ![Old] = {}])
  /\ migration' = "ok"
  /\ UNCHANGED <<conflicts, quiet>>

\* A statement fails, the UPDATE for a conflict or any of them for another
\* reason, or the process is killed.
MigrationFails ==
  /\ migration \in {"select", "delete", "update"}
  /\ migration' = "err" /\ conflicts' = {}
  /\ UNCHANGED <<rows, clock, version, quiet>>

Migrate ==
  \/ MigrationStarts \/ SelectConflicts \/ DeleteConflicts \/ RenameRest
  \/ MigrationFails
-----------------------------------------------------------------------------
\* Some network has a row for ip.
HasRow(ip, someRows) == \E n \in Names : ip \in someRows[n]

\* A step that takes nobody's last row, unless the purge is about his address.
RowsAreKept ==
  \A ip \in Ips \ Matched : HasRow(ip, rows) => HasRow(ip, rows')

\* The rows of the old name count as rows of the new one.
Renamed ==
  [n \in Names \ {Old} |-> IF n = New THEN rows[New] \cup rows[Old] ELSE rows[n]]

Atomic == INSTANCE RenamedTable WITH
  Networks <- Names \ {Old}, Removable <- Matched, peers <- Renamed

\* Whatever the migration meets, interrupted, run again or beside a scan, it is
\* invisible to who reads both names as one: no peer changes its network or is
\* lost, unless the purge is about its address.
ImplementsRenamedTable == Atomic!Spec

\* The three statements need no transaction as long as no scan writes between
\* them: the UPDATE meets no conflict, and after it the old name has no rows.
QuietMigrationCompletes ==
  quiet => /\ migration = "update" => rows[Old] \cap rows[New] = {}
           /\ migration = "ok" => rows[Old] = {}
==============================================================================
