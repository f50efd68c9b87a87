--------------------------- MODULE PeerTableProofs ---------------------------
(***************************************************************************)
(* What any sequence of writes to the table PeerNode keeps, for every set  *)
(* of networks and addresses: the migration loses no peer although it runs *)
(* in three statements beside scans and restarts of the program, and it is *)
(* complete when no scan gets between them.  The specifications that       *)
(* contain the table (Api) take their steps on it from TableStep.          *)
(***************************************************************************)
EXTENDS PeerTable, TLAPS

TableStep ==
  \/ Migrate
  \/ \E n \in Names : ScanWrites(n)
  \/ Purge /\ UNCHANGED migrating
  \/ UNCHANGED table

\* Between its SELECT and its DELETE, what the migration will delete under the
\* old name is still there under the new one, and nothing else is double unless
\* a scan has written.
ConflictsAreDouble ==
  migration = "delete" => conflicts \ Matched \subseteq rows[New]
ConflictsAreAll ==
  quiet /\ migration = "delete" => rows[Old] \cap rows[New] \subseteq conflicts

TableInv ==
  /\ TableTypeOK
  /\ ConflictsAreDouble
  /\ ConflictsAreAll
  /\ QuietMigrationCompletes

\* The clock and the versions never go back.
TableMonotone ==
  /\ clock <= clock'
  /\ \A n \in Names : version[n] <= version'[n]
-----------------------------------------------------------------------------
LEMMA TableInitInv == TableInit => TableInv
BY TableAssumption
DEF TableInit, TableInv, TableTypeOK, ConflictsAreDouble, ConflictsAreAll,
    QuietMigrationCompletes

\* A write to some networks keeps the types and moves the clock forward.
LEMMA ChangeKeepsTypes ==
  ASSUME TableTypeOK, NEW S, NEW newRows \in [Names -> SUBSET Ips],
         Change(S, newRows)
  PROVE  /\ rows' = newRows
         /\ clock' \in Nat /\ version' \in [Names -> Nat]
         /\ \A n \in Names : version'[n] <= clock'
         /\ TableMonotone
<1>1. /\ rows' = newRows
      /\ clock' = clock \/ clock' = clock + 1
      /\ version' = [n \in Names |-> IF n \in S THEN clock' ELSE version[n]]
  BY DEF Change
<1>2. /\ clock \in Nat /\ version \in [Names -> Nat]
      /\ \A n \in Names : version[n] <= clock
  BY DEF TableTypeOK
<1>. QED
  BY <1>1, <1>2 DEF TableMonotone

\* What a step of the table keeps, case by case.
LEMMA TableStepKeeps ==
  ASSUME TableInv, TableStep
  PROVE  TableInv' /\ RowsAreKept /\ TableMonotone
<1>a. /\ Old \in Names /\ New \in Names /\ Old # New /\ Matched \subseteq Ips
      /\ rows \in [Names -> SUBSET Ips] /\ clock \in Nat
      /\ version \in [Names -> Nat] /\ conflicts \subseteq Ips
      /\ quiet \in BOOLEAN
  BY TableAssumption DEF TableInv, TableTypeOK
<1>b. TableTypeOK
  BY DEF TableInv
\* A step that leaves the rows alone.
<1>c. ASSUME UNCHANGED <<rows, clock, version>>, TableTypeOK'
      PROVE  RowsAreKept /\ TableMonotone
  BY <1>a, <1>c DEF RowsAreKept, HasRow, TableMonotone
<1>1. CASE MigrationStarts
  BY <1>a, <1>b, <1>c, <1>1
  DEF MigrationStarts, TableInv, TableTypeOK, ConflictsAreDouble,
      ConflictsAreAll, QuietMigrationCompletes
<1>2. CASE SelectConflicts
  <2>1. TableInv'
    BY <1>a, <1>b, <1>2
    DEF SelectConflicts, TableInv, TableTypeOK, ConflictsAreDouble,
        ConflictsAreAll, QuietMigrationCompletes
  <2>. QED
    BY <1>c, <1>2, <2>1 DEF SelectConflicts, TableInv
<1>3. CASE DeleteConflicts
  <2> DEFINE new == [rows EXCEPT ![Old] = @ \ conflicts]
  <2>1. new \in [Names -> SUBSET Ips]
    BY <1>a
  <2>2. Change({n \in Names : new[n] # rows[n]}, new)
    BY <1>3 DEF DeleteConflicts, Replace
  <2>3. /\ rows' = new /\ clock' \in Nat /\ version' \in [Names -> Nat]
        /\ \A n \in Names : version'[n] <= clock'
        /\ TableMonotone
    BY <1>b, <2>1, <2>2, ChangeKeepsTypes
  <2>4. TableInv'
    BY <1>a, <1>3, <2>1, <2>3
    DEF DeleteConflicts, TableInv, TableTypeOK, ConflictsAreDouble,
        ConflictsAreAll, QuietMigrationCompletes
  <2>5. RowsAreKept
    BY <1>a, <1>3, <2>3
    DEF RowsAreKept, HasRow, TableInv, ConflictsAreDouble, DeleteConflicts
  <2>. QED
    BY <2>3, <2>4, <2>5
<1>4. CASE RenameRest
  <2> DEFINE new == [rows EXCEPT ![New] = @ \cup rows[Old], ![Old] = {}]
  <2>1. new \in [Names -> SUBSET Ips]
    BY <1>a
  <2>2. Change({n \in Names : new[n] # rows[n]}, new)
    BY <1>4 DEF RenameRest, Replace
  <2>3. /\ rows' = new /\ clock' \in Nat /\ version' \in [Names -> Nat]
        /\ \A n \in Names : version'[n] <= clock'
        /\ TableMonotone
    BY <1>b, <2>1, <2>2, ChangeKeepsTypes
  <2>4. TableInv'
    BY <1>a, <1>4, <2>1, <2>3
    DEF RenameRest, TableInv, TableTypeOK, ConflictsAreDouble,
        ConflictsAreAll, QuietMigrationCompletes
  <2>5. RowsAreKept
    BY <1>a, <2>3 DEF RowsAreKept, HasRow
  <2>. QED
    BY <2>3, <2>4, <2>5
<1>5. CASE MigrationFails
  <2>1. TableInv'
    BY <1>a, <1>b, <1>5
    DEF MigrationFails, TableInv, TableTypeOK, ConflictsAreDouble,
        ConflictsAreAll, QuietMigrationCompletes
  <2>. QED
    BY <1>c, <1>5, <2>1 DEF MigrationFails, TableInv
<1>6. ASSUME NEW n \in Names, ScanWrites(n)
      PROVE  TableInv' /\ RowsAreKept /\ TableMonotone
  <2>1. PICK S \in SUBSET Ips : Change({n}, [rows EXCEPT ![n] = @ \cup S])
    BY <1>6 DEF ScanWrites
  <2> DEFINE new == [rows EXCEPT ![n] = @ \cup S]
  <2>2. new \in [Names -> SUBSET Ips]
    BY <1>a
  <2>3. /\ rows' = new /\ clock' \in Nat /\ version' \in [Names -> Nat]
        /\ \A m \in Names : version'[m] <= clock'
        /\ TableMonotone
    BY <1>b, <2>1, <2>2, ChangeKeepsTypes
  <2>4. \A m \in Names : rows[m] \subseteq rows'[m]
    BY <1>a, <2>3
  <2>5. quiet' \in BOOLEAN /\ (quiet' => migration = "idle")
        /\ UNCHANGED <<migration, conflicts>>
    BY <1>a, <1>6 DEF ScanWrites
  <2>6. TableInv'
    BY <1>a, <2>2, <2>3, <2>4, <2>5
    DEF TableInv, TableTypeOK, ConflictsAreDouble, ConflictsAreAll,
        QuietMigrationCompletes
  <2>. QED
    BY <2>3, <2>4, <2>6 DEF RowsAreKept, HasRow
<1>7. CASE Purge /\ UNCHANGED migrating
  <2> DEFINE new == [m \in Names |-> rows[m] \ Matched]
  <2>1. new \in [Names -> SUBSET Ips]
    BY <1>a
  <2>2. Change({m \in Names : new[m] # rows[m]}, new)
    BY <1>7 DEF Purge, Replace
  <2>3. /\ rows' = new /\ clock' \in Nat /\ version' \in [Names -> Nat]
        /\ \A m \in Names : version'[m] <= clock'
        /\ TableMonotone
    BY <1>b, <2>1, <2>2, ChangeKeepsTypes
  <2>4. TableInv'
    BY <1>a, <1>7, <2>1, <2>3
    DEF migrating, TableInv, TableTypeOK, ConflictsAreDouble, ConflictsAreAll,
        QuietMigrationCompletes
  <2>. QED
    BY <1>a, <2>3, <2>4 DEF RowsAreKept, HasRow
<1>8. CASE UNCHANGED table
  BY <1>a, <1>8
  DEF table, migrating, TableInv, TableTypeOK, ConflictsAreDouble,
      ConflictsAreAll, QuietMigrationCompletes, RowsAreKept, HasRow,
      TableMonotone
<1>. QED
  BY <1>1, <1>2, <1>3, <1>4, <1>5, <1>6, <1>7, <1>8 DEF TableStep, Migrate
-----------------------------------------------------------------------------
\* The steps of the table, read with both names as one.
LEMMA TableInitRefines == TableInit => Atomic!Init
BY TableAssumption DEF TableInit, Atomic!Init, Renamed

\* What Renamed is when the rows are some function f.
LEMMA RenamedIs ==
  ASSUME TableTypeOK
  PROVE  /\ Renamed \in [Names \ {Old} -> SUBSET Ips]
         /\ Renamed[New] = rows[New] \cup rows[Old]
         /\ \A n \in Names \ {Old, New} : Renamed[n] = rows[n]
BY TableAssumption DEF TableTypeOK, Renamed

\* Two ways in which the rows of two moments can be related.
LEMMA NothingMoved ==
  ASSUME TableTypeOK, TableTypeOK',
         \A n \in Names \ {Old, New} : rows'[n] = rows[n],
         rows'[Old] \cup rows'[New] = rows[Old] \cup rows[New]
  PROVE  UNCHANGED Renamed
BY RenamedIs, TableAssumption DEF Renamed, TableTypeOK

LEMMA RemovableGone ==
  ASSUME TableTypeOK, TableTypeOK',
         \A n \in Names : rows'[n] \subseteq rows[n],
         \A n \in Names \ {Old, New} : rows[n] \ rows'[n] \subseteq Matched,
         (rows[Old] \cup rows[New]) \ (rows'[Old] \cup rows'[New]) \subseteq Matched
  PROVE  Atomic!Next
<1> DEFINE both == rows[Old] \cup rows[New]
           bothAfter == rows'[Old] \cup rows'[New]
           gone == [n \in Names \ {Old} |->
                      IF n = New THEN both \ bothAfter ELSE rows[n] \ rows'[n]]
<1>a. New \in Names \ {Old}
  BY TableAssumption
<1>1. gone \in [Names \ {Old} -> SUBSET Matched]
  OBVIOUS
<1>2. Renamed' = [n \in Names \ {Old} |-> Renamed[n] \ gone[n]]
  <2>1. bothAfter = both \ (both \ bothAfter)
    BY <1>a, TableAssumption
  <2>2. \A n \in Names \ {Old, New} : rows'[n] = rows[n] \ (rows[n] \ rows'[n])
    OBVIOUS
  <2>. QED
    BY <1>a, <2>1, <2>2 DEF Renamed
<1>. QED
  BY <1>1, <1>2 DEF Atomic!Next, Atomic!Remove

\* The migration is invisible; a write of a scan is Add, a purge Remove, and so
\* is the deletion of conflicts that a purge has taken away from the new name.
LEMMA TableStepRefines ==
  ASSUME TableInv, TableStep
  PROVE  [Atomic!Next]_Renamed
<1>a. TableTypeOK /\ TableTypeOK'
  BY TableStepKeeps DEF TableInv
<1>b. /\ Old \in Names /\ New \in Names /\ Old # New
      /\ rows \in [Names -> SUBSET Ips] /\ conflicts \subseteq Ips
  BY <1>a, TableAssumption DEF TableTypeOK
<1>1. CASE UNCHANGED rows
  BY <1>1 DEF Renamed
<1>2. CASE MigrationStarts \/ SelectConflicts \/ MigrationFails \/ UNCHANGED table
  BY <1>1, <1>2
  DEF MigrationStarts, SelectConflicts, MigrationFails, table
<1>3. CASE DeleteConflicts
  <2>1. rows' = [rows EXCEPT ![Old] = @ \ conflicts]
    BY <1>3 DEF DeleteConflicts, Replace, Change
  <2>2. conflicts \ Matched \subseteq rows[New]
    BY <1>3 DEF DeleteConflicts, TableInv, ConflictsAreDouble
  <2>. QED
    BY <1>a, <1>b, <2>1, <2>2, RemovableGone
<1>4. CASE RenameRest
  <2>1. rows' = [rows EXCEPT ![New] = @ \cup rows[Old], ![Old] = {}]
    BY <1>4 DEF RenameRest, Replace, Change
  <2>. QED
    BY <1>a, <1>b, <2>1, NothingMoved
<1>5. ASSUME NEW n \in Names, ScanWrites(n)
      PROVE  Atomic!Next
  <2>1. PICK S \in SUBSET Ips : rows' = [rows EXCEPT ![n] = @ \cup S]
    BY <1>5 DEF ScanWrites, Change
  <2> DEFINE m == IF n = Old THEN New ELSE n
  <2>2. m \in Names \ {Old}
    BY <1>b
  <2>3. Renamed' = [Renamed EXCEPT ![m] = @ \cup S]
    BY <1>b, <2>1 DEF Renamed
  <2>. QED
    BY <2>2, <2>3 DEF Atomic!Next, Atomic!Add
<1>6. CASE Purge
  <2>1. rows' = [n \in Names |-> rows[n] \ Matched]
    BY <1>6 DEF Purge, Replace, Change
  <2>. QED
    BY <1>a, <1>b, <2>1, RemovableGone
<1>. QED
  BY <1>2, <1>3, <1>4, <1>5, <1>6 DEF TableStep, Migrate
==============================================================================
