------------------------ MODULE DatabaseStartupProofs ------------------------
(***************************************************************************)
(* Proofs about DatabaseStartup, for any processes, databases and number   *)
(* of faults.                                                              *)
(***************************************************************************)
EXTENDS DatabaseStartup, TLAPS

-----------------------------------------------------------------------------
(* The inductive invariant                                                 *)

Exclusive ==
  \A p, q \in Processes : p # q /\ hold[p] = "exclusive" => hold[q] = "none"

\* A power loss does not take what MigrationRecoverable needs.
Durable ==
  /\ replaced \subseteq diskBackups
  /\ unfinished => latch # "none" /\ diskLatch # "none"

\* Who changes the schema holds the barrier exclusively and has a latch.
Entitled(p) ==
  /\ pc[p] \in {"latch", "backup", "migrate", "record", "unlatch"}
       => hold[p] = "exclusive"
  /\ pc[p] \in {"backup", "migrate", "record", "unlatch"} => attempt[p]
  /\ attempt[p] =>
       /\ diskLatch # "none"
       /\ pc[p] \in {"backup", "ensure", "migrate", "validate", "record",
                     "unlatch"}
  /\ pc[p] \in {"inspect", "latch"} => latch = "none"
  /\ pc[p] \in {"ensure", "validate"} /\ ~attempt[p] => latch = "none"

\* What a start has established about the database holds until it is used.
Knows(p) ==
  /\ pc[p] \in {"latch", "backup", "migrate"} => MigrationRequired(db)
  /\ pc[p] = "ensure" /\ hold[p] = "exclusive"
       => (attempt[p] <=> MigrationRequired(db))
  /\ pc[p] = "ensure" /\ attempt[p] => db \in diskBackups
  /\ pc[p] = "migrate" /\ ~unfinished => db \in diskBackups
  /\ pc[p] = "unlatch" => Valid(db) /\ ~unfinished
  /\ pc[p] \in {"finish", "up", "busy"} => Valid(db) /\ latch = "none"

IndInv ==
  /\ TypeOK
  /\ Exclusive
  /\ Durable
  /\ \A p \in Processes : Entitled(p) /\ Knows(p)

-----------------------------------------------------------------------------
(* Each action preserves it                                                *)

\* The bound on faults is the only thing arithmetic is needed for.
LEMMA FaultType ==
  ASSUME TypeOK, Fault \/ UNCHANGED faults
  PROVE  faults' \in 0 .. MaxFaults
  BY StartupAssumption DEF TypeOK, Fault

\* A process that is gone leaves nothing that the others rely on.
LEMMA FailStep ==
  ASSUME IndInv, NEW p \in Processes, Fail(p), UNCHANGED <<files, history>>,
         Fault \/ UNCHANGED faults
  PROVE  IndInv'
<1>1. faults' \in 0 .. MaxFaults
  BY FaultType DEF IndInv
<1>. QED
  BY <1>1 DEF IndInv, TypeOK, Exclusive, Durable, Entitled, Knows,
     MigrationRequired, Valid, currentDatabaseVersion, Fail, Goto, Starting,
     Serving, files, history

\* An error goes to the latch of an attempt, and ends any other start.
LEMMA SchemaErrorStep ==
  ASSUME IndInv, NEW p \in Processes, SchemaError(p),
         pc[p] \in {"ensure", "migrate", "validate"},
         UNCHANGED <<files, history>>, Fault \/ UNCHANGED faults
  PROVE  IndInv'
<1>1. CASE ~attempt[p]
  BY <1>1, FailStep DEF SchemaError
<1>2. CASE attempt[p]
  <2>1. faults' \in 0 .. MaxFaults
    BY FaultType DEF IndInv
  <2>. QED
    BY <1>2, <2>1 DEF IndInv, TypeOK, Exclusive, Durable, Entitled, Knows,
       MigrationRequired, Valid, currentDatabaseVersion, SchemaError, Goto,
       Starting, Serving, files, history
<1>. QED
  BY <1>1, <1>2

LEMMA StartupStep ==
  ASSUME IndInv, NEW p \in Processes, Startup(p)
  PROVE  IndInv'
  BY DEF IndInv, TypeOK, Exclusive, Durable, Entitled, Knows,
     MigrationRequired, Valid, currentDatabaseVersion, Startup, Free, Goto,
     Starting, Serving, files, history

LEMMA AcquireSharedStep ==
  ASSUME IndInv, NEW p \in Processes, AcquireShared(p)
  PROVE  IndInv'
  BY DEF IndInv, TypeOK, Exclusive, Durable, Entitled, Knows,
     MigrationRequired, Valid, currentDatabaseVersion, AcquireShared,
     NoExclusive, Goto, Starting, Serving, files, history

LEMMA CheckLatchStep ==
  ASSUME IndInv, NEW p \in Processes, CheckLatch(p)
  PROVE  IndInv'
<1>1. CASE /\ latch = "none" /\ Goto(p, "inspect")
           /\ UNCHANGED <<hold, attempt, faults>>
  BY <1>1 DEF IndInv, TypeOK, Exclusive, Durable, Entitled, Knows,
     MigrationRequired, Valid, currentDatabaseVersion, CheckLatch, Goto,
     Starting, Serving, files, history
<1>2. CASE Fail(p) /\ (Fault \/ UNCHANGED faults)
  BY <1>2, FailStep DEF CheckLatch
<1>. QED
  BY <1>1, <1>2 DEF CheckLatch

LEMMA InspectStep ==
  ASSUME IndInv, NEW p \in Processes, Inspect(p)
  PROVE  IndInv'
<1>1. CASE Fault /\ Fail(p)
  BY <1>1, FailStep DEF Inspect
<1>2. CASE /\ Goto(p, IF hold[p] = "exclusive" /\ MigrationRequired(db)
                        THEN "latch" ELSE "ensure")
           /\ UNCHANGED <<hold, attempt, faults>>
  <2>1. CASE hold[p] = "exclusive" /\ MigrationRequired(db)
    BY <1>2, <2>1 DEF IndInv, TypeOK, Exclusive, Durable, Entitled, Knows,
       Valid, Inspect, Goto, Starting, Serving, files, history
  <2>2. CASE ~(hold[p] = "exclusive" /\ MigrationRequired(db))
    BY <1>2, <2>2 DEF IndInv, TypeOK, Exclusive, Durable, Entitled, Knows,
       Valid, Inspect, Goto, Starting, Serving, files, history
  <2>. QED
    BY <2>1, <2>2
<1>. QED
  BY <1>1, <1>2 DEF Inspect

\* Nobody serves a database that requires a migration, and nobody else has
\* got past the wait.
LEMMA WriteLatchStep ==
  ASSUME IndInv, NEW p \in Processes, WriteLatch(p)
  PROVE  IndInv'
<1>1. faults' \in 0 .. MaxFaults
  BY FaultType DEF IndInv, WriteLatch
<1>2. ASSUME NEW q \in Processes \ {p}
      PROVE  pc[q] \in {"off", "wait"} /\ hold[q] = "none" /\ ~attempt[q]
  BY <1>2 DEF IndInv, TypeOK, Exclusive, Durable, Entitled, Knows,
     MigrationRequired, Valid, currentDatabaseVersion, WriteLatch, Starting,
     Serving
<1>3. latch = "none" /\ ~unfinished /\ hold[p] = "exclusive" /\ ~attempt[p]
      /\ MigrationRequired(db)
  BY DEF IndInv, TypeOK, Exclusive, Durable, Entitled, Knows, WriteLatch
<1>4. CASE /\ latch' = "attempting" /\ diskLatch' = latch'
           /\ attempt' = [attempt EXCEPT ![p] = TRUE]
           /\ Goto(p, "backup")
           /\ UNCHANGED <<hold, faults>>
  BY <1>1, <1>2, <1>3, <1>4 DEF IndInv, TypeOK, Exclusive, Durable, Entitled,
     Knows, WriteLatch, Goto, MigrationRequired, Starting, Serving, history
<1>5. CASE latch' \in {"none", "attempting"} /\ Fail(p) /\ UNCHANGED diskLatch
  BY <1>1, <1>2, <1>3, <1>5 DEF IndInv, TypeOK, Exclusive, Durable, Entitled,
     Knows, WriteLatch, Fail, Goto, Starting, Serving, history
<1>. QED
  BY <1>3, <1>4, <1>5 DEF WriteLatch

LEMMA BackupStep ==
  ASSUME IndInv, NEW p \in Processes, Backup(p)
  PROVE  IndInv'
<1>1. faults' \in 0 .. MaxFaults
  BY FaultType DEF IndInv, Backup
<1>. QED
  BY <1>1 DEF IndInv, TypeOK, Exclusive, Durable, Entitled, Knows,
     MigrationRequired, Valid, currentDatabaseVersion, Backup, Goto, Starting,
     Serving, history

LEMMA EnsureStep ==
  ASSUME IndInv, NEW p \in Processes, Ensure(p)
  PROVE  IndInv'
<1>1. CASE SchemaError(p) /\ UNCHANGED db /\ (Fault \/ UNCHANGED faults)
  BY <1>1, SchemaErrorStep DEF Ensure, files
<1>2. CASE db.layout = "empty" /\ hold[p] = "exclusive" /\ CreateSchema(p)
  <2>1. ASSUME NEW q \in Processes \ {p}
        PROVE  pc[q] \in {"off", "wait"} /\ hold[q] = "none" /\ ~attempt[q]
    BY <1>2, <2>1 DEF IndInv, TypeOK, Exclusive, Durable, Entitled, Knows,
       MigrationRequired, Valid, currentDatabaseVersion, Ensure, Starting,
       Serving
  <2>2. db' \in Contents
    <3>1. /\ currentDatabaseVersion \in 0 .. currentDatabaseVersion + 1
          /\ "v2" \in Layouts /\ db \in Contents
      BY DEF currentDatabaseVersion, Layouts, IndInv, TypeOK
    <3>. QED
      BY <1>2, <3>1, Zenon DEF CreateSchema, Contents
  <2>. QED
    BY <1>2, <2>1, <2>2 DEF IndInv, TypeOK, Exclusive, Durable, Entitled,
       Knows, MigrationRequired, Valid, currentDatabaseVersion, Ensure,
       CreateSchema, Goto, Starting, Serving, history
<1>3. CASE /\ MigrationRequired(db) /\ hold[p] = "exclusive"
           /\ Goto(p, "migrate") /\ UNCHANGED <<db, hold, attempt, faults>>
  BY <1>3 DEF IndInv, TypeOK, Exclusive, Durable, Entitled, Knows, Valid,
     Ensure, Goto, Starting, Serving, history
<1>4. CASE Goto(p, "validate") /\ UNCHANGED <<db, hold, attempt, faults>>
  BY <1>4 DEF IndInv, TypeOK, Exclusive, Durable, Entitled, Knows, Valid,
     MigrationRequired, Ensure, Goto, Starting, Serving, history
<1>. QED
  BY <1>1, <1>2, <1>3, <1>4 DEF Ensure

LEMMA MigratedType ==
  ASSUME NEW d \in Contents, MigrationRequired(d), NEW e \in Migrated(d)
  PROVE  /\ e \in Contents
         /\ e.version < currentDatabaseVersion => e.layout # "empty"
<1>1. CASE d.version = 0
  <2>1. PICK l \in Layouts : e = [d EXCEPT !.version = 1, !.layout = l]
                             /\ l # "empty"
    BY <1>1 DEF Migrated, V0ToV1, Layouts, Contents
  <2>2. 1 \in 0 .. currentDatabaseVersion + 1
    BY DEF currentDatabaseVersion
  <2>3. LET f == [d EXCEPT !.version = 1, !.layout = l]
        IN  f \in Contents /\ f.layout = l
    BY <2>2, Zenon DEF Contents
  <2>. QED
    BY <2>1, <2>3
<1>2. CASE d.version # 0
  <2>1. PICK l \in Layouts : e = [d EXCEPT !.version = 2, !.layout = l]
    BY <1>2 DEF Migrated, V1ToV2, Layouts, Contents
  <2>2. 2 \in 0 .. currentDatabaseVersion + 1
    BY DEF currentDatabaseVersion
  <2>3. LET f == [d EXCEPT !.version = 2, !.layout = l]
        IN  f \in Contents /\ f.version = 2
    BY <2>2, Zenon DEF Contents
  <2>. QED
    BY <2>1, <2>3 DEF currentDatabaseVersion
<1>. QED
  BY <1>1, <1>2

LEMMA MigrateStep ==
  ASSUME IndInv, NEW p \in Processes, Migrate(p)
  PROVE  IndInv'
<1>1. CASE /\ SchemaError(p) /\ UNCHANGED <<db, history>>
           /\ Fault \/ UNCHANGED faults
  BY <1>1, SchemaErrorStep DEF Migrate, files
<1>2. CASE /\ db' \in Migrated(db)
           /\ replaced' = IF unfinished THEN replaced ELSE replaced \cup {db}
           /\ unfinished' = TRUE
           /\ Goto(p, IF db'.version < currentDatabaseVersion THEN "migrate"
                                                              ELSE "validate")
           /\ UNCHANGED <<hold, attempt, faults>>
  <2>1. /\ hold[p] = "exclusive" /\ attempt[p] /\ MigrationRequired(db)
        /\ latch # "none" /\ diskLatch # "none"
        /\ unfinished \/ db \in diskBackups
    BY DEF IndInv, TypeOK, Exclusive, Durable, Entitled, Knows, Migrate
  <2>2. ASSUME NEW q \in Processes \ {p}
        PROVE  pc[q] \in {"off", "wait"} /\ hold[q] = "none" /\ ~attempt[q]
    BY <2>1, <2>2 DEF IndInv, TypeOK, Exclusive, Durable, Entitled, Knows,
       Starting, Serving
  <2>3. db' \in Contents /\ db \in Contents
    BY <1>2, <2>1, MigratedType DEF IndInv, TypeOK
  <2>4. db'.version < currentDatabaseVersion => MigrationRequired(db')
    BY <1>2, <2>1, <2>3, MigratedType DEF MigrationRequired
  <2>5. replaced' \subseteq diskBackups /\ replaced' \subseteq Contents
    BY <1>2, <2>1, <2>3 DEF IndInv, TypeOK, Durable
  <2>6. CASE db'.version < currentDatabaseVersion
    BY <1>2, <2>1, <2>2, <2>3, <2>4, <2>5, <2>6 DEF IndInv, TypeOK, Exclusive,
       Durable, Entitled, Knows, Migrate, Goto, MigrationRequired, Starting,
       Serving
  <2>7. CASE ~(db'.version < currentDatabaseVersion)
    BY <1>2, <2>1, <2>2, <2>3, <2>5, <2>7 DEF IndInv, TypeOK, Exclusive,
       Durable, Entitled, Knows, Migrate, Goto, Starting, Serving
  <2>. QED
    BY <2>6, <2>7
<1>. QED
  BY <1>1, <1>2 DEF Migrate

LEMMA ValidateStep ==
  ASSUME IndInv, NEW p \in Processes, Validate(p)
  PROVE  IndInv'
<1>1. CASE SchemaError(p) /\ UNCHANGED unfinished /\ (Fault \/ UNCHANGED faults)
  BY <1>1, SchemaErrorStep DEF Validate, history
<1>2. CASE /\ Valid(db) /\ unfinished' = FALSE
           /\ Goto(p, IF attempt[p] THEN "unlatch" ELSE "finish")
           /\ UNCHANGED <<hold, attempt, faults>>
  <2>1. /\ attempt[p] => hold[p] = "exclusive"
        /\ ~attempt[p] => latch = "none"
    BY DEF IndInv, TypeOK, Exclusive, Durable, Entitled, Knows, Validate
  <2>2. ASSUME NEW q \in Processes, pc[q] = "migrate"
        PROVE  FALSE
    BY <1>2, <2>2 DEF IndInv, TypeOK, Exclusive, Durable, Entitled, Knows,
       MigrationRequired, Valid, currentDatabaseVersion
  <2>3. CASE attempt[p]
    BY <1>2, <2>1, <2>2, <2>3, ZenonT(60)
       DEF IndInv, TypeOK, Exclusive, Durable, Entitled,
       Knows, MigrationRequired, Validate, Goto, Starting, Serving, files
  <2>4. CASE ~attempt[p]
    BY <1>2, <2>1, <2>2, <2>4, ZenonT(60)
       DEF IndInv, TypeOK, Exclusive, Durable, Entitled,
       Knows, MigrationRequired, Validate, Goto, Starting, Serving, files
  <2>. QED
    BY <2>3, <2>4
<1>. QED
  BY <1>1, <1>2 DEF Validate

\* The latch it writes to is its own, so nobody serves or starts.
LEMMA RecordStep ==
  ASSUME IndInv, NEW p \in Processes, Record(p)
  PROVE  IndInv'
<1>1. faults' \in 0 .. MaxFaults
  BY FaultType DEF IndInv, Record
<1>. QED
  BY <1>1 DEF IndInv, TypeOK, Exclusive, Durable, Entitled, Knows,
     MigrationRequired, Valid, currentDatabaseVersion, Record, Fail, Goto,
     Starting, Serving, history

LEMMA UnlatchStep ==
  ASSUME IndInv, NEW p \in Processes, Unlatch(p)
  PROVE  IndInv'
<1>1. faults' \in 0 .. MaxFaults
  BY FaultType DEF IndInv, Unlatch
<1>2. Valid(db) /\ ~unfinished /\ hold[p] = "exclusive" /\ latch # "none"
  BY DEF IndInv, TypeOK, Exclusive, Durable, Entitled, Knows, Unlatch
<1>3. ASSUME NEW q \in Processes \ {p}
      PROVE  pc[q] \in {"off", "wait"} /\ hold[q] = "none" /\ ~attempt[q]
  BY <1>2, <1>3 DEF IndInv, TypeOK, Exclusive, Durable, Entitled, Knows,
     Starting, Serving
<1>4. CASE /\ latch' = "none" /\ diskLatch' = latch'
           /\ attempt' = [attempt EXCEPT ![p] = FALSE]
           /\ Goto(p, "finish") /\ UNCHANGED <<hold, faults>>
  BY <1>1, <1>2, <1>3, <1>4 DEF IndInv, TypeOK, Exclusive, Durable, Entitled,
     Knows, Valid, Unlatch, Goto, Starting, Serving, history
<1>5. CASE latch' \in {latch, "none"} /\ Fail(p) /\ UNCHANGED diskLatch
  BY <1>1, <1>2, <1>3, <1>5 DEF IndInv, TypeOK, Exclusive, Durable, Entitled,
     Knows, Unlatch, Fail, Goto, Starting, Serving, history
<1>. QED
  BY <1>4, <1>5 DEF Unlatch

LEMMA FinishStep ==
  ASSUME IndInv, NEW p \in Processes, Finish(p)
  PROVE  IndInv'
  BY DEF IndInv, TypeOK, Exclusive, Durable, Entitled, Knows,
     MigrationRequired, Valid, currentDatabaseVersion, Finish, Goto, Starting,
     Serving, files, history

LEMMA EnterStep ==
  ASSUME IndInv, NEW p \in Processes,
         NEW mode \in {"shared", "exclusive"}, Enter(p, mode)
  PROVE  IndInv'
  BY DEF IndInv, TypeOK, Exclusive, Durable, Entitled, Knows,
     MigrationRequired, Valid, currentDatabaseVersion, Enter, Free,
     NoExclusive, Goto, Starting, Serving, files, history

LEMMA LeaveStep ==
  ASSUME IndInv, NEW p \in Processes, Leave(p)
  PROVE  IndInv'
  BY DEF IndInv, TypeOK, Exclusive, Durable, Entitled, Knows,
     MigrationRequired, Valid, currentDatabaseVersion, Leave, Goto, Starting,
     Serving, files, history

LEMMA PowerLossStep ==
  ASSUME IndInv, PowerLoss
  PROVE  IndInv'
<1>1. faults' \in 0 .. MaxFaults
  BY FaultType DEF IndInv, PowerLoss
<1>2. /\ replaced' \subseteq diskBackups' /\ diskBackups' = backups'
      /\ backups' \subseteq Contents
  BY DEF IndInv, TypeOK, Durable, PowerLoss, history
<1>. QED
  BY <1>1, <1>2 DEF IndInv, TypeOK, Exclusive, Durable, Entitled, Knows,
     PowerLoss, Starting, Serving, history

LEMMA AttendStep ==
  ASSUME IndInv, NEW content \in Contents, Attend(content)
  PROVE  IndInv'
  BY DEF IndInv, TypeOK, Exclusive, Durable, Entitled, Knows, Attend, AllOff,
     Starting, Serving

-----------------------------------------------------------------------------
(* The theorems                                                            *)

LEMMA Initially == Init => IndInv
<1>. SUFFICES ASSUME Init
              PROVE  IndInv
  OBVIOUS
<1>1. /\ pc \in [Processes -> {"off", "wait"} \cup Starting \cup Serving]
      /\ hold \in [Processes -> {"none", "shared", "exclusive"}]
      /\ attempt \in [Processes -> BOOLEAN]
  BY Zenon DEF Init
<1>2. db \in Contents /\ faults \in 0 .. MaxFaults
  BY StartupAssumption DEF Init
<1>3. \A p \in Processes : pc[p] = "off" /\ hold[p] = "none" /\ ~attempt[p]
  BY DEF Init
<1>. QED
  BY <1>1, <1>2, <1>3 DEF Init, IndInv, TypeOK, Exclusive, Durable, Entitled,
     Knows, Starting, Serving

LEMMA Inductive == IndInv /\ [Next]_vars => IndInv'
<1>. SUFFICES ASSUME IndInv, [Next]_vars
              PROVE  IndInv'
  OBVIOUS
<1>1. ASSUME NEW p \in Processes, InitDatabase(p)
      PROVE  IndInv'
  BY <1>1, CheckLatchStep, InspectStep, WriteLatchStep, BackupStep, EnsureStep,
     MigrateStep, ValidateStep, RecordStep, UnlatchStep, FinishStep DEF
     InitDatabase
<1>2. ASSUME NEW p \in Processes, Stop(p) \/ Crash(p)
      PROVE  IndInv'
  BY <1>2, FailStep DEF Stop, Crash
<1>3. ASSUME Restore \/ Repair
      PROVE  IndInv'
  <2>1. Repaired(db) \in Contents /\ backups \subseteq Contents
    BY DEF IndInv, TypeOK, Repaired, Contents
  <2>. QED
    BY <1>3, <2>1, AttendStep DEF Restore, Repair
<1>4. CASE UNCHANGED vars
  BY <1>4 DEF IndInv, TypeOK, Exclusive, Durable, Entitled, Knows,
     MigrationRequired, Valid, currentDatabaseVersion, Starting, Serving, vars,
     files, history
<1>. QED
  BY <1>1, <1>2, <1>3, <1>4, StartupStep, AcquireSharedStep, EnterStep,
     LeaveStep, PowerLossStep DEF Next

LEMMA Invariance == Spec => []IndInv
  BY Initially, Inductive, PTL DEF Spec

\* The files and the processes are always of their type, and only a start that
\* holds the operation barrier exclusively ever owns a migration latch
\* (initDatabaseWithSchemaChanges).
THEOREM TypeCorrect == Spec => []TypeOK
<1>1. IndInv => TypeOK
  BY DEF IndInv
<1>. QED
  BY <1>1, Invariance, PTL

\* For any number of processes, failed calls, deaths and power losses: what a
\* migration replaced is in a backup, and a migration that was begun and not
\* validated is latched (writeDatabaseMigrationLatch,
\* backupDatabaseBeforeMigration, migrateDatabase).
THEOREM Recoverable == Spec => []MigrationRecoverable
<1>1. IndInv => MigrationRecoverable
  BY DEF IndInv, TypeOK, Durable, MigrationRecoverable
<1>. QED
  BY <1>1, Invariance, PTL

\* A manager that NewManager returned works on a database that passed
\* validateCurrentDatabaseSchema and has no latch, however other processes
\* start, fail and die.
THEOREM Validated == Spec => []ServesValidated
<1>1. IndInv => ServesValidated
  BY DEF IndInv, Knows, Serving, ServesValidated
<1>. QED
  BY <1>1, Invariance, PTL
=============================================================================
