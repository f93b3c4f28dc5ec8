--------------------------- MODULE DatabaseStartup ---------------------------
(***************************************************************************)
(* Start of a manager on the shared database: NewManager (cmgr/api.go) and *)
(* initDatabaseWithSchemaChanges with what it calls (cmgr/database.go).    *)
(*                                                                         *)
(* A start takes the operation barrier exclusively if nobody holds it and  *)
(* shared otherwise; only an exclusive start may create or migrate the     *)
(* schema.  Before a migration it creates a latch file beside the database *)
(* and publishes a backup; the latch goes when the migrated database has   *)
(* been validated, and a latch left by a failure or a death makes every    *)
(* start fail until an administrator has seen to the database.  Processes  *)
(* die at any point, system calls fail, and a power loss takes what was    *)
(* not synced.  SQLite's transactions are atomic and durable.              *)
(***************************************************************************)
EXTENDS Naturals

CONSTANTS
  Processes,  \* cmgr and cmgrd processes that share the database
  Databases,  \* the databases a first start may find
  MaxFaults   \* bound on failed system calls, deaths and power losses

currentDatabaseVersion == 2

\* What a start can tell about a database.  layout: the newest schema whose
\* tables, columns and indexes are complete; "partial" when none is, "empty"
\* when there is no table at all.  clash: rows other than exact duplicates
\* conflict with the unique indexes of version 1.  broken: foreign keys or
\* ownership rows that validateCurrentDatabaseSchema refuses.
Layouts  == {"empty", "partial", "v0", "v1", "v2"}
Contents == [version : 0 .. currentDatabaseVersion + 1, layout : Layouts,
             clash : BOOLEAN, broken : BOOLEAN]

ASSUME StartupAssumption == Databases \subseteq Contents /\ MaxFaults \in Nat

VARIABLES
  \* Files
  db,           \* the database's content
  latch,        \* the latch file; contents that are torn count as "attempting"
  diskLatch,    \* the latch a power loss leaves at least possible
  backups,      \* contents of the published backups
  diskBackups,  \* those of them that survive a power loss
  \* Processes
  pc,           \* where the process is
  hold,         \* its hold on the operation barrier
  attempt,      \* it has created the latch (migrationLatch is not nil)
  \* History
  replaced,     \* contents that the first transaction of an attempt replaced
  unfinished,   \* a migration has begun that was not validated since
  faults

files   == <<db, latch, diskLatch, backups, diskBackups>>
history == <<replaced, unfinished>>
vars    == <<files, pc, hold, attempt, history, faults>>

Starting == {"check", "inspect", "latch", "backup", "ensure", "migrate",
             "validate", "record", "unlatch", "finish"}
Serving  == {"up", "busy"}

Goto(p, label) == pc' = [pc EXCEPT ![p] = label]

\* A system call or a query of the step fails.
Fault == faults < MaxFaults /\ faults' = faults + 1

\* Mistake: the error paths of NewManager do not release the barrier.
FailKeepsBarrier(p) ==
  /\ Goto(p, "off")
  /\ attempt' = [attempt EXCEPT ![p] = FALSE]
  /\ UNCHANGED hold

\* NewManager returns nil: the database is closed and the deferred release
\* gives the barrier back.
Fail(p) ==
  /\ Goto(p, "off")
  /\ hold' = [hold EXCEPT ![p] = "none"]
  /\ attempt' = [attempt EXCEPT ![p] = FALSE]

\* An error of ensureDatabaseSchemaWithChanges is recorded in the latch that
\* this start created, if it created one.
SchemaError(p) ==
  IF attempt[p] THEN Goto(p, "record") /\ UNCHANGED <<hold, attempt>>
                ELSE Fail(p)

-----------------------------------------------------------------------------
(* The operation barrier (module OperationLock)                            *)

Free(p)        == \A q \in Processes \ {p} : hold[q] = "none"
NoExclusive(p) == \A q \in Processes \ {p} : hold[q] # "exclusive"

\* acquireStartupOperationLock: exclusive at once, or shared in turn.  The
\* attempt also fails at the gate of a process that waits.
Startup(p) ==
  /\ pc[p] = "off"
  /\ \/ /\ Free(p)
        /\ hold' = [hold EXCEPT ![p] = "exclusive"]
        /\ Goto(p, "check")
     \/ /\ ~Free(p) \/ \E q \in Processes \ {p} : pc[q] = "wait"
        /\ Goto(p, "wait")
        /\ UNCHANGED hold
  /\ UNCHANGED <<files, attempt, history, faults>>

AcquireShared(p) ==
  /\ pc[p] = "wait" /\ NoExclusive(p)
  /\ hold' = [hold EXCEPT ![p] = "shared"]
  /\ Goto(p, "check")
  /\ UNCHANGED <<files, attempt, history, faults>>

-----------------------------------------------------------------------------
(* Opening the database                                                    *)

\* Mistake: only a latch with a recorded failure ends the start.
LatchChecksState(p) ==
  /\ pc[p] = "check"
  /\ \/ /\ latch # "failed"
        /\ Goto(p, "inspect")
        /\ UNCHANGED <<hold, attempt, faults>>
     \/ latch = "failed" /\ Fail(p) /\ UNCHANGED faults
     \/ Fault /\ Fail(p)
  /\ UNCHANGED <<files, history>>

\* checkDatabaseMigrationLatch: any latch ends the start.
CheckLatch(p) ==
  /\ pc[p] = "check"
  /\ \/ /\ latch = "none"
        /\ Goto(p, "inspect")
        /\ UNCHANGED <<hold, attempt, faults>>
     \/ latch # "none" /\ Fail(p) /\ UNCHANGED faults
     \/ Fault /\ Fail(p)
  /\ UNCHANGED <<files, history>>

MigrationRequired(d) == d.layout # "empty" /\ d.version < currentDatabaseVersion

\* Opening and its pragma checks, then databaseMigrationRequired.
Inspect(p) ==
  /\ pc[p] = "inspect"
  /\ \/ /\ Goto(p, IF hold[p] = "exclusive" /\ MigrationRequired(db)
                     THEN "latch" ELSE "ensure")
        /\ UNCHANGED <<hold, attempt, faults>>
     \/ Fault /\ Fail(p)
  /\ UNCHANGED <<files, history>>

\* Mistake: the latch is written but not synced.
WriteLatchUnsynced(p) ==
  /\ pc[p] = "latch" /\ latch = "none"
  /\ latch' = "attempting"
  /\ attempt' = [attempt EXCEPT ![p] = TRUE]
  /\ Goto(p, "backup")
  /\ UNCHANGED <<hold, faults, diskLatch, db, backups, diskBackups, history>>

\* writeDatabaseMigrationLatch, with O_EXCL.  The file may stay behind,
\* unsynced, when writing or syncing it fails.
WriteLatch(p) ==
  /\ pc[p] = "latch"
  /\ \/ /\ latch = "none"
        /\ latch' = "attempting" /\ diskLatch' = latch'
        /\ attempt' = [attempt EXCEPT ![p] = TRUE]
        /\ Goto(p, "backup")
        /\ UNCHANGED <<hold, faults>>
     \/ /\ IF latch = "none" THEN Fault /\ latch' \in {"none", "attempting"}
                             ELSE UNCHANGED <<faults, latch>>
        /\ Fail(p)
        /\ UNCHANGED diskLatch
  /\ UNCHANGED <<db, backups, diskBackups, history>>

\* Mistake: the backup's name holds the versions only, and an earlier attempt
\* from the same version has taken it.
BackupWithoutTime(p) ==
  /\ pc[p] = "backup"
  /\ IF \E b \in backups : b.version = db.version
     THEN Goto(p, "record") /\ UNCHANGED <<backups, diskBackups>>
     ELSE /\ backups' = backups \cup {db}
          /\ diskBackups' = diskBackups \cup {db}
          /\ Goto(p, "ensure")
  /\ UNCHANGED <<db, latch, diskLatch, hold, attempt, history, faults>>

\* backupDatabaseBeforeMigration: the staged copy is synced before the link
\* makes it visible, and the directory after.  A failure leaves no backup, a
\* published one that is not synced, or one that only keeps its staging name.
\* The backup's name holds the time, so it never meets an earlier backup.
Backup(p) ==
  /\ pc[p] = "backup"
  /\ \/ /\ backups' = backups \cup {db}
        /\ diskBackups' = diskBackups \cup {db}
        /\ Goto(p, "ensure")
        /\ UNCHANGED faults
     \/ /\ Fault
        /\ backups' \in {backups, backups \cup {db}}
        /\ diskBackups' \in {diskBackups, (diskBackups \cup {db}) \cap backups'}
        /\ Goto(p, "record")
  /\ UNCHANGED <<db, latch, diskLatch, hold, attempt, history>>

-----------------------------------------------------------------------------
(* The schema                                                              *)

\* createCurrentDatabaseSchema's transaction.
CreateSchema(p) ==
  /\ db' = [db EXCEPT !.version = currentDatabaseVersion, !.layout = "v2"]
  /\ Goto(p, "validate")
  /\ UNCHANGED <<hold, attempt, faults>>

\* ensureDatabaseSchemaWithChanges up to the migrations.
Ensure(p) ==
  /\ pc[p] = "ensure"
  /\ LET refused == \/ db.version > currentDatabaseVersion
                    \/ db.layout = "empty" /\ db.version # 0
                    \/ hold[p] # "exclusive" /\ \/ db.layout = "empty"
                                                \/ MigrationRequired(db)
     IN \/ refused /\ SchemaError(p) /\ UNCHANGED <<db, faults>>
        \/ Fault /\ SchemaError(p) /\ UNCHANGED db
        \/ ~refused /\ db.layout = "empty" /\ CreateSchema(p)
        \/ /\ ~refused /\ db.layout # "empty"
           /\ Goto(p, IF MigrationRequired(db) THEN "migrate" ELSE "validate")
           /\ UNCHANGED <<db, hold, attempt, faults>>
  /\ UNCHANGED <<latch, diskLatch, backups, diskBackups, history>>

\* migrateDatabaseV0ToV1: needs every table of version 0, removes exact
\* duplicates, and gives up on the remaining conflicts.
V0ToV1(d) ==
  IF d.layout \in {"v0", "v1", "v2"} /\ ~d.clash
  THEN {[d EXCEPT !.version = 1, !.layout = IF @ = "v0" THEN "v1" ELSE @]}
  ELSE {}

\* migrateDatabaseV1ToV2 adds what it knows to be missing.  It does not notice
\* that indexes of version 1 or unrelated tables are missing.
V1ToV2(d) ==
  {[d EXCEPT !.version = 2,
             !.layout = IF @ \in {"v1", "v2"} THEN "v2" ELSE "partial"]}

\* databaseMigrations: what a transaction from the database's version commits.
Migrated(d) == IF d.version = 0 THEN V0ToV1(d) ELSE V1ToV2(d)

\* It may fail, on a table it needs.
MayRefuse(d) == Migrated(d) = {} \/ d.layout = "partial"

\* One round of migrateDatabase's loop, its transaction included.
Migrate(p) ==
  /\ pc[p] = "migrate"
  /\ \/ /\ db' \in Migrated(db)
        /\ replaced' = IF unfinished THEN replaced ELSE replaced \cup {db}
        /\ unfinished' = TRUE
        /\ Goto(p, IF db'.version < currentDatabaseVersion THEN "migrate"
                                                           ELSE "validate")
        /\ UNCHANGED <<hold, attempt, faults>>
     \/ MayRefuse(db) /\ SchemaError(p) /\ UNCHANGED <<db, history, faults>>
     \/ Fault /\ SchemaError(p) /\ UNCHANGED <<db, history>>
  /\ UNCHANGED <<latch, diskLatch, backups, diskBackups>>

Valid(d) ==
  d.version = currentDatabaseVersion /\ d.layout = "v2" /\ ~d.broken

\* validateCurrentDatabaseSchema.
Validate(p) ==
  /\ pc[p] = "validate"
  /\ \/ /\ Valid(db)
        /\ unfinished' = FALSE
        /\ Goto(p, IF attempt[p] THEN "unlatch" ELSE "finish")
        /\ UNCHANGED <<hold, attempt, faults>>
     \/ ~Valid(db) /\ SchemaError(p) /\ UNCHANGED <<unfinished, faults>>
     \/ Fault /\ SchemaError(p) /\ UNCHANGED unfinished
  /\ UNCHANGED <<files, replaced>>

\* recordDatabaseMigrationFailure: the latch stays whatever goes wrong.
Record(p) ==
  /\ pc[p] = "record"
  /\ \/ latch' = "failed" /\ diskLatch' = latch' /\ UNCHANGED faults
     \/ Fault /\ latch' \in {latch, "failed"} /\ UNCHANGED diskLatch
  /\ Fail(p)
  /\ UNCHANGED <<db, backups, diskBackups, history>>

\* removeDatabaseMigrationLatch.  The start fails when the removal, or only
\* its sync, does.
Unlatch(p) ==
  /\ pc[p] = "unlatch"
  /\ \/ /\ latch' = "none" /\ diskLatch' = latch'
        /\ attempt' = [attempt EXCEPT ![p] = FALSE]
        /\ Goto(p, "finish")
        /\ UNCHANGED <<hold, faults>>
     \/ /\ Fault /\ latch' \in {latch, "none"}
        /\ Fail(p)
        /\ UNCHANGED diskLatch
  /\ UNCHANGED <<db, backups, diskBackups, history>>

\* The rest of NewManager: an exclusive start retries deferred cleanup, which
\* cannot fail it (module InstanceLifecycle); then the barrier is released.
Finish(p) ==
  /\ pc[p] = "finish"
  /\ hold' = [hold EXCEPT ![p] = "none"]
  /\ Goto(p, "up")
  /\ UNCHANGED <<files, attempt, history, faults>>

-----------------------------------------------------------------------------
(* Running managers, deaths, and the administrator                         *)

\* An operation of a running manager, under the barrier.
Enter(p, mode) ==
  /\ pc[p] = "up"
  /\ IF mode = "exclusive" THEN Free(p) ELSE NoExclusive(p)
  /\ hold' = [hold EXCEPT ![p] = mode]
  /\ Goto(p, "busy")
  /\ UNCHANGED <<files, attempt, history, faults>>

Leave(p) ==
  /\ pc[p] = "busy"
  /\ hold' = [hold EXCEPT ![p] = "none"]
  /\ Goto(p, "up")
  /\ UNCHANGED <<files, attempt, history, faults>>

Stop(p) == pc[p] = "up" /\ Fail(p) /\ UNCHANGED <<files, history, faults>>

\* The process dies; the kernel drops its locks.
Crash(p) ==
  /\ pc[p] \notin {"off", "up"}
  /\ Fault
  /\ Fail(p)
  /\ UNCHANGED <<files, history>>

AllOff == \A p \in Processes : pc[p] = "off"

\* Directory entries that were not synced may be gone, or back.
PowerLoss ==
  /\ Fault
  /\ latch' \in {latch, diskLatch} /\ diskLatch' = latch'
  /\ \E kept \in SUBSET (backups \ diskBackups) : backups' = diskBackups \cup kept
  /\ diskBackups' = backups'
  /\ pc' = [p \in Processes |-> "off"]
  /\ hold' = [p \in Processes |-> "none"]
  /\ attempt' = [p \in Processes |-> FALSE]
  /\ UNCHANGED <<db, history>>

\* The recovery the README asks for: every process is stopped, the database
\* is replaced, and only then does the latch go.
Attend(content) ==
  /\ AllOff
  /\ db' = content
  /\ latch' = "none" /\ diskLatch' = "none"
  /\ unfinished' = FALSE
  /\ UNCHANGED <<backups, diskBackups, pc, hold, attempt, replaced, faults>>

Restore == latch # "none" /\ \E content \in backups : Attend(content)

Repaired(d) == [d EXCEPT !.clash = FALSE, !.broken = FALSE]

Repair == (latch # "none" \/ Repaired(db) # db) /\ Attend(Repaired(db))

-----------------------------------------------------------------------------
Init ==
  /\ db \in Databases
  /\ latch = "none" /\ diskLatch = "none"
  /\ backups = {} /\ diskBackups = {}
  /\ pc = [p \in Processes |-> "off"]
  /\ hold = [p \in Processes |-> "none"]
  /\ attempt = [p \in Processes |-> FALSE]
  /\ replaced = {} /\ unfinished = FALSE
  /\ faults = 0

InitDatabase(p) ==
  \/ CheckLatch(p) \/ Inspect(p) \/ WriteLatch(p) \/ Backup(p) \/ Ensure(p)
  \/ Migrate(p) \/ Validate(p) \/ Record(p) \/ Unlatch(p) \/ Finish(p)

Next ==
  \/ \E p \in Processes :
       \/ Startup(p) \/ AcquireShared(p) \/ InitDatabase(p)
       \/ \E mode \in {"shared", "exclusive"} : Enter(p, mode)
       \/ Leave(p) \/ Stop(p) \/ Crash(p)
  \/ PowerLoss \/ Restore \/ Repair

Spec == Init /\ [][Next]_vars

\* Processes take their next step, operations end, the barrier serves those
\* who wait (OperationLock's RequestsAnswered), and the administrator ends up
\* repairing what starts refuse.
FairSpec ==
  /\ Spec
  /\ \A p \in Processes :
       /\ WF_vars(InitDatabase(p)) /\ WF_vars(Leave(p))
       /\ SF_vars(AcquireShared(p))
  /\ SF_vars(Repair)

-----------------------------------------------------------------------------
(* Properties                                                              *)

\* Values are of their types; a process holds the barrier while it initialises
\* the database or runs an operation; and a start that has created the latch
\* holds the barrier exclusively and finds the latch in place.
TypeOK ==
  /\ db \in Contents
  /\ latch \in {"none", "attempting", "failed"}
  /\ diskLatch \in {"none", "attempting", "failed"}
  /\ diskBackups \subseteq backups /\ backups \subseteq Contents
  /\ replaced \subseteq Contents /\ unfinished \in BOOLEAN
  /\ faults \in 0 .. MaxFaults
  /\ pc \in [Processes -> {"off", "wait"} \cup Starting \cup Serving]
  /\ hold \in [Processes -> {"none", "shared", "exclusive"}]
  /\ attempt \in [Processes -> BOOLEAN]
  /\ \A p \in Processes :
       /\ pc[p] \in Starting \cup {"busy"} => hold[p] # "none"
       /\ attempt[p] => hold[p] = "exclusive" /\ latch # "none"

\* Whatever a migration replaced is still in a published backup, and while a
\* migration has begun and not been validated the latch is there: after the
\* death of the process, failed system calls and a power loss too.
\* writeDatabaseMigrationLatch and backupDatabaseBeforeMigration sync file
\* and directory before the first transaction for this.
MigrationRecoverable ==
  replaced \subseteq backups /\ (unfinished => latch # "none")

\* A process serves only on a database that was validated at the current
\* version, of which no latch says that it needs attention: the check in
\* initDatabaseWithSchemaChanges stays true while other processes start,
\* fail and die.
ServesValidated ==
  (\E p \in Processes : pc[p] \in Serving) => Valid(db) /\ latch = "none"

\* Every start ends, by serving or by failing: no start waits for a barrier
\* that a failed or dead one still holds (NewManager's deferred release).
StartupEnds ==
  \A p \in Processes :
    pc[p] \in {"wait"} \cup Starting ~> pc[p] \in {"off", "up"}

\* Its schema can be brought to the current one.
Upgradable(d) ==
  \/ d.version = 0 /\ d.layout # "partial"
  \/ d.version = 1 /\ d.layout \in {"v1", "v2"}
  \/ d.version = 2 /\ d.layout = "v2"

Alone(p) == \A q \in Processes \ {p} : pc[q] = "off"

\* No sequence of failures, deaths and recoveries wedges the deployment: on a
\* database whose schema can be upgraded, a process that is started again and
\* again, in the end with no other beside it, serves again and again, backups
\* and latches of earlier attempts notwithstanding.
LoneStartServes ==
  Upgradable(db) =>
    \A p \in Processes :
      <>[]Alone(p) /\ []<>(pc[p] # "off") => []<>(pc[p] \in Serving)
=============================================================================
