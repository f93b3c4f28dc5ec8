--------------------------- MODULE BuildRequests ---------------------------
(***************************************************************************)
(* The requests that share the operation lock and so run beside each       *)
(* other: Build, Destroy, Start, Stop and CheckInstance (api.go), with     *)
(* generateBuilds, executeBuild, destroyImages (docker.go) and runSolver   *)
(* (solver_framework.go).                                                  *)
(*                                                                         *)
(* Two builds have nothing in common but the numbers they are given.       *)
(* Images and artifacts are named after the number of the row, and SQLite  *)
(* gives the number of a deleted last row to the next one: whoever removes *)
(* a row must have removed everything that bears its number before.        *)
(*                                                                         *)
(* One process.  All builds are of one challenge, so that builds with the  *)
(* same number have the same image names.  Start is cut down to what       *)
(* matters to builds; its Docker calls are in InstanceLifecycle.           *)
(***************************************************************************)
EXTENDS KeyedLock, FiniteSetsExt

CONSTANTS
  Schemas,              \* random names of manual schemas
  MaxSeeds,             \* seeds in one Build
  PortPath,             \* key of the port allocation lock
  MaxBuilds,            \* build numbers
  MaxInstances,         \* instance numbers
  Temps,                \* temporary containers
  MaxConcurrentBuilds,  \* CMGR_MAX_CONCURRENT_BUILDS
  MaxFaults             \* failed calls and crashes

BuildIds    == 1..MaxBuilds
InstanceIds == 1..MaxInstances
BuildKeys   == Schemas \X (1..MaxSeeds)

ASSUME BuildsAssumption ==
  /\ MaxSeeds \in Nat \ {0} /\ MaxConcurrentBuilds \in Nat \ {0}
  /\ MaxBuilds \in Nat /\ MaxInstances \in Nat /\ MaxFaults \in Nat
  /\ Keys = BuildKeys \cup {PortPath} /\ PortPath \notin BuildKeys
  /\ None \notin Keys \cup Schemas \cup Temps

VARIABLES
  schemas,    \* names in table schemas, all with the flag "manual"
  rows,       \* table builds: the key, and the flag once it is finalized
  images,     \* images[n]: the build whose image is tagged with number n
  files,      \* files[n]: the build whose artifacts are in n.tar.gz
  solvers,    \* numbers with a solver image
  temps,      \* temporary containers in Docker
  retired,    \* those in table retiredContainers
  instances,  \* table instances: the build, and whether containers run
  slots,      \* buildSlots in use
  req,        \* req[r]: the request, its next step and its variables
  up,         \* does the process serve?
  faults,     \* failed calls and crashes so far
  damaged     \* history: numbers whose removal was cut short

docker   == <<images, solvers, temps>>
database == <<schemas, rows, retired, instances>>
process  == <<slots, up, lockVars>>
vars == <<docker, files, database, process, req, faults, damaged>>

NoRow      == [key |-> None, flag |-> None]
NoTemp     == [image |-> None, id |-> 0, running |-> FALSE]
NoInstance == [build |-> 0, live |-> FALSE]

Idle ==
  [pc |-> "idle", op |-> "none", schema |-> None, seed |-> 0, seeds |-> 0,
   id |-> 0, err |-> FALSE, temp |-> None, inst |-> 0, listed |-> FALSE,
   doomed |-> {}]

Steps == {"reference", "lock", "open", "slot", "images", "create", "retire",
          "copy", "remove", "finalize", "discard", "forget", "unlock", "drop",
          "collect", "destroy", "artifacts", "untag", "row", "schema",
          "instance", "launch", "undo", "solver", "start", "wait", "clear"}

Requests ==
  [pc : Steps \cup {"idle"}, op : {"none", "build", "destroy", "start", "check"},
   schema : Schemas \cup {None}, seed : 0..MaxSeeds, seeds : 0..MaxSeeds,
   id : 0..MaxBuilds,                \* the build's number
   err : BOOLEAN,                    \* an error to return after clean-up
   temp : Temps \cup {None},
   inst : 0..MaxInstances,
   listed : BOOLEAN,                 \* did the row, when read, list images?
   doomed : SUBSET BuildIds]         \* builds still to be destroyed

Init ==
  /\ LockInit
  /\ schemas = {} /\ rows = [n \in BuildIds |-> NoRow]
  /\ images = [n \in BuildIds |-> None] /\ files = [n \in BuildIds |-> None]
  /\ solvers = {} /\ temps = [t \in Temps |-> NoTemp] /\ retired = {}
  /\ instances = [i \in InstanceIds |-> NoInstance]
  /\ slots = 0 /\ req = [r \in Threads |-> Idle]
  /\ up = TRUE /\ faults = 0 /\ damaged = {}

\* INTEGER PRIMARY KEY without AUTOINCREMENT: one more than the largest.
NextBuild    == Max({0} \cup {n \in BuildIds : rows[n] # NoRow}) + 1
NextInstance == Max({0} \cup {i \in InstanceIds : instances[i] # NoInstance}) + 1

InstancesOf(n) == {i \in InstanceIds : instances[i].build = n}
SchemaOf(n)    == rows[n].key[1]
SchemaBuilds(s) == {n \in BuildIds : rows[n] # NoRow /\ SchemaOf(n) = s}
KeyOf(r) == IF req[r].op = "build" THEN <<req[r].schema, req[r].seed>> ELSE PortPath

\* Docker refuses to remove, without force, an image that a container uses.
InUse(image, n) == \E t \in Temps : temps[t].image = image /\ temps[t].id = n

Fault   == faults < MaxFaults /\ faults' = faults + 1
NoFault == UNCHANGED faults

At(r, step)   == req[r].pc = step
Goto(r, step) == req' = [req EXCEPT ![r].pc = step]
Fail(r, step) == req' = [req EXCEPT ![r].pc = step, ![r].err = TRUE]
End(r)        == req' = [req EXCEPT ![r] = Idle]

\* A request works on a build it names, and a Build on all of its schema.
WorksOn(r, n) ==
  /\ req[r] # Idle
  /\ \/ req[r].id = n \/ n \in req[r].doomed
     \/ req[r].op = "build" /\ rows[n] # NoRow /\ SchemaOf(n) = req[r].schema

\* Clients wait for the answer to a request that generates or destroys a
\* build before they name the build again, and do not destroy what they use.
Free(n, ops) == \A r \in Threads : WorksOn(r, n) => req[r].op \notin ops

-----------------------------------------------------------------------------
(* Build                                                                   *)

\* randomIdentifier: a name that nobody uses.  An empty record that a crash
\* or an error left stays in the database for ever; it is forgotten here when
\* its name is taken for a new one.
FreshSchema(s) == SchemaBuilds(s) = {} /\ \A r \in Threads : req[r].schema # s

\* Build up to the loop of generateBuilds: the record of the schema, then
\* DetectChanges and createBuildContext, which may refuse.
Build(r, n) ==
  /\ up /\ req[r] = Idle
  /\ \E s \in Schemas, refused \in BOOLEAN :
       /\ FreshSchema(s)
       /\ schemas' = schemas \cup {s}
       /\ req' = [req EXCEPT ![r] = [Idle EXCEPT
                    !.op = "build", !.schema = s, !.seed = 1, !.seeds = n,
                    !.err = refused,
                    !.pc = IF refused THEN "collect" ELSE "reference"]]
  /\ UNCHANGED <<docker, files, rows, retired, instances, process, faults, damaged>>

\* acquireBuildLock, and acquirePortAllocationLock for Start.
ReferenceLock(r) ==
  /\ At(r, "reference") /\ Reference(r, KeyOf(r)) /\ Goto(r, "lock")
  /\ UNCHANGED <<docker, files, database, slots, up, faults, damaged>>

WaitForLock(r) ==
  /\ At(r, "lock") /\ LockKey(r)
  /\ Goto(r, IF req[r].op = "build" THEN "open" ELSE "launch")
  /\ UNCHANGED <<docker, files, database, slots, up, faults, damaged>>

\* openBuild.  The key is new (the schema's name is random and validateSeeds
\* rejects equal seeds), so there is no conflict; SchemaConvergence has that.
\* The row is inserted and then read: the second may fail alone.
OpenBuild(r) ==
  /\ At(r, "open")
  /\ LET n == NextBuild
         Inserted == /\ rows' = [rows EXCEPT ![n] = [key |-> KeyOf(r), flag |-> None]]
                     /\ damaged' = damaged \ {n}
     IN  \/ /\ n \in BuildIds /\ Inserted /\ NoFault
            /\ req' = [req EXCEPT ![r].id = n, ![r].pc = "slot"]
         \/ n \in BuildIds /\ Inserted /\ Fault /\ Fail(r, "unlock")
         \/ /\ IF n \in BuildIds THEN Fault ELSE NoFault
            /\ Fail(r, "unlock") /\ UNCHANGED <<rows, damaged>>
  /\ UNCHANGED <<docker, files, schemas, retired, instances, process>>

TakeSlot(r) ==
  /\ At(r, "slot") /\ slots < MaxConcurrentBuilds
  /\ slots' = slots + 1 /\ Goto(r, "images")
  /\ UNCHANGED <<docker, files, database, up, lockVars, faults, damaged>>

\* executeBuild has returned and generateBuilds goes on.
Executed(r, failed) ==
  /\ slots' = slots - 1
  /\ req' = [req EXCEPT ![r].err = failed, ![r].temp = None,
                        ![r].pc = IF failed THEN "discard" ELSE "finalize"]

\* One ImageBuild per host; a broken challenge fails, before or after the
\* tag was set.
BuildImages(r) ==
  /\ At(r, "images")
  /\ \/ /\ images' = [images EXCEPT ![req[r].id] = KeyOf(r)]
        /\ \/ Goto(r, "create") /\ UNCHANGED slots
           \/ Executed(r, TRUE)
     \/ Executed(r, TRUE) /\ UNCHANGED images
  /\ UNCHANGED <<files, solvers, temps, database, up, lockVars, faults, damaged>>

\* The container that artifacts are copied from, or the solver's; the solver
\* joins the network of the instance.
CanCreate(r) ==
  IF req[r].op = "build" THEN images[req[r].id] # None
  ELSE req[r].id \in solvers /\ instances[req[r].inst] # NoInstance

FreeTemps == {t \in Temps \ retired : temps[t] = NoTemp}

\* The temporary container could not be made, or is gone again.
WithoutTemp(r) ==
  IF req[r].op = "build" THEN Executed(r, TRUE)
  ELSE req' = [req EXCEPT ![r].pc = "clear", ![r].temp = None] /\ UNCHANGED slots

\* Mistake: the solver runs before it is recorded.
CreateRunning(r) ==
  /\ At(r, "create") /\ CanCreate(r)
  /\ \E t \in FreeTemps :
       /\ temps' = [temps EXCEPT ![t] =
                      [image |-> req[r].op, id |-> req[r].id,
                       running |-> req[r].op = "check"]]
       /\ req' = [req EXCEPT ![r].temp = t, ![r].pc = "retire"]
  /\ UNCHANGED <<images, solvers, files, database, process, faults, damaged>>

CreateTemporary(r) ==
  /\ At(r, "create")
  /\ \/ /\ CanCreate(r)
        /\ \E t \in FreeTemps :
             /\ temps' = [temps EXCEPT ![t] =
                            [image |-> req[r].op, id |-> req[r].id, running |-> FALSE]]
             /\ req' = [req EXCEPT ![r].temp = t, ![r].pc = "retire"]
        /\ NoFault /\ UNCHANGED slots
     \/ /\ IF CanCreate(r) /\ FreeTemps # {} THEN Fault ELSE NoFault
        /\ WithoutTemp(r) /\ UNCHANGED temps
  /\ UNCHANGED <<images, solvers, files, database, up, lockVars, damaged>>

\* retireContainer; without the record the container is removed at once,
\* and an error of that is only returned.
RetireTemporary(r) ==
  /\ At(r, "retire")
  /\ \/ /\ retired' = retired \cup {req[r].temp}
        /\ Goto(r, IF req[r].op = "build" THEN "copy" ELSE "start")
        /\ NoFault /\ UNCHANGED <<temps, slots>>
     \/ /\ Fault /\ WithoutTemp(r) /\ UNCHANGED retired
        /\ \/ temps' = [temps EXCEPT ![req[r].temp] = NoTemp]
           \/ UNCHANGED temps
  /\ UNCHANGED <<images, solvers, files, schemas, rows, instances, up, lockVars, damaged>>

\* CopyFromContainer, the flag, cacheArtifacts and validateBuild.  A failure
\* may leave the archive, or have removed the one that was there.
CopyOut(r) ==
  /\ At(r, "copy")
  /\ \/ files' = [files EXCEPT ![req[r].id] = KeyOf(r)] /\ Goto(r, "remove")
     \/ /\ \E f \in {files[req[r].id], KeyOf(r), None} :
             files' = [files EXCEPT ![req[r].id] = f]
        /\ Fail(r, "remove")
  /\ UNCHANGED <<docker, database, process, faults, damaged>>

\* The deferred removeRetiredContainerIDs: its errors are only logged, and
\* the record stays for the next recovery.
RemoveTemporary(r) ==
  /\ At(r, "remove")
  /\ \/ /\ temps' = [temps EXCEPT ![req[r].temp] = NoTemp]
        /\ retired' = retired \ {req[r].temp} /\ NoFault
     \/ /\ Fault /\ UNCHANGED retired
        /\ \/ temps' = [temps EXCEPT ![req[r].temp] = NoTemp]
           \/ UNCHANGED temps
  /\ IF req[r].op = "build" THEN Executed(r, req[r].err) ELSE WithoutTemp(r)
  /\ UNCHANGED <<images, solvers, files, schemas, rows, instances, up, lockVars, damaged>>

\* finalizeBuild finds the row by its number and fails when it is gone.
FinalizeBuild(r) ==
  /\ At(r, "finalize")
  /\ \/ /\ rows[req[r].id] # NoRow
        /\ rows' = [rows EXCEPT ![req[r].id].flag = KeyOf(r)]
        /\ Goto(r, "unlock") /\ NoFault
     \/ /\ IF rows[req[r].id] # NoRow THEN Fault ELSE NoFault
        /\ Fail(r, "discard") /\ UNCHANGED rows
  /\ UNCHANGED <<docker, files, schemas, retired, instances, process, damaged>>

Dropped(n) == images' = [images EXCEPT ![n] = None] /\ files' = [files EXCEPT ![n] = None]

\* Mistake: the row goes first.
DiscardAfterRow(r) ==
  /\ At(r, "discard")
  /\ IF rows[req[r].id] # NoRow /\ rows[req[r].id].key = KeyOf(r)
     THEN rows' = [rows EXCEPT ![req[r].id] = NoRow] /\ UNCHANGED <<images, files, req>>
     ELSE Dropped(req[r].id) /\ Goto(r, "unlock") /\ UNCHANGED rows
  /\ UNCHANGED <<solvers, temps, schemas, retired, instances, process, faults, damaged>>

\* Mistake: only the archive is removed.
DiscardArchive(r) ==
  /\ At(r, "discard")
  /\ files' = [files EXCEPT ![req[r].id] = None] /\ Goto(r, "forget")
  /\ UNCHANGED <<docker, database, process, faults, damaged>>

\* discardStagedBuild: images without force, then the archive; it goes on
\* after errors.
DiscardStagedBuild(r) ==
  /\ At(r, "discard")
  /\ LET n == req[r].id
     IN  \/ Dropped(n) /\ ~InUse("build", n) /\ NoFault
         \/ /\ files' = [files EXCEPT ![n] = None] /\ UNCHANGED images
            /\ IF InUse("build", n) THEN NoFault ELSE Fault
         \/ images' = [images EXCEPT ![n] = None] /\ UNCHANGED files /\ Fault
  /\ Goto(r, "forget")
  /\ UNCHANGED <<solvers, temps, database, process, damaged>>

\* removeBuildMetadata: one row, and none that an instance refers to
\* (ON DELETE RESTRICT).
Deletable(n) == rows[n] # NoRow /\ InstancesOf(n) = {}

ForgetBuild(r) ==
  /\ At(r, "forget")
  /\ \/ /\ Deletable(req[r].id) /\ NoFault
        /\ rows' = [rows EXCEPT ![req[r].id] = NoRow]
     \/ /\ IF Deletable(req[r].id) THEN Fault ELSE NoFault
        /\ UNCHANGED rows
  /\ Goto(r, "unlock")
  /\ UNCHANGED <<docker, files, schemas, retired, instances, process, damaged>>

ReleaseLock(r) ==
  /\ At(r, "unlock") /\ UnlockKey(r) /\ Goto(r, "drop")
  /\ UNCHANGED <<docker, files, database, slots, up, faults, damaged>>

\* The next seed, the clean-up, or the end.
DropLock(r) ==
  /\ At(r, "drop") /\ Dereference(r)
  /\ CASE req[r].op = "build" /\ req[r].err -> Goto(r, "collect")
       [] req[r].op = "build" /\ ~req[r].err /\ req[r].seed < req[r].seeds ->
            req' = [req EXCEPT ![r].seed = @ + 1, ![r].id = 0, ![r].pc = "reference"]
       [] req[r].op = "start" /\ req[r].err -> Goto(r, "undo")
       [] OTHER -> End(r)
  /\ UNCHANGED <<docker, files, database, slots, up, faults, damaged>>

\* Build has failed: getSchemaBuilds.
Collect(r) ==
  /\ At(r, "collect")
  /\ \/ req' = [req EXCEPT ![r].doomed = SchemaBuilds(req[r].schema),
                           ![r].id = 0, ![r].pc = "destroy"] /\ NoFault
     \/ Goto(r, "schema") /\ Fault
  /\ UNCHANGED <<docker, files, database, process, damaged>>

-----------------------------------------------------------------------------
(* Destroy, and the same for the builds of a failed Build                  *)

Destroy(r, n) ==
  /\ up /\ req[r] = Idle
  /\ rows[n] # NoRow /\ SchemaOf(n) \in schemas  \* lookupBuildMetadata, schemaIsManual
  /\ Free(n, {"build", "destroy", "start", "check"})
  /\ req' = [req EXCEPT ![r] = [Idle EXCEPT !.op = "destroy", !.doomed = {n},
                                  !.schema = SchemaOf(n), !.pc = "destroy"]]
  /\ UNCHANGED <<docker, files, database, process, faults, damaged>>

\* destroyImages has returned: Destroy returns its error, Build collects it.
Destroyed(r, ok) ==
  IF req[r].op = "build"
  THEN req' = [req EXCEPT ![r].id = 0, ![r].doomed = @ \ {req[r].id}, ![r].pc = "destroy"]
  ELSE IF ok THEN Goto(r, "schema") ELSE End(r)

\* destroyImages reads the row and refuses while there are instances.
DestroyImages(r) ==
  /\ At(r, "destroy")
  /\ \/ req[r].doomed = {} /\ Goto(r, "schema") /\ NoFault
     \/ \E n \in req[r].doomed :
          \/ /\ Deletable(n) /\ NoFault
             /\ req' = [req EXCEPT ![r].id = n, ![r].listed = rows[n].flag # None,
                                   ![r].pc = "artifacts"]
          \/ /\ IF Deletable(n) THEN Fault ELSE NoFault
             /\ IF req[r].op = "build"
                THEN req' = [req EXCEPT ![r].doomed = @ \ {n}]
                ELSE End(r)
  /\ UNCHANGED <<docker, files, database, process, damaged>>

RemoveArtifacts(r) ==
  /\ At(r, "artifacts")
  /\ \/ /\ files' = IF req[r].listed THEN [files EXCEPT ![req[r].id] = None] ELSE files
        /\ Goto(r, "untag") /\ NoFault
     \/ Fault /\ Destroyed(r, FALSE) /\ UNCHANGED files
  /\ UNCHANGED <<docker, database, process, damaged>>

\* ImageRemove with force.
RemoveImages(r) ==
  /\ At(r, "untag")
  /\ \/ /\ images' = IF req[r].listed THEN [images EXCEPT ![req[r].id] = None] ELSE images
        /\ Goto(r, "row") /\ NoFault /\ UNCHANGED damaged
     \/ /\ Fault /\ Destroyed(r, FALSE) /\ damaged' = damaged \cup {req[r].id}
        /\ UNCHANGED images
  /\ UNCHANGED <<solvers, temps, files, database, process>>

\* removeBuildMetadata.
RemoveRow(r) ==
  /\ At(r, "row")
  /\ \/ /\ Deletable(req[r].id) /\ NoFault /\ Destroyed(r, TRUE)
        /\ rows' = [rows EXCEPT ![req[r].id] = NoRow] /\ UNCHANGED damaged
     \/ /\ IF Deletable(req[r].id)
           THEN Fault /\ damaged' = damaged \cup {req[r].id}
           ELSE NoFault /\ UNCHANGED damaged
        /\ Destroyed(r, FALSE) /\ UNCHANGED rows
  /\ UNCHANGED <<docker, files, schemas, retired, instances, process>>

DeleteSchemaRecordIfEmpty(r) ==
  /\ At(r, "schema")
  /\ \/ /\ schemas' = IF SchemaBuilds(req[r].schema) = {}
                      THEN schemas \ {req[r].schema} ELSE schemas
        /\ NoFault
     \/ Fault /\ UNCHANGED schemas
  /\ End(r)
  /\ UNCHANGED <<docker, files, rows, retired, instances, process, damaged>>

-----------------------------------------------------------------------------
(* Start, Stop and CheckInstance                                           *)

Start(r, n) ==
  /\ up /\ req[r] = Idle /\ rows[n] # NoRow
  /\ Free(n, {"build", "destroy"})
  /\ req' = [req EXCEPT ![r] = [Idle EXCEPT !.op = "start", !.id = n,
                          !.listed = rows[n].flag # None, !.pc = "instance"]]
  /\ UNCHANGED <<docker, files, database, process, faults, damaged>>

\* openInstance: the foreign key wants the build's row.
OpenInstance(r) ==
  /\ At(r, "instance")
  /\ LET i == NextInstance
         possible == rows[req[r].id] # NoRow /\ i \in InstanceIds
     IN  \/ /\ possible /\ NoFault
            /\ instances' = [instances EXCEPT ![i] = [build |-> req[r].id, live |-> FALSE]]
            /\ req' = [req EXCEPT ![r].inst = i, ![r].pc = "reference"]
         \/ /\ IF possible THEN Fault ELSE NoFault
            /\ End(r) /\ UNCHANGED instances
  /\ UNCHANGED <<docker, files, schemas, rows, retired, process, damaged>>

\* startContainers and finalizeInstance, for the images the row listed.
Launch(r) ==
  /\ At(r, "launch")
  /\ LET possible == req[r].listed => images[req[r].id] # None
     IN  \/ /\ possible /\ NoFault /\ Goto(r, "unlock")
            /\ instances' = [instances EXCEPT ![req[r].inst].live = req[r].listed]
         \/ /\ IF possible THEN Fault ELSE NoFault
            /\ Fail(r, "unlock") /\ UNCHANGED instances
  /\ UNCHANGED <<docker, files, schemas, rows, retired, process, damaged>>

\* The roll-back of newInstance.
UndoInstance(r) ==
  /\ At(r, "undo")
  /\ \/ instances' = [instances EXCEPT ![req[r].inst] = NoInstance] /\ NoFault
     \/ Fault /\ UNCHANGED instances
  /\ End(r)
  /\ UNCHANGED <<docker, files, schemas, rows, retired, process, damaged>>

\* An instance that no Start works on any more.
Returned(i) ==
  /\ instances[i] # NoInstance
  /\ \A r \in Threads : ~(req[r].op = "start" /\ req[r].inst = i)

\* Stop, in one step.
Stop(i) ==
  /\ up /\ Returned(i)
  /\ instances' = [instances EXCEPT ![i] = NoInstance]
  /\ UNCHANGED <<docker, files, schemas, rows, retired, process, req, faults, damaged>>

CheckInstance(r, i) ==
  /\ up /\ req[r] = Idle /\ Returned(i)
  /\ Free(instances[i].build, {"build", "destroy"})
  /\ req' = [req EXCEPT ![r] = [Idle EXCEPT !.op = "check", !.inst = i,
                          !.id = instances[i].build, !.pc = "solver"]]
  /\ UNCHANGED <<docker, files, database, process, faults, damaged>>

\* runSolver: the solver's image is named after the build, not the instance.
\* The removal is deferred only after the whole progress was read: an error
\* that comes after the tag leaves the image.
BuildSolver(r) ==
  /\ At(r, "solver")
  /\ \/ /\ solvers' = solvers \cup {req[r].id}
        /\ \/ Goto(r, "create") /\ NoFault
           \/ End(r) /\ Fault
     \/ End(r) /\ NoFault /\ UNCHANGED solvers
  /\ UNCHANGED <<images, temps, files, database, process, damaged>>

StartSolver(r) ==
  /\ At(r, "start")
  /\ \/ /\ temps' = [temps EXCEPT ![req[r].temp].running = TRUE]
        /\ Goto(r, "wait") /\ NoFault
     \/ Fault /\ Goto(r, "remove") /\ UNCHANGED temps
  /\ UNCHANGED <<images, solvers, files, database, process, damaged>>

\* The solver ends, or the time is over and it still runs.  The flag it
\* found, and when it was found (recordSolve), matter to nothing here.
WaitForSolver(r) ==
  /\ At(r, "wait")
  /\ \E still \in BOOLEAN : temps' = [temps EXCEPT ![req[r].temp].running = still]
  /\ Goto(r, "remove")
  /\ UNCHANGED <<images, solvers, files, database, process, faults, damaged>>

\* The deferred ImageRemove, without force; nobody looks at its error.
ClearSolver(r) ==
  /\ At(r, "clear")
  /\ solvers' = IF InUse("check", req[r].id) THEN solvers ELSE solvers \ {req[r].id}
  /\ End(r)
  /\ UNCHANGED <<images, temps, files, database, process, faults, damaged>>

-----------------------------------------------------------------------------
(* The process dies and starts again                                       *)

Crash ==
  /\ up /\ up' = FALSE /\ Fault
  /\ damaged' = damaged \cup {req[r].id : r \in {q \in Threads : At(q, "untag") \/ At(q, "row")}}
  /\ req' = [r \in Threads |-> Idle] /\ slots' = 0
  /\ locks' = [k \in Keys |-> None] /\ refs' = [l \in Locks |-> 0]
  /\ holder' = [l \in Locks |-> None] /\ ref' = [t \in Threads |-> NoRef]
  /\ UNCHANGED <<docker, files, database>>

\* retryRetiredResources and reconcileBrokenInstances; a failure leaves some
\* of it for the next start.
Recover ==
  /\ ~up /\ up' = TRUE
  /\ \E gone \in SUBSET retired, fixed \in SUBSET {i \in InstanceIds : ~instances[i].live} :
       /\ IF gone = retired /\ \A i \in InstanceIds \ fixed : instances[i].live
          THEN NoFault ELSE Fault
       /\ temps' = [t \in Temps |-> IF t \in gone THEN NoTemp ELSE temps[t]]
       /\ retired' = retired \ gone
       /\ instances' = [i \in InstanceIds |-> IF i \in fixed THEN NoInstance ELSE instances[i]]
  /\ UNCHANGED <<images, solvers, files, schemas, rows, slots, lockVars, req, damaged>>

-----------------------------------------------------------------------------

Step(r) ==
  \/ ReferenceLock(r) \/ WaitForLock(r) \/ OpenBuild(r) \/ TakeSlot(r)
  \/ BuildImages(r) \/ CreateTemporary(r) \/ RetireTemporary(r) \/ CopyOut(r)
  \/ RemoveTemporary(r) \/ FinalizeBuild(r) \/ DiscardStagedBuild(r)
  \/ ForgetBuild(r) \/ ReleaseLock(r) \/ DropLock(r) \/ Collect(r)
  \/ DestroyImages(r) \/ RemoveArtifacts(r) \/ RemoveImages(r) \/ RemoveRow(r)
  \/ DeleteSchemaRecordIfEmpty(r) \/ OpenInstance(r) \/ Launch(r)
  \/ UndoInstance(r) \/ BuildSolver(r) \/ StartSolver(r) \/ WaitForSolver(r)
  \/ ClearSolver(r)

Next ==
  \/ \E r \in Threads :
       \/ Step(r)
       \/ \E n \in 1..MaxSeeds : Build(r, n)
       \/ \E n \in BuildIds : Destroy(r, n) \/ Start(r, n)
       \/ \E i \in InstanceIds : CheckInstance(r, i)
  \/ \E i \in InstanceIds : Stop(i)
  \/ Crash \/ Recover

Spec == Init /\ [][Next]_vars

-----------------------------------------------------------------------------

\* The type of the state.
TypeOK ==
  /\ LockTypeOK
  /\ schemas \subseteq Schemas
  /\ rows \in [BuildIds -> [key : BuildKeys, flag : BuildKeys \cup {None}] \cup {NoRow}]
  /\ images \in [BuildIds -> BuildKeys \cup {None}]
  /\ files \in [BuildIds -> BuildKeys \cup {None}]
  /\ solvers \subseteq BuildIds /\ retired \subseteq Temps
  /\ temps \in [Temps -> [image : {"build", "check"}, id : BuildIds,
                          running : BOOLEAN] \cup {NoTemp}]
  /\ instances \in [InstanceIds -> [build : 0..MaxBuilds, live : BOOLEAN]]
  /\ slots \in 0..MaxConcurrentBuilds
  /\ req \in [Threads -> Requests]
  /\ up \in BOOLEAN /\ faults \in 0..MaxFaults
  /\ damaged \subseteq BuildIds

Removing(n) == \E r \in Threads : req[r].id = n /\ req[r].pc \in {"untag", "row"}

\* Build returns builds that work: whatever fails, whatever else is built,
\* destroyed or started, and whichever number is used again, a finished row
\* carries its own flag, and the image and the archive of its number are its
\* own, until a Destroy removes them (or fails half way).
FinishedIntact ==
  \A n \in BuildIds :
    rows[n].flag # None =>
      /\ rows[n].flag = rows[n].key
      /\ n \in damaged \/ Removing(n) \/ (images[n] = rows[n].key /\ files[n] = rows[n].key)

\* A Build that fails and a Destroy that succeeds leave nothing: without
\* failed calls or crashes, a number that no request works on has a finished
\* row in a recorded schema, or no row, image or archive.
NothingLeft ==
  faults = 0 =>
    \A n \in BuildIds :
      \/ \E r \in Threads : WorksOn(r, n)
      \/ rows[n] = NoRow /\ images[n] = None /\ files[n] = None
      \/ rows[n].flag # None /\ SchemaOf(n) \in schemas

\* retireContainer comes before ContainerStart: a solver that runs is in the
\* table that recovery reads, also after a crash.
SolversTracked == \A t \in Temps : temps[t].running => t \in retired
=============================================================================
