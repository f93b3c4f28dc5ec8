-------------------------- MODULE SchemaConvergence --------------------------
(***************************************************************************)
(* One schema: CreateSchema, UpdateSchema and DeleteSchema (cmgr/api.go),  *)
(* the builds they stage, generate, activate and destroy (docker.go,       *)
(* database_builds.go) and the instances they scale.                       *)
(*                                                                         *)
(* The three requests hold the operation barrier exclusively for their     *)
(* whole interval, so at most one is under way; clients that start and     *)
(* stop dynamic instances, and start-up recovery, run between them.  A     *)
(* request is a sequence of database statements and calls to Docker, each  *)
(* of which may fail, and the process may die between any two.  What       *)
(* starting and stopping one instance does is the subject of               *)
(* InstanceLifecycle; here an instance runs, or is a row without (all) its *)
(* containers.                                                             *)
(***************************************************************************)
EXTENDS Integers, FiniteSets, Sequences, SequencesExt

CONSTANTS
  Keys,          \* builds by (format, challenge, seed)
  Definitions,   \* definitions clients ask for: Keys in use -> instance count
  Deployed,      \* definitions the schema may have converged on before
  Kinds,         \* requests clients make
  MaxInstances,  \* bound on the instances clients start of a build
  Faults,        \* kinds of failure that may happen
  MaxFaults,     \* bound on their number
  None

DYNAMIC_INSTANCES == -1
LOCKED            == -2

\* validateSchemaDefinition
Valid(d) == /\ DOMAIN d \subseteq Keys
            /\ \A k \in DOMAIN d : d[k] \in Int /\ d[k] >= DYNAMIC_INSTANCES

ASSUME SchemaAssumption ==
  /\ \A d \in Definitions \cup Deployed : d = [k \in DOMAIN d |-> d[k]]
  /\ \A d \in Definitions \cup Deployed : Valid(d)
  /\ Kinds \subseteq {"create", "update", "delete"}
  /\ MaxInstances \in Nat /\ MaxFaults \in Nat
  /\ Faults \subseteq {"docker", "db", "crash"}
  /\ None \notin Int /\ None \notin Definitions

VARIABLES
  schema,   \* the schemas row exists
  count,    \* count[k]: builds.instancecount, None if there is no row
  flag,     \* flag[k]: builds.flag is set, the build was finalized
  image,    \* image[k]: Docker has the images and the disk the artifacts
  insts,    \* insts[k]: the instances of the build in the order of their ids
  req,      \* the request under way: program counter and local variables
  faults    \* failures so far

builds == <<count, flag, image>>
vars   == <<schema, builds, insts, req, faults>>

Existing == {k \in Keys : count[k] # None}
Locked   == {k \in Keys : count[k] = LOCKED}
Active   == Existing \ Locked

Empty == [k \in {} |-> 0]
Idle  == [kind |-> "none", pc |-> "idle", def |-> Empty, todo |-> {},
          made |-> <<>>, at |-> 0, after |-> "reduce", errs |-> FALSE]

Steps == {"idle", "stage", "generate", "finalize", "discard", "drop", "scale",
          "start", "undo", "activate", "cleanup", "erase", "reduce",
          "rollback", "end", "record"}

Requests ==
  [kind : {"none", "create", "update", "delete"}, pc : Steps,
   def : Definitions \cup {Empty},
   todo : SUBSET Keys,               \* what a loop has still to visit
   made : Seq(Keys \X (Nat \ {0})), \* createdInstances
   at : Nat,                         \* failed stops in this reduction
   after : {"reduce", "record"},     \* what follows the clean-up
   errs : BOOLEAN]

TypeOK ==
  /\ schema \in BOOLEAN
  /\ count \in [Keys -> Int \cup {None}]
  /\ flag \in [Keys -> BOOLEAN] /\ image \in [Keys -> BOOLEAN]
  /\ insts \in [Keys -> Seq({"up", "part"})]
  /\ req \in Requests
  /\ faults \in 0 .. MaxFaults

Init ==
  /\ \/ /\ schema = FALSE
        /\ count = [k \in Keys |-> None]
     \/ /\ schema = TRUE
        /\ \E d \in Deployed :
             count = [k \in Keys |-> IF k \in DOMAIN d THEN d[k] ELSE None]
  /\ flag = [k \in Keys |-> count[k] # None]
  /\ image = flag
  /\ insts = [k \in Keys |->
       IF count[k] # None /\ count[k] > 0 THEN [j \in 1 .. count[k] |-> "up"]
       ELSE <<>>]
  /\ req = Idle
  /\ faults = 0

-----------------------------------------------------------------------------
Fails(k) == k \in Faults /\ faults < MaxFaults /\ faults' = faults + 1
Works    == UNCHANGED faults

At(p)   == req.pc = p
Goto(p) == req' = [req EXCEPT !.pc = p]

\* A loop over the definition's builds begins at step p, and is done with k.
\* The order of the builds makes no difference.
Loop(p)   == req' = [req EXCEPT !.pc = p, !.todo = DOMAIN req.def, !.at = 0]
Visited   == req' = [req EXCEPT !.todo = @ \ {CHOOSE k \in @ : TRUE}, !.at = 0]
Current   == CHOOSE k \in req.todo : TRUE

\* failBeforeActivation
FailBeforeActivation == req' = [req EXCEPT !.pc = "rollback", !.errs = TRUE]

-----------------------------------------------------------------------------
(* The requests                                                            *)

Ask(kind, d) == req' = [Idle EXCEPT !.kind = kind, !.pc = "stage", !.def = d,
                                    !.todo = DOMAIN d]

CreateSchema(d) ==
  /\ At("idle") /\ "create" \in Kinds /\ ~schema
  /\ schema' = TRUE
  /\ Ask("create", d)
  /\ UNCHANGED <<builds, insts, faults>>

UpdateSchema(d) ==
  /\ At("idle") /\ "update" \in Kinds /\ schema
  /\ Ask("update", d)
  /\ UNCHANGED <<schema, builds, insts, faults>>

\* DeleteSchema: lockSchema, then clean up and delete the record.
LockAll == count' = [k \in Keys |-> IF count[k] = None THEN None ELSE LOCKED]

DeleteSchema ==
  /\ At("idle") /\ "delete" \in Kinds /\ schema
  /\ LockAll
  /\ req' = [Idle EXCEPT !.kind = "delete", !.pc = "cleanup",
                         !.after = "record"]
  /\ UNCHANGED <<schema, flag, image, insts, faults>>

-----------------------------------------------------------------------------
(* convergeSchema before the activation                                    *)

\* Mistake: a row that an earlier attempt left is an error.
StageNewOnly ==
  LET k == Current IN
  /\ At("stage")
  /\ IF req.todo = {} THEN Loop("generate") /\ UNCHANGED count
     ELSE IF count[k] = None
     THEN Visited /\ count' = [count EXCEPT ![k] = LOCKED]
     ELSE FailBeforeActivation /\ UNCHANGED count
  /\ UNCHANGED <<schema, flag, image, insts, faults>>

\* stageBuild: a new row is locked; an existing one is left as it is.
StageBuild ==
  LET k == Current IN
  /\ At("stage")
  /\ \/ /\ req.todo # {} /\ Works
        /\ count' = [count EXCEPT ![k] = IF @ = None THEN LOCKED ELSE @]
        /\ Visited
     \/ req.todo # {} /\ Fails("db") /\ FailBeforeActivation /\ UNCHANGED count
     \/ req.todo = {} /\ Works /\ Loop("generate") /\ UNCHANGED count
  /\ UNCHANGED <<schema, flag, image, insts>>

\* generateBuilds: a finished build is skipped.  The checks of the challenge
\* and its directory may fail before executeBuild, which may fail with or
\* without images left behind.
GenerateBuild ==
  LET k == Current IN
  /\ At("generate")
  /\ \/ req.todo # {} /\ flag[k] /\ Works /\ Visited /\ UNCHANGED image
     \/ /\ req.todo # {} /\ ~flag[k]
        /\ \/ /\ Works
              /\ image' = [image EXCEPT ![k] = TRUE]
              /\ Goto("finalize")
           \/ /\ Fails("docker")
              /\ image' \in {image, [image EXCEPT ![k] = TRUE]}
              /\ Goto("discard")
           \/ /\ Fails("docker") \/ Fails("db")
              /\ FailBeforeActivation /\ UNCHANGED image
     \/ req.todo = {} /\ Works /\ Loop("scale") /\ UNCHANGED image
  /\ UNCHANGED <<schema, count, flag, insts>>

\* Mistake: the build's results are not written.
FinalizeNothing ==
  /\ At("finalize")
  /\ req' = [req EXCEPT !.pc = "generate", !.todo = @ \ {Current}]
  /\ UNCHANGED <<schema, builds, insts, faults>>

FinalizeBuild ==
  /\ At("finalize")
  /\ \/ /\ Works
        /\ flag' = [flag EXCEPT ![Current] = TRUE]
        /\ Goto("generate")
     \/ Fails("db") /\ Goto("discard") /\ UNCHANGED flag
  /\ UNCHANGED <<schema, count, image, insts>>

\* discardStagedBuild and removeBuildMetadata after a failed build; neither
\* depends on the other's success.
DiscardBuild ==
  /\ At("discard")
  /\ \/ Works /\ image' = [image EXCEPT ![Current] = FALSE]
     \/ Fails("docker") /\ UNCHANGED image
  /\ Goto("drop")
  /\ UNCHANGED <<schema, count, flag, insts>>

\* DELETE FROM builds; the foreign key of instances refuses it while the
\* build has instances.
RemoveBuildMetadata(k) ==
  /\ insts[k] = <<>>
  /\ count' = [count EXCEPT ![k] = None]
  /\ flag' = [flag EXCEPT ![k] = FALSE]

DropBuild ==
  /\ At("drop")
  /\ \/ Works /\ RemoveBuildMetadata(Current)
     \/ /\ \/ insts[Current] # <<>> /\ Works
           \/ Fails("db")
        /\ UNCHANGED <<count, flag>>
  /\ FailBeforeActivation
  /\ UNCHANGED <<schema, image, insts>>

\* Scale up: openInstance until the build has as many rows as it should.
Short(k) == req.def[k] # DYNAMIC_INSTANCES /\ Len(insts[k]) < req.def[k]

ScaleUp ==
  LET k == Current IN
  /\ At("scale")
  /\ \/ /\ req.todo # {} /\ Short(k) /\ Works
        /\ insts' = [insts EXCEPT ![k] = Append(@, "part")]
        /\ Goto("start")
     \/ req.todo # {} /\ ~Short(k) /\ Works /\ Visited /\ UNCHANGED insts
     \/ req.todo # {} /\ Fails("db") /\ FailBeforeActivation /\ UNCHANGED insts
     \/ req.todo = {} /\ Works /\ Goto("activate") /\ UNCHANGED insts
  /\ UNCHANGED <<schema, builds>>

\* The rest of newInstance: Docker cannot start what has no image.
StartInstance ==
  LET k == Current
      n == Len(insts[k])
  IN
  /\ At("start")
  /\ \/ /\ image[k] /\ Works
        /\ insts' = [insts EXCEPT ![k][n] = "up"]
        /\ req' = [req EXCEPT !.pc = "scale", !.made = Append(@, <<k, n>>)]
     \/ /\ \/ ~image[k] /\ Works
           \/ Fails("docker") \/ Fails("db")
        /\ Goto("undo") /\ UNCHANGED insts
  /\ UNCHANGED <<schema, builds>>

\* The roll-back of newInstance removes the row, if it can.
UndoInstance ==
  /\ At("undo")
  /\ \/ Works /\ insts' = [insts EXCEPT ![Current] = Front(@)]
     \/ Fails("db") /\ UNCHANGED insts
  /\ FailBeforeActivation
  /\ UNCHANGED <<schema, builds>>

\* Mistake: builds are activated one by one.
ActivateOne ==
  /\ At("activate")
  /\ \/ \E k \in DOMAIN req.def :
          /\ count[k] # req.def[k] /\ count' = [count EXCEPT ![k] = req.def[k]]
          /\ UNCHANGED req
     \/ /\ \A k \in DOMAIN req.def : count[k] = req.def[k]
        /\ Goto("cleanup") /\ UNCHANGED count
  /\ UNCHANGED <<schema, flag, image, insts, faults>>

\* activateSchemaBuilds: one transaction, which needs every row.
ActivateBuilds ==
  LET complete == DOMAIN req.def \subseteq Existing IN
  /\ At("activate")
  /\ \/ /\ complete /\ Works
        /\ count' = [k \in Keys |->
             IF k \in DOMAIN req.def THEN req.def[k]
             ELSE IF count[k] = None THEN None ELSE LOCKED]
        /\ req' = [req EXCEPT !.pc = "cleanup", !.made = <<>>]
     \/ /\ \/ ~complete /\ Works
           \/ Fails("db")
        /\ FailBeforeActivation /\ UNCHANGED count
  /\ UNCHANGED <<schema, flag, image, insts>>

-----------------------------------------------------------------------------
(* stopInstance, wherever it is called                                     *)

\* The instance in hand: <<build, position>>, or none.
Crowded == {k \in Locked : insts[k] # <<>>}

Surplus(k) == /\ req.def[k] # DYNAMIC_INSTANCES
              /\ req.def[k] + req.at < Len(insts[k])

Stopping ==
  CASE At("rollback") /\ req.made # <<>> -> {Last(req.made)}
    [] At("cleanup") /\ Crowded # {}     -> {<<CHOOSE k \in Crowded : TRUE, 1>>}
    [] At("reduce") /\ req.todo # {} /\ Surplus(Current)
         -> {<<Current, req.def[Current] + req.at + 1>>}
    [] OTHER -> {}

\* Its containers, its network and its row go.
Stopped(x) == /\ Works
              /\ insts' = [insts EXCEPT ![x[1]] = RemoveAt(@, x[2])]

\* An error keeps the row, with or without all the containers.
Halved(x) == [insts EXCEPT ![x[1]][x[2]] = "part"]

StopFails(x) == /\ Fails("docker") \/ Fails("db")
                /\ insts' \in {insts, Halved(x)}

\* Mistake: all the instances of the build are stopped.
RollBackBuild ==
  /\ At("rollback")
  /\ IF req.made = <<>> THEN Goto("end") /\ UNCHANGED insts
     ELSE /\ req' = [req EXCEPT !.made = Front(@)]
          /\ insts' = [insts EXCEPT ![Last(req.made)[1]] = <<>>]
  /\ UNCHANGED <<schema, builds, faults>>

\* failBeforeActivation stops the instances it created, last one first, and
\* goes on after errors.
RollBack ==
  /\ At("rollback")
  /\ \/ /\ \E x \in Stopping : Stopped(x) \/ StopFails(x)
        /\ req' = [req EXCEPT !.made = Front(@)]
     \/ req.made = <<>> /\ Works /\ Goto("end") /\ UNCHANGED insts
  /\ UNCHANGED <<schema, builds>>

-----------------------------------------------------------------------------
(* After the activation                                                    *)

\* cleanupSchemaResources is over.  DeleteSchema and an abandoned
\* CreateSchema delete the record if it succeeded.
CleanedUp(good) ==
  IF req.after = "reduce"
  THEN req' = [req EXCEPT !.pc = "reduce", !.todo = DOMAIN req.def, !.at = 0,
                          !.errs = @ \/ ~good]
  ELSE IF good THEN Goto("record") ELSE req' = Idle

Doomed == CHOOSE k \in Locked : TRUE

\* It first stops the instances of locked builds, then calls destroyImages
\* for the builds, and returns at the first error.  destroyImages removes
\* what the row of the build lists, which is nothing before finalizeBuild,
\* and then the row.
CleanUp ==
  /\ At("cleanup")
  /\ \/ /\ \E x \in Stopping : \/ Stopped(x) /\ UNCHANGED req
                               \/ StopFails(x) /\ CleanedUp(FALSE)
        /\ UNCHANGED image
     \/ /\ Crowded = {} /\ Locked # {}
        /\ \/ /\ Works
              /\ image' = [image EXCEPT ![Doomed] = @ /\ ~flag[Doomed]]
              /\ Goto("erase")
           \/ /\ Fails("docker") \/ Fails("db")
              /\ image' \in {image, [image EXCEPT ![Doomed] = @ /\ ~flag[Doomed]]}
              /\ CleanedUp(FALSE)
        /\ UNCHANGED insts
     \/ /\ Locked = {} /\ Works
        /\ CleanedUp(TRUE)
        /\ UNCHANGED <<image, insts>>
  /\ UNCHANGED <<schema, count, flag>>

EraseBuild ==
  /\ At("erase")
  /\ \/ Works /\ RemoveBuildMetadata(Doomed) /\ Goto("cleanup")
     \/ Fails("db") /\ CleanedUp(FALSE) /\ UNCHANGED <<count, flag>>
  /\ UNCHANGED <<schema, image, insts>>

\* Mistake: one instance too many is kept.
ReduceOneLess ==
  LET k == Current IN
  /\ At("reduce")
  /\ IF req.todo = {} THEN Goto("end") /\ UNCHANGED insts
     ELSE IF Len(insts[k]) > req.def[k] + 1 /\ Surplus(k)
     THEN insts' = [insts EXCEPT ![k] = Front(@)] /\ UNCHANGED req
     ELSE Visited /\ UNCHANGED insts
  /\ UNCHANGED <<schema, builds, faults>>

\* Reductions: the instances after the first def[k] are stopped; an error
\* leaves one and goes on.
Reduce ==
  /\ At("reduce")
  /\ \/ \E x \in Stopping :
          \/ Stopped(x) /\ UNCHANGED req
          \/ StopFails(x) /\ req' = [req EXCEPT !.at = @ + 1, !.errs = TRUE]
     \/ req.todo # {} /\ ~Surplus(Current) /\ Works /\ Visited
        /\ UNCHANGED insts
     \/ /\ req.todo # {} /\ Fails("db") /\ UNCHANGED insts
        /\ req' = [req EXCEPT !.todo = @ \ {Current}, !.at = 0, !.errs = TRUE]
     \/ req.todo = {} /\ Works /\ Goto("end") /\ UNCHANGED insts
  /\ UNCHANGED <<schema, builds>>

\* The request returns, unless it is a CreateSchema that failed before
\* anything was activated: that one takes everything back.
End ==
  /\ At("end")
  /\ IF req.kind = "create" /\ req.errs /\ Active = {}
     THEN \/ /\ Works
             /\ req' = [req EXCEPT !.pc = "cleanup", !.after = "record"]
          \/ Fails("db") /\ req' = Idle
     ELSE Works /\ req' = Idle
  /\ UNCHANGED <<schema, builds, insts>>

\* deleteSchemaRecord
DeleteRecord ==
  /\ At("record")
  /\ \/ Existing = {} /\ Works /\ schema' = FALSE
     \/ /\ \/ Existing # {} /\ Works
           \/ Fails("db")
        /\ UNCHANGED schema
  /\ req' = Idle
  /\ UNCHANGED <<builds, insts>>

-----------------------------------------------------------------------------
(* Between requests                                                        *)

\* Start and Stop: only builds whose instances are the clients' to manage.
\* A Start that fails may leave its row.
ClientStart(k) ==
  /\ At("idle") /\ count[k] = DYNAMIC_INSTANCES
  /\ Len(insts[k]) < MaxInstances
  /\ \/ /\ image[k] /\ Works
        /\ insts' = [insts EXCEPT ![k] = Append(@, "up")]
     \/ /\ Fails("db")
        /\ insts' = [insts EXCEPT ![k] = Append(@, "part")]
  /\ UNCHANGED <<schema, builds, req>>

ClientStop(k, j) ==
  /\ At("idle") /\ count[k] = DYNAMIC_INSTANCES /\ j <= Len(insts[k])
  /\ Stopped(<<k, j>>) \/ StopFails(<<k, j>>)
  /\ UNCHANGED <<schema, builds, req>>

\* Start-up recovery removes the instances without all their containers and
\* brings a build that lost some back to its target; of the builds in spared
\* it keeps them, and it starts nothing for those in failed.
Recovered(k, failed) ==
  LET up   == Cardinality({j \in DOMAIN insts[k] : insts[k][j] = "up"})
      size == IF up # Len(insts[k]) /\ k \notin failed /\ image[k]
                 /\ count[k] > up
              THEN count[k] ELSE up
  IN  [j \in 1 .. size |-> "up"]

Recover ==
  /\ At("idle")
  /\ \/ /\ Works
        /\ insts' = [k \in Keys |-> Recovered(k, {})]
     \/ /\ Fails("docker") \/ Fails("db")
        /\ \E spared, failed \in SUBSET Existing :
             insts' = [k \in Keys |-> IF k \in spared THEN insts[k]
                                      ELSE Recovered(k, failed)]
  /\ UNCHANGED <<schema, builds, req>>

\* The process dies, perhaps in the middle of stopping an instance.
Crash ==
  /\ ~At("idle") /\ Fails("crash")
  /\ insts' \in {insts} \cup {Halved(x) : x \in Stopping}
  /\ req' = Idle
  /\ UNCHANGED <<schema, builds>>

Step ==
  \/ StageBuild \/ GenerateBuild \/ FinalizeBuild \/ DiscardBuild \/ DropBuild
  \/ ScaleUp \/ StartInstance \/ UndoInstance \/ ActivateBuilds \/ RollBack
  \/ CleanUp \/ EraseBuild \/ Reduce \/ End \/ DeleteRecord

Next ==
  \/ \E d \in Definitions : CreateSchema(d) \/ UpdateSchema(d)
  \/ DeleteSchema
  \/ Step
  \/ \E k \in Keys : ClientStart(k) \/ \E j \in 1 .. MaxInstances :
                                         ClientStop(k, j)
  \/ Recover
  \/ Crash

Spec == Init /\ [][Next]_vars

-----------------------------------------------------------------------------
(* Safety                                                                  *)

\* The definition in force: the builds that are not locked and their counts.
InForce(d) == \A k \in Keys : IF k \in DOMAIN d THEN count[k] = d[k]
                              ELSE k \notin Active

\* A schema is never between two definitions: whatever fails and wherever the
\* process dies, the builds in force are those of one whole definition, or
\* there are none.
WholeDefinition ==
  Active = {} \/ \E d \in Definitions \cup Deployed : InForce(d)

\* A build is in force, and instances of it are started, only after
\* finalizeBuild: staged rows of an interrupted request never serve.
OnlyFinishedServe ==
  \A k \in Keys : k \in Active \/ insts[k] # <<>> => k \in Existing /\ flag[k]

\* Instances of k that run and were not created by this request.
Made(k)  == Cardinality({j \in DOMAIN req.made : req.made[j][1] = k})
Prior(k) == Cardinality({j \in DOMAIN insts[k] : insts[k][j] = "up"}) - Made(k)

\* Until the new definition is activated, and while a failed attempt is
\* rolled back, no build in force loses an instance it had or its target.
Staging == {"stage", "generate", "finalize", "discard", "drop", "scale",
            "start", "undo", "activate", "rollback"}

PriorCapacityKept ==
  [][req.pc \in Staging /\ req'.pc \in Staging \cup {"end"} =>
       \A k \in Active : count'[k] = count[k] /\ Prior(k)' >= Prior(k)]_vars

\* Exactly the builds of d, each with as many instances as it should have.
Settled(d) ==
  /\ InForce(d) /\ Existing = DOMAIN d
  /\ \A k \in Existing : count[k] = DYNAMIC_INSTANCES
                           \/ Len(insts[k]) = count[k]

\* A CreateSchema or UpdateSchema that reports no error leaves exactly the
\* builds it was asked for, each with as many instances as it was asked for.
\* An instance counts by its row, which outlives a stop that failed.
ConvergedExactly == At("end") /\ ~req.errs => Settled(req.def)

\* A build in force has its images: clients can start it.
ActiveBuildsRunnable == \A k \in Active : image[k]

-----------------------------------------------------------------------------
(* Liveness                                                                *)

FairSpec ==
  /\ Spec /\ WF_vars(Step)
  /\ \A d \in Definitions : WF_vars(UpdateSchema(d))

\* The build rows that say so do have images, see ActiveBuildsRunnable.
Intact == At("idle") => \A k \in Keys : flag[k] => image[k]

\* Clients that ask for one definition again and again get it, however the
\* earlier attempts were interrupted: nothing that failures and crashes leave
\* behind makes the later attempts fail, except a row without its images.
RetriesConverge ==
  \A d \in Definitions :
    <>[](/\ Intact
         /\ req.kind \in {"none", "update"} /\ req.def \in {Empty, d})
      => <>[]Settled(d) \/ <>[](~schema)
=============================================================================
